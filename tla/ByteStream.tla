----------------------------- MODULE ByteStream -----------------------------
(***************************************************************************)
(* What either direction of the TLS connection end promises to its user:   *)
(* a reliable byte stream.  The writer's bytes are numbered 1, 2, 3 ... in *)
(* the order they were accepted; the reader gets them in that order, each  *)
(* once, none skipped, and only bytes that were accepted.  A stream may    *)
(* stop delivering for good (the connection failed or was torn down), and  *)
(* starts over empty with a new connection.                                *)
(*                                                                         *)
(* SendPath and RecvPath are checked to implement this specification.      *)
(***************************************************************************)
EXTENDS Naturals, Sequences

VARIABLES
    accepted,   \* number of bytes the writer handed over
    delivered   \* the bytes the reader got, in the order it got them

streamVars == <<accepted, delivered>>

StreamInit == accepted = 0 /\ delivered = <<>>

\* The stream takes one or more bytes from the writer.
Accept ==
    /\ accepted' \in Nat
    /\ accepted' > accepted
    /\ UNCHANGED delivered

\* The reader gets the next bytes: delivered grows by the successors of its
\* last byte, never past what was accepted.
Deliver ==
    /\ delivered' \in Seq(Nat)
    /\ Len(delivered') \in Len(delivered) + 1 .. accepted
    /\ \A i \in 1 .. Len(delivered') :
          delivered'[i] = IF i <= Len(delivered) THEN delivered[i] ELSE i
    /\ UNCHANGED accepted

\* A new connection starts an empty stream.
Restart == accepted' = 0 /\ delivered' = <<>>

StreamNext == Accept \/ Deliver \/ Restart

StreamSpec == StreamInit /\ [][StreamNext]_streamVars
=============================================================================
