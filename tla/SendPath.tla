------------------------------ MODULE SendPath ------------------------------
(***************************************************************************)
(* The sending half of PMbedTLSConnectionEnd: what happens to the TLS      *)
(* bytes between mbedtls (which hands them to SSLSendCallback) and the     *)
(* Newton Internet Enabler's connection end (NIE, mInetPConnectionEnd),    *)
(* which takes them out of mPutDataBuffer and answers with PutCompleteCB.  *)
(*                                                                         *)
(* The bytes of one connection are numbered 1, 2, 3 ... in the order       *)
(* mbedtls wrote them.  A CBufferList is the sequence of its bytes (the    *)
(* code always moves every segment of mSendBuffer at once, so segment      *)
(* boundaries do not matter) and, for mPutDataBuffer, a read position.     *)
(*                                                                         *)
(* Everything runs in the communication tool's task.  PutBytesStart is the *)
(* last thing its callers do with this state, so a completion NIE delivers *)
(* from inside PutBytesStart and one it delivers later are the same step.  *)
(***************************************************************************)
EXTENDS Naturals, Sequences, TransportLink

CONSTANTS
    MaxWritten,   \* bound: bytes mbedtls writes in one connection
    MaxChunk      \* bound: bytes of one call of SSLSendCallback

ASSUME SendBounds == MaxWritten \in Nat /\ MaxChunk \in Nat \ {0}

VARIABLES
    mSendBuffer,     \* bytes waiting for the current inner Put to end
    mPutDataBuffer,  \* bytes handed to NIE
    putPosition,     \* read position of mPutDataBuffer: NIE took this many
    mSendPending,    \* an inner PutBytesStart has not been answered
    mSendError,      \* sticky result of a failed inner Put
    niePuts,         \* external: Puts of ours NIE has not completed
    written,         \* history: bytes SSLSendCallback accepted
    wire             \* history: bytes NIE took, in order

sendVars == <<mSSLConfigured, mSendBuffer, mPutDataBuffer, putPosition,
              mSendPending, mSendError, niePuts, nieUp, written, wire>>

SendErrors == {"noErr", "error"}

SendInit ==
    /\ mSSLConfigured = FALSE
    /\ mSendBuffer = <<>> /\ mPutDataBuffer = <<>> /\ putPosition = 0
    /\ mSendPending = FALSE /\ mSendError = "noErr"
    /\ niePuts = 0 /\ nieUp = FALSE
    /\ written = 0 /\ wire = <<>>

AtEOF == putPosition = Len(mPutDataBuffer)

(***************************************************************************)
(* SSLConfigure and SSLUnconfigure, as far as sending goes.  The code has  *)
(* no guard; a connection is configured either before NIE connects         *)
(* (ConnectStart) or as the upgrade of a clear connection, and NIE is then *)
(* holding no buffer of ours.                                              *)
(***************************************************************************)
SendConfigure ==
    /\ niePuts = 0
    /\ ~mSSLConfigured \/ ~nieUp
    /\ mSSLConfigured' = TRUE
    /\ mSendBuffer' = <<>> /\ mPutDataBuffer' = <<>> /\ putPosition' = 0
    /\ mSendPending' = FALSE /\ mSendError' = "noErr"
    /\ written' = 0 /\ wire' = <<>>
    /\ UNCHANGED <<niePuts, nieUp>>

\* mSendPending and mSendError keep their values; the buffers are deleted.
SendUnconfigure ==
    /\ mSSLConfigured
    /\ mSSLConfigured' = FALSE
    /\ mSendBuffer' = <<>> /\ mPutDataBuffer' = <<>> /\ putPosition' = 0
    /\ UNCHANGED <<mSendPending, mSendError, niePuts, nieUp, written, wire>>

(***************************************************************************)
(* SSLSendCallback with len = n.  With mSendError set it returns the error *)
(* and changes nothing.                                                    *)
(***************************************************************************)
NewBytes(n) == [i \in 1 .. n |-> written + i]

SSLSendCallback(n) ==
    /\ mSSLConfigured
    /\ mSendError = "noErr"
    /\ written + n <= MaxWritten
    /\ written' = written + n
    /\ IF mSendPending
       THEN /\ mSendBuffer' = mSendBuffer \o NewBytes(n)
            /\ UNCHANGED <<mPutDataBuffer, mSendPending, niePuts>>
       ELSE /\ mPutDataBuffer' = mPutDataBuffer \o (mSendBuffer \o NewBytes(n))
            /\ mSendBuffer' = <<>>
            /\ mSendPending' = TRUE
            /\ niePuts' = niePuts + 1
    /\ UNCHANGED <<mSSLConfigured, putPosition, mSendError, nieUp, wire>>

(***************************************************************************)
(* PutCompleteCB for a Put of ours.                                        *)
(***************************************************************************)
\* Mutant: the failed Put is started again.
PutFailedRetries ==
    /\ mSendPending' = TRUE
    /\ mSendError' = "error"
    /\ UNCHANGED <<mSendBuffer, mPutDataBuffer, putPosition, niePuts>>

PutFailed ==
    /\ mSendPending' = FALSE
    /\ mSendError' = "error"
    /\ niePuts' = niePuts - 1
    /\ UNCHANGED <<mSendBuffer, mPutDataBuffer, putPosition>>

\* Mutant: what piled up during the Put is not put.
PutNextBatchForgets ==
    /\ AtEOF
    /\ mPutDataBuffer' = <<>>
    /\ putPosition' = 0
    /\ mSendPending' = FALSE
    /\ niePuts' = niePuts - 1
    /\ UNCHANGED <<mSendBuffer, mSendError>>

\* Everything was taken: DeleteAll, then put whatever piled up meanwhile.
PutNextBatch ==
    /\ AtEOF
    /\ mPutDataBuffer' = mSendBuffer
    /\ putPosition' = 0
    /\ mSendBuffer' = <<>>
    /\ mSendPending' = (mSendBuffer # <<>>)
    /\ niePuts' = IF mSendBuffer # <<>> THEN niePuts ELSE niePuts - 1
    /\ UNCHANGED mSendError

\* Mutant: the buffer is rewound before it is put again.
PutRestRewinds ==
    /\ ~AtEOF
    /\ mSendPending' = TRUE
    /\ putPosition' = 0
    /\ UNCHANGED <<mSendBuffer, mPutDataBuffer, mSendError, niePuts>>

\* NIE took only a part: put the same buffer again.
PutRest ==
    /\ ~AtEOF
    /\ mSendPending' = TRUE
    /\ UNCHANGED <<mSendBuffer, mPutDataBuffer, putPosition, mSendError, niePuts>>

PutCompleteCB(result) ==
    /\ mSSLConfigured
    /\ niePuts > 0
    /\ IF result # "noErr" THEN PutFailed ELSE PutNextBatch \/ PutRest
    /\ UNCHANGED <<mSSLConfigured, nieUp, written, wire>>

(***************************************************************************)
(* NIE, seen from here (external): it takes bytes off the buffer it was    *)
(* given, its connection comes up and goes down; going down, it lets go of *)
(* an unfinished Put without an answer (it may also fail it first).  A     *)
(* connection comes up clear or freshly configured: ConnectStart runs      *)
(* SSLConfigure again for every connection with SSL enabled.               *)
(***************************************************************************)
NIETakes ==
    /\ niePuts > 0 /\ nieUp
    /\ putPosition < Len(mPutDataBuffer)
    /\ wire' = Append(wire, mPutDataBuffer[putPosition + 1])
    /\ putPosition' = putPosition + 1
    /\ UNCHANGED <<mSSLConfigured, mSendBuffer, mPutDataBuffer, mSendPending,
                   mSendError, niePuts, nieUp, written>>

NIEUp ==
    /\ ~nieUp
    /\ mSSLConfigured => written = 0
    /\ nieUp' = TRUE
    /\ UNCHANGED <<mSSLConfigured, mSendBuffer, mPutDataBuffer, putPosition,
                   mSendPending, mSendError, niePuts, written, wire>>

NIEDown ==
    /\ nieUp
    /\ nieUp' = FALSE
    /\ niePuts' = 0
    /\ UNCHANGED <<mSSLConfigured, mSendBuffer, mPutDataBuffer, putPosition,
                   mSendPending, mSendError, written, wire>>

SendNext ==
    \/ SendConfigure
    \/ SendUnconfigure
    \/ \E n \in 1 .. MaxChunk : SSLSendCallback(n)
    \/ \E result \in SendErrors : PutCompleteCB(result)
    \/ NIETakes
    \/ NIEUp
    \/ NIEDown

SendSpec == SendInit /\ [][SendNext]_sendVars

\* NIE goes on taking bytes and answering Puts for as long as it is up.
SendFairness ==
    /\ WF_sendVars(NIETakes)
    /\ WF_sendVars(PutCompleteCB("noErr"))

-----------------------------------------------------------------------------
(***************************************************************************)
(* Properties.                                                             *)
(***************************************************************************)

\* Types and ranges of the sending half's state.
SendTypeOK ==
    /\ mSSLConfigured \in BOOLEAN
    /\ mSendBuffer \in Seq(Nat)
    /\ mPutDataBuffer \in Seq(Nat)
    /\ putPosition \in 0 .. Len(mPutDataBuffer)
    /\ mSendPending \in BOOLEAN
    /\ mSendError \in SendErrors
    /\ niePuts \in Nat
    /\ nieUp \in BOOLEAN
    /\ written \in Nat
    /\ wire \in Seq(Nat)

\* The bytes NIE took and was given but has not taken, by their number.
Handed == Len(wire) + Len(mPutDataBuffer) - putPosition
WireInOrder == \A i \in 1 .. Len(wire) : wire[i] = i
PutInOrder ==
    \A i \in 1 .. Len(mPutDataBuffer) : mPutDataBuffer[i] = Len(wire) - putPosition + i
WaitingInOrder == \A i \in 1 .. Len(mSendBuffer) : mSendBuffer[i] = Handed + i
AllAccountedFor == written = Handed + Len(mSendBuffer)

\* What NIE took, the rest of mPutDataBuffer and mSendBuffer are, one after
\* the other, exactly the bytes mbedtls wrote: SSLSendCallback and
\* PutCompleteCB lose, duplicate and reorder nothing, whatever part of a
\* buffer NIE takes before it completes a Put.
SendInOrder ==
    mSSLConfigured => WireInOrder /\ PutInOrder /\ WaitingInOrder /\ AllAccountedFor

\* The inner connection end never has two Puts of ours at a time, although
\* Puts are started both by SSLSendCallback and from inside PutCompleteCB.
OneInnerPut == niePuts <= 1

\* No byte is stranded: while the connection is up and no Put has failed,
\* bytes that were written and not taken are with NIE or behind a Put that
\* NIE has yet to answer.
NothingStranded ==
    mSSLConfigured /\ nieUp /\ mSendError = "noErr" /\ written > Len(wire)
        => niePuts = 1

\* After a Put failed nothing more of that connection reaches the wire: the
\* error is sticky, so the peer never sees a stream with a hole in it.
QuietAfterError ==
    [][mSSLConfigured /\ mSSLConfigured' /\ mSendError = "error" =>
          wire' = wire \/ mSendError' = "noErr"]_sendVars

\* Every byte mbedtls wrote reaches the wire, unless a Put fails or the
\* connection ends.
AllBytesTaken ==
    \A n \in 1 .. MaxWritten :
        written >= n /\ Len(wire) < n
            ~> Len(wire) >= n \/ mSendError = "error" \/ ~mSSLConfigured \/ ~nieUp

\* The sending half implements the reliable byte stream.
Stream == INSTANCE ByteStream WITH accepted <- written, delivered <- wire

SendImplementsStream == Stream!StreamSpec
=============================================================================
