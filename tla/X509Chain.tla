----------------------------- MODULE X509Chain -----------------------------
(***************************************************************************)
(* Certificates by index.  A chain of mbedtls is a linked list whose head  *)
(* is part of the structure and, when nothing was parsed, is there but     *)
(* empty (raw.p is NULL).  The X.509 bindings, X509CrtCount and the peer   *)
(* certificate option of the connection end walk it, node by node; the     *)
(* accessors and the option do so with an index the client chose.          *)
(***************************************************************************)
EXTENDS Integers, Sequences

CONSTANTS
    CertSize,   \* the certificates and their sizes
    LongTexts,  \* those with a name or number too long for an accessor's buffer
    Indices,    \* indices a client asks for
    Lengths,    \* sizes of the buffer a client passes with the option
    MaxChain    \* bound: certificates in the chain

Certs == DOMAIN CertSize

ASSUME ChainAssumption ==
    /\ CertSize \in [Certs -> Nat] /\ LongTexts \subseteq Certs
    /\ Indices \subseteq Int /\ Lengths \subseteq Nat /\ MaxChain \in Nat

VARIABLES
    crtChain,  \* the certificates of the list; empty: raw.p is NULL
    call,      \* the last call: who, its index, the size of its buffer
    walking,   \* it is still in progress
    index,     \* what is left of the index; for X509CrtCount, the count
    crt,       \* position in the list; 0 is NULL
    answer     \* what it returned

chainVarsAll == <<crtChain, call, walking, index, crt, answer>>

ChainInit ==
    /\ crtChain = <<>>
    /\ call = [who |-> "nobody", ix |-> 0, length |-> 0]
    /\ walking = FALSE
    /\ index = 0 /\ crt = 0
    /\ answer = [is |-> "none"]

\* mbedtls_x509_crt_parse, or a handshake, adds a certificate at the end; a
\* structure is freed, or a session reset (external).
ChangeChain(list) ==
    /\ ~walking
    /\ crtChain' = list
    /\ call' = [who |-> "nobody", ix |-> 0, length |-> 0]
    /\ answer' = [is |-> "none"]
    /\ UNCHANGED <<walking, index, crt>>

ParseInto(c) == Len(crtChain) < MaxChain /\ ChangeChain(Append(crtChain, c))
FreeChain == crtChain # <<>> /\ ChangeChain(<<>>)

NextNode == IF crt < Len(crtChain) THEN crt + 1 ELSE 0

Starts(who, ix, length) ==
    /\ ~walking
    /\ call' = [who |-> who, ix |-> ix, length |-> length]
    /\ walking' = TRUE
    /\ crt' = IF crtChain = <<>> THEN 0 ELSE 1
    /\ answer' = [is |-> "none"]
    /\ UNCHANGED crtChain

Ends(result) ==
    /\ walking' = FALSE
    /\ answer' = result
    /\ UNCHANGED <<crtChain, call, index, crt>>

\* X509CrtCount counts the nodes after the first, if that is not empty.
X509CrtCount ==
    \/ Starts("count", 0, 0) /\ index' = IF crtChain = <<>> THEN 0 ELSE 1
    \/ /\ walking /\ call.who = "count"
       /\ crt # 0 /\ NextNode # 0
       /\ crt' = NextNode /\ index' = index + 1
       /\ UNCHANGED <<crtChain, call, walking, answer>>
    \/ /\ walking /\ call.who = "count"
       /\ crt = 0 \/ NextNode = 0
       /\ Ends([is |-> "number", number |-> index])

\* Mutant: the test for the end of the list comes after the last step.
WalkFar(failure) ==
    /\ walking /\ index # 0 /\ crt # 0
    /\ IF NextNode = 0 /\ index # 1 THEN Ends(failure)
       ELSE /\ crt' = IF NextNode = 0 THEN crt ELSE NextNode
            /\ index' = index - 1
            /\ UNCHANGED <<crtChain, call, walking, answer>>

\* One turn of the loop: the next node, and NULL is the end of it.
Walk(failure) ==
    /\ walking /\ index # 0 /\ crt # 0
    /\ IF NextNode = 0 THEN Ends(failure)
       ELSE /\ crt' = NextNode
            /\ index' = index - 1
            /\ UNCHANGED <<crtChain, call, walking, answer>>

\* X509CrtGetVersion and the accessors like it; the index may be negative.
\* All but the version throw when mbedtls cannot write the text (r < 0).
X509CrtGet ==
    \/ \E ix \in Indices : Starts("accessor", ix, 0) /\ index' = ix
    \/ walking /\ call.who = "accessor" /\ crt = 0 /\ Ends([is |-> "out of bounds"])
    \/ call.who = "accessor" /\ Walk([is |-> "out of bounds"])
    \/ /\ walking /\ call.who = "accessor" /\ index = 0 /\ crt # 0
       /\ Ends([is |-> "certificate", cert |-> crtChain[crt]])
    \/ /\ walking /\ call.who = "accessor" /\ index = 0 /\ crt # 0
       /\ crtChain[crt] \in LongTexts
       /\ Ends([is |-> "thrown", cert |-> crtChain[crt]])

\* X509CrtGetDER does not look at its index: the first certificate, or nil.
X509CrtGetDER ==
    \/ \E ix \in Indices : Starts("der", ix, 0) /\ index' = ix
    \/ /\ walking /\ call.who = "der"
       /\ Ends(IF crt = 0 THEN [is |-> "nil"]
               ELSE [is |-> "certificate", cert |-> crtChain[crt]])

\* The option copies the certificate if the client's buffer is large enough,
\* and always tells its size.  Without a peer certificate it follows NULL.
PeerCertificateOption ==
    \/ \E ix \in Indices \cap Nat, length \in Lengths :
          Starts("option", ix, length) /\ index' = ix
    \/ call.who = "option" /\ Walk([is |-> "failure"])
    \/ walking /\ call.who = "option" /\ crt = 0 /\ Ends([is |-> "undefined"])
    \/ /\ walking /\ call.who = "option" /\ index = 0 /\ crt # 0
       /\ LET c == crtChain[crt]
              size == CertSize[c]
          IN  Ends([is |-> "success", length |-> size,
                    copied |-> IF size <= call.length THEN <<c>> ELSE <<>>])

ChainNext ==
    \/ \E c \in Certs : ParseInto(c)
    \/ FreeChain
    \/ X509CrtCount \/ X509CrtGet \/ X509CrtGetDER \/ PeerCertificateOption

ChainSpec == ChainInit /\ [][ChainNext]_chainVarsAll

-----------------------------------------------------------------------------
\* A call that is over gave exactly what its index denotes.  The accessors
\* and the option find a certificate if and only if 0 <= index < X509CrtCount,
\* for negative indices and an empty chain too, and then that certificate (an
\* accessor may throw all the same, if its text is too long); the option
\* never writes more than the client's buffer, and tells the size in any case.
\* Two things are as they are: the option needs a peer certificate, and the
\* DER is that of the first certificate.
AccessorExact ==
    ~walking =>
        LET inChain == call.ix \in 0 .. Len(crtChain) - 1
            c == crtChain[call.ix + 1]
        IN  CASE call.who = "count" -> answer = [is |-> "number", number |-> Len(crtChain)]
              [] call.who = "accessor" ->
                    IF inChain
                    THEN \/ answer = [is |-> "certificate", cert |-> c]
                         \/ c \in LongTexts /\ answer = [is |-> "thrown", cert |-> c]
                    ELSE answer = [is |-> "out of bounds"]
              [] call.who = "der" ->
                    answer = IF crtChain = <<>> THEN [is |-> "nil"]
                             ELSE [is |-> "certificate", cert |-> crtChain[1]]
              [] call.who = "option" /\ crtChain # <<>> ->
                    IF inChain
                    THEN /\ answer.is = "success" /\ answer.length = CertSize[c]
                         /\ answer.copied = IF CertSize[c] <= call.length THEN <<c>> ELSE <<>>
                    ELSE answer = [is |-> "failure"]
              [] OTHER -> TRUE
=============================================================================
