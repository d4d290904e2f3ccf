------------------------------ MODULE RecvPath ------------------------------
(***************************************************************************)
(* The receiving half of PMbedTLSConnectionEnd: how mbedtls gets the       *)
(* peer's bytes.  mbedtls (external) asks for bytes through                *)
(* SSLRecvCallback, which asks NIE with GetBytesImmediateStart.  NIE       *)
(* answers with GetCompleteCB, either from inside that call or later.  A   *)
(* late answer is turned into a TLS event posted to the connection end's   *)
(* own port; HandleRequest then runs mbedtls again.                        *)
(*                                                                         *)
(* The peer's TLS bytes are numbered 1, 2, 3 ...  mbedtls fetches a        *)
(* record piece by piece: in mbedtls_ssl_fetch_input it calls f_recv until *)
(* it has what it wants, and f_recv is never asked for more than is still  *)
(* missing, so "want" only shrinks by what f_recv returned.                *)
(*                                                                         *)
(* recvPc is the task's place in this code: "out" of fetch_input, about to *)
(* call SSLRecvCallback ("fetch"), inside NIE's GetBytesImmediateStart     *)
(* ("inner"), or past it ("copy").                                         *)
(***************************************************************************)
EXTENDS Naturals, Sequences, TransportLink

CONSTANTS
    MaxPeer,    \* bound: TLS bytes the peer sends in one connection
    MaxWant,    \* bound: bytes of one fetch_input
    SyncEOF     \* may NIE report the end of the stream from inside
                \* GetBytesImmediateStart?

ASSUME RecvBounds == MaxPeer \in Nat /\ MaxWant \in Nat \ {0} /\ SyncEOF \in BOOLEAN

VARIABLES
    mSSLRecvBuffer,         \* bytes NIE gave and mbedtls has not copied
    mGetSize,               \* size of the segment in mGetDataBuffer
    mRecvPending,           \* an inner Get has not been answered
    mSSLReceiveInProgress,  \* the inner Get call is on the stack
    mRecvError,             \* sticky result of a failed inner Get
    mPeerClosed,            \* NIE reported the end of the stream
    tlsEvent,               \* mAsyncReadMessage is queued at our port
    recvPc,                 \* see above
    want,                   \* external: bytes fetch_input still misses
    fetchRet,               \* external: how the last fetch_input returned
    readsOver,              \* external: mbedtls fetches no more in this session
    nieGets,                \* external: Gets of ours NIE has not completed
    peerSent,               \* external: TLS bytes the peer has sent
    peerDone,               \* external: the peer closed its side
    given,                  \* external: how many of them NIE has given us
    received                \* history: bytes copied to mbedtls, in order

recvVars == <<mSSLConfigured, mSSLRecvBuffer, mGetSize, mRecvPending,
              mSSLReceiveInProgress, mRecvError, mPeerClosed, tlsEvent, recvPc,
              want, fetchRet, readsOver, nieGets, nieUp, peerSent, peerDone,
              given, received>>

mbedVars == <<want, fetchRet, readsOver, received>>
nieVars  == <<nieGets, nieUp, peerSent, peerDone, given>>
ceVars   == <<mSSLConfigured, mSSLRecvBuffer, mGetSize, mRecvPending,
              mSSLReceiveInProgress, mRecvError, mPeerClosed, tlsEvent>>

RecvErrors == {"noErr", "error"}
FetchReturns == {"none", "ok", "wantRead", "eof", "error"}

\* What a read past the end of mSSLRecvBuffer finds: not a byte of the stream.
Garbage == 0

Smaller(a, b) == IF a < b THEN a ELSE b

RecvInit ==
    /\ mSSLConfigured = FALSE /\ mSSLRecvBuffer = <<>> /\ mGetSize = 0
    /\ mRecvPending = FALSE /\ mSSLReceiveInProgress = FALSE
    /\ mRecvError = "noErr" /\ mPeerClosed = FALSE /\ tlsEvent = FALSE
    /\ recvPc = "out" /\ want = 0 /\ fetchRet = "none" /\ readsOver = FALSE
    /\ nieGets = 0 /\ nieUp = FALSE
    /\ peerSent = 0 /\ peerDone = FALSE /\ given = 0 /\ received = <<>>

(***************************************************************************)
(* SSLConfigure and SSLUnconfigure, as far as receiving goes.  As in       *)
(* SendPath, NIE holds no buffer of ours when a connection is configured.  *)
(* The port delivers in order, so an event of an earlier connection was    *)
(* handled before the request that configures the next.  Deleting          *)
(* mAsyncReadMessage takes it off the port.                                *)
(***************************************************************************)
RecvConfigure ==
    /\ recvPc = "out" /\ nieGets = 0 /\ ~tlsEvent
    /\ ~mSSLConfigured \/ ~nieUp
    /\ mSSLConfigured' = TRUE /\ mSSLRecvBuffer' = <<>> /\ mGetSize' = 0
    /\ mRecvPending' = FALSE /\ mSSLReceiveInProgress' = FALSE
    /\ mRecvError' = "noErr" /\ mPeerClosed' = FALSE
    /\ want' = 0 /\ fetchRet' = "none" /\ readsOver' = FALSE
    /\ peerSent' = 0 /\ peerDone' = FALSE /\ given' = 0 /\ received' = <<>>
    /\ UNCHANGED <<tlsEvent, recvPc, nieGets, nieUp>>

RecvUnconfigure ==
    /\ recvPc = "out" /\ mSSLConfigured
    /\ mSSLConfigured' = FALSE /\ mSSLRecvBuffer' = <<>> /\ mGetSize' = 0
    /\ tlsEvent' = FALSE
    /\ UNCHANGED <<mRecvPending, mSSLReceiveInProgress, mRecvError, mPeerClosed,
                   recvPc, mbedVars, nieVars>>

(***************************************************************************)
(* mbedtls (external): fetch_input is entered, for n bytes or for what an  *)
(* earlier call still misses; its result is used up (a record was parsed,  *)
(* an end of stream passed on); or the session is over, because it was     *)
(* reset after an error or because it is closing.                          *)
(***************************************************************************)
FetchInput(n) ==
    /\ recvPc = "out" /\ mSSLConfigured /\ ~readsOver
    /\ recvPc' = "fetch"
    /\ want' = IF want = 0 THEN n ELSE want
    /\ fetchRet' = "none"
    /\ UNCHANGED <<ceVars, readsOver, received, nieVars>>

FetchUsed ==
    /\ recvPc = "out" /\ mSSLConfigured
    /\ fetchRet \in {"ok", "eof", "error"}
    /\ fetchRet' = "none"
    /\ UNCHANGED <<ceVars, recvPc, want, readsOver, received, nieVars>>

ReadsEnd ==
    /\ recvPc = "out" /\ mSSLConfigured
    /\ readsOver' = TRUE
    /\ want' = 0 /\ fetchRet' = "none"
    /\ UNCHANGED <<ceVars, recvPc, received, nieVars>>

(***************************************************************************)
(* SSLRecvCallback with len = want.                                        *)
(***************************************************************************)
\* The early returns: an error, or 0 for the end of the stream, ends the fetch.
RecvRefuse ==
    /\ recvPc = "fetch"
    /\ mRecvError # "noErr" \/ mPeerClosed
    /\ recvPc' = "out"
    /\ fetchRet' = IF mRecvError # "noErr" THEN "error" ELSE "eof"
    /\ UNCHANGED <<ceVars, want, readsOver, received, nieVars>>

NeedsGet == Len(mSSLRecvBuffer) < want /\ ~mRecvPending

\* Mutant: NIE is asked for len bytes, whatever is buffered.
RecvAskNIEAll ==
    /\ recvPc = "fetch" /\ mRecvError = "noErr" /\ ~mPeerClosed
    /\ NeedsGet
    /\ mRecvPending' = TRUE
    /\ mGetSize' = want
    /\ mSSLReceiveInProgress' = TRUE
    /\ nieGets' = nieGets + 1
    /\ recvPc' = "inner"
    /\ UNCHANGED <<mSSLConfigured, mSSLRecvBuffer, mRecvError, mPeerClosed,
                   tlsEvent, mbedVars, nieUp, peerSent, peerDone, given>>

RecvAskNIE ==
    /\ recvPc = "fetch" /\ mRecvError = "noErr" /\ ~mPeerClosed
    /\ NeedsGet
    /\ mRecvPending' = TRUE
    /\ mGetSize' = want - Len(mSSLRecvBuffer)
    /\ mSSLReceiveInProgress' = TRUE
    /\ nieGets' = nieGets + 1
    /\ recvPc' = "inner"
    /\ UNCHANGED <<mSSLConfigured, mSSLRecvBuffer, mRecvError, mPeerClosed,
                   tlsEvent, mbedVars, nieUp, peerSent, peerDone, given>>

RecvAskNothing ==
    /\ recvPc = "fetch" /\ mRecvError = "noErr" /\ ~mPeerClosed
    /\ ~NeedsGet
    /\ recvPc' = "copy"
    /\ UNCHANGED <<ceVars, mbedVars, nieVars>>

\* Mutant: mSSLReceiveInProgress is not cleared.
RecvAskedStaysInProgress ==
    /\ recvPc = "inner"
    /\ recvPc' = "copy"
    /\ UNCHANGED <<ceVars, mbedVars, nieVars>>

RecvAsked ==
    /\ recvPc = "inner"
    /\ mSSLReceiveInProgress' = FALSE
    /\ recvPc' = "copy"
    /\ UNCHANGED <<mSSLConfigured, mSSLRecvBuffer, mGetSize, mRecvPending,
                   mRecvError, mPeerClosed, tlsEvent, mbedVars, nieVars>>

\* After the inner call: an error, MBEDTLS_ERR_SSL_WANT_READ (mPeerClosed is
\* not looked at again), or a copy.
RecvNoCopy ==
    /\ recvPc = "copy"
    /\ mRecvError # "noErr" \/ mSSLRecvBuffer = <<>>
    /\ recvPc' = "out"
    /\ fetchRet' = IF mRecvError # "noErr" THEN "error" ELSE "wantRead"
    /\ UNCHANGED <<ceVars, want, readsOver, received, nieVars>>

\* When less than the buffer is copied, the BlockMove that should shift the
\* rest down starts at the buffer's end instead of after the copied bytes:
\* what remains is garbage.
RestOfBuffer(copied) == [i \in 1 .. Len(mSSLRecvBuffer) - copied |-> Garbage]

RecvCopy ==
    /\ recvPc = "copy" /\ mRecvError = "noErr" /\ mSSLRecvBuffer # <<>>
    /\ LET copied == Smaller(want, Len(mSSLRecvBuffer))
       IN  /\ received' = received \o SubSeq(mSSLRecvBuffer, 1, copied)
           /\ want' = want - copied
           /\ mSSLRecvBuffer' = RestOfBuffer(copied)
           /\ recvPc' = IF copied = want THEN "out" ELSE "fetch"
           /\ fetchRet' = IF copied = want THEN "ok" ELSE "none"
    /\ UNCHANGED <<mSSLConfigured, mGetSize, mRecvPending, mSSLReceiveInProgress,
                   mRecvError, mPeerClosed, tlsEvent, readsOver, nieVars>>

(***************************************************************************)
(* GetCompleteCB for a Get of ours: inside the call that started it, or    *)
(* from the task's event loop.                                             *)
(***************************************************************************)

GetAnswered ==
    /\ mSSLConfigured /\ nieGets > 0
    /\ recvPc \in {"out", "inner"}
    /\ nieGets' = nieGets - 1
    /\ mRecvPending' = FALSE
    /\ tlsEvent' = (tlsEvent \/ ~mSSLReceiveInProgress)
    /\ UNCHANGED <<mSSLConfigured, mSSLReceiveInProgress, recvPc, mbedVars,
                   nieUp, peerSent, peerDone>>

\* Mutant: the new bytes replace the buffered ones.
GetCompleteDataReplaces(k) ==
    /\ GetAnswered
    /\ nieUp /\ k <= mGetSize /\ given + k <= peerSent
    /\ mSSLRecvBuffer' = [i \in 1 .. k |-> given + i]
    /\ given' = given + k
    /\ mGetSize' = 0
    /\ UNCHANGED <<mRecvError, mPeerClosed>>

GetCompleteData(k) ==
    /\ GetAnswered
    /\ nieUp /\ k <= mGetSize /\ given + k <= peerSent
    /\ mSSLRecvBuffer' = mSSLRecvBuffer \o [i \in 1 .. k |-> given + i]
    /\ given' = given + k
    /\ mGetSize' = 0
    /\ UNCHANGED <<mRecvError, mPeerClosed>>

GetCompleteEOF ==
    /\ GetAnswered
    /\ nieUp /\ peerDone /\ given = peerSent
    /\ recvPc = "inner" => SyncEOF
    /\ mPeerClosed' = TRUE
    /\ UNCHANGED <<mSSLRecvBuffer, mGetSize, mRecvError, given>>

GetCompleteError ==
    /\ GetAnswered
    /\ mRecvError' = "error"
    /\ UNCHANGED <<mSSLRecvBuffer, mGetSize, mPeerClosed, given>>

(***************************************************************************)
(* HandleRequest for a TLS event: retry the call that returned             *)
(* MBEDTLS_ERR_SSL_WANT_READ, if there is one.                             *)
(***************************************************************************)
HandleTLSEvent ==
    /\ tlsEvent /\ recvPc = "out"
    /\ tlsEvent' = FALSE
    /\ IF fetchRet = "wantRead"
       THEN recvPc' = "fetch" /\ fetchRet' = "none"
       ELSE UNCHANGED <<recvPc, fetchRet>>
    /\ UNCHANGED <<mSSLConfigured, mSSLRecvBuffer, mGetSize, mRecvPending,
                   mSSLReceiveInProgress, mRecvError, mPeerClosed, want,
                   readsOver, received, nieVars>>

(***************************************************************************)
(* The network (external).                                                 *)
(***************************************************************************)
PeerSends ==
    /\ nieUp /\ mSSLConfigured /\ ~peerDone /\ peerSent < MaxPeer
    /\ peerSent' = peerSent + 1
    /\ UNCHANGED <<ceVars, recvPc, mbedVars, nieGets, nieUp, peerDone, given>>

PeerCloses ==
    /\ nieUp /\ mSSLConfigured /\ ~peerDone
    /\ peerDone' = TRUE
    /\ UNCHANGED <<ceVars, recvPc, mbedVars, nieGets, nieUp, peerSent, given>>

\* A connection comes up clear or freshly configured; going down, NIE lets
\* go of an unfinished Get without an answer.
RecvNIEUp ==
    /\ ~nieUp /\ recvPc = "out"
    /\ mSSLConfigured => want = 0 /\ fetchRet = "none" /\ ~mRecvPending
    /\ nieUp' = TRUE
    /\ UNCHANGED <<ceVars, recvPc, mbedVars, nieGets, peerSent, peerDone, given>>

RecvNIEDown ==
    /\ nieUp /\ recvPc = "out"
    /\ nieUp' = FALSE /\ nieGets' = 0
    /\ UNCHANGED <<ceVars, recvPc, mbedVars, peerSent, peerDone, given>>

SSLRecvCallback ==
    \/ RecvRefuse \/ RecvAskNIE \/ RecvAskNothing \/ RecvAsked
    \/ RecvNoCopy \/ RecvCopy

GetCompleteCB ==
    \/ \E k \in 1 .. MaxWant : GetCompleteData(k)
    \/ GetCompleteEOF
    \/ GetCompleteError

RecvNext ==
    \/ RecvConfigure \/ RecvUnconfigure
    \/ \E n \in 1 .. MaxWant : FetchInput(n)
    \/ FetchUsed
    \/ ReadsEnd
    \/ SSLRecvCallback
    \/ GetCompleteCB
    \/ HandleTLSEvent
    \/ PeerSends \/ PeerCloses \/ RecvNIEUp \/ RecvNIEDown

RecvSpec == RecvInit /\ [][RecvNext]_recvVars

\* The task goes on running, its port's events are handled, and NIE answers
\* a Get once it has bytes or knows that none will come.
NIEAnswers == (\E k \in 1 .. MaxWant : GetCompleteData(k)) \/ GetCompleteEOF

RecvFairness ==
    /\ WF_recvVars(SSLRecvCallback)
    /\ WF_recvVars(HandleTLSEvent)
    /\ WF_recvVars(recvPc = "out" /\ NIEAnswers)

-----------------------------------------------------------------------------
(***************************************************************************)
(* Properties.                                                             *)
(***************************************************************************)

\* What is buffered and what NIE may still give for the Get it holds is never
\* more than mbedtls misses.  This is why SSLRecvCallback always empties
\* mSSLRecvBuffer, and its branch for a partial copy is never taken.
NeverOverfetch ==
    mSSLConfigured /\ ~readsOver =>
        Len(mSSLRecvBuffer) + (IF nieGets > 0 THEN mGetSize ELSE 0) <= want

\* When mbedtls was told to wait, something will wake it: a Get that NIE has
\* yet to answer, or the TLS event of one it has answered.
NoLostWakeup ==
    mSSLConfigured /\ nieUp /\ recvPc = "out" /\ fetchRet = "wantRead"
        => nieGets = 1 \/ tlsEvent

\* Waiting ends: once the peer has sent the next byte or closed, mbedtls is
\* run again (unless the connection ends first).
WaitEnds ==
    fetchRet = "wantRead" /\ (peerSent > given \/ peerDone)
        ~> fetchRet # "wantRead" \/ ~nieUp \/ ~mSSLConfigured

\* The receiving half implements the reliable byte stream.
PeerStream == INSTANCE ByteStream WITH accepted <- peerSent, delivered <- received

RecvImplementsStream == PeerStream!StreamSpec
=============================================================================
