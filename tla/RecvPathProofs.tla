--------------------------- MODULE RecvPathProofs ---------------------------
(***************************************************************************)
(* Proofs about the receiving half, for all values of its bounds: it never *)
(* asks NIE for more than mbedtls misses, a wait is always followed by     *)
(* something that ends it, and it implements the abstract byte stream.     *)
(***************************************************************************)
EXTENDS RecvPath, SequenceTheorems, TLAPS

\* The types: the flags, and everything else.
RecvFlagsOK ==
    /\ mSSLConfigured \in BOOLEAN /\ mRecvPending \in BOOLEAN
    /\ mSSLReceiveInProgress \in BOOLEAN /\ mPeerClosed \in BOOLEAN
    /\ tlsEvent \in BOOLEAN /\ readsOver \in BOOLEAN
    /\ nieUp \in BOOLEAN /\ peerDone \in BOOLEAN
RecvDataOK ==
    /\ mSSLRecvBuffer \in Seq(Nat) /\ mGetSize \in Nat
    /\ mRecvError \in RecvErrors /\ recvPc \in {"out", "fetch", "inner", "copy"}
    /\ want \in Nat /\ fetchRet \in FetchReturns
    /\ nieGets \in {0, 1} /\ peerSent \in Nat /\ given \in Nat
    /\ received \in Seq(Nat)

\* Inside SSLRecvCallback there is a session that wants bytes, and the flag
\* that tells GetCompleteCB where it was called from is right.  The same for
\* a fetch that returned MBEDTLS_ERR_SSL_WANT_READ: a TLS event resumes it.
PlaceOK ==
    /\ recvPc # "out" => mSSLConfigured /\ ~readsOver /\ want > 0 /\ fetchRet = "none"
    /\ mSSLConfigured /\ fetchRet = "wantRead" => ~readsOver /\ want > 0
    /\ mSSLReceiveInProgress <=> recvPc = "inner"
    /\ tlsEvent => mSSLConfigured

\* A Get NIE holds is one mRecvPending tells of; on a connection that is up
\* mRecvPending tells of nothing else (NIE going down drops the Get without
\* clearing the flag).
GetsOK ==
    /\ nieGets = 1 => mRecvPending
    /\ mSSLConfigured /\ mRecvPending /\ nieUp => nieGets = 1

\* mbedtls is told to wait only while a Get is unanswered; its answer, outside
\* the call, posts the event.  An end of stream reported inside the call breaks
\* this: nothing is pending, and mPeerClosed is not looked at again.
WakeOK ==
    SyncEOF \/
    /\ recvPc \in {"inner", "copy"} /\ mSSLRecvBuffer = <<>> /\ mRecvError = "noErr"
          => mRecvPending
    /\ mSSLConfigured /\ fetchRet = "wantRead" => mRecvPending \/ tlsEvent

\* The bytes are in order: those mbedtls got, then those in the buffer, and
\* NIE has given no others.
OrderOK ==
    /\ \A i \in 1 .. Len(received) : received[i] = i
    /\ mSSLConfigured =>
          /\ \A i \in 1 .. Len(mSSLRecvBuffer) : mSSLRecvBuffer[i] = Len(received) + i
          /\ given = Len(received) + Len(mSSLRecvBuffer)
          /\ given <= peerSent

\* The inductive invariant.
RecvInv ==
    RecvFlagsOK /\ RecvDataOK /\ PlaceOK /\ GetsOK /\ NeverOverfetch /\ WakeOK /\ OrderOK

\* The receiving half starts in the invariant.
LEMMA RecvInvInit == RecvInit => RecvInv
<1> SUFFICES ASSUME RecvInit PROVE RecvInv
  OBVIOUS
<1>1. RecvFlagsOK
  BY DEF RecvInit, RecvFlagsOK
<1>2. RecvDataOK
  BY DEF RecvInit, RecvDataOK, RecvErrors, FetchReturns
<1>3. PlaceOK /\ GetsOK /\ NeverOverfetch /\ WakeOK
  BY DEF RecvInit, PlaceOK, GetsOK, NeverOverfetch, WakeOK
<1>4. OrderOK
  BY DEF RecvInit, OrderOK
<1> QED
  BY <1>1, <1>2, <1>3, <1>4 DEF RecvInv

\* A stuttering step changes nothing the invariant looks at.
LEMMA RecvInvStutter == RecvInv /\ UNCHANGED recvVars => RecvInv'
  BY DEF RecvInv, RecvFlagsOK, RecvDataOK, PlaceOK, GetsOK, NeverOverfetch, WakeOK,
         OrderOK, recvVars

\* SSLConfigure starts an empty stream with nothing fetched.
LEMMA RecvInvConfigure == RecvInv /\ RecvConfigure => RecvInv'
<1> SUFFICES ASSUME RecvInv, RecvConfigure PROVE RecvInv'
  OBVIOUS
<1> USE DEF RecvConfigure
<1>1. RecvFlagsOK'
  BY DEF RecvInv, RecvFlagsOK
<1>2. RecvDataOK'
  BY DEF RecvInv, RecvDataOK, RecvErrors, FetchReturns
<1>3. PlaceOK' /\ GetsOK' /\ NeverOverfetch' /\ WakeOK'
  BY DEF RecvInv, PlaceOK, GetsOK, NeverOverfetch, WakeOK
<1>4. OrderOK'
  BY DEF OrderOK
<1> QED
  BY <1>1, <1>2, <1>3, <1>4 DEF RecvInv

\* SSLUnconfigure deletes the buffer and takes the TLS event off the port.
LEMMA RecvInvUnconfigure == RecvInv /\ RecvUnconfigure => RecvInv'
<1> SUFFICES ASSUME RecvInv, RecvUnconfigure PROVE RecvInv'
  OBVIOUS
<1> USE DEF RecvUnconfigure, mbedVars, nieVars
<1>1. RecvFlagsOK'
  BY DEF RecvInv, RecvFlagsOK
<1>2. RecvDataOK'
  BY DEF RecvInv, RecvDataOK
<1>3. PlaceOK' /\ GetsOK' /\ NeverOverfetch' /\ WakeOK'
  BY DEF RecvInv, PlaceOK, GetsOK, NeverOverfetch, WakeOK
<1>4. OrderOK'
  BY DEF RecvInv, OrderOK
<1> QED
  BY <1>1, <1>2, <1>3, <1>4 DEF RecvInv

\* mbedtls enters fetch_input, uses its result up, or reads no more: only what
\* it misses changes, and never below what was asked for.
LEMMA RecvInvFetch ==
    ASSUME RecvInv, \/ \E n \in 1 .. MaxWant : FetchInput(n)
                    \/ FetchUsed \/ ReadsEnd
    PROVE  RecvInv'
<1> USE DEF ceVars, nieVars
<1>1. ASSUME NEW n \in 1 .. MaxWant, FetchInput(n)
      PROVE  RecvInv'
  <2> USE <1>1 DEF FetchInput
  <2>0. n \in Nat \ {0}
    BY RecvBounds
  <2>1. RecvFlagsOK'
    BY DEF RecvInv, RecvFlagsOK
  <2>2. RecvDataOK'
    BY <2>0 DEF RecvInv, RecvDataOK, FetchReturns
  <2>3. PlaceOK' /\ GetsOK' /\ WakeOK'
    BY <2>0 DEF RecvInv, RecvDataOK, PlaceOK, GetsOK, WakeOK
  <2>4. NeverOverfetch'
    BY <2>0 DEF RecvInv, RecvDataOK, NeverOverfetch
  <2>5. OrderOK'
    BY DEF RecvInv, OrderOK
  <2> QED
    BY <2>1, <2>2, <2>3, <2>4, <2>5 DEF RecvInv
<1>2. ASSUME FetchUsed PROVE RecvInv'
  <2> USE <1>2 DEF FetchUsed
  <2>1. RecvFlagsOK'
    BY DEF RecvInv, RecvFlagsOK
  <2>2. RecvDataOK'
    BY DEF RecvInv, RecvDataOK, FetchReturns
  <2>3. PlaceOK' /\ GetsOK' /\ WakeOK' /\ NeverOverfetch'
    BY DEF RecvInv, PlaceOK, GetsOK, WakeOK, NeverOverfetch
  <2>4. OrderOK'
    BY DEF RecvInv, OrderOK
  <2> QED
    BY <2>1, <2>2, <2>3, <2>4 DEF RecvInv
<1>3. ASSUME ReadsEnd PROVE RecvInv'
  <2> USE <1>3 DEF ReadsEnd
  <2>1. RecvFlagsOK'
    BY DEF RecvInv, RecvFlagsOK
  <2>2. RecvDataOK'
    BY DEF RecvInv, RecvDataOK, FetchReturns
  <2>3. PlaceOK' /\ GetsOK' /\ WakeOK' /\ NeverOverfetch'
    BY DEF RecvInv, PlaceOK, GetsOK, WakeOK, NeverOverfetch
  <2>4. OrderOK'
    BY DEF RecvInv, OrderOK
  <2> QED
    BY <2>1, <2>2, <2>3, <2>4 DEF RecvInv
<1> QED
  BY <1>1, <1>2, <1>3

\* SSLRecvCallback returns without asking NIE for anything.
LEMMA RecvInvRefuse == RecvInv /\ RecvRefuse => RecvInv'
<1> SUFFICES ASSUME RecvInv, RecvRefuse PROVE RecvInv'
  OBVIOUS
<1> USE DEF RecvRefuse, ceVars, nieVars
<1>1. RecvFlagsOK'
  BY DEF RecvInv, RecvFlagsOK
<1>2. RecvDataOK'
  BY DEF RecvInv, RecvDataOK, FetchReturns
<1>3. PlaceOK' /\ GetsOK' /\ NeverOverfetch' /\ WakeOK'
  BY DEF RecvInv, PlaceOK, GetsOK, NeverOverfetch, WakeOK
<1>4. OrderOK'
  BY DEF RecvInv, OrderOK
<1> QED
  BY <1>1, <1>2, <1>3, <1>4 DEF RecvInv

\* SSLRecvCallback asks NIE for what is missing beyond the buffered bytes.
LEMMA RecvInvAskNIE == RecvInv /\ RecvAskNIE => RecvInv'
<1> SUFFICES ASSUME RecvInv, RecvAskNIE PROVE RecvInv'
  OBVIOUS
<1> USE DEF RecvAskNIE, NeedsGet, mbedVars
<1>0. nieGets = 0 /\ mSSLRecvBuffer \in Seq(Nat)
  BY DEF RecvInv, GetsOK, RecvDataOK
<1>1. RecvFlagsOK'
  BY DEF RecvInv, RecvFlagsOK
<1>2. RecvDataOK'
  BY <1>0 DEF RecvInv, RecvDataOK
<1>3. PlaceOK' /\ GetsOK' /\ WakeOK'
  BY <1>0 DEF RecvInv, PlaceOK, GetsOK, WakeOK
<1>4. NeverOverfetch'
  BY <1>0 DEF RecvInv, RecvDataOK, NeverOverfetch
<1>5. OrderOK'
  BY DEF RecvInv, OrderOK
<1> QED
  BY <1>1, <1>2, <1>3, <1>4, <1>5 DEF RecvInv

\* SSLRecvCallback has enough, or waits for an earlier Get.
LEMMA RecvInvAskNothing == RecvInv /\ RecvAskNothing => RecvInv'
<1> SUFFICES ASSUME RecvInv, RecvAskNothing PROVE RecvInv'
  OBVIOUS
<1> USE DEF RecvAskNothing, ceVars, mbedVars, nieVars
<1>1. RecvFlagsOK'
  BY DEF RecvInv, RecvFlagsOK
<1>2. RecvDataOK'
  BY DEF RecvInv, RecvDataOK
<1>3. PlaceOK' /\ GetsOK' /\ NeverOverfetch'
  BY DEF RecvInv, PlaceOK, GetsOK, NeverOverfetch
<1>4. mSSLRecvBuffer = <<>> => mRecvPending
  BY DEF RecvInv, RecvDataOK, PlaceOK, NeedsGet
<1>5. WakeOK'
  BY <1>4 DEF RecvInv, PlaceOK, WakeOK
<1>6. OrderOK'
  BY DEF RecvInv, OrderOK
<1> QED
  BY <1>1, <1>2, <1>3, <1>5, <1>6 DEF RecvInv

\* GetBytesImmediateStart returns.
LEMMA RecvInvAsked == RecvInv /\ RecvAsked => RecvInv'
<1> SUFFICES ASSUME RecvInv, RecvAsked PROVE RecvInv'
  OBVIOUS
<1> USE DEF RecvAsked, mbedVars, nieVars
<1>1. RecvFlagsOK'
  BY DEF RecvInv, RecvFlagsOK
<1>2. RecvDataOK'
  BY DEF RecvInv, RecvDataOK
<1>3. PlaceOK' /\ GetsOK' /\ NeverOverfetch' /\ WakeOK'
  BY DEF RecvInv, PlaceOK, GetsOK, NeverOverfetch, WakeOK
<1>4. OrderOK'
  BY DEF RecvInv, OrderOK
<1> QED
  BY <1>1, <1>2, <1>3, <1>4 DEF RecvInv

\* SSLRecvCallback returns an error or MBEDTLS_ERR_SSL_WANT_READ: there is
\* nothing to copy, so a Get is unanswered.
LEMMA RecvInvNoCopy == RecvInv /\ RecvNoCopy => RecvInv'
<1> SUFFICES ASSUME RecvInv, RecvNoCopy PROVE RecvInv'
  OBVIOUS
<1> USE DEF RecvNoCopy, ceVars, nieVars
<1>1. RecvFlagsOK'
  BY DEF RecvInv, RecvFlagsOK
<1>2. RecvDataOK'
  BY DEF RecvInv, RecvDataOK, FetchReturns
<1>3. PlaceOK' /\ GetsOK' /\ NeverOverfetch'
  BY DEF RecvInv, PlaceOK, GetsOK, NeverOverfetch
<1>4. WakeOK'
  BY DEF RecvInv, WakeOK
<1>5. OrderOK'
  BY DEF RecvInv, OrderOK
<1> QED
  BY <1>1, <1>2, <1>3, <1>4, <1>5 DEF RecvInv

\* Because NIE was never asked for more than mbedtls misses, SSLRecvCallback
\* copies all it has, and the broken shift of a partial copy is never run.
LEMMA CopyTakesAll ==
    ASSUME RecvInv, RecvCopy
    PROVE  /\ Smaller(want, Len(mSSLRecvBuffer)) = Len(mSSLRecvBuffer)
           /\ Len(mSSLRecvBuffer) \in 1 .. want
           /\ received' = received \o mSSLRecvBuffer
           /\ mSSLRecvBuffer' = <<>>
           /\ want' = want - Len(mSSLRecvBuffer)
<1>1. /\ mSSLRecvBuffer \in Seq(Nat) /\ want \in Nat /\ mGetSize \in Nat
      /\ mSSLRecvBuffer # <<>> /\ recvPc = "copy"
  BY DEF RecvInv, RecvDataOK, RecvCopy
<1>2. Len(mSSLRecvBuffer) \in 1 .. want
  BY <1>1 DEF RecvInv, PlaceOK, NeverOverfetch
<1>3. Smaller(want, Len(mSSLRecvBuffer)) = Len(mSSLRecvBuffer)
  BY <1>1, <1>2 DEF Smaller
<1>4. SubSeq(mSSLRecvBuffer, 1, Len(mSSLRecvBuffer)) = mSSLRecvBuffer
  BY <1>1, SubSeqFull
<1>5. RestOfBuffer(Len(mSSLRecvBuffer)) = <<>>
  <2>1. 1 .. Len(mSSLRecvBuffer) - Len(mSSLRecvBuffer) = {}
    BY <1>1
  <2> QED
    BY <2>1 DEF RestOfBuffer
<1> QED
  BY <1>1, <1>2, <1>3, <1>4, <1>5 DEF RecvCopy

\* SSLRecvCallback copies what is buffered.
LEMMA RecvInvCopy == RecvInv /\ RecvCopy => RecvInv'
<1> SUFFICES ASSUME RecvInv, RecvCopy PROVE RecvInv'
  OBVIOUS
<1>1. /\ Smaller(want, Len(mSSLRecvBuffer)) = Len(mSSLRecvBuffer)
      /\ Len(mSSLRecvBuffer) \in 1 .. want
      /\ received' = received \o mSSLRecvBuffer
      /\ mSSLRecvBuffer' = <<>>
      /\ want' = want - Len(mSSLRecvBuffer)
  BY CopyTakesAll
<1>2. /\ recvPc = "copy"
      /\ \/ want' = 0 /\ recvPc' = "out" /\ fetchRet' = "ok"
         \/ want' > 0 /\ recvPc' = "fetch" /\ fetchRet' = "none"
      /\ UNCHANGED <<mSSLConfigured, mGetSize, mRecvPending, mSSLReceiveInProgress,
                     mRecvError, mPeerClosed, tlsEvent, readsOver, nieGets, nieUp,
                     peerSent, peerDone, given>>
  BY <1>1 DEF RecvCopy, nieVars, RecvInv, RecvDataOK
<1>3. received \in Seq(Nat) /\ mSSLRecvBuffer \in Seq(Nat) /\ want \in Nat
  BY DEF RecvInv, RecvDataOK
<1>4. /\ received \o mSSLRecvBuffer \in Seq(Nat)
      /\ Len(received \o mSSLRecvBuffer) = Len(received) + Len(mSSLRecvBuffer)
      /\ \A i \in 1 .. Len(received) + Len(mSSLRecvBuffer) :
            (received \o mSSLRecvBuffer)[i] =
                IF i <= Len(received) THEN received[i]
                                      ELSE mSSLRecvBuffer[i - Len(received)]
  BY <1>3, ConcatProperties
<1>5. RecvFlagsOK'
  BY <1>2 DEF RecvInv, RecvFlagsOK
<1>6. RecvDataOK'
  BY <1>1, <1>2, <1>3, <1>4 DEF RecvInv, RecvDataOK, FetchReturns
<1>7. PlaceOK' /\ GetsOK' /\ WakeOK'
  BY <1>2 DEF RecvInv, PlaceOK, GetsOK, WakeOK
<1>8. NeverOverfetch'
  BY <1>1, <1>2, <1>3 DEF RecvInv, RecvDataOK, NeverOverfetch
<1>9. OrderOK'
  BY <1>1, <1>2, <1>3, <1>4 DEF RecvInv, RecvDataOK, PlaceOK, OrderOK
<1> QED
  BY <1>5, <1>6, <1>7, <1>8, <1>9 DEF RecvInv

\* GetCompleteCB with k bytes: they go behind the buffered ones.
LEMMA RecvInvData ==
    ASSUME RecvInv, NEW k \in 1 .. MaxWant, GetCompleteData(k)
    PROVE  RecvInv'
<1> DEFINE new == [i \in 1 .. k |-> given + i]
<1>1. /\ mSSLConfigured /\ nieUp /\ k <= mGetSize /\ given + k <= peerSent
      /\ nieGets > 0 /\ nieGets' = nieGets - 1 /\ recvPc \in {"out", "inner"}
      /\ mSSLRecvBuffer' = mSSLRecvBuffer \o new /\ given' = given + k
      /\ mGetSize' = 0 /\ ~mRecvPending'
      /\ mRecvPending' = FALSE
      /\ tlsEvent' = (tlsEvent \/ ~mSSLReceiveInProgress)
      /\ UNCHANGED <<mSSLConfigured, mSSLReceiveInProgress, recvPc, want, fetchRet,
                     readsOver, received, nieUp, peerSent, peerDone, mRecvError,
                     mPeerClosed>>
  BY DEF GetCompleteData, GetAnswered, mbedVars
<1>2. /\ k \in Nat \ {0} /\ mSSLRecvBuffer \in Seq(Nat) /\ given \in Nat
      /\ mGetSize \in Nat /\ nieGets = 1
  BY <1>1, RecvBounds DEF RecvInv, RecvDataOK
<1>3. new \in Seq(Nat) /\ Len(new) = k /\ \A i \in 1 .. k : new[i] = given + i
  BY <1>2
<1> HIDE DEF new
<1>4. /\ mSSLRecvBuffer \o new \in Seq(Nat)
      /\ Len(mSSLRecvBuffer \o new) = Len(mSSLRecvBuffer) + Len(new)
      /\ \A i \in 1 .. Len(mSSLRecvBuffer) + Len(new) :
            (mSSLRecvBuffer \o new)[i] =
                IF i <= Len(mSSLRecvBuffer) THEN mSSLRecvBuffer[i]
                                            ELSE new[i - Len(mSSLRecvBuffer)]
  BY <1>2, <1>3, ConcatProperties
<1>5. RecvFlagsOK'
  BY <1>1 DEF RecvInv, RecvFlagsOK
<1>6. RecvDataOK'
  BY <1>1, <1>2, <1>4 DEF RecvInv, RecvDataOK
<1>7. PlaceOK' /\ GetsOK'
  BY <1>1, <1>2 DEF RecvInv, PlaceOK, GetsOK
<1>8. Len(mSSLRecvBuffer') > 0
  BY <1>1, <1>2, <1>3, <1>4
<1>9. mSSLRecvBuffer' # <<>>
  BY <1>8
<1>10. WakeOK'
  BY <1>1, <1>9 DEF RecvInv, PlaceOK, WakeOK
<1>11. NeverOverfetch'
  BY <1>1, <1>2, <1>3, <1>4 DEF RecvInv, RecvDataOK, NeverOverfetch
<1>12. OrderOK'
  BY <1>1, <1>2, <1>3, <1>4 DEF RecvInv, RecvDataOK, OrderOK
<1> QED
  BY <1>5, <1>6, <1>7, <1>10, <1>11, <1>12 DEF RecvInv

\* GetCompleteCB with the end of the stream, or with an error.
LEMMA RecvInvNoData ==
    ASSUME RecvInv, GetCompleteEOF \/ GetCompleteError
    PROVE  RecvInv'
<1>1. /\ mSSLConfigured
      /\ nieGets > 0 /\ nieGets' = nieGets - 1 /\ recvPc \in {"out", "inner"}
      /\ mRecvPending' = FALSE
      /\ tlsEvent' = (tlsEvent \/ ~mSSLReceiveInProgress)
      /\ UNCHANGED <<mSSLConfigured, mSSLReceiveInProgress, recvPc, want, fetchRet,
                     readsOver, received, nieUp, peerSent, peerDone,
                     mSSLRecvBuffer, mGetSize, given>>
      /\ \/ mPeerClosed' = TRUE /\ UNCHANGED mRecvError /\ (recvPc = "inner" => SyncEOF)
         \/ mRecvError' = "error" /\ UNCHANGED mPeerClosed
  BY DEF GetCompleteEOF, GetCompleteError, GetAnswered, mbedVars
<1>2. nieGets = 1 /\ nieGets' = 0
  BY <1>1 DEF RecvInv, RecvDataOK
<1>3. RecvFlagsOK'
  BY <1>1 DEF RecvInv, RecvFlagsOK
<1>4. RecvDataOK'
  BY <1>1, <1>2 DEF RecvInv, RecvDataOK, RecvErrors
<1>5. PlaceOK' /\ GetsOK'
  BY <1>1, <1>2 DEF RecvInv, PlaceOK, GetsOK
<1>6. WakeOK'
  BY <1>1 DEF RecvInv, PlaceOK, WakeOK
<1>7. NeverOverfetch'
  BY <1>1, <1>2 DEF RecvInv, RecvDataOK, NeverOverfetch
<1>8. OrderOK'
  BY <1>1 DEF RecvInv, OrderOK
<1> QED
  BY <1>3, <1>4, <1>5, <1>6, <1>7, <1>8 DEF RecvInv

\* HandleRequest for a TLS event: the fetch that waits is resumed.
LEMMA RecvInvTLSEvent == RecvInv /\ HandleTLSEvent => RecvInv'
<1> SUFFICES ASSUME RecvInv, HandleTLSEvent PROVE RecvInv'
  OBVIOUS
<1> USE DEF HandleTLSEvent, nieVars
<1>1. RecvFlagsOK'
  BY DEF RecvInv, RecvFlagsOK
<1>2. RecvDataOK'
  BY DEF RecvInv, RecvDataOK, FetchReturns
<1>3. PlaceOK' /\ GetsOK' /\ NeverOverfetch' /\ WakeOK'
  BY DEF RecvInv, RecvDataOK, PlaceOK, GetsOK, NeverOverfetch, WakeOK
<1>4. OrderOK'
  BY DEF RecvInv, OrderOK
<1> QED
  BY <1>1, <1>2, <1>3, <1>4 DEF RecvInv

\* The peer sends or closes, NIE's connection comes up or goes down.
LEMMA RecvInvNetwork ==
    ASSUME RecvInv, PeerSends \/ PeerCloses \/ RecvNIEUp \/ RecvNIEDown
    PROVE  RecvInv'
<1> USE DEF ceVars, mbedVars
<1>1. CASE PeerSends \/ PeerCloses
  <2> USE <1>1 DEF PeerSends, PeerCloses
  <2>1. RecvFlagsOK'
    BY DEF RecvInv, RecvFlagsOK
  <2>2. RecvDataOK'
    BY DEF RecvInv, RecvDataOK
  <2>3. PlaceOK' /\ GetsOK' /\ NeverOverfetch' /\ WakeOK'
    BY DEF RecvInv, PlaceOK, GetsOK, NeverOverfetch, WakeOK
  <2>4. /\ peerSent' \in {peerSent, peerSent + 1} /\ peerSent \in Nat /\ given \in Nat
        /\ UNCHANGED <<mSSLConfigured, mSSLRecvBuffer, received, given>>
    BY DEF RecvInv, RecvDataOK
  <2>5. OrderOK'
    BY ONLY <2>4, RecvInv DEF RecvInv, OrderOK
  <2> QED
    BY <2>1, <2>2, <2>3, <2>5 DEF RecvInv
<1>2. CASE RecvNIEUp \/ RecvNIEDown
  <2> USE <1>2 DEF RecvNIEUp, RecvNIEDown
  <2>1. RecvFlagsOK'
    BY DEF RecvInv, RecvFlagsOK
  <2>2. RecvDataOK'
    BY DEF RecvInv, RecvDataOK
  <2>3. PlaceOK' /\ GetsOK' /\ WakeOK'
    BY DEF RecvInv, PlaceOK, GetsOK, WakeOK
  <2>4. /\ nieGets' \in {nieGets, 0} /\ mSSLRecvBuffer \in Seq(Nat)
        /\ mGetSize \in Nat /\ want \in Nat /\ nieGets \in Nat
        /\ UNCHANGED <<mSSLConfigured, readsOver, mSSLRecvBuffer, mGetSize, want>>
    BY DEF RecvInv, RecvDataOK
  <2>5. NeverOverfetch'
    BY ONLY <2>4, RecvInv DEF RecvInv, NeverOverfetch
  <2>6. OrderOK'
    BY DEF RecvInv, OrderOK
  <2> QED
    BY <2>1, <2>2, <2>3, <2>5, <2>6 DEF RecvInv
<1> QED
  BY <1>1, <1>2

\* Every step of the receiving half preserves the invariant.
LEMMA RecvInvNext == RecvInv /\ [RecvNext]_recvVars => RecvInv'
<1> SUFFICES ASSUME RecvInv, [RecvNext]_recvVars PROVE RecvInv'
  OBVIOUS
<1>1. CASE UNCHANGED recvVars
  BY <1>1, RecvInvStutter
<1>2. CASE RecvConfigure \/ RecvUnconfigure
  BY <1>2, RecvInvConfigure, RecvInvUnconfigure
<1>3. CASE (\E n \in 1 .. MaxWant : FetchInput(n)) \/ FetchUsed \/ ReadsEnd
  BY <1>3, RecvInvFetch
<1>4. CASE SSLRecvCallback
  BY <1>4, RecvInvRefuse, RecvInvAskNIE, RecvInvAskNothing, RecvInvAsked,
     RecvInvNoCopy, RecvInvCopy DEF SSLRecvCallback
<1>5. CASE GetCompleteCB
  BY <1>5, RecvInvData, RecvInvNoData DEF GetCompleteCB
<1>6. CASE HandleTLSEvent
  BY <1>6, RecvInvTLSEvent
<1>7. CASE PeerSends \/ PeerCloses \/ RecvNIEUp \/ RecvNIEDown
  BY <1>7, RecvInvNetwork
<1> QED
  BY <1>1, <1>2, <1>3, <1>4, <1>5, <1>6, <1>7 DEF RecvNext

\* The invariant holds throughout.
LEMMA RecvInvAlways == RecvSpec => []RecvInv
  BY RecvInvInit, RecvInvNext, PTL DEF RecvSpec

\* What is buffered and what NIE may still give is never more than mbedtls
\* misses, whatever the record sizes, and so SSLRecvCallback never has to keep
\* part of its buffer.
THEOREM NeverOverfetchAlways == RecvSpec => []NeverOverfetch
<1>1. RecvInv => NeverOverfetch
  BY DEF RecvInv
<1> QED
  BY <1>1, RecvInvAlways, PTL

\* Where NIE reports the end of a stream only from its own task, a fetch that
\* returned MBEDTLS_ERR_SSL_WANT_READ on a live connection is followed by
\* GetCompleteCB's answer or the TLS event of one already given.
THEOREM NoLostWakeupAlways ==
    ASSUME ~SyncEOF
    PROVE  RecvSpec => []NoLostWakeup
<1>1. RecvInv => NoLostWakeup
  BY DEF RecvInv, WakeOK, GetsOK, NoLostWakeup
<1> QED
  BY <1>1, RecvInvAlways, PTL

\* SSLRecvCallback never runs its partial copy: each copy empties
\* mSSLRecvBuffer.
CopyEmptiesBuffer == [][RecvCopy => mSSLRecvBuffer' = <<>>]_recvVars

\* No copy leaves anything behind for the broken shift of SSLRecvCallback.
THEOREM CopyAlwaysEmptiesBuffer == RecvSpec => CopyEmptiesBuffer
<1>1. RecvInv /\ [RecvNext]_recvVars => [RecvCopy => mSSLRecvBuffer' = <<>>]_recvVars
  BY CopyTakesAll
<1> QED
  BY <1>1, RecvInvAlways, PTL DEF RecvSpec, CopyEmptiesBuffer

\* A step of the receiving half is a step of the stream, or none.
LEMMA RecvStep ==
    ASSUME RecvInv, [RecvNext]_recvVars
    PROVE  [PeerStream!StreamNext]_(PeerStream!streamVars)
<1> USE DEF PeerStream!streamVars
<1>1. CASE RecvCopy
  <2>1. /\ Len(mSSLRecvBuffer) \in 1 .. want
        /\ received' = received \o mSSLRecvBuffer
    BY <1>1, CopyTakesAll
  <2>2. /\ received \in Seq(Nat) /\ mSSLRecvBuffer \in Seq(Nat) /\ want \in Nat
        /\ mSSLConfigured /\ peerSent \in Nat /\ given \in Nat
    BY <1>1 DEF RecvInv, RecvDataOK, PlaceOK, RecvCopy
  <2>3. /\ received \o mSSLRecvBuffer \in Seq(Nat)
        /\ Len(received \o mSSLRecvBuffer) = Len(received) + Len(mSSLRecvBuffer)
        /\ \A i \in 1 .. Len(received) + Len(mSSLRecvBuffer) :
              (received \o mSSLRecvBuffer)[i] =
                  IF i <= Len(received) THEN received[i]
                                        ELSE mSSLRecvBuffer[i - Len(received)]
    BY <2>2, ConcatProperties
  <2>4. /\ \A i \in 1 .. Len(mSSLRecvBuffer) : mSSLRecvBuffer[i] = Len(received) + i
        /\ Len(received) + Len(mSSLRecvBuffer) <= peerSent
    BY <2>2 DEF RecvInv, OrderOK
  <2>5. Len(received') \in Len(received) + 1 .. peerSent
    BY <2>1, <2>2, <2>3, <2>4
  <2>6. \A i \in 1 .. Len(received') :
           received'[i] = IF i <= Len(received) THEN received[i] ELSE i
    BY <2>1, <2>2, <2>3, <2>4
  <2>7. UNCHANGED peerSent
    BY <1>1 DEF RecvCopy, nieVars
  <2>8. PeerStream!Deliver
    BY <2>1, <2>3, <2>5, <2>6, <2>7 DEF PeerStream!Deliver
  <2> QED
    BY <2>8 DEF PeerStream!StreamNext
<1>2. CASE PeerSends
  BY <1>2 DEF PeerSends, mbedVars, RecvInv, RecvDataOK, PeerStream!StreamNext,
              PeerStream!Accept
<1>3. CASE RecvConfigure
  BY <1>3 DEF RecvConfigure, PeerStream!StreamNext, PeerStream!Restart
<1>4. CASE ~RecvCopy /\ ~PeerSends /\ ~RecvConfigure
  <2>1. UNCHANGED <<peerSent, received>>
    BY <1>4 DEF RecvNext, RecvUnconfigure, FetchInput, FetchUsed, ReadsEnd,
         SSLRecvCallback, RecvRefuse, RecvAskNIE, RecvAskNothing, RecvAsked, RecvNoCopy,
         GetCompleteCB, GetCompleteData, GetCompleteEOF, GetCompleteError, GetAnswered,
         HandleTLSEvent, PeerCloses, RecvNIEUp, RecvNIEDown, recvVars, mbedVars, nieVars,
         ceVars
  <2> QED
    BY <2>1
<1> QED
  BY <1>1, <1>2, <1>3, <1>4

\* The receiving half implements the reliable byte stream: mbedtls gets the
\* peer's bytes in order, each once, through SSLRecvCallback and GetCompleteCB.
THEOREM RecvRefinesStream == RecvSpec => RecvImplementsStream
<1>1. RecvInit => PeerStream!StreamInit
  BY DEF RecvInit, PeerStream!StreamInit
<1>2. RecvInv /\ [RecvNext]_recvVars => [PeerStream!StreamNext]_(PeerStream!streamVars)
  BY RecvStep
<1> QED
  BY <1>1, <1>2, RecvInvAlways, PTL
     DEF RecvSpec, RecvImplementsStream, PeerStream!StreamSpec
=============================================================================
