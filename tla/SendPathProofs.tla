--------------------------- MODULE SendPathProofs ---------------------------
(***************************************************************************)
(* Proofs about the sending half, for all values of its bounds: its safety *)
(* invariants, that a failed Put silences a connection, and that it        *)
(* implements the abstract byte stream.                                    *)
(***************************************************************************)
EXTENDS SendPath, SequenceTheorems, TLAPS

\* The type invariant in two parts: the flags, and everything else.
FlagsOK == mSSLConfigured \in BOOLEAN /\ mSendPending \in BOOLEAN /\ nieUp \in BOOLEAN
DataOK ==
    /\ mSendBuffer \in Seq(Nat) /\ mPutDataBuffer \in Seq(Nat)
    /\ putPosition \in 0 .. Len(mPutDataBuffer)
    /\ mSendError \in SendErrors /\ niePuts \in Nat
    /\ written \in Nat /\ wire \in Seq(Nat)

\* The four parts of SendInOrder, on a configured connection.
InOrder == WireInOrder /\ PutInOrder /\ WaitingInOrder /\ AllAccountedFor

\* On a configured connection an inner Put is outstanding exactly while
\* mSendPending says so (NIE going down drops the Put without clearing the
\* flag), and never after a failure.
PendingMatches ==
    mSSLConfigured =>
        /\ niePuts = 1 => mSendPending /\ mSendError = "noErr"
        /\ mSendPending => written > 0
        /\ mSendPending /\ nieUp => niePuts = 1

\* With no Put outstanding and no failure, nothing waits in the buffers.
IdleIsEmpty ==
    mSSLConfigured /\ ~mSendPending /\ mSendError = "noErr" =>
        mSendBuffer = <<>> /\ mPutDataBuffer = <<>>

\* Without SSL there are no buffers, so NIE finds nothing to take.
UnconfiguredIsEmpty == ~mSSLConfigured => mPutDataBuffer = <<>>

Pending == OneInnerPut /\ PendingMatches /\ IdleIsEmpty /\ UnconfiguredIsEmpty

\* The inductive invariant.
SendInv == FlagsOK /\ DataOK /\ SendInOrder /\ Pending

\* The two parts are the type invariant.
LEMMA TypeParts == SendTypeOK <=> FlagsOK /\ DataOK
  BY DEF SendTypeOK, FlagsOK, DataOK

\* The sending half starts in the invariant.
LEMMA SendInvInit == SendInit => SendInv
<1> SUFFICES ASSUME SendInit PROVE SendInv
  OBVIOUS
<1>1. FlagsOK
  BY DEF SendInit, FlagsOK
<1>2. DataOK
  BY DEF SendInit, DataOK, SendErrors
<1>3. SendInOrder
  BY DEF SendInit, SendInOrder
<1>4. Pending
  BY DEF SendInit, Pending, OneInnerPut, PendingMatches, IdleIsEmpty, UnconfiguredIsEmpty
<1> QED
  BY <1>1, <1>2, <1>3, <1>4 DEF SendInv

\* A stuttering step changes nothing the invariant looks at.
LEMMA SendInvStutter == SendInv /\ UNCHANGED sendVars => SendInv'
  BY DEF SendInv, FlagsOK, DataOK, SendInOrder, WireInOrder, PutInOrder, WaitingInOrder,
         AllAccountedFor, Handed, Pending, OneInnerPut, PendingMatches, IdleIsEmpty,
         UnconfiguredIsEmpty, sendVars

\* SSLConfigure starts an empty stream.
LEMMA SendInvConfigure == SendInv /\ SendConfigure => SendInv'
<1> SUFFICES ASSUME SendInv, SendConfigure PROVE SendInv'
  OBVIOUS
<1>1. FlagsOK'
  BY DEF SendInv, FlagsOK, SendConfigure
<1>2. DataOK'
  BY DEF SendInv, DataOK, SendErrors, SendConfigure
<1>3. InOrder'
  BY DEF SendConfigure, InOrder, WireInOrder, PutInOrder, WaitingInOrder,
         AllAccountedFor, Handed
<1>4. Pending'
  BY DEF SendConfigure, Pending, OneInnerPut, PendingMatches, IdleIsEmpty,
         UnconfiguredIsEmpty
<1> QED
  BY <1>1, <1>2, <1>3, <1>4 DEF SendInv, SendInOrder, InOrder

\* After SSLUnconfigure there is no stream to be in order.
LEMMA SendInvUnconfigure == SendInv /\ SendUnconfigure => SendInv'
<1> SUFFICES ASSUME SendInv, SendUnconfigure PROVE SendInv'
  OBVIOUS
<1>1. FlagsOK'
  BY DEF SendInv, FlagsOK, SendUnconfigure
<1>2. DataOK'
  BY DEF SendInv, DataOK, SendUnconfigure
<1>3. SendInOrder'
  BY DEF SendUnconfigure, SendInOrder
<1>4. Pending'
  BY DEF SendInv, SendUnconfigure, Pending, OneInnerPut, PendingMatches, IdleIsEmpty,
         UnconfiguredIsEmpty
<1> QED
  BY <1>1, <1>2, <1>3, <1>4 DEF SendInv

\* What SSLSendCallback takes from mbedtls: n bytes, numbered on from the last.
LEMMA NewBytesProperties ==
    ASSUME DataOK, NEW n \in 1 .. MaxChunk
    PROVE  /\ n \in Nat \ {0}
           /\ NewBytes(n) \in Seq(Nat) /\ Len(NewBytes(n)) = n
           /\ \A i \in 1 .. n : NewBytes(n)[i] = written + i
<1>1. n \in Nat \ {0}
  BY SendBounds
<1> QED
  BY <1>1 DEF NewBytes, DataOK

\* SSLSendCallback while a Put is pending: the bytes go behind those that wait.
LEMMA SendInvSendLater ==
    ASSUME NEW n \in 1 .. MaxChunk, SendInv, SSLSendCallback(n), mSendPending
    PROVE  SendInv'
<1>1. /\ mSendBuffer' = mSendBuffer \o NewBytes(n) /\ written' = written + n
      /\ UNCHANGED <<mSSLConfigured, mPutDataBuffer, putPosition, mSendPending,
                     mSendError, niePuts, nieUp, wire>>
      /\ mSSLConfigured
  BY DEF SSLSendCallback
<1>2. FlagsOK /\ DataOK /\ InOrder /\ Pending
  BY <1>1 DEF SendInv, SendInOrder, InOrder
<1>3. /\ n \in Nat \ {0}
      /\ NewBytes(n) \in Seq(Nat) /\ Len(NewBytes(n)) = n
      /\ \A i \in 1 .. n : NewBytes(n)[i] = written + i
  BY <1>2, NewBytesProperties
<1>4. mSendBuffer \in Seq(Nat)
  BY <1>2 DEF DataOK
<1>5. /\ mSendBuffer \o NewBytes(n) \in Seq(Nat)
      /\ Len(mSendBuffer \o NewBytes(n)) = Len(mSendBuffer) + Len(NewBytes(n))
      /\ \A i \in 1 .. Len(mSendBuffer) + Len(NewBytes(n)) :
            (mSendBuffer \o NewBytes(n))[i] =
                IF i <= Len(mSendBuffer) THEN mSendBuffer[i]
                                         ELSE NewBytes(n)[i - Len(mSendBuffer)]
  BY <1>3, <1>4, ConcatProperties
<1>6. FlagsOK'
  BY <1>1, <1>2 DEF FlagsOK
<1>7. DataOK'
  BY <1>1, <1>2, <1>3, <1>5 DEF DataOK
<1>8. WireInOrder' /\ PutInOrder' /\ AllAccountedFor'
  BY <1>1, <1>2, <1>3, <1>5 DEF DataOK, InOrder, WireInOrder, PutInOrder,
                               AllAccountedFor, Handed
<1>9. WaitingInOrder'
  <2> SUFFICES ASSUME NEW i \in 1 .. Len(mSendBuffer) + n
               PROVE  mSendBuffer'[i] = Handed + i
    BY <1>1, <1>3, <1>5 DEF WaitingInOrder, Handed
  <2>1. Handed \in Int /\ Len(mSendBuffer) \in Nat
    BY <1>2 DEF DataOK, Handed
  <2>2. CASE i <= Len(mSendBuffer)
    BY <2>1, <2>2, <1>1, <1>2, <1>3, <1>5 DEF InOrder, WaitingInOrder
  <2>3. CASE i > Len(mSendBuffer)
    <3>1. i - Len(mSendBuffer) \in 1 .. n /\ ~(i <= Len(mSendBuffer))
      BY <2>1, <2>3, <1>3
    <3>2. mSendBuffer'[i] = written + (i - Len(mSendBuffer))
      BY <3>1, <1>1, <1>3, <1>5
    <3> QED
      BY <3>2, <2>1, <1>2 DEF InOrder, AllAccountedFor
  <2> QED
    BY <2>1, <2>2, <2>3
<1>10. Pending'
  BY <1>1, <1>2, <1>3 DEF DataOK, Pending, OneInnerPut, PendingMatches, IdleIsEmpty,
                          UnconfiguredIsEmpty
<1> QED
  BY <1>6, <1>7, <1>8, <1>9, <1>10 DEF SendInv, SendInOrder

\* SSLSendCallback with no Put pending: the buffers are empty, and the bytes
\* are the new contents of mPutDataBuffer.
LEMMA SendInvSendNow ==
    ASSUME NEW n \in 1 .. MaxChunk, SendInv, SSLSendCallback(n), ~mSendPending
    PROVE  SendInv'
<1>1. /\ mSSLConfigured /\ mSendError = "noErr"
      /\ written' = written + n
      /\ mPutDataBuffer' = mPutDataBuffer \o (mSendBuffer \o NewBytes(n))
      /\ mSendBuffer' = <<>> /\ mSendPending' = TRUE /\ niePuts' = niePuts + 1
      /\ UNCHANGED <<mSSLConfigured, putPosition, mSendError, nieUp, wire>>
  BY DEF SSLSendCallback
<1>2. FlagsOK /\ DataOK /\ InOrder /\ Pending
  BY <1>1 DEF SendInv, SendInOrder, InOrder
<1>3. /\ n \in Nat \ {0}
      /\ NewBytes(n) \in Seq(Nat) /\ Len(NewBytes(n)) = n
      /\ \A i \in 1 .. n : NewBytes(n)[i] = written + i
  BY <1>2, NewBytesProperties
<1>4. mSendBuffer = <<>> /\ mPutDataBuffer = <<>>
  BY <1>1, <1>2 DEF Pending, IdleIsEmpty
<1>5. putPosition = 0 /\ niePuts = 0
  BY <1>1, <1>2, <1>4 DEF DataOK, Pending, OneInnerPut, PendingMatches
<1>6. mPutDataBuffer' = NewBytes(n)
  BY <1>1, <1>3, <1>4, ConcatEmptySeq
<1>7. FlagsOK'
  BY <1>1, <1>2 DEF FlagsOK
<1>8. DataOK'
  BY <1>1, <1>2, <1>3, <1>5, <1>6 DEF DataOK
<1>9. written = Len(wire)
  BY <1>2, <1>4, <1>5 DEF DataOK, InOrder, AllAccountedFor, Handed
<1>10. InOrder'
  <2>1. Len(wire) \in Nat /\ Len(mPutDataBuffer') = n /\ Len(mSendBuffer') = 0
    BY <1>1, <1>2, <1>3, <1>6 DEF DataOK
  <2>2. WireInOrder' /\ WaitingInOrder'
    BY <1>1, <1>2, <2>1 DEF InOrder, WireInOrder, WaitingInOrder
  <2>3. PutInOrder'
    BY <1>1, <1>3, <1>5, <1>6, <1>9, <2>1 DEF PutInOrder
  <2>4. AllAccountedFor'
    BY <1>1, <1>3, <1>5, <1>9, <2>1 DEF AllAccountedFor, Handed
  <2> QED
    BY <2>2, <2>3, <2>4 DEF InOrder
<1>11. Pending'
  BY <1>1, <1>2, <1>3, <1>5 DEF DataOK, Pending, OneInnerPut, PendingMatches,
                                IdleIsEmpty, UnconfiguredIsEmpty
<1> QED
  BY <1>7, <1>8, <1>10, <1>11 DEF SendInv, SendInOrder, InOrder

\* PutCompleteCB: on a failure nothing moves, a finished buffer is replaced by
\* what piled up behind it, an unfinished one is put again.
LEMMA SendInvPutComplete ==
    ASSUME NEW result \in SendErrors, SendInv, PutCompleteCB(result)
    PROVE  SendInv'
<1>1. /\ mSSLConfigured /\ niePuts > 0
      /\ UNCHANGED <<mSSLConfigured, nieUp, written, wire>>
  BY DEF PutCompleteCB
<1>2. FlagsOK /\ DataOK /\ InOrder /\ Pending
  BY <1>1 DEF SendInv, SendInOrder, InOrder
<1>3. niePuts = 1 /\ mSendPending /\ mSendError = "noErr" /\ written > 0
  BY <1>1, <1>2 DEF DataOK, Pending, OneInnerPut, PendingMatches
<1>4. CASE PutFailed
  <2>1. FlagsOK'
    BY <1>1, <1>2, <1>4 DEF FlagsOK, PutFailed
  <2>2. DataOK'
    BY <1>1, <1>2, <1>3, <1>4 DEF DataOK, SendErrors, PutFailed
  <2>3. InOrder'
    BY <1>1, <1>2, <1>4 DEF PutFailed, InOrder, WireInOrder, PutInOrder, WaitingInOrder,
                            AllAccountedFor, Handed
  <2>4. Pending'
    BY <1>1, <1>3, <1>4 DEF PutFailed, Pending, OneInnerPut, PendingMatches, IdleIsEmpty,
                            UnconfiguredIsEmpty
  <2> QED
    BY <2>1, <2>2, <2>3, <2>4 DEF SendInv, SendInOrder, InOrder
<1>5. CASE PutNextBatch
  <2>1. FlagsOK'
    BY <1>1, <1>2, <1>5 DEF FlagsOK, PutNextBatch
  <2>2. DataOK'
    BY <1>1, <1>2, <1>3, <1>5 DEF DataOK, PutNextBatch
  <2>3. InOrder'
    BY <1>1, <1>2, <1>5 DEF PutNextBatch, AtEOF, DataOK, InOrder, WireInOrder, PutInOrder,
                            WaitingInOrder, AllAccountedFor, Handed
  <2>4. Pending'
    <3>1. CASE mSendBuffer = <<>>
      <4>1. ~mSendPending'
        BY <1>5, <3>1 DEF PutNextBatch
      <4>2. niePuts' = 0 /\ mPutDataBuffer' = <<>> /\ mSendBuffer' = <<>>
        BY <1>3, <1>5, <3>1 DEF PutNextBatch
      <4> QED
        BY <1>1, <4>1, <4>2 DEF Pending, OneInnerPut, PendingMatches, IdleIsEmpty,
                                UnconfiguredIsEmpty
    <3>2. CASE mSendBuffer # <<>>
      <4>1. mSendPending' = TRUE
        BY <1>5, <3>2 DEF PutNextBatch
      <4>2. niePuts' = 1 /\ mSendError' = "noErr"
        BY <1>3, <1>5, <3>2 DEF PutNextBatch
      <4> QED
        BY <1>1, <1>3, <4>1, <4>2 DEF Pending, OneInnerPut, PendingMatches, IdleIsEmpty,
                                     UnconfiguredIsEmpty
    <3> QED
      BY <3>1, <3>2
  <2> QED
    BY <2>1, <2>2, <2>3, <2>4 DEF SendInv, SendInOrder, InOrder
<1>6. CASE PutRest
  <2>1. UNCHANGED sendVars
    BY <1>1, <1>2, <1>3, <1>6 DEF PutRest, sendVars, FlagsOK
  <2> QED
    BY <2>1, SendInvStutter
<1> QED
  BY <1>4, <1>5, <1>6 DEF PutCompleteCB

\* NIE takes the next byte of mPutDataBuffer, which is the next of the stream.
LEMMA SendInvTakes == SendInv /\ NIETakes => SendInv'
<1> SUFFICES ASSUME SendInv, NIETakes PROVE SendInv'
  OBVIOUS
<1>1. FlagsOK'
  BY DEF SendInv, FlagsOK, NIETakes
<1>2. /\ mPutDataBuffer[putPosition + 1] \in Nat /\ wire \in Seq(Nat)
      /\ wire' = Append(wire, mPutDataBuffer[putPosition + 1])
      /\ putPosition' = putPosition + 1
      /\ putPosition + 1 \in 1 .. Len(mPutDataBuffer)
      /\ UNCHANGED <<mSSLConfigured, mSendBuffer, mPutDataBuffer, mSendPending,
                     mSendError, niePuts, nieUp, written>>
  BY DEF SendInv, DataOK, NIETakes
<1>3. /\ wire' \in Seq(Nat) /\ Len(wire') = Len(wire) + 1
      /\ \A i \in 1 .. Len(wire) : wire'[i] = wire[i]
      /\ wire'[Len(wire) + 1] = mPutDataBuffer[putPosition + 1]
  BY <1>2, AppendProperties
<1>4. DataOK'
  BY <1>2, <1>3 DEF SendInv, DataOK
<1>5. mSSLConfigured
  BY <1>2 DEF SendInv, Pending, UnconfiguredIsEmpty
<1>6. InOrder'
  <2>1. DataOK /\ InOrder
    BY <1>5 DEF SendInv, SendInOrder, InOrder
  <2>2. Handed' = Handed /\ Len(wire) \in Nat /\ putPosition \in Nat
    BY <1>2, <1>3, <2>1 DEF DataOK, Handed
  <2>3. wire'[Len(wire) + 1] = Len(wire) + 1
    BY <1>2, <1>3, <2>1, <2>2 DEF InOrder, PutInOrder
  <2>4. WireInOrder'
    BY <1>3, <2>1, <2>2, <2>3 DEF InOrder, WireInOrder
  <2>5. PutInOrder'
    BY <1>2, <1>3, <2>1, <2>2 DEF InOrder, PutInOrder
  <2>6. WaitingInOrder' /\ AllAccountedFor'
    BY <1>2, <2>1, <2>2 DEF InOrder, WaitingInOrder, AllAccountedFor
  <2> QED
    BY <2>4, <2>5, <2>6 DEF InOrder
<1>7. Pending'
  BY <1>2 DEF SendInv, Pending, OneInnerPut, PendingMatches, IdleIsEmpty,
              UnconfiguredIsEmpty
<1> QED
  BY <1>1, <1>4, <1>6, <1>7 DEF SendInv, SendInOrder, InOrder

\* NIE's connection comes up with nothing pending, and going down drops a Put.
LEMMA SendInvUpDown == SendInv /\ (NIEUp \/ NIEDown) => SendInv'
<1> SUFFICES ASSUME SendInv, NIEUp \/ NIEDown PROVE SendInv'
  OBVIOUS
<1>1. FlagsOK'
  BY DEF SendInv, FlagsOK, NIEUp, NIEDown
<1>2. DataOK'
  BY DEF SendInv, DataOK, NIEUp, NIEDown
<1>3. SendInOrder'
  BY DEF SendInv, NIEUp, NIEDown, SendInOrder, WireInOrder, PutInOrder, WaitingInOrder,
         AllAccountedFor, Handed
<1>4. Pending'
  BY DEF SendInv, DataOK, NIEUp, NIEDown, Pending, OneInnerPut, PendingMatches,
         IdleIsEmpty, UnconfiguredIsEmpty
<1> QED
  BY <1>1, <1>2, <1>3, <1>4 DEF SendInv

\* Every step keeps the invariant.
LEMMA SendInvNext == SendInv /\ [SendNext]_sendVars => SendInv'
  BY SendInvStutter, SendInvConfigure, SendInvUnconfigure, SendInvSendLater,
     SendInvSendNow, SendInvPutComplete, SendInvTakes, SendInvUpDown
     DEF SendNext

\* The invariant holds in every behaviour of the sending half.
THEOREM SendInvariant == SendSpec => []SendInv
  BY SendInvInit, SendInvNext, PTL DEF SendSpec

\* The sending half's variables keep their types and ranges: in particular the
\* read position of mPutDataBuffer never passes its end.
THEOREM SendTypeCorrect == SendSpec => []SendTypeOK
<1>1. SendInv => SendTypeOK
  BY TypeParts DEF SendInv
<1> QED
  BY <1>1, SendInvariant, PTL

\* For any number of bytes, chunks, partial Puts and failures, NIE is given the
\* bytes mbedtls wrote, each once and in order.
THEOREM SendInOrderAlways == SendSpec => []SendInOrder
<1>1. SendInv => SendInOrder
  BY DEF SendInv
<1> QED
  BY <1>1, SendInvariant, PTL

\* SSLSendCallback and PutCompleteCB never have two inner Puts at a time.
THEOREM OneInnerPutAlways == SendSpec => []OneInnerPut
<1>1. SendInv => OneInnerPut
  BY DEF SendInv, Pending
<1> QED
  BY <1>1, SendInvariant, PTL

\* No byte waits in a buffer without a Put that NIE has yet to answer.
THEOREM NothingStrandedAlways == SendSpec => []NothingStranded
<1>1. SendInv => NothingStranded
  <2> SUFFICES ASSUME SendInv, mSSLConfigured, nieUp, mSendError = "noErr",
                      written > Len(wire)
               PROVE  niePuts = 1
    BY DEF NothingStranded
  <2>1. mSendPending
    BY DEF SendInv, DataOK, SendInOrder, AllAccountedFor, Handed, Pending, IdleIsEmpty
  <2> QED
    BY <2>1 DEF SendInv, Pending, PendingMatches
<1> QED
  BY <1>1, SendInvariant, PTL

\* After a failed Put the connection is silent: no step of the code and none of
\* NIE puts another byte on the wire.
THEOREM QuietAfterErrorAlways == SendSpec => QuietAfterError
<1>1. SendInv /\ [SendNext]_sendVars =>
        [mSSLConfigured /\ mSSLConfigured' /\ mSendError = "error" =>
            wire' = wire \/ mSendError' = "noErr"]_sendVars
  BY DEF SendInv, DataOK, Pending, OneInnerPut, PendingMatches, SendNext, sendVars,
         SendConfigure, SendUnconfigure, SSLSendCallback, PutCompleteCB, NIETakes,
         NIEUp, NIEDown
<1> QED
  BY <1>1, SendInvariant, PTL DEF SendSpec, QuietAfterError

-----------------------------------------------------------------------------
\* A byte NIE takes is a delivery of the abstract stream: it is the successor
\* of the last one, and one that was written.
LEMMA TakesDelivers == SendInv /\ NIETakes => Stream!Deliver
<1> SUFFICES ASSUME SendInv, NIETakes PROVE Stream!Deliver
  OBVIOUS
<1>1. mSSLConfigured /\ UNCHANGED written
  BY DEF SendInv, DataOK, NIETakes, Pending, UnconfiguredIsEmpty
<1>2. DataOK /\ WireInOrder /\ PutInOrder /\ AllAccountedFor
  BY <1>1 DEF SendInv, SendInOrder
<1>3. /\ Len(wire) + 1 <= written /\ putPosition + 1 \in 1 .. Len(mPutDataBuffer)
      /\ mPutDataBuffer[putPosition + 1] = Len(wire) + 1
  BY <1>2 DEF NIETakes, DataOK, PutInOrder, AllAccountedFor, Handed
<1>4. wire \in Seq(Nat) /\ Len(wire) + 1 \in Nat /\ wire' = Append(wire, Len(wire) + 1)
  BY <1>2, <1>3 DEF NIETakes, DataOK
<1>5. /\ wire' \in Seq(Nat) /\ Len(wire') = Len(wire) + 1
      /\ \A i \in 1 .. Len(wire) : wire'[i] = wire[i]
      /\ wire'[Len(wire) + 1] = Len(wire) + 1
  BY <1>4, AppendProperties
<1>6. \A i \in 1 .. Len(wire') : wire'[i] = IF i <= Len(wire) THEN wire[i] ELSE i
  BY <1>4, <1>5
<1> QED
  BY <1>1, <1>2, <1>3, <1>4, <1>5, <1>6 DEF DataOK, Stream!Deliver

\* The sending half implements the reliable byte stream: bytes accepted by
\* SSLSendCallback are delivered to NIE in order, and only SSLConfigure starts
\* a stream over.
THEOREM SendRefinesStream == SendSpec => SendImplementsStream
<1>1. SendInit => Stream!StreamInit
  BY DEF SendInit, Stream!StreamInit
<1>2. SendInv /\ [SendNext]_sendVars => [Stream!StreamNext]_(Stream!streamVars)
  <2> SUFFICES ASSUME SendInv, [SendNext]_sendVars
               PROVE  [Stream!StreamNext]_(Stream!streamVars)
    OBVIOUS
  <2>1. CASE NIETakes
    BY <2>1, TakesDelivers DEF Stream!StreamNext
  <2>2. ASSUME NEW n \in 1 .. MaxChunk, SSLSendCallback(n) PROVE Stream!StreamNext
    <3>1. n \in Nat \ {0}
      BY SendBounds
    <3> QED
      BY <2>2, <3>1 DEF SendInv, DataOK, SSLSendCallback, Stream!StreamNext, Stream!Accept
  <2>3. CASE SendConfigure
    BY <2>3 DEF SendConfigure, Stream!StreamNext, Stream!Restart
  <2>4. CASE UNCHANGED <<written, wire>>
    BY <2>4 DEF Stream!streamVars
  <2> QED
    BY <2>1, <2>2, <2>3, <2>4 DEF SendNext, sendVars, SendUnconfigure, PutCompleteCB,
                                  NIEUp, NIEDown
<1> QED
  BY <1>1, <1>2, SendInvariant, PTL DEF SendSpec, SendImplementsStream, Stream!StreamSpec
=============================================================================
