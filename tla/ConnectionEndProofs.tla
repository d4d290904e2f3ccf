------------------------ MODULE ConnectionEndProofs ------------------------
(***************************************************************************)
(* Proofs about ConnectionEnd: for any sizes and any number of             *)
(* connections, whatever faults NIE, the peer and mbedtls make.            *)
(*                                                                         *)
(* The results build on each other.  LinkInv is about requests, calls and  *)
(* the link; with it every step is one of the two halves, and what is      *)
(* proved of these holds here.  ReadInv adds the client's Get.  SessInv    *)
(* says who a TLS session belongs to, and LiveInv that a finished one is   *)
(* marked; AskInv, on top of all, counts the answers.  The last two have   *)
(* hypotheses, stated where they start, and runs that show the need.       *)
(***************************************************************************)
EXTENDS ConnectionEnd, TLAPS

-----------------------------------------------------------------------------
(***************************************************************************)
(* The requests NIE holds, the state of the client's link and whether SSL  *)
(* is configured go together.                                              *)
(***************************************************************************)
\* mbedtls runs, and fetches, only while SSL is configured.
FetchNeedsSSL == recvPc # "out" => mSSLConfigured
CallNeedsSSL == ctl \in {"handshake", "read"} => mSSLConfigured

\* A closed link has nothing left, once CloseStart has returned.
ClosedIsClean ==
    link = "closed" => /\ nieOps \subseteq {"open"}
                       /\ ctl # "closing" => ~mSSLConfigured

\* A close overtakes every other request, and none is made until it is done.
ClosingIsAlone ==
    /\ "close" \in nieOps =>
         /\ nieOps = {"close"} /\ pending["close"] = 1 /\ nieRaw = {}
         /\ ctl # "closing" => ~mSSLConfigured
    /\ ctl = "closing" => link = "closed" \/ "close" \in nieOps

OpeningIsClosed == "open" \in nieOps => link = "closed"

\* A connection being made without SSL stays one: the client waits for it.
ConnectingClear ==
    "connect" \in nieOps /\ ~mSSLConfigured => ~mSSLEnabled /\ pending["connect"] = 1

\* NIE holds transfers of the client only on a clear connection.
RawIsClear == nieRaw # {} => ~mSSLConfigured /\ link = "connected"

LinkInv ==
    /\ mSSLConfigured \in BOOLEAN /\ pending \in [Requests -> Int]
    /\ NothingDangling /\ FetchNeedsSSL /\ CallNeedsSSL
    /\ ClosedIsClean /\ ClosingIsAlone /\ OpeningIsClosed
    /\ ConnectingClear /\ RawIsClear

\* The variables LinkInv is about, and those of them a step of mbedtls, the
\* client's transfers or the network leaves alone.
linkState == <<mSSLConfigured, mSSLEnabled, link, nieOps, nieRaw, pending, ctl>>

LEMMA LinkInitially == CEInit => LinkInv
<1> SUFFICES ASSUME CEInit PROVE LinkInv
  OBVIOUS
<1>1. mSSLConfigured \in BOOLEAN
  BY DEF CEInit, Send!SendInit
<1>2. pending \in [Requests -> Int]
  BY DEF CEInit
<1>3. NothingDangling /\ FetchNeedsSSL /\ CallNeedsSSL
  BY DEF CEInit, Send!SendInit, Recv!RecvInit, NothingDangling, FetchNeedsSSL, CallNeedsSSL
<1>4. ClosedIsClean /\ ClosingIsAlone /\ OpeningIsClosed /\ ConnectingClear /\ RawIsClear
  BY DEF CEInit, Send!SendInit, ClosedIsClean, ClosingIsAlone, OpeningIsClosed,
         ConnectingClear, RawIsClear
<1> QED BY <1>1, <1>2, <1>3, <1>4 DEF LinkInv

\* Steps inside an mbedtls call, or of NIE and the peer, that leave requests
\* and the link alone.
LEMMA LinkInner ==
    ASSUME LinkInv, UNCHANGED linkState,
           recvPc' # "out" => mSSLConfigured,
           ~mSSLConfigured => UNCHANGED <<niePuts, nieGets, tlsEvent>>
    PROVE  LinkInv'
BY DEF linkState, LinkInv, NothingDangling, FetchNeedsSSL, CallNeedsSSL, ClosedIsClean,
       ClosingIsAlone, OpeningIsClosed, ConnectingClear, RawIsClear

\* What the halves' steps do to the variables LinkInv is about.
LEMMA RecvSteps ==
    /\ \A n : Recv!FetchInput(n) => mSSLConfigured /\ UNCHANGED <<nieGets, tlsEvent, mSSLConfigured>>
    /\ Recv!FetchUsed \/ Recv!ReadsEnd =>
          mSSLConfigured /\ UNCHANGED <<nieGets, tlsEvent, mSSLConfigured, recvPc>>
    /\ Recv!SSLRecvCallback => recvPc # "out" /\ UNCHANGED mSSLConfigured
    /\ (\E k \in 1 .. MaxWant : Recv!GetCompleteData(k)) \/ Recv!GetCompleteEOF
       \/ Recv!GetCompleteError => mSSLConfigured /\ UNCHANGED <<mSSLConfigured, recvPc>>
    /\ Recv!HandleTLSEvent => tlsEvent /\ ~tlsEvent' /\ UNCHANGED <<mSSLConfigured, nieGets>>
    /\ Recv!PeerSends \/ Recv!PeerCloses =>
          UNCHANGED <<nieGets, tlsEvent, mSSLConfigured, recvPc>>
BY DEF Recv!FetchInput, Recv!FetchUsed, Recv!ReadsEnd, Recv!SSLRecvCallback, Recv!RecvRefuse,
       Recv!RecvAskNIE, Recv!RecvAskNothing, Recv!RecvAsked, Recv!RecvNoCopy, Recv!RecvCopy,
       Recv!GetCompleteData, Recv!GetCompleteEOF, Recv!GetCompleteError, Recv!GetAnswered,
       Recv!HandleTLSEvent, Recv!PeerSends, Recv!PeerCloses, Recv!ceVars, Recv!nieVars,
       Recv!mbedVars

LEMMA SendSteps ==
    /\ \A n : Send!SSLSendCallback(n) => mSSLConfigured /\ UNCHANGED mSSLConfigured
    /\ \A r : Send!PutCompleteCB(r) => mSSLConfigured /\ UNCHANGED mSSLConfigured
    /\ Send!NIETakes => UNCHANGED <<mSSLConfigured, niePuts>>
BY DEF Send!SSLSendCallback, Send!PutCompleteCB, Send!NIETakes

\* A handshake or a read that goes on, and what NIE and the peer do.
LEMMA LinkInnerSteps ==
    ASSUME LinkInv,
           \/ \E n : HandshakeSends(n) \/ HandshakeFetches(n) \/ ReadFetches(n)
                     \/ ReadParses(n) \/ PutBytesStart(n)
           \/ HandshakeParses \/ SSLRecvCallback \/ PutFails
           \/ PutCompleteCB \/ GetCompleteCB \/ NIETakes \/ Peer
    PROVE  LinkInv'
<1> USE DEF OtherVars, sendVars, recvVars, sendOnly, recvOnly, tlsVars, linkVars, linkState
<1>0. recvPc # "out" => mSSLConfigured
  BY DEF LinkInv, FetchNeedsSSL
<1>1. ASSUME NEW n, HandshakeSends(n) \/ PutBytesStart(n) PROVE LinkInv'
  BY <1>0, <1>1, SendSteps, LinkInner DEF HandshakeSends, PutBytesStart
<1>2. ASSUME NEW n, HandshakeFetches(n) \/ ReadFetches(n) PROVE LinkInv'
  BY <1>0, <1>2, RecvSteps, LinkInner DEF HandshakeFetches, ReadFetches
<1>3. ASSUME NEW n, ReadParses(n) PROVE LinkInv'
  BY <1>0, <1>3, RecvSteps, LinkInner DEF ReadParses
<1>4. CASE HandshakeParses
  BY <1>0, <1>4, RecvSteps, LinkInner DEF HandshakeParses
<1>5. CASE SSLRecvCallback
  BY <1>0, <1>5, RecvSteps, LinkInner DEF SSLRecvCallback
<1>6. CASE PutFails
  BY <1>0, <1>6, RecvSteps, LinkInner DEF PutFails, SessionReset
<1>7. CASE PutCompleteCB
  BY <1>0, <1>7, SendSteps, LinkInner DEF PutCompleteCB
<1>8. CASE GetCompleteCB
  BY <1>0, <1>8, RecvSteps, LinkInner DEF GetCompleteCB
<1>9. CASE NIETakes
  BY <1>0, <1>9, SendSteps, LinkInner DEF NIETakes
<1>10. CASE Peer
  BY <1>0, <1>10, RecvSteps, LinkInner DEF Peer
<1> QED BY <1>1, <1>2, <1>3, <1>4, <1>5, <1>6, <1>7, <1>8, <1>9, <1>10

\* A request is made or answered: the others are not affected.
LEMMA OneRequest ==
    ASSUME pending \in [Requests -> Int], NEW r \in Requests, Asked(r) \/ Completed(r)
    PROVE  /\ pending' \in [Requests -> Int]
           /\ \A q \in Requests \ {r} : pending'[q] = pending[q]
           /\ Asked(r) => pending'[r] = pending[r] + 1
           /\ Completed(r) => pending'[r] = pending[r] - 1
<1>1. ASSUME Asked(r) PROVE pending' = [pending EXCEPT ![r] = pending[r] + 1]
  BY <1>1 DEF Asked
<1>2. ASSUME Completed(r) PROVE pending' = [pending EXCEPT ![r] = pending[r] - 1]
  BY <1>2 DEF Completed
<1> QED BY <1>1, <1>2

\* A handshake or a read ends, or asks the client for nothing: a request of
\* the client is answered and the link is established, lost or left alone.
LEMMA LinkCallEnds ==
    ASSUME LinkInv, ctl \in {"handshake", "read"}, ctl' \in {"idle", ctl},
           UNCHANGED <<mSSLConfigured, mSSLEnabled, nieOps, nieRaw>>,
           link' \in {link, "connected", "failed"}, recvPc' = recvPc,
           pending' \in [Requests -> Int], pending'["close"] = pending["close"]
    PROVE  LinkInv'
BY DEF LinkInv, NothingDangling, FetchNeedsSSL, CallNeedsSSL, ClosedIsClean,
       ClosingIsAlone, OpeningIsClosed, ConnectingClear, RawIsClear

\* The end of a handshake or of a read, and a TLS event.
LEMMA LinkCallSteps ==
    ASSUME LinkInv,
           \/ HandshakeWaits \/ HandshakeSucceeds \/ HandshakeFails \/ HandleRequest
           \/ ReadData \/ ReadEOF \/ ReadWaits \/ ReadCloseNotify \/ ReadFails
           \/ \E size, threshold : GetBytesStart(size, threshold)
    PROVE  LinkInv'
<1> USE DEF OtherVars, sendVars, recvVars, sendOnly, recvOnly, tlsVars, linkVars
<1>1. CASE HandshakeWaits \/ ReadWaits
  BY <1>1 DEF HandshakeWaits, ReadWaits, InHandshake, InRead, LinkInv, NothingDangling,
              FetchNeedsSSL, CallNeedsSSL, ClosedIsClean, ClosingIsAlone, OpeningIsClosed,
              ConnectingClear, RawIsClear
<1>0. pending \in [Requests -> Int]
  BY DEF LinkInv
<1>2. CASE HandshakeSucceeds
  <2>1. \E r \in {"option", "connect"} : Completed(r)
    BY <1>2 DEF HandshakeSucceeds
  <2>2. pending' \in [Requests -> Int] /\ pending'["close"] = pending["close"]
    BY <1>0, <2>1, OneRequest DEF Requests
  <2> QED BY <1>2, <2>2, LinkCallEnds DEF HandshakeSucceeds, InHandshake
<1>3. CASE HandshakeFails
  <2>1. pending' \in [Requests -> Int] /\ pending'["close"] = pending["close"]
    BY <1>0, <1>3, OneRequest DEF HandshakeFails, Requests
  <2> QED BY <1>3, <2>1, RecvSteps, LinkCallEnds
          DEF HandshakeFails, InHandshake, SessionReset
<1>4. CASE HandleRequest
  BY <1>4, RecvSteps DEF HandleRequest, LinkInv, NothingDangling,
              FetchNeedsSSL, CallNeedsSSL, ClosedIsClean, ClosingIsAlone, OpeningIsClosed,
              ConnectingClear, RawIsClear
<1>5. CASE ReadData \/ ReadEOF
  <2>1. Completed("get") \/ UNCHANGED pending
    BY <1>5 DEF ReadData, ReadEOF, ReadReturned
  <2>2. pending' \in [Requests -> Int] /\ pending'["close"] = pending["close"]
    BY <1>0, <2>1, OneRequest DEF Requests
  <2> QED BY <1>5, <2>2, RecvSteps, LinkCallEnds DEF ReadData, ReadEOF, ReadReturned, InRead
<1>6. CASE ReadCloseNotify \/ ReadFails
  <2>1. ReadEnds /\ ctl = "read" /\ UNCHANGED mSSLConfigured
    BY <1>6, SendSteps DEF ReadCloseNotify, ReadFails, WriteOrGiveUp, InRead
  <2>2. pending' \in [Requests -> Int] /\ pending'["close"] = pending["close"]
    BY <1>0, <2>1, OneRequest DEF ReadEnds, Requests
  <2> QED BY <2>1, <2>2, RecvSteps, LinkCallEnds DEF ReadEnds, SessionReset
<1>7. ASSUME NEW size, NEW threshold, GetBytesStart(size, threshold) PROVE LinkInv'
  <2>1. \A q \in Requests \ {"get"} : pending'[q] = pending[q]
    BY <1>0, <1>7, OneRequest DEF GetBytesStart, Requests
  <2>2. pending' \in [Requests -> Int]
    BY <1>0, <1>7, OneRequest DEF GetBytesStart, Requests
  <2>3. pending'["close"] = pending["close"] /\ pending'["connect"] = pending["connect"]
    BY <2>1 DEF Requests
  <2> QED BY <1>7, <2>2, <2>3
          DEF GetBytesStart, GetAllowed, LinkInv, NothingDangling, FetchNeedsSSL,
              CallNeedsSSL, ClosedIsClean, ClosingIsAlone, OpeningIsClosed,
              ConnectingClear, RawIsClear
<1> QED BY <1>1, <1>2, <1>3, <1>4, <1>5, <1>6, <1>7

\* SSLConfigure, for the variables LinkInv is about.
LEMMA ConfigureStep ==
    SSLConfigure => /\ mSSLConfigured' = TRUE /\ recvPc' = "out"
                    /\ UNCHANGED <<niePuts, nieGets, tlsEvent, recvPc, nieUp>>
                    /\ niePuts = 0 /\ nieGets = 0 /\ ~tlsEvent
BY DEF SSLConfigure, Send!SendConfigure, Recv!RecvConfigure

\* NoControl, for the requests LinkInv is about.
LEMMA NoneAsked ==
    NoControl => /\ pending["open"] = 0 /\ pending["connect"] = 0 /\ pending["close"] = 0
                 /\ pending["terminate"] = 0 /\ pending["option"] = 0
                 /\ \A r \in ForwardOps : pending[r] = 0
BY CEConstants DEF NoControl, Control, Requests

\* Control requests that are made and answered one at a time.
LEMMA LinkControlSteps ==
    ASSUME LinkInv,
           \/ OpenStart \/ OpenCompleteCB \/ ConnectStart \/ ConnectStartFails
           \/ ConnectCompleteCB \/ ConnectCompleteCBError
           \/ \E r \in ForwardOps : ForwardStart(r) \/ ForwardCompleteCB(r)
           \/ \E enabled \in BOOLEAN : EnableOption(enabled)
    PROVE  LinkInv'
<1> USE DEF sendVars, recvVars, sendOnly, recvOnly, tlsVars, linkVars
<1>0. pending \in [Requests -> Int]
  BY DEF LinkInv
<1>1. CASE OpenStart
  <2>1. pending' \in [Requests -> Int] /\ pending'["close"] = pending["close"]
    BY <1>0, <1>1, OneRequest DEF OpenStart, Requests
  <2> QED BY <1>1, <2>1, NoneAsked
      DEF OpenStart, LinkInv, NothingDangling, FetchNeedsSSL, CallNeedsSSL,
              ClosedIsClean, ClosingIsAlone, OpeningIsClosed, ConnectingClear, RawIsClear
<1>2. CASE OpenCompleteCB
  <2>1. pending' \in [Requests -> Int] /\ pending'["close"] = pending["close"]
        /\ pending'["connect"] = pending["connect"]
    BY <1>0, <1>2, OneRequest DEF OpenCompleteCB, Requests
  <2> QED BY <1>2, <2>1 DEF OpenCompleteCB, LinkInv, NothingDangling, FetchNeedsSSL, CallNeedsSSL,
              ClosedIsClean, ClosingIsAlone, OpeningIsClosed, ConnectingClear, RawIsClear
<1>3. CASE ConnectStart
  <2>1. pending' \in [Requests -> Int] /\ pending'["close"] = pending["close"]
        /\ pending'["connect"] = pending["connect"] + 1
    BY <1>0, <1>3, OneRequest DEF ConnectStart, Requests
  <2>2. CASE mSSLEnabled
    BY <1>3, <2>1, <2>2, NoneAsked, ConfigureStep
        DEF ConnectStart, ConnectAllowed, LinkInv, NothingDangling, FetchNeedsSSL, CallNeedsSSL,
              ClosedIsClean, ClosingIsAlone, OpeningIsClosed, ConnectingClear, RawIsClear
  <2>3. CASE ~mSSLEnabled
    BY <1>3, <2>1, <2>3, NoneAsked
        DEF ConnectStart, ConnectAllowed, LinkInv, NothingDangling, FetchNeedsSSL, CallNeedsSSL,
              ClosedIsClean, ClosingIsAlone, OpeningIsClosed, ConnectingClear, RawIsClear
  <2> QED BY <2>2, <2>3
<1>4. CASE ConnectStartFails
  BY <1>4 DEF ConnectStartFails, LinkInv, NothingDangling, FetchNeedsSSL, CallNeedsSSL,
              ClosedIsClean, ClosingIsAlone, OpeningIsClosed, ConnectingClear, RawIsClear
<1>5. CASE ConnectCompleteCB
  <2>0. /\ UNCHANGED <<mSSLConfigured, niePuts, nieGets, tlsEvent, recvPc, mSSLEnabled, nieRaw>>
        /\ ctl = "idle" /\ "connect" \in nieOps /\ nieOps' = nieOps \ {"connect"}
    BY <1>5 DEF ConnectCompleteCB, Send!NIEUp, Recv!RecvNIEUp, Recv!ceVars
  <2>1. CASE mSSLEnabled
    <3>1. ctl' = "handshake" /\ UNCHANGED <<pending, link>>
      BY <1>5, <2>1 DEF ConnectCompleteCB
    <3> QED BY <2>0, <2>1, <3>1 DEF LinkInv, NothingDangling, FetchNeedsSSL, CallNeedsSSL,
              ClosedIsClean, ClosingIsAlone, OpeningIsClosed, ConnectingClear, RawIsClear
  <2>2. CASE ~mSSLEnabled
    <3>1. Completed("connect") /\ link' = "connected" /\ UNCHANGED ctl
      BY <1>5, <2>2 DEF ConnectCompleteCB
    <3>2. pending' \in [Requests -> Int] /\ pending'["close"] = pending["close"]
      BY <1>0, <3>1, OneRequest DEF Requests
    <3> QED BY <2>0, <3>1, <3>2 DEF LinkInv, NothingDangling, FetchNeedsSSL, CallNeedsSSL,
              ClosedIsClean, ClosingIsAlone, OpeningIsClosed, ConnectingClear, RawIsClear
  <2> QED BY <2>1, <2>2
<1>6. CASE ConnectCompleteCBError
  <2>1. pending' \in [Requests -> Int] /\ pending'["close"] = pending["close"]
    BY <1>0, <1>6, OneRequest DEF ConnectCompleteCBError, Requests
  <2> QED BY <1>6, <2>1
      DEF ConnectCompleteCBError, LinkInv, NothingDangling, FetchNeedsSSL, CallNeedsSSL,
              ClosedIsClean, ClosingIsAlone, OpeningIsClosed, ConnectingClear, RawIsClear
<1>7. ASSUME NEW r \in ForwardOps, ForwardStart(r) \/ ForwardCompleteCB(r) PROVE LinkInv'
  <2>0. r \in Requests /\ r \notin {"open", "connect", "terminate", "close"}
    BY CEConstants DEF Requests
  <2>1. pending' \in [Requests -> Int] /\ pending'["close"] = pending["close"]
        /\ pending'["connect"] = pending["connect"]
    BY <1>0, <1>7, <2>0, OneRequest DEF ForwardStart, ForwardCompleteCB, Requests
  <2>2. CASE ForwardStart(r)
    BY <2>0, <2>1, <2>2, NoneAsked
        DEF ForwardStart, LinkInv, NothingDangling, FetchNeedsSSL, CallNeedsSSL,
              ClosedIsClean, ClosingIsAlone, OpeningIsClosed, ConnectingClear, RawIsClear
  <2>3. CASE ForwardCompleteCB(r)
    BY <2>0, <2>1, <2>3
        DEF ForwardCompleteCB, LinkInv, NothingDangling, FetchNeedsSSL, CallNeedsSSL,
              ClosedIsClean, ClosingIsAlone, OpeningIsClosed, ConnectingClear, RawIsClear
  <2> QED BY <1>7, <2>2, <2>3
<1>8. ASSUME NEW enabled \in BOOLEAN, EnableOption(enabled) PROVE LinkInv'
  <2>0. /\ ctl = "idle" /\ NoControl /\ link \in {"open", "connected"} /\ nieRaw = {}
        /\ UNCHANGED <<link, nieOps, nieRaw>>
    BY <1>8 DEF EnableOption
  <2>1. CASE SSLConfigure /\ ctl' = "handshake" /\ Asked("option")
    <3>1. pending' \in [Requests -> Int] /\ pending'["close"] = pending["close"]
          /\ pending'["connect"] = pending["connect"]
      BY <1>0, <2>1, OneRequest DEF Requests
    <3> QED BY <2>0, <2>1, <3>1, NoneAsked, ConfigureStep
        DEF LinkInv, NothingDangling, FetchNeedsSSL, CallNeedsSSL,
              ClosedIsClean, ClosingIsAlone, OpeningIsClosed, ConnectingClear, RawIsClear
  <2>2. CASE UNCHANGED <<mSSLConfigured, nieUp, sendOnly, recvOnly, ctl, pending>>
    BY <2>0, <2>2, NoneAsked DEF LinkInv, NothingDangling, FetchNeedsSSL, CallNeedsSSL,
              ClosedIsClean, ClosingIsAlone, OpeningIsClosed, ConnectingClear, RawIsClear
  <2> QED BY <1>8, <2>1, <2>2 DEF EnableOption
<1> QED BY <1>1, <1>2, <1>3, <1>4, <1>5, <1>6, <1>7, <1>8

\* Transfers of the client that are forwarded, the end of a connection, and
\* the steps that change nothing LinkInv is about.
LEMMA LinkOtherSteps ==
    ASSUME LinkInv,
           \/ RawGetStart \/ RawPutStart \/ \E r \in {"put", "get"} : RawCompleteCB(r)
           \/ TerminateStart \/ TerminateCompleteCB \/ CloseStart \/ NIECloses
           \/ CloseReturns \/ CloseCompleteCB \/ DeleteAndNew \/ UNCHANGED vars
    PROVE  LinkInv'
<1> USE DEF sendVars, recvVars, sendOnly, recvOnly, tlsVars, linkVars
<1>0. pending \in [Requests -> Int]
  BY DEF LinkInv
<1>1. CASE RawGetStart \/ RawPutStart
  <2>0. \E r \in {"put", "get"} : Asked(r)
    BY <1>1 DEF RawGetStart, RawPutStart
  <2>1. pending' \in [Requests -> Int] /\ pending'["close"] = pending["close"]
        /\ pending'["connect"] = pending["connect"]
    BY <1>0, <2>0, OneRequest DEF Requests
  <2> QED BY <1>1, <2>1, NoneAsked
          DEF RawGetStart, RawPutStart, GetAllowed, PutAllowed, LinkInv, NothingDangling, FetchNeedsSSL, CallNeedsSSL,
              ClosedIsClean, ClosingIsAlone, OpeningIsClosed, ConnectingClear, RawIsClear
<1>2. ASSUME NEW r \in {"put", "get"}, RawCompleteCB(r) PROVE LinkInv'
  <2>1. pending' \in [Requests -> Int] /\ pending'["close"] = pending["close"]
        /\ pending'["connect"] = pending["connect"]
    BY <1>0, <1>2, OneRequest DEF RawCompleteCB, Requests
  <2> QED BY <1>2, <2>1 DEF RawCompleteCB, LinkInv, NothingDangling, FetchNeedsSSL, CallNeedsSSL,
              ClosedIsClean, ClosingIsAlone, OpeningIsClosed, ConnectingClear, RawIsClear
<1>3. CASE TerminateStart
  <2>1. pending' \in [Requests -> Int] /\ pending'["close"] = pending["close"]
        /\ pending'["connect"] = pending["connect"]
    BY <1>0, <1>3, OneRequest DEF TerminateStart, Requests
  <2>2. /\ UNCHANGED <<mSSLConfigured, recvPc, nieGets, tlsEvent>>
        /\ ~mSSLConfigured => UNCHANGED niePuts
    BY <1>3, RecvSteps, SendSteps DEF TerminateStart, WriteOrGiveUp
  <2> QED BY <1>3, <2>1, <2>2, NoneAsked
      DEF TerminateStart, LinkInv, NothingDangling, FetchNeedsSSL, CallNeedsSSL,
              ClosedIsClean, ClosingIsAlone, OpeningIsClosed, ConnectingClear, RawIsClear
<1>4. CASE TerminateCompleteCB
  <2>1. pending' \in [Requests -> Int] /\ pending'["close"] = pending["close"]
        /\ pending'["connect"] = pending["connect"]
    <3>1. pending' = [pending EXCEPT !["terminate"] = pending["terminate"] - 1,
                                     !["put"] = 0, !["get"] = 0]
      BY <1>4 DEF TerminateCompleteCB
    <3>2. {"terminate", "put", "get", "close", "connect"} \subseteq Requests
      BY DEF Requests
    <3> QED BY <1>0, <3>1, <3>2
  <2>2. /\ UNCHANGED <<mSSLConfigured, recvPc, tlsEvent>> /\ niePuts' = 0 /\ nieGets' = 0
    BY <1>4 DEF TerminateCompleteCB, Send!NIEDown, Recv!RecvNIEDown, Recv!ceVars
  <2> QED BY <1>4, <2>1, <2>2
      DEF TerminateCompleteCB, LinkInv, NothingDangling, FetchNeedsSSL, CallNeedsSSL,
              ClosedIsClean, ClosingIsAlone, OpeningIsClosed, ConnectingClear, RawIsClear
<1>5. CASE CloseStart
  <2>1. pending' \in [Requests -> Int] /\ pending'["close"] = 1
    BY <1>5 DEF CloseStart, Requests
  <2> QED BY <1>5, <2>1 DEF CloseStart, LinkInv, NothingDangling, FetchNeedsSSL, CallNeedsSSL,
              ClosedIsClean, ClosingIsAlone, OpeningIsClosed, ConnectingClear, RawIsClear
<1>6. CASE NIECloses
  <2>2. /\ UNCHANGED <<mSSLConfigured, recvPc, tlsEvent>> /\ niePuts' = 0 /\ nieGets' = 0
    BY <1>6 DEF NIECloses, Send!NIEDown, Recv!RecvNIEDown, Recv!ceVars
  <2> QED BY <1>6, <2>2
      DEF NIECloses, OtherVars, LinkInv, NothingDangling, FetchNeedsSSL, CallNeedsSSL,
              ClosedIsClean, ClosingIsAlone, OpeningIsClosed, ConnectingClear, RawIsClear
<1>7. CASE CloseReturns
  <2>1. CASE mSSLConfigured
    <3>1. /\ mSSLConfigured' = FALSE /\ recvPc = "out" /\ recvPc' = "out" /\ ~tlsEvent'
          /\ niePuts' = 0 /\ nieGets' = 0
      BY <1>7, <2>1 DEF CloseReturns, Send!SendUnconfigure, Recv!RecvUnconfigure, Recv!nieVars
    <3> QED BY <1>7, <3>1 DEF CloseReturns, LinkInv, NothingDangling, FetchNeedsSSL, CallNeedsSSL,
              ClosedIsClean, ClosingIsAlone, OpeningIsClosed, ConnectingClear, RawIsClear
  <2>2. CASE ~mSSLConfigured
    BY <1>7, <2>2 DEF CloseReturns, LinkInv, NothingDangling, FetchNeedsSSL, CallNeedsSSL,
              ClosedIsClean, ClosingIsAlone, OpeningIsClosed, ConnectingClear, RawIsClear
  <2> QED BY <2>1, <2>2
<1>8. CASE CloseCompleteCB
  <2>1. pending' \in [Requests -> Int]
    BY <1>0, <1>8, OneRequest DEF CloseCompleteCB, Requests
  <2> QED BY <1>8, <2>1 DEF CloseCompleteCB, LinkInv, NothingDangling, FetchNeedsSSL, CallNeedsSSL,
              ClosedIsClean, ClosingIsAlone, OpeningIsClosed, ConnectingClear, RawIsClear
<1>9. CASE DeleteAndNew
  BY <1>9 DEF DeleteAndNew, LinkInv, NothingDangling, FetchNeedsSSL, CallNeedsSSL,
              ClosedIsClean, ClosingIsAlone, OpeningIsClosed, ConnectingClear, RawIsClear
<1>10. CASE UNCHANGED vars
  BY <1>10 DEF vars, LinkInv, NothingDangling, FetchNeedsSSL, CallNeedsSSL,
              ClosedIsClean, ClosingIsAlone, OpeningIsClosed, ConnectingClear, RawIsClear
<1> QED BY <1>1, <1>2, <1>3, <1>4, <1>5, <1>6, <1>7, <1>8, <1>9, <1>10

LEMMA LinkStep == LinkInv /\ [CENext]_vars => LinkInv'
<1> SUFFICES ASSUME LinkInv, [CENext]_vars PROVE LinkInv'
  OBVIOUS
<1>1. CASE Client
  BY <1>1, LinkInnerSteps, LinkCallSteps, LinkControlSteps, LinkOtherSteps
     DEF Client, ClientDone, PutRefused, GetRefused, KillRefused
<1>2. CASE Task
  BY <1>2, LinkInnerSteps, LinkCallSteps, LinkOtherSteps DEF Task, Handshake, Read
<1>3. CASE ControlCB
  BY <1>3, LinkControlSteps, LinkOtherSteps DEF ControlCB
<1>4. CASE PutCompleteCB \/ GetCompleteCB \/ NIETakes \/ Peer
  BY <1>4, LinkInnerSteps
<1>5. ASSUME NEW r \in {"put", "get"}, RawCompleteCB(r) PROVE LinkInv'
  BY <1>5, LinkOtherSteps
<1>6. CASE UNCHANGED vars
  BY <1>6, LinkOtherSteps
<1> QED BY <1>1, <1>2, <1>3, <1>4, <1>5, <1>6 DEF CENext

THEOREM LinkInvariant == CESpec => []LinkInv
<1> QED BY LinkInitially, LinkStep, PTL DEF CESpec

\* Once CloseStart has returned and SSLUnconfigure has deleted the buffers,
\* NIE holds none of them and no TLS event is queued for them; the same while
\* a connection is clear, or before it is configured, whatever failed.
THEOREM NothingAlwaysDangling == CESpec => []NothingDangling
<1>1. LinkInv => NothingDangling
  BY DEF LinkInv
<1> QED BY <1>1, LinkInvariant, PTL

\* GetCurPutDataCB and GetCurGetDataCB give NIE the buffer of the transfer it
\* holds: no upgrade, disconnect or close leaves NIE with a transfer of the
\* other kind.
THEOREM ClearNeverEverMixes == CESpec => []ClearNeverMixes
<1>1. LinkInv => ClearNeverMixes
  BY DEF LinkInv, NothingDangling, RawIsClear, ClearNeverMixes, GetCurPutDataCB,
         GetCurGetDataCB
<1> QED BY <1>1, LinkInvariant, PTL

-----------------------------------------------------------------------------
(***************************************************************************)
(* The connection end drives its two halves the way SendPath and RecvPath  *)
(* say they are driven, so that what is proved of them holds here.         *)
(***************************************************************************)
SendStep == Send!SendNext \/ UNCHANGED Send!sendVars
RecvStep == Recv!RecvNext \/ UNCHANGED Recv!recvVars

LEMMA SendAlone == UNCHANGED sendVars => SendStep
BY DEF sendVars, sendOnly, SendStep, Send!sendVars

LEMMA RecvAlone == UNCHANGED recvVars => RecvStep
BY DEF recvVars, recvOnly, RecvStep, Recv!recvVars

LEMMA Configuring == SSLConfigure => SendStep /\ RecvStep
BY DEF SSLConfigure, SendStep, RecvStep, Send!SendNext, Recv!RecvNext

LEMMA Writing == ASSUME NEW n \in 1 .. MaxChunk, Send!SSLSendCallback(n) PROVE SendStep
BY DEF SendStep, Send!SendNext

LEMMA WritingLast == WriteOrGiveUp(1) => SendStep
BY CEConstants, Writing, SendAlone DEF WriteOrGiveUp

LEMMA Fetching == ASSUME NEW n \in 1 .. MaxWant, Recv!FetchInput(n) PROVE RecvStep
BY DEF RecvStep, Recv!RecvNext

LEMMA Receiving ==
    Recv!FetchUsed \/ Recv!ReadsEnd \/ Recv!SSLRecvCallback \/ Recv!HandleTLSEvent => RecvStep
BY DEF RecvStep, Recv!RecvNext

\* Steps of the client.
LEMMA ClientDrives == ASSUME LinkInv, Client PROVE SendStep /\ RecvStep
<1> USE SendAlone, RecvAlone
<1>1. CASE OpenStart
  <2>1. UNCHANGED mSSLConfigured
    BY <1>1 DEF OpenStart, LinkInv, ClosedIsClean
  <2> QED BY <1>1, <2>1 DEF OpenStart, sendVars, recvVars
<1>2. CASE ConnectStart
  BY <1>2, Configuring DEF ConnectStart, sendVars, recvVars
<1>3. CASE ConnectStartFails \/ \E r \in ForwardOps : ForwardStart(r)
  BY <1>3 DEF ConnectStartFails, ForwardStart, sendVars, recvVars
<1>4. CASE TerminateStart
  BY <1>4, WritingLast, Receiving DEF TerminateStart
<1>5. CASE CloseStart \/ DeleteAndNew \/ RawPutStart \/ RawGetStart
  BY <1>5 DEF CloseStart, DeleteAndNew, RawPutStart, RawGetStart
<1>6. ASSUME NEW enabled \in BOOLEAN, EnableOption(enabled) PROVE SendStep /\ RecvStep
  BY <1>6, Configuring DEF EnableOption, sendVars, recvVars
<1>7. ASSUME NEW size, NEW threshold, GetBytesStart(size, threshold)
      PROVE  SendStep /\ RecvStep
  BY <1>7 DEF GetBytesStart
<1>8. ASSUME NEW n \in 1 .. MaxChunk, PutBytesStart(n) PROVE SendStep /\ RecvStep
  BY <1>8, Writing DEF PutBytesStart
<1>9. CASE PutFails
  BY <1>9, Receiving DEF PutFails, SessionReset
<1>10. CASE ClientDone \/ PutRefused \/ GetRefused \/ KillRefused
  <2>1. UNCHANGED vars
    BY <1>10 DEF ClientDone, PutRefused, GetRefused, KillRefused
  <2> QED BY <2>1 DEF vars, sendVars, recvVars
<1> QED BY <1>1, <1>2, <1>3, <1>4, <1>5, <1>6, <1>7, <1>8, <1>9, <1>10 DEF Client

\* Steps of the task.
LEMMA TaskDrives == ASSUME Task PROVE SendStep /\ RecvStep
<1> USE SendAlone, RecvAlone
<1>1. ASSUME NEW n \in 1 .. MaxChunk, HandshakeSends(n) PROVE SendStep /\ RecvStep
  BY <1>1, Writing DEF HandshakeSends
<1>2. ASSUME NEW n \in 1 .. MaxWant, HandshakeFetches(n) \/ ReadFetches(n)
      PROVE  SendStep /\ RecvStep
  BY <1>2, Fetching DEF HandshakeFetches, ReadFetches
<1>3. CASE HandshakeParses \/ HandshakeWaits \/ HandshakeSucceeds \/ HandshakeFails
  BY <1>3, Receiving DEF HandshakeParses, HandshakeWaits, HandshakeSucceeds,
                         HandshakeFails, SessionReset
<1>4. ASSUME NEW d, ReadParses(d) PROVE SendStep /\ RecvStep
  BY <1>4, Receiving DEF ReadParses
<1>5. CASE ReadData \/ ReadEOF \/ ReadWaits
  BY <1>5, Receiving DEF ReadData, ReadEOF, ReadWaits
<1>6. CASE ReadCloseNotify \/ ReadFails
  BY <1>6, WritingLast, Receiving DEF ReadCloseNotify, ReadFails, ReadEnds, SessionReset
<1>7. CASE SSLRecvCallback \/ HandleRequest
  BY <1>7, Receiving DEF SSLRecvCallback, HandleRequest
<1>8. CASE NIECloses
  BY <1>8 DEF NIECloses, SendStep, RecvStep, Send!SendNext, Recv!RecvNext
<1>9. CASE CloseReturns
  <2>1. CASE mSSLConfigured
    BY <1>9, <2>1 DEF CloseReturns, SendStep, RecvStep, Send!SendNext, Recv!RecvNext
  <2>2. CASE ~mSSLConfigured
    BY <1>9, <2>2 DEF CloseReturns
  <2> QED BY <2>1, <2>2
<1> QED BY <1>1, <1>2, <1>3, <1>4, <1>5, <1>6, <1>7, <1>8, <1>9 DEF Task, Handshake, Read

\* NIE's completions and the network.
LEMMA NIEDrives ==
    ASSUME ControlCB \/ PutCompleteCB \/ GetCompleteCB \/ NIETakes \/ Peer
           \/ \E r \in {"put", "get"} : RawCompleteCB(r)
    PROVE  SendStep /\ RecvStep
<1> USE SendAlone, RecvAlone
<1>1. CASE OpenCompleteCB \/ ConnectCompleteCBError \/ CloseCompleteCB
           \/ (\E r \in ForwardOps : ForwardCompleteCB(r))
           \/ \E r \in {"put", "get"} : RawCompleteCB(r)
  BY <1>1 DEF OpenCompleteCB, ConnectCompleteCBError, CloseCompleteCB, ForwardCompleteCB,
              RawCompleteCB, sendVars, recvVars
<1>2. CASE ConnectCompleteCB \/ TerminateCompleteCB
  BY <1>2 DEF ConnectCompleteCB, TerminateCompleteCB, SendStep, RecvStep, Send!SendNext,
              Recv!RecvNext
<1>3. CASE PutCompleteCB
  <2>1. \E result \in Send!SendErrors : Send!PutCompleteCB(result)
    BY <1>3 DEF PutCompleteCB, Send!SendErrors
  <2> QED BY <1>3, <2>1 DEF PutCompleteCB, SendStep, Send!SendNext
<1>4. CASE GetCompleteCB
  BY <1>4 DEF GetCompleteCB, RecvStep, Recv!RecvNext, Recv!GetCompleteCB
<1>5. CASE NIETakes \/ Peer
  BY <1>5 DEF NIETakes, Peer, SendStep, RecvStep, Send!SendNext, Recv!RecvNext
<1> QED BY <1>1, <1>2, <1>3, <1>4, <1>5 DEF ControlCB

LEMMA Drives == LinkInv /\ [CENext]_vars => SendStep /\ RecvStep
<1> SUFFICES ASSUME LinkInv, [CENext]_vars PROVE SendStep /\ RecvStep
  OBVIOUS
<1>1. CASE UNCHANGED vars
  BY <1>1, SendAlone, RecvAlone DEF vars, sendVars, recvVars
<1>2. CASE CENext
  BY <1>2, ClientDrives, TaskDrives, NIEDrives DEF CENext
<1> QED BY <1>1, <1>2

\* Requests, completions, handshakes, reads, faults and reuse of the
\* connection end make only steps of SendPath on the sending half ...
THEOREM AlwaysDrivesSendPath == CESpec => DrivesSendPath
<1>1. CEInit => Send!SendInit
  BY DEF CEInit
<1>2. LinkInv /\ [CENext]_vars => [Send!SendNext]_(Send!sendVars)
  BY Drives DEF SendStep
<1> QED BY <1>1, <1>2, LinkInvariant, PTL DEF CESpec, DrivesSendPath, Send!SendSpec

\* ... and only steps of RecvPath on the receiving half.
THEOREM AlwaysDrivesRecvPath == CESpec => DrivesRecvPath
<1>1. CEInit => Recv!RecvInit
  BY DEF CEInit
<1>2. LinkInv /\ [CENext]_vars => [Recv!RecvNext]_(Recv!recvVars)
  BY Drives DEF RecvStep
<1> QED BY <1>1, <1>2, LinkInvariant, PTL DEF CESpec, DrivesRecvPath, Recv!RecvSpec

\* The theorems of the halves, for the halves of this connection end.
SendProved == INSTANCE SendPathProofs
RecvProved == INSTANCE RecvPathProofs

LEMMA SameSendStep == [Send!SendNext]_(Send!sendVars) => [SendProved!SendNext]_(SendProved!sendVars)
BY DEF Send!SendNext, SendProved!SendNext, Send!sendVars, SendProved!sendVars,
       Send!SendConfigure, SendProved!SendConfigure, Send!SendUnconfigure,
       SendProved!SendUnconfigure, Send!SSLSendCallback,
       SendProved!SSLSendCallback, Send!NewBytes, SendProved!NewBytes,
       Send!PutCompleteCB, SendProved!PutCompleteCB, Send!PutFailed,
       SendProved!PutFailed, Send!PutNextBatch, SendProved!PutNextBatch,
       Send!PutRest, SendProved!PutRest, Send!AtEOF, SendProved!AtEOF,
       Send!NIETakes, SendProved!NIETakes, Send!NIEUp, SendProved!NIEUp,
       Send!NIEDown, SendProved!NIEDown, Send!SendErrors,
       SendProved!SendErrors

LEMMA SameRecvStep == [Recv!RecvNext]_(Recv!recvVars) => [RecvProved!RecvNext]_(RecvProved!recvVars)
BY DEF Recv!RecvNext, RecvProved!RecvNext, Recv!recvVars, RecvProved!recvVars,
       Recv!mbedVars, RecvProved!mbedVars, Recv!nieVars, RecvProved!nieVars,
       Recv!ceVars, RecvProved!ceVars, Recv!Smaller, RecvProved!Smaller,
       Recv!RecvConfigure, RecvProved!RecvConfigure, Recv!RecvUnconfigure,
       RecvProved!RecvUnconfigure, Recv!FetchInput, RecvProved!FetchInput,
       Recv!FetchUsed, RecvProved!FetchUsed, Recv!ReadsEnd,
       RecvProved!ReadsEnd, Recv!RecvRefuse, RecvProved!RecvRefuse,
       Recv!NeedsGet, RecvProved!NeedsGet, Recv!RecvAskNIE,
       RecvProved!RecvAskNIE, Recv!RecvAskNothing, RecvProved!RecvAskNothing,
       Recv!RecvAsked, RecvProved!RecvAsked, Recv!RecvNoCopy,
       RecvProved!RecvNoCopy, Recv!RestOfBuffer, RecvProved!RestOfBuffer,
       Recv!RecvCopy, RecvProved!RecvCopy, Recv!GetAnswered,
       RecvProved!GetAnswered, Recv!GetCompleteData,
       RecvProved!GetCompleteData, Recv!GetCompleteEOF,
       RecvProved!GetCompleteEOF, Recv!GetCompleteError,
       RecvProved!GetCompleteError, Recv!HandleTLSEvent,
       RecvProved!HandleTLSEvent, Recv!PeerSends, RecvProved!PeerSends,
       Recv!PeerCloses, RecvProved!PeerCloses, Recv!RecvNIEUp,
       RecvProved!RecvNIEUp, Recv!RecvNIEDown, RecvProved!RecvNIEDown,
       Recv!SSLRecvCallback, RecvProved!SSLRecvCallback, Recv!GetCompleteCB,
       RecvProved!GetCompleteCB, Recv!Garbage, RecvProved!Garbage

LEMMA SendHalf == CESpec => SendProved!SendSpec
<1>1. Send!SendInit => SendProved!SendInit
  BY DEF Send!SendInit, SendProved!SendInit
<1> QED BY <1>1, SameSendStep, AlwaysDrivesSendPath, PTL
        DEF DrivesSendPath, Send!SendSpec, SendProved!SendSpec

LEMMA RecvHalf == CESpec => RecvProved!RecvSpec
<1>1. Recv!RecvInit => RecvProved!RecvInit
  BY DEF Recv!RecvInit, RecvProved!RecvInit
<1> QED BY <1>1, SameRecvStep, AlwaysDrivesRecvPath, PTL
        DEF DrivesRecvPath, Recv!RecvSpec, RecvProved!RecvSpec

\* Whatever the client, NIE, mbedtls and the peer do, the TLS bytes go out in
\* the order mbedtls wrote them, with at most one inner Put, and none is
\* stranded (SSLSendCallback and PutCompleteCB in their real surroundings).
THEOREM OutgoingInOrder ==
    CESpec => [](Send!SendInOrder /\ Send!OneInnerPut /\ Send!NothingStranded)
<1>0. MaxWritten \in Nat /\ MaxChunk \in Nat \ {0}
  BY CEConstants
<1>1. SendProved!SendSpec => []SendProved!SendInOrder
  BY <1>0, SendProved!SendInOrderAlways
<1>2. SendProved!SendSpec => []SendProved!OneInnerPut
  BY <1>0, SendProved!OneInnerPutAlways
<1>3. SendProved!SendSpec => []SendProved!NothingStranded
  BY <1>0, SendProved!NothingStrandedAlways
<1>4. SendProved!SendInOrder => Send!SendInOrder
  BY DEF Send!SendInOrder, SendProved!SendInOrder, Send!WireInOrder,
         SendProved!WireInOrder, Send!PutInOrder, SendProved!PutInOrder,
         Send!WaitingInOrder, SendProved!WaitingInOrder, Send!AllAccountedFor,
         SendProved!AllAccountedFor, Send!Handed, SendProved!Handed
<1>5. /\ SendProved!OneInnerPut => Send!OneInnerPut
      /\ SendProved!NothingStranded => Send!NothingStranded
  BY DEF Send!OneInnerPut, SendProved!OneInnerPut, Send!NothingStranded,
         SendProved!NothingStranded
<1> QED BY <1>1, <1>2, <1>3, <1>4, <1>5, SendHalf, PTL

\* SSLRecvCallback never holds more than mbedtls misses, in handshakes, reads
\* and retries alike ...
THEOREM IncomingNeverOverfetched == CESpec => []Recv!NeverOverfetch
<1>0. MaxPeer \in Nat /\ MaxWant \in Nat \ {0} /\ SyncEOF \in BOOLEAN
  BY CEConstants
<1>1. RecvProved!RecvSpec => []RecvProved!NeverOverfetch
  BY <1>0, RecvProved!NeverOverfetchAlways
<1>2. RecvProved!NeverOverfetch => Recv!NeverOverfetch
  BY DEF RecvProved!NeverOverfetch, Recv!NeverOverfetch
<1> QED BY <1>1, <1>2, RecvHalf, PTL

\* ... and a handshake or a read that waits has a Get or a TLS event to wake
\* it, if NIE never reports the end of the stream from inside the Get call.
THEOREM WaitersAlwaysWoken == ASSUME ~SyncEOF PROVE CESpec => []Recv!NoLostWakeup
<1>0. MaxPeer \in Nat /\ MaxWant \in Nat \ {0} /\ SyncEOF \in BOOLEAN
  BY CEConstants
<1>1. RecvProved!RecvSpec => []RecvProved!NoLostWakeup
  BY <1>0, RecvProved!NoLostWakeupAlways
<1>2. RecvProved!NoLostWakeup => Recv!NoLostWakeup
  BY DEF RecvProved!NoLostWakeup, Recv!NoLostWakeup
<1> QED BY <1>1, <1>2, RecvHalf, PTL

\* The connection end is a pair of reliable byte streams: what mbedtls writes
\* is what NIE takes, what the peer sends is what mbedtls gets, each byte once
\* and in order, from one SSLConfigure to the next; and after a failed Put
\* nothing more of that connection goes out.
THEOREM StreamsBothWays ==
    CESpec => /\ SendProved!SendImplementsStream /\ RecvProved!RecvImplementsStream
              /\ SendProved!QuietAfterError
<1>0. /\ MaxWritten \in Nat /\ MaxChunk \in Nat \ {0}
      /\ MaxPeer \in Nat /\ MaxWant \in Nat \ {0} /\ SyncEOF \in BOOLEAN
  BY CEConstants
<1>1. SendProved!SendSpec => SendProved!SendImplementsStream
  BY <1>0, SendProved!SendRefinesStream
<1>2. SendProved!SendSpec => SendProved!QuietAfterError
  BY <1>0, SendProved!QuietAfterErrorAlways
<1>3. RecvProved!RecvSpec => RecvProved!RecvImplementsStream
  BY <1>0, RecvProved!RecvRefinesStream
<1> QED BY <1>1, <1>2, <1>3, SendHalf, RecvHalf, PTL

-----------------------------------------------------------------------------
(***************************************************************************)
(* The client's Gets.  A read only runs with a buffer to read into, and    *)
(* what is in the buffer fits it.                                          *)
(***************************************************************************)
ReadDataOK ==
    /\ appAvail \in Nat /\ appRead \in Nat /\ clientGot \in Nat
    /\ mSSLReadSize \in Nat /\ mSSLReadCount \in Nat

ReadHasBuffer == ctl = "read" => mSSLReadSize > 0
CountFits == mSSLReadSize > 0 => mSSLReadCount <= mSSLReadSize

ReadInv == ReadDataOK /\ ReadHasBuffer /\ CountFits /\ AppDataConserved

\* Steps that leave the read state alone, and may start a read that has a
\* buffer or end SSL.
LEMMA ReadAlone ==
    ASSUME ReadInv, UNCHANGED <<appAvail, appRead, clientGot, mSSLReadSize, mSSLReadCount>>,
           ctl' = "read" => mSSLReadSize > 0,
           mSSLConfigured' => mSSLConfigured
    PROVE  ReadInv'
BY DEF ReadInv, ReadDataOK, ReadHasBuffer, CountFits, AppDataConserved

LEMMA ReadConfigure ==
    ASSUME ReadInv, SSLConfigure, ctl' # "read" PROVE ReadInv'
BY DEF SSLConfigure, ReadInv, ReadDataOK, ReadHasBuffer, CountFits, AppDataConserved

\* mbedtls_ssl_session_reset drops what mbedtls decrypted and did not return.
LEMMA ReadReset ==
    ASSUME ReadInv, SessionReset, UNCHANGED <<clientGot, mSSLReadSize, mSSLReadCount>>,
           ctl' # "read" PROVE ReadInv'
<1>1. UNCHANGED <<mSSLConfigured, appRead>> /\ appAvail' = 0
  BY RecvSteps DEF SessionReset
<1> QED BY <1>1 DEF ReadInv, ReadDataOK, ReadHasBuffer, CountFits, AppDataConserved

\* mbedtls_ssl_read returned r bytes.
LEMMA ReadReturns ==
    ASSUME ReadInv, mSSLConfigured, UNCHANGED mSSLConfigured, ctl = "read", NEW r \in Nat,
           mSSLReadCount + r <= mSSLReadSize, ReadReturned(r), appAvail' \in Nat
    PROVE  ReadInv'
<1>1. /\ appAvail \in Nat /\ appRead \in Nat /\ clientGot \in Nat
      /\ mSSLReadSize \in Nat /\ mSSLReadCount \in Nat
      /\ mSSLReadSize > 0 /\ appRead = clientGot + mSSLReadCount
  BY DEF ReadInv, ReadDataOK, ReadHasBuffer, AppDataConserved
<1>2. appRead' = appRead + r
  BY DEF ReadReturned
<1>3. CASE mSSLReadCount + r >= getThreshold
  <2>1. /\ clientGot' = clientGot + mSSLReadCount + r
        /\ mSSLReadSize' = 0 /\ mSSLReadCount' = 0 /\ ctl' = "idle"
    BY <1>3 DEF ReadReturned
  <2> QED BY <1>1, <1>2, <2>1
          DEF ReadInv, ReadDataOK, ReadHasBuffer, CountFits, AppDataConserved
<1>4. CASE ~(mSSLReadCount + r >= getThreshold)
  <2>1. mSSLReadCount' = mSSLReadCount + r /\ UNCHANGED <<clientGot, mSSLReadSize, ctl>>
    BY <1>4 DEF ReadReturned
  <2> QED BY <1>1, <1>2, <2>1
          DEF ReadInv, ReadDataOK, ReadHasBuffer, CountFits, AppDataConserved
<1> QED BY <1>3, <1>4

\* The session ends during a read: the client gets what there is.
LEMMA ReadEnding ==
    ASSUME ReadInv, ReadEnds, ctl = "read" PROVE ReadInv'
<1>1. /\ UNCHANGED <<mSSLConfigured, appRead>> /\ appAvail' = 0 /\ mSSLConfigured
  BY RecvSteps DEF ReadEnds, SessionReset
<1>2. /\ clientGot' = clientGot + mSSLReadCount /\ ctl' = "idle"
      /\ mSSLReadSize' = IF mSSLReadCount > 0 THEN 0 ELSE mSSLReadSize
      /\ mSSLReadCount' = mSSLReadCount
  BY DEF ReadEnds
<1> QED BY <1>1, <1>2 DEF ReadInv, ReadDataOK, ReadHasBuffer, CountFits, AppDataConserved

LEMMA ReadTaskStep == ASSUME LinkInv, ReadInv, Task PROVE ReadInv'
<1> USE DEF sendVars, recvVars, sendOnly, recvOnly, readVars, mbedVars
<1>1. ASSUME NEW n, HandshakeSends(n) \/ HandshakeFetches(n) \/ ReadFetches(n)
      PROVE  ReadInv'
  <2>1. /\ UNCHANGED <<appAvail, appRead, clientGot, mSSLReadSize, mSSLReadCount, ctl>>
        /\ UNCHANGED mSSLConfigured
    BY <1>1, SendSteps, RecvSteps DEF HandshakeSends, HandshakeFetches, ReadFetches
  <2>2. ctl' = "read" => mSSLReadSize > 0
    BY <2>1 DEF ReadInv, ReadHasBuffer
  <2> QED BY <2>1, <2>2, ReadAlone
<1>2. CASE HandshakeParses \/ HandshakeWaits \/ HandshakeSucceeds
  <2>1. /\ UNCHANGED <<appAvail, appRead, clientGot, mSSLReadSize, mSSLReadCount>>
        /\ UNCHANGED mSSLConfigured /\ ctl' # "read"
    BY <1>2, RecvSteps DEF HandshakeParses, HandshakeWaits, HandshakeSucceeds, InHandshake
  <2> QED BY <2>1, ReadAlone
<1>3. CASE HandshakeFails
  BY <1>3, ReadReset DEF HandshakeFails
<1>4. ASSUME NEW d \in 0 .. MaxGet, ReadParses(d) PROVE ReadInv'
  <2>1. /\ UNCHANGED <<appRead, clientGot, mSSLReadSize, mSSLReadCount, ctl>>
        /\ UNCHANGED mSSLConfigured /\ appAvail' = d /\ d \in Nat
    BY <1>4, RecvSteps, CEConstants DEF ReadParses
  <2> QED BY <2>1 DEF ReadInv, ReadDataOK, ReadHasBuffer, CountFits, AppDataConserved
<1>5. CASE ReadData
  <2> DEFINE r == Recv!Smaller(appAvail, mSSLReadSize - mSSLReadCount)
  <2>0. ctl = "read" /\ mSSLConfigured /\ UNCHANGED mSSLConfigured
    BY <1>5 DEF ReadData, InRead, LinkInv, CallNeedsSSL
  <2>1. /\ appAvail \in Nat /\ mSSLReadSize \in Nat /\ mSSLReadCount \in Nat
        /\ mSSLReadCount <= mSSLReadSize
    BY <2>0 DEF ReadInv, ReadDataOK, ReadHasBuffer, CountFits
  <2>2. r \in Nat /\ mSSLReadCount + r <= mSSLReadSize /\ r <= appAvail
    BY <2>1 DEF Recv!Smaller
  <2>3. ReadReturned(r) /\ appAvail' = appAvail - r
    BY <1>5 DEF ReadData
  <2> HIDE DEF r
  <2>4. appAvail' \in Nat
    BY <2>1, <2>2, <2>3
  <2> QED BY <2>0, <2>2, <2>3, <2>4, ReadReturns
<1>6. CASE ReadEOF
  <2>0. /\ ctl = "read" /\ mSSLConfigured /\ UNCHANGED mSSLConfigured
        /\ ReadReturned(0) /\ appAvail' = appAvail
    BY <1>6, RecvSteps DEF ReadEOF, InRead, LinkInv, CallNeedsSSL
  <2>1. mSSLReadCount + 0 <= mSSLReadSize /\ appAvail \in Nat
    BY <2>0 DEF ReadInv, ReadDataOK, ReadHasBuffer, CountFits
  <2> QED BY <2>0, <2>1, ReadReturns
<1>7. CASE ReadWaits \/ SSLRecvCallback
  <2>1. /\ UNCHANGED <<appAvail, appRead, clientGot, mSSLReadSize, mSSLReadCount>>
        /\ UNCHANGED mSSLConfigured /\ ctl' \in {ctl, "idle"}
    BY <1>7, RecvSteps DEF ReadWaits, SSLRecvCallback, OtherVars
  <2>2. ctl' = "read" => mSSLReadSize > 0
    BY <2>1 DEF ReadInv, ReadHasBuffer
  <2> QED BY <2>1, <2>2, ReadAlone
<1>8. CASE ReadCloseNotify \/ ReadFails
  BY <1>8, ReadEnding DEF ReadCloseNotify, ReadFails, InRead
<1>9. CASE HandleRequest
  <2>1. /\ UNCHANGED <<appAvail, appRead, clientGot, mSSLReadSize, mSSLReadCount>>
        /\ UNCHANGED mSSLConfigured /\ (ctl' = "read" => mSSLReadSize > 0)
    BY <1>9, RecvSteps DEF HandleRequest
  <2> QED BY <2>1, ReadAlone
<1>10. CASE NIECloses
  <2>1. /\ UNCHANGED <<appAvail, appRead, clientGot, mSSLReadSize, mSSLReadCount>>
        /\ UNCHANGED mSSLConfigured /\ ctl' # "read"
    BY <1>10 DEF NIECloses, OtherVars, Send!NIEDown
  <2> QED BY <2>1, ReadAlone
<1>11. CASE CloseReturns
  <2>1. /\ UNCHANGED <<appAvail, appRead, clientGot, mSSLReadCount>> /\ ctl' = "idle"
        /\ mSSLReadSize' \in {0, mSSLReadSize} /\ mSSLConfigured' = FALSE
    BY <1>11 DEF CloseReturns, Send!SendUnconfigure, LinkInv
  <2> QED BY <2>1 DEF ReadInv, ReadDataOK, ReadHasBuffer, CountFits, AppDataConserved
<1> QED BY <1>1, <1>2, <1>3, <1>4, <1>5, <1>6, <1>7, <1>8, <1>9, <1>10, <1>11
        DEF Task, Handshake, Read

LEMMA ReadClientStep == ASSUME LinkInv, ReadInv, Client PROVE ReadInv'
<1> USE DEF sendVars, recvVars, sendOnly, recvOnly, readVars, mbedVars
<1>1. CASE OpenStart \/ ConnectStartFails \/ CloseStart \/ DeleteAndNew
           \/ RawPutStart \/ RawGetStart \/ \E r \in ForwardOps : ForwardStart(r)
  <2>1. /\ UNCHANGED <<appAvail, appRead, clientGot, mSSLReadSize, mSSLReadCount>>
        /\ mSSLConfigured' = FALSE \/ UNCHANGED mSSLConfigured
        /\ ctl' # "read"
    BY <1>1 DEF OpenStart, ConnectStartFails, ConnectAllowed, CloseStart, DeleteAndNew,
                RawPutStart, RawGetStart, ForwardStart, PutAllowed, GetAllowed
  <2> QED BY <2>1, ReadAlone
<1>2. CASE ConnectStart
  <2>1. ctl' # "read"
    BY <1>2 DEF ConnectStart, ConnectAllowed
  <2> QED BY <1>2, <2>1, ReadAlone, ReadConfigure DEF ConnectStart
<1>3. CASE TerminateStart
  <2>1. /\ UNCHANGED <<appAvail, appRead, clientGot, mSSLReadSize, mSSLReadCount>>
        /\ UNCHANGED mSSLConfigured /\ ctl' # "read"
    BY <1>3, RecvSteps DEF TerminateStart
  <2> QED BY <2>1, ReadAlone
<1>4. ASSUME NEW enabled \in BOOLEAN, EnableOption(enabled) PROVE ReadInv'
  <2>1. ctl = "idle"
    BY <1>4 DEF EnableOption
  <2>2. CASE SSLConfigure /\ ctl' = "handshake"
    BY <2>2, ReadConfigure
  <2>3. CASE UNCHANGED <<mSSLConfigured, readVars, mbedVars, clientGot, ctl>>
    BY <2>1, <2>3, ReadAlone
  <2> QED BY <1>4, <2>2, <2>3 DEF EnableOption
<1>5. ASSUME NEW size \in 1 .. MaxGet, NEW threshold, GetBytesStart(size, threshold)
      PROVE  ReadInv'
  <2>1. /\ UNCHANGED <<appAvail, appRead, clientGot, mSSLConfigured>>
        /\ mSSLReadSize = 0 /\ mSSLReadSize' = size /\ mSSLReadCount' = 0
    BY <1>5 DEF GetBytesStart
  <2>2. size \in Nat /\ size > 0
    BY CEConstants
  <2> QED BY <2>1, <2>2 DEF ReadInv, ReadDataOK, ReadHasBuffer, CountFits, AppDataConserved
<1>6. ASSUME NEW n, PutBytesStart(n) PROVE ReadInv'
  <2>1. /\ UNCHANGED <<appAvail, appRead, clientGot, mSSLReadSize, mSSLReadCount>>
        /\ UNCHANGED mSSLConfigured /\ ctl' # "read"
    BY <1>6, SendSteps DEF PutBytesStart, PutAllowed
  <2> QED BY <2>1, ReadAlone
<1>7. CASE PutFails
  BY <1>7, ReadReset DEF PutFails, PutAllowed
<1>8. CASE UNCHANGED vars
  <2>1. ctl' = "read" => mSSLReadSize > 0
    BY <1>8 DEF vars, ReadInv, ReadHasBuffer
  <2> QED BY <1>8, <2>1, ReadAlone DEF vars
<1> QED BY <1>1, <1>2, <1>3, <1>4, <1>5, <1>6, <1>7, <1>8
        DEF Client, ClientDone, PutRefused, GetRefused, KillRefused

LEMMA ReadNIEStep ==
    ASSUME ReadInv,
           ControlCB \/ PutCompleteCB \/ GetCompleteCB \/ NIETakes \/ Peer
           \/ \E r \in {"put", "get"} : RawCompleteCB(r)
    PROVE  ReadInv'
<1> USE DEF sendVars, recvVars, sendOnly, recvOnly, readVars, mbedVars
<1>1. /\ UNCHANGED <<appAvail, appRead, clientGot, mSSLReadSize, mSSLReadCount, mSSLConfigured>>
      /\ ctl' \in {ctl, "handshake"}
  <2>1. CASE ControlCB
    BY <2>1 DEF ControlCB, OpenCompleteCB, ConnectCompleteCB, ConnectCompleteCBError,
                TerminateCompleteCB, CloseCompleteCB, ForwardCompleteCB, Send!NIEUp,
                Send!NIEDown
  <2>2. CASE PutCompleteCB \/ GetCompleteCB \/ NIETakes \/ Peer
    BY <2>2, RecvSteps, SendSteps DEF PutCompleteCB, GetCompleteCB, NIETakes, Peer, OtherVars
  <2>3. CASE \E r \in {"put", "get"} : RawCompleteCB(r)
    BY <2>3 DEF RawCompleteCB
  <2> QED BY <2>1, <2>2, <2>3
<1>2. ctl' = "read" => mSSLReadSize > 0
  BY <1>1 DEF ReadInv, ReadHasBuffer
<1> QED BY <1>1, <1>2, ReadAlone

LEMMA ReadAlways == CESpec => []ReadInv
<1>1. CEInit => ReadInv
  BY DEF CEInit, Send!SendInit, ReadInv, ReadDataOK, ReadHasBuffer, CountFits,
         AppDataConserved
<1>2. LinkInv /\ ReadInv /\ [CENext]_vars => ReadInv'
  <2> SUFFICES ASSUME LinkInv, ReadInv, [CENext]_vars PROVE ReadInv'
    OBVIOUS
  <2>1. CASE UNCHANGED vars
    <3>1. ctl' = "read" => mSSLReadSize > 0
      BY <2>1 DEF vars, ReadInv, ReadHasBuffer
    <3> QED BY <2>1, <3>1, ReadAlone DEF vars, readVars, mbedVars
  <2>2. CASE CENext
    BY <2>2, ReadTaskStep, ReadClientStep, ReadNIEStep DEF CENext
  <2> QED BY <2>1, <2>2
<1> QED BY <1>1, <1>2, LinkInvariant, PTL DEF CESpec

\* Every byte mbedtls_ssl_read returned was given to the client with a Get or
\* is in the buffer of the Get in progress: DoSSLRead, its retries from TLS
\* events and the ends of a session lose and repeat none.
THEOREM AppDataAlwaysConserved == CESpec => []AppDataConserved
<1>1. ReadInv => AppDataConserved
  BY DEF ReadInv
<1> QED BY <1>1, ReadAlways, PTL

\* What DoSSLRead answers a Get with.
GetsFit ==
    ctl = "read" /\ pending' # pending =>
        /\ clientGot' - clientGot \in 0 .. mSSLReadSize
        /\ mEstablished' => clientGot' - clientGot >= getThreshold

\* A Get is answered with at least its threshold of bytes, unless the session
\* ended, and never with more than its buffer holds, however many calls of
\* mbedtls_ssl_read and TLS events it took.
THEOREM GetsAlwaysFit == CESpec => [][GetsFit]_vars
<1>1. ReadInv /\ [CENext]_vars => [GetsFit]_vars
  <2> SUFFICES ASSUME ReadInv, CENext, ctl = "read", pending' # pending
               PROVE  /\ clientGot' - clientGot \in 0 .. mSSLReadSize
                      /\ mEstablished' => clientGot' - clientGot >= getThreshold
    BY DEF GetsFit
  <2> USE DEF sendVars, recvVars, tlsVars, readVars, linkVars, mbedVars, OtherVars
  <2>1. /\ clientGot \in Nat /\ mSSLReadSize \in Nat /\ mSSLReadCount \in Nat
        /\ appAvail \in Nat /\ mSSLReadCount <= mSSLReadSize
    BY DEF ReadInv, ReadDataOK, ReadHasBuffer, CountFits
  <2>2. ASSUME NEW r \in Nat, ReadReturned(r), mSSLReadCount + r <= mSSLReadSize
        PROVE  /\ clientGot' - clientGot \in 0 .. mSSLReadSize
               /\ mEstablished' => clientGot' - clientGot >= getThreshold
    <3>1. mSSLReadCount + r >= getThreshold /\ clientGot' = clientGot + mSSLReadCount + r
      BY <2>2 DEF ReadReturned
    <3>2. clientGot' - clientGot = mSSLReadCount + r
      BY <2>1, <3>1
    <3> QED BY <2>1, <2>2, <3>1, <3>2
  <2>3. CASE ReadData
    <3>1. PICK r : ReadReturned(r) /\ r = Recv!Smaller(appAvail, mSSLReadSize - mSSLReadCount)
      BY <2>3 DEF ReadData
    <3>2. r \in Nat /\ mSSLReadCount + r <= mSSLReadSize
      BY <2>1, <3>1 DEF Recv!Smaller
    <3> QED BY <2>2, <3>1, <3>2
  <2>4. CASE ReadEOF
    <3>1. ReadReturned(0) /\ mSSLReadCount + 0 <= mSSLReadSize
      BY <2>1, <2>4 DEF ReadEOF
    <3> QED BY <2>2, <3>1
  <2>5. CASE ReadCloseNotify \/ ReadFails
    <3>1. clientGot' = clientGot + mSSLReadCount /\ ~mEstablished'
      BY <2>5 DEF ReadCloseNotify, ReadFails, ReadEnds
    <3> QED BY <2>1, <3>1
  <2>6. ReadData \/ ReadEOF \/ ReadCloseNotify \/ ReadFails
    <3>1. ~Client /\ ~ControlCB
      BY DEF Client, OpenStart, ConnectStart, ConnectStartFails, ConnectAllowed, TerminateStart,
             CloseStart, DeleteAndNew, ClientDone, ForwardStart, EnableOption, GetBytesStart,
             GetAllowed, PutAllowed, PutBytesStart, PutFails, PutRefused, GetRefused, KillRefused,
             RawPutStart, RawGetStart, ControlCB, OpenCompleteCB, ConnectCompleteCB,
             ConnectCompleteCBError, TerminateCompleteCB, CloseCompleteCB, ForwardCompleteCB
    <3>2. ~Handshake
      BY DEF Handshake, HandshakeSends, HandshakeFetches, HandshakeParses, HandshakeWaits,
             HandshakeSucceeds, HandshakeFails, InHandshake
    <3>3. ~(PutCompleteCB \/ GetCompleteCB \/ NIETakes \/ Peer)
      BY DEF PutCompleteCB, GetCompleteCB, NIETakes, Peer
    <3>4. \A r : ~RawCompleteCB(r)
      BY DEF RawCompleteCB
    <3>5. ~(SSLRecvCallback \/ HandleRequest \/ NIECloses \/ CloseReturns \/ ReadWaits)
      BY DEF SSLRecvCallback, HandleRequest, NIECloses, CloseReturns, ReadWaits
    <3>6. \A n : ~ReadFetches(n) /\ ~ReadParses(n)
      BY DEF ReadFetches, ReadParses
    <3> QED BY <3>1, <3>2, <3>3, <3>4, <3>5, <3>6 DEF CENext, Task, Read
  <2> QED BY <2>3, <2>4, <2>5, <2>6
<1> QED BY <1>1, ReadAlways, PTL DEF CESpec

-----------------------------------------------------------------------------
(***************************************************************************)
(* Sessions.  A TLS session that is configured and not closing waits for   *)
(* its connection or was given up (Quiet), is established on a connected   *)
(* link (Established), or has a request of the client behind it (Busy).    *)
(***************************************************************************)
Gone == ctl = "closing" \/ "close" \in nieOps

Quiet ==
    /\ hsLeft > 0 /\ recvPc = "out" /\ fetchRet = "none"
    /\ readsOver \/ (ctl = "idle" /\ ~tlsEvent /\ nieGets = 0 /\ mSSLRecvBuffer = <<>>)

Established ==
    /\ mEstablished /\ link = "connected"
    /\ "terminate" \notin nieOps /\ "connect" \notin nieOps

Busy == "connect" \notin nieOps /\ (pending["connect"] >= 1 \/ pending["option"] >= 1)

SessionHasOwner ==
    mSSLConfigured /\ ctl # "closing" /\ ~mClosing => Quiet \/ Established \/ Busy

\* NIE connects with SSL while the task is idle and the client waits.
ConnectingIsIdle ==
    "connect" \in nieOps /\ mSSLEnabled => recvPc = "out" /\ ctl = "idle"

\* A Connect that NIE holds is the client's, on an open link.  Without SSL an
\* event of an earlier session may have failed and answered it already.
ConnectingIsOpen ==
    "connect" \in nieOps =>
        \/ link = "open" /\ pending["connect"] = 1
        \/ link = "failed" /\ ~mSSLEnabled

\* A disconnect is made when nothing else is asked for.
EndingIsAlone ==
    "terminate" \in nieOps => /\ pending["terminate"] = 1 /\ "connect" \notin nieOps
                              /\ pending["connect"] <= 0 /\ pending["option"] <= 0

HandshakeIsLive == ctl = "handshake" => ~mClosing /\ ~mEstablished
FailedIsClosing == link = "failed" /\ mSSLConfigured => mClosing

\* When NIE is up: not while it connects, after a close, or on a link that is
\* only open.
UpIsConnected ==
    /\ link \in {"closed", "open", "connected", "failed"}
    /\ link = "open" /\ nieUp /\ ~Gone => pending["connect"] >= 1
    /\ link = "closed" /\ ctl # "closing" => ~nieUp
    /\ "close" \in nieOps /\ ctl # "closing" => ~nieUp
    /\ "connect" \in nieOps => ~nieUp

\* No handshake gets anywhere while NIE is down: it has nothing to parse.
DownIsStuck ==
    mSSLConfigured /\ ~nieUp /\ ~mClosing /\ ctl # "closing" =>
        hsLeft > 0 /\ fetchRet # "ok" /\ (readsOver \/ mSSLRecvBuffer = <<>>)

OverIsOut == readsOver => recvPc = "out" /\ fetchRet = "none"

SessInv ==
    /\ FreshConnection /\ ConnectingIsIdle /\ ConnectingIsOpen /\ EndingIsAlone
    /\ HandshakeIsLive /\ FailedIsClosing /\ UpIsConnected /\ DownIsStuck
    /\ SessionHasOwner /\ OverIsOut

LEMMA SessInitially == CEInit => SessInv
BY DEF CEInit, Send!SendInit, Recv!RecvInit, SessInv, FreshConnection, ConnectingIsIdle,
       ConnectingIsOpen,
       EndingIsAlone, HandshakeIsLive, FailedIsClosing, UpIsConnected, DownIsStuck,
       SessionHasOwner, OverIsOut, Gone, Quiet, Established, Busy


\* While NIE connects with SSL, none of these is possible.
Connecting == "connect" \in nieOps /\ mSSLEnabled

LEMMA WhileConnecting ==
    ASSUME SessInv, Connecting
    PROVE  /\ ctl = "idle" /\ link = "open" /\ recvPc = "out" /\ pending["connect"] = 1
           /\ niePuts = 0 /\ nieGets = 0 /\ ~tlsEvent
BY DEF SessInv, Connecting, FreshConnection, ConnectingIsIdle, ConnectingIsOpen

\* The variables SessInv is about, without those of a fresh connection only.
linkPart == <<mSSLConfigured, mSSLEnabled, mEstablished, mClosing, link, nieOps, nieUp>>
recvPart == <<recvPc, fetchRet, readsOver, tlsEvent, nieGets, mSSLRecvBuffer>>

LEMMA SessSame ==
    ASSUME SessInv, ~Connecting, UNCHANGED <<linkPart, recvPart, ctl, hsLeft>>,
           pending'["connect"] = pending["connect"], pending'["option"] = pending["option"],
           pending'["terminate"] = pending["terminate"]
    PROVE  SessInv'
BY DEF linkPart, recvPart, Connecting, SessInv, FreshConnection, ConnectingIsIdle,
       ConnectingIsOpen, EndingIsAlone, HandshakeIsLive, FailedIsClosing, UpIsConnected,
       DownIsStuck, SessionHasOwner, OverIsOut, Gone, Quiet, Established, Busy

\* Steps that write, and what NIE does with what was written.
LEMMA SessSendSteps ==
    ASSUME SessInv,
           \/ \E n : HandshakeSends(n) \/ PutBytesStart(n)
           \/ PutCompleteCB \/ NIETakes
    PROVE  SessInv'
<1> USE DEF OtherVars, recvVars, recvOnly, tlsVars, linkVars, mbedVars, linkPart, recvPart
<1>1. ASSUME NEW n, HandshakeSends(n) PROVE SessInv'
  BY <1>1, WhileConnecting, SessSame DEF HandshakeSends, InHandshake
<1>2. ASSUME NEW n, PutBytesStart(n) PROVE SessInv'
  BY <1>2, WhileConnecting, SessSame DEF PutBytesStart, PutAllowed
<1>3. CASE PutCompleteCB
  <2>1. niePuts > 0
    BY <1>3 DEF PutCompleteCB, Send!PutCompleteCB
  <2> QED BY <1>3, <2>1, WhileConnecting, SessSame DEF PutCompleteCB
<1>4. CASE NIETakes
  <2>1. niePuts > 0
    BY <1>4 DEF NIETakes, Send!NIETakes
  <2> QED BY <1>4, <2>1, WhileConnecting, SessSame DEF NIETakes
<1> QED BY <1>1, <1>2, <1>3, <1>4

\* mbedtls fetches: it has a session that is not over, and on a link that is
\* down it gets nothing.
LEMMA SessFetchSteps ==
    ASSUME LinkInv, SessInv,
           \/ \E n : HandshakeFetches(n) \/ ReadFetches(n) \/ ReadParses(n)
           \/ HandshakeParses \/ SSLRecvCallback
    PROVE  SessInv'
<1> USE DEF OtherVars, sendVars, recvVars, sendOnly, recvOnly, tlsVars, linkVars, mbedVars
<1>1. ASSUME NEW n, HandshakeFetches(n) \/ ReadFetches(n) PROVE SessInv'
  <2>1. /\ UNCHANGED <<linkPart, ctl, hsLeft, pending, readsOver, tlsEvent, nieGets,
                       mSSLRecvBuffer>>
        /\ fetchRet' = "none" /\ ~readsOver /\ ctl \in {"handshake", "read"}
    BY <1>1
       DEF HandshakeFetches, ReadFetches, InHandshake, InRead, Recv!FetchInput, Recv!ceVars,
                Recv!nieVars, linkPart
  <2> QED BY <2>1, WhileConnecting
     DEF linkPart, Connecting, SessInv, FreshConnection, ConnectingIsIdle,
       ConnectingIsOpen, EndingIsAlone, HandshakeIsLive, FailedIsClosing, UpIsConnected,
       DownIsStuck, SessionHasOwner, OverIsOut, Gone, Quiet, Established, Busy
<1>2. ASSUME NEW n, HandshakeParses \/ ReadParses(n) PROVE SessInv'
  <2>1. /\ UNCHANGED <<linkPart, ctl, pending, recvPc, readsOver, tlsEvent, nieGets,
                       mSSLRecvBuffer>>
        /\ fetchRet = "ok" /\ fetchRet' = "none" /\ ctl \in {"handshake", "read"}
        /\ mSSLConfigured
    BY <1>2
       DEF HandshakeParses, ReadParses, InHandshake, InRead, Recv!FetchUsed, Recv!ceVars,
                Recv!nieVars, linkPart
  <2> QED BY <2>1, WhileConnecting
     DEF linkPart, Connecting, SessInv, FreshConnection, ConnectingIsIdle,
       ConnectingIsOpen, EndingIsAlone, HandshakeIsLive, FailedIsClosing, UpIsConnected,
       DownIsStuck, SessionHasOwner, OverIsOut, Gone, Quiet, Established, Busy
<1>3. CASE SSLRecvCallback
  <2>1. /\ UNCHANGED <<linkPart, ctl, hsLeft, pending, readsOver, tlsEvent>>
        /\ recvPc # "out"
        /\ fetchRet' = "ok" => mSSLRecvBuffer # <<>> \/ fetchRet = "ok"
        /\ mSSLRecvBuffer = <<>> => mSSLRecvBuffer' = <<>>
    BY <1>3 DEF SSLRecvCallback, Recv!SSLRecvCallback, Recv!RecvRefuse,
       Recv!RecvAskNIE, Recv!RecvAskNothing, Recv!RecvAsked, Recv!RecvNoCopy, Recv!RecvCopy, Recv!ceVars,
                Recv!nieVars, Recv!mbedVars, linkPart
  <2> QED BY <2>1, WhileConnecting
     DEF linkPart, Connecting, SessInv, FreshConnection, ConnectingIsIdle,
       ConnectingIsOpen, EndingIsAlone, HandshakeIsLive, FailedIsClosing, UpIsConnected,
       DownIsStuck, SessionHasOwner, OverIsOut, Gone, Quiet, Established, Busy
<1> QED BY <1>1, <1>2, <1>3

\* NIE answers a Get, the peer sends or closes.
LEMMA SessGetSteps ==
    ASSUME LinkInv, SessInv, GetCompleteCB \/ Peer PROVE SessInv'
<1> USE DEF OtherVars, sendVars, recvVars, sendOnly, recvOnly, tlsVars, linkVars, mbedVars
<1>1. CASE GetCompleteCB
  <2>1. /\ UNCHANGED <<linkPart, ctl, hsLeft, pending, recvPc, fetchRet, readsOver>>
        /\ nieGets > 0
        /\ ~nieUp => UNCHANGED mSSLRecvBuffer
    BY <1>1
       DEF GetCompleteCB, Recv!GetCompleteData, Recv!GetCompleteEOF, Recv!GetCompleteError,
                Recv!GetAnswered, Recv!mbedVars, linkPart
  <2> QED BY <2>1, WhileConnecting
     DEF linkPart, Connecting, SessInv, FreshConnection, ConnectingIsIdle,
       ConnectingIsOpen, EndingIsAlone, HandshakeIsLive, FailedIsClosing, UpIsConnected,
       DownIsStuck, SessionHasOwner, OverIsOut, Gone, Quiet, Established, Busy
<1>2. CASE Peer
  <2>1. /\ UNCHANGED <<linkPart, recvPart, ctl, hsLeft, pending, mRecvPending, mPeerClosed,
                       mRecvError, sendOnly>>
    BY <1>2
       DEF Peer, Recv!PeerSends, Recv!PeerCloses, Recv!ceVars, Recv!mbedVars, linkPart,
           recvPart
  <2> QED BY <2>1, SessSame
     DEF linkPart, recvPart, Connecting, SessInv, FreshConnection, ConnectingIsIdle,
       ConnectingIsOpen, EndingIsAlone, HandshakeIsLive, FailedIsClosing, UpIsConnected,
       DownIsStuck, SessionHasOwner, OverIsOut, Gone, Quiet, Established, Busy
<1> QED BY <1>1, <1>2

\* A session that ends: closing, or given up.
LEMMA SessEnds ==
    ASSUME SessInv, ~Connecting, ctl # "closing", ctl' = "idle",
           UNCHANGED <<mSSLConfigured, mSSLEnabled, nieOps, nieUp>>,
           mClosing', ~mEstablished', recvPc' = "out", fetchRet' = "none",
           \/ link' = "failed" /\ pending'["connect"] = pending["connect"] - 1
           \/ link' = link /\ pending'["connect"] = pending["connect"],
           pending'["option"] = pending["option"], pending'["terminate"] = pending["terminate"],
           pending["connect"] \in Int
    PROVE  SessInv'
BY DEF linkPart, Connecting, LinkInv, SessInv, FreshConnection, ConnectingIsIdle,
       ConnectingIsOpen, EndingIsAlone, HandshakeIsLive, FailedIsClosing, UpIsConnected,
       DownIsStuck, SessionHasOwner, OverIsOut, Gone, Quiet, Established, Busy

\* What a request or an answer does to the requests SessInv is about.
LEMMA OtherRequests ==
    ASSUME LinkInv
   
    PROVE  /\ pending["connect"] \in Int /\ pending["option"] \in Int
           /\ pending["terminate"] \in Int
           /\ \A r \in {"put", "get", "open", "close"} \cup ForwardOps : Asked(r) \/ Completed(r) =>
                /\ pending'["connect"] = pending["connect"]
                /\ pending'["option"] = pending["option"]
                /\ pending'["terminate"] = pending["terminate"]
           /\ Completed("connect") => /\ pending'["connect"] = pending["connect"] - 1
                                      /\ pending'["option"] = pending["option"]
                                      /\ pending'["terminate"] = pending["terminate"]
           /\ Completed("option") => /\ pending'["connect"] = pending["connect"]
                                     /\ pending'["option"] = pending["option"] - 1
                                     /\ pending'["terminate"] = pending["terminate"]
           /\ Asked("connect") => /\ pending'["connect"] = pending["connect"] + 1
                                  /\ pending'["option"] = pending["option"]
                                  /\ pending'["terminate"] = pending["terminate"]
           /\ Asked("option") => /\ pending'["connect"] = pending["connect"]
                                 /\ pending'["option"] = pending["option"] + 1
                                 /\ pending'["terminate"] = pending["terminate"]
           /\ Asked("terminate") => /\ pending'["connect"] = pending["connect"]
                                    /\ pending'["option"] = pending["option"]
                                    /\ pending'["terminate"] = pending["terminate"] + 1
<1>0. pending \in [Requests -> Int]
  BY DEF LinkInv
<1>1. {"connect", "option", "terminate"} \subseteq Requests
  BY DEF Requests
<1>2. \A r \in {"put", "get", "open", "close"} \cup ForwardOps :
          r \in Requests /\ r \notin {"connect", "option", "terminate"}
  BY CEConstants DEF Requests
<1>3. ASSUME NEW r \in {"put", "get", "open", "close"} \cup ForwardOps, Asked(r) \/ Completed(r)
      PROVE  /\ pending'["connect"] = pending["connect"]
             /\ pending'["option"] = pending["option"]
             /\ pending'["terminate"] = pending["terminate"]
  BY <1>0, <1>1, <1>2, <1>3, OneRequest
<1> QED BY <1>0, <1>1, <1>3, OneRequest

\* The end of a handshake.
LEMMA SessHandshakeEnds ==
    ASSUME LinkInv, SessInv, HandshakeWaits \/ HandshakeSucceeds \/ HandshakeFails
    PROVE  SessInv'
<1> USE DEF OtherVars, sendVars, recvVars, sendOnly, recvOnly, tlsVars, linkVars, mbedVars
<1>0. ~Connecting /\ ctl = "handshake" /\ recvPc = "out" /\ mSSLConfigured /\ ~mClosing /\ ~mEstablished
  BY WhileConnecting
     DEF HandshakeWaits, HandshakeSucceeds, HandshakeFails, InHandshake, LinkInv,
         CallNeedsSSL,
        SessInv, HandshakeIsLive
<1>1. CASE HandshakeWaits
  <2>1. UNCHANGED <<linkPart, recvPart, hsLeft, pending>> /\ fetchRet = "wantRead" /\ ctl' = "idle"
    BY <1>1 DEF HandshakeWaits, linkPart, recvPart
  <2> QED BY <1>0, <2>1
     DEF linkPart, recvPart, Connecting, SessInv, FreshConnection, ConnectingIsIdle,
       ConnectingIsOpen, EndingIsAlone, HandshakeIsLive, FailedIsClosing, UpIsConnected,
       DownIsStuck, SessionHasOwner, OverIsOut, Gone, Quiet, Established, Busy
<1>2. CASE HandshakeSucceeds
  <2>1. /\ hsLeft = 0 /\ mEstablished' = TRUE /\ ctl' = "idle"
        /\ UNCHANGED <<recvPart, mSSLConfigured, mSSLEnabled, mClosing, nieOps, nieUp, hsLeft>>
    BY <1>2 DEF HandshakeSucceeds, recvPart
  <2>2. nieUp
    BY <1>0, <2>1 DEF SessInv, DownIsStuck
  <2>3. "connect" \notin nieOps /\ "terminate" \notin nieOps /\ "close" \notin nieOps
        /\ (pending["connect"] >= 1 \/ pending["option"] >= 1)
    BY <1>0, <2>1, <2>2, OtherRequests
       DEF SessInv, UpIsConnected, SessionHasOwner, Quiet, Established, Busy,
       EndingIsAlone, LinkInv, ClosingIsAlone
  <2>4. CASE mUpgradable
    <3>1. Completed("option") /\ UNCHANGED link
      BY <1>2, <2>4 DEF HandshakeSucceeds
    <3>2. link = "connected" \/ (link = "open" /\ pending["connect"] >= 1)
      BY <1>0, <2>2, <2>3
         DEF SessInv, UpIsConnected, FailedIsClosing, LinkInv, ClosedIsClean, Gone
    <3> QED BY <1>0, <2>1, <2>2, <2>3, <3>1, <3>2, OtherRequests
       DEF recvPart, Connecting, SessInv, FreshConnection, ConnectingIsIdle,
       ConnectingIsOpen, EndingIsAlone, HandshakeIsLive, FailedIsClosing, UpIsConnected,
       DownIsStuck, SessionHasOwner, OverIsOut, Gone, Quiet, Established, Busy
  <2>5. CASE ~mUpgradable
    <3>1. Completed("connect") /\ link' = "connected"
      BY <1>2, <2>5 DEF HandshakeSucceeds
    <3> QED BY <1>0, <2>1, <2>2, <2>3, <3>1, OtherRequests
       DEF recvPart, Connecting, SessInv, FreshConnection, ConnectingIsIdle,
       ConnectingIsOpen, EndingIsAlone, HandshakeIsLive, FailedIsClosing, UpIsConnected,
       DownIsStuck, SessionHasOwner, OverIsOut, Gone, Quiet, Established, Busy
  <2> QED BY <2>4, <2>5
<1>3. CASE HandshakeFails
  <2>1. /\ UNCHANGED <<mSSLConfigured, mSSLEnabled, nieOps, nieUp, recvPc>>
        /\ fetchRet' = "none"
        /\ mEstablished' = FALSE /\ mClosing' = TRUE /\ ctl' = "idle" /\ link' = "failed"
        /\ Completed("connect")
    BY <1>3 DEF HandshakeFails, SessionReset, Recv!ReadsEnd, Recv!ceVars, Recv!nieVars
  <2> QED BY <1>0, <2>1, OtherRequests, SessEnds
<1> QED BY <1>1, <1>2, <1>3

\* A TLS event.
LEMMA SessEvent == ASSUME LinkInv, SessInv, HandleRequest PROVE SessInv'
<1> USE DEF OtherVars, sendVars, recvVars, sendOnly, recvOnly, tlsVars, linkVars, mbedVars
<1>1. /\ UNCHANGED <<linkPart, hsLeft, pending, readsOver, nieGets, mSSLRecvBuffer>>
      /\ tlsEvent /\ tlsEvent' = FALSE /\ recvPc = "out"
      /\ fetchRet = "wantRead" => fetchRet' = "none"
      /\ fetchRet # "wantRead" => UNCHANGED <<recvPc, fetchRet>>
      /\ ctl = "idle" /\ ctl' \in {"idle", "handshake", "read"}
      /\ ctl' = "handshake" => ~mClosing /\ ~mEstablished
  BY DEF HandleRequest, Recv!HandleTLSEvent, Recv!nieVars, linkPart
<1> QED BY <1>1, WhileConnecting
   DEF linkPart, Connecting, SessInv, FreshConnection, ConnectingIsIdle,
       ConnectingIsOpen, EndingIsAlone, HandshakeIsLive, FailedIsClosing, UpIsConnected,
       DownIsStuck, SessionHasOwner, OverIsOut, Gone, Quiet, Established, Busy

\* Reads.
LEMMA SessReadSteps ==
    ASSUME LinkInv, SessInv,
           \/ ReadData \/ ReadEOF \/ ReadWaits \/ ReadCloseNotify \/ ReadFails
           \/ \E size, threshold : GetBytesStart(size, threshold)
    PROVE  SessInv'
<1> USE DEF OtherVars, sendVars, recvVars, sendOnly, recvOnly, tlsVars, linkVars, mbedVars
<1>1. CASE ReadData \/ ReadEOF \/ ReadWaits
  <2>1. /\ UNCHANGED <<linkPart, hsLeft, recvPc, readsOver, tlsEvent, nieGets, mSSLRecvBuffer>>
        /\ ctl = "read" /\ ctl' \in {"idle", "read"}
        /\ UNCHANGED fetchRet \/ (fetchRet' = "none" /\ fetchRet # "none")
        /\ Completed("get") \/ UNCHANGED pending
    BY <1>1
       DEF ReadData, ReadEOF, ReadWaits, ReadReturned, InRead, Recv!FetchUsed, Recv!ceVars,
           Recv!nieVars, linkPart
  <2>2. /\ pending'["connect"] = pending["connect"] /\ pending'["option"] = pending["option"]
        /\ pending'["terminate"] = pending["terminate"]
    BY <2>1, OtherRequests
  <2> QED BY <2>1, <2>2, WhileConnecting
     DEF linkPart, Connecting, SessInv, FreshConnection, ConnectingIsIdle,
       ConnectingIsOpen, EndingIsAlone, HandshakeIsLive, FailedIsClosing, UpIsConnected,
       DownIsStuck, SessionHasOwner, OverIsOut, Gone, Quiet, Established, Busy
<1>2. CASE ReadCloseNotify \/ ReadFails
  <2>1. ReadEnds /\ ctl = "read"
    BY <1>2 DEF ReadCloseNotify, ReadFails, InRead
  <2>2. /\ UNCHANGED <<mSSLConfigured, mSSLEnabled, nieOps, nieUp, recvPc, link>>
        /\ fetchRet' = "none"
        /\ mEstablished' = FALSE /\ mClosing' = TRUE /\ ctl' = "idle" /\ Completed("get")
        /\ recvPc = "out"
    BY <2>1 DEF ReadEnds, SessionReset, Recv!ReadsEnd, Recv!ceVars, Recv!nieVars
  <2>3. ~Connecting
    BY <2>1, WhileConnecting
  <2>4. /\ pending'["connect"] = pending["connect"] /\ pending'["option"] = pending["option"]
        /\ pending'["terminate"] = pending["terminate"] /\ pending["connect"] \in Int
    BY <2>2, OtherRequests
  <2> QED BY <2>1, <2>2, <2>3, <2>4, SessEnds
<1>3. ASSUME NEW size, NEW threshold, GetBytesStart(size, threshold) PROVE SessInv'
  <2>1. /\ UNCHANGED <<linkPart, recvPart, hsLeft>> /\ ctl = "idle" /\ ctl' = "read"
        /\ mEstablished
        /\ link = "connected" /\ NoControl /\ Asked("get")
    BY <1>3 DEF GetBytesStart, GetAllowed, linkPart, recvPart
  <2>2. /\ pending'["connect"] = pending["connect"] /\ pending'["option"] = pending["option"]
        /\ pending'["terminate"] = pending["terminate"] /\ pending["terminate"] = 0
    BY <2>1, OtherRequests, NoneAsked
  <2> QED BY <2>1, <2>2, WhileConnecting
     DEF linkPart, recvPart, Connecting, SessInv, FreshConnection, ConnectingIsIdle,
       ConnectingIsOpen, EndingIsAlone, HandshakeIsLive, FailedIsClosing, UpIsConnected,
       DownIsStuck, SessionHasOwner, OverIsOut, Gone, Quiet, Established, Busy
<1> QED BY <1>1, <1>2, <1>3

\* SSLConfigure, for the variables SessInv is about.
LEMMA Configured ==
    SSLConfigure =>
        /\ mSSLConfigured' = TRUE /\ mEstablished' = FALSE /\ mClosing' = FALSE
        /\ hsLeft' = HsRecords /\ HsRecords > 0 /\ fetchRet' = "none" /\ readsOver' = FALSE
        /\ mSSLRecvBuffer' = <<>> /\ recvPc' = "out" /\ nieGets' = 0 /\ tlsEvent' = FALSE
        /\ niePuts' = 0 /\ UNCHANGED nieUp
        /\ mSendPending' = FALSE /\ mSendBuffer' = <<>> /\ mPutDataBuffer' = <<>>
        /\ mRecvPending' = FALSE /\ mPeerClosed' = FALSE
        /\ mSendError' = "noErr" /\ mRecvError' = "noErr"
<1>1. SSLConfigure => niePuts' = 0 /\ nieGets' = 0 /\ recvPc' = "out" /\ tlsEvent' = FALSE
  BY DEF SSLConfigure, Send!SendConfigure, Recv!RecvConfigure
<1> QED BY <1>1, CEConstants DEF SSLConfigure, Send!SendConfigure, Recv!RecvConfigure

\* Opening, forwarding, connecting and enabling SSL.
LEMMA SessControlSteps ==
    ASSUME LinkInv, SessInv,
           \/ OpenStart \/ OpenCompleteCB \/ ConnectStart \/ ConnectStartFails
           \/ ConnectCompleteCB \/ ConnectCompleteCBError
           \/ \E r \in ForwardOps : ForwardStart(r) \/ ForwardCompleteCB(r)
           \/ \E enabled \in BOOLEAN : EnableOption(enabled)
    PROVE  SessInv'
<1> USE DEF sendVars, recvVars, sendOnly, recvOnly, tlsVars, linkVars, mbedVars
<1> USE DEF linkPart, recvPart, Connecting, SessInv, FreshConnection, ConnectingIsIdle,
       ConnectingIsOpen, EndingIsAlone, HandshakeIsLive, FailedIsClosing, UpIsConnected,
       DownIsStuck, SessionHasOwner, OverIsOut, Gone, Quiet, Established, Busy
<1>1. CASE OpenStart
  <2>1. /\ UNCHANGED <<recvPart, hsLeft, mEstablished, mClosing, nieUp, ctl, link>>
        /\ mSSLConfigured' = FALSE /\ link = "closed" /\ nieOps' = nieOps \cup {"open"}
        /\ Asked("open")
        /\ NoControl /\ ctl = "idle"
    BY <1>1 DEF OpenStart
  <2>2. nieOps \subseteq {"open"}
    BY <2>1 DEF LinkInv, ClosedIsClean
  <2> QED BY <2>1, <2>2, OtherRequests
<1>2. CASE OpenCompleteCB
  <2>1. /\ UNCHANGED <<recvPart, hsLeft, mSSLConfigured, mSSLEnabled, mEstablished, mClosing,
                       nieUp, ctl>>
        /\ "open" \in nieOps /\ nieOps' = nieOps \ {"open"} /\ link' = "open"
        /\ Completed("open") /\ ctl = "idle"
    BY <1>2 DEF OpenCompleteCB
  <2>2. nieOps \subseteq {"open"} /\ ~mSSLConfigured /\ link = "closed"
    BY <2>1 DEF LinkInv, ClosedIsClean, OpeningIsClosed
  <2> QED BY <2>1, <2>2, OtherRequests
<1>3. CASE ConnectStart
  <2>1. /\ UNCHANGED <<mSSLEnabled, ctl, link>> /\ ctl = "idle" /\ link = "open" /\ NoControl
        /\ nieOps' = nieOps \cup {"connect"} /\ Asked("connect")
    BY <1>3 DEF ConnectStart, ConnectAllowed
  <2>2. /\ pending["connect"] = 0 /\ pending["option"] = 0 /\ pending["terminate"] = 0
        /\ pending["close"] = 0
    BY <2>1, NoneAsked
  <2>3. "connect" \notin nieOps /\ "terminate" \notin nieOps /\ "close" \notin nieOps
    BY <2>1, <2>2 DEF LinkInv, ClosingIsAlone
  <2>4. CASE mSSLEnabled
    <3>1. SSLConfigure
      BY <1>3, <2>4 DEF ConnectStart
    <3> QED BY <2>1, <2>2, <2>3, <2>4, <3>1, Configured, OtherRequests
  <2>5. CASE ~mSSLEnabled
    <3>1. UNCHANGED <<mSSLConfigured, mEstablished, mClosing, nieUp, recvPart, hsLeft>>
      BY <1>3, <2>5 DEF ConnectStart
    <3> QED BY <2>1, <2>2, <2>3, <2>5, <3>1, OtherRequests
  <2> QED BY <2>4, <2>5
<1>4. CASE ConnectStartFails
  BY <1>4 DEF ConnectStartFails
<1>5. CASE ConnectCompleteCB
  <2>1. /\ UNCHANGED <<recvPart, hsLeft, mSSLConfigured, mSSLEnabled, mEstablished, mClosing>>
        /\ "connect" \in nieOps /\ nieOps' = nieOps \ {"connect"} /\ nieUp' = TRUE
        /\ ctl = "idle"
    BY <1>5 DEF ConnectCompleteCB, Send!NIEUp, Recv!RecvNIEUp, Recv!ceVars, Recv!mbedVars
  <2>2. "close" \notin nieOps /\ "terminate" \notin nieOps /\ link # "closed"
    BY <2>1 DEF LinkInv, ClosingIsAlone
  <2>3. CASE mSSLEnabled
    <3>1. ctl' = "handshake" /\ UNCHANGED <<pending, link>>
      BY <1>5, <2>3 DEF ConnectCompleteCB
    <3> QED BY <2>1, <2>2, <2>3, <3>1
  <2>4. CASE ~mSSLEnabled
    <3>1. Completed("connect") /\ link' = "connected" /\ UNCHANGED ctl
      BY <1>5, <2>4 DEF ConnectCompleteCB
    <3> QED BY <2>1, <2>2, <2>4, <3>1, OtherRequests
  <2> QED BY <2>3, <2>4
<1>6. CASE ConnectCompleteCBError
  <2>1. /\ UNCHANGED <<recvPart, hsLeft, mSSLConfigured, mSSLEnabled, mEstablished, mClosing,
                       link, nieUp, ctl>>
        /\ "connect" \in nieOps /\ nieOps' = nieOps \ {"connect"} /\ Completed("connect")
        /\ ctl = "idle"
    BY <1>6 DEF ConnectCompleteCBError
  <2> QED BY <2>1, OtherRequests
<1>7. ASSUME NEW r \in ForwardOps, ForwardStart(r) \/ ForwardCompleteCB(r) PROVE SessInv'
  <2>0. r \notin {"open", "connect", "terminate", "close"}
    BY CEConstants
  <2>1. /\ UNCHANGED <<recvPart, hsLeft, mSSLConfigured, mSSLEnabled, mEstablished, mClosing,
                       link, nieUp, ctl>>
        /\ nieOps' = nieOps \cup {r} \/ nieOps' = nieOps \ {r}
        /\ UNCHANGED sendOnly /\ UNCHANGED recvOnly
        /\ Asked(r) \/ Completed(r)
    BY <1>7 DEF ForwardStart, ForwardCompleteCB
  <2>2. /\ pending'["connect"] = pending["connect"] /\ pending'["option"] = pending["option"]
        /\ pending'["terminate"] = pending["terminate"]
    BY <2>1, OtherRequests
  <2>3. \A q \in {"connect", "terminate", "close"} : q \in nieOps' <=> q \in nieOps
    BY <2>0, <2>1
  <2>4. /\ "connect" \in nieOps' <=> "connect" \in nieOps
        /\ "terminate" \in nieOps' <=> "terminate" \in nieOps
        /\ "close" \in nieOps' <=> "close" \in nieOps
    BY <2>3
  <2> QED BY <2>1, <2>2, <2>4
<1>8. ASSUME NEW enabled \in BOOLEAN, EnableOption(enabled) PROVE SessInv'
  <2>1. /\ ctl = "idle" /\ NoControl /\ link \in {"open", "connected"}
        /\ UNCHANGED <<link, nieOps>>
    BY <1>8 DEF EnableOption
  <2>2. "connect" \notin nieOps
    BY <2>1, NoneAsked
  <2>3. CASE SSLConfigure /\ ctl' = "handshake" /\ Asked("option")
    BY <2>1, <2>2, <2>3, NoneAsked, Configured, OtherRequests DEF LinkInv, ClosingIsAlone
  <2>4. CASE UNCHANGED <<mSSLConfigured, nieUp, sendOnly, recvOnly, mEstablished, mClosing,
                         mbedVars, ctl, pending>>
    BY <2>1, <2>2, <2>4
  <2> QED BY <1>8, <2>3, <2>4 DEF EnableOption
<1> QED BY <1>1, <1>2, <1>3, <1>4, <1>5, <1>6, <1>7, <1>8

\* Clear transfers, failed writes, disconnecting and closing.
LEMMA SessOtherSteps ==
    ASSUME LinkInv, SessInv,
           \/ RawGetStart \/ RawPutStart \/ \E r \in {"put", "get"} : RawCompleteCB(r)
           \/ PutFails \/ TerminateStart \/ TerminateCompleteCB \/ CloseStart \/ NIECloses
           \/ CloseReturns \/ CloseCompleteCB \/ DeleteAndNew \/ UNCHANGED vars
    PROVE  SessInv'
<1> USE DEF sendVars, recvVars, sendOnly, recvOnly, tlsVars, linkVars, mbedVars
<1> USE DEF linkPart, recvPart, Connecting, SessInv, FreshConnection, ConnectingIsIdle,
       ConnectingIsOpen, EndingIsAlone, HandshakeIsLive, FailedIsClosing, UpIsConnected,
       DownIsStuck, SessionHasOwner, OverIsOut, Gone, Quiet, Established, Busy
<1>1. CASE RawGetStart \/ RawPutStart \/ \E r \in {"put", "get"} : RawCompleteCB(r)
  <2>1. /\ UNCHANGED <<sendOnly, recvOnly, hsLeft, linkPart, ctl>>
        /\ \E r \in {"put", "get"} : Asked(r) \/ Completed(r)
    BY <1>1 DEF RawGetStart, RawPutStart, RawCompleteCB
  <2> QED BY <2>1, OtherRequests
<1>2. CASE PutFails
  <2>1. /\ UNCHANGED <<mSSLConfigured, mSSLEnabled, mClosing, link, nieOps, nieUp, ctl,
                       pending>>
        /\ ~mEstablished' /\ hsLeft' = HsRecords /\ readsOver' /\ fetchRet' = "none"
        /\ recvPc' = "out"
        /\ link = "connected" /\ ctl = "idle"
    BY <1>2 DEF PutFails, PutAllowed, SessionReset, Recv!ReadsEnd, Recv!ceVars, Recv!nieVars
  <2> QED BY <2>1, CEConstants
<1>3. CASE TerminateStart
  <2>1. /\ UNCHANGED <<mSSLEnabled, ctl, link, hsLeft>> /\ ctl = "idle" /\ link = "connected"
        /\ NoControl
        /\ nieOps' = nieOps \cup {"terminate"} /\ Asked("terminate")
    BY <1>3 DEF TerminateStart
  <2>2. /\ pending["connect"] = 0 /\ pending["option"] = 0 /\ pending["terminate"] = 0
        /\ "connect" \notin nieOps
    BY <2>1, NoneAsked
  <2>3. CASE mSSLConfigured /\ mEstablished
    <3>1. /\ mClosing' /\ ~mEstablished' /\ fetchRet' = "none" /\ recvPc' = "out"
          /\ UNCHANGED <<mSSLConfigured, nieUp>>
      BY <1>3, <2>3 DEF TerminateStart, Recv!ReadsEnd, Recv!ceVars, Recv!nieVars
    <3> QED BY <2>1, <2>2, <3>1, OtherRequests
  <2>4. CASE ~(mSSLConfigured /\ mEstablished)
    <3>1. UNCHANGED <<mSSLConfigured, nieUp, recvPart, mEstablished, mClosing>>
      BY <1>3, <2>4 DEF TerminateStart
    <3> QED BY <2>1, <2>2, <2>4, <3>1, OtherRequests
  <2> QED BY <2>3, <2>4
<1>4. CASE TerminateCompleteCB
  <2>1. /\ ctl = "idle" /\ "terminate" \in nieOps /\ nieOps' = nieOps \ {"terminate"}
        /\ ~nieUp' /\ nieGets' = 0 /\ link' = "open"
        /\ UNCHANGED <<mSSLConfigured, mSSLEnabled, mEstablished, mClosing, ctl, hsLeft, recvPc,
                       fetchRet, readsOver, tlsEvent, mSSLRecvBuffer>>
    BY <1>4
       DEF TerminateCompleteCB, Send!NIEDown, Recv!RecvNIEDown, Recv!ceVars, Recv!mbedVars
  <2>2. /\ pending'["connect"] = pending["connect"] /\ pending'["option"] = pending["option"]
    <3>1. pending' = [pending EXCEPT !["terminate"] = pending["terminate"] - 1,
                                     !["put"] = 0, !["get"] = 0]
      BY <1>4 DEF TerminateCompleteCB
    <3>2. {"terminate", "put", "get", "option", "connect"} \subseteq Requests
      BY DEF Requests
    <3> QED BY <3>1, <3>2 DEF LinkInv
  <2> QED BY <2>1, <2>2, OtherRequests
<1>5. CASE CloseStart
  <2>1. /\ UNCHANGED <<recvPart, hsLeft, mSSLConfigured, mSSLEnabled, mEstablished, mClosing,
                       link, nieUp>>
        /\ ctl' = "closing" /\ nieOps' = {"close"} /\ link # "closed"
    BY <1>5 DEF CloseStart
  <2> QED BY <2>1
<1>6. CASE NIECloses
  <2>1. /\ UNCHANGED <<mSSLConfigured, mSSLEnabled, mEstablished, mClosing, ctl, hsLeft, recvPc,
                       fetchRet, readsOver, tlsEvent, mSSLRecvBuffer, link, nieOps, pending>>
        /\ ctl = "closing" /\ ~nieUp'
    BY <1>6
       DEF NIECloses, OtherVars, Send!NIEDown, Recv!RecvNIEDown, Recv!ceVars, Recv!mbedVars
  <2>2. "connect" \notin nieOps /\ "terminate" \notin nieOps
    BY <2>1 DEF LinkInv, ClosingIsAlone, ClosedIsClean
  <2> QED BY <2>1, <2>2
<1>7. CASE CloseReturns
  <2>1. /\ UNCHANGED <<mSSLEnabled, mEstablished, mClosing, hsLeft, link, nieOps, pending,
                       nieUp>>
        /\ ctl = "closing" /\ ctl' = "idle" /\ ~nieUp /\ ~mSSLConfigured'
        /\ UNCHANGED <<recvPc, fetchRet, readsOver>>
    BY <1>7 DEF CloseReturns, Send!SendUnconfigure, Recv!RecvUnconfigure, Recv!mbedVars
  <2>2. "connect" \notin nieOps /\ "terminate" \notin nieOps
    BY <2>1 DEF LinkInv, ClosingIsAlone, ClosedIsClean
  <2> QED BY <2>1, <2>2
<1>8. CASE CloseCompleteCB
  <2>1. /\ UNCHANGED <<recvPart, hsLeft, mSSLConfigured, mSSLEnabled, mEstablished, mClosing,
                       nieUp, ctl>>
        /\ "close" \in nieOps /\ nieOps' = {} /\ link' = "closed" /\ ctl \in {"idle", "closing"}
    BY <1>8 DEF CloseCompleteCB
  <2>2. ctl # "closing" => ~mSSLConfigured
    BY <2>1 DEF LinkInv, ClosingIsAlone
  <2> QED BY <2>1, <2>2
<1>9. CASE DeleteAndNew
  BY <1>9 DEF DeleteAndNew
<1>10. CASE UNCHANGED vars
  BY <1>10 DEF vars
<1> QED BY <1>1, <1>2, <1>3, <1>4, <1>5, <1>6, <1>7, <1>8, <1>9, <1>10

LEMMA SessStep == LinkInv /\ SessInv /\ [CENext]_vars => SessInv'
<1> SUFFICES ASSUME LinkInv, SessInv, [CENext]_vars PROVE SessInv'
  OBVIOUS
<1>1. CASE Client
  BY <1>1, SessSendSteps, SessReadSteps, SessControlSteps, SessOtherSteps
     DEF Client, ClientDone, PutRefused, GetRefused, KillRefused
<1>2. CASE Task
  BY <1>2, SessSendSteps, SessFetchSteps, SessHandshakeEnds, SessEvent, SessReadSteps,
     SessOtherSteps DEF Task, Handshake, Read
<1>3. CASE ControlCB
  BY <1>3, SessControlSteps, SessOtherSteps DEF ControlCB
<1>4. CASE PutCompleteCB \/ GetCompleteCB \/ NIETakes \/ Peer
  BY <1>4, SessSendSteps, SessGetSteps
<1>5. ASSUME NEW r \in {"put", "get"}, RawCompleteCB(r) PROVE SessInv'
  BY <1>5, SessOtherSteps
<1>6. CASE UNCHANGED vars
  BY <1>6, SessOtherSteps
<1> QED BY <1>1, <1>2, <1>3, <1>4, <1>5, <1>6 DEF CENext

LEMMA SessAlways == CESpec => []SessInv
BY SessInitially, SessStep, LinkInvariant, PTL DEF CESpec

\* SSLConfigure at ConnectStart leaves nothing of an earlier connection, and
\* nothing reaches the halves before NIE answers: no event, transfer or call
\* of an earlier session does, with every client, failure and reuse.
THEOREM AlwaysFreshConnection == CESpec => []FreshConnection
<1>1. SessInv => FreshConnection
  BY DEF SessInv
<1> QED BY <1>1, SessAlways, PTL

-----------------------------------------------------------------------------
(***************************************************************************)
(* Live sessions, when NIE fails no Put of a connection that is up.  (With *)
(* such failures PutFails resets a session without marking it as closing,  *)
(* and the next event runs it again.)                                      *)
(***************************************************************************)
EstablishedIsLive == mSSLConfigured /\ mEstablished => ~mClosing
ReadIsLive == ctl = "read" => ~mClosing
OverIsClosing == mSSLConfigured /\ readsOver => mClosing
ConnectedIsUp == link = "connected" /\ ~Gone => nieUp

\* A Put that failed was one of a connection that is down.
ErrorIsDown == mSSLConfigured /\ mSendError # "noErr" => ~nieUp /\ written > 0
PutsAreWritten == niePuts \in Nat /\ written \in Nat /\ (niePuts > 0 => written > 0)

LiveInv ==
    /\ EstablishedIsLive /\ ReadIsLive /\ OverIsClosing
    /\ ConnectedIsUp /\ ErrorIsDown /\ PutsAreWritten

\* Steps that leave the sending half alone.
LEMMA LiveAlone ==
    ASSUME LiveInv, UNCHANGED <<niePuts, written, mSendError, nieUp>>,
           mSSLConfigured' => mSSLConfigured,
           EstablishedIsLive', ReadIsLive', OverIsClosing', ConnectedIsUp'
    PROVE  LiveInv'
BY DEF LiveInv, ErrorIsDown, PutsAreWritten

LEMMA LiveConfigure ==
    ASSUME LiveInv, SSLConfigure, ctl' # "read", UNCHANGED <<link, nieOps>>
   
    PROVE  EstablishedIsLive' /\ ReadIsLive' /\ OverIsClosing' /\ ErrorIsDown' /\ PutsAreWritten'
BY DEF SSLConfigure, Send!SendConfigure, Recv!RecvConfigure, LiveInv, EstablishedIsLive,
       ReadIsLive, OverIsClosing, ErrorIsDown, PutsAreWritten

\* mbedtls writes.
LEMMA LiveWrites ==
    ASSUME LiveInv, NEW n \in Nat \ {0}, Send!SSLSendCallback(n)
    PROVE  ErrorIsDown' /\ PutsAreWritten' /\ UNCHANGED <<mSSLConfigured, nieUp>>
<1>1. /\ written' = written + n /\ mSendError = "noErr"
      /\ UNCHANGED <<mSSLConfigured, mSendError, nieUp>>
  BY DEF Send!SSLSendCallback
<1>2. niePuts' = niePuts \/ niePuts' = niePuts + 1
  BY DEF Send!SSLSendCallback
<1> QED BY <1>1, <1>2 DEF LiveInv, ErrorIsDown, PutsAreWritten

LEMMA LiveGivesUp ==
    ASSUME LiveInv, WriteOrGiveUp(1)
    PROVE  ErrorIsDown' /\ PutsAreWritten' /\ UNCHANGED <<mSSLConfigured, nieUp>>
<1>1. CASE Send!SSLSendCallback(1)
  BY <1>1, LiveWrites
<1>2. CASE UNCHANGED sendVars
  BY <1>2 DEF sendVars, sendOnly, LiveInv, ErrorIsDown, PutsAreWritten
<1> QED BY <1>1, <1>2 DEF WriteOrGiveUp

\* The client is never told that a Put failed.
LEMMA NoPutFails ==
    ASSUME LinkInv, LiveInv PROVE ~PutFails
<1> SUFFICES ASSUME PutFails PROVE FALSE
  OBVIOUS
<1>1. /\ link = "connected" /\ ctl = "idle" /\ mSSLConfigured /\ mSendError # "noErr"
      /\ NoControl
  BY DEF PutFails, PutAllowed
<1>2. "close" \notin nieOps
  BY <1>1, NoneAsked DEF LinkInv, ClosingIsAlone
<1> QED BY <1>1, <1>2 DEF LiveInv, ErrorIsDown, ConnectedIsUp, Gone

LEMMA LiveTaskStep == ASSUME LinkInv, SessInv, LiveInv, Task PROVE LiveInv'
<1> USE DEF sendVars, recvVars, sendOnly, recvOnly, tlsVars, linkVars, mbedVars
<1>1. ASSUME NEW n \in 1 .. MaxChunk, HandshakeSends(n) PROVE LiveInv'
  <2>1. /\ UNCHANGED <<mEstablished, mClosing, ctl, readsOver, link, nieOps>>
        /\ Send!SSLSendCallback(n) /\ n \in Nat \ {0}
    BY <1>1, CEConstants DEF HandshakeSends
  <2>2. ErrorIsDown' /\ PutsAreWritten' /\ UNCHANGED <<mSSLConfigured, nieUp>>
    BY <2>1, LiveWrites
  <2> QED BY <2>1, <2>2
     DEF LiveInv, EstablishedIsLive, ReadIsLive, OverIsClosing, ConnectedIsUp, Gone
<1>2. ASSUME NEW n, HandshakeFetches(n) \/ ReadFetches(n) \/ ReadParses(n) \/ HandshakeParses
                    \/ HandshakeWaits \/ ReadWaits \/ SSLRecvCallback
      PROVE  LiveInv'
  <2>1. /\ UNCHANGED <<mEstablished, mClosing, link, nieOps, sendVars, readsOver>>
        /\ ctl' = ctl \/ (ctl' = "idle" /\ ctl # "closing")
    BY <1>2
       DEF HandshakeFetches, ReadFetches, ReadParses, HandshakeParses, HandshakeWaits,
           ReadWaits,
                SSLRecvCallback, OtherVars, InHandshake, InRead, Recv!FetchInput, Recv!FetchUsed,
                Recv!SSLRecvCallback, Recv!RecvRefuse, Recv!RecvAskNIE, Recv!RecvAskNothing,
                Recv!RecvAsked, Recv!RecvNoCopy, Recv!RecvCopy, Recv!mbedVars
  <2> QED BY <2>1, LiveAlone
     DEF LiveInv, EstablishedIsLive, ReadIsLive, OverIsClosing, ConnectedIsUp, Gone
<1>3. CASE HandshakeSucceeds
  <2>1. /\ UNCHANGED <<mClosing, nieOps, sendVars, readsOver>> /\ mEstablished' /\ ctl' = "idle"
        /\ ctl = "handshake" /\ hsLeft = 0
    BY <1>3 DEF HandshakeSucceeds, InHandshake
  <2>2. mSSLConfigured /\ ~mClosing
    BY <2>1 DEF LinkInv, CallNeedsSSL, SessInv, HandshakeIsLive
  <2>3. nieUp
    BY <2>1, <2>2 DEF SessInv, DownIsStuck
  <2> QED BY <2>1, <2>2, <2>3, LiveAlone
     DEF LiveInv, EstablishedIsLive, ReadIsLive, OverIsClosing, ConnectedIsUp, Gone
<1>4. CASE HandshakeFails
  <2>1. /\ UNCHANGED <<nieOps, sendVars>> /\ ~mEstablished' /\ mClosing' /\ ctl' = "idle"
        /\ link' = "failed"
    BY <1>4 DEF HandshakeFails
  <2> QED BY <2>1, LiveAlone
     DEF LiveInv, EstablishedIsLive, ReadIsLive, OverIsClosing, ConnectedIsUp, Gone
<1>5. CASE ReadData \/ ReadEOF
  <2>1. /\ UNCHANGED <<mEstablished, mClosing, link, nieOps, sendVars, readsOver>>
        /\ ctl = "read" /\ (ctl' = ctl \/ ctl' = "idle")
    BY <1>5 DEF ReadData, ReadEOF, ReadReturned, InRead, Recv!FetchUsed
  <2> QED BY <2>1, LiveAlone
     DEF LiveInv, EstablishedIsLive, ReadIsLive, OverIsClosing, ConnectedIsUp, Gone
<1>6. CASE ReadCloseNotify \/ ReadFails
  <2>1. ReadEnds /\ ctl = "read" /\ (WriteOrGiveUp(1) \/ UNCHANGED sendVars)
    BY <1>6 DEF ReadCloseNotify, ReadFails, InRead
  <2>2. ErrorIsDown' /\ PutsAreWritten' /\ UNCHANGED <<mSSLConfigured, nieUp>>
    BY <2>1, LiveGivesUp DEF LiveInv, ErrorIsDown, PutsAreWritten
  <2>3. UNCHANGED <<link, nieOps>> /\ ~mEstablished' /\ mClosing' /\ ctl' = "idle"
    BY <2>1 DEF ReadEnds
  <2> QED BY <2>1, <2>2, <2>3
     DEF LiveInv, EstablishedIsLive, ReadIsLive, OverIsClosing, ConnectedIsUp, Gone
<1>7. CASE HandleRequest
  <2>1. /\ UNCHANGED <<mEstablished, mClosing, link, nieOps, sendVars, readsOver>>
        /\ ctl = "idle"
        /\ ctl' = "read" => ~mClosing
        /\ ctl' # "closing"
    BY <1>7 DEF HandleRequest, Recv!HandleTLSEvent
  <2> QED BY <2>1, LiveAlone
     DEF LiveInv, EstablishedIsLive, ReadIsLive, OverIsClosing, ConnectedIsUp, Gone
<1>8. CASE NIECloses
  <2>1. /\ UNCHANGED <<mSSLConfigured, mEstablished, mClosing, link, nieOps, ctl, readsOver,
                       mSendError, written>>
        /\ ctl = "closing" /\ niePuts' = 0 /\ ~nieUp'
    BY <1>8 DEF NIECloses, OtherVars, Send!NIEDown, Recv!RecvNIEDown, Recv!mbedVars
  <2> QED BY <2>1
     DEF LiveInv, EstablishedIsLive, ReadIsLive, OverIsClosing, ConnectedIsUp, Gone,
                      ErrorIsDown, PutsAreWritten
<1>9. CASE CloseReturns
  <2>1. /\ UNCHANGED <<mEstablished, mClosing, link, nieOps, niePuts, written, mSendError,
                       nieUp>>
        /\ ctl = "closing" /\ ctl' = "idle" /\ ~mSSLConfigured'
    BY <1>9 DEF CloseReturns, Send!SendUnconfigure
  <2>2. link = "closed" \/ "close" \in nieOps
    BY <2>1 DEF LinkInv, ClosingIsAlone
  <2> QED BY <2>1, <2>2, LiveAlone
     DEF LiveInv, EstablishedIsLive, ReadIsLive, OverIsClosing, ConnectedIsUp, Gone
<1> QED BY <1>1, <1>2, <1>3, <1>4, <1>5, <1>6, <1>7, <1>8, <1>9 DEF Task, Handshake, Read

LEMMA LiveClientStep == ASSUME LinkInv, SessInv, LiveInv, Client PROVE LiveInv'
<1> USE DEF sendVars, recvVars, sendOnly, recvOnly, tlsVars, linkVars, mbedVars
<1>1. CASE OpenStart \/ ConnectStartFails \/ CloseStart \/ DeleteAndNew
           \/ RawPutStart \/ RawGetStart \/ \E r \in ForwardOps : ForwardStart(r)
  <2>1. /\ UNCHANGED <<mEstablished, mClosing, link, niePuts, written, mSendError, nieUp,
                       readsOver>>
        /\ ~mSSLConfigured' \/ UNCHANGED mSSLConfigured
        /\ ctl = "idle" /\ ctl' \in {"idle", "closing"}
    BY <1>1 DEF OpenStart, ConnectStartFails, ConnectAllowed, CloseStart, DeleteAndNew,
                RawPutStart, RawGetStart, ForwardStart, PutAllowed, GetAllowed
  <2>2. "close" \in nieOps => "close" \in nieOps' \/ ctl' = "closing"
    BY <1>1 DEF OpenStart, ConnectStartFails, CloseStart, DeleteAndNew,
                RawPutStart, RawGetStart, ForwardStart
  <2> QED BY <2>1, <2>2, LiveAlone
     DEF LiveInv, EstablishedIsLive, ReadIsLive, OverIsClosing, ConnectedIsUp, Gone
<1>2. CASE ConnectStart
  <2>1. link' = "open" /\ ctl' = "idle" /\ ctl = "idle"
    BY <1>2 DEF ConnectStart, ConnectAllowed
  <2>2. CASE mSSLEnabled
    <3>1. SSLConfigure
      BY <1>2, <2>2 DEF ConnectStart
    <3> QED BY <2>1, <3>1
       DEF SSLConfigure, Send!SendConfigure, Recv!RecvConfigure, LiveInv, EstablishedIsLive,
                       ReadIsLive, OverIsClosing, ErrorIsDown, PutsAreWritten, ConnectedIsUp
  <2>3. CASE ~mSSLEnabled
    BY <1>2, <2>1, <2>3, LiveAlone
       DEF ConnectStart, LiveInv, EstablishedIsLive, ReadIsLive, OverIsClosing,
           ConnectedIsUp
  <2> QED BY <2>2, <2>3
<1>3. CASE TerminateStart
  <2>1. /\ ctl = "idle" /\ ctl' = "idle" /\ UNCHANGED link
        /\ nieOps' = nieOps \cup {"terminate"}
    BY <1>3 DEF TerminateStart
  <2>2. CASE mSSLConfigured /\ mEstablished
    <3>1. WriteOrGiveUp(1) /\ ~mEstablished' /\ mClosing'
      BY <1>3, <2>2 DEF TerminateStart
    <3> QED BY <2>1, <3>1, LiveGivesUp
       DEF LiveInv, EstablishedIsLive, ReadIsLive, OverIsClosing, ConnectedIsUp, Gone
  <2>3. CASE ~(mSSLConfigured /\ mEstablished)
    BY <1>3, <2>1, <2>3, LiveAlone
       DEF TerminateStart, LiveInv, EstablishedIsLive, ReadIsLive, OverIsClosing,
           ConnectedIsUp, Gone
  <2> QED BY <2>2, <2>3
<1>4. ASSUME NEW enabled \in BOOLEAN, EnableOption(enabled) PROVE LiveInv'
  <2>1. ctl = "idle" /\ UNCHANGED <<link, nieOps>>
    BY <1>4 DEF EnableOption
  <2>2. CASE SSLConfigure /\ ctl' = "handshake"
    <3>1. UNCHANGED nieUp
      BY <2>2, Configured
    <3> QED BY <2>1, <2>2, <3>1, LiveConfigure DEF LiveInv, ConnectedIsUp, Gone
  <2>3. CASE UNCHANGED <<mSSLConfigured, nieUp, sendOnly, recvOnly, mEstablished, mClosing,
                         ctl>>
    BY <2>1, <2>3, LiveAlone
       DEF LiveInv, EstablishedIsLive, ReadIsLive, OverIsClosing, ConnectedIsUp, Gone
  <2> QED BY <1>4, <2>2, <2>3 DEF EnableOption
<1>5. ASSUME NEW size, NEW threshold, GetBytesStart(size, threshold) PROVE LiveInv'
  <2>1. /\ UNCHANGED <<mEstablished, mClosing, link, nieOps, sendVars, readsOver>>
        /\ ctl = "idle"
        /\ mSSLConfigured /\ mEstablished /\ ctl' = "read"
    BY <1>5 DEF GetBytesStart, GetAllowed
  <2> QED BY <2>1, LiveAlone
     DEF LiveInv, EstablishedIsLive, ReadIsLive, OverIsClosing, ConnectedIsUp, Gone
<1>6. ASSUME NEW n \in 1 .. MaxChunk, PutBytesStart(n) PROVE LiveInv'
  <2>1. /\ UNCHANGED <<mEstablished, mClosing, ctl, readsOver, link, nieOps>>
        /\ Send!SSLSendCallback(n) /\ n \in Nat \ {0}
    BY <1>6, CEConstants DEF PutBytesStart
  <2>2. ErrorIsDown' /\ PutsAreWritten' /\ UNCHANGED <<mSSLConfigured, nieUp>>
    BY <2>1, LiveWrites
  <2> QED BY <2>1, <2>2
     DEF LiveInv, EstablishedIsLive, ReadIsLive, OverIsClosing, ConnectedIsUp, Gone
<1>7. CASE UNCHANGED vars
  BY <1>7, LiveAlone
     DEF vars, LiveInv, EstablishedIsLive, ReadIsLive, OverIsClosing, ConnectedIsUp, Gone
<1> QED BY <1>1, <1>2, <1>3, <1>4, <1>5, <1>6, <1>7, NoPutFails
        DEF Client, ClientDone, PutRefused, GetRefused, KillRefused

LEMMA LiveNIEStep ==
    ASSUME "put" \notin Faults, LinkInv, SessInv, LiveInv,
           ControlCB \/ PutCompleteCB \/ GetCompleteCB \/ NIETakes \/ Peer
           \/ \E r \in {"put", "get"} : RawCompleteCB(r)
    PROVE  LiveInv'
<1> USE DEF sendVars, recvVars, sendOnly, recvOnly, tlsVars, linkVars, mbedVars
<1>1. CASE OpenCompleteCB \/ ConnectCompleteCBError \/ CloseCompleteCB
           \/ (\E r \in ForwardOps : ForwardCompleteCB(r))
           \/ \E r \in {"put", "get"} : RawCompleteCB(r)
  <2>1. /\ UNCHANGED <<mEstablished, mClosing, sendVars, readsOver, ctl>>
        /\ link' \in {"open", "closed"} \/ (UNCHANGED link /\ ("close" \in nieOps => "close" \in nieOps'))
    BY <1>1, CEConstants
       DEF OpenCompleteCB, ConnectCompleteCBError, CloseCompleteCB, ForwardCompleteCB,
           RawCompleteCB
  <2> QED BY <2>1, LiveAlone
     DEF LiveInv, EstablishedIsLive, ReadIsLive, OverIsClosing, ConnectedIsUp, Gone
<1>2. CASE ConnectCompleteCB
  <2>1. /\ UNCHANGED <<mSSLConfigured, mEstablished, mClosing, readsOver, mSendError,
                       niePuts, written>>
        /\ nieUp' /\ ctl = "idle" /\ ctl' \in {"idle", "handshake"}
        /\ mSSLConfigured => written = 0
    BY <1>2 DEF ConnectCompleteCB, Send!NIEUp, Recv!RecvNIEUp, Recv!mbedVars
  <2> QED BY <2>1
     DEF LiveInv, EstablishedIsLive, ReadIsLive, OverIsClosing, ConnectedIsUp, ErrorIsDown,
         PutsAreWritten
<1>3. CASE TerminateCompleteCB
  <2>1. /\ UNCHANGED <<mSSLConfigured, mEstablished, mClosing, readsOver, mSendError,
                       written, ctl>>
        /\ ~nieUp' /\ ctl = "idle" /\ niePuts' = 0 /\ link' = "open"
    BY <1>3 DEF TerminateCompleteCB, Send!NIEDown, Recv!RecvNIEDown, Recv!mbedVars
  <2> QED BY <2>1
     DEF LiveInv, EstablishedIsLive, ReadIsLive, OverIsClosing, ConnectedIsUp, ErrorIsDown,
         PutsAreWritten
<1>4. CASE PutCompleteCB
  <2>1. /\ UNCHANGED <<mSSLConfigured, mEstablished, mClosing, readsOver, link, nieOps, ctl,
                       written, nieUp>>
        /\ niePuts > 0 /\ (niePuts' = niePuts \/ niePuts' = niePuts - 1)
        /\ UNCHANGED mSendError \/ ~nieUp
    BY <1>4
       DEF PutCompleteCB, OtherVars, Send!PutCompleteCB, Send!PutFailed, Send!PutNextBatch,
           Send!PutRest
  <2> QED BY <2>1
     DEF LiveInv, EstablishedIsLive, ReadIsLive, OverIsClosing, ConnectedIsUp, Gone,
         ErrorIsDown, PutsAreWritten
<1>5. CASE GetCompleteCB \/ Peer
  <2>1. UNCHANGED <<mEstablished, mClosing, link, nieOps, sendVars, readsOver, ctl>>
    BY <1>5 DEF GetCompleteCB, Peer, OtherVars, Recv!GetCompleteData, Recv!GetCompleteEOF,
                Recv!GetCompleteError, Recv!GetAnswered, Recv!PeerSends, Recv!PeerCloses, Recv!mbedVars
  <2> QED BY <2>1, LiveAlone
     DEF LiveInv, EstablishedIsLive, ReadIsLive, OverIsClosing, ConnectedIsUp, Gone
<1>6. CASE NIETakes
  <2>1. UNCHANGED <<mSSLConfigured, mEstablished, mClosing, link, nieOps, readsOver, ctl,
                    niePuts, written,
                    mSendError, nieUp>>
    BY <1>6 DEF NIETakes, OtherVars, Send!NIETakes
  <2> QED BY <2>1, LiveAlone
     DEF LiveInv, EstablishedIsLive, ReadIsLive, OverIsClosing, ConnectedIsUp, Gone
<1> QED BY <1>1, <1>2, <1>3, <1>4, <1>5, <1>6 DEF ControlCB

LEMMA LiveAlways == ASSUME "put" \notin Faults PROVE CESpec => []LiveInv
<1>1. CEInit => LiveInv
  BY DEF CEInit, Send!SendInit, Recv!RecvInit, LiveInv, EstablishedIsLive, ReadIsLive,
         OverIsClosing, ConnectedIsUp, ErrorIsDown, PutsAreWritten
<1>2. LinkInv /\ SessInv /\ LiveInv /\ [CENext]_vars => LiveInv'
  <2> SUFFICES ASSUME LinkInv, SessInv, LiveInv, [CENext]_vars PROVE LiveInv'
    OBVIOUS
  <2>1. CASE UNCHANGED vars
    BY <2>1, LiveAlone
       DEF vars, sendOnly, recvOnly, tlsVars, linkVars, LiveInv, EstablishedIsLive,
           ReadIsLive,
          OverIsClosing, ConnectedIsUp, Gone
  <2>2. CASE CENext
    BY <2>2, LiveTaskStep, LiveClientStep, LiveNIEStep DEF CENext
  <2> QED BY <2>1, <2>2
<1> QED BY <1>1, <1>2, SessAlways, LinkInvariant, PTL DEF CESpec

\* DoSSLHandshake and DoSSLRead run, from a request, a completion or a TLS
\* event, only on a session that was not reset and is not closing, as long as
\* NIE fails no Put of a connection that is up.
THEOREM AlwaysRunsOnLiveSession ==
    ASSUME "put" \notin Faults
    PROVE  CESpec => []RunsOnLiveSession
<1>1. LinkInv /\ SessInv /\ LiveInv => RunsOnLiveSession
  BY DEF LinkInv, CallNeedsSSL, SessInv, HandshakeIsLive, LiveInv, ReadIsLive,
         OverIsClosing,
         RunsOnLiveSession
<1> QED BY <1>1, LiveAlways, SessAlways, LinkInvariant, PTL

-----------------------------------------------------------------------------
(***************************************************************************)
(* Requests and answers, for every client and whatever fails.  A request   *)
(* that is not a Connect or an upgrade is answered at most once, and is    *)
(* not forgotten: pending is what NIE holds and, for a Get on TLS, what    *)
(* mbedtls reads for.                                                      *)
(***************************************************************************)
\* A failed Put has reset the session without marking it as closing: mbedtls
\* wants to send a flight first, and cannot.
GivenUp == readsOver /\ hsFlight /\ mSendError # "noErr"

\* A handshake or a read that waits for its peer.
Waits == ctl = "idle" /\ recvPc = "out" /\ fetchRet = "wantRead"

\* There is a Get to be served by mbedtls; it is being served; it was given up.
ReadWanted == mSSLConfigured /\ ctl # "closing" /\ mEstablished /\ mSSLReadSize > 0
ReadUnderWay == ReadWanted /\ (ctl = "read" \/ Waits)
ReadLost == mSSLConfigured /\ ~mEstablished /\ GivenUp

\* The client waits for what NIE holds, and for nothing else: true of every
\* request that does not end with a handshake.
HeldExactly ==
    /\ nieOps \subseteq Control \ {"option"}
    /\ \A r \in Control \ {"connect", "option"} : pending[r] = IF r \in nieOps THEN 1 ELSE 0

RawExactly ==
    /\ nieRaw \subseteq {"put", "get"}
    /\ pending["put"] = IF "put" \in nieRaw THEN 1 ELSE 0

\* A Get is answered at most once ...
GetAsked ==
    /\ pending["get"] \in {0, 1}
    /\ "get" \in nieRaw \/ ReadWanted => pending["get"] = 1
    /\ ctl = "read" => ReadWanted

\* ... and not forgotten: NIE holds it, a disconnect is about to end it,
\* mbedtls reads for it or waits, or a failed Put reset its session.
GetServed ==
    pending["get"] = 1 =>
        /\ link \in {"connected", "failed"} /\ "close" \notin nieOps
        /\ "get" \in nieRaw \/ "terminate" \in nieOps \/ ReadUnderWay \/ ReadLost

ReadsBelong ==
    /\ mSSLConfigured /\ mEstablished => ~mClosing
    /\ "terminate" \in nieOps /\ mSSLConfigured => ~mEstablished
    /\ mSSLConfigured /\ ~mClosing /\ ~mEstablished => mSSLReadSize = 0 \/ GivenUp

AskInv == HeldExactly /\ RawExactly /\ GetAsked /\ GetServed /\ ReadsBelong

LEMMA KnownRequests ==
    /\ {"open", "connect", "terminate", "close", "option"} \cup ForwardOps \subseteq Control
    /\ {"put", "get"} \subseteq Requests /\ Control \subseteq Requests
    /\ "put" \notin Control /\ "get" \notin Control
    /\ Requests = Control \cup {"put", "get"}
BY CEConstants DEF Control, Requests

\* Steps without a request or an answer that leave the session alone.
sessionState == <<mSSLConfigured, mEstablished, mClosing, mSSLReadSize>>

LEMMA AskFrame ==
    ASSUME AskInv, UNCHANGED <<pending, nieOps, nieRaw, link, ctl>>, UNCHANGED sessionState,
           GivenUp => GivenUp', Waits => Waits'
    PROVE  AskInv'
BY DEF AskInv, sessionState, HeldExactly, RawExactly, GetAsked, GetServed, ReadsBelong,
       ReadWanted, ReadUnderWay, ReadLost

\* ... and, with them, what the halves are doing.
haltState == <<ctl, recvPc, fetchRet, readsOver, hsFlight, mSendError>>

\* The part of AskInv about transfers, when only control requests change.
LEMMA AskReads ==
    ASSUME AskInv, UNCHANGED sessionState, UNCHANGED haltState, UNCHANGED nieRaw,
           pending'["put"] = pending["put"], pending'["get"] = pending["get"],
           pending["get"] = 1 => link' \in {"connected", "failed"} /\ "close" \notin nieOps',
           pending["get"] = 1 /\ "terminate" \in nieOps => "terminate" \in nieOps',
           "terminate" \in nieOps' /\ mSSLConfigured => ~mEstablished
    PROVE  RawExactly' /\ GetAsked' /\ GetServed' /\ ReadsBelong'
BY DEF AskInv, sessionState, haltState, RawExactly, GetAsked, GetServed, ReadsBelong,
       ReadWanted, ReadUnderWay, ReadLost, GivenUp, Waits

\* A control request is given to NIE when it has none, or answered.
LEMMA AskControl ==
    ASSUME LinkInv, AskInv, NEW r \in Control, r # "option",
           \/ Asked(r) /\ NoControl /\ nieOps' = nieOps \cup {r}
           \/ r \in nieOps /\ Completed(r) /\ nieOps' = nieOps \ {r}
    PROVE  /\ HeldExactly'
           /\ pending'["put"] = pending["put"] /\ pending'["get"] = pending["get"]
<1>1. r \in Requests /\ pending \in [Requests -> Int]
  BY KnownRequests DEF LinkInv
<1>2. /\ \A q \in Requests \ {r} : pending'[q] = pending[q]
      /\ Asked(r) => pending'[r] = pending[r] + 1
      /\ Completed(r) => pending'[r] = pending[r] - 1
  BY <1>1, OneRequest
<1>3. pending'["put"] = pending["put"] /\ pending'["get"] = pending["get"]
  BY <1>2, KnownRequests
<1>4. \A q \in Control \ {"connect", "option", r} : pending'[q] = pending[q]
  BY <1>2, KnownRequests
<1>5. CASE Asked(r) /\ NoControl /\ nieOps' = nieOps \cup {r}
  <2>1. pending[r] = 0
    BY <1>5 DEF NoControl
  <2>2. r # "connect" => pending'[r] = 1
    BY <1>2, <1>5, <2>1
  <2> QED BY <1>3, <1>4, <1>5, <2>2 DEF AskInv, HeldExactly
<1>6. CASE r \in nieOps /\ Completed(r) /\ nieOps' = nieOps \ {r}
  <2>1. r # "connect" => pending[r] = 1
    BY <1>6 DEF AskInv, HeldExactly
  <2>2. r # "connect" => pending'[r] = 0
    BY <1>2, <1>6, <2>1
  <2> QED BY <1>3, <1>4, <1>6, <2>2 DEF AskInv, HeldExactly
<1> QED BY <1>5, <1>6

\* A handshake's request, or a Put or Get, is made or answered.
LEMMA AskOther ==
    ASSUME LinkInv, AskInv, NEW r \in {"connect", "option", "put", "get"},
           Asked(r) \/ Completed(r), UNCHANGED nieOps
    PROVE  /\ HeldExactly' /\ \A q \in Requests \ {r} : pending'[q] = pending[q]
           /\ Asked(r) => pending'[r] = pending[r] + 1
           /\ Completed(r) => pending'[r] = pending[r] - 1
<1>1. r \in Requests /\ pending \in [Requests -> Int]
  BY KnownRequests DEF LinkInv
<1>2. /\ \A q \in Requests \ {r} : pending'[q] = pending[q]
      /\ Asked(r) => pending'[r] = pending[r] + 1
      /\ Completed(r) => pending'[r] = pending[r] - 1
  BY <1>1, OneRequest
<1>3. \A q \in Control \ {"connect", "option"} : pending'[q] = pending[q]
  BY <1>2, KnownRequests
<1> QED BY <1>2, <1>3 DEF AskInv, HeldExactly

\* When no Get waits there is none to serve.
LEMMA NoGetWaits ==
    ASSUME AskInv, link \notin {"connected", "failed"} \/ "close" \in nieOps
    PROVE  pending["get"] = 0 /\ "get" \notin nieRaw /\ ~ReadWanted
BY DEF AskInv, GetAsked, GetServed

LEMMA NoGetAfter ==
    ASSUME pending'["get"] = 0, "get" \notin nieRaw', ~ReadWanted', ctl' # "read"
    PROVE  GetAsked' /\ GetServed'
BY DEF GetAsked, GetServed

\* A handshake or a read that goes on, and what NIE and the peer do.
LEMMA AskInnerSteps ==
    ASSUME SessInv, AskInv,
           \/ \E n : \/ HandshakeSends(n) \/ HandshakeFetches(n) \/ ReadFetches(n)
                     \/ ReadParses(n) \/ PutBytesStart(n)
           \/ HandshakeParses \/ SSLRecvCallback \/ NIECloses
           \/ PutCompleteCB \/ GetCompleteCB \/ NIETakes \/ Peer \/ DeleteAndNew
           \/ UNCHANGED vars
    PROVE  AskInv'
<1> USE DEF sendVars, recvVars, sendOnly, recvOnly, tlsVars, readVars, linkVars, mbedVars,
            OtherVars, sessionState
<1>0. readsOver => fetchRet = "none"
  BY DEF SessInv, OverIsOut
<1>1. ASSUME NEW n, HandshakeSends(n) \/ PutBytesStart(n) PROVE AskInv'
  <2>1. /\ UNCHANGED <<pending, nieOps, nieRaw, link, ctl>> /\ UNCHANGED sessionState
        /\ mSendError = "noErr" /\ UNCHANGED recvVars
    BY <1>1 DEF HandshakeSends, PutBytesStart, Send!SSLSendCallback
  <2> QED BY <2>1, AskFrame DEF GivenUp, Waits
<1>2. ASSUME NEW n, HandshakeFetches(n) \/ ReadFetches(n) \/ ReadParses(n) \/ HandshakeParses
      PROVE AskInv'
  <2>1. /\ UNCHANGED <<pending, nieOps, nieRaw, link, ctl>> /\ UNCHANGED sessionState
        /\ ctl # "idle" /\ ~readsOver
    BY <1>0, <1>2
       DEF HandshakeFetches, ReadFetches, ReadParses, HandshakeParses, InHandshake, InRead,
           Recv!FetchInput, Recv!FetchUsed, Recv!ceVars
  <2> QED BY <2>1, AskFrame DEF GivenUp, Waits
<1>3. CASE SSLRecvCallback
  <2>1. /\ UNCHANGED <<pending, nieOps, nieRaw, link, ctl>> /\ UNCHANGED sessionState
        /\ UNCHANGED <<readsOver, hsFlight, mSendError>> /\ recvPc # "out"
    BY <1>3, RecvSteps
       DEF SSLRecvCallback, Recv!SSLRecvCallback, Recv!RecvRefuse, Recv!RecvAskNIE,
           Recv!RecvAskNothing, Recv!RecvAsked, Recv!RecvNoCopy, Recv!RecvCopy, Recv!mbedVars
  <2> QED BY <2>1, AskFrame DEF GivenUp, Waits
<1>4. CASE NIECloses \/ GetCompleteCB \/ NIETakes \/ Peer
  <2>1. /\ UNCHANGED <<pending, nieOps, nieRaw, link, ctl>> /\ UNCHANGED sessionState
        /\ UNCHANGED <<readsOver, hsFlight, mSendError, recvPc, fetchRet>>
    BY <1>4 DEF NIECloses, GetCompleteCB, NIETakes, Peer, Send!NIEDown, Recv!RecvNIEDown,
             Send!NIETakes, Recv!PeerSends, Recv!PeerCloses, Recv!GetCompleteData,
             Recv!GetCompleteEOF, Recv!GetCompleteError, Recv!GetAnswered, Recv!ceVars,
             Recv!mbedVars
  <2> QED BY <2>1, AskFrame DEF GivenUp, Waits
<1>5. CASE PutCompleteCB
  <2>1. /\ UNCHANGED <<pending, nieOps, nieRaw, link, ctl>> /\ UNCHANGED sessionState
        /\ UNCHANGED <<readsOver, hsFlight, recvPc, fetchRet>>
        /\ mSendError' = mSendError \/ mSendError' = "error"
    BY <1>5 DEF PutCompleteCB, Send!PutCompleteCB, Send!PutFailed, Send!PutNextBatch,
                Send!PutRest
  <2> QED BY <2>1, AskFrame DEF GivenUp, Waits
<1>6. CASE DeleteAndNew \/ UNCHANGED vars
  <2>1. /\ UNCHANGED <<pending, nieOps, nieRaw, link, ctl>> /\ UNCHANGED sessionState
        /\ UNCHANGED <<readsOver, hsFlight, mSendError, recvPc, fetchRet>>
    BY <1>6 DEF DeleteAndNew, vars
  <2> QED BY <2>1, AskFrame DEF GivenUp, Waits
<1> QED BY <1>1, <1>2, <1>3, <1>4, <1>5, <1>6

\* A handshake or a read that waits, and the TLS event that wakes it.
LEMMA AskWaitSteps ==
    ASSUME LinkInv, AskInv, HandshakeWaits \/ ReadWaits \/ HandleRequest
    PROVE  AskInv'
<1> USE DEF sendVars, recvVars, sendOnly, recvOnly, tlsVars, readVars, linkVars, mbedVars,
            sessionState
<1>1. CASE HandshakeWaits \/ ReadWaits
  <2>1. /\ UNCHANGED <<pending, nieOps, nieRaw, link>> /\ UNCHANGED sessionState
        /\ UNCHANGED <<readsOver, hsFlight, mSendError, recvPc, fetchRet>>
        /\ ctl \in {"handshake", "read"} /\ ctl' = "idle"
        /\ recvPc = "out" /\ fetchRet = "wantRead"
    BY <1>1 DEF HandshakeWaits, ReadWaits, InHandshake, InRead
  <2> QED BY <2>1 DEF AskInv, HeldExactly, RawExactly, GetAsked, GetServed, ReadsBelong,
                      ReadWanted, ReadUnderWay, ReadLost, GivenUp, Waits
<1>2. CASE HandleRequest
  <2>1. /\ UNCHANGED <<pending, nieOps, nieRaw, link>> /\ UNCHANGED sessionState
        /\ UNCHANGED <<readsOver, hsFlight, mSendError>>
        /\ ctl = "idle" /\ mSSLConfigured
        /\ ctl' = IF mClosing THEN "idle"
              ELSE IF ~mEstablished THEN "handshake"
              ELSE IF mSSLReadSize > 0 THEN "read"
              ELSE "idle"
    BY <1>2 DEF HandleRequest, Recv!HandleTLSEvent, LinkInv, NothingDangling
  <2>2. HeldExactly' /\ RawExactly' /\ ReadsBelong'
    BY <2>1 DEF AskInv, HeldExactly, RawExactly, ReadsBelong, GivenUp
  <2>3. ReadWanted => ctl' = "read"
    BY <2>1 DEF ReadWanted, AskInv, ReadsBelong
  <2>4. GetAsked' /\ GetServed'
    BY <2>1, <2>3 DEF AskInv, GetAsked, GetServed, ReadWanted, ReadUnderWay, ReadLost, GivenUp
  <2> QED BY <2>2, <2>4 DEF AskInv
<1> QED BY <1>1, <1>2

\* The end of a handshake: it answers a Connect or an option, rightly or not,
\* and no Get.
LEMMA AskHandshakeEnds ==
    ASSUME LinkInv, SessInv, AskInv, HandshakeSucceeds \/ HandshakeFails
    PROVE  AskInv'
<1> USE DEF sendVars, recvVars, sendOnly, recvOnly, tlsVars, readVars, linkVars, mbedVars
<1>1. /\ ctl = "handshake" /\ ctl' = "idle" /\ mSSLConfigured /\ ~mClosing /\ ~mEstablished
      /\ nieRaw = {} /\ UNCHANGED <<nieOps, nieRaw, mSSLReadSize>>
      /\ Completed("connect") \/ Completed("option")
  BY DEF HandshakeSucceeds, HandshakeFails, InHandshake, SessInv, HandshakeIsLive, LinkInv,
         CallNeedsSSL, RawIsClear
<1>2. /\ HeldExactly' /\ pending'["put"] = pending["put"] /\ pending'["get"] = pending["get"]
  BY <1>1, AskOther, KnownRequests
<1>3. UNCHANGED mSSLConfigured
  BY RecvSteps DEF HandshakeSucceeds, HandshakeFails, SessionReset
<1>4. RawExactly'
  BY <1>1, <1>2 DEF AskInv, RawExactly
<1>5. CASE HandshakeSucceeds
  <2>1. hsLeft = 0 /\ ~hsFlight /\ mEstablished' /\ UNCHANGED mClosing
    BY <1>5 DEF HandshakeSucceeds
  <2>2. "terminate" \notin nieOps
    <3>1. hsLeft = 0 /\ pending["connect"] \in Int /\ pending["option"] \in Int
      BY <2>1, KnownRequests DEF LinkInv
    <3>2. Busy
      BY <1>1, <3>1 DEF SessInv, SessionHasOwner, Quiet, Established
    <3>3. EndingIsAlone
      BY DEF SessInv
    <3> QED BY <3>1, <3>2, <3>3 DEF Busy, EndingIsAlone
  <2>3. mSSLReadSize = 0
    BY <1>1, <2>1 DEF AskInv, ReadsBelong, GivenUp
  <2>4. pending["get"] = 0
    BY <1>1, <2>1, <2>2 DEF AskInv, GetAsked, GetServed, ReadUnderWay, ReadWanted, ReadLost, GivenUp
  <2>5. GetAsked' /\ GetServed'
    BY <1>1, <1>2, <2>3, <2>4, NoGetAfter DEF ReadWanted
  <2>6. ReadsBelong'
    BY <1>1, <1>3, <2>1, <2>2, <2>3 DEF ReadsBelong
  <2> QED BY <1>2, <1>4, <2>5, <2>6 DEF AskInv
<1>6. CASE HandshakeFails
  <2>1. /\ mClosing' /\ ~mEstablished' /\ link' = "failed" /\ readsOver' /\ hsFlight'
        /\ UNCHANGED mSendError
    BY <1>6 DEF HandshakeFails, SessionReset, Recv!ReadsEnd
  <2>2. GetAsked' /\ GetServed'
    BY <1>1, <1>2, <1>3, <2>1
       DEF AskInv, GetAsked, GetServed, ReadUnderWay, ReadWanted, ReadLost, GivenUp, Waits
  <2>3. ReadsBelong'
    BY <1>1, <2>1 DEF ReadsBelong
  <2> QED BY <1>2, <1>4, <2>2, <2>3 DEF AskInv
<1> QED BY <1>5, <1>6

\* A read that goes on or ends answers the Get it is for.
LEMMA AskReadSteps ==
    ASSUME LinkInv, AskInv, ReadData \/ ReadEOF \/ ReadCloseNotify \/ ReadFails
    PROVE  AskInv'
<1> USE DEF sendVars, recvVars, sendOnly, recvOnly, tlsVars, readVars, linkVars, mbedVars
<1>1. /\ ctl = "read" /\ pending["get"] = 1 /\ ReadWanted /\ ~mClosing /\ nieRaw = {}
      /\ "terminate" \notin nieOps
  BY DEF ReadData, ReadEOF, ReadCloseNotify, ReadFails, InRead, AskInv, GetAsked, ReadsBelong,
         ReadWanted, LinkInv, RawIsClear
<1>2. UNCHANGED <<mSSLConfigured, nieOps, nieRaw, link>>
  BY RecvSteps, SendSteps
     DEF ReadData, ReadEOF, ReadCloseNotify, ReadFails, ReadReturned, ReadEnds, SessionReset,
         WriteOrGiveUp
<1>3. ASSUME Completed("get"), ctl' = "idle",
             \/ mClosing' /\ ~mEstablished'
             \/ mSSLReadSize' = 0 /\ UNCHANGED <<mClosing, mEstablished>>
      PROVE  AskInv'
  <2>1. HeldExactly' /\ pending'["put"] = pending["put"] /\ pending'["get"] = 0
    BY <1>1, <1>2, <1>3, AskOther, KnownRequests
  <2>2. RawExactly'
    BY <1>2, <2>1 DEF AskInv, RawExactly
  <2>3. ~mEstablished' \/ mSSLReadSize' = 0
    BY <1>3
  <2>4. ~ReadWanted'
    BY <2>3 DEF ReadWanted
  <2>5. GetAsked' /\ GetServed'
    BY <1>1, <1>2, <1>3, <2>1, <2>4, NoGetAfter
  <2>6. ReadsBelong'
    BY <1>1, <1>2, <1>3 DEF ReadsBelong
  <2> QED BY <2>1, <2>2, <2>5, <2>6 DEF AskInv
<1>4. CASE ReadData \/ ReadEOF
  <2>1. PICK r : ReadReturned(r)
    BY <1>4 DEF ReadData, ReadEOF
  <2>2. CASE mSSLReadCount + r >= getThreshold
    BY <1>3, <2>1, <2>2 DEF ReadReturned
  <2>3. CASE ~(mSSLReadCount + r >= getThreshold)
    <3>1. UNCHANGED <<pending, ctl>> /\ UNCHANGED sessionState
      BY <1>2, <2>1, <2>3 DEF ReadReturned, sessionState
    <3>2. UNCHANGED <<readsOver, hsFlight, mSendError>>
      BY <1>4, <2>1 DEF ReadData, ReadEOF, ReadReturned, Recv!FetchUsed
    <3> QED BY <1>1, <1>2, <3>1, <3>2, AskFrame DEF GivenUp, Waits
  <2> QED BY <2>2, <2>3
<1>5. CASE ReadCloseNotify \/ ReadFails
  BY <1>3, <1>5 DEF ReadCloseNotify, ReadFails, ReadEnds
<1> QED BY <1>4, <1>5

\* Requests that NIE is given.
LEMMA AskControlSteps ==
    ASSUME LinkInv, SessInv, AskInv,
           \/ OpenStart \/ ConnectStart \/ ConnectStartFails \/ TerminateStart
           \/ \E r \in ForwardOps : ForwardStart(r)
    PROVE  AskInv'
<1> USE DEF sendVars, recvVars, sendOnly, recvOnly, tlsVars, readVars, linkVars, mbedVars
<1>1. CASE OpenStart
  <2>1. /\ ctl = "idle" /\ link = "closed" /\ NoControl /\ Asked("open")
        /\ nieOps' = nieOps \cup {"open"} /\ ~mSSLConfigured' /\ UNCHANGED <<ctl, link, nieRaw>>
    BY <1>1 DEF OpenStart
  <2>2. HeldExactly' /\ pending'["put"] = pending["put"] /\ pending'["get"] = pending["get"]
    BY <2>1, AskControl, KnownRequests
  <2>3. pending["get"] = 0 /\ "get" \notin nieRaw
    BY <2>1, NoGetWaits
  <2>4. ~ReadWanted'
    BY <2>1 DEF ReadWanted
  <2>5. GetAsked' /\ GetServed'
    BY <2>1, <2>2, <2>3, <2>4, NoGetAfter
  <2>6. RawExactly' /\ ReadsBelong'
    BY <2>1, <2>2 DEF AskInv, RawExactly, ReadsBelong
  <2> QED BY <2>2, <2>5, <2>6 DEF AskInv
<1>2. CASE ConnectStart
  <2>1. /\ ctl = "idle" /\ link = "open" /\ NoControl /\ Asked("connect")
        /\ nieOps' = nieOps \cup {"connect"} /\ UNCHANGED <<ctl, link, nieRaw>>
    BY <1>2 DEF ConnectStart, ConnectAllowed
  <2>2. HeldExactly' /\ pending'["put"] = pending["put"] /\ pending'["get"] = pending["get"]
    BY <2>1, AskControl, KnownRequests
  <2>3. pending["get"] = 0 /\ "get" \notin nieRaw /\ ~ReadWanted
    BY <2>1, NoGetWaits
  <2>4. RawExactly'
    BY <2>1, <2>2 DEF AskInv, RawExactly
  <2>5. ~ReadWanted' /\ ReadsBelong'
    <3>1. CASE mSSLEnabled
      <4>1. ~mEstablished' /\ mSSLReadSize' = 0
        BY <1>2, <3>1 DEF ConnectStart, SSLConfigure
      <4> QED BY <4>1 DEF ReadWanted, ReadsBelong
    <3>2. CASE ~mSSLEnabled
      <4>1. UNCHANGED sessionState /\ UNCHANGED haltState
        BY <1>2, <3>2 DEF ConnectStart, sessionState, haltState
      <4>2. ~ReadWanted'
        BY <2>3, <4>1 DEF ReadWanted, sessionState, haltState
      <4>3. ReadsBelong'
        BY <2>1, <4>1 DEF ReadsBelong, AskInv, GivenUp, sessionState, haltState
      <4> QED BY <4>2, <4>3
    <3> QED BY <3>1, <3>2
  <2>6. GetAsked' /\ GetServed'
    BY <2>1, <2>2, <2>3, <2>5, NoGetAfter
  <2> QED BY <2>2, <2>4, <2>5, <2>6 DEF AskInv
<1>3. CASE ConnectStartFails
  <2>1. /\ UNCHANGED <<pending, nieOps, nieRaw, link, ctl>> /\ UNCHANGED sessionState
        /\ UNCHANGED haltState
    BY <1>3 DEF ConnectStartFails, sessionState, haltState
  <2> QED BY <2>1, AskFrame DEF GivenUp, Waits, haltState
<1>4. CASE TerminateStart
  <2>1. /\ ctl = "idle" /\ link = "connected" /\ NoControl /\ Asked("terminate")
        /\ nieOps' = nieOps \cup {"terminate"} /\ UNCHANGED <<ctl, link, nieRaw, mSSLReadSize>>
    BY <1>4 DEF TerminateStart
  <2>2. HeldExactly' /\ pending'["put"] = pending["put"] /\ pending'["get"] = pending["get"]
    BY <2>1, AskControl, KnownRequests
  <2>3. RawExactly'
    BY <2>1, <2>2 DEF AskInv, RawExactly
  <2>4. UNCHANGED mSSLConfigured
    BY <1>4, SendSteps, RecvSteps DEF TerminateStart, WriteOrGiveUp
  <2>5. CASE mSSLConfigured /\ mEstablished
    <3>1. ~mEstablished' /\ mClosing'
      BY <1>4, <2>5 DEF TerminateStart
    <3>2. ReadsBelong'
      BY <3>1 DEF ReadsBelong
    <3>3. GetAsked'
      BY <2>1, <2>2, <2>4, <3>1 DEF AskInv, GetAsked, ReadWanted
    <3>4. GetServed'
      BY <2>1, <2>2 DEF AskInv, GetServed
    <3> QED BY <2>2, <2>3, <3>2, <3>3, <3>4 DEF AskInv
  <2>6. CASE ~(mSSLConfigured /\ mEstablished)
    <3>1. UNCHANGED sessionState /\ UNCHANGED haltState
      BY <1>4, <2>6 DEF TerminateStart, sessionState, haltState
    <3>2. pending["get"] = 1 => link' \in {"connected", "failed"} /\ "close" \notin nieOps'
      BY <2>1 DEF AskInv, GetServed
    <3> QED BY <2>1, <2>2, <2>6, <3>1, <3>2, AskReads DEF AskInv
  <2> QED BY <2>5, <2>6
<1>5. ASSUME NEW r \in ForwardOps, ForwardStart(r) PROVE AskInv'
  <2>1. /\ NoControl /\ Asked(r) /\ nieOps' = nieOps \cup {r} /\ UNCHANGED <<link, nieRaw>>
        /\ UNCHANGED sessionState /\ UNCHANGED haltState
    BY <1>5 DEF ForwardStart, sessionState, haltState
  <2>2. r \in Control /\ r \notin {"connect", "option", "terminate", "close"}
    BY KnownRequests, CEConstants
  <2>3. HeldExactly' /\ pending'["put"] = pending["put"] /\ pending'["get"] = pending["get"]
    BY <2>1, <2>2, AskControl
  <2>4. pending["get"] = 1 => link' \in {"connected", "failed"} /\ "close" \notin nieOps'
    BY <2>1, <2>2 DEF AskInv, GetServed
  <2>5. "terminate" \in nieOps' /\ mSSLConfigured => ~mEstablished
    BY <2>1, <2>2 DEF AskInv, ReadsBelong
  <2> QED BY <2>1, <2>3, <2>4, <2>5, AskReads DEF AskInv
<1> QED BY <1>1, <1>2, <1>3, <1>4, <1>5

\* The enable option: an upgrade starts with no transfer outstanding.
LEMMA AskEnable ==
    ASSUME LinkInv, SessInv, AskInv, NEW enabled, EnableOption(enabled)
    PROVE  AskInv'
<1> USE DEF sendVars, recvVars, sendOnly, recvOnly, tlsVars, readVars, linkVars, mbedVars
<1>1. ctl = "idle" /\ NoControl /\ nieRaw = {} /\ UNCHANGED <<link, nieOps, nieRaw>>
  BY DEF EnableOption
<1>2. CASE SSLConfigure /\ ctl' = "handshake" /\ Asked("option")
  <2>1. \A q \in Requests \ {"option"} : pending'[q] = pending[q]
    BY <1>1, <1>2, AskOther
  <2>2. HeldExactly'
    BY <1>1, <1>2, AskOther
  <2>3. pending'["put"] = pending["put"] /\ pending'["get"] = pending["get"]
    BY <2>1, KnownRequests
  <2>4. RawExactly'
    BY <1>1, <2>3 DEF AskInv, RawExactly
  <2>5. ~mEstablished' /\ mSSLReadSize' = 0
    BY <1>2 DEF SSLConfigure
  <2>6. pending["get"] = 0
    <3>1. CASE link = "open"
      BY <3>1, NoGetWaits
    <3>2. CASE link = "connected" /\ ~mSSLConfigured
      <4>1. "terminate" \notin nieOps
        BY <1>1, KnownRequests DEF NoControl, AskInv, HeldExactly
      <4> QED BY <1>1, <3>2, <4>1
              DEF AskInv, GetAsked, GetServed, ReadUnderWay, ReadWanted, ReadLost
    <3> QED BY <3>1, <3>2 DEF EnableOption
  <2>7. GetAsked' /\ GetServed'
    BY <1>1, <1>2, <2>3, <2>5, <2>6, NoGetAfter DEF ReadWanted
  <2>8. ReadsBelong'
    BY <2>5 DEF ReadsBelong
  <2> QED BY <2>2, <2>4, <2>7, <2>8 DEF AskInv
<1>3. CASE UNCHANGED <<mSSLConfigured, nieUp, sendOnly, recvOnly, mEstablished,
                        mClosing, readVars, mbedVars, clientGot, ctl, pending>>
  <2>1. UNCHANGED <<pending, ctl>> /\ UNCHANGED sessionState /\ UNCHANGED haltState
    BY <1>3 DEF sessionState, haltState
  <2> QED BY <1>1, <2>1, AskFrame DEF GivenUp, Waits, haltState
<1> QED BY <1>2, <1>3 DEF EnableOption

\* Transfers of the client.
LEMMA AskTransferSteps ==
    ASSUME LinkInv, SessInv, AskInv,
           \/ RawPutStart \/ RawGetStart \/ \E r \in {"put", "get"} : RawCompleteCB(r)
           \/ \E size \in 1 .. MaxGet, threshold \in Thresholds : GetBytesStart(size, threshold)
           \/ PutFails
    PROVE  AskInv'
<1> USE DEF sendVars, recvVars, sendOnly, recvOnly, tlsVars, readVars, linkVars, mbedVars
<1>1. CASE RawPutStart \/ RawCompleteCB("put")
  <2>1. /\ UNCHANGED <<link, nieOps>> /\ UNCHANGED sessionState /\ UNCHANGED haltState
        /\ \/ Asked("put") /\ pending["put"] = 0 /\ nieRaw' = nieRaw \cup {"put"}
           \/ Completed("put") /\ "put" \in nieRaw /\ nieRaw' = nieRaw \ {"put"}
    BY <1>1 DEF RawPutStart, RawCompleteCB, PutAllowed, sessionState, haltState
  <2>2. HeldExactly' /\ pending'["get"] = pending["get"]
    BY <2>1, AskOther, KnownRequests
  <2>3. pending'["put"] = IF "put" \in nieRaw' THEN 1 ELSE 0
    <3>1. CASE Asked("put") /\ pending["put"] = 0 /\ nieRaw' = nieRaw \cup {"put"}
      <4>1. pending'["put"] = pending["put"] + 1
        BY <2>1, <3>1, AskOther
      <4> QED BY <3>1, <4>1
    <3>2. CASE Completed("put") /\ "put" \in nieRaw /\ nieRaw' = nieRaw \ {"put"}
      <4>1. pending'["put"] = pending["put"] - 1
        BY <2>1, <3>2, AskOther
      <4>2. pending["put"] = 1
        BY <3>2 DEF AskInv, RawExactly
      <4> QED BY <3>2, <4>1, <4>2
    <3> QED BY <2>1, <3>1, <3>2
  <2>4. RawExactly' /\ ("get" \in nieRaw' <=> "get" \in nieRaw)
    BY <2>1, <2>3 DEF AskInv, RawExactly
  <2>5. GetAsked' /\ GetServed' /\ ReadsBelong'
    BY <2>1, <2>2, <2>4
       DEF AskInv, sessionState, haltState, GetAsked, GetServed, ReadsBelong, ReadWanted,
           ReadUnderWay, ReadLost, GivenUp, Waits
  <2> QED BY <2>2, <2>4, <2>5 DEF AskInv
<1>2. CASE RawGetStart \/ RawCompleteCB("get")
  <2>1. /\ UNCHANGED <<link, nieOps, mSSLConfigured, ctl>> /\ ~mSSLConfigured
        /\ ctl \in {"idle", "closing"}
        /\ \/ /\ Asked("get") /\ pending["get"] = 0 /\ nieRaw' = nieRaw \cup {"get"}
              /\ link = "connected" /\ NoControl
           \/ Completed("get") /\ "get" \in nieRaw /\ nieRaw' = nieRaw \ {"get"}
    BY <1>2 DEF RawGetStart, RawCompleteCB, GetAllowed
  <2>2. HeldExactly' /\ pending'["put"] = pending["put"]
    BY <2>1, AskOther, KnownRequests
  <2>3. RawExactly'
    BY <2>1, <2>2 DEF AskInv, RawExactly
  <2>4. ~ReadWanted' /\ ReadsBelong'
    BY <2>1 DEF ReadWanted, ReadsBelong
  <2>5. CASE /\ Asked("get") /\ pending["get"] = 0 /\ nieRaw' = nieRaw \cup {"get"}
             /\ NoControl /\ link = "connected"
    <3>1. pending'["get"] = 1
      BY <2>1, <2>5, AskOther
    <3>2. "close" \notin nieOps
      BY <2>5, KnownRequests DEF NoControl, AskInv, HeldExactly
    <3> QED BY <2>1, <2>2, <2>3, <2>4, <2>5, <3>1, <3>2 DEF AskInv, GetAsked, GetServed
  <2>6. CASE Completed("get") /\ "get" \in nieRaw /\ nieRaw' = nieRaw \ {"get"}
    <3>1. pending["get"] = 1
      BY <2>6 DEF AskInv, GetAsked
    <3>2. pending'["get"] = pending["get"] - 1
      BY <2>1, <2>6, AskOther
    <3>3. GetAsked' /\ GetServed'
      BY <2>1, <2>4, <2>6, <3>1, <3>2, NoGetAfter
    <3> QED BY <2>2, <2>3, <2>4, <3>3 DEF AskInv
  <2> QED BY <2>1, <2>5, <2>6
<1>3. ASSUME NEW size \in 1 .. MaxGet, NEW threshold, GetBytesStart(size, threshold)
      PROVE  AskInv'
  <2>1. /\ UNCHANGED <<link, nieOps, nieRaw, mSSLConfigured, mEstablished, mClosing>>
        /\ mSSLConfigured /\ mEstablished /\ ctl' = "read" /\ mSSLReadSize' = size
        /\ Asked("get") /\ pending["get"] = 0 /\ link = "connected" /\ NoControl
    BY <1>3 DEF GetBytesStart, GetAllowed
  <2>2. HeldExactly' /\ pending'["put"] = pending["put"]
    BY <2>1, AskOther, KnownRequests
  <2>3. pending'["get"] = 1
    BY <2>1, AskOther
  <2>4. "close" \notin nieOps /\ "terminate" \notin nieOps
    BY <2>1, KnownRequests DEF NoControl, AskInv, HeldExactly
  <2>5. mSSLReadSize' > 0
    BY <2>1, CEConstants
  <2>6. ReadWanted'
    BY <2>1, <2>5 DEF ReadWanted
  <2>7. GetAsked' /\ GetServed'
    BY <2>1, <2>3, <2>4, <2>6 DEF GetAsked, GetServed, ReadUnderWay
  <2>8. RawExactly' /\ ReadsBelong'
    BY <2>1, <2>2, <2>4 DEF AskInv, RawExactly, ReadsBelong
  <2> QED BY <2>2, <2>7, <2>8 DEF AskInv
<1>4. CASE PutFails
  <2>1. /\ UNCHANGED <<pending, link, nieOps, nieRaw, mClosing, ctl, mSendError>>
        /\ ~mEstablished' /\ readsOver' /\ hsFlight' /\ mSendError # "noErr"
        /\ ctl = "idle" /\ mSSLConfigured /\ mEstablished
    BY <1>4 DEF PutFails, PutAllowed, SessionReset, Recv!ReadsEnd
  <2>2. UNCHANGED mSSLConfigured
    BY <1>4, RecvSteps DEF PutFails, SessionReset
  <2>3. GivenUp' /\ ReadLost'
    BY <2>1, <2>2 DEF GivenUp, ReadLost
  <2>4. HeldExactly' /\ RawExactly' /\ ReadsBelong'
    BY <2>1, <2>2, <2>3 DEF AskInv, HeldExactly, RawExactly, ReadsBelong
  <2>5. GetAsked' /\ GetServed'
    BY <2>1, <2>3 DEF AskInv, GetAsked, GetServed, ReadWanted
  <2> QED BY <2>4, <2>5 DEF AskInv
<1> QED BY <1>1, <1>2, <1>3, <1>4

\* Closing: every other request is over.
LEMMA AskCloseSteps ==
    ASSUME LinkInv, SessInv, AskInv, CloseStart \/ CloseReturns \/ CloseCompleteCB
    PROVE  AskInv'
<1> USE DEF sendVars, recvVars, sendOnly, recvOnly, tlsVars, readVars, linkVars, mbedVars
<1>1. CASE CloseStart
  <2>1. /\ ctl' = "closing" /\ nieOps' = {"close"} /\ nieRaw' = {} /\ UNCHANGED sessionState
        /\ pending' = [r \in Requests |-> IF r = "close" THEN 1 ELSE 0]
        /\ UNCHANGED <<readsOver, hsFlight, mSendError>>
    BY <1>1 DEF CloseStart, sessionState
  <2>2. \A r \in Requests : pending'[r] = IF r = "close" THEN 1 ELSE 0
    BY <2>1
  <2>3. HeldExactly' /\ RawExactly' /\ pending'["get"] = 0
    BY <2>1, <2>2, KnownRequests DEF HeldExactly, RawExactly
  <2>4. ~ReadWanted'
    BY <2>1 DEF ReadWanted
  <2>5. GetAsked' /\ GetServed'
    BY <2>1, <2>3, <2>4, NoGetAfter
  <2>6. ReadsBelong'
    BY <2>1 DEF AskInv, ReadsBelong, GivenUp, sessionState
  <2> QED BY <2>3, <2>5, <2>6 DEF AskInv
<1>2. CASE CloseReturns
  <2>1. /\ ctl = "closing" /\ ctl' = "idle" /\ ~mSSLConfigured'
        /\ UNCHANGED <<pending, nieOps, nieRaw, link>>
    BY <1>2 DEF CloseReturns, Send!SendUnconfigure
  <2>2. link = "closed" \/ "close" \in nieOps
    BY <2>1 DEF LinkInv, ClosingIsAlone
  <2>3. pending["get"] = 0 /\ "get" \notin nieRaw
    BY <2>2, NoGetWaits
  <2>4. ~ReadWanted' /\ ReadsBelong'
    BY <2>1 DEF ReadWanted, ReadsBelong
  <2>5. GetAsked' /\ GetServed'
    BY <2>1, <2>3, <2>4, NoGetAfter
  <2> QED BY <2>1, <2>4, <2>5 DEF AskInv, HeldExactly, RawExactly
<1>3. CASE CloseCompleteCB
  <2>1. /\ "close" \in nieOps /\ nieOps' = {} /\ Completed("close") /\ link' = "closed"
        /\ UNCHANGED nieRaw /\ UNCHANGED sessionState /\ UNCHANGED haltState
    BY <1>3 DEF CloseCompleteCB, sessionState, haltState
  <2>2. nieOps = {"close"}
    BY <2>1 DEF LinkInv, ClosingIsAlone
  <2>3. HeldExactly' /\ pending'["put"] = pending["put"] /\ pending'["get"] = pending["get"]
    BY <2>1, <2>2, AskControl, KnownRequests
  <2>4. pending["get"] = 0
    BY <2>1, NoGetWaits
  <2> QED BY <2>1, <2>2, <2>3, <2>4, AskReads DEF AskInv
<1> QED BY <1>1, <1>2, <1>3

\* NIE's answers to the other control requests.
LEMMA AskAnswers ==
    ASSUME LinkInv, SessInv, AskInv,
           \/ OpenCompleteCB \/ ConnectCompleteCB \/ ConnectCompleteCBError
           \/ TerminateCompleteCB \/ \E r \in ForwardOps : ForwardCompleteCB(r)
    PROVE  AskInv'
<1> USE DEF sendVars, recvVars, sendOnly, recvOnly, tlsVars, readVars, linkVars, mbedVars
<1>1. ASSUME NEW r \in Control, r # "option", r # "terminate", r \in nieOps, Completed(r),
             nieOps' = nieOps \ {r}, UNCHANGED nieRaw, UNCHANGED sessionState,
             UNCHANGED haltState, link' \in {"connected", "failed", link} \/ link = "closed"
      PROVE  AskInv'
  <2>1. HeldExactly' /\ pending'["put"] = pending["put"] /\ pending'["get"] = pending["get"]
    BY <1>1, AskControl
  <2>2. pending["get"] = 1 => link' \in {"connected", "failed"} /\ "close" \notin nieOps'
    BY <1>1 DEF AskInv, GetServed
  <2>3. "terminate" \in nieOps' => "terminate" \in nieOps
    BY <1>1
  <2>4. "terminate" \in nieOps => "terminate" \in nieOps'
    BY <1>1
  <2>5. "terminate" \in nieOps' /\ mSSLConfigured => ~mEstablished
    BY <2>3 DEF AskInv, ReadsBelong
  <2>6. RawExactly' /\ GetAsked' /\ GetServed' /\ ReadsBelong'
    BY <1>1, <2>1, <2>2, <2>4, <2>5, AskReads
  <2> QED BY <2>1, <2>6 DEF AskInv
<1>2. CASE OpenCompleteCB
  <2>1. /\ "open" \in nieOps /\ Completed("open") /\ nieOps' = nieOps \ {"open"}
        /\ UNCHANGED nieRaw /\ UNCHANGED sessionState /\ UNCHANGED haltState
    BY <1>2 DEF OpenCompleteCB, sessionState, haltState
  <2>2. link = "closed"
    BY <2>1 DEF LinkInv, OpeningIsClosed
  <2> QED BY <1>1, <2>1, <2>2, KnownRequests
<1>3. ASSUME NEW r \in ForwardOps, ForwardCompleteCB(r) PROVE AskInv'
  <2>1. /\ r \in nieOps /\ Completed(r) /\ nieOps' = nieOps \ {r} /\ link' = link
        /\ UNCHANGED nieRaw /\ UNCHANGED sessionState /\ UNCHANGED haltState
    BY <1>3 DEF ForwardCompleteCB, sessionState, haltState
  <2>2. r \in Control /\ r # "option" /\ r # "terminate"
    BY KnownRequests, CEConstants
  <2> QED BY <1>1, <2>1, <2>2
<1>4. CASE ConnectCompleteCBError \/ (ConnectCompleteCB /\ ~mSSLEnabled)
  <2>1. /\ "connect" \in nieOps /\ Completed("connect") /\ nieOps' = nieOps \ {"connect"}
        /\ link' \in {"connected", link}
        /\ UNCHANGED nieRaw /\ UNCHANGED sessionState /\ UNCHANGED haltState
    BY <1>4 DEF ConnectCompleteCB, ConnectCompleteCBError, Send!NIEUp, Recv!RecvNIEUp,
                Recv!mbedVars, sessionState, haltState
  <2> QED BY <1>1, <2>1, KnownRequests
<1>5. CASE ConnectCompleteCB /\ mSSLEnabled
  <2>1. /\ "connect" \in nieOps /\ nieOps' = nieOps \ {"connect"} /\ ctl' = "handshake"
        /\ UNCHANGED <<pending, link, nieRaw>> /\ UNCHANGED sessionState
        /\ UNCHANGED <<readsOver, hsFlight, mSendError>>
    BY <1>5 DEF ConnectCompleteCB, Send!NIEUp, Recv!RecvNIEUp, Recv!mbedVars,
          sessionState
  <2>2. link = "open" /\ ~mEstablished
    BY <1>5, <2>1 DEF SessInv, ConnectingIsOpen, FreshConnection
  <2>3. pending["get"] = 0 /\ "get" \notin nieRaw
    BY <2>2, NoGetWaits
  <2>4. ~ReadWanted'
    BY <2>1, <2>2 DEF ReadWanted, sessionState
  <2>5. GetAsked' /\ GetServed'
    BY <2>1, <2>3, <2>4, NoGetAfter
  <2>6. HeldExactly' /\ RawExactly'
    BY <2>1 DEF AskInv, HeldExactly, RawExactly
  <2>7. ReadsBelong'
    BY <2>1 DEF AskInv, ReadsBelong, GivenUp, sessionState
  <2> QED BY <2>5, <2>6, <2>7 DEF AskInv
<1>6. CASE TerminateCompleteCB
  <2>1. /\ ctl = "idle" /\ "terminate" \in nieOps /\ nieOps' = nieOps \ {"terminate"}
        /\ nieRaw' = {} /\ UNCHANGED sessionState /\ UNCHANGED ctl
        /\ UNCHANGED <<readsOver, hsFlight, mSendError>>
        /\ pending' = [pending EXCEPT !["terminate"] = pending["terminate"] - 1,
                                      !["put"] = 0, !["get"] = 0]
    BY <1>6 DEF TerminateCompleteCB, Send!NIEDown, Recv!RecvNIEDown, Recv!mbedVars, sessionState
  <2>2. pending["terminate"] = 1 /\ pending \in [Requests -> Int]
    BY <2>1 DEF SessInv, EndingIsAlone, LinkInv
  <2>3. /\ \A q \in Requests \ {"terminate", "put", "get"} : pending'[q] = pending[q]
        /\ pending'["terminate"] = 0 /\ pending'["put"] = 0 /\ pending'["get"] = 0
    BY <2>1, <2>2, KnownRequests
  <2>4. HeldExactly' /\ RawExactly'
    BY <2>1, <2>3, KnownRequests DEF AskInv, HeldExactly, RawExactly
  <2>5. ~ReadWanted'
    BY <2>1 DEF AskInv, ReadsBelong, ReadWanted, sessionState
  <2>6. GetAsked' /\ GetServed'
    BY <2>1, <2>3, <2>5, NoGetAfter
  <2>7. ReadsBelong'
    BY <2>1 DEF AskInv, ReadsBelong, GivenUp, sessionState
  <2> QED BY <2>4, <2>6, <2>7 DEF AskInv
<1> QED BY <1>2, <1>3, <1>4, <1>5, <1>6

\* The invariant, with no assumption on the client or on NIE's failures.
LEMMA AskStep == LinkInv /\ SessInv /\ AskInv /\ [CENext]_vars => AskInv'
<1> SUFFICES ASSUME LinkInv, SessInv, AskInv, [CENext]_vars PROVE AskInv'
  OBVIOUS
<1>1. CASE UNCHANGED vars
  BY <1>1, AskInnerSteps
<1>2. CASE Client
  BY <1>2, AskControlSteps, AskEnable, AskTransferSteps, AskCloseSteps, AskInnerSteps
     DEF Client, ClientDone, PutRefused, GetRefused, KillRefused
<1>3. CASE Task
  BY <1>3, AskInnerSteps, AskWaitSteps, AskHandshakeEnds, AskReadSteps, AskCloseSteps
     DEF Task, Handshake, Read
<1>4. ASSUME NEW r \in {"put", "get"}, RawCompleteCB(r) PROVE AskInv'
  BY <1>4, AskTransferSteps
<1>5. CASE ControlCB \/ PutCompleteCB \/ GetCompleteCB \/ NIETakes \/ Peer
  BY <1>5, AskAnswers, AskCloseSteps, AskInnerSteps DEF ControlCB
<1> QED BY <1>1, <1>2, <1>3, <1>4, <1>5 DEF CENext

LEMMA AskAlways == CESpec => []AskInv
<1>1. CEInit => AskInv
  <2> SUFFICES ASSUME CEInit PROVE AskInv
    OBVIOUS
  <2>1. /\ \A r \in Requests : pending[r] = 0
        /\ nieOps = {} /\ nieRaw = {} /\ ~mSSLConfigured /\ ctl = "idle"
    BY DEF CEInit, Send!SendInit
  <2> QED BY <2>1, KnownRequests
          DEF AskInv, HeldExactly, RawExactly, GetAsked, GetServed, ReadsBelong, ReadWanted
<1> QED BY <1>1, AskStep, SessAlways, LinkInvariant, PTL DEF CESpec

\* An established link is up until it is closed.
LEMMA UpStep == LinkInv /\ SessInv /\ ConnectedIsUp /\ [CENext]_vars => ConnectedIsUp'
<1> SUFFICES ASSUME LinkInv, SessInv, ConnectedIsUp, [CENext]_vars PROVE ConnectedIsUp'
  OBVIOUS
<1> USE DEF sendVars, recvVars, sendOnly, recvOnly, tlsVars, readVars, linkVars, mbedVars,
            OtherVars
<1>1. ASSUME nieUp' \/ UNCHANGED nieUp, link' = "connected" => link = "connected" \/ nieUp',
             ctl = "closing" => ctl' = "closing" \/ "close" \in nieOps' \/ link' = "closed",
             "close" \in nieOps => "close" \in nieOps' \/ link' = "closed"
      PROVE  ConnectedIsUp'
  BY <1>1 DEF ConnectedIsUp, Gone
<1>2. CASE UNCHANGED vars
  BY <1>1, <1>2 DEF vars
<1>3. CASE Client
  <2>1. ASSUME UNCHANGED link, nieUp' = nieUp, ctl = "idle",
               nieOps \subseteq nieOps' \/ "close" \in nieOps'
        PROVE  ConnectedIsUp'
    BY <1>1, <2>1
  <2>2. CASE OpenStart \/ ConnectStartFails \/ CloseStart \/ DeleteAndNew
    BY <2>1, <2>2 DEF OpenStart, ConnectStartFails, CloseStart, DeleteAndNew, ConnectAllowed
  <2>3. CASE ConnectStart
    <3>1. nieUp' = nieUp
      BY <2>3, Configured DEF ConnectStart
    <3> QED BY <2>1, <2>3, <3>1 DEF ConnectStart, ConnectAllowed
  <2>4. CASE TerminateStart
    <3>1. nieUp' = nieUp
      BY <2>4 DEF TerminateStart, WriteOrGiveUp, Send!SSLSendCallback
    <3> QED BY <2>1, <2>4, <3>1 DEF TerminateStart
  <2>5. ASSUME NEW r, ForwardStart(r) PROVE ConnectedIsUp'
    BY <2>1, <2>5 DEF ForwardStart
  <2>6. ASSUME NEW e, EnableOption(e) PROVE ConnectedIsUp'
    <3>1. nieUp' = nieUp
      BY <2>6, Configured DEF EnableOption
    <3> QED BY <2>1, <2>6, <3>1 DEF EnableOption
  <2>7. ASSUME NEW n, NEW t, GetBytesStart(n, t) \/ PutBytesStart(n) PROVE ConnectedIsUp'
    <3>1. nieUp' = nieUp
      BY <2>7 DEF GetBytesStart, PutBytesStart
    <3> QED BY <2>1, <2>7, <3>1 DEF GetBytesStart, PutBytesStart, GetAllowed, PutAllowed
  <2>8. CASE PutFails \/ RawPutStart \/ RawGetStart
    BY <2>1, <2>8 DEF PutFails, RawPutStart, RawGetStart, GetAllowed, PutAllowed
  <2>9. CASE UNCHANGED vars
    BY <1>1, <2>9 DEF vars
  <2> QED BY <1>3, <2>2, <2>3, <2>4, <2>5, <2>6, <2>7, <2>8, <2>9
          DEF Client, ClientDone, PutRefused, GetRefused, KillRefused
<1>4. CASE Task
  <2>1. ASSUME UNCHANGED <<link, nieUp, nieOps>>, ctl # "closing" PROVE ConnectedIsUp'
    BY <1>1, <2>1
  <2>2. ASSUME NEW n, HandshakeSends(n) \/ HandshakeFetches(n) \/ ReadFetches(n) \/ ReadParses(n)
        PROVE  ConnectedIsUp'
    <3>1. UNCHANGED <<link, nieUp, nieOps>> /\ ctl # "closing"
      BY <2>2 DEF HandshakeSends, HandshakeFetches, ReadFetches, ReadParses, InHandshake, InRead
    <3> QED BY <2>1, <3>1
  <2>3. CASE HandshakeParses \/ HandshakeWaits \/ ReadWaits \/ HandleRequest
    BY <2>1, <2>3 DEF HandshakeParses, HandshakeWaits, ReadWaits, HandleRequest, InHandshake, InRead
  <2>4. CASE ReadData \/ ReadEOF \/ ReadFails
    <3>1. UNCHANGED <<link, nieUp, nieOps>> /\ ctl # "closing"
      BY <2>4 DEF ReadData, ReadEOF, ReadFails, ReadReturned, ReadEnds, InRead
    <3> QED BY <2>1, <3>1
  <2>5. CASE ReadCloseNotify
    <3>1. UNCHANGED <<link, nieUp, nieOps>> /\ ctl # "closing"
      BY <2>5 DEF ReadCloseNotify, ReadEnds, InRead, WriteOrGiveUp, Send!SSLSendCallback
    <3> QED BY <2>1, <3>1
  <2>6. CASE SSLRecvCallback
    <3>1. UNCHANGED <<link, nieUp, nieOps, ctl>>
      BY <2>6 DEF SSLRecvCallback
    <3> QED BY <1>1, <3>1
  <2>7. CASE HandshakeSucceeds
    <3>1. UNCHANGED <<nieUp, nieOps>> /\ ctl = "handshake" /\ hsLeft = 0
      BY <2>7 DEF HandshakeSucceeds, InHandshake
    <3>2. nieUp
      BY <3>1 DEF SessInv, DownIsStuck, HandshakeIsLive, LinkInv, CallNeedsSSL
    <3> QED BY <1>1, <3>1, <3>2
  <2>8. CASE HandshakeFails
    BY <2>8 DEF HandshakeFails, ConnectedIsUp
  <2>9. CASE NIECloses
    BY <2>9 DEF NIECloses, ConnectedIsUp, Gone
  <2>10. CASE CloseReturns
    <3>1. UNCHANGED <<link, nieOps>> /\ ctl = "closing"
      BY <2>10 DEF CloseReturns
    <3> QED BY <3>1 DEF ConnectedIsUp, Gone, LinkInv, ClosingIsAlone
  <2> QED BY <1>4, <2>2, <2>3, <2>4, <2>5, <2>6, <2>7, <2>8, <2>9, <2>10 DEF Task, Handshake, Read
<1>5. CASE ControlCB
  <2>1. CASE OpenCompleteCB \/ TerminateCompleteCB \/ CloseCompleteCB
    BY <2>1 DEF OpenCompleteCB, TerminateCompleteCB, CloseCompleteCB, ConnectedIsUp
  <2>2. CASE ConnectCompleteCB
    BY <1>1, <2>2 DEF ConnectCompleteCB, Send!NIEUp
  <2>3. CASE ConnectCompleteCBError
    BY <1>1, <2>3 DEF ConnectCompleteCBError
  <2>4. ASSUME NEW r \in ForwardOps, ForwardCompleteCB(r) PROVE ConnectedIsUp'
    <3>1. r # "close"
      BY CEConstants
    <3> QED BY <1>1, <2>4, <3>1 DEF ForwardCompleteCB
  <2> QED BY <1>5, <2>1, <2>2, <2>3, <2>4 DEF ControlCB
<1>6. CASE PutCompleteCB \/ GetCompleteCB \/ NIETakes \/ Peer
  <2>1. UNCHANGED <<link, nieUp, nieOps, ctl>>
    BY <1>6 DEF PutCompleteCB, GetCompleteCB, NIETakes, Peer, Send!NIETakes
  <2> QED BY <1>1, <2>1
<1>7. ASSUME NEW r, RawCompleteCB(r) PROVE ConnectedIsUp'
  BY <1>1, <1>7 DEF RawCompleteCB
<1> QED BY <1>2, <1>3, <1>4, <1>5, <1>6, <1>7 DEF CENext

LEMMA UpAlways == CESpec => []ConnectedIsUp
<1>1. CEInit => ConnectedIsUp
  BY DEF CEInit, ConnectedIsUp
<1> QED BY <1>1, UpStep, SessAlways, LinkInvariant, PTL DEF CESpec

\* The requests no handshake answers.
DirectRequests == Requests \ {"connect", "option"}

\* Every one of them is answered at most once and only when it was made,
\* whatever the client, NIE and the peer do and whichever of them fails,
\* although DoSSLRead calls GetComplete from TLS events (HandleRequest),
\* TerminateComplete and CloseStart end transfers, and a failed Put or
\* handshake leaves its session behind.
THEOREM DirectRequestsAlwaysMatch ==
    CESpec => [](\A r \in DirectRequests : pending[r] \in {0, 1})
<1>1. AskInv => \A r \in DirectRequests : pending[r] \in {0, 1}
  BY KnownRequests DEF AskInv, HeldExactly, RawExactly, GetAsked, DirectRequests
<1> QED BY <1>1, AskAlways, PTL

\* Only a failed Put ends a session without marking it as closing.
LEMMA OverStep ==
    LinkInv /\ OverIsClosing /\ [CENext]_vars /\ [~PutFails]_vars => OverIsClosing'
<1> SUFFICES ASSUME LinkInv, OverIsClosing, [CENext]_vars, [~PutFails]_vars PROVE OverIsClosing'
  OBVIOUS
<1> USE DEF sendVars, recvVars, sendOnly, recvOnly, tlsVars, readVars, linkVars, mbedVars,
            OtherVars
<1>1. ASSUME UNCHANGED <<mSSLConfigured, mClosing, readsOver>> PROVE OverIsClosing'
  BY <1>1 DEF OverIsClosing
<1>2. CASE UNCHANGED vars
  BY <1>1, <1>2 DEF vars
<1>3. ASSUME ~mSSLConfigured' \/ ~readsOver' \/ mClosing' PROVE OverIsClosing'
  BY <1>3 DEF OverIsClosing
<1>4. CASE Client /\ ~PutFails
  <2>1. CASE OpenStart
    BY <1>3, <2>1 DEF OpenStart
  <2>2. CASE ConnectStart
    BY <1>1, <1>3, <2>2, Configured DEF ConnectStart
  <2>3. ASSUME NEW e, EnableOption(e) PROVE OverIsClosing'
    BY <1>1, <1>3, <2>3, Configured DEF EnableOption
  <2>4. CASE TerminateStart
    BY <1>1, <1>3, <2>4 DEF TerminateStart
  <2>5. ASSUME NEW n, NEW t, GetBytesStart(n, t) \/ PutBytesStart(n) \/ ForwardStart(n)
        PROVE  OverIsClosing'
    BY <1>1, <2>5 DEF GetBytesStart, PutBytesStart, ForwardStart
  <2>6. CASE ConnectStartFails \/ CloseStart \/ DeleteAndNew \/ RawPutStart \/ RawGetStart
    BY <1>1, <2>6 DEF ConnectStartFails, CloseStart, DeleteAndNew, RawPutStart, RawGetStart
  <2> QED BY <1>2, <1>4, <2>1, <2>2, <2>3, <2>4, <2>5, <2>6
          DEF Client, ClientDone, PutRefused, GetRefused, KillRefused
<1>5. CASE Task
  <2>1. ASSUME NEW n, \/ HandshakeSends(n) \/ HandshakeFetches(n) \/ ReadFetches(n)
                      \/ ReadParses(n) \/ HandshakeParses
        PROVE  OverIsClosing'
    <3>1. UNCHANGED <<mSSLConfigured, mClosing, readsOver>>
      BY <2>1 DEF HandshakeSends, HandshakeFetches, ReadFetches, ReadParses, HandshakeParses,
                  Recv!FetchInput, Recv!FetchUsed, Recv!ceVars
    <3> QED BY <1>1, <3>1
  <2>2. CASE HandshakeWaits \/ ReadWaits \/ HandshakeSucceeds \/ ReadData
    BY <1>1, <2>2 DEF HandshakeWaits, ReadWaits, HandshakeSucceeds, ReadData, ReadReturned
  <2>3. CASE HandshakeFails \/ ReadCloseNotify \/ ReadFails
    BY <1>3, <2>3 DEF HandshakeFails, ReadCloseNotify, ReadFails, ReadEnds
  <2>4. CASE ReadEOF
    BY <1>1, <2>4 DEF ReadEOF, ReadReturned, Recv!FetchUsed, Recv!ceVars
  <2>5. CASE SSLRecvCallback
    <3>1. UNCHANGED <<mSSLConfigured, mClosing, readsOver>>
      BY <2>5 DEF SSLRecvCallback, Recv!SSLRecvCallback, Recv!RecvRefuse, Recv!RecvAskNIE,
           Recv!RecvAskNothing, Recv!RecvAsked, Recv!RecvNoCopy, Recv!RecvCopy, Recv!mbedVars,
           Recv!ceVars
    <3> QED BY <1>1, <3>1
  <2>6. CASE HandleRequest \/ NIECloses
    BY <1>1, <2>6 DEF HandleRequest, NIECloses, Recv!HandleTLSEvent,
                      Recv!RecvNIEDown, Recv!ceVars, Recv!mbedVars
  <2>7. CASE CloseReturns
    BY <1>3, <2>7 DEF CloseReturns, Send!SendUnconfigure
  <2> QED BY <1>5, <2>1, <2>2, <2>3, <2>4, <2>5, <2>6, <2>7 DEF Task, Handshake, Read
<1>6. ASSUME NEW r, RawCompleteCB(r) \/ ForwardCompleteCB(r) PROVE OverIsClosing'
  BY <1>1, <1>6 DEF RawCompleteCB, ForwardCompleteCB
<1>7. CASE OpenCompleteCB \/ ConnectCompleteCBError \/ CloseCompleteCB
  BY <1>1, <1>7 DEF OpenCompleteCB, ConnectCompleteCBError, CloseCompleteCB
<1>8. CASE ConnectCompleteCB \/ TerminateCompleteCB
  BY <1>1, <1>8 DEF ConnectCompleteCB, TerminateCompleteCB, Recv!RecvNIEUp, Recv!RecvNIEDown,
                    Recv!ceVars, Recv!mbedVars
<1>9. CASE PutCompleteCB \/ GetCompleteCB \/ NIETakes \/ Peer
  <2>1. UNCHANGED <<mSSLConfigured, mClosing, readsOver>>
    BY <1>9 DEF PutCompleteCB, GetCompleteCB, NIETakes, Peer, Recv!PeerSends,
             Recv!PeerCloses, Recv!GetCompleteData, Recv!GetCompleteEOF, Recv!GetCompleteError,
             Recv!GetAnswered, Recv!ceVars, Recv!mbedVars
  <2> QED BY <1>1, <2>1
<1> QED BY <1>2, <1>4, <1>5, <1>6, <1>7, <1>8, <1>9 DEF CENext, ControlCB

\* mbedtls is asked to go on only with a session that is live, as long as no
\* Put fails on an established one, whatever else fails.
THEOREM RunsLiveUnlessPutFails ==
    CESpec /\ [][~PutFails]_vars => []RunsOnLiveSession
<1>1. CEInit => OverIsClosing
  BY DEF CEInit, Send!SendInit, OverIsClosing
<1>2. LinkInv /\ SessInv /\ AskInv /\ OverIsClosing => RunsOnLiveSession
  BY DEF LinkInv, CallNeedsSSL, SessInv, HandshakeIsLive, AskInv, GetAsked, ReadWanted,
         ReadsBelong, OverIsClosing, RunsOnLiveSession
<1> QED BY <1>1, <1>2, OverStep, AskAlways, SessAlways, LinkInvariant, PTL DEF CESpec

\* A Get that a closing session leaves behind is one NIE holds, or one a
\* disconnect is about to end.
ClosingAnswers ==
    mSSLConfigured /\ mClosing /\ pending["get"] = 1 => "get" \in nieRaw \/ "terminate" \in nieOps

\* A session is closed by the read that answers its Get, by a disconnect, or
\* by a handshake, which no Get can be waiting for: on a session that was not
\* given up there is none before it is established.
LEMMA ClosingStep ==
    LinkInv /\ SessInv /\ AskInv /\ OverIsClosing /\ ClosingAnswers /\ [CENext]_vars
       => ClosingAnswers'
<1> SUFFICES ASSUME LinkInv, SessInv, AskInv, OverIsClosing, ClosingAnswers, [CENext]_vars
             PROVE  ClosingAnswers'
  OBVIOUS
<1> USE DEF sendVars, recvVars, sendOnly, recvOnly, tlsVars, readVars, linkVars, mbedVars,
            OtherVars
<1>1. ASSUME UNCHANGED <<mSSLConfigured, mClosing, nieRaw>>, pending'["get"] = pending["get"],
             "terminate" \in nieOps => "terminate" \in nieOps'
      PROVE  ClosingAnswers'
  BY <1>1 DEF ClosingAnswers
<1>2. CASE UNCHANGED vars
  BY <1>1, <1>2 DEF vars
<1>3. ASSUME ~mSSLConfigured' \/ ~mClosing' PROVE ClosingAnswers'
  BY <1>3 DEF ClosingAnswers
<1>4. ASSUME NEW r \in Requests \ {"get"}, Asked(r) \/ Completed(r)
      PROVE  pending'["get"] = pending["get"]
  BY <1>4, OneRequest, KnownRequests DEF LinkInv
<1>5. CASE Client
  <2>1. CASE OpenStart
    BY <1>3, <2>1 DEF OpenStart
  <2>2. CASE ConnectStart
    <3>1. pending'["get"] = pending["get"] /\ nieOps \subseteq nieOps' /\ UNCHANGED nieRaw
      BY <1>4, <2>2, KnownRequests DEF ConnectStart
    <3>2. ~mClosing' \/ UNCHANGED <<mSSLConfigured, mClosing>>
      BY <2>2 DEF ConnectStart, SSLConfigure
    <3> QED BY <1>1, <1>3, <3>1, <3>2
  <2>3. ASSUME NEW e, EnableOption(e) PROVE ClosingAnswers'
    <3>1. ~mClosing' \/ UNCHANGED <<mSSLConfigured, mClosing, nieRaw, pending, nieOps>>
      BY <2>3 DEF EnableOption, SSLConfigure
    <3> QED BY <1>1, <1>3, <3>1
  <2>4. CASE TerminateStart
    BY <2>4 DEF TerminateStart, ClosingAnswers
  <2>5. CASE CloseStart
    <3>1. pending'["get"] = 0
      BY <2>5, KnownRequests DEF CloseStart
    <3> QED BY <3>1 DEF ClosingAnswers
  <2>6. ASSUME NEW r \in ForwardOps, ForwardStart(r) PROVE ClosingAnswers'
    BY <1>1, <1>4, <2>6, KnownRequests DEF ForwardStart
  <2>7. ASSUME NEW n, NEW t, GetBytesStart(n, t) PROVE ClosingAnswers'
    BY <1>3, <2>7 DEF GetBytesStart, AskInv, ReadsBelong
  <2>8. CASE RawPutStart
    <3>1. ~mSSLConfigured'
      BY <2>8 DEF RawPutStart
    <3> QED BY <1>3, <3>1
  <2>9. CASE RawGetStart
    BY <1>3, <2>9 DEF RawGetStart
  <2>10. ASSUME NEW n, PutBytesStart(n) \/ PutFails PROVE ClosingAnswers'
    <3>1. ~mClosing'
      BY <2>10 DEF PutBytesStart, PutFails
    <3> QED BY <1>3, <3>1
  <2>11. CASE ConnectStartFails \/ DeleteAndNew
    BY <1>1, <2>11 DEF ConnectStartFails, DeleteAndNew
  <2> QED BY <1>2, <1>5, <2>1, <2>2, <2>3, <2>4, <2>5, <2>6, <2>7, <2>8, <2>9, <2>10, <2>11
          DEF Client, ClientDone, PutRefused, GetRefused, KillRefused
<1>6. CASE Task
  <2>1. ASSUME NEW n, \/ HandshakeSends(n) \/ HandshakeFetches(n) \/ ReadFetches(n)
                      \/ ReadParses(n) \/ HandshakeParses \/ HandshakeWaits \/ ReadWaits
        PROVE  ClosingAnswers'
    <3>1. UNCHANGED <<mSSLConfigured, mClosing, nieRaw, pending, nieOps>>
      BY <2>1 DEF HandshakeSends, HandshakeFetches, ReadFetches, ReadParses, HandshakeParses,
                  HandshakeWaits, ReadWaits, Recv!FetchInput, Recv!FetchUsed, Recv!ceVars
    <3> QED BY <1>1, <3>1
  <2>2. CASE HandshakeSucceeds
    <3>1. ~mClosing'
      BY <2>2 DEF HandshakeSucceeds, InHandshake, SessInv, HandshakeIsLive
    <3> QED BY <1>3, <3>1
  <2>3. CASE HandshakeFails
    <3>1. /\ ctl = "handshake" /\ ~mClosing /\ ~mEstablished /\ mSSLConfigured
          /\ UNCHANGED <<nieRaw, nieOps>> /\ Completed("connect")
      BY <2>3 DEF HandshakeFails, InHandshake, SessInv, HandshakeIsLive, LinkInv, CallNeedsSSL
    <3>2. pending'["get"] = pending["get"]
      BY <1>4, <3>1, KnownRequests
    <3>3. ~ReadLost /\ ~ReadUnderWay
      BY <3>1 DEF ReadLost, GivenUp, OverIsClosing, ReadUnderWay, ReadWanted
    <3> QED BY <3>1, <3>2, <3>3 DEF AskInv, GetServed, ClosingAnswers
  <2>4. CASE ReadCloseNotify \/ ReadFails
    <3>1. ctl = "read" /\ Completed("get")
      BY <2>4 DEF ReadCloseNotify, ReadFails, ReadEnds, InRead
    <3>2. pending["get"] = 1
      BY <3>1 DEF AskInv, GetAsked
    <3>3. pending'["get"] = 0
      BY <3>1, <3>2, OneRequest, KnownRequests DEF LinkInv
    <3> QED BY <3>3 DEF ClosingAnswers
  <2>5. CASE ReadData \/ ReadEOF
    <3>1. ctl = "read" /\ UNCHANGED mClosing
      BY <2>5 DEF ReadData, ReadEOF, InRead, ReadReturned, Recv!FetchUsed, Recv!ceVars
    <3>2. ~mClosing
      BY <3>1 DEF AskInv, GetAsked, ReadWanted, ReadsBelong
    <3> QED BY <1>3, <3>1, <3>2
  <2>6. CASE SSLRecvCallback
    <3>1. UNCHANGED <<mSSLConfigured, mClosing, nieRaw, pending, nieOps>>
      BY <2>6 DEF SSLRecvCallback, Recv!SSLRecvCallback, Recv!RecvRefuse, Recv!RecvAskNIE,
           Recv!RecvAskNothing, Recv!RecvAsked, Recv!RecvNoCopy, Recv!RecvCopy, Recv!mbedVars,
           Recv!ceVars
    <3> QED BY <1>1, <3>1
  <2>7. CASE HandleRequest \/ NIECloses
    BY <1>1, <2>7 DEF HandleRequest, NIECloses, Recv!HandleTLSEvent,
                      Recv!RecvNIEDown, Recv!ceVars, Recv!mbedVars
  <2>8. CASE CloseReturns
    BY <1>1, <1>3, <2>8 DEF CloseReturns, Send!SendUnconfigure
  <2> QED BY <1>6, <2>1, <2>2, <2>3, <2>4, <2>5, <2>6, <2>7, <2>8 DEF Task, Handshake, Read
<1>7. ASSUME NEW r, RawCompleteCB(r) PROVE ClosingAnswers'
  BY <1>3, <1>7 DEF RawCompleteCB
<1>8. ASSUME NEW r \in ForwardOps, ForwardCompleteCB(r) PROVE ClosingAnswers'
  <2>1. r # "terminate"
    BY CEConstants
  <2> QED BY <1>1, <1>4, <1>8, <2>1, KnownRequests DEF ForwardCompleteCB
<1>9. CASE OpenCompleteCB \/ ConnectCompleteCBError
  BY <1>1, <1>4, <1>9, KnownRequests DEF OpenCompleteCB, ConnectCompleteCBError
<1>10. CASE ConnectCompleteCB
  <2>1. UNCHANGED <<mSSLConfigured, mClosing, nieRaw>> /\ nieOps' = nieOps \ {"connect"}
    BY <1>10 DEF ConnectCompleteCB, Recv!RecvNIEUp, Recv!ceVars, Recv!mbedVars
  <2>2. pending'["get"] = pending["get"]
    BY <1>4, <1>10, KnownRequests DEF ConnectCompleteCB
  <2> QED BY <1>1, <2>1, <2>2
<1>11. CASE TerminateCompleteCB
  <2>1. pending'["get"] = 0
    BY <1>11, KnownRequests DEF TerminateCompleteCB, LinkInv
  <2> QED BY <2>1 DEF ClosingAnswers
<1>12. CASE CloseCompleteCB
  <2>1. pending["get"] = 0
    BY <1>12 DEF CloseCompleteCB, AskInv, GetServed, GetAsked
  <2>2. pending'["get"] = pending["get"]
    BY <1>4, <1>12, KnownRequests DEF CloseCompleteCB
  <2> QED BY <2>1, <2>2 DEF ClosingAnswers
<1>13. CASE PutCompleteCB \/ GetCompleteCB \/ NIETakes \/ Peer
  <2>1. UNCHANGED <<mSSLConfigured, mClosing, nieRaw, pending, nieOps>>
    BY <1>13 DEF PutCompleteCB, GetCompleteCB, NIETakes, Peer, Recv!PeerSends,
             Recv!PeerCloses, Recv!GetCompleteData, Recv!GetCompleteEOF, Recv!GetCompleteError,
             Recv!GetAnswered, Recv!ceVars, Recv!mbedVars
  <2> QED BY <1>1, <2>1
<1> QED BY <1>2, <1>5, <1>6, <1>7, <1>8, <1>9, <1>10, <1>11, <1>12, <1>13 DEF CENext, ControlCB

\* NIE holds a Get of ours, or the TLS event that follows it is queued.
Woken == nieUp /\ (nieGets = 1 \/ tlsEvent)

\* A Get is with NIE, a disconnect is about to end it, or DoSSLRead runs or
\* will be run again.
ServedRead ==
    \/ "get" \in nieRaw \/ "terminate" \in nieOps
    \/ ctl = "read"
    \/ mSSLConfigured /\ mEstablished /\ Woken

\* A request the client waits for has someone to answer it.
DirectServed ==
    /\ \A r \in DirectRequests \ {"put", "get"} : pending[r] = 1 => r \in nieOps
    /\ pending["put"] = 1 => "put" \in nieRaw
    /\ pending["get"] = 1 => ServedRead

\* As long as no Put fails on an established session, no such request is
\* forgotten: at every moment the answer is under way.  (A Put that fails
\* resets the session without answering its Get: ReadLost.)  For a Get on TLS
\* this needs the receiving half's wake-up (SSLGetCompleteCB queues a TLS
\* event), hence an NIE that does not report the end of the stream from inside
\* its Get call.
THEOREM DirectRequestsServed ==
    ASSUME ~SyncEOF
    PROVE  CESpec /\ [][~PutFails]_vars => []DirectServed
<1>1. /\ AskInv /\ LinkInv /\ SessInv /\ ConnectedIsUp /\ Recv!NoLostWakeup
      /\ OverIsClosing /\ ClosingAnswers
      => DirectServed
  <2> SUFFICES ASSUME AskInv, LinkInv, SessInv, ConnectedIsUp, Recv!NoLostWakeup,
                      OverIsClosing, ClosingAnswers
               PROVE  DirectServed
    OBVIOUS
  <2>1. /\ \A r \in DirectRequests \ {"put", "get"} : pending[r] = 1 => r \in nieOps
        /\ pending["put"] = 1 => "put" \in nieRaw
    BY KnownRequests DEF AskInv, HeldExactly, RawExactly, DirectRequests
  <2>2. ASSUME pending["get"] = 1, ReadUnderWay, ctl # "read"
        PROVE  mSSLConfigured /\ mEstablished /\ Woken
    <3>1. /\ mSSLConfigured /\ mEstablished /\ ~mClosing /\ ctl = "idle" /\ recvPc = "out"
          /\ fetchRet = "wantRead" /\ link \in {"connected", "failed"} /\ "close" \notin nieOps
      BY <2>2 DEF ReadUnderWay, ReadWanted, Waits, AskInv, GetServed, ReadsBelong
    <3>2. nieUp
      BY <3>1 DEF SessInv, FailedIsClosing, ConnectedIsUp, Gone
    <3> QED BY <3>1, <3>2 DEF Recv!NoLostWakeup, Woken
  <2>3. pending["get"] = 1 /\ ReadLost => "get" \in nieRaw \/ "terminate" \in nieOps
    BY DEF ReadLost, GivenUp, OverIsClosing, ClosingAnswers
  <2>4. pending["get"] = 1 => ServedRead
    BY <2>2, <2>3 DEF AskInv, GetServed, ServedRead
  <2> QED BY <2>1, <2>4 DEF DirectServed
<1>2. CEInit => OverIsClosing /\ ClosingAnswers
  BY DEF CEInit, Send!SendInit, OverIsClosing, ClosingAnswers
<1> QED BY <1>1, <1>2, OverStep, ClosingStep, AskAlways, LinkInvariant, SessAlways, UpAlways,
           WaitersAlwaysWoken, PTL DEF CESpec

-----------------------------------------------------------------------------
(***************************************************************************)
(* Connects and upgrades.  The end of a handshake answers one of them      *)
(* (DoSSLHandshake: ProcessOptionComplete if mUpgradable and it succeeded, *)
(* ConnectComplete otherwise) without looking at which was asked for.      *)
(* Three things make that the wrong one, or one too many: an instance used *)
(* for SSL after a clear connection (ce_clear_then_tls), a failed Put that *)
(* resets an established session (ce_put_failure), and an upgrade whose    *)
(* handshake fails (ce_upgrade_rejected).  Without them no answer is       *)
(* wrong.                                                                  *)
(***************************************************************************)
\* An instance serves one connection, or only SSL ones.
OneKind == Uses \subseteq {"tls"} \/ ~Reuse

\* The step is neither of the other two.
NoStrayAnswer == ~PutFails /\ ~(HandshakeFails /\ mUpgradable)

\* DoSSLHandshake runs, or waits for the peer, on a connection that is up.
HandshakeUnderWay ==
    mSSLConfigured /\ ~mClosing /\ ~mEstablished /\ nieUp /\ (ctl = "handshake" \/ Waits)

\* mUpgradable tells an upgrade from a Connect.
RightAnswer ==
    /\ connects \in Nat /\ (mUpgradable => connects > 0 /\ ~Reuse)
    /\ "connect" \in nieOps /\ ~mSSLEnabled => connects > 0 /\ ~Reuse
    /\ pending["connect"] = 1 => ~mUpgradable
    /\ pending["option"] = 1 => mUpgradable /\ "upgrade" \in Uses

\* A session that is over is closing; a handshake was asked for.
OwnSession ==
    /\ mSSLConfigured /\ readsOver => mClosing
    /\ ctl = "handshake" => /\ "connect" \notin nieOps
                            /\ pending["connect"] = 1 \/ pending["option"] = 1

\* A Connect is with NIE or its handshake under way, as is an upgrade's.
HandshakeServed ==
    /\ pending["connect"] \in {0, 1} /\ pending["option"] \in {0, 1}
    /\ "connect" \in nieOps => pending["connect"] = 1
    /\ pending["connect"] = 1 => "connect" \in nieOps \/ HandshakeUnderWay
    /\ pending["option"] = 1 => HandshakeUnderWay

OwnInv == RightAnswer /\ OwnSession /\ HandshakeServed

\* Steps that neither ask for nor answer a Connect or an upgrade.
LEMMA OwnFrame ==
    ASSUME OwnInv, UNCHANGED <<connects, mUpgradable>>,
           UNCHANGED mSSLEnabled \/ pending["connect"] = 0,
           pending'["connect"] = pending["connect"], pending'["option"] = pending["option"],
           "connect" \in nieOps' <=> "connect" \in nieOps,
           ctl' = "handshake" => ctl = "handshake",
           mSSLConfigured' /\ readsOver' => mClosing',
           \/ pending["connect"] = 0 /\ pending["option"] = 0
           \/ HandshakeUnderWay => HandshakeUnderWay'
    PROVE  OwnInv'
BY DEF OwnInv, RightAnswer, OwnSession, HandshakeServed

\* A request that is neither is made or answered.
LEMMA OtherRequest ==
    ASSUME LinkInv, NEW r \in Requests \ {"connect", "option"}, Asked(r) \/ Completed(r)
    PROVE  pending'["connect"] = pending["connect"] /\ pending'["option"] = pending["option"]
<1>1. pending \in [Requests -> Int] /\ "connect" \in Requests /\ "option" \in Requests
  BY KnownRequests DEF LinkInv
<1> QED BY <1>1, OneRequest

LEMMA NoHandshakeAsked ==
    ASSUME NoControl PROVE pending["connect"] = 0 /\ pending["option"] = 0
BY KnownRequests DEF NoControl

\* The variables of the session HandshakeUnderWay and OwnSession look at.
sessionPart == <<mSSLConfigured, mClosing, mEstablished, readsOver, nieUp>>

\* A handshake or a read that goes on, and what NIE and the peer do.
LEMMA OwnInnerSteps ==
    ASSUME LinkInv, SessInv, OwnInv,
           \/ \E n : \/ HandshakeSends(n) \/ HandshakeFetches(n) \/ ReadFetches(n)
                     \/ ReadParses(n) \/ PutBytesStart(n)
           \/ HandshakeParses \/ SSLRecvCallback
           \/ PutCompleteCB \/ GetCompleteCB \/ NIETakes \/ Peer \/ UNCHANGED vars
    PROVE  OwnInv'
<1> USE DEF sendVars, recvVars, sendOnly, recvOnly, tlsVars, readVars, linkVars, mbedVars,
            OtherVars, sessionPart
<1>1. ASSUME UNCHANGED <<connects, mUpgradable, mSSLEnabled, pending, nieOps, ctl>>,
             UNCHANGED sessionPart, Waits => Waits'
      PROVE  OwnInv'
  BY <1>1, OwnFrame DEF OwnInv, OwnSession, HandshakeUnderWay
<1>2. ASSUME NEW n, HandshakeSends(n) \/ PutBytesStart(n) PROVE OwnInv'
  <2>1. /\ UNCHANGED <<connects, mUpgradable, mSSLEnabled, pending, nieOps, ctl>>
        /\ UNCHANGED sessionPart /\ UNCHANGED recvVars
    BY <1>2 DEF HandshakeSends, PutBytesStart
  <2> QED BY <1>1, <2>1 DEF Waits
<1>3. ASSUME NEW n, HandshakeFetches(n) \/ ReadFetches(n) \/ ReadParses(n) \/ HandshakeParses
      PROVE  OwnInv'
  <2>1. /\ UNCHANGED <<connects, mUpgradable, mSSLEnabled, pending, nieOps, ctl>>
        /\ UNCHANGED sessionPart /\ ctl # "idle"
    BY <1>3 DEF HandshakeFetches, ReadFetches, ReadParses, HandshakeParses, InHandshake, InRead,
                Recv!FetchInput, Recv!FetchUsed, Recv!ceVars
  <2> QED BY <1>1, <2>1 DEF Waits
<1>4. CASE SSLRecvCallback
  <2>1. /\ UNCHANGED <<connects, mUpgradable, mSSLEnabled, pending, nieOps, ctl>>
        /\ UNCHANGED sessionPart /\ recvPc # "out"
    BY <1>4, RecvSteps
       DEF SSLRecvCallback, Recv!SSLRecvCallback, Recv!RecvRefuse, Recv!RecvAskNIE,
           Recv!RecvAskNothing, Recv!RecvAsked, Recv!RecvNoCopy, Recv!RecvCopy, Recv!mbedVars
  <2> QED BY <1>1, <2>1 DEF Waits
<1>5. CASE PutCompleteCB \/ GetCompleteCB \/ NIETakes \/ Peer
  <2>1. /\ UNCHANGED <<connects, mUpgradable, mSSLEnabled, pending, nieOps, ctl>>
        /\ UNCHANGED sessionPart /\ UNCHANGED <<recvPc, fetchRet>>
    BY <1>5 DEF PutCompleteCB, GetCompleteCB, NIETakes, Peer, Send!NIETakes, Recv!PeerSends,
             Recv!PeerCloses, Recv!GetCompleteData, Recv!GetCompleteEOF, Recv!GetCompleteError,
             Recv!GetAnswered, Recv!ceVars, Recv!mbedVars
  <2> QED BY <1>1, <2>1 DEF Waits
<1>6. CASE UNCHANGED vars
  <2>1. /\ UNCHANGED <<connects, mUpgradable, mSSLEnabled, pending, nieOps, ctl>>
        /\ UNCHANGED sessionPart /\ UNCHANGED <<recvPc, fetchRet>>
    BY <1>6 DEF vars
  <2> QED BY <1>1, <2>1 DEF Waits
<1> QED BY <1>2, <1>3, <1>4, <1>5, <1>6

\* A handshake that waits, is taken up again, or ends.
LEMMA OwnHandshakeSteps ==
    ASSUME LinkInv, SessInv, OwnInv, NoStrayAnswer,
           \/ HandshakeWaits \/ ReadWaits \/ HandleRequest
           \/ HandshakeSucceeds \/ HandshakeFails
    PROVE  OwnInv'
<1> USE DEF sendVars, recvVars, sendOnly, recvOnly, tlsVars, readVars, linkVars, mbedVars,
            sessionPart
<1>1. CASE HandshakeWaits \/ ReadWaits
  <2>1. /\ UNCHANGED <<connects, mUpgradable, mSSLEnabled, pending, nieOps>>
        /\ UNCHANGED sessionPart /\ ctl' = "idle" /\ recvPc' = "out" /\ fetchRet' = "wantRead"
    BY <1>1 DEF HandshakeWaits, ReadWaits, InHandshake, InRead
  <2> QED BY <2>1, OwnFrame DEF OwnInv, OwnSession, HandshakeUnderWay, Waits
<1>2. CASE HandleRequest
  <2>1. /\ UNCHANGED <<connects, mUpgradable, mSSLEnabled, pending, nieOps>>
        /\ UNCHANGED sessionPart /\ ctl = "idle" /\ tlsEvent /\ mSSLConfigured
        /\ ctl' = IF mClosing THEN "idle"
              ELSE IF ~mEstablished THEN "handshake"
              ELSE IF mSSLReadSize > 0 THEN "read"
              ELSE "idle"
    BY <1>2 DEF HandleRequest, Recv!HandleTLSEvent, LinkInv, NothingDangling
  <2>2. ASSUME ctl' = "handshake"
        PROVE  "connect" \notin nieOps /\ (pending["connect"] = 1 \/ pending["option"] = 1)
    <3>1. ~mClosing /\ ~mEstablished /\ ~readsOver
      BY <2>1, <2>2 DEF OwnInv, OwnSession
    <3>2. ~Quiet /\ ~Established
      BY <2>1, <3>1 DEF Quiet, Established
    <3>3. Busy
      BY <2>1, <3>1, <3>2 DEF SessInv, SessionHasOwner
    <3>4. pending["connect"] \in {0, 1} /\ pending["option"] \in {0, 1}
      BY DEF OwnInv, HandshakeServed
    <3> QED BY <3>3, <3>4 DEF Busy
  <2>3. HandshakeUnderWay => HandshakeUnderWay'
    BY <2>1 DEF HandshakeUnderWay
  <2> QED BY <2>1, <2>2, <2>3 DEF OwnInv, RightAnswer, OwnSession, HandshakeServed
<1>3. CASE HandshakeSucceeds \/ HandshakeFails
  <2>1. /\ ctl = "handshake" /\ ctl' = "idle" /\ mSSLConfigured
        /\ UNCHANGED <<connects, mUpgradable, mSSLEnabled, nieOps>>
        /\ IF mUpgradable THEN Completed("option") ELSE Completed("connect")
        /\ mEstablished' \/ mClosing'
    BY <1>3 DEF HandshakeSucceeds, HandshakeFails, InHandshake, NoStrayAnswer, LinkInv, CallNeedsSSL
  <2>2. mSSLConfigured' /\ readsOver' => mClosing'
    BY <1>3 DEF HandshakeSucceeds, HandshakeFails, OwnInv, OwnSession
  <2>3. "connect" \notin nieOps /\ (pending["connect"] = 1 \/ pending["option"] = 1)
    BY <2>1 DEF OwnInv, OwnSession
  <2>4. /\ pending["connect"] = IF mUpgradable THEN 0 ELSE 1
        /\ pending["option"] = IF mUpgradable THEN 1 ELSE 0
    BY <2>3 DEF OwnInv, RightAnswer, HandshakeServed
  <2>5. "connect" \in Requests /\ "option" \in Requests /\ pending \in [Requests -> Int]
    BY KnownRequests DEF LinkInv
  <2>6. CASE mUpgradable
    <3>1. pending'["connect"] = pending["connect"] /\ pending'["option"] = pending["option"] - 1
      BY <2>1, <2>5, <2>6, OneRequest
    <3>2. pending'["connect"] = 0 /\ pending'["option"] = 0
      BY <2>4, <2>6, <3>1
    <3> QED BY <2>1, <2>2, <2>3, <3>2 DEF OwnInv, RightAnswer, OwnSession, HandshakeServed
  <2>7. CASE ~mUpgradable
    <3>1. pending'["connect"] = pending["connect"] - 1 /\ pending'["option"] = pending["option"]
      BY <2>1, <2>5, <2>7, OneRequest
    <3>2. pending'["connect"] = 0 /\ pending'["option"] = 0
      BY <2>4, <2>7, <3>1
    <3> QED BY <2>1, <2>2, <2>3, <3>2 DEF OwnInv, RightAnswer, OwnSession, HandshakeServed
  <2> QED BY <2>6, <2>7
<1> QED BY <1>1, <1>2, <1>3

\* Reads, transfers and closing.
LEMMA OwnTransferSteps ==
    ASSUME LinkInv, SessInv, OwnInv,
           \/ ReadData \/ ReadEOF \/ ReadCloseNotify \/ ReadFails
           \/ RawPutStart \/ RawGetStart \/ \E r \in {"put", "get"} : RawCompleteCB(r)
           \/ \E size, threshold : GetBytesStart(size, threshold)
           \/ CloseStart \/ NIECloses \/ CloseReturns \/ CloseCompleteCB
    PROVE  OwnInv'
<1> USE DEF sendVars, recvVars, sendOnly, recvOnly, tlsVars, readVars, linkVars, mbedVars,
            OtherVars, sessionPart
<1>0. {"put", "get", "close"} \subseteq Requests \ {"connect", "option"}
  BY KnownRequests
<1>1. CASE ReadData \/ ReadEOF \/ ReadCloseNotify \/ ReadFails
  <2>1. /\ ctl = "read" /\ ctl' \in {"read", "idle"}
        /\ UNCHANGED <<connects, mUpgradable, mSSLEnabled, nieOps>>
        /\ Completed("get") \/ UNCHANGED pending
        /\ mClosing' \/ UNCHANGED mClosing
    BY <1>1 DEF ReadData, ReadEOF, ReadCloseNotify, ReadFails, ReadReturned, ReadEnds, InRead
  <2>2. mSSLConfigured' /\ readsOver' => mClosing'
    BY <1>1 DEF ReadData, ReadEOF, ReadCloseNotify, ReadFails, ReadReturned, ReadEnds,
                Recv!FetchUsed, Recv!ceVars, OwnInv, OwnSession
  <2>3. pending'["connect"] = pending["connect"] /\ pending'["option"] = pending["option"]
    BY <1>0, <2>1, OtherRequest
  <2> QED BY <2>1, <2>2, <2>3, OwnFrame DEF HandshakeUnderWay, Waits
<1>2. CASE RawPutStart \/ RawGetStart \/ \E r \in {"put", "get"} : RawCompleteCB(r)
  <2>1. /\ UNCHANGED <<connects, mUpgradable, mSSLEnabled, nieOps, ctl>>
        /\ UNCHANGED sessionPart /\ UNCHANGED <<recvPc, fetchRet>>
        /\ \E r \in {"put", "get"} : Asked(r) \/ Completed(r)
    BY <1>2 DEF RawPutStart, RawGetStart, RawCompleteCB
  <2>2. pending'["connect"] = pending["connect"] /\ pending'["option"] = pending["option"]
    BY <1>0, <2>1, OtherRequest
  <2> QED BY <2>1, <2>2, OwnFrame DEF HandshakeUnderWay, Waits, OwnInv, OwnSession
<1>3. ASSUME NEW size, NEW threshold, GetBytesStart(size, threshold) PROVE OwnInv'
  <2>1. /\ UNCHANGED <<connects, mUpgradable, mSSLEnabled, nieOps>>
        /\ UNCHANGED sessionPart /\ Asked("get") /\ ctl' = "read" /\ NoControl
    BY <1>3 DEF GetBytesStart, GetAllowed
  <2>2. pending'["connect"] = pending["connect"] /\ pending'["option"] = pending["option"]
    BY <1>0, <2>1, OtherRequest
  <2> QED BY <2>1, <2>2, NoHandshakeAsked, OwnFrame DEF OwnInv, OwnSession
<1>4. CASE CloseStart
  <2>1. /\ UNCHANGED <<connects, mUpgradable, mSSLEnabled>> /\ UNCHANGED sessionPart
        /\ ctl' = "closing" /\ nieOps' = {"close"}
        /\ pending' = [r \in Requests |-> IF r = "close" THEN 1 ELSE 0]
    BY <1>4 DEF CloseStart
  <2>2. pending'["connect"] = 0 /\ pending'["option"] = 0
    BY <2>1, KnownRequests
  <2> QED BY <2>1, <2>2 DEF OwnInv, RightAnswer, OwnSession, HandshakeServed
<1>5. CASE NIECloses \/ CloseReturns
  <2>1. /\ UNCHANGED <<connects, mUpgradable, mSSLEnabled, nieOps, pending>>
        /\ ctl = "closing" /\ ctl' \in {"closing", "idle"}
    BY <1>5 DEF NIECloses, CloseReturns
  <2>2. mSSLConfigured' /\ readsOver' => mClosing'
    BY <1>5 DEF NIECloses, CloseReturns, Recv!RecvNIEDown, Recv!ceVars, Recv!mbedVars,
                Send!SendUnconfigure, OwnInv, OwnSession
  <2> QED BY <2>1, <2>2, OwnFrame DEF HandshakeUnderWay, Waits
<1>6. CASE CloseCompleteCB
  <2>1. /\ UNCHANGED <<connects, mUpgradable, mSSLEnabled, ctl>>
        /\ UNCHANGED sessionPart /\ UNCHANGED <<recvPc, fetchRet>>
        /\ Completed("close") /\ "close" \in nieOps /\ nieOps' = {}
    BY <1>6 DEF CloseCompleteCB
  <2>2. nieOps = {"close"}
    BY <2>1 DEF LinkInv, ClosingIsAlone
  <2>3. pending'["connect"] = pending["connect"] /\ pending'["option"] = pending["option"]
    BY <1>0, <2>1, OtherRequest
  <2> QED BY <2>1, <2>2, <2>3, OwnFrame DEF HandshakeUnderWay, Waits, OwnInv, OwnSession
<1> QED BY <1>1, <1>2, <1>3, <1>4, <1>5, <1>6

\* Control requests and their answers, but for Connects and upgrades.
LEMMA OwnControlSteps ==
    ASSUME LinkInv, SessInv, OwnInv,
           \/ OpenStart \/ TerminateStart \/ \E r \in ForwardOps : ForwardStart(r)
           \/ ConnectStartFails \/ DeleteAndNew
           \/ OpenCompleteCB \/ TerminateCompleteCB
           \/ \E r \in ForwardOps : ForwardCompleteCB(r)
    PROVE  OwnInv'
<1> USE DEF sendVars, recvVars, sendOnly, recvOnly, tlsVars, readVars, linkVars, mbedVars,
            sessionPart
<1>0. {"open", "terminate"} \cup ForwardOps \subseteq Requests \ {"connect", "option"}
  BY KnownRequests, CEConstants
<1>1. CASE OpenStart
  <2>1. /\ UNCHANGED <<connects, mUpgradable, ctl>> /\ nieOps' = nieOps \cup {"open"}
        /\ Asked("open") /\ NoControl /\ ~mSSLConfigured'
    BY <1>1 DEF OpenStart
  <2>2. pending'["connect"] = pending["connect"] /\ pending'["option"] = pending["option"]
    BY <1>0, <2>1, OtherRequest
  <2> QED BY <2>1, <2>2, NoHandshakeAsked, OwnFrame
<1>2. CASE TerminateStart
  <2>1. /\ UNCHANGED <<connects, mUpgradable, mSSLEnabled, ctl>>
        /\ nieOps' = nieOps \cup {"terminate"} /\ Asked("terminate") /\ NoControl
    BY <1>2 DEF TerminateStart
  <2>2. mSSLConfigured' /\ readsOver' => mClosing'
    BY <1>2 DEF TerminateStart, OwnInv, OwnSession
  <2>3. pending'["connect"] = pending["connect"] /\ pending'["option"] = pending["option"]
    BY <1>0, <2>1, OtherRequest
  <2> QED BY <2>1, <2>2, <2>3, NoHandshakeAsked, OwnFrame
<1>3. ASSUME NEW r \in ForwardOps, ForwardStart(r) PROVE OwnInv'
  <2>1. /\ UNCHANGED <<connects, mUpgradable, mSSLEnabled, ctl>> /\ UNCHANGED sessionPart
        /\ nieOps' = nieOps \cup {r} /\ Asked(r) /\ NoControl /\ r # "connect"
    BY <1>0, <1>3 DEF ForwardStart
  <2>2. pending'["connect"] = pending["connect"] /\ pending'["option"] = pending["option"]
    BY <1>0, <2>1, OtherRequest
  <2> QED BY <2>1, <2>2, NoHandshakeAsked, OwnFrame DEF OwnInv, OwnSession
<1>4. CASE ConnectStartFails \/ DeleteAndNew
  <2>1. /\ UNCHANGED <<pending, nieOps, mSSLEnabled, ctl>> /\ UNCHANGED sessionPart
        /\ NoControl /\ ctl = "idle"
        /\ \/ connects' = connects + 1 /\ UNCHANGED mUpgradable
           \/ connects' = 0 /\ ~mUpgradable'
    BY <1>4 DEF ConnectStartFails, ConnectAllowed, DeleteAndNew
  <2>2. pending["connect"] = 0 /\ pending["option"] = 0
    BY <2>1, NoHandshakeAsked
  <2>3. "connect" \notin nieOps /\ connects \in Nat
    BY <2>2 DEF OwnInv, RightAnswer, HandshakeServed
  <2>4. connects' \in Nat /\ (mUpgradable' => connects' > 0 /\ mUpgradable)
    BY <2>1, <2>3
  <2> QED BY <2>1, <2>2, <2>3, <2>4 DEF OwnInv, RightAnswer, OwnSession, HandshakeServed
<1>5. CASE OpenCompleteCB \/ \E r \in ForwardOps : ForwardCompleteCB(r)
  <2>1. /\ UNCHANGED <<connects, mUpgradable, mSSLEnabled, ctl>>
        /\ UNCHANGED sessionPart /\ UNCHANGED <<recvPc, fetchRet>>
        /\ \E r \in {"open"} \cup ForwardOps : Completed(r) /\ nieOps' = nieOps \ {r}
    BY <1>5 DEF OpenCompleteCB, ForwardCompleteCB
  <2>2. pending'["connect"] = pending["connect"] /\ pending'["option"] = pending["option"]
    BY <1>0, <2>1, OtherRequest
  <2>3. "connect" \in nieOps' <=> "connect" \in nieOps
    BY <1>0, <2>1
  <2> QED BY <2>1, <2>2, <2>3, OwnFrame DEF HandshakeUnderWay, Waits, OwnInv, OwnSession
<1>6. CASE TerminateCompleteCB
  <2>1. /\ UNCHANGED <<connects, mUpgradable, mSSLEnabled, ctl>> /\ "terminate" \in nieOps
        /\ nieOps' = nieOps \ {"terminate"}
        /\ UNCHANGED <<mSSLConfigured, mClosing, readsOver>>
        /\ pending' = [pending EXCEPT !["terminate"] = pending["terminate"] - 1,
                                      !["put"] = 0, !["get"] = 0]
    BY <1>6 DEF TerminateCompleteCB, Send!NIEDown, Recv!RecvNIEDown, Recv!mbedVars
  <2>2. pending'["connect"] = pending["connect"] /\ pending'["option"] = pending["option"]
    BY <2>1, KnownRequests DEF LinkInv
  <2>3. pending["connect"] = 0 /\ pending["option"] = 0
    BY <2>1 DEF SessInv, EndingIsAlone, OwnInv, HandshakeServed
  <2> QED BY <2>1, <2>2, <2>3, OwnFrame DEF OwnInv, OwnSession
<1> QED BY <1>1, <1>2, <1>3, <1>4, <1>5, <1>6

\* Connects and upgrades.
LEMMA OwnConnectSteps ==
    ASSUME OneKind, LinkInv, SessInv, ConnectedIsUp, OwnInv,
           \/ ConnectStart \/ ConnectCompleteCB \/ ConnectCompleteCBError
           \/ \E enabled \in BOOLEAN : EnableOption(enabled)
    PROVE  OwnInv'
<1> USE DEF sendVars, recvVars, sendOnly, recvOnly, tlsVars, readVars, linkVars, mbedVars,
            sessionPart
<1>0. /\ "connect" \in Requests /\ "option" \in Requests /\ pending \in [Requests -> Int]
      /\ connects \in Nat
  BY KnownRequests DEF LinkInv, OwnInv, RightAnswer
<1>1. CASE ConnectStart
  <2>1. /\ UNCHANGED <<mUpgradable, mSSLEnabled, ctl>> /\ nieOps' = nieOps \cup {"connect"}
        /\ Asked("connect") /\ NoControl /\ ctl = "idle" /\ connects' = connects + 1
        /\ connects = 0 \/ Reuse
        /\ mSSLEnabled \/ "clear" \in Uses
    BY <1>1 DEF ConnectStart, ConnectAllowed
  <2>2. pending'["connect"] = pending["connect"] + 1 /\ pending'["option"] = pending["option"]
    BY <1>0, <2>1, OneRequest
  <2>3. pending'["connect"] = 1 /\ pending'["option"] = 0
    BY <2>1, <2>2, NoHandshakeAsked
  <2>4. ~mUpgradable /\ (mSSLEnabled \/ ~Reuse)
    BY <1>1, <2>1 DEF OneKind, OwnInv, RightAnswer, ConnectStart, ConnectAllowed
  <2>5. RightAnswer' /\ HandshakeServed'
    BY <1>0, <2>1, <2>3, <2>4 DEF RightAnswer, HandshakeServed
  <2>6. mSSLConfigured' /\ readsOver' => mClosing'
    BY <1>1, Configured DEF ConnectStart, OwnInv, OwnSession
  <2> QED BY <2>1, <2>5, <2>6 DEF OwnInv, OwnSession
<1>2. CASE ConnectCompleteCB \/ ConnectCompleteCBError
  <2>1. /\ UNCHANGED <<connects, mSSLEnabled>> /\ "connect" \in nieOps
        /\ nieOps' = nieOps \ {"connect"} /\ ctl = "idle"
        /\ UNCHANGED <<mSSLConfigured, mClosing, mEstablished, readsOver>>
    BY <1>2 DEF ConnectCompleteCB, ConnectCompleteCBError, Send!NIEUp, Recv!RecvNIEUp,
                Recv!mbedVars
  <2>2. pending["connect"] = 1 /\ pending["option"] = 0 /\ ~mUpgradable
    BY <2>1 DEF OwnInv, RightAnswer, HandshakeServed
  <2>3. CASE ConnectCompleteCB /\ mSSLEnabled
    <3>1. ctl' = "handshake" /\ UNCHANGED <<pending, mUpgradable>> /\ nieUp'
      BY <2>3 DEF ConnectCompleteCB, Send!NIEUp
    <3>2. mSSLConfigured /\ ~mEstablished /\ ~mClosing
      BY <2>1, <2>3 DEF SessInv, FreshConnection
    <3>3. HandshakeUnderWay'
      BY <2>1, <3>1, <3>2 DEF HandshakeUnderWay
    <3> QED BY <2>1, <2>2, <3>1, <3>3 DEF OwnInv, RightAnswer, OwnSession, HandshakeServed
  <2>4. CASE (ConnectCompleteCB /\ ~mSSLEnabled) \/ ConnectCompleteCBError
    <3>1. /\ Completed("connect") /\ UNCHANGED ctl
          /\ UNCHANGED mUpgradable \/ ~mSSLEnabled
      BY <2>4 DEF ConnectCompleteCB, ConnectCompleteCBError
    <3>2. pending'["connect"] = pending["connect"] - 1 /\ pending'["option"] = pending["option"]
      BY <1>0, <3>1, OneRequest
    <3>3. pending'["connect"] = 0 /\ pending'["option"] = 0
      BY <2>2, <3>2
    <3> QED BY <2>1, <2>2, <3>1, <3>3 DEF OwnInv, RightAnswer, OwnSession, HandshakeServed
  <2> QED BY <1>2, <2>3, <2>4
<1>3. ASSUME NEW enabled \in BOOLEAN, EnableOption(enabled) PROVE OwnInv'
  <2>1. /\ UNCHANGED <<connects, mUpgradable, nieOps>> /\ NoControl /\ ctl = "idle"
    BY <1>3 DEF EnableOption
  <2>2. pending["connect"] = 0 /\ pending["option"] = 0
    BY <2>1, NoHandshakeAsked
  <2>3. "connect" \notin nieOps
    BY <2>2 DEF OwnInv, HandshakeServed
  <2>4. CASE mUpgradable /\ SSLConfigure /\ ctl' = "handshake" /\ Asked("option")
    <3>1. link = "connected" /\ "upgrade" \in Uses
      BY <1>3, <2>4 DEF EnableOption, OwnInv, RightAnswer
    <3>2. nieUp
      <4>1. "close" \notin nieOps
        BY <2>1, KnownRequests DEF NoControl, LinkInv, ClosingIsAlone
      <4> QED BY <2>1, <3>1, <4>1 DEF ConnectedIsUp, Gone
    <3>3. pending'["option"] = pending["option"] + 1 /\ pending'["connect"] = pending["connect"]
      BY <1>0, <2>4, OneRequest
    <3>4. pending'["option"] = 1 /\ pending'["connect"] = 0
      BY <2>2, <3>3
    <3>5. HandshakeUnderWay' /\ ~readsOver'
      BY <2>4, <3>2, Configured DEF HandshakeUnderWay
    <3> QED BY <2>1, <2>3, <2>4, <3>1, <3>4, <3>5
            DEF OwnInv, RightAnswer, OwnSession, HandshakeServed
  <2>5. CASE UNCHANGED <<mSSLConfigured, nieUp, sendOnly, recvOnly, mEstablished,
                          mClosing, readVars, mbedVars, clientGot, ctl, pending>>
    <3>1. UNCHANGED <<pending, ctl, mSSLConfigured, readsOver, mClosing>>
      BY <2>5
    <3> QED BY <2>1, <2>2, <2>3, <3>1 DEF OwnInv, RightAnswer, OwnSession, HandshakeServed
  <2> QED BY <1>3, <2>4, <2>5 DEF EnableOption
<1> QED BY <1>1, <1>2, <1>3

\* The invariant, for steps that are not stray.
LEMMA OwnStep ==
    ASSUME OneKind
    PROVE  /\ LinkInv /\ SessInv /\ ConnectedIsUp /\ OwnInv
           /\ [CENext]_vars /\ [NoStrayAnswer]_vars
           => OwnInv'
<1> SUFFICES ASSUME LinkInv, SessInv, ConnectedIsUp, OwnInv, [CENext]_vars, [NoStrayAnswer]_vars
             PROVE  OwnInv'
  OBVIOUS
<1>1. CASE UNCHANGED vars
  BY <1>1, OwnInnerSteps
<1> SUFFICES ASSUME CENext, NoStrayAnswer PROVE OwnInv'
  BY <1>1
<1>2. CASE Client
  <2>1. ~PutFails
    BY DEF NoStrayAnswer
  <2> QED BY <1>1, <1>2, <2>1, OwnControlSteps, OwnConnectSteps, OwnTransferSteps, OwnInnerSteps
          DEF Client, ClientDone, PutRefused, GetRefused, KillRefused
<1>3. CASE Task
  BY <1>3, OwnInnerSteps, OwnHandshakeSteps, OwnTransferSteps DEF Task, Handshake, Read
<1>4. ASSUME NEW r \in {"put", "get"}, RawCompleteCB(r) PROVE OwnInv'
  BY <1>4, OwnTransferSteps
<1>5. CASE ControlCB \/ PutCompleteCB \/ GetCompleteCB \/ NIETakes \/ Peer
  BY <1>5, OwnControlSteps, OwnConnectSteps, OwnTransferSteps, OwnInnerSteps DEF ControlCB
<1> QED BY <1>2, <1>3, <1>4, <1>5 DEF CENext

LEMMA OwnInitially == CEInit => OwnInv
<1> SUFFICES ASSUME CEInit PROVE OwnInv
  OBVIOUS
<1>1. /\ \A r \in Requests : pending[r] = 0
      /\ nieOps = {} /\ ~mSSLConfigured /\ ctl = "idle" /\ connects = 0 /\ ~mUpgradable
  BY DEF CEInit, Send!SendInit
<1> QED BY <1>1, KnownRequests DEF OwnInv, RightAnswer, OwnSession, HandshakeServed

LEMMA OwnAlways ==
    ASSUME OneKind PROVE CESpec /\ [][NoStrayAnswer]_vars => []OwnInv
BY OwnInitially, OwnStep, SessAlways, LinkInvariant, UpAlways, PTL DEF CESpec

LEMMA AskedOnce == AskInv /\ OwnInv => CompletionsMatchRequests
BY KnownRequests
   DEF AskInv, HeldExactly, RawExactly, GetAsked, OwnInv, HandshakeServed, CompletionsMatchRequests

\* Every completion the client gets answers a request it made, once, for every
\* client that keeps an instance to one kind of connection, as long as no Put
\* fails on an established session and no upgrade is rejected: what the three
\* violating runs show is all that goes wrong.
THEOREM CompletionsMatchUnlessStray ==
    ASSUME OneKind
    PROVE  CESpec /\ [][NoStrayAnswer]_vars => []CompletionsMatchRequests
BY AskedOnce, AskAlways, OwnAlways, PTL

\* Under the same conditions DoSSLHandshake only runs on a connection that is
\* up; ce_clear_then_tls shows it run on none.
THEOREM HandshakesConnectedUnlessStray ==
    ASSUME OneKind
    PROVE  CESpec /\ [][NoStrayAnswer]_vars => []HandshakeOnConnection
<1>1. OwnInv => HandshakeOnConnection
  BY DEF OwnInv, OwnSession, HandshakeServed, HandshakeUnderWay, HandshakeOnConnection
<1> QED BY <1>1, OwnAlways, PTL

\* A Connect or an upgrade the client waits for is with NIE, its handshake
\* runs, or something will run it again.
ConnectServed ==
    /\ pending["connect"] = 1 => "connect" \in nieOps \/ ctl = "handshake" \/ Woken
    /\ pending["option"] = 1 => ctl = "handshake" \/ Woken

\* ... and neither is forgotten while ConnectComplete or ProcessOptionComplete
\* is left to a TLS event: a handshake that waits has a Get or an event.
THEOREM ConnectsServedUnlessStray ==
    ASSUME OneKind, ~SyncEOF
    PROVE  CESpec /\ [][NoStrayAnswer]_vars => []ConnectServed
<1>1. OwnInv /\ Recv!NoLostWakeup => ConnectServed
  BY DEF OwnInv, HandshakeServed, HandshakeUnderWay, Waits, Recv!NoLostWakeup, ConnectServed, Woken
<1> QED BY <1>1, OwnAlways, WaitersAlwaysWoken, PTL

\* A condition on the constants only: clients that do not upgrade and keep an
\* instance to one kind of connection, on an NIE that fails no Put of a
\* connection that is up.
PlainUse == "put" \notin Faults /\ "upgrade" \notin Uses /\ OneKind

LEMMA PlainIsOwn == ASSUME PlainUse PROVE CESpec => []OwnInv
<1>1. LinkInv /\ LiveInv /\ OwnInv => NoStrayAnswer
  <2> SUFFICES ASSUME LinkInv, LiveInv, OwnInv PROVE NoStrayAnswer
    OBVIOUS
  <2>1. ~PutFails
    BY NoPutFails
  <2>2. ~(HandshakeFails /\ mUpgradable)
    BY DEF PlainUse, HandshakeFails, InHandshake, OwnInv, OwnSession, RightAnswer
  <2> QED BY <2>1, <2>2 DEF NoStrayAnswer
<1>2. /\ "put" \notin Faults /\ OneKind
  BY DEF PlainUse
<1>3. CESpec => []LiveInv
  BY <1>2, LiveAlways
<1>4. LinkInv /\ SessInv /\ ConnectedIsUp /\ LiveInv /\ OwnInv /\ [CENext]_vars => OwnInv'
  BY <1>1, <1>2, OwnStep
<1> QED BY <1>3, <1>4, OwnInitially, SessAlways, LinkInvariant, UpAlways, PTL DEF CESpec

\* For them every completion answers a request that was made, once, although
\* DoSSLHandshake and DoSSLRead call ConnectComplete and GetComplete from TLS
\* events: neither of the two stray steps can happen.
THEOREM CompletionsAlwaysMatch ==
    ASSUME PlainUse
    PROVE  CESpec => []CompletionsMatchRequests
BY AskedOnce, AskAlways, PlainIsOwn, PTL
=============================================================================
