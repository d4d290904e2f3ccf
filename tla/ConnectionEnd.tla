---------------------------- MODULE ConnectionEnd ----------------------------
(***************************************************************************)
(* PMbedTLSConnectionEnd: the connection end that stands between a client  *)
(* (an endpoint, through mInetCECallBack) and the Newton Internet          *)
(* Enabler's own connection end (NIE, mInetPConnectionEnd).  A client      *)
(* request is forwarded to NIE, or, once SSL is configured, served by      *)
(* mbedtls; NIE's completions are forwarded to the client, or feed the     *)
(* sending and the receiving half (SendPath and RecvPath, instantiated     *)
(* here on the same variables).                                            *)
(*                                                                         *)
(* All handlers run in the communication tool's task, one at a time.  The  *)
(* variable ctl says which mbedtls call, if any, the task is in; mbedtls   *)
(* itself is external and modelled by what it asks of the callbacks and    *)
(* what it may return.                                                     *)
(*                                                                         *)
(* The client follows the rules of the endpoint protocol: one control      *)
(* request at a time, one Put and one Get at a time on an established      *)
(* link, no transfer outstanding when it upgrades a connection (as in the  *)
(* STARTTLS test), requests that a disconnect or close overtakes are       *)
(* ended by the framework.                                                 *)
(***************************************************************************)
EXTENDS Integers, Sequences

CONSTANTS
    MaxWritten, MaxChunk, MaxPeer, MaxWant, SyncEOF,   \* see the two halves
    HsRecords,   \* records of the peer a handshake takes
    MaxConnects, \* bound: Connect requests of the client
    MaxGet,      \* bound: size of the client's Get buffer, and of decrypted data
    Thresholds,  \* thresholds of the client's Gets (0: GetBytesStart)
    Uses,        \* the client's connections: "tls" from the start, "clear",
                 \* and "upgrade" of a clear one
    Reuse,       \* may the client connect again on the same instance?
    Faults,      \* which of "configure", "reject", "put", "get" may fail
    EOFReturns,  \* what mbedtls_ssl_read returns at the end of the stream
    ForwardOps   \* requests that are forwarded whatever the state

ASSUME CEConstants ==
    /\ MaxWritten \in Nat /\ MaxChunk \in Nat \ {0} /\ MaxPeer \in Nat
    /\ MaxWant \in Nat \ {0} /\ SyncEOF \in BOOLEAN
    /\ HsRecords \in Nat \ {0} /\ MaxConnects \in Nat /\ MaxGet \in Nat \ {0}
    /\ Thresholds \subseteq 0 .. MaxGet /\ Uses \subseteq {"tls", "clear", "upgrade"}
    /\ Reuse \in BOOLEAN /\ Faults \subseteq {"configure", "reject", "put", "get"}
    /\ EOFReturns \subseteq {"zero", "connEOF"}
    /\ ForwardOps \cap {"open", "connect", "terminate", "close", "put", "get", "option"} = {}

VARIABLES
    mSSLConfigured, mSendBuffer, mPutDataBuffer, putPosition, mSendPending,
    mSendError, niePuts, nieUp, written, wire,
    mSSLRecvBuffer, mGetSize, mRecvPending, mSSLReceiveInProgress, mRecvError,
    mPeerClosed, tlsEvent, recvPc, want, fetchRet, readsOver, nieGets,
    peerSent, peerDone, given, received,
    mSSLEnabled,      \* from the enable option
    mUpgradable,      \* a clear connection was established
    mEstablished,     \* the handshake is done
    mClosing,         \* the TLS session is over
    mSSLReadSize,     \* size of mSSLReadBuffer; 0 when it is NULL
    mSSLReadCount,    \* bytes in it
    getThreshold,     \* the client's current Get threshold
    ctl,              \* "idle", or in "handshake", "read", "closing"
    hsLeft,           \* external: records mbedtls' handshake still needs
    hsFlight,         \* external: mbedtls has a flight to send first
    appAvail,         \* external: decrypted bytes mbedtls holds
    appRead,          \* history: bytes mbedtls_ssl_read has returned
    clientGot,        \* history: bytes the client's Gets were completed with
    pending,          \* client: requests minus completions, per request
    link,             \* client: "closed", "open", "connected", "failed"
    connects,         \* client: Connects on this instance
    allConnects,      \* client: Connects so far
    nieOps,           \* external: control requests NIE has not completed
    nieRaw            \* external: Puts and Gets of the client NIE has

sendOnly == <<mSendBuffer, mPutDataBuffer, putPosition, mSendPending,
              mSendError, niePuts, written, wire>>
recvOnly == <<mSSLRecvBuffer, mGetSize, mRecvPending, mSSLReceiveInProgress,
              mRecvError, mPeerClosed, tlsEvent, recvPc, want, fetchRet,
              readsOver, nieGets, peerSent, peerDone, given, received>>
tlsVars  == <<mSSLEnabled, mUpgradable, mEstablished, mClosing>>
readVars == <<mSSLReadSize, mSSLReadCount, getThreshold>>
mbedVars == <<hsLeft, hsFlight, appAvail, appRead>>
linkVars == <<link, connects, allConnects>>
vars == <<mSSLConfigured, nieUp, sendOnly, recvOnly, tlsVars, readVars, ctl,
          mbedVars, clientGot, pending, linkVars, nieOps, nieRaw>>

Send == INSTANCE SendPath
Recv == INSTANCE RecvPath

OtherVars == <<tlsVars, readVars, ctl, mbedVars, clientGot, pending, linkVars,
               nieOps, nieRaw>>
sendVars == <<mSSLConfigured, nieUp, sendOnly>>
recvVars == <<mSSLConfigured, nieUp, recvOnly>>

Requests == {"open", "connect", "terminate", "close", "put", "get", "option"}
            \cup ForwardOps
Control == Requests \ {"put", "get"}

CEInit ==
    /\ Send!SendInit /\ Recv!RecvInit
    /\ mSSLEnabled = FALSE /\ mUpgradable = FALSE
    /\ mEstablished = FALSE /\ mClosing = FALSE
    /\ mSSLReadSize = 0 /\ mSSLReadCount = 0 /\ getThreshold = 0
    /\ ctl = "idle" /\ hsLeft = 0 /\ hsFlight = FALSE
    /\ appAvail = 0 /\ appRead = 0 /\ clientGot = 0
    /\ pending = [r \in Requests |-> 0]
    /\ link = "closed" /\ connects = 0 /\ allConnects = 0
    /\ nieOps = {} /\ nieRaw = {}

(***************************************************************************)
(* Requests and completions, as the client sees them.                      *)
(***************************************************************************)
NoControl == \A r \in Control : pending[r] = 0
Asked(r) == pending' = [pending EXCEPT ![r] = @ + 1]
Completed(r) == pending' = [pending EXCEPT ![r] = @ - 1]

(***************************************************************************)
(* SSLConfigure: both halves and the read state start afresh.  It runs for *)
(* a connection that is about to be made, or on a clear one.               *)
(***************************************************************************)
\* Mutant: mSendPending, mSendError and the send buffers are not reset.
SSLConfigureKeepsSend ==
    /\ Recv!RecvConfigure
    /\ UNCHANGED sendOnly
    /\ mEstablished' = FALSE /\ mClosing' = FALSE
    /\ mSSLReadSize' = 0
    /\ hsLeft' = HsRecords /\ hsFlight' = TRUE
    /\ appAvail' = 0 /\ appRead' = 0 /\ clientGot' = 0
    /\ UNCHANGED <<mSSLReadCount, getThreshold>>

\* Mutant: mRecvPending, mRecvError and mPeerClosed are not reset.
SSLConfigureKeepsRecv ==
    /\ Send!SendConfigure
    /\ mSSLRecvBuffer' = <<>> /\ mGetSize' = 0
    /\ want' = 0 /\ fetchRet' = "none" /\ readsOver' = FALSE
    /\ peerSent' = 0 /\ peerDone' = FALSE /\ given' = 0 /\ received' = <<>>
    /\ mEstablished' = FALSE /\ mClosing' = FALSE
    /\ mSSLReadSize' = 0
    /\ hsLeft' = HsRecords /\ hsFlight' = TRUE
    /\ appAvail' = 0 /\ appRead' = 0 /\ clientGot' = 0
    /\ UNCHANGED <<mSSLReadCount, getThreshold, mRecvPending, mSSLReceiveInProgress,
                   mRecvError, mPeerClosed, tlsEvent, recvPc, nieGets>>

SSLConfigure ==
    /\ Send!SendConfigure /\ Recv!RecvConfigure
    /\ mEstablished' = FALSE /\ mClosing' = FALSE
    /\ mSSLReadSize' = 0
    /\ hsLeft' = HsRecords /\ hsFlight' = TRUE
    /\ appAvail' = 0 /\ appRead' = 0 /\ clientGot' = 0
    /\ UNCHANGED <<mSSLReadCount, getThreshold>>

\* mbedtls_ssl_session_reset: the context is ready for a new handshake, and
\* whatever it was fetching is forgotten.
SessionReset ==
    /\ Recv!ReadsEnd
    /\ hsLeft' = HsRecords /\ hsFlight' = TRUE /\ appAvail' = 0
    /\ UNCHANGED appRead

\* mbedtls writes a record of n bytes if its f_send still works.
WriteOrGiveUp(n) == Send!SSLSendCallback(n) \/ (mSendError # "noErr" /\ UNCHANGED sendVars)

(***************************************************************************)
(* Open, bind and other requests that are only forwarded.                  *)
(***************************************************************************)
OpenStart ==
    /\ ctl = "idle" /\ link = "closed" /\ NoControl
    /\ allConnects < MaxConnects
    /\ mSSLEnabled' = FALSE
    /\ mSSLConfigured' = FALSE
    /\ nieOps' = nieOps \cup {"open"}
    /\ Asked("open")
    /\ UNCHANGED <<nieUp, sendOnly, recvOnly, mUpgradable, mEstablished, mClosing,
                   readVars, ctl, mbedVars, clientGot, linkVars, nieRaw>>

OpenCompleteCB ==
    /\ ctl = "idle" /\ "open" \in nieOps
    /\ nieOps' = nieOps \ {"open"}
    /\ Completed("open")
    /\ link' = "open"
    /\ UNCHANGED <<mSSLConfigured, nieUp, sendOnly, recvOnly, tlsVars, readVars, ctl,
                   mbedVars, clientGot, connects, allConnects, nieRaw>>

ForwardStart(r) ==
    /\ ctl = "idle" /\ link # "closed" /\ NoControl
    /\ r \in {"killGet", "killPut"} => ~mSSLConfigured
    /\ nieOps' = nieOps \cup {r}
    /\ Asked(r)
    /\ UNCHANGED <<mSSLConfigured, nieUp, sendOnly, recvOnly, tlsVars, readVars, ctl,
                   mbedVars, clientGot, linkVars, nieRaw>>

ForwardCompleteCB(r) ==
    /\ ctl = "idle" /\ r \in nieOps
    /\ nieOps' = nieOps \ {r}
    /\ Completed(r)
    /\ UNCHANGED <<mSSLConfigured, nieUp, sendOnly, recvOnly, tlsVars, readVars, ctl,
                   mbedVars, clientGot, linkVars, nieRaw>>

(***************************************************************************)
(* ProcessOptionStart for the enable option.  On a clear connection it is  *)
(* the upgrade: configure and start the handshake, the option completing   *)
(* with it; otherwise it only sets the flag.  SSLConfigure may fail.       *)
(***************************************************************************)
EnableOption(enabled) ==
    /\ ctl = "idle" /\ NoControl
    /\ \/ link = "open" /\ (connects = 0 \/ Reuse)
          /\ (IF enabled THEN "tls" ELSE "clear") \in Uses
       \/ link = "connected" /\ enabled /\ "upgrade" \in Uses /\ ~mSSLConfigured
    /\ nieRaw = {}
    /\ mSSLEnabled' = enabled
    /\ IF mUpgradable /\ enabled
       THEN \/ /\ SSLConfigure
               /\ ctl' = "handshake"
               /\ Asked("option")
            \/ /\ "configure" \in Faults
               /\ UNCHANGED <<mSSLConfigured, nieUp, sendOnly, recvOnly, mEstablished,
                              mClosing, readVars, mbedVars, clientGot, ctl, pending>>
       ELSE UNCHANGED <<mSSLConfigured, nieUp, sendOnly, recvOnly, mEstablished,
                        mClosing, readVars, mbedVars, clientGot, ctl, pending>>
    /\ UNCHANGED <<mUpgradable, linkVars, nieOps, nieRaw>>

(***************************************************************************)
(* Connecting.                                                             *)
(***************************************************************************)
ConnectAllowed ==
    /\ ctl = "idle" /\ link = "open" /\ NoControl
    /\ mSSLEnabled \/ "clear" \in Uses
    /\ connects = 0 \/ Reuse
    /\ allConnects < MaxConnects

ConnectStart ==
    /\ ConnectAllowed
    /\ IF mSSLEnabled
       THEN SSLConfigure
       ELSE UNCHANGED <<mSSLConfigured, nieUp, sendOnly, recvOnly, mEstablished,
                        mClosing, readVars, mbedVars, clientGot>>
    /\ nieOps' = nieOps \cup {"connect"}
    /\ Asked("connect")
    /\ connects' = connects + 1 /\ allConnects' = allConnects + 1
    /\ UNCHANGED <<mSSLEnabled, mUpgradable, ctl, link, nieRaw>>

\* SSLConfigure fails: ConnectComplete(r) answers the request at once.
ConnectStartFails ==
    /\ ConnectAllowed /\ mSSLEnabled /\ "configure" \in Faults
    /\ connects' = connects + 1 /\ allConnects' = allConnects + 1
    /\ UNCHANGED <<mSSLConfigured, nieUp, sendOnly, recvOnly, tlsVars, readVars, ctl,
                   mbedVars, clientGot, pending, link, nieOps, nieRaw>>

ConnectCompleteCB ==
    /\ ctl = "idle" /\ "connect" \in nieOps
    /\ nieOps' = nieOps \ {"connect"}
    /\ Send!NIEUp /\ Recv!RecvNIEUp
    /\ IF mSSLEnabled
       THEN /\ ctl' = "handshake"
            /\ UNCHANGED <<mUpgradable, pending, link>>
       ELSE /\ mUpgradable' = TRUE
            /\ Completed("connect")
            /\ link' = "connected"
            /\ UNCHANGED ctl
    /\ UNCHANGED <<mSSLEnabled, mEstablished, mClosing, readVars, mbedVars,
                   clientGot, connects, allConnects, nieRaw>>

ConnectCompleteCBError ==
    /\ ctl = "idle" /\ "connect" \in nieOps
    /\ nieOps' = nieOps \ {"connect"}
    /\ Completed("connect")
    /\ UNCHANGED <<mSSLConfigured, nieUp, sendOnly, recvOnly, tlsVars, readVars, ctl,
                   mbedVars, clientGot, linkVars, nieRaw>>

(***************************************************************************)
(* DoSSLHandshake: mbedtls_ssl_handshake sends flights and fetches the     *)
(* peer's records until it returns.                                        *)
(***************************************************************************)
InHandshake == ctl = "handshake" /\ recvPc = "out"

HandshakeSends(n) ==
    /\ InHandshake /\ hsFlight
    /\ Send!SSLSendCallback(n)
    /\ hsFlight' = FALSE
    /\ UNCHANGED <<recvVars, tlsVars, readVars, ctl, hsLeft, appAvail, appRead,
                   clientGot, pending, linkVars, nieOps, nieRaw>>

HandshakeFetches(n) ==
    /\ InHandshake /\ ~hsFlight /\ hsLeft > 0 /\ fetchRet = "none"
    /\ Recv!FetchInput(n)
    /\ UNCHANGED <<sendVars, tlsVars, readVars, ctl, mbedVars, clientGot, pending,
                   linkVars, nieOps, nieRaw>>

HandshakeParses ==
    /\ InHandshake /\ fetchRet = "ok"
    /\ Recv!FetchUsed
    /\ hsLeft' = hsLeft - 1
    /\ hsFlight' = (hsLeft > 1)
    /\ UNCHANGED <<sendVars, tlsVars, readVars, ctl, appAvail, appRead, clientGot,
                   pending, linkVars, nieOps, nieRaw>>

HandshakeWaits ==
    /\ InHandshake /\ fetchRet = "wantRead"
    /\ ctl' = "idle"
    /\ UNCHANGED <<sendVars, recvVars, tlsVars, readVars, mbedVars, clientGot,
                   pending, linkVars, nieOps, nieRaw>>

HandshakeSucceeds ==
    /\ InHandshake /\ hsLeft = 0 /\ ~hsFlight
    /\ mEstablished' = TRUE
    /\ ctl' = "idle"
    /\ IF mUpgradable
       THEN Completed("option") /\ UNCHANGED link
       ELSE Completed("connect") /\ link' = "connected"
    /\ UNCHANGED <<sendVars, recvVars, mSSLEnabled, mUpgradable, mClosing, readVars,
                   mbedVars, clientGot, connects, allConnects, nieOps, nieRaw>>

\* A hard error: f_send or f_recv failed, the stream ended, or mbedtls
\* rejects the peer.
HandshakeError ==
    \/ hsFlight /\ mSendError # "noErr"
    \/ fetchRet \in {"eof", "error"}
    \/ "reject" \in Faults /\ fetchRet = "ok"

HandshakeFails ==
    /\ InHandshake /\ HandshakeError
    /\ mEstablished' = FALSE /\ mClosing' = TRUE
    /\ SessionReset
    /\ ctl' = "idle"
    /\ Completed("connect")
    /\ link' = "failed"
    /\ UNCHANGED <<sendVars, mSSLEnabled, mUpgradable, readVars, clientGot,
                   connects, allConnects, nieOps, nieRaw>>

(***************************************************************************)
(* HandleRequest for a TLS event: retry the handshake or the read, unless  *)
(* the session is closing or nobody waits.                                 *)
(***************************************************************************)
\* Mutant: mClosing is not looked at.
HandleRequestWhileClosing ==
    /\ ctl = "idle"
    /\ Recv!HandleTLSEvent
    /\ ctl' = IF ~mEstablished THEN "handshake"
              ELSE IF mSSLReadSize > 0 THEN "read"
              ELSE "idle"
    /\ UNCHANGED <<sendVars, tlsVars, readVars, mbedVars, clientGot, pending,
                   linkVars, nieOps, nieRaw>>

\* Mutant: only the handshake is retried, not a read.
HandleRequestNoRead ==
    /\ ctl = "idle" /\ tlsEvent /\ recvPc = "out"
    /\ IF mEstablished
       THEN /\ tlsEvent' = FALSE /\ UNCHANGED ctl
            /\ UNCHANGED <<mSSLConfigured, nieUp, mSSLRecvBuffer, mGetSize, mRecvPending,
                           mSSLReceiveInProgress, mRecvError, mPeerClosed, recvPc, want,
                           fetchRet, readsOver, nieGets, peerSent, peerDone, given, received>>
       ELSE Recv!HandleTLSEvent /\ ctl' = (IF mClosing THEN "idle" ELSE "handshake")
    /\ UNCHANGED <<sendVars, tlsVars, readVars, mbedVars, clientGot, pending,
                   linkVars, nieOps, nieRaw>>

\* Mutant: only a read is retried, not the handshake.
HandleRequestNoHandshake ==
    /\ ctl = "idle" /\ tlsEvent /\ recvPc = "out"
    /\ IF mEstablished
       THEN Recv!HandleTLSEvent /\ ctl' = (IF mSSLReadSize > 0 THEN "read" ELSE "idle")
       ELSE /\ tlsEvent' = FALSE /\ UNCHANGED ctl
            /\ UNCHANGED <<mSSLConfigured, nieUp, mSSLRecvBuffer, mGetSize, mRecvPending,
                           mSSLReceiveInProgress, mRecvError, mPeerClosed, recvPc, want,
                           fetchRet, readsOver, nieGets, peerSent, peerDone, given, received>>
    /\ UNCHANGED <<sendVars, tlsVars, readVars, mbedVars, clientGot, pending,
                   linkVars, nieOps, nieRaw>>

HandleRequest ==
    /\ ctl = "idle"
    /\ Recv!HandleTLSEvent
    /\ ctl' = IF mClosing THEN "idle"
              ELSE IF ~mEstablished THEN "handshake"
              ELSE IF mSSLReadSize > 0 THEN "read"
              ELSE "idle"
    /\ UNCHANGED <<sendVars, tlsVars, readVars, mbedVars, clientGot, pending,
                   linkVars, nieOps, nieRaw>>

(***************************************************************************)
(* GetBytesStart and GetBytesImmediateStart: a Get served by mbedtls, one  *)
(* refused, or one forwarded.  GetFramedBytesStart is refused or forwarded *)
(* in the same way.                                                        *)
(***************************************************************************)
GetAllowed == ctl = "idle" /\ link = "connected" /\ NoControl /\ pending["get"] = 0

\* Mutant: mSSLReadCount is not reset.
GetBytesStartKeepsCount(size, threshold) ==
    /\ GetAllowed /\ mSSLConfigured /\ mEstablished
    /\ mSSLReadSize = 0
    /\ mSSLReadSize' = size /\ getThreshold' = threshold
    /\ ctl' = "read"
    /\ Asked("get")
    /\ UNCHANGED <<sendVars, recvVars, tlsVars, mbedVars, clientGot, linkVars,
                   nieOps, nieRaw, mSSLReadCount>>

GetBytesStart(size, threshold) ==
    /\ GetAllowed /\ mSSLConfigured /\ mEstablished
    /\ mSSLReadSize = 0
    /\ mSSLReadSize' = size /\ mSSLReadCount' = 0 /\ getThreshold' = threshold
    /\ ctl' = "read"
    /\ Asked("get")
    /\ UNCHANGED <<sendVars, recvVars, tlsVars, mbedVars, clientGot, linkVars,
                   nieOps, nieRaw>>

\* kCommErrNotConnected or kCommErrCommandInProgress (for a framed Get,
\* kCommErrMethodNotImplemented): completed at once.
GetRefused ==
    /\ GetAllowed /\ mSSLConfigured
    /\ ~mEstablished \/ mSSLReadSize > 0
    /\ UNCHANGED vars

\* KillGetStart and KillPutStart with SSL: kCommErrMethodNotImplemented at
\* once, the Get goes on.  Without SSL they are forwarded (ForwardStart).
KillRefused ==
    /\ ctl = "idle" /\ link = "connected" /\ NoControl /\ mSSLConfigured
    /\ UNCHANGED vars

RawGetStart ==
    /\ GetAllowed /\ ~mSSLConfigured
    /\ nieRaw' = nieRaw \cup {"get"}
    /\ Asked("get")
    /\ UNCHANGED <<sendVars, recvVars, tlsVars, readVars, ctl, mbedVars, clientGot,
                   linkVars, nieOps>>

(***************************************************************************)
(* DoSSLRead: mbedtls_ssl_read is called until there are enough bytes.     *)
(***************************************************************************)
InRead == ctl = "read" /\ recvPc = "out"

ReadFetches(n) ==
    /\ InRead /\ appAvail = 0 /\ fetchRet = "none"
    /\ Recv!FetchInput(n)
    /\ UNCHANGED <<sendVars, tlsVars, readVars, ctl, mbedVars, clientGot, pending,
                   linkVars, nieOps, nieRaw>>

\* A piece of a record: nothing yet (a header), or d decrypted bytes.
ReadParses(d) ==
    /\ InRead /\ fetchRet = "ok"
    /\ Recv!FetchUsed
    /\ appAvail' = d
    /\ UNCHANGED <<sendVars, tlsVars, readVars, ctl, hsLeft, hsFlight, appRead,
                   clientGot, pending, linkVars, nieOps, nieRaw>>

ReadReturned(r) ==
    /\ appRead' = appRead + r
    /\ IF mSSLReadCount + r >= getThreshold
       THEN /\ clientGot' = clientGot + mSSLReadCount + r
            /\ mSSLReadSize' = 0 /\ mSSLReadCount' = 0
            /\ ctl' = "idle"
            /\ Completed("get")
       ELSE /\ mSSLReadCount' = mSSLReadCount + r
            /\ UNCHANGED <<clientGot, mSSLReadSize, ctl, pending>>
    /\ UNCHANGED <<getThreshold, tlsVars, hsLeft, hsFlight, linkVars, nieOps, nieRaw>>

ReadData ==
    /\ InRead /\ appAvail > 0
    /\ LET r == Recv!Smaller(appAvail, mSSLReadSize - mSSLReadCount)
       IN  ReadReturned(r) /\ appAvail' = appAvail - r
    /\ UNCHANGED <<sendVars, recvVars>>

ReadEOF ==
    /\ InRead /\ "zero" \in EOFReturns /\ fetchRet = "eof"
    /\ ReadReturned(0)
    /\ Recv!FetchUsed
    /\ UNCHANGED <<sendVars, appAvail>>

ReadWaits ==
    /\ InRead /\ fetchRet = "wantRead"
    /\ ctl' = "idle"
    /\ UNCHANGED <<sendVars, recvVars, tlsVars, readVars, mbedVars, clientGot,
                   pending, linkVars, nieOps, nieRaw>>

\* The end of the session: the peer's close_notify (answered with ours), the
\* end of the stream, or an error.  The client gets what was read so far.
ReadEnds ==
    /\ mEstablished' = FALSE /\ mClosing' = TRUE
    /\ clientGot' = clientGot + mSSLReadCount
    /\ mSSLReadSize' = IF mSSLReadCount > 0 THEN 0 ELSE mSSLReadSize
    /\ SessionReset
    /\ ctl' = "idle"
    /\ Completed("get")
    /\ UNCHANGED <<mSSLEnabled, mUpgradable, mSSLReadCount, getThreshold, linkVars,
                   nieOps, nieRaw>>

ReadCloseNotify ==
    /\ InRead /\ fetchRet = "ok"
    /\ WriteOrGiveUp(1)
    /\ ReadEnds

ReadFails ==
    /\ InRead
    /\ fetchRet = "error" \/ (fetchRet = "eof" /\ "connEOF" \in EOFReturns)
    /\ ReadEnds
    /\ UNCHANGED sendVars

(***************************************************************************)
(* PutBytesStart: a Put written by mbedtls and completed at once, one      *)
(* refused, one that fails because an earlier inner Put failed, or one     *)
(* forwarded.  PutFramedBytesStart is refused or forwarded likewise.       *)
(***************************************************************************)
PutAllowed == ctl = "idle" /\ link = "connected" /\ NoControl /\ pending["put"] = 0

\* The bound leaves room for a close_notify.
PutBytesStart(n) ==
    /\ PutAllowed /\ mSSLConfigured /\ ~mClosing /\ mEstablished
    /\ written + n < MaxWritten
    /\ Send!SSLSendCallback(n)
    /\ UNCHANGED <<recvVars, tlsVars, readVars, ctl, mbedVars, clientGot, pending,
                   linkVars, nieOps, nieRaw>>

\* kCommErrConnectionAborted or kCommErrNotConnected.
PutRefused ==
    /\ PutAllowed /\ mSSLConfigured
    /\ mClosing \/ ~mEstablished
    /\ UNCHANGED vars

\* mbedtls_ssl_write fails: the session is reset, but not marked as closing.
PutFails ==
    /\ PutAllowed /\ mSSLConfigured /\ ~mClosing /\ mEstablished
    /\ mSendError # "noErr"
    /\ mEstablished' = FALSE
    /\ SessionReset
    /\ UNCHANGED <<sendVars, mSSLEnabled, mUpgradable, mClosing, readVars, ctl,
                   clientGot, pending, linkVars, nieOps, nieRaw>>

\* Mutant: the decision is made on mEstablished.
RawPutStartUnlessEstablished ==
    /\ PutAllowed /\ ~mEstablished
    /\ nieRaw' = nieRaw \cup {"put"}
    /\ Asked("put")
    /\ UNCHANGED <<sendVars, recvVars, tlsVars, readVars, ctl, mbedVars, clientGot,
                   linkVars, nieOps>>

RawPutStart ==
    /\ PutAllowed /\ ~mSSLConfigured
    /\ nieRaw' = nieRaw \cup {"put"}
    /\ Asked("put")
    /\ UNCHANGED <<sendVars, recvVars, tlsVars, readVars, ctl, mbedVars, clientGot,
                   linkVars, nieOps>>

(***************************************************************************)
(* NIE's completions of transfers: our own feed the two halves, those of   *)
(* the client are forwarded.  A completion of ours may come while the task *)
(* is in an inner call, or in NIE's CloseStart.                            *)
(***************************************************************************)
PutCompleteCB ==
    /\ \E result \in {"noErr"} \cup (IF "put" \in Faults \/ ~nieUp THEN {"error"} ELSE {}) :
          Send!PutCompleteCB(result)
    /\ UNCHANGED <<recvVars, OtherVars>>

GetCompleteCB ==
    /\ ctl \in {"idle", "closing"} \/ recvPc = "inner"
    /\ \/ \E k \in 1 .. MaxWant : Recv!GetCompleteData(k)
       \/ Recv!GetCompleteEOF
       \/ ("get" \in Faults \/ ~nieUp \/ ctl = "closing") /\ Recv!GetCompleteError
    /\ UNCHANGED <<sendVars, OtherVars>>

RawCompleteCB(r) ==
    /\ ctl \in {"idle", "closing"} /\ r \in nieRaw /\ ~mSSLConfigured
    /\ nieRaw' = nieRaw \ {r}
    /\ Completed(r)
    /\ UNCHANGED <<sendVars, recvVars, tlsVars, readVars, ctl, mbedVars, clientGot,
                   linkVars, nieOps>>

\* What NIE is told when it asks for the buffer of its current transfer.
GetCurPutDataCB == IF mSSLConfigured THEN "mPutDataBuffer" ELSE "client"
GetCurGetDataCB == IF mSSLConfigured THEN "mGetDataBuffer" ELSE "client"

SSLRecvCallback ==
    /\ Recv!SSLRecvCallback
    /\ UNCHANGED <<sendVars, OtherVars>>

(***************************************************************************)
(* Disconnecting.  The framework ends the transfers a disconnect or a      *)
(* close overtakes.                                                        *)
(***************************************************************************)
TerminateStart ==
    /\ ctl = "idle" /\ link = "connected" /\ NoControl
    /\ IF mSSLConfigured /\ mEstablished
       THEN /\ WriteOrGiveUp(1)
            /\ mEstablished' = FALSE /\ mClosing' = TRUE
            /\ Recv!ReadsEnd
       ELSE UNCHANGED <<sendVars, recvVars, mEstablished, mClosing>>
    /\ nieOps' = nieOps \cup {"terminate"}
    /\ Asked("terminate")
    /\ UNCHANGED <<mSSLEnabled, mUpgradable, readVars, ctl, mbedVars, clientGot,
                   linkVars, nieRaw>>

TerminateCompleteCB ==
    /\ ctl = "idle" /\ "terminate" \in nieOps
    /\ nieOps' = nieOps \ {"terminate"}
    /\ Send!NIEDown /\ Recv!RecvNIEDown
    /\ nieRaw' = {}
    /\ pending' = [pending EXCEPT !["terminate"] = @ - 1, !["put"] = 0, !["get"] = 0]
    /\ link' = "open"
    /\ UNCHANGED <<tlsVars, readVars, ctl, mbedVars, clientGot, connects, allConnects>>

(***************************************************************************)
(* Closing: NIE's CloseStart, during which it lets go of its transfers and *)
(* may still complete some; then SSLUnconfigure.                           *)
(***************************************************************************)
CloseStart ==
    /\ ctl = "idle" /\ link # "closed" /\ pending["close"] = 0
    /\ ctl' = "closing"
    /\ nieOps' = {"close"}
    /\ pending' = [r \in Requests |-> IF r = "close" THEN 1 ELSE 0]
    /\ nieRaw' = {}
    /\ UNCHANGED <<sendVars, recvVars, tlsVars, readVars, mbedVars, clientGot, linkVars>>

NIECloses ==
    /\ ctl = "closing"
    /\ Send!NIEDown /\ Recv!RecvNIEDown
    /\ UNCHANGED OtherVars

\* Mutant: SSLUnconfigure runs before NIE is closed.
CloseReturnsEarly ==
    /\ ctl = "closing"
    /\ ctl' = "idle"
    /\ IF mSSLConfigured
       THEN /\ Send!SendUnconfigure /\ Recv!RecvUnconfigure
            /\ mSSLReadSize' = 0
       ELSE UNCHANGED <<sendVars, recvVars, mSSLReadSize>>
    /\ UNCHANGED <<tlsVars, mSSLReadCount, getThreshold, mbedVars, clientGot, pending,
                   linkVars, nieOps, nieRaw>>

CloseReturns ==
    /\ ctl = "closing" /\ ~nieUp /\ niePuts = 0 /\ nieGets = 0
    /\ ctl' = "idle"
    /\ IF mSSLConfigured
       THEN /\ Send!SendUnconfigure /\ Recv!RecvUnconfigure
            /\ mSSLReadSize' = 0
       ELSE UNCHANGED <<sendVars, recvVars, mSSLReadSize>>
    /\ UNCHANGED <<tlsVars, mSSLReadCount, getThreshold, mbedVars, clientGot, pending,
                   linkVars, nieOps, nieRaw>>

CloseCompleteCB ==
    /\ ctl \in {"idle", "closing"} /\ "close" \in nieOps
    /\ nieOps' = {}
    /\ Completed("close")
    /\ link' = "closed"
    /\ UNCHANGED <<sendVars, recvVars, tlsVars, readVars, ctl, mbedVars, clientGot,
                   connects, allConnects, nieRaw>>

\* Delete after Close, and New for the next endpoint.
DeleteAndNew ==
    /\ ctl = "idle" /\ link = "closed" /\ NoControl /\ connects > 0
    /\ mUpgradable' = FALSE
    /\ connects' = 0
    /\ UNCHANGED <<sendVars, recvVars, mSSLEnabled, mEstablished, mClosing, readVars,
                   ctl, mbedVars, clientGot, pending, link, allConnects, nieOps, nieRaw>>

\* The bound: the client has had all its connections.
ClientDone ==
    /\ ctl = "idle" /\ link = "closed" /\ NoControl /\ connects = 0
    /\ allConnects = MaxConnects
    /\ UNCHANGED vars

(***************************************************************************)
(* The network (external).                                                 *)
(***************************************************************************)
NIETakes == Send!NIETakes /\ UNCHANGED <<recvVars, OtherVars>>
Peer == (Recv!PeerSends \/ Recv!PeerCloses) /\ UNCHANGED <<sendVars, OtherVars>>

Handshake ==
    \/ \E n \in 1 .. MaxChunk : HandshakeSends(n)
    \/ \E n \in 1 .. MaxWant : HandshakeFetches(n)
    \/ HandshakeParses \/ HandshakeWaits \/ HandshakeSucceeds \/ HandshakeFails

Read ==
    \/ \E n \in 1 .. MaxWant : ReadFetches(n)
    \/ \E d \in 0 .. MaxGet : ReadParses(d)
    \/ ReadData \/ ReadEOF \/ ReadWaits \/ ReadCloseNotify \/ ReadFails

\* What the task does on its own once a request, a completion or an event
\* has got it going.
Task ==
    \/ Handshake \/ Read \/ SSLRecvCallback \/ HandleRequest
    \/ NIECloses \/ CloseReturns

Client ==
    \/ OpenStart \/ ConnectStart \/ ConnectStartFails \/ TerminateStart \/ CloseStart
    \/ DeleteAndNew \/ ClientDone
    \/ \E r \in ForwardOps : ForwardStart(r)
    \/ \E enabled \in BOOLEAN : EnableOption(enabled)
    \/ \E size \in 1 .. MaxGet, threshold \in Thresholds :
          threshold <= size /\ GetBytesStart(size, threshold)
    \/ \E n \in 1 .. MaxChunk : PutBytesStart(n)
    \/ PutFails \/ PutRefused \/ GetRefused \/ KillRefused \/ RawPutStart \/ RawGetStart

\* NIE's answers to control requests.
ControlCB ==
    \/ OpenCompleteCB \/ ConnectCompleteCB \/ ConnectCompleteCBError
    \/ TerminateCompleteCB \/ CloseCompleteCB
    \/ \E r \in ForwardOps : ForwardCompleteCB(r)

CENext ==
    \/ Client
    \/ Task
    \/ ControlCB
    \/ PutCompleteCB
    \/ GetCompleteCB
    \/ \E r \in {"put", "get"} : RawCompleteCB(r)
    \/ NIETakes
    \/ Peer

CESpec == CEInit /\ [][CENext]_vars

(***************************************************************************)
(* Fairness: the task runs whatever it has to run; NIE answers; the peer   *)
(* does not stay silent for ever (the code has no timeout of its own on a  *)
(* stream, so nothing ends the wait for a silent peer).                    *)
(***************************************************************************)
CEFairSpec ==
    /\ CESpec
    /\ WF_vars(Task)
    /\ WF_vars(ControlCB)
    /\ WF_vars(ctl = "idle" /\ GetCompleteCB)
    /\ WF_vars(Peer)

-----------------------------------------------------------------------------
(***************************************************************************)
(* Properties.                                                             *)
(***************************************************************************)

\* Every completion the client gets answers a request it made, and answers it
\* once, although ConnectComplete, ProcessOptionComplete and GetComplete are
\* called from handlers run by TLS events.
CompletionsMatchRequests == \A r \in Requests : pending[r] \in {0, 1}

\* Bytes mbedtls decrypted for a Get are handed to the client or still in
\* mSSLReadBuffer: a Get that waits for more, ends early or is retried from
\* an event loses none.
AppDataConserved ==
    mSSLConfigured =>
        appRead = clientGot + (IF mSSLReadSize > 0 THEN mSSLReadCount ELSE 0)

\* Outside a configured connection nothing refers to its buffers: NIE holds
\* none of them and no TLS event is queued.
NothingDangling == ~mSSLConfigured => niePuts = 0 /\ nieGets = 0 /\ ~tlsEvent

\* NIE never holds a clear transfer of the client and TLS records at the same
\* time, and when it asks for the buffer of the transfer it holds
\* (GetCurPutData, GetCurGetData) it is given that transfer's buffer, although
\* an upgrade turns one kind of connection into the other.
ClearNeverMixes ==
    /\ niePuts > 0 => GetCurPutDataCB = "mPutDataBuffer" /\ nieRaw = {}
    /\ nieGets > 0 => GetCurGetDataCB = "mGetDataBuffer" /\ nieRaw = {}
    /\ "put" \in nieRaw => GetCurPutDataCB = "client"
    /\ "get" \in nieRaw => GetCurGetDataCB = "client"

\* A connection that is about to be made with SSL finds both halves clean:
\* nothing of an earlier connection of the same instance (bytes, errors, an
\* unanswered Put or Get, the end of its stream) is left for it.
FreshConnection ==
    "connect" \in nieOps /\ mSSLEnabled =>
        /\ mSSLConfigured /\ ~mEstablished /\ ~mClosing
        /\ ~mSendPending /\ mSendBuffer = <<>> /\ mPutDataBuffer = <<>>
        /\ ~mRecvPending /\ ~mPeerClosed /\ mSSLRecvBuffer = <<>>
        /\ mSendError = "noErr" /\ mRecvError = "noErr"
        /\ niePuts = 0 /\ nieGets = 0 /\ ~tlsEvent

\* mbedtls is not asked to read on in a session that was reset or closed: a
\* handshake or a read only runs on a live one.
RunsOnLiveSession ==
    ctl \in {"handshake", "read"} => mSSLConfigured /\ ~mClosing /\ ~readsOver

\* mbedtls starts a handshake only on a connection that is up.
HandshakeOnConnection == ctl = "handshake" => nieUp

\* A Connect the client asked for is answered.
ConnectEnds == pending["connect"] = 1 ~> pending["connect"] # 1

\* An upgrade is answered: the enable option completes.
UpgradeEnds == pending["option"] = 1 ~> pending["option"] # 1

\* A Get of the client on a TLS session is answered.
GetEnds == pending["get"] = 1 /\ mSSLConfigured ~> pending["get"] # 1

\* The connection end drives its sending half as SendPath says ...
DrivesSendPath == Send!SendSpec

\* ... and its receiving half as RecvPath says.
DrivesRecvPath == Recv!RecvSpec
=============================================================================
