---------------------------- MODULE MCTransport ----------------------------
(***************************************************************************)
(* Each half of the transport on its own (ConnectionEnd runs them          *)
(* together): a behaviour is one of the sending half or one of the         *)
(* receiving half.  Five bytes in chunks of one or two are enough for a    *)
(* batch to pile up behind an unfinished Put, to be put while the next one *)
(* piles up, and for NIE to take part of a batch; four bytes fetched by up *)
(* to three, for a fetch to be answered in several parts, inside the call  *)
(* and later.                                                              *)
(***************************************************************************)
EXTENDS SendPath, RecvPath

VARIABLE half

sendOnly == <<mSendBuffer, mPutDataBuffer, putPosition, mSendPending,
              mSendError, niePuts, written, wire>>
recvOnly == <<mSSLRecvBuffer, mGetSize, mRecvPending, mSSLReceiveInProgress,
              mRecvError, mPeerClosed, tlsEvent, recvPc, mbedVars, nieGets,
              peerSent, peerDone, given>>
transportVars == <<half, sendVars, recvVars>>

TransportInit == half \in {"send", "recv"} /\ SendInit /\ RecvInit

TransportNext ==
    /\ UNCHANGED half
    /\ \/ half = "send" /\ SendNext /\ UNCHANGED recvOnly
       \/ half = "recv" /\ RecvNext /\ UNCHANGED sendOnly

\* The fairness of both halves; in a behaviour of one half the actions of
\* the other are never enabled.
TransportSpec ==
    /\ TransportInit /\ [][TransportNext]_transportVars
    /\ SendFairness /\ RecvFairness
=============================================================================
