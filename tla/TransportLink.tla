--------------------------- MODULE TransportLink ---------------------------
(***************************************************************************)
(* What the sending and the receiving half of PMbedTLSConnectionEnd share. *)
(***************************************************************************)

VARIABLES
    mSSLConfigured,  \* SSLConfigure ran: the buffers of both halves exist
    nieUp            \* external: NIE's TCP connection is up
=============================================================================
