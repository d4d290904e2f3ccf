----------------------------- MODULE MCCObjects -----------------------------
(***************************************************************************)
(* The bindings with a weak array of one slot, so that allocation both     *)
(* reuses a slot the collector cleared and extends the array.              *)
(*                                                                         *)
(* A behaviour is one of three clients: one sets the callbacks a server    *)
(* and its data need ("bio", "sni") on contexts, configurations and        *)
(* certificates; one allocates every kind of structure and sets the other  *)
(* callbacks; the third verifies certificates against a CA chain, which    *)
(* takes a fourth binary: it has one context and one configuration, and    *)
(* uses the package once.  All at once are out of reach.                   *)
(***************************************************************************)
EXTENDS CObjects, FiniteSets, TLC

CONSTANT Fourth  \* the member of Obj that only the third client uses, last

VARIABLE client

Clients == {"server", "all", "verifier"}
ClientKinds == [c \in Clients |->
    IF c = "all" THEN AllKinds ELSE {"ssl", "config", "crt"}]
ClientFields == [c \in Clients |->
    CASE c = "server" -> {"bio", "sni"}
      [] c = "all" -> {"timer", "verify"}
      [] c = "verifier" -> {"verify"}]

Named(k) == {o \in Obj : kind[o] = k}

WithinBounds ==
    IF client = "verifier"
    THEN /\ Cardinality(Named("ssl")) <= 1 /\ Cardinality(Named("config")) <= 1
         /\ \A c \in callbacks : c[3] = NIL
         /\ \A l \in links : l[2] \in {"conf", "ca", "lender"}
         /\ kind[Fourth] # "none" => Named("none") = {}
    ELSE kind[Fourth] = "none"

ClientInit == ObjInit /\ client \in Clients

ClientNext ==
    /\ ObjNext
    /\ \A o \in Obj : kind'[o] \in ClientKinds[client] \cup {"none"}
    /\ \A c \in callbacks' : c[2] \in ClientFields[client]
    /\ UNCHANGED client
    /\ WithinBounds'

ClientSpec == ClientInit /\ [][ClientNext]_<<objVars, client>>

ObjSymmetry == Permutations(Obj \ {Fourth})
=============================================================================
