----------------------------- MODULE MCNewtTask -----------------------------
(***************************************************************************)
(* What the Newt task does beside its clients: packages that come and go,  *)
(* and the services other tasks call.  A behaviour is one of one part,     *)
(* while the other stays as it is.                                         *)
(*                                                                         *)
(* Packages come and go without limit, with every call that registers      *)
(* something able to fail, any number of times; the lost PMbedTLS objects  *)
(* of failed installations are the only thing that grows: up to three are  *)
(* counted, enough for two losses beside a singleton.                      *)
(*                                                                         *)
(* Two communication tools' tasks and the Newt task use the entropy while  *)
(* it is collected, saved, lost by exceptions and read again after resets. *)
(* Batches of three samples leave an odd one behind; four samples make two *)
(* packed bytes, more than the one byte mbedtls asks for.                  *)
(***************************************************************************)
EXTENDS Packaging, NewtServices

VARIABLE part

taskVars == <<part, pkgVars, allVars>>

TaskInit == part \in {"packages", "services"} /\ PkgInit /\ SvcInit

TaskNext ==
    /\ UNCHANGED part
    /\ \/ part = "packages" /\ PkgNext /\ UNCHANGED allVars
       \/ part = "services" /\ SvcNext /\ UNCHANGED pkgVars

\* The fairness of the two parts.
TaskFairSpec ==
    /\ TaskInit /\ [][TaskNext]_taskVars
    /\ WF_taskVars(/\ part = "packages" /\ ProcrastinatedCall
                   /\ UNCHANGED <<part, allVars>>)
    /\ WF_taskVars(/\ part = "services" /\ (AEHandlerProc \/ AEHandlerProcThrows)
                   /\ UNCHANGED <<part, pkgVars>>)
=============================================================================
