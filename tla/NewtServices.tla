---------------------------- MODULE NewtServices ----------------------------
(***************************************************************************)
(* What mbedtls needs from NewtonScript (entropy, the seed, the time zone, *)
(* the serial number, the root certificates) can only be had in the Newt   *)
(* task.  mbedtls runs there, under the NewtonScript bindings, and in the  *)
(* communication tools' tasks, under the connection end.  The functions of *)
(* NewtonBindings.cpp look where they are: in the Newt task they call      *)
(* PMbedTLS directly, elsewhere they send an event to the Newt task and    *)
(* wait for the reply (mbedTLSEvents.cpp).  The event holds pointers into  *)
(* the caller's memory, where the handler puts its answer.                 *)
(*                                                                         *)
(* The handlers of the services in Unguarded catch no exception: the reply *)
(* is never sent when NewtonScript throws, and the caller keeps waiting.   *)
(***************************************************************************)
EXTENDS Entropy

CONSTANTS
    Tools,      \* communication tools' tasks
    Newt,       \* the Newt task
    Services,   \* services that are called
    Throws      \* may NewtonScript throw (other than for a store fault)

AllServices == {"hardwarePoll", "nvSeedRead", "nvSeedWrite", "getGMTDelta",
                "getSerialNumber", "listRootCertificates", "getRootCertificate"}
Unguarded == {"hardwarePoll", "nvSeedRead", "nvSeedWrite", "getGMTDelta"}

ASSUME ServicesAssumption ==
    Newt \notin Tools /\ Services \subseteq AllServices /\ Throws \in BOOLEAN

Tasks == Tools \cup {Newt}

VARIABLES
    waiting,   \* the service a task waits for, "none" when it runs
    port,      \* events in the Newt task's port: <<task, service>>
    unanswered \* history: tasks whose handler threw

svcVars == <<waiting, port, unanswered>>
allVars == <<entVars, svcVars>>

SvcInit ==
    /\ EntInit
    /\ waiting = [t \in Tasks |-> "none"]
    /\ port = <<>>
    /\ unanswered = {}

\* Mutant: the task's name is not the one expected.
IsInNewtTaskNever(t) == FALSE

IsInNewtTask(t) == t = Newt

(***************************************************************************)
(* PMbedTLS's side of a service, in the Newt task: it returns, with the    *)
(* state changed, or NewtonScript throws.                                  *)
(***************************************************************************)
CollectorUnchanged == UNCHANGED <<scheduled, paused, limit, timers, samples, stopped>>

HardwarePoll == GetNothing \/ GetBytes(Gather)

NVSeedWriteSaved == \E seed \in nvSeed + 1 .. MaxSeeds : NVSeedWrite(seed) /\ EntryChangeXmit

Returns(s) ==
    /\ CASE s = "hardwarePoll" -> HardwarePoll
         [] s = "nvSeedWrite" -> NVSeedWriteSaved
         [] OTHER -> UNCHANGED <<prefsVars, handed>>
    /\ CollectorUnchanged

\* HardwarePoll and NVSeedWrite may throw after they changed prefs.
ServiceThrows(s) ==
    /\ s \in Unguarded
    /\ \/ Throws /\ UNCHANGED <<prefsVars, handed>>
       \/ s = "hardwarePoll" /\ GetThrows(Gather)
       \/ /\ s = "nvSeedWrite"
          /\ \E seed \in nvSeed + 1 .. MaxSeeds : NVSeedWrite(seed) /\ EntryChangeThrows
    /\ CollectorUnchanged

(***************************************************************************)
(* The caller's side: mbedtls_hardware_poll and the others.  A direct call *)
(* ends by returning or by the exception, which the binding passes on.     *)
(***************************************************************************)
SendRPCToNewtApp(t, s) ==
    /\ waiting' = [waiting EXCEPT ![t] = s]
    /\ port' = Append(port, <<t, s>>)
    /\ UNCHANGED <<entVars, unanswered>>

Call(t, s) ==
    /\ waiting[t] = "none"
    /\ IF IsInNewtTask(t)
       THEN (Returns(s) \/ ServiceThrows(s)) /\ UNCHANGED svcVars
       ELSE SendRPCToNewtApp(t, s)

\* Mutant: the reply is sent first, the buffer filled afterwards.
AEHandlerProcRepliesEarly ==
    /\ port # <<>> /\ waiting[Newt] = "none"
    /\ waiting[Head(port)[1]] # "none"
    /\ waiting' = [waiting EXCEPT ![Head(port)[1]] = "none"]
    /\ UNCHANGED <<entVars, port, unanswered>>

\* The event loop gives the event to the service's handler, which fills the
\* caller's buffer and replies; the reply lets the caller run again.
AEHandlerProc ==
    /\ port # <<>> /\ waiting[Newt] = "none"
    /\ Returns(Head(port)[2])
    /\ port' = Tail(port)
    /\ waiting' = [waiting EXCEPT ![Head(port)[1]] = "none"]
    /\ UNCHANGED unanswered

AEHandlerProcThrows ==
    /\ port # <<>> /\ waiting[Newt] = "none"
    /\ ServiceThrows(Head(port)[2])
    /\ port' = Tail(port)
    /\ unanswered' = unanswered \cup {Head(port)[1]}
    /\ UNCHANGED waiting

\* A reset ends every task.
NewtonReset ==
    /\ Reset
    /\ waiting' = [t \in Tasks |-> "none"]
    /\ port' = <<>>
    /\ unanswered' = {}

SvcNext ==
    \/ \E t \in Tasks, s \in Services : Call(t, s)
    \/ AEHandlerProc \/ AEHandlerProcThrows
    \/ waiting[Newt] = "none" /\ Collector /\ UNCHANGED svcVars
    \/ NewtonReset

SvcSpec == SvcInit /\ [][SvcNext]_allVars

\* The event loop of the Newt task serves its port, and its delayed sends.
SvcFairSpec ==
    /\ SvcSpec
    /\ WF_allVars(AEHandlerProc \/ AEHandlerProcThrows)

-----------------------------------------------------------------------------

\* An event in the port points into memory of a task that waits for this very
\* service: a handler never writes to a buffer whose owner went on.
EventsHaveOwners ==
    /\ \A i \in 1 .. Len(port) : waiting[port[i][1]] = port[i][2]
    /\ \A i, j \in 1 .. Len(port) : port[i][1] = port[j][1] => i = j

\* The Newt task never waits for itself, and every call of a service made
\* elsewhere ends, unless NewtonScript threw an exception in its handler.
CallsEnd ==
    \A t \in Tasks : waiting[t] # "none" ~> (waiting[t] = "none" \/ t \in unanswered)
=============================================================================
