----------------------------- MODULE Packaging -----------------------------
(***************************************************************************)
(* Installing and removing the mbed TLS package, beside NIE.  NIE offers   *)
(* the connection end PInetToolCE; mbed TLS takes its place in the class   *)
(* registry and keeps NIE's class info in the name server, to forward to   *)
(* it and to put it back.  The packages come and go in any order:          *)
(*   - InstallScript and RemoveScript run when mbed TLS is installed or    *)
(*     removed (mbedTLS.f);                                                *)
(*   - ImportDisabled runs when NIE's unit goes away, before NIE's own     *)
(*     class does (external);                                              *)
(*   - whenever a package is added or removed, a procrastinated call       *)
(*     looks whether NIE is there now.                                     *)
(* Everything runs in the Newt task, one script at a time.                 *)
(*                                                                         *)
(* PMbedTLS::InstallConnectionEnd and RemoveConnectionEnd change three     *)
(* registrations in a row and return in the middle when one of them fails. *)
(***************************************************************************)
EXTENDS Naturals

CONSTANTS Faults,     \* calls of the system that may fail
          MaxObjects  \* bound: PMbedTLS objects alive at a time

AllFaults == {"deregisterNIE", "saveName", "registerOurs",
              "deregisterOurs", "restoreNIE", "registerSingleton"}

ASSUME PackagingAssumption == Faults \subseteq AllFaults /\ MaxObjects \in Nat \ {0}

VARIABLES
    pkg,        \* the mbed TLS package and its global context are there
    nie,        \* NIE is there: its unit can be imported
    ceClass,    \* class registered as PInetToolCE
    saved,      \* class info in the name server (kInetToolClassInfoName...)
    connectionEndInstalled,  \* slot of the global context
    singleton,  \* PMbedTLS is in the name server
    objects,    \* PMbedTLS objects allocated and not deleted
    watching,   \* regSoupChangeCb is registered
    pending,    \* the procrastinated call is scheduled
    failed      \* history: the calls that failed

pkgVars == <<pkg, nie, ceClass, saved, connectionEndInstalled, singleton,
             objects, watching, pending, failed>>

Classes == {"none", "nie", "ours"}

PkgInit ==
    /\ pkg = FALSE /\ nie = FALSE
    /\ ceClass = "none" /\ saved = "none"
    /\ connectionEndInstalled = FALSE
    /\ singleton = FALSE /\ objects = 0
    /\ watching = FALSE /\ pending = FALSE
    /\ failed = {}

\* What the three registries may be after a call: it returns early at the
\* first registration that fails.
Outcome(class, sv, f) == [class |-> class, saved |-> sv, failed |-> failed \cup f]
Unchanged == Outcome(ceClass, saved, {})
Fails(f, class, sv) == {o \in {Outcome(class, sv, {f})} : f \in Faults}

InstallConnectionEnd ==
    IF saved # "none" \/ ceClass = "none" THEN {Unchanged}
    ELSE Fails("deregisterNIE", ceClass, "none")
         \cup Fails("saveName", "none", "none")
         \cup Fails("registerOurs", "none", ceClass)
         \cup {Outcome("ours", ceClass, {})}

\* Mutant: NIE's class info is not registered again.
RemoveConnectionEndOnly ==
    IF saved = "none" THEN {Unchanged}
    ELSE IF ceClass # "ours" THEN {Outcome(ceClass, "none", {})}
    ELSE Fails("deregisterOurs", "ours", "none") \cup {Outcome("none", "none", {})}

\* Mutant: the name of NIE's class info stays in the name server.
RemoveConnectionEndKeepsName ==
    IF saved = "none" THEN {Unchanged}
    ELSE IF ceClass # "ours" THEN {Unchanged}
    ELSE Fails("deregisterOurs", "ours", saved)
         \cup Fails("restoreNIE", "none", saved)
         \cup {Outcome(saved, saved, {})}

RemoveConnectionEnd ==
    IF saved = "none" THEN {Unchanged}
    ELSE IF ceClass # "ours" THEN {Outcome(ceClass, "none", {})}
    ELSE Fails("deregisterOurs", "ours", "none")
         \cup Fails("restoreNIE", "none", "none")
         \cup {Outcome(saved, "none", {})}

BecomesOutcome(o) == ceClass' = o.class /\ saved' = o.saved /\ failed' = o.failed

(***************************************************************************)
(* The singleton.  When its name cannot be registered, the new object is   *)
(* lost and the caller gets an exception.                                  *)
(***************************************************************************)
SingletonFound == singleton /\ UNCHANGED <<singleton, objects>>

SingletonCreated ==
    /\ ~singleton /\ objects < MaxObjects
    /\ singleton' = TRUE /\ objects' = objects + 1

SingletonThrows ==
    /\ ~singleton /\ objects < MaxObjects
    /\ "registerSingleton" \in Faults
    /\ objects' = objects + 1
    /\ failed' = failed \cup {"registerSingleton"}
    /\ UNCHANGED <<singleton, ceClass, saved, connectionEndInstalled>>

GetInterfaceSingleton == SingletonFound \/ SingletonCreated

\* Mutant: the removal of NIE's connection end is left to ImportDisabled.
DeleteInterfaceSingletonOnly ==
    /\ singleton' = FALSE
    /\ objects' = IF singleton THEN objects - 1 ELSE objects
    /\ UNCHANGED <<ceClass, saved, failed>>

\* PMbedTLS::Delete, if there is one, and the name goes.
DeleteInterfaceSingleton ==
    /\ singleton' = FALSE
    /\ objects' = IF singleton THEN objects - 1 ELSE objects
    /\ IF singleton THEN \E o \in RemoveConnectionEnd : BecomesOutcome(o)
       ELSE UNCHANGED <<ceClass, saved, failed>>

\* The function of the native module: it creates no singleton.
RemoveConnectionEndFn == IF singleton THEN RemoveConnectionEnd ELSE {Unchanged}

(***************************************************************************)
(* The scripts of the package (mbedTLS.f).                                 *)
(***************************************************************************)
\* Whatever InstallConnectionEnd returns, the slot says it is installed.
MaybeInstallConnectionEnd(present) ==
    IF connectionEndInstalled \/ ~present
    THEN UNCHANGED <<ceClass, saved, failed, connectionEndInstalled, singleton, objects>>
    ELSE \/ /\ GetInterfaceSingleton
            /\ \E o \in InstallConnectionEnd : BecomesOutcome(o)
            /\ connectionEndInstalled' = TRUE
         \/ SingletonThrows

\* Mutant: the script does not look whether NIE is there already.
InstallScriptWaits ==
    /\ ~pkg
    /\ pkg' = TRUE
    /\ GetInterfaceSingleton
    /\ watching' = TRUE
    /\ UNCHANGED <<nie, pending, ceClass, saved, failed, connectionEndInstalled>>

\* The global context is new (its connectionEndInstalled is nil), mbedTLS.Install
\* creates the singleton, then NIE is looked for.  An exception of Install
\* ends the script before the callback is registered.
InstallScript ==
    /\ ~pkg
    /\ pkg' = TRUE
    /\ \/ /\ GetInterfaceSingleton
          /\ watching' = TRUE
          /\ IF nie THEN /\ \E o \in InstallConnectionEnd : BecomesOutcome(o)
                         /\ connectionEndInstalled' = TRUE
                    ELSE UNCHANGED <<ceClass, saved, failed, connectionEndInstalled>>
       \/ SingletonThrows /\ UNCHANGED watching
    /\ UNCHANGED <<nie, pending>>

RemoveScript ==
    /\ pkg
    /\ pkg' = FALSE
    /\ watching' = FALSE
    /\ connectionEndInstalled' = FALSE
    /\ DeleteInterfaceSingleton
    /\ UNCHANGED <<nie, pending>>

\* The call was scheduled by this package or by an earlier installation of
\* it; without the global context it does nothing.
ProcrastinatedCall ==
    /\ pending
    /\ pending' = FALSE
    /\ MaybeInstallConnectionEnd(pkg /\ nie)
    /\ UNCHANGED <<pkg, nie, watching>>

\* NIE's unit is gone; NIE's own class goes right after it.
WithoutNIE(class) == IF class = "nie" THEN "none" ELSE class

ImportDisabled ==
    /\ \E o \in (IF connectionEndInstalled THEN RemoveConnectionEndFn ELSE {Unchanged}) :
          BecomesOutcome([o EXCEPT !.class = WithoutNIE(@)])
    /\ connectionEndInstalled' = FALSE

(***************************************************************************)
(* The environment (external): NIE and other packages.  A registry that    *)
(* still holds our class when NIE registers its own may keep either.       *)
(***************************************************************************)
InstallNIE ==
    /\ ~nie
    /\ nie' = TRUE
    /\ ceClass' \in IF ceClass = "ours" THEN {"ours", "nie"} ELSE {"nie"}
    /\ pending' = (pending \/ watching)
    /\ UNCHANGED <<pkg, saved, connectionEndInstalled, singleton, objects,
                   watching, failed>>

RemoveNIE ==
    /\ nie
    /\ nie' = FALSE
    /\ IF pkg THEN ImportDisabled
       ELSE /\ ceClass' = WithoutNIE(ceClass)
            /\ UNCHANGED <<saved, failed, connectionEndInstalled>>
    /\ pending' = (pending \/ watching)
    /\ UNCHANGED <<pkg, singleton, objects, watching>>

OtherPackage ==
    /\ watching /\ ~pending
    /\ pending' = TRUE
    /\ UNCHANGED <<pkg, nie, ceClass, saved, connectionEndInstalled, singleton,
                   objects, watching, failed>>

PkgNext ==
    \/ InstallScript \/ RemoveScript \/ ProcrastinatedCall
    \/ InstallNIE \/ RemoveNIE \/ OtherPackage

PkgSpec == PkgInit /\ [][PkgNext]_pkgVars

\* The event loop runs scheduled calls.
PkgFairSpec == PkgSpec /\ WF_pkgVars(ProcrastinatedCall)

-----------------------------------------------------------------------------

\* However the packages came and went, NIE has its own connection end back
\* when mbed TLS is gone, unless a registration failed.
NIERestored == nie /\ ~pkg /\ failed = {} => ceClass = "nie"

\* PInetToolCE is our class only while our code and NIE, to which it
\* forwards, are there; only a failed deregistration leaves it behind.
OursNeedsPackage ==
    ceClass = "ours" => (pkg /\ singleton /\ nie) \/ "deregisterOurs" \in failed

\* The class info kept for forwarding is NIE's, NIE is there, and our class
\* is in its place (whatever failed before, unless our class got stuck).
SavedIsReplaced ==
    saved # "none" /\ "deregisterOurs" \notin failed =>
        /\ saved = "nie" /\ nie
        /\ ceClass = "ours" \/ "registerOurs" \in failed

\* With both packages installed, in either order, the TLS connection end is
\* put in place some day.
TLSBecomesAvailable ==
    (pkg /\ nie /\ failed = {}) ~> (ceClass = "ours" \/ ~pkg \/ ~nie \/ failed # {})
=============================================================================
