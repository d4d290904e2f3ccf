--------------------------- MODULE PackagingProofs ---------------------------
(***************************************************************************)
(* Proofs about installing and removing the package beside NIE, whichever  *)
(* calls of the system may fail and however many objects leak: NIE gets    *)
(* its connection end back, ours is in place only while its code and NIE   *)
(* are there, the class info kept for forwarding is NIE's, and with both   *)
(* packages there our class is in place or about to be.                    *)
(***************************************************************************)
EXTENDS Packaging, TLAPS

\* The types: the flags, and the two registries.
PkgFlagsOK ==
    /\ pkg \in BOOLEAN /\ nie \in BOOLEAN /\ connectionEndInstalled \in BOOLEAN
    /\ singleton \in BOOLEAN /\ watching \in BOOLEAN /\ pending \in BOOLEAN
RegistriesOK == ceClass \in Classes /\ saved \in Classes

\* Our class could not be taken out of the registry.
Stuck == "deregisterOurs" \in failed

\* The slot is set only with the package, its singleton and NIE there, and the
\* package's singleton goes with the package.
SlotOK ==
    /\ connectionEndInstalled => pkg /\ singleton /\ nie
    /\ singleton => pkg

\* Class info is kept only while the slot says so, for NIE, whose place our
\* class has taken (or failed to take).
SavedOK ==
    /\ saved # "none" => connectionEndInstalled
    /\ saved # "none" /\ ~Stuck =>
          saved = "nie" /\ (ceClass = "ours" \/ "registerOurs" \in failed)

\* Our class is in the registry only with NIE's kept behind it; and as long as
\* nothing failed, one of the two is there with NIE.
ClassOK ==
    /\ ceClass = "ours" /\ ~Stuck => saved = "nie"
    /\ nie /\ failed = {} => ceClass \in {"nie", "ours"}

\* The inductive invariant.
PkgInv == PkgFlagsOK /\ RegistriesOK /\ SlotOK /\ SavedOK /\ ClassOK

\* What SavedOK and ClassOK say of the registries after a call, for an outcome
\* of it.
Sound(o, slot, present) ==
    LET stuck == "deregisterOurs" \in o.failed
    IN  /\ o.class \in Classes /\ o.saved \in Classes
        /\ o.saved # "none" => slot
        /\ o.saved # "none" /\ ~stuck =>
              o.saved = "nie" /\ (o.class = "ours" \/ "registerOurs" \in o.failed)
        /\ o.class = "ours" /\ ~stuck => o.saved = "nie"
        /\ present /\ o.failed = {} => o.class \in {"nie", "ours"}

\* The registries after a step that has a sound outcome are as the invariant
\* wants them.
LEMMA SoundOutcome ==
    ASSUME NEW o, BecomesOutcome(o), Sound(o, connectionEndInstalled', nie')
    PROVE  RegistriesOK' /\ SavedOK' /\ ClassOK'
  BY DEF BecomesOutcome, Sound, RegistriesOK, SavedOK, ClassOK, Stuck

\* InstallConnectionEnd, wherever it returns early, leaves the registries in
\* order for a slot that is then set.
LEMMA InstallSound ==
    ASSUME PkgInv, nie, NEW o \in InstallConnectionEnd
    PROVE  Sound(o, TRUE, nie)
<1>1. CASE saved # "none" \/ ceClass = "none"
  BY <1>1 DEF PkgInv, RegistriesOK, SavedOK, ClassOK, Stuck, Sound,
              InstallConnectionEnd, Unchanged, Outcome
<1>2. CASE ~(saved # "none" \/ ceClass = "none")
  <2>1. o \in {Outcome(ceClass, "none", {"deregisterNIE"}),
               Outcome("none", "none", {"saveName"}),
               Outcome("none", ceClass, {"registerOurs"}),
               Outcome("ours", ceClass, {})}
    BY <1>2 DEF InstallConnectionEnd, Fails
  <2>2. saved = "none" /\ ceClass \in {"nie", "ours"} /\ (ceClass = "ours" => Stuck)
    BY <1>2 DEF PkgInv, RegistriesOK, ClassOK, Classes
  <2>3. CASE o = Outcome(ceClass, "none", {"deregisterNIE"})
    BY <2>2, <2>3 DEF Outcome, Sound, Stuck, Classes
  <2>4. CASE o = Outcome("none", "none", {"saveName"})
    BY <2>2, <2>4 DEF Outcome, Sound, Classes
  <2>5. CASE o = Outcome("none", ceClass, {"registerOurs"})
    BY <2>2, <2>5 DEF Outcome, Sound, Stuck, Classes
  <2>6. CASE o = Outcome("ours", ceClass, {})
    BY <2>2, <2>6 DEF Outcome, Sound, Stuck, Classes
  <2> QED
    BY <2>1, <2>3, <2>4, <2>5, <2>6
<1> QED
  BY <1>1, <1>2

\* RemoveConnectionEnd, wherever it returns early, keeps no class info and
\* puts NIE's class back or notes the failure.
LEMMA RemoveSound ==
    ASSUME PkgInv, NEW o \in RemoveConnectionEnd
    PROVE  /\ Sound(o, FALSE, nie)
           /\ o.class = "ours" => "deregisterOurs" \in o.failed
<1>1. CASE saved = "none"
  BY <1>1 DEF PkgInv, RegistriesOK, SavedOK, ClassOK, Stuck, Sound,
              RemoveConnectionEnd, Unchanged, Outcome
<1>2. CASE saved # "none" /\ ceClass # "ours"
  BY <1>2 DEF PkgInv, RegistriesOK, SavedOK, ClassOK, Stuck, Sound, Classes,
              RemoveConnectionEnd, Outcome
<1>3. CASE saved # "none" /\ ceClass = "ours"
  <2>1. o \in {Outcome("ours", "none", {"deregisterOurs"}),
               Outcome("none", "none", {"restoreNIE"}),
               Outcome(saved, "none", {})}
    BY <1>3 DEF RemoveConnectionEnd, Fails
  <2>2. saved \in {"nie", "ours"} /\ (saved = "ours" => Stuck)
    BY <1>3 DEF PkgInv, RegistriesOK, SavedOK, Classes
  <2>3. CASE o = Outcome("ours", "none", {"deregisterOurs"})
    BY <2>3 DEF Outcome, Sound, Classes
  <2>4. CASE o = Outcome("none", "none", {"restoreNIE"})
    BY <2>4 DEF Outcome, Sound, Classes
  <2>5. CASE o = Outcome(saved, "none", {})
    BY <2>2, <2>5 DEF Outcome, Sound, Stuck, Classes
  <2> QED
    BY <2>1, <2>3, <2>4, <2>5
<1> QED
  BY <1>1, <1>2, <1>3

\* The system starts in the invariant.
LEMMA PkgInvInit == PkgInit => PkgInv
<1> SUFFICES ASSUME PkgInit PROVE PkgInv
  OBVIOUS
<1>1. PkgFlagsOK
  BY DEF PkgInit, PkgFlagsOK
<1>2. RegistriesOK /\ SlotOK /\ SavedOK /\ ClassOK
  BY DEF PkgInit, RegistriesOK, Classes, SlotOK, SavedOK, ClassOK
<1> QED
  BY <1>1, <1>2 DEF PkgInv

\* A stuttering step changes nothing the invariant looks at.
LEMMA PkgInvStutter == PkgInv /\ UNCHANGED pkgVars => PkgInv'
  BY DEF PkgInv, PkgFlagsOK, RegistriesOK, SlotOK, SavedOK, ClassOK, Stuck, pkgVars

\* A call that throws leaves an object behind, and the registries alone.
LEMMA ThrowsKeeps ==
    ASSUME PkgInv, SingletonThrows, UNCHANGED nie, pkg => pkg', pkg' \in BOOLEAN
    PROVE  RegistriesOK' /\ SlotOK' /\ SavedOK' /\ ClassOK'
  BY DEF SingletonThrows, PkgInv, RegistriesOK, SlotOK, SavedOK, ClassOK, Stuck

\* InstallScript.
LEMMA PkgInvInstall == PkgInv /\ InstallScript => PkgInv'
<1> SUFFICES ASSUME PkgInv, InstallScript PROVE PkgInv'
  OBVIOUS
<1>1. ~pkg /\ pkg' = TRUE /\ nie' = nie /\ pending' = pending
  BY DEF InstallScript
<1>2. ~connectionEndInstalled /\ ~singleton
  BY <1>1 DEF PkgInv, SlotOK
<1>3. CASE SingletonThrows /\ UNCHANGED watching
  <2>1. PkgFlagsOK'
    BY <1>1, <1>3 DEF PkgInv, PkgFlagsOK, SingletonThrows
  <2>2. RegistriesOK' /\ SlotOK' /\ SavedOK' /\ ClassOK'
    BY <1>1, <1>3, ThrowsKeeps
  <2> QED
    BY <2>1, <2>2 DEF PkgInv
<1>4. ASSUME GetInterfaceSingleton, watching' = TRUE, nie,
             \E o \in InstallConnectionEnd : BecomesOutcome(o),
             connectionEndInstalled' = TRUE
      PROVE  PkgInv'
  <2>1. singleton' = TRUE
    BY <1>2, <1>4 DEF GetInterfaceSingleton, SingletonFound, SingletonCreated
  <2>2. PkgFlagsOK'
    BY <1>1, <1>4, <2>1 DEF PkgInv, PkgFlagsOK
  <2>3. SlotOK'
    BY <1>1, <1>4, <2>1 DEF SlotOK
  <2>4. PICK o \in InstallConnectionEnd : BecomesOutcome(o)
    BY <1>4
  <2>5. Sound(o, TRUE, nie)
    BY <1>4, InstallSound
  <2>6. RegistriesOK' /\ SavedOK' /\ ClassOK'
    BY <1>1, <1>4, <2>4, <2>5, SoundOutcome
  <2> QED
    BY <2>2, <2>3, <2>6 DEF PkgInv
<1>5. ASSUME GetInterfaceSingleton, watching' = TRUE, ~nie,
             UNCHANGED <<ceClass, saved, failed, connectionEndInstalled>>
      PROVE  PkgInv'
  <2>1. singleton' = TRUE
    BY <1>2, <1>5 DEF GetInterfaceSingleton, SingletonFound, SingletonCreated
  <2>2. PkgFlagsOK'
    BY <1>1, <1>5, <2>1 DEF PkgInv, PkgFlagsOK
  <2>3. RegistriesOK' /\ SlotOK' /\ SavedOK' /\ ClassOK'
    BY <1>1, <1>2, <1>5, <2>1 DEF PkgInv, RegistriesOK, SlotOK, SavedOK, ClassOK, Stuck
  <2> QED
    BY <2>2, <2>3 DEF PkgInv
<1> QED
  BY <1>3, <1>4, <1>5 DEF InstallScript

\* RemoveScript: with the singleton, the connection end is removed; without it
\* there is nothing in the registries to remove.
LEMMA PkgInvRemove == PkgInv /\ RemoveScript => PkgInv'
<1> SUFFICES ASSUME PkgInv, RemoveScript PROVE PkgInv'
  OBVIOUS
<1>1. /\ pkg' = FALSE /\ watching' = FALSE /\ connectionEndInstalled' = FALSE
      /\ singleton' = FALSE /\ UNCHANGED <<nie, pending>>
  BY DEF RemoveScript, DeleteInterfaceSingleton
<1>2. PkgFlagsOK'
  BY <1>1 DEF PkgInv, PkgFlagsOK
<1>3. SlotOK'
  BY <1>1 DEF SlotOK
<1>4. CASE singleton
  <2>1. PICK o \in RemoveConnectionEnd : BecomesOutcome(o)
    BY <1>4 DEF RemoveScript, DeleteInterfaceSingleton
  <2>2. Sound(o, FALSE, nie)
    BY RemoveSound
  <2>3. RegistriesOK' /\ SavedOK' /\ ClassOK'
    BY <1>1, <2>1, <2>2, SoundOutcome
  <2> QED
    BY <1>2, <1>3, <2>3 DEF PkgInv
<1>5. CASE ~singleton
  <2>1. UNCHANGED <<ceClass, saved, failed>>
    BY <1>5 DEF RemoveScript, DeleteInterfaceSingleton
  <2>2. saved = "none"
    BY <1>5 DEF PkgInv, SlotOK, SavedOK
  <2>3. RegistriesOK' /\ SavedOK' /\ ClassOK'
    BY <1>1, <2>1, <2>2 DEF PkgInv, RegistriesOK, SavedOK, ClassOK, Stuck
  <2> QED
    BY <1>2, <1>3, <2>3 DEF PkgInv
<1> QED
  BY <1>4, <1>5 DEF PkgInv, PkgFlagsOK

\* The procrastinated call.
LEMMA PkgInvProcrastinated == PkgInv /\ ProcrastinatedCall => PkgInv'
<1> SUFFICES ASSUME PkgInv, ProcrastinatedCall PROVE PkgInv'
  OBVIOUS
<1>1. pending' = FALSE /\ UNCHANGED <<pkg, nie, watching>>
  BY DEF ProcrastinatedCall
<1>2. CASE connectionEndInstalled \/ ~(pkg /\ nie)
  <2>1. UNCHANGED <<ceClass, saved, failed, connectionEndInstalled, singleton, objects>>
    BY <1>2 DEF ProcrastinatedCall, MaybeInstallConnectionEnd
  <2>2. PkgFlagsOK'
    BY <1>1, <2>1 DEF PkgInv, PkgFlagsOK
  <2>3. RegistriesOK' /\ SlotOK' /\ SavedOK' /\ ClassOK'
    BY <1>1, <2>1 DEF PkgInv, RegistriesOK, SlotOK, SavedOK, ClassOK, Stuck
  <2> QED
    BY <2>2, <2>3 DEF PkgInv
<1>3. ASSUME pkg, nie, GetInterfaceSingleton,
             \E o \in InstallConnectionEnd : BecomesOutcome(o),
             connectionEndInstalled' = TRUE
      PROVE  PkgInv'
  <2>1. singleton' = TRUE
    BY <1>3 DEF GetInterfaceSingleton, SingletonFound, SingletonCreated, PkgInv, PkgFlagsOK
  <2>2. PkgFlagsOK'
    BY <1>1, <1>3, <2>1 DEF PkgInv, PkgFlagsOK
  <2>3. SlotOK'
    BY <1>1, <1>3, <2>1 DEF SlotOK
  <2>4. PICK o \in InstallConnectionEnd : BecomesOutcome(o)
    BY <1>3
  <2>5. Sound(o, TRUE, nie)
    BY <1>3, InstallSound
  <2>6. RegistriesOK' /\ SavedOK' /\ ClassOK'
    BY <1>1, <1>3, <2>4, <2>5, SoundOutcome
  <2> QED
    BY <2>2, <2>3, <2>6 DEF PkgInv
<1>4. ASSUME pkg, SingletonThrows
      PROVE  PkgInv'
  <2>1. PkgFlagsOK'
    BY <1>1, <1>4 DEF PkgInv, PkgFlagsOK, SingletonThrows
  <2>2. RegistriesOK' /\ SlotOK' /\ SavedOK' /\ ClassOK'
    BY <1>1, <1>4, <2>1, ThrowsKeeps DEF PkgFlagsOK
  <2> QED
    BY <2>1, <2>2 DEF PkgInv
<1> QED
  BY <1>2, <1>3, <1>4 DEF ProcrastinatedCall, MaybeInstallConnectionEnd

\* NIE's own class goes with it; a class of ours that is left has got stuck.
LEMMA WithoutNIESound ==
    ASSUME NEW o, o = [class |-> o.class, saved |-> o.saved, failed |-> o.failed],
           Sound(o, FALSE, nie), o.class = "ours" => "deregisterOurs" \in o.failed
    PROVE  Sound([o EXCEPT !.class = WithoutNIE(@)], FALSE, FALSE)
<1>1. [o EXCEPT !.class = WithoutNIE(@)] =
          [class |-> WithoutNIE(o.class), saved |-> o.saved, failed |-> o.failed]
  OBVIOUS
<1> QED
  BY <1>1 DEF Sound, WithoutNIE, Classes

\* The outcomes of the removal are records of the three registries.
LEMMA RemoveOutcomes ==
    ASSUME NEW o \in RemoveConnectionEnd \cup {Unchanged}
    PROVE  o = [class |-> o.class, saved |-> o.saved, failed |-> o.failed]
<1>1. \E c, sv, f : o = Outcome(c, sv, f)
  BY DEF RemoveConnectionEnd, Unchanged, Fails
<1> QED
  BY <1>1 DEF Outcome

\* RemoveNIE: with the package there ImportDisabled runs first.
LEMMA PkgInvRemoveNIE == PkgInv /\ RemoveNIE => PkgInv'
<1> SUFFICES ASSUME PkgInv, RemoveNIE PROVE PkgInv'
  OBVIOUS
<1>1. /\ nie /\ nie' = FALSE /\ pending' = (pending \/ watching)
      /\ UNCHANGED <<pkg, singleton, objects, watching>>
  BY DEF RemoveNIE
<1>2. connectionEndInstalled' = FALSE
  BY DEF RemoveNIE, ImportDisabled, PkgInv, PkgFlagsOK, SlotOK
<1>3. PkgFlagsOK'
  BY <1>1, <1>2 DEF PkgInv, PkgFlagsOK
<1>4. SlotOK'
  BY <1>1, <1>2 DEF PkgInv, SlotOK
<1>5. CASE connectionEndInstalled
  <2>1. pkg /\ singleton
    BY <1>5 DEF PkgInv, SlotOK
  <2>2. PICK o \in RemoveConnectionEnd : BecomesOutcome([o EXCEPT !.class = WithoutNIE(@)])
    BY <1>5, <2>1 DEF RemoveNIE, ImportDisabled, RemoveConnectionEndFn
  <2>3. Sound(o, FALSE, nie) /\ (o.class = "ours" => "deregisterOurs" \in o.failed)
    BY RemoveSound
  <2>4. Sound([o EXCEPT !.class = WithoutNIE(@)], FALSE, FALSE)
    BY <2>3, RemoveOutcomes, WithoutNIESound
  <2>5. RegistriesOK' /\ SavedOK' /\ ClassOK'
    BY <1>1, <1>2, <2>2, <2>4, SoundOutcome
  <2> QED
    BY <1>3, <1>4, <2>5 DEF PkgInv
<1>6. CASE ~connectionEndInstalled
  <2>1. saved = "none" /\ (ceClass = "ours" => Stuck)
    BY <1>6 DEF PkgInv, SavedOK, ClassOK
  <2>2. ceClass' = WithoutNIE(ceClass) /\ UNCHANGED <<saved, failed>>
    <3>1. CASE pkg
      <4>1. PICK o \in {Unchanged} : BecomesOutcome([o EXCEPT !.class = WithoutNIE(@)])
        BY <1>6, <3>1 DEF RemoveNIE, ImportDisabled
      <4>2. BecomesOutcome([class |-> WithoutNIE(ceClass), saved |-> saved,
                            failed |-> failed])
        BY <4>1 DEF Unchanged, Outcome
      <4> QED
        BY <4>2 DEF BecomesOutcome
    <3>2. CASE ~pkg
      BY <3>2 DEF RemoveNIE
    <3> QED
      BY <3>1, <3>2
  <2>3. RegistriesOK' /\ SavedOK' /\ ClassOK'
    BY <1>1, <2>1, <2>2 DEF PkgInv, RegistriesOK, SavedOK, ClassOK, Stuck, Classes, WithoutNIE
  <2> QED
    BY <1>3, <1>4, <2>3 DEF PkgInv
<1> QED
  BY <1>5, <1>6

\* NIE registers its class, or finds ours stuck in its place; another package
\* comes or goes.
LEMMA PkgInvOthers == PkgInv /\ (InstallNIE \/ OtherPackage) => PkgInv'
<1>1. ASSUME PkgInv, InstallNIE PROVE PkgInv'
  <2> USE <1>1 DEF InstallNIE
  <2>1. PkgFlagsOK'
    BY DEF PkgInv, PkgFlagsOK
  <2>2. ~connectionEndInstalled /\ saved = "none" /\ (ceClass = "ours" => Stuck)
    BY DEF PkgInv, SlotOK, SavedOK, ClassOK
  <2>3. RegistriesOK' /\ SlotOK' /\ SavedOK' /\ ClassOK'
    BY <2>2 DEF PkgInv, RegistriesOK, Classes, SlotOK, SavedOK, ClassOK, Stuck
  <2> QED
    BY <2>1, <2>3 DEF PkgInv
<1>2. ASSUME PkgInv, OtherPackage PROVE PkgInv'
  <2> USE <1>2 DEF OtherPackage
  <2>1. PkgFlagsOK'
    BY DEF PkgInv, PkgFlagsOK
  <2>2. RegistriesOK' /\ SlotOK' /\ SavedOK' /\ ClassOK'
    BY DEF PkgInv, RegistriesOK, SlotOK, SavedOK, ClassOK, Stuck
  <2> QED
    BY <2>1, <2>2 DEF PkgInv
<1> QED
  BY <1>1, <1>2

\* The invariant holds throughout.
LEMMA PkgInvAlways == PkgSpec => []PkgInv
<1>1. PkgInv /\ [PkgNext]_pkgVars => PkgInv'
  BY PkgInvStutter, PkgInvInstall, PkgInvRemove, PkgInvProcrastinated, PkgInvRemoveNIE,
     PkgInvOthers DEF PkgNext
<1> QED
  BY <1>1, PkgInvInit, PTL DEF PkgSpec

\* However the packages come and go, NIE has its own connection end back when
\* the mbed TLS package is gone, unless a registration failed.
THEOREM NIEAlwaysRestored == PkgSpec => []NIERestored
<1>1. PkgInv => NIERestored
  <2> SUFFICES ASSUME PkgInv, nie, ~pkg, failed = {} PROVE ceClass = "nie"
    BY DEF NIERestored
  <2>1. saved = "none" /\ ~Stuck
    BY DEF PkgInv, SlotOK, SavedOK, Stuck
  <2> QED
    BY <2>1 DEF PkgInv, ClassOK
<1> QED
  BY <1>1, PkgInvAlways, PTL

\* Our class is PInetToolCE only while the package, its singleton and NIE are
\* there, or after DeregisterClass failed on it.
THEOREM OursAlwaysNeedsPackage == PkgSpec => []OursNeedsPackage
<1>1. PkgInv => OursNeedsPackage
  BY DEF PkgInv, SlotOK, SavedOK, ClassOK, Stuck, OursNeedsPackage
<1> QED
  BY <1>1, PkgInvAlways, PTL

\* The class info in the name server is NIE's, NIE is there, and our class has
\* taken its place or failed to be registered.
THEOREM SavedAlwaysReplaced == PkgSpec => []SavedIsReplaced
<1>1. PkgInv => SavedIsReplaced
  BY DEF PkgInv, SlotOK, SavedOK, Stuck, SavedIsReplaced
<1> QED
  BY <1>1, PkgInvAlways, PTL
-----------------------------------------------------------------------------
(***************************************************************************)
(* The safety behind TLSBecomesAvailable: what has to happen is scheduled. *)
(***************************************************************************)

\* As long as nothing failed, with both packages there our class is in place or
\* a procrastinated call that will put it there is scheduled.
OnItsWay == pkg /\ nie /\ failed = {} => ceClass = "ours" \/ pending

\* What it rests on: the slot does not claim an installation that did not happen
\* (it would stop the next call), and the package hears of NIE's arrival.
WayInv ==
    /\ connectionEndInstalled /\ failed = {} => ceClass = "ours"
    /\ pkg /\ failed = {} => watching
    /\ OnItsWay

\* An installation without a failure, with the slot unset and NIE there, puts
\* our class in place: nothing is kept from before, and NIE's class is there.
LEMMA InstallTakesPlace ==
    ASSUME PkgInv, nie, ~connectionEndInstalled,
           NEW o \in InstallConnectionEnd, o.failed = {}
    PROVE  failed = {} /\ o.class = "ours"
<1>1. saved = "none"
  BY DEF PkgInv, SavedOK
<1>2. failed = {}
  BY DEF InstallConnectionEnd, Unchanged, Fails, Outcome
<1>3. ceClass # "none"
  BY <1>2 DEF PkgInv, ClassOK
<1>4. o \in {Outcome(ceClass, "none", {"deregisterNIE"}),
             Outcome("none", "none", {"saveName"}),
             Outcome("none", ceClass, {"registerOurs"}),
             Outcome("ours", ceClass, {})}
  BY <1>1, <1>3 DEF InstallConnectionEnd, Fails
<1> QED
  BY <1>2, <1>4 DEF Outcome

\* No step of the package forgets a failure.
LEMMA FailureRemembered ==
    ASSUME NEW o \in InstallConnectionEnd \cup RemoveConnectionEnd \cup {Unchanged}
    PROVE  failed \subseteq o.failed
  BY DEF InstallConnectionEnd, RemoveConnectionEnd, Unchanged, Fails, Outcome

\* InstallScript looks for NIE itself, or registers for its arrival.
LEMMA WayInstall == PkgInv /\ WayInv /\ InstallScript => WayInv'
<1> SUFFICES ASSUME PkgInv, WayInv, InstallScript, failed' = {} PROVE WayInv'
  BY DEF WayInv, OnItsWay
<1>1. ~pkg /\ nie' = nie /\ ~connectionEndInstalled
  BY DEF InstallScript, PkgInv, SlotOK
<1>2. ~SingletonThrows
  BY DEF SingletonThrows
<1>3. watching' = TRUE
  BY <1>2 DEF InstallScript
<1>4. CASE nie
  <2>1. PICK o \in InstallConnectionEnd : BecomesOutcome(o)
    BY <1>2, <1>4 DEF InstallScript
  <2>2. ceClass' = "ours"
    BY <1>1, <1>4, <2>1, InstallTakesPlace DEF BecomesOutcome
  <2> QED
    BY <1>3, <2>2 DEF WayInv, OnItsWay
<1>5. CASE ~nie
  <2>1. connectionEndInstalled' = connectionEndInstalled
    BY <1>2, <1>5 DEF InstallScript
  <2> QED
    BY <1>1, <1>3, <1>5, <2>1 DEF WayInv, OnItsWay
<1> QED
  BY <1>4, <1>5

\* The procrastinated call is used up: by then our class is in place.
LEMMA WayProcrastinated == PkgInv /\ WayInv /\ ProcrastinatedCall => WayInv'
<1> SUFFICES ASSUME PkgInv, WayInv, ProcrastinatedCall, failed' = {} PROVE WayInv'
  BY DEF WayInv, OnItsWay
<1>1. UNCHANGED <<pkg, nie, watching>>
  BY DEF ProcrastinatedCall
<1>2. CASE connectionEndInstalled \/ ~(pkg /\ nie)
  BY <1>1, <1>2 DEF ProcrastinatedCall, MaybeInstallConnectionEnd, WayInv, OnItsWay
<1>3. CASE ~(connectionEndInstalled \/ ~(pkg /\ nie))
  <2>1. ~SingletonThrows
    BY DEF SingletonThrows
  <2>2. PICK o \in InstallConnectionEnd : BecomesOutcome(o)
    BY <1>3, <2>1 DEF ProcrastinatedCall, MaybeInstallConnectionEnd
  <2>3. failed = {} /\ ceClass' = "ours"
    BY <1>3, <2>2, InstallTakesPlace DEF BecomesOutcome
  <2> QED
    BY <1>1, <2>3 DEF WayInv, OnItsWay
<1> QED
  BY <1>2, <1>3

\* NIE goes: the slot is reset with it, so that its return counts as new.
LEMMA WayRemoveNIE == PkgInv /\ WayInv /\ RemoveNIE => WayInv'
<1> SUFFICES ASSUME PkgInv, WayInv, RemoveNIE, failed' = {} PROVE WayInv'
  BY DEF WayInv, OnItsWay
<1>1. nie' = FALSE /\ UNCHANGED <<pkg, watching>>
  BY DEF RemoveNIE
<1>2. connectionEndInstalled' = FALSE
  BY DEF RemoveNIE, ImportDisabled, PkgInv, PkgFlagsOK, SlotOK
<1>3. pkg => failed = {}
  <2> SUFFICES ASSUME pkg PROVE failed = {}
    OBVIOUS
  <2>1. PICK o \in RemoveConnectionEnd \cup {Unchanged} :
            BecomesOutcome([o EXCEPT !.class = WithoutNIE(@)])
    BY DEF RemoveNIE, ImportDisabled, RemoveConnectionEndFn
  <2>2. o = [class |-> o.class, saved |-> o.saved, failed |-> o.failed]
    BY RemoveOutcomes
  <2>3. failed' = o.failed
    BY <2>1, <2>2 DEF BecomesOutcome
  <2> QED
    BY <2>3, FailureRemembered
<1> QED
  BY <1>1, <1>2, <1>3 DEF WayInv, OnItsWay

\* While both packages are installed and nothing failed, in whatever order they
\* came, the TLS connection end is in place or the call that puts it there is
\* scheduled: it needs only the event loop to run, the fairness under which TLC
\* checks TLSBecomesAvailable.
THEOREM TLSAlwaysOnItsWay == PkgSpec => []OnItsWay
<1>1. PkgInit => WayInv
  BY DEF PkgInit, WayInv, OnItsWay
<1>2. PkgInv /\ WayInv /\ [PkgNext]_pkgVars => WayInv'
  <2> SUFFICES ASSUME PkgInv, WayInv, [PkgNext]_pkgVars PROVE WayInv'
    OBVIOUS
  <2>1. CASE RemoveScript
    BY <2>1 DEF RemoveScript, WayInv, OnItsWay
  <2>2. CASE InstallNIE
    BY <2>2 DEF InstallNIE, WayInv, OnItsWay, PkgInv, SlotOK
  <2>3. CASE OtherPackage
    BY <2>3 DEF OtherPackage, WayInv, OnItsWay
  <2>4. CASE UNCHANGED pkgVars
    BY <2>4 DEF pkgVars, WayInv, OnItsWay
  <2> QED
    BY <2>1, <2>2, <2>3, <2>4, WayInstall, WayProcrastinated, WayRemoveNIE DEF PkgNext
<1>3. WayInv => OnItsWay
  BY DEF WayInv
<1> QED
  BY <1>1, <1>2, <1>3, PkgInvAlways, PTL DEF PkgSpec
=============================================================================
