--------------------------- MODULE ServicesProofs ---------------------------
(***************************************************************************)
(* Proofs about the services of the Newt task and the entropy collector,   *)
(* for any tools, services, samples, limits and batch sizes: an event of   *)
(* the port has a waiting owner, the collector goes on ticking, and no     *)
(* sample of the pen reaches mbedtls twice.                                *)
(***************************************************************************)
EXTENDS NewtServices, SequenceTheorems, TLAPS

(***************************************************************************)
(* Events and their owners.                                                *)
(***************************************************************************)
\* The shapes of the port and of the tasks' states.
SvcTypeOK ==
    /\ waiting \in [Tasks -> Services \cup {"none"}]
    /\ port \in Seq(Tasks \X Services)

SvcInv == SvcTypeOK /\ EventsHaveOwners

\* No service is called "none".
LEMMA NoneIsNoService == "none" \notin Services
  BY ServicesAssumption DEF AllServices

\* A tool's task sends an event and waits: it had none in the port.
LEMMA SvcInvSend ==
    ASSUME SvcInv, NEW t \in Tasks, NEW s \in Services, waiting[t] = "none",
           SendRPCToNewtApp(t, s)
    PROVE  SvcInv'
<1>1. /\ waiting \in [Tasks -> Services \cup {"none"}] /\ port \in Seq(Tasks \X Services)
      /\ waiting' = [waiting EXCEPT ![t] = s] /\ port' = Append(port, <<t, s>>)
      /\ <<t, s>> \in Tasks \X Services
  BY DEF SvcInv, SvcTypeOK, SendRPCToNewtApp
<1>2. /\ port' \in Seq(Tasks \X Services) /\ Len(port') = Len(port) + 1
      /\ \A i \in 1 .. Len(port) : port'[i] = port[i]
      /\ port'[Len(port) + 1] = <<t, s>> /\ Len(port) \in Nat
  BY <1>1, AppendProperties
<1>3. \A i \in 1 .. Len(port) :
         port[i] \in Tasks \X Services /\ port[i][1] # t /\ waiting[port[i][1]] = port[i][2]
  BY <1>1, NoneIsNoService DEF SvcInv, EventsHaveOwners
<1>4. SvcTypeOK'
  BY <1>1, <1>2 DEF SvcTypeOK
<1>5. ASSUME NEW i \in 1 .. Len(port') PROVE waiting'[port'[i][1]] = port'[i][2]
  <2>1. CASE i = Len(port) + 1
    BY <1>1, <1>2, <2>1
  <2>2. CASE i \in 1 .. Len(port)
    BY <1>1, <1>2, <1>3, <2>2
  <2> QED
    BY <1>2, <2>1, <2>2
<1>6. ASSUME NEW i \in 1 .. Len(port'), NEW j \in 1 .. Len(port'), port'[i][1] = port'[j][1]
      PROVE  i = j
  <2>1. CASE i \in 1 .. Len(port) /\ j \in 1 .. Len(port)
    <3>1. port[i][1] = port[j][1]
      BY <1>2, <1>6, <2>1
    <3> QED
      BY <2>1, <3>1 DEF SvcInv, EventsHaveOwners
  <2>2. CASE i = Len(port) + 1 \/ j = Len(port) + 1
    <3>1. \A k \in 1 .. Len(port) : port'[k][1] # t
      BY <1>2, <1>3
    <3>2. port'[Len(port) + 1][1] = t
      BY <1>2
    <3> QED
      BY <1>2, <1>6, <2>2, <3>1, <3>2
  <2> QED
    BY <1>2, <2>1, <2>2
<1> QED
  BY <1>4, <1>5, <1>6 DEF SvcInv, EventsHaveOwners

\* The first event leaves the port; its owner, and nobody else, may go on.
LEMMA SvcInvHandled ==
    ASSUME SvcInv, port # <<>>, port' = Tail(port),
           waiting' \in {waiting, [waiting EXCEPT ![Head(port)[1]] = "none"]}
    PROVE  SvcInv'
<1>1. /\ waiting \in [Tasks -> Services \cup {"none"}] /\ port \in Seq(Tasks \X Services)
  BY DEF SvcInv, SvcTypeOK
<1>2. /\ port' \in Seq(Tasks \X Services) /\ Len(port') = Len(port) - 1
      /\ \A i \in 1 .. Len(port') : port'[i] = port[i + 1]
      /\ Len(port) \in Nat \ {0} /\ Head(port) = port[1]
  BY <1>1, HeadTailProperties, EmptySeq
<1>3. SvcTypeOK'
  BY <1>1, <1>2 DEF SvcTypeOK
<1>4. \A i \in 1 .. Len(port') :
         /\ i + 1 \in 1 .. Len(port) /\ port[i + 1] \in Tasks \X Services
         /\ port[i + 1][1] # port[1][1] /\ waiting[port[i + 1][1]] = port[i + 1][2]
  BY <1>1, <1>2 DEF SvcInv, EventsHaveOwners
<1>5. \A i \in 1 .. Len(port') : waiting'[port'[i][1]] = port'[i][2]
  BY <1>1, <1>2, <1>4
<1>6. \A i, j \in 1 .. Len(port') : port'[i][1] = port'[j][1] => i = j
  <2> SUFFICES ASSUME NEW i \in 1 .. Len(port'), NEW j \in 1 .. Len(port'),
                      port'[i][1] = port'[j][1]
               PROVE  i = j
    OBVIOUS
  <2>1. i + 1 = j + 1
    BY <1>2, <1>4 DEF SvcInv, EventsHaveOwners
  <2> QED
    BY <1>2, <2>1
<1> QED
  BY <1>3, <1>5, <1>6 DEF SvcInv, EventsHaveOwners

LEMMA SvcInvAlways == SvcSpec => []SvcInv
<1>1. SvcInit => SvcInv
  <2> SUFFICES ASSUME SvcInit PROVE SvcInv
    OBVIOUS
  <2>1. port = <<>> /\ waiting = [t \in Tasks |-> "none"]
    BY DEF SvcInit
  <2> QED
    BY <2>1 DEF SvcInv, SvcTypeOK, EventsHaveOwners
<1>2. SvcInv /\ [SvcNext]_allVars => SvcInv'
  <2> SUFFICES ASSUME SvcInv, [SvcNext]_allVars PROVE SvcInv'
    OBVIOUS
  <2>1. CASE UNCHANGED svcVars
    BY <2>1 DEF svcVars, SvcInv, SvcTypeOK, EventsHaveOwners
  <2>2. ASSUME NEW t \in Tasks, NEW s \in Services, Call(t, s) PROVE SvcInv'
    BY <2>1, <2>2, SvcInvSend DEF Call
  <2>3. CASE AEHandlerProc \/ AEHandlerProcThrows
    BY <2>3, SvcInvHandled DEF AEHandlerProc, AEHandlerProcThrows
  <2>4. CASE NewtonReset
    <3>1. port' = <<>> /\ waiting' = [t \in Tasks |-> "none"]
      BY <2>4 DEF NewtonReset
    <3> QED
      BY <3>1 DEF SvcInv, SvcTypeOK, EventsHaveOwners
  <2>5. CASE UNCHANGED allVars
    BY <2>1, <2>5 DEF allVars, svcVars
  <2> QED
    BY <2>1, <2>2, <2>3, <2>4, <2>5 DEF SvcNext
<1> QED
  BY <1>1, <1>2, PTL DEF SvcSpec

\* A handler never writes to memory of a task that is not waiting for it: every
\* event of the port belongs to a task that waits for this very service, and no
\* task has two.
THEOREM EventsAlwaysHaveOwners == SvcSpec => []EventsHaveOwners
<1>1. SvcInv => EventsHaveOwners
  BY DEF SvcInv
<1> QED
  BY <1>1, SvcInvAlways, PTL

\* A task that waits is a tool's, and has an event in the port unless the
\* handler of its call threw.
InPort(t) == \E i \in 1 .. Len(port) : port[i][1] = t
CallsServed ==
    \A t \in Tasks : waiting[t] # "none" => t \in Tools /\ (t \in unanswered \/ InPort(t))

\* No call of a service is forgotten and the Newt task never waits for itself
\* (IsInNewtTask sends it to PMbedTLS directly), for any number of tasks, calls
\* and exceptions: the handler of the first event can always run, and every
\* task that waits has its turn, unless NewtonScript threw for it.
THEOREM CallsAlwaysServed == SvcSpec => []CallsServed
<1>1. SvcInit => CallsServed
  BY DEF SvcInit, CallsServed
<1>2. SvcInv /\ CallsServed /\ [SvcNext]_allVars => CallsServed'
  <2> SUFFICES ASSUME SvcInv, CallsServed, [SvcNext]_allVars PROVE CallsServed'
    OBVIOUS
  <2>0. waiting \in [Tasks -> Services \cup {"none"}] /\ port \in Seq(Tasks \X Services)
    BY DEF SvcInv, SvcTypeOK
  <2>1. CASE UNCHANGED svcVars
    BY <2>1 DEF svcVars, CallsServed, InPort
  <2>2. ASSUME NEW t \in Tasks, NEW s \in Services, Call(t, s) PROVE CallsServed'
    <3>1. CASE ~IsInNewtTask(t)
      <4>1. /\ waiting' = [waiting EXCEPT ![t] = s] /\ port' = Append(port, <<t, s>>)
            /\ UNCHANGED unanswered
        BY <2>2, <3>1 DEF Call, SendRPCToNewtApp
      <4>2. /\ Len(port') = Len(port) + 1 /\ Len(port) \in Nat
            /\ \A i \in 1 .. Len(port) : port'[i] = port[i]
            /\ port'[Len(port) + 1] = <<t, s>>
        BY <2>0, <4>1, AppendProperties
      <4>3. \A q \in Tasks : InPort(q) => InPort(q)'
        BY <4>2 DEF InPort
      <4>4. InPort(t)' /\ t \in Tools
        BY <3>1, <4>2 DEF InPort, IsInNewtTask, Tasks
      <4>5. \A q \in Tasks \ {t} : waiting'[q] = waiting[q]
        BY <2>0, <4>1
      <4> QED
        BY <4>1, <4>3, <4>4, <4>5 DEF CallsServed
    <3>2. CASE IsInNewtTask(t)
      BY <2>1, <2>2, <3>2 DEF Call
    <3> QED
      BY <3>1, <3>2
  <2>3. CASE AEHandlerProc \/ AEHandlerProcThrows
    <3>1. /\ port # <<>> /\ port' = Tail(port)
          /\ \/ /\ waiting' = [waiting EXCEPT ![Head(port)[1]] = "none"]
                /\ UNCHANGED unanswered
             \/ UNCHANGED waiting /\ unanswered' = unanswered \cup {Head(port)[1]}
      BY <2>3 DEF AEHandlerProc, AEHandlerProcThrows
    <3>2. /\ Len(port') = Len(port) - 1 /\ Len(port) \in Nat /\ Head(port) = port[1]
          /\ \A i \in 1 .. Len(port') : port'[i] = port[i + 1]
      BY <2>0, <3>1, HeadTailProperties, EmptySeq
    <3>3. ASSUME NEW q \in Tasks, q # Head(port)[1], InPort(q) PROVE InPort(q)'
      <4>1. PICK i \in 1 .. Len(port) : port[i][1] = q
        BY <3>3 DEF InPort
      <4>2. i # 1
        BY <3>2, <3>3, <4>1
      <4>3. i - 1 \in 1 .. Len(port') /\ port'[i - 1] = port[i]
        BY <3>2, <4>1, <4>2
      <4> QED
        BY <4>1, <4>3 DEF InPort
    <3>4. ASSUME NEW q \in Tasks, waiting'[q] # "none" PROVE q \in Tools /\ (q \in unanswered' \/ InPort(q)')
      <4>1. CASE q = Head(port)[1]
        <5>1. UNCHANGED waiting /\ q \in unanswered'
          BY <2>0, <3>1, <3>4, <4>1
        <5> QED
          BY <3>4, <5>1 DEF CallsServed
      <4>2. CASE q # Head(port)[1]
        <5>1. waiting'[q] = waiting[q] /\ unanswered \subseteq unanswered'
          BY <2>0, <3>1, <4>2
        <5> QED
          BY <3>3, <3>4, <4>2, <5>1 DEF CallsServed
      <4> QED
        BY <4>1, <4>2
    <3> QED
      BY <3>4 DEF CallsServed
  <2>4. CASE NewtonReset
    BY <2>4 DEF NewtonReset, CallsServed
  <2>5. CASE UNCHANGED allVars
    BY <2>1, <2>5 DEF allVars, svcVars
  <2> QED
    BY <2>1, <2>2, <2>3, <2>4, <2>5 DEF SvcNext
<1> QED
  BY <1>1, <1>2, SvcInvAlways, PTL DEF SvcSpec

(***************************************************************************)
(* The chain of delayed sends.                                             *)
(***************************************************************************)
\* The slot that says a send is scheduled is right too, or the chain has ended.
ScheduledOK == (scheduled \/ ~paused) /\ ~stopped => timers > 0
CollectorTypeOK ==
    scheduled \in BOOLEAN /\ paused \in BOOLEAN /\ stopped \in BOOLEAN
CollectorInv == CollectorTypeOK /\ timers \in Nat /\ ScheduledOK

\* Pausing, resuming, the limit and exceptions, in any order with the ticks.
LEMMA CollectorInvStep == CollectorInv /\ Collector => CollectorInv'
<1> SUFFICES ASSUME CollectorInv, Collector PROVE CollectorInv'
  OBVIOUS
<1>1. CASE CollectEntropy
  <2>1. timers > 0 /\ timers \in Nat /\ UNCHANGED paused
    BY <1>1 DEF CollectEntropy, CollectorInv
  <2>2. \/ scheduled' = FALSE /\ timers' = timers - 1 /\ stopped' = TRUE
        \/ CollectEntropyEnds /\ UNCHANGED stopped
    BY <1>1 DEF CollectEntropy
  <2>3. \/ scheduled' = FALSE /\ timers' = timers - 1 /\ stopped' = TRUE
        \/ paused /\ scheduled' = FALSE /\ timers' = timers - 1 /\ UNCHANGED stopped
        \/ ~paused /\ scheduled' = TRUE /\ timers' = timers /\ UNCHANGED stopped
    BY <2>2 DEF CollectEntropyEnds, Schedules
  <2>4. CollectorTypeOK'
    BY <2>1, <2>3 DEF CollectorInv, CollectorTypeOK
  <2>5. timers' \in Nat
    BY <2>1, <2>3
  <2>6. ScheduledOK'
    BY <2>1, <2>3 DEF ScheduledOK
  <2> QED
    BY <2>4, <2>5, <2>6 DEF CollectorInv
<1>2. CASE PauseBackgroundCollection
  <2>1. paused' = TRUE /\ UNCHANGED <<scheduled, timers, stopped>>
    BY <1>2 DEF PauseBackgroundCollection
  <2>2. CollectorTypeOK'
    BY <2>1 DEF CollectorInv, CollectorTypeOK
  <2> QED
    BY <2>1, <2>2 DEF CollectorInv, ScheduledOK
<1>3. CASE ResumeBackgroundCollection
  <2>1. /\ paused' = FALSE
        /\ \/ scheduled /\ UNCHANGED <<scheduled, timers, stopped>>
           \/ scheduled' = TRUE /\ timers' = timers + 1 /\ stopped' = FALSE
    BY <1>3 DEF ResumeBackgroundCollection
  <2>2. CollectorTypeOK'
    BY <2>1 DEF CollectorInv, CollectorTypeOK
  <2>3. timers' \in Nat /\ ScheduledOK'
    BY <2>1 DEF CollectorInv, ScheduledOK
  <2> QED
    BY <2>2, <2>3 DEF CollectorInv
<1>4. ASSUME NEW lim \in Limits, SetBackgroundCollectionRate(lim) PROVE CollectorInv'
  BY <1>4 DEF SetBackgroundCollectionRate, CollectorInv, CollectorTypeOK, ScheduledOK
<1> QED
  BY <1>1, <1>2, <1>3, <1>4 DEF Collector

\* The collector's chain of delayed sends is never lost between pausing and
\* resuming: it ends only at the limit, by an exception or by pausing.
THEOREM CollectorAlwaysAlive == SvcSpec => []CollectorAlive
<1>1. SvcInit => CollectorInv
  <2> SUFFICES ASSUME SvcInit PROVE CollectorInv
    OBVIOUS
  <2>1. CollectorTypeOK
    BY DEF SvcInit, EntInit, CollectorTypeOK
  <2>2. timers = 1
    BY DEF SvcInit, EntInit
  <2> QED
    BY <2>1, <2>2 DEF CollectorInv, ScheduledOK
<1>2. CollectorInv /\ [SvcNext]_allVars => CollectorInv'
  <2> SUFFICES ASSUME CollectorInv, [SvcNext]_allVars PROVE CollectorInv'
    OBVIOUS
  <2>1. CASE UNCHANGED <<scheduled, paused, timers, stopped>>
    BY <2>1 DEF CollectorInv, CollectorTypeOK, ScheduledOK
  <2>2. ASSUME NEW t \in Tasks, NEW s \in Services, Call(t, s)
        PROVE  UNCHANGED <<scheduled, paused, timers, stopped>>
    BY <2>2 DEF Call, Returns, ServiceThrows, CollectorUnchanged, SendRPCToNewtApp, entVars
  <2>3. CASE AEHandlerProc \/ AEHandlerProcThrows
    BY <2>1, <2>3 DEF AEHandlerProc, AEHandlerProcThrows, Returns, ServiceThrows,
                      CollectorUnchanged
  <2>4. CASE NewtonReset
    <3>1. scheduled' = FALSE /\ paused' = FALSE /\ stopped' = FALSE /\ timers' = 1
      BY <2>4 DEF NewtonReset, Reset, Started
    <3>2. CollectorTypeOK'
      BY <3>1 DEF CollectorTypeOK
    <3> QED
      BY <3>1, <3>2 DEF CollectorInv, ScheduledOK
  <2>5. CASE Collector
    BY <2>5, CollectorInvStep
  <2>6. CASE UNCHANGED allVars
    BY <2>1, <2>6 DEF allVars, entVars
  <2> QED
    BY <2>1, <2>2, <2>3, <2>4, <2>5, <2>6 DEF SvcNext
<1>3. CollectorInv => CollectorAlive
  BY DEF CollectorInv, ScheduledOK, CollectorAlive
<1> QED
  BY <1>1, <1>2, <1>3, PTL DEF SvcSpec

(***************************************************************************)
(* The way of a sample: from the pen to prefs.entropy, to the soup, to     *)
(* mbedtls.  h is what was handed out, e prefs.entropy, p the samples not  *)
(* packed yet, d the soup's entropy, n the number of the last sample.      *)
(***************************************************************************)
PenSamples == 1 .. MaxSamples

Below(s, t) == \A i \in 1 .. Len(s), j \in 1 .. Len(t) : s[i] < t[j]
Upto(s, n) == \A i \in 1 .. Len(s) : s[i] <= n

InOrder(h, e, p, d, n) ==
    /\ h \in Seq(PenSamples) /\ e \in Seq(PenSamples)
    /\ p \in Seq(PenSamples) /\ d \in Seq(PenSamples)
    /\ Increasing(h) /\ Increasing(e) /\ Increasing(p) /\ Increasing(d)
    /\ Below(h, e) /\ Below(h, p) /\ Below(e, p) /\ Below(h, d)
    /\ Upto(h, n) /\ Upto(e, n) /\ Upto(p, n) /\ Upto(d, n)

\* Where the elements of a concatenation come from.
LEMMA ConcatIndex ==
    ASSUME NEW s \in Seq(PenSamples), NEW t \in Seq(PenSamples)
    PROVE  /\ Len(s \o t) = Len(s) + Len(t) /\ Len(s) \in Nat /\ Len(t) \in Nat
           /\ \A i \in 1 .. Len(s) : i \in 1 .. Len(s \o t) /\ (s \o t)[i] = s[i]
           /\ \A i \in 1 .. Len(t) :
                 Len(s) + i \in 1 .. Len(s \o t) /\ (s \o t)[Len(s) + i] = t[i]
           /\ \A i \in 1 .. Len(s \o t) :
                 \/ i \in 1 .. Len(s) /\ (s \o t)[i] = s[i]
                 \/ i - Len(s) \in 1 .. Len(t) /\ (s \o t)[i] = t[i - Len(s)]
<1> DEFINE u == s \o t
<1>1. /\ Len(u) = Len(s) + Len(t)
      /\ \A i \in 1 .. Len(s) + Len(t) : u[i] = IF i <= Len(s) THEN s[i] ELSE t[i - Len(s)]
  BY ConcatProperties
<1>2. Len(s) \in Nat /\ Len(t) \in Nat
  BY LenProperties
<1> HIDE DEF u
<1>3. \A i \in 1 .. Len(s) : i \in 1 .. Len(u) /\ u[i] = s[i]
  BY <1>1, <1>2
<1>4. ASSUME NEW i \in 1 .. Len(t)
      PROVE  Len(s) + i \in 1 .. Len(u) /\ u[Len(s) + i] = t[i]
  <2>1. Len(s) + i \in 1 .. Len(s) + Len(t) /\ ~(Len(s) + i <= Len(s)) /\ (Len(s) + i) - Len(s) = i
    BY <1>2
  <2> QED
    BY <1>1, <2>1
<1>5. \A i \in 1 .. Len(u) :
         \/ i \in 1 .. Len(s) /\ u[i] = s[i]
         \/ i - Len(s) \in 1 .. Len(t) /\ u[i] = t[i - Len(s)]
  BY <1>1, <1>2
<1> QED
  BY <1>1, <1>2, <1>3, <1>4, <1>5 DEF u

\* A concatenation increases when its parts do, the first below the second.
LEMMA IncreasingConcat ==
    ASSUME NEW s \in Seq(PenSamples), NEW t \in Seq(PenSamples)
    PROVE  Increasing(s \o t) <=> Increasing(s) /\ Increasing(t) /\ Below(s, t)
<1> DEFINE u == s \o t
<1>1. Len(u) = Len(s) + Len(t) /\ Len(s) \in Nat /\ Len(t) \in Nat
  BY ConcatIndex
<1>3. \A i \in 1 .. Len(s) : i \in 1 .. Len(u) /\ u[i] = s[i]
  BY ConcatIndex
<1>4. \A i \in 1 .. Len(t) : Len(s) + i \in 1 .. Len(u) /\ u[Len(s) + i] = t[i]
  BY ConcatIndex
<1>5. \A i \in 1 .. Len(u) :
         \/ i \in 1 .. Len(s) /\ u[i] = s[i]
         \/ i - Len(s) \in 1 .. Len(t) /\ u[i] = t[i - Len(s)]
  BY ConcatIndex
<1> HIDE DEF u
<1>6. ASSUME Increasing(u) PROVE Increasing(s) /\ Increasing(t) /\ Below(s, t)
  <2>1. Increasing(s)
    BY <1>3, <1>6 DEF Increasing
  <2>2. Increasing(t)
    BY <1>1, <1>4, <1>6 DEF Increasing
  <2>3. Below(s, t)
    BY <1>1, <1>3, <1>4, <1>6 DEF Increasing, Below
  <2> QED
    BY <2>1, <2>2, <2>3
<1>7. ASSUME Increasing(s), Increasing(t), Below(s, t) PROVE Increasing(u)
  <2> SUFFICES ASSUME NEW i \in 1 .. Len(u), NEW j \in 1 .. Len(u), i < j PROVE u[i] < u[j]
    BY DEF Increasing
  <2>1. CASE j <= Len(s)
    BY <1>1, <1>5, <1>7, <2>1 DEF Increasing
  <2>2. CASE i <= Len(s) /\ j > Len(s)
    <3>1. i \in 1 .. Len(s) /\ u[i] = s[i] /\ j - Len(s) \in 1 .. Len(t) /\ u[j] = t[j - Len(s)]
      BY <1>1, <1>5, <2>2
    <3> QED
      BY <1>7, <3>1 DEF Below
  <2>3. CASE i > Len(s)
    <3>1. i - Len(s) \in 1 .. Len(t) /\ j - Len(s) \in 1 .. Len(t) /\ i - Len(s) < j - Len(s)
      BY <1>1, <1>5, <2>3
    <3>2. u[i] = t[i - Len(s)] /\ u[j] = t[j - Len(s)]
      BY <1>1, <1>5, <2>3
    <3> QED
      BY <1>7, <3>1, <3>2 DEF Increasing
  <2> QED
    BY <1>1, <2>1, <2>2, <2>3
<1> QED
  BY <1>6, <1>7 DEF u

\* Being below, or up to a number, is being so with both parts.
LEMMA BelowConcat ==
    ASSUME NEW s \in Seq(PenSamples), NEW t \in Seq(PenSamples), NEW v \in Seq(PenSamples)
    PROVE  /\ Below(v, s \o t) <=> Below(v, s) /\ Below(v, t)
           /\ Below(s \o t, v) <=> Below(s, v) /\ Below(t, v)
<1> DEFINE u == s \o t
<1>1. Len(u) = Len(s) + Len(t) /\ Len(s) \in Nat /\ Len(t) \in Nat
  BY ConcatIndex
<1>3. \A i \in 1 .. Len(s) : i \in 1 .. Len(u) /\ u[i] = s[i]
  BY ConcatIndex
<1>4. \A i \in 1 .. Len(t) : Len(s) + i \in 1 .. Len(u) /\ u[Len(s) + i] = t[i]
  BY ConcatIndex
<1>5. \A i \in 1 .. Len(u) :
         \/ i \in 1 .. Len(s) /\ u[i] = s[i]
         \/ i - Len(s) \in 1 .. Len(t) /\ u[i] = t[i - Len(s)]
  BY ConcatIndex
<1> HIDE DEF u
<1>6. Below(v, u) <=> Below(v, s) /\ Below(v, t)
  BY <1>3, <1>4, <1>5 DEF Below
<1>7. Below(u, v) <=> Below(s, v) /\ Below(t, v)
  BY <1>3, <1>4, <1>5 DEF Below
<1> QED
  BY <1>6, <1>7 DEF u

LEMMA UptoConcat ==
    ASSUME NEW s \in Seq(PenSamples), NEW t \in Seq(PenSamples), NEW n \in Nat
    PROVE  Upto(s \o t, n) <=> Upto(s, n) /\ Upto(t, n)
<1> DEFINE u == s \o t
<1>1. Len(u) = Len(s) + Len(t) /\ Len(s) \in Nat /\ Len(t) \in Nat
  BY ConcatIndex
<1>3. \A i \in 1 .. Len(s) : i \in 1 .. Len(u) /\ u[i] = s[i]
  BY ConcatIndex
<1>4. \A i \in 1 .. Len(t) : Len(s) + i \in 1 .. Len(u) /\ u[Len(s) + i] = t[i]
  BY ConcatIndex
<1>5. \A i \in 1 .. Len(u) :
         \/ i \in 1 .. Len(s) /\ u[i] = s[i]
         \/ i - Len(s) \in 1 .. Len(t) /\ u[i] = t[i - Len(s)]
  BY ConcatIndex
<1> HIDE DEF u
<1>6. Upto(u, n) <=> Upto(s, n) /\ Upto(t, n)
  BY <1>3, <1>4, <1>5 DEF Upto
<1> QED
  BY <1>6 DEF u

\* SaveCollectedEntropy: the first part of the pen's samples is appended to
\* prefs.entropy, which is then written to the soup or is not.
LEMMA OrderPack ==
    ASSUME NEW h, NEW e, NEW d, NEW n \in Nat,
           NEW a \in Seq(PenSamples), NEW b \in Seq(PenSamples), InOrder(h, e, a \o b, d, n)
    PROVE  InOrder(h, e \o a, b, d, n) /\ InOrder(h, e \o a, b, e \o a, n)
<1>1. h \in Seq(PenSamples) /\ e \in Seq(PenSamples)
  BY DEF InOrder
<1>2. Increasing(a) /\ Increasing(b) /\ Below(a, b)
  BY IncreasingConcat DEF InOrder
<1>3. Below(h, a) /\ Below(h, b) /\ Below(e, a) /\ Below(e, b)
  BY <1>1, BelowConcat DEF InOrder
<1>4. Upto(a, n) /\ Upto(b, n)
  BY UptoConcat DEF InOrder
<1>5. e \o a \in Seq(PenSamples)
  BY <1>1, ConcatProperties
<1>6. Increasing(e \o a)
  BY <1>1, <1>2, <1>3, IncreasingConcat DEF InOrder
<1>7. Below(h, e \o a) /\ Below(e \o a, b)
  BY <1>1, <1>2, <1>3, BelowConcat DEF InOrder
<1>8. Upto(e \o a, n)
  BY <1>1, <1>4, UptoConcat DEF InOrder
<1> QED
  BY <1>1, <1>2, <1>3, <1>4, <1>5, <1>6, <1>7, <1>8 DEF InOrder

\* GetEntropyData: the first part of prefs.entropy is handed out, the rest
\* written; or, when a write throws, the first part is lost and the soup has
\* what it had, or all.
LEMMA OrderTake ==
    ASSUME NEW h, NEW p, NEW d, NEW n \in Nat,
           NEW a \in Seq(PenSamples), NEW b \in Seq(PenSamples), InOrder(h, a \o b, p, d, n)
    PROVE  /\ InOrder(h \o a, b, p, b, n)
           /\ InOrder(h, b, p, d, n)
           /\ InOrder(h, b, p, a \o b, n)
<1>1. h \in Seq(PenSamples) /\ p \in Seq(PenSamples)
  BY DEF InOrder
<1>2. Increasing(a) /\ Increasing(b) /\ Below(a, b)
  BY IncreasingConcat DEF InOrder
<1>3. Below(h, a) /\ Below(h, b) /\ Below(a, p) /\ Below(b, p)
  BY <1>1, BelowConcat DEF InOrder
<1>4. Upto(a, n) /\ Upto(b, n)
  BY UptoConcat DEF InOrder
<1>5. h \o a \in Seq(PenSamples)
  BY <1>1, ConcatProperties
<1>6. Increasing(h \o a)
  BY <1>1, <1>2, <1>3, IncreasingConcat DEF InOrder
<1>7. Below(h \o a, p) /\ Below(h \o a, b)
  BY <1>1, <1>2, <1>3, BelowConcat DEF InOrder
<1>8. Upto(h \o a, n)
  BY <1>1, <1>4, UptoConcat DEF InOrder
<1> QED
  BY <1>1, <1>2, <1>3, <1>4, <1>5, <1>6, <1>7, <1>8 DEF InOrder

\* A sample is taken: it is later than every other.
LEMMA OrderSample ==
    ASSUME NEW h, NEW e, NEW p, NEW d, NEW n \in 0 .. MaxSamples, n < MaxSamples,
           InOrder(h, e, p, d, n)
    PROVE  InOrder(h, e, Append(p, n + 1), d, n + 1)
<1> DEFINE last == <<n + 1>>
<1>0. MaxSamples \in Nat
  BY EntropyAssumption
<1>1. /\ h \in Seq(PenSamples) /\ e \in Seq(PenSamples)
      /\ p \in Seq(PenSamples) /\ d \in Seq(PenSamples) /\ n + 1 \in PenSamples
  BY <1>0 DEF InOrder, PenSamples
<1>2. Append(p, n + 1) = p \o last
  BY <1>1, AppendIsConcat
<1>3. last \in Seq(PenSamples) /\ Len(last) = 1 /\ last[1] = n + 1
  BY <1>1
<1> HIDE DEF last
<1>4. ASSUME NEW s \in Seq(PenSamples), Upto(s, n)
      PROVE  Below(s, last) /\ Upto(s, n + 1)
  <2>1. \A i \in 1 .. Len(s) : s[i] \in Nat /\ s[i] <= n
    <3>1. \A i \in 1 .. Len(s) : s[i] \in PenSamples
      BY ElementOfSeq
    <3> QED
      BY <1>0, <1>4, <3>1 DEF Upto, PenSamples
  <2> QED
    BY <1>3, <2>1 DEF Below, Upto
<1>5. Below(h, last) /\ Below(e, last) /\ Below(p, last)
  BY <1>1, <1>4 DEF InOrder
<1>6. Upto(h, n + 1) /\ Upto(e, n + 1) /\ Upto(p, n + 1) /\ Upto(d, n + 1)
  BY <1>1, <1>4 DEF InOrder
<1>7. Increasing(last) /\ Upto(last, n + 1)
  BY <1>3 DEF Increasing, Upto
<1>8. p \o last \in Seq(PenSamples)
  BY <1>1, <1>3, ConcatProperties
<1>9. Increasing(p \o last)
  BY <1>1, <1>3, <1>5, <1>7, IncreasingConcat DEF InOrder
<1>10. Below(h, p \o last) /\ Below(e, p \o last)
  BY <1>1, <1>3, <1>5, BelowConcat DEF InOrder
<1>11. Upto(p \o last, n + 1)
  BY <1>1, <1>3, <1>6, <1>7, UptoConcat
<1> QED
  BY <1>1, <1>2, <1>6, <1>8, <1>9, <1>10, <1>11 DEF InOrder

\* A restart: the samples not packed are gone, prefs is what the soup has.
LEMMA OrderReset ==
    ASSUME NEW h, NEW e, NEW p, NEW d, NEW n \in Nat, InOrder(h, e, p, d, n)
    PROVE  InOrder(h, d, <<>>, d, n) /\ InOrder(h, e, p, e, n)
<1>1. <<>> \in Seq(PenSamples) /\ Increasing(<<>>) /\ Below(h, <<>>) /\ Below(d, <<>>) /\ Upto(<<>>, n)
  BY DEF Increasing, Below, Upto
<1> QED
  BY <1>1 DEF InOrder

\* A sequence cut in two is the concatenation of its parts.
LEMMA CutInTwo ==
    ASSUME NEW s \in Seq(PenSamples), NEW k \in 0 .. Len(s)
    PROVE  /\ SubSeq(s, 1, k) \in Seq(PenSamples)
           /\ SubSeq(s, k + 1, Len(s)) \in Seq(PenSamples)
           /\ SubSeq(s, 1, k) \o SubSeq(s, k + 1, Len(s)) = s
<1>1. Len(s) \in Nat /\ k \in Nat /\ k <= Len(s) /\ \A i \in 1 .. Len(s) : s[i] \in PenSamples
  BY LenProperties, ElementOfSeq
<1>2. SubSeq(s, 1, k) \in Seq(PenSamples)
  <2>1. 1 \in Int /\ k \in Int /\ \A i \in 1 .. k : s[i] \in PenSamples
    BY <1>1
  <2> QED
    BY <2>1, SubSeqProperties
<1>3. SubSeq(s, k + 1, Len(s)) \in Seq(PenSamples)
  <2>1. k + 1 \in Int /\ Len(s) \in Int /\ \A i \in k + 1 .. Len(s) : s[i] \in PenSamples
    BY <1>1
  <2> QED
    BY <2>1, SubSeqProperties
<1>4. SubSeq(s, 1, k) \o SubSeq(s, k + 1, Len(s)) = SubSeq(s, 1, Len(s))
  <2>1. 1 \in 1 .. Len(s) + 1 /\ k \in 1 - 1 .. Len(s) /\ Len(s) \in k .. Len(s)
    BY <1>1
  <2> QED
    BY <2>1, ConcatAdjacentSubSeq
<1>5. SubSeq(s, 1, Len(s)) = s
  BY SubSeqFull
<1> QED
  BY <1>2, <1>3, <1>4, <1>5

\* Packing: what is packed and what is not are the samples of the pen.
LEMMA PackedThenRest ==
    ASSUME NEW p \in Seq(PenSamples)
    PROVE  /\ Packed(p) \in Seq(PenSamples) /\ Rest(p) \in Seq(PenSamples)
           /\ Packed(p) \o Rest(p) = p
<1>1. Even(p) \in 0 .. Len(p)
  BY LenProperties DEF Even
<1> QED
  BY <1>1, CutInTwo DEF Packed, Rest

\* Taking: what is taken and what is left are prefs.entropy.
LEMMA TakenThenLeft ==
    ASSUME NEW e \in Seq(PenSamples), NEW count \in Nat
    PROVE  /\ Taken(e, count) \in Seq(PenSamples)
           /\ Left(e, count) \in Seq(PenSamples) \cup {NIL}
           /\ Stored(Left(e, count)) \in Seq(PenSamples)
           /\ Taken(e, count) \o Stored(Left(e, count)) = e
<1>1. NIL \notin Seq(PenSamples)
  BY EntropyAssumption DEF PenSamples
<1>2. CASE Bytes(e) <= count
  <2>1. Taken(e, count) = e /\ Left(e, count) = NIL
    BY <1>2 DEF Taken, Left
  <2>2. e \o <<>> = e /\ <<>> \in Seq(PenSamples)
    BY ConcatEmptySeq, EmptySeq
  <2> QED
    BY <2>1, <2>2 DEF Stored
<1>3. CASE ~(Bytes(e) <= count)
  <2>1. 2 * count \in 0 .. Len(e)
    BY <1>3, LenProperties DEF Bytes
  <2>2. Taken(e, count) = SubSeq(e, 1, 2 * count) /\ Left(e, count) = SubSeq(e, 2 * count + 1, Len(e))
    BY <1>3 DEF Taken, Left
  <2> DEFINE k == 2 * count
  <2>3. /\ SubSeq(e, 1, k) \in Seq(PenSamples) /\ SubSeq(e, k + 1, Len(e)) \in Seq(PenSamples)
        /\ SubSeq(e, 1, k) \o SubSeq(e, k + 1, Len(e)) = e
    <3> HIDE DEF k
    <3>1. k \in 0 .. Len(e)
      BY <2>1 DEF k
    <3> QED
      BY <3>1, CutInTwo
  <2>4. Left(e, count) \in Seq(PenSamples) /\ Left(e, count) # NIL
    BY <1>1, <2>2, <2>3
  <2>5. Stored(Left(e, count)) = Left(e, count)
    BY <2>4 DEF Stored
  <2> QED
    BY <2>2, <2>3, <2>4, <2>5
<1> QED
  BY <1>2, <1>3

\* SaveCollectedEntropy, the soup written or not.
LEMMA OrderSaved ==
    ASSUME NEW h, NEW e \in Seq(PenSamples) \cup {NIL}, NEW p \in Seq(PenSamples), NEW d,
           NEW n \in Nat, InOrder(h, Stored(e), p, d, n)
    PROVE  /\ Munged(e, p) \in Seq(PenSamples) /\ Stored(Munged(e, p)) = Munged(e, p)
           /\ InOrder(h, Munged(e, p), Rest(p), d, n)
           /\ InOrder(h, Munged(e, p), Rest(p), Munged(e, p), n)
<1>1. NIL \notin Seq(PenSamples)
  BY EntropyAssumption DEF PenSamples
<1>2. /\ Packed(p) \in Seq(PenSamples) /\ Rest(p) \in Seq(PenSamples)
      /\ Packed(p) \o Rest(p) = p
  BY PackedThenRest
<1>3. Munged(e, p) = Stored(e) \o Packed(p)
  <2>1. <<>> \o Packed(p) = Packed(p)
    BY <1>2, ConcatEmptySeq
  <2> QED
    BY <2>1 DEF Munged, Stored
<1>4. Stored(e) \in Seq(PenSamples)
  BY DEF InOrder
<1>5. Munged(e, p) \in Seq(PenSamples)
  BY <1>2, <1>3, <1>4, ConcatProperties
<1>6. Stored(Munged(e, p)) = Munged(e, p)
  BY <1>1, <1>5 DEF Stored
<1>7. /\ InOrder(h, Stored(e) \o Packed(p), Rest(p), d, n)
      /\ InOrder(h, Stored(e) \o Packed(p), Rest(p), Stored(e) \o Packed(p), n)
  BY <1>2, OrderPack
<1> QED
  BY <1>3, <1>5, <1>6, <1>7

\* GetEntropyData after its save, if any: handed out, or lost.
LEMMA OrderGot ==
    ASSUME NEW h, NEW e \in Seq(PenSamples), NEW p, NEW d, NEW n \in Nat, NEW count \in Nat,
           InOrder(h, e, p, d, n)
    PROVE  /\ Left(e, count) \in Seq(PenSamples) \cup {NIL}
           /\ InOrder(h \o Taken(e, count), Stored(Left(e, count)), p, Stored(Left(e, count)), n)
           /\ InOrder(h, Stored(Left(e, count)), p, d, n)
           /\ InOrder(h, Stored(Left(e, count)), p, e, n)
<1>1. /\ Taken(e, count) \in Seq(PenSamples)
      /\ Left(e, count) \in Seq(PenSamples) \cup {NIL}
      /\ Stored(Left(e, count)) \in Seq(PenSamples)
      /\ Taken(e, count) \o Stored(Left(e, count)) = e
  BY TakenThenLeft
<1> DEFINE a == Taken(e, count)
           b == Stored(Left(e, count))
<1>2. a \in Seq(PenSamples) /\ b \in Seq(PenSamples) /\ a \o b = e /\ InOrder(h, a \o b, p, d, n)
  BY <1>1
<1> HIDE DEF a, b
<1>3. InOrder(h \o a, b, p, b, n) /\ InOrder(h, b, p, d, n) /\ InOrder(h, b, p, a \o b, n)
  BY <1>2, OrderTake
<1> QED
  BY <1>1, <1>2, <1>3 DEF a, b

\* The samples are in order, whoever has them.
EntropyInv ==
    /\ samples \in 0 .. MaxSamples
    /\ entropy \in Seq(PenSamples) \cup {NIL}
    /\ soup.entropy \in Seq(PenSamples) \cup {NIL}
    /\ InOrder(handed, Stored(entropy), penEntropy, Stored(soup.entropy), samples)

\* Consequences of the invariant that every step needs.
LEMMA EntropyFacts ==
    ASSUME EntropyInv
    PROVE  /\ samples \in Nat /\ samples \in 0 .. MaxSamples /\ MaxSamples \in Nat
           /\ Gather \in Nat /\ NIL \notin Seq(PenSamples)
           /\ entropy \in Seq(PenSamples) \cup {NIL}
           /\ penEntropy \in Seq(PenSamples)
           /\ InOrder(handed, Stored(entropy), penEntropy, Stored(soup.entropy), samples)
<1>1. samples \in 0 .. MaxSamples /\ MaxSamples \in Nat /\ Gather \in Nat /\ NIL \notin Seq(PenSamples)
  BY EntropyAssumption DEF EntropyInv, PenSamples
<1>2. penEntropy \in Seq(PenSamples)
  BY DEF EntropyInv, InOrder
<1> QED
  BY <1>1, <1>2 DEF EntropyInv

\* A tick, or a pause, saves pen, the samples in order with the rest.
LEMMA EntropySave ==
    ASSUME NEW pen \in Seq(PenSamples), NEW n \in 0 .. MaxSamples,
           entropy \in Seq(PenSamples) \cup {NIL},
           soup.entropy \in Seq(PenSamples) \cup {NIL},
           InOrder(handed, Stored(entropy), pen, Stored(soup.entropy), n),
           SaveCollectedEntropy(pen), EntryChangeXmit \/ EntryChangeThrows,
           handed' = handed, samples' = n
    PROVE  EntropyInv'
<1>1. n \in Nat
  BY EntropyAssumption
<1>2. /\ Munged(entropy, pen) \in Seq(PenSamples)
      /\ Stored(Munged(entropy, pen)) = Munged(entropy, pen)
      /\ InOrder(handed, Munged(entropy, pen), Rest(pen), Stored(soup.entropy), n)
      /\ InOrder(handed, Munged(entropy, pen), Rest(pen), Munged(entropy, pen), n)
  BY <1>1, OrderSaved
<1>3. entropy' = Munged(entropy, pen) /\ penEntropy' = Rest(pen)
  BY DEF SaveCollectedEntropy
<1>4. soup'.entropy = entropy' \/ soup' = soup
  BY DEF EntryChangeXmit, EntryChangeThrows
<1>5. Stored(entropy') = entropy'
  BY <1>2, <1>3
<1>6. InOrder(handed', Stored(entropy'), penEntropy', Stored(soup'.entropy), samples')
  <2>1. CASE soup'.entropy = entropy'
    BY <1>2, <1>3, <1>5, <2>1
  <2>2. CASE soup' = soup
    BY <1>2, <1>3, <1>5, <2>2
  <2> QED
    BY <1>4, <2>1, <2>2
<1> QED
  BY <1>2, <1>3, <1>4, <1>6 DEF EntropyInv, Stored

LEMMA EntropyCollect == EntropyInv /\ CollectEntropy => EntropyInv'
<1> SUFFICES ASSUME EntropyInv, CollectEntropy PROVE EntropyInv'
  OBVIOUS
<1>1. CASE UNCHANGED <<prefsVars, samples, handed>>
  BY <1>1 DEF EntropyInv, prefsVars, Stored
<1> DEFINE pen == Append(penEntropy, samples + 1)
<1>2. handed' = handed
  BY DEF CollectEntropy
<1>3. ASSUME samples < MaxSamples, samples' = samples + 1
      PROVE  /\ pen \in Seq(PenSamples) /\ samples + 1 \in 0 .. MaxSamples
             /\ InOrder(handed, Stored(entropy), pen, Stored(soup.entropy), samples + 1)
  <2>1. InOrder(handed, Stored(entropy), pen, Stored(soup.entropy), samples + 1)
    BY <1>3, OrderSample, EntropyFacts
  <2> QED
    BY <1>3, <2>1, EntropyFacts DEF InOrder
<1>4. CASE /\ samples < MaxSamples /\ samples' = samples + 1
           /\ penEntropy' = pen /\ UNCHANGED <<entropy, soup>>
  BY <1>2, <1>3, <1>4 DEF EntropyInv, Stored
<1>5. CASE /\ samples < MaxSamples /\ samples' = samples + 1
           /\ SaveCollectedEntropy(pen) /\ (EntryChangeXmit \/ EntryChangeThrows)
  <2>1. /\ entropy \in Seq(PenSamples) \cup {NIL}
        /\ soup.entropy \in Seq(PenSamples) \cup {NIL}
    BY DEF EntropyInv
  <2> QED
    BY <1>2, <1>3, <1>5, <2>1, EntropySave
<1> QED
  <2> HIDE DEF EntropyInv
  <2> QED
    BY <1>1, <1>2, <1>4, <1>5 DEF CollectEntropy

LEMMA EntropyPause == EntropyInv /\ PauseBackgroundCollection => EntropyInv'
<1> SUFFICES ASSUME EntropyInv, PauseBackgroundCollection PROVE EntropyInv'
  OBVIOUS
<1>1. /\ SaveCollectedEntropy(penEntropy) /\ (EntryChangeXmit \/ EntryChangeThrows)
      /\ handed' = handed /\ samples' = samples
  BY DEF PauseBackgroundCollection
<1>2. /\ entropy \in Seq(PenSamples) \cup {NIL}
      /\ soup.entropy \in Seq(PenSamples) \cup {NIL}
  BY DEF EntropyInv
<1> QED
  BY <1>1, <1>2, EntropyFacts, EntropySave

\* GetEntropyData, its first write made: what it hands out, or loses, comes
\* from ent, prefs.entropy with the samples of the pen or without.
LEMMA EntropyGot ==
    ASSUME NEW ent \in Seq(PenSamples), NEW d, samples \in 0 .. MaxSamples,
           InOrder(handed, ent, penEntropy', d, samples), samples' = samples,
           d = Stored(soup.entropy), soup.entropy \in Seq(PenSamples) \cup {NIL},
           \/ /\ entropy' = Left(ent, Gather) /\ handed' = handed \o Taken(ent, Gather)
              /\ soup'.entropy = entropy'
           \/ /\ entropy' = Left(ent, Gather) /\ handed' = handed
              /\ soup'.entropy = ent \/ soup' = soup
    PROVE  EntropyInv'
<1> DEFINE new == Left(ent, Gather)
<1>1. samples \in Nat /\ Gather \in Nat /\ NIL \notin Seq(PenSamples)
  BY EntropyAssumption DEF PenSamples
<1>2. /\ new \in Seq(PenSamples) \cup {NIL}
      /\ InOrder(handed \o Taken(ent, Gather), Stored(new), penEntropy', Stored(new), samples)
      /\ InOrder(handed, Stored(new), penEntropy', d, samples)
      /\ InOrder(handed, Stored(new), penEntropy', ent, samples)
  BY <1>1, OrderGot
<1> HIDE DEF new
<1>3. Stored(ent) = ent
  BY <1>1 DEF Stored
<1>4. CASE /\ entropy' = new /\ handed' = handed \o Taken(ent, Gather) /\ soup'.entropy = entropy'
  BY <1>2, <1>4 DEF EntropyInv, Stored
<1>5. CASE entropy' = new /\ handed' = handed /\ soup'.entropy = ent
  BY <1>2, <1>3, <1>5 DEF EntropyInv, Stored
<1>6. CASE entropy' = new /\ handed' = handed /\ soup' = soup
  BY <1>2, <1>6 DEF EntropyInv, Stored
<1> QED
  BY <1>4, <1>5, <1>6 DEF new

\* The first write of GetEntropyData: the samples of the pen are saved when
\* prefs.entropy is short.
LEMMA EntropyFirstWrite ==
    ASSUME EntropyInv, entropy # NIL
    PROVE  /\ entropy \in Seq(PenSamples)
           /\ InOrder(handed, entropy, penEntropy, Stored(soup.entropy), samples)
           /\ Munged(entropy, penEntropy) \in Seq(PenSamples)
           /\ InOrder(handed, Munged(entropy, penEntropy), Rest(penEntropy),
                      Stored(soup.entropy), samples)
<1>1. entropy \in Seq(PenSamples) /\ Stored(entropy) = entropy
  BY EntropyFacts DEF Stored
<1> QED
  BY <1>1, EntropyFacts, OrderSaved

LEMMA EntropyGetBytes ==
    ASSUME EntropyInv, GetBytes(Gather), samples' = samples PROVE EntropyInv'
<1>1. entropy # NIL /\ soup'.entropy = entropy'
  BY DEF GetBytes, EntryChangeXmit
<1>2. /\ samples \in 0 .. MaxSamples /\ soup.entropy \in Seq(PenSamples) \cup {NIL}
  BY DEF EntropyInv
<1>3. CASE Bytes(entropy) <= Gather
  <2> DEFINE ent == Munged(entropy, penEntropy)
  <2>1. /\ penEntropy' = Rest(penEntropy) /\ entropy' = Left(ent, Gather)
        /\ handed' = handed \o Taken(ent, Gather)
    BY <1>3 DEF GetBytes
  <2>2. ent \in Seq(PenSamples) /\ InOrder(handed, ent, penEntropy', Stored(soup.entropy), samples)
    BY <1>1, <2>1, EntropyFirstWrite
  <2> HIDE DEF ent
  <2> QED
    BY <1>1, <1>2, <2>1, <2>2, EntropyGot
<1>4. CASE ~(Bytes(entropy) <= Gather)
  <2>1. /\ penEntropy' = penEntropy /\ entropy' = Left(entropy, Gather)
        /\ handed' = handed \o Taken(entropy, Gather)
    BY <1>4 DEF GetBytes
  <2>2. /\ entropy \in Seq(PenSamples)
        /\ InOrder(handed, entropy, penEntropy', Stored(soup.entropy), samples)
    BY <1>1, <2>1, EntropyFirstWrite
  <2> QED
    BY <1>1, <1>2, <2>1, <2>2, EntropyGot
<1> QED
  BY <1>3, <1>4

LEMMA EntropyGetThrows ==
    ASSUME EntropyInv, GetThrows(Gather), samples' = samples PROVE EntropyInv'
<1>1. entropy # NIL /\ handed' = handed
  BY DEF GetThrows
<1>2. /\ samples \in 0 .. MaxSamples /\ soup.entropy \in Seq(PenSamples) \cup {NIL}
  BY DEF EntropyInv
<1>3. CASE Bytes(entropy) <= Gather
  <2> DEFINE ent == Munged(entropy, penEntropy)
  <2>1. /\ penEntropy' = Rest(penEntropy)
        /\ \/ entropy' = ent /\ soup' = soup
           \/ entropy' = Left(ent, Gather) /\ soup'.entropy = ent
    BY <1>3 DEF GetThrows, EntryChangeThrows
  <2>2. ent \in Seq(PenSamples) /\ InOrder(handed, ent, penEntropy', Stored(soup.entropy), samples)
    BY <1>1, <2>1, EntropyFirstWrite
  <2> HIDE DEF ent
  <2>3. CASE entropy' = ent /\ soup' = soup
    <3>1. Stored(entropy') = ent
      BY <2>2, <2>3, EntropyFacts DEF Stored
    <3> QED
      BY <1>1, <1>2, <2>2, <2>3, <3>1 DEF EntropyInv, Stored
  <2>4. CASE entropy' = Left(ent, Gather) /\ soup'.entropy = ent
    BY <1>1, <1>2, <2>2, <2>4, EntropyGot
  <2> QED
    BY <2>1, <2>3, <2>4
<1>4. CASE ~(Bytes(entropy) <= Gather)
  <2>1. /\ penEntropy' = penEntropy /\ entropy' = Left(entropy, Gather) /\ soup' = soup
    BY <1>4 DEF GetThrows, EntryChangeThrows
  <2>2. /\ entropy \in Seq(PenSamples)
        /\ InOrder(handed, entropy, penEntropy', Stored(soup.entropy), samples)
    BY <1>1, <2>1, EntropyFirstWrite
  <2> QED
    BY <1>1, <1>2, <2>1, <2>2, EntropyGot
<1> QED
  BY <1>3, <1>4

\* The soup is written with what prefs has, or is not: a seed, or a restart.
LEMMA EntropyKept ==
    ASSUME EntropyInv, UNCHANGED <<handed, samples>>,
           \/ UNCHANGED <<penEntropy, entropy>> /\ (soup'.entropy = entropy' \/ soup' = soup)
           \/ penEntropy' = <<>> /\ entropy' = soup.entropy /\ soup' = soup
    PROVE  EntropyInv'
<1>1. /\ InOrder(handed, Stored(soup.entropy), <<>>, Stored(soup.entropy), samples)
      /\ InOrder(handed, Stored(entropy), penEntropy, Stored(entropy), samples)
  BY EntropyFacts, OrderReset
<1>2. CASE UNCHANGED <<penEntropy, entropy>> /\ soup'.entropy = entropy'
  BY <1>1, <1>2 DEF EntropyInv, Stored
<1>3. CASE UNCHANGED <<penEntropy, entropy>> /\ soup' = soup
  BY <1>3 DEF EntropyInv, Stored
<1>4. CASE penEntropy' = <<>> /\ entropy' = soup.entropy /\ soup' = soup
  BY <1>1, <1>4 DEF EntropyInv, Stored
<1> QED
  BY <1>2, <1>3, <1>4

\* A service, called in the Newt task or by its event, returns or throws.
LEMMA EntropyService ==
    ASSUME EntropyInv, NEW s, Returns(s) \/ ServiceThrows(s)
    PROVE  EntropyInv'
<1>1. samples' = samples
  BY DEF Returns, ServiceThrows, CollectorUnchanged
<1>2. CASE UNCHANGED <<prefsVars, handed>>
  BY <1>1, <1>2, EntropyKept DEF prefsVars
<1>3. CASE GetBytes(Gather)
  BY <1>1, <1>3, EntropyGetBytes
<1>4. CASE GetThrows(Gather)
  BY <1>1, <1>4, EntropyGetThrows
<1>5. ASSUME NEW seed, NVSeedWrite(seed), EntryChangeXmit \/ EntryChangeThrows
      PROVE  EntropyInv'
  <2>1. /\ UNCHANGED <<penEntropy, entropy, handed>>
        /\ soup'.entropy = entropy' \/ soup' = soup
    BY <1>5 DEF NVSeedWrite, EntryChangeXmit, EntryChangeThrows
  <2> QED
    BY <1>1, <2>1, EntropyKept
<1>6. CASE Returns(s)
  <2>1. CASE s = "hardwarePoll"
    BY <1>2, <1>3, <1>6, <2>1 DEF Returns, HardwarePoll, GetNothing
  <2>2. CASE s = "nvSeedWrite"
    BY <1>5, <1>6, <2>2 DEF Returns, NVSeedWriteSaved
  <2>3. CASE s # "hardwarePoll" /\ s # "nvSeedWrite"
    BY <1>2, <1>6, <2>3 DEF Returns
  <2> QED
    BY <2>1, <2>2, <2>3
<1>7. CASE ServiceThrows(s)
  BY <1>2, <1>4, <1>5, <1>7 DEF ServiceThrows
<1> QED
  BY <1>6, <1>7

\* No sample of the pen reaches mbedtls twice, through any number of batches,
\* limits, pauses, seeds, writes that throw and resets: what was handed out,
\* what prefs holds and what is not packed yet are in the order of the pen,
\* each once, and so are they after a reset.
THEOREM EntropyAlwaysUsedOnce == SvcSpec => []EntropyUsedOnce
<1>1. SvcInit => EntropyInv
  <2> SUFFICES ASSUME SvcInit PROVE EntropyInv
    OBVIOUS
  <2>1. /\ penEntropy = <<>> /\ entropy = NIL /\ soup.entropy = NIL
        /\ samples = 0 /\ handed = <<>>
    BY DEF SvcInit, EntInit
  <2>2. InOrder(<<>>, <<>>, <<>>, <<>>, 0)
    BY DEF InOrder, Increasing, Below, Upto
  <2> QED
    BY <2>1, <2>2, EntropyAssumption DEF EntropyInv, Stored
<1>2. EntropyInv /\ [SvcNext]_allVars => EntropyInv'
  <2> SUFFICES ASSUME EntropyInv, [SvcNext]_allVars PROVE EntropyInv'
    OBVIOUS
  <2>1. CASE UNCHANGED <<penEntropy, entropy, soup, samples, handed>>
    BY <2>1 DEF EntropyInv, Stored
  <2>2. ASSUME NEW t \in Tasks, NEW s \in Services, Call(t, s) PROVE EntropyInv'
    BY <2>1, <2>2, EntropyService DEF Call, SendRPCToNewtApp, entVars
  <2>3. CASE AEHandlerProc \/ AEHandlerProcThrows
    BY <2>3, EntropyService DEF AEHandlerProc, AEHandlerProcThrows
  <2>4. CASE NewtonReset
    <3>1. /\ UNCHANGED <<handed, samples>>
          /\ penEntropy' = <<>> /\ entropy' = soup.entropy /\ soup' = soup
      BY <2>4 DEF NewtonReset, Reset, Started
    <3> QED
      BY <3>1, EntropyKept
  <2>5. CASE Collector
    BY <2>1, <2>5, EntropyCollect, EntropyPause
       DEF Collector, ResumeBackgroundCollection, SetBackgroundCollectionRate, prefsVars
  <2>6. CASE UNCHANGED allVars
    BY <2>1, <2>6 DEF allVars, entVars
  <2> QED
    BY <2>2, <2>3, <2>4, <2>5, <2>6 DEF SvcNext
<1>3. EntropyInv => EntropyUsedOnce
  <2> SUFFICES ASSUME EntropyInv PROVE EntropyUsedOnce
    OBVIOUS
  <2> DEFINE h == handed  e == Stored(entropy)  p == penEntropy  d == Stored(soup.entropy)
  <2>1. InOrder(h, e, p, d, samples)
    BY EntropyFacts
  <2> HIDE DEF h, e, p, d
  <2>2. /\ h \in Seq(PenSamples) /\ e \in Seq(PenSamples)
        /\ p \in Seq(PenSamples) /\ d \in Seq(PenSamples)
    BY <2>1 DEF InOrder
  <2>3. h \o e \in Seq(PenSamples) /\ Increasing(h \o e) /\ Below(h \o e, p)
    BY <2>1, <2>2, ConcatProperties, IncreasingConcat, BelowConcat DEF InOrder
  <2>4. Increasing((h \o e) \o p)
    BY <2>1, <2>2, <2>3, IncreasingConcat DEF InOrder
  <2>5. Increasing(h \o d)
    BY <2>1, <2>2, IncreasingConcat DEF InOrder
  <2> QED
    BY <2>4, <2>5 DEF EntropyUsedOnce, h, e, p, d
<1> QED
  BY <1>1, <1>2, <1>3, PTL DEF SvcSpec
=============================================================================
