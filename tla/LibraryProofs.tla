---------------------------- MODULE LibraryProofs ----------------------------
(***************************************************************************)
(* Proofs about the small parts that mbedtls and NewtonScript call into,   *)
(* each on its own: the timer callbacks for every width of the clock and   *)
(* all delays, the event handler proxies for any services, the accessors   *)
(* of a certificate chain of any length and any index, the locks of the    *)
(* bindings for calls nested to any depth, and the calendar conversions    *)
(* for every time zone and every second of 32 bits.                        *)
(***************************************************************************)
EXTENDS NativeCalls, X509Chain, Calendar, SSLTimer, HandlerProxy,
        SequenceTheorems, FiniteSetTheorems, TLAPS

(***************************************************************************)
(* The timer callbacks.                                                    *)
(***************************************************************************)
\* The clock stays in its width, and since the timer was set it has moved on
\* from where the deadlines were computed, as long as nothing wrapped.
TimerTypeOK ==
    /\ nowms \in 0 .. Wrap - 1 /\ elapsed \in Nat /\ wrapped \in BOOLEAN
    /\ asked \in [int : Nat, fin : Nat]
    /\ mSSLTimerInt \in Nat /\ mSSLTimerFin \in Nat

Deadlines ==
    ~wrapped =>
        /\ elapsed <= nowms /\ asked.int <= asked.fin
        /\ mSSLTimerFin = IF asked.fin = 0 THEN 0 ELSE asked.fin + (nowms - elapsed)
        /\ mSSLTimerInt = IF asked.fin = 0 THEN 0 ELSE asked.int + (nowms - elapsed)

TimerInv == TimerTypeOK /\ Deadlines

\* Unsigned arithmetic below its width is ordinary arithmetic, and its result
\* always fits.
LEMMA ModWrap ==
    ASSUME NEW a \in Nat
    PROVE  /\ a % Wrap \in 0 .. Wrap - 1
           /\ a < Wrap => a % Wrap = a
           /\ a = Wrap => a % Wrap = 0
  BY TimerAssumption

\* A millisecond passes.
LEMMA TimerInvMillisecond == TimerInv /\ Millisecond => TimerInv'
<1> SUFFICES ASSUME TimerInv, Millisecond PROVE TimerInv'
  OBVIOUS
<1>1. /\ nowms \in Nat /\ nowms < Wrap /\ elapsed \in Nat /\ Wrap \in Nat
      /\ asked \in [int : Nat, fin : Nat]
      /\ wrapped \in BOOLEAN
  BY TimerAssumption DEF TimerInv, TimerTypeOK
<1>2. /\ nowms' \in 0 .. Wrap - 1
      /\ nowms + 1 < Wrap => nowms' = nowms + 1
      /\ nowms + 1 = Wrap => nowms' = 0
  BY <1>1, ModWrap DEF Millisecond
<1>3. TimerTypeOK'
  BY <1>1, <1>2 DEF TimerInv, TimerTypeOK, Millisecond
<1>4. ASSUME ~wrapped' PROVE ~wrapped /\ nowms' = nowms + 1
  <2>1. ~wrapped /\ nowms' # 0
    BY <1>4, Zenon DEF Millisecond
  <2> QED
    BY <1>1, <1>2, <2>1
<1>5. /\ asked.int \in Nat /\ asked.fin \in Nat /\ elapsed' = elapsed + 1
      /\ UNCHANGED <<asked, mSSLTimerInt, mSSLTimerFin>>
  BY <1>1 DEF Millisecond
<1>6. Deadlines'
  <2> SUFFICES ASSUME ~wrapped' PROVE Deadlines'
    BY DEF Deadlines
  <2>1. nowms' = nowms + 1 /\ nowms' - elapsed' = nowms - elapsed
    BY <1>1, <1>4, <1>5
  <2>2. /\ elapsed <= nowms /\ asked.int <= asked.fin
        /\ mSSLTimerFin = IF asked.fin = 0 THEN 0 ELSE asked.fin + (nowms - elapsed)
        /\ mSSLTimerInt = IF asked.fin = 0 THEN 0 ELSE asked.int + (nowms - elapsed)
    BY <1>4 DEF TimerInv, Deadlines
  <2>3. elapsed' <= nowms'
    BY <1>1, <1>5, <2>1, <2>2
  <2> QED
    BY <1>5, <2>1, <2>2, <2>3 DEF Deadlines
<1> QED
  BY <1>3, <1>6 DEF TimerInv

\* mbedtls sets or cancels the timer.
LEMMA TimerInvSet ==
    ASSUME TimerInv, NEW int_ms \in Delays, NEW fin_ms \in Delays,
           int_ms <= fin_ms \/ fin_ms = 0, SSLSetTimerCallback(int_ms, fin_ms)
    PROVE  TimerInv'
<1>1. /\ int_ms \in Nat /\ fin_ms \in Nat /\ nowms \in Nat /\ nowms < Wrap
      /\ Wrap \in Nat
  BY TimerAssumption DEF TimerInv, TimerTypeOK
<1>2. /\ (int_ms + nowms) % Wrap \in 0 .. Wrap - 1
      /\ (fin_ms + nowms) % Wrap \in 0 .. Wrap - 1
      /\ int_ms + nowms < Wrap => (int_ms + nowms) % Wrap = int_ms + nowms
      /\ fin_ms + nowms < Wrap => (fin_ms + nowms) % Wrap = fin_ms + nowms
  BY <1>1, ModWrap
<1>3. wrapped' \in BOOLEAN
  BY DEF SSLSetTimerCallback
<1>4. TimerTypeOK'
  BY <1>1, <1>2, <1>3 DEF SSLSetTimerCallback, TimerInv, TimerTypeOK, NoTimer
<1>5. Deadlines'
  <2> SUFFICES ASSUME ~wrapped' PROVE Deadlines'
    BY DEF Deadlines
  <2>1. fin_ms + nowms < Wrap
    <3>1. ~(fin_ms + nowms >= Wrap)
      BY Zenon DEF SSLSetTimerCallback
    <3> QED
      BY <1>1, <3>1
  <2>2. CASE fin_ms = 0
    <3>1. /\ asked'.int = 0 /\ asked'.fin = 0 /\ elapsed' = 0 /\ nowms' = nowms
          /\ mSSLTimerInt' = 0 /\ mSSLTimerFin' = 0
      BY <2>2 DEF SSLSetTimerCallback, NoTimer
    <3> QED
      BY <1>1, <3>1 DEF Deadlines
  <2>3. CASE fin_ms # 0
    <3>1. int_ms <= fin_ms /\ int_ms + nowms < Wrap
      BY <1>1, <2>1, <2>3
    <3>2. /\ asked' = [int |-> int_ms, fin |-> fin_ms]
          /\ mSSLTimerInt' = int_ms + nowms /\ mSSLTimerFin' = fin_ms + nowms
          /\ elapsed' = 0 /\ nowms' = nowms
      BY <1>2, <2>1, <2>3, <3>1 DEF SSLSetTimerCallback
    <3> QED
      BY <1>1, <2>3, <3>1, <3>2 DEF Deadlines
  <2> QED
    BY <2>2, <2>3
<1> QED
  BY <1>4, <1>5 DEF TimerInv

\* The callbacks tell mbedtls to the millisecond which delays have passed, for
\* every width of the clock, unless the clock or a deadline has wrapped.
THEOREM TimerAlwaysExact == TimerSpec => []TimerExact
<1>1. TimerInit => TimerInv
  <2> SUFFICES ASSUME TimerInit PROVE TimerInv
    OBVIOUS
  <2>1. /\ nowms \in 0 .. Wrap - 1 /\ nowms \in Nat /\ asked = [int |-> 0, fin |-> 0]
        /\ mSSLTimerInt = 0 /\ mSSLTimerFin = 0 /\ elapsed = 0
    BY TimerAssumption DEF TimerInit, NoTimer
  <2>2. wrapped \in BOOLEAN
    BY DEF TimerInit
  <2> QED
    BY <2>1, <2>2 DEF TimerInv, TimerTypeOK, Deadlines
<1>2. TimerInv /\ [TimerNext]_timerVars => TimerInv'
  <2>1. TimerInv /\ UNCHANGED timerVars => TimerInv'
    BY DEF TimerInv, TimerTypeOK, Deadlines, timerVars
  <2> QED
    BY <2>1, TimerInvMillisecond, TimerInvSet DEF TimerNext
<1>3. TimerInv => TimerExact
  BY DEF TimerInv, TimerTypeOK, Deadlines, TimerExact, HandleTimerTick, SSLGetTimerCallback
<1> QED
  BY <1>1, <1>2, <1>3, PTL DEF TimerSpec

(***************************************************************************)
(* The event handler proxies.                                              *)
(***************************************************************************)
\* The shapes of the proxies' state.
ProxyTypeOK ==
    /\ os \in OSes /\ misread \in BOOLEAN
    /\ proxies \subseteq Handlers
    /\ layout \in [Handlers -> OSes] /\ DOMAIN words = Handlers
    /\ frees \in [Handlers -> Nat]

\* An object in the chain is as its proxy prepared it, with the layout of the
\* system unless the system was misread; the pointers and the frees are those
\* HandlersSound speaks of.
PreparedOK ==
    \A h \in chain :
        /\ words[h] = Prepared(h, layout[h])
        /\ ~misread => layout[h] = os

ReleasedOK ==
    /\ chain \subseteq proxies \cap mEventHandler
    /\ mEventHandler \subseteq Handlers
    /\ \A h \in Handlers : frees[h] <= (IF h \in mEventHandler THEN 0 ELSE 1)

DeliveredOK == \A d \in delivered : d[1] = d[2]

ProxyInv == ProxyTypeOK /\ PreparedOK /\ ReleasedOK /\ DeliveredOK

\* Whichever version a proxy took the system for, Init wrote class and ID
\* where the system looks for them; the proxy's table is where the system
\* looks only if the version is right.
LEMMA PreparedFields ==
    ASSUME os \in OSes, NEW version \in OSes, NEW h
    PROVE  /\ Prepared(h, version)[Fields(os).class] = "mTLS"
           /\ Prepared(h, version)[Fields(os).id] = h
           /\ version = os => Prepared(h, version)[Fields(os).vtable] = "proxy"
<1>1. DOMAIN Constructed = 1 .. 5
  BY DEF Constructed, Zeros
<1>2. CASE os = "2.0"
  BY <1>1, <1>2 DEF Prepared, Fields, OSes
<1>3. CASE os = "2.1"
  BY <1>1, <1>3 DEF Prepared, Fields, OSes
<1> QED
  BY <1>2, <1>3 DEF OSes

\* PMbedTLS::New makes the proxies.
LEMMA ProxyInvNew == ProxyInv /\ NewProxies => ProxyInv'
<1> SUFFICES ASSUME ProxyInv, NewProxies PROVE ProxyInv'
  OBVIOUS
<1>1. PICK version \in OSes :
          /\ layout' = [h \in Handlers |-> version]
          /\ words' = [h \in Handlers |-> Prepared(h, version)]
          /\ misread' = (misread \/ version # os)
  BY DEF NewProxies
<1>2. /\ proxies' = Handlers /\ mEventHandler' = Handlers /\ chain' = Handlers
      /\ frees' = [h \in Handlers |-> 0] /\ UNCHANGED <<os, delivered>>
  BY DEF NewProxies
<1>3. misread' \in BOOLEAN /\ (~misread' => version = os)
  BY <1>1, Zenon
<1>4. ProxyTypeOK'
  BY <1>1, <1>2, <1>3 DEF ProxyInv, ProxyTypeOK
<1>5. \A h, v : Prepared(h, v)' = Prepared(h, v)
  BY <1>2 DEF Prepared, Constructed, Fields
<1>6. PreparedOK'
  BY <1>1, <1>2, <1>3, <1>5 DEF PreparedOK
<1>7. ReleasedOK'
  BY <1>2 DEF ReleasedOK
<1>8. DeliveredOK'
  BY <1>2 DEF ProxyInv, DeliveredOK
<1> QED
  BY <1>4, <1>6, <1>7, <1>8 DEF ProxyInv

\* An object is released, by NewtonOS 2.0 or by its proxy: it leaves the chain,
\* loses its proxy's pointer and is freed, which it was not before.
LEMMA ProxyInvRelease ==
    ASSUME ProxyInv, NEW hs \in SUBSET mEventHandler,
           chain' = chain \ hs, mEventHandler' = mEventHandler \ hs,
           frees' = Freed(hs), proxies' \subseteq Handlers,
           chain \ hs \subseteq proxies',
           UNCHANGED <<os, layout, words, delivered, misread>>
    PROVE  ProxyInv'
<1>1. /\ frees \in [Handlers -> Nat] /\ mEventHandler \subseteq Handlers
      /\ frees' = [h \in Handlers |-> IF h \in hs THEN frees[h] + 1 ELSE frees[h]]
  BY DEF ProxyInv, ProxyTypeOK, ReleasedOK, Freed
<1>2. ProxyTypeOK'
  BY <1>1 DEF ProxyInv, ProxyTypeOK
<1>3. \A h, v : Prepared(h, v)' = Prepared(h, v)
  BY DEF Prepared, Constructed, Fields
<1>4. PreparedOK'
  BY <1>3 DEF ProxyInv, PreparedOK
<1>5. ReleasedOK'
  BY <1>1 DEF ProxyInv, ReleasedOK
<1>6. DeliveredOK'
  BY DEF ProxyInv, DeliveredOK
<1> QED
  BY <1>2, <1>4, <1>5, <1>6 DEF ProxyInv

\* An event is delivered to the handler whose ID it has.
LEMMA ProxyInvDeliver ==
    ASSUME ProxyInv, NEW event \in Handlers, AEHandlerProcOfProxy(event)
    PROVE  ProxyInv'
<1>1. PICK h \in chain :
         /\ words[h][Fields(os).id] = event
         /\ delivered' = delivered \cup {<<event, h>>}
         /\ UNCHANGED <<os, proxies, layout, words, mEventHandler, chain, frees, misread>>
  BY DEF AEHandlerProcOfProxy
<1>2. h \in Handlers /\ words[h] = Prepared(h, layout[h]) /\ layout[h] \in OSes
  BY DEF ProxyInv, PreparedOK, ReleasedOK, ProxyTypeOK
<1>3. event = h
  BY <1>1, <1>2, PreparedFields DEF ProxyInv, ProxyTypeOK
<1>4. DeliveredOK'
  BY <1>1, <1>3 DEF ProxyInv, DeliveredOK
<1>5. ProxyTypeOK' /\ ReleasedOK'
  BY <1>1 DEF ProxyInv, ProxyTypeOK, ReleasedOK
<1>6. PreparedOK'
  <2>1. \A g, v : Prepared(g, v)' = Prepared(g, v)
    BY <1>1 DEF Prepared, Constructed, Fields
  <2> QED
    BY <1>1, <2>1 DEF ProxyInv, PreparedOK
<1> QED
  BY <1>4, <1>5, <1>6 DEF ProxyInv

\* The invariant of the proxies holds throughout.
LEMMA ProxyInvAlways == ProxySpec => []ProxyInv
<1>1. ProxyInit => ProxyInv
  <2> SUFFICES ASSUME ProxyInit PROVE ProxyInv
    OBVIOUS
  <2>1. ProxyTypeOK
    BY DEF ProxyInit, ProxyTypeOK, OSes
  <2>2. PreparedOK /\ ReleasedOK /\ DeliveredOK
    BY DEF ProxyInit, PreparedOK, ReleasedOK, DeliveredOK
  <2> QED
    BY <2>1, <2>2 DEF ProxyInv
<1>2. ProxyInv /\ [ProxyNext]_proxyVars => ProxyInv'
  <2> SUFFICES ASSUME ProxyInv, [ProxyNext]_proxyVars PROVE ProxyInv'
    OBVIOUS
  <2>1. CASE UNCHANGED proxyVars
    BY <2>1 DEF proxyVars, ProxyInv, ProxyTypeOK, PreparedOK, ReleasedOK, DeliveredOK,
                Prepared, Constructed, Fields
  <2>2. CASE NewProxies
    BY <2>2, ProxyInvNew
  <2>3. CASE DeleteProxies
    <3>1. chain \ mEventHandler = {} /\ mEventHandler \ mEventHandler = {}
      BY DEF ProxyInv, ReleasedOK
    <3>2. /\ chain' = chain \ mEventHandler /\ mEventHandler' = mEventHandler \ mEventHandler
          /\ frees' = Freed(mEventHandler) /\ proxies' = {}
          /\ UNCHANGED <<os, layout, words, delivered, misread>>
      BY <2>3, <3>1 DEF DeleteProxies
    <3> QED
      BY <3>1, <3>2, ProxyInvRelease
  <2>4. ASSUME NEW event \in Handlers, AEHandlerProcOfProxy(event) PROVE ProxyInv'
    BY <2>4, ProxyInvDeliver
  <2>5. ASSUME NEW h \in Handlers, AEDestructor(h) PROVE ProxyInv'
    <3>1. {h} \in SUBSET mEventHandler
      BY <2>5 DEF AEDestructor, ProxyInv, ReleasedOK
    <3>2. /\ chain' = chain \ {h} /\ mEventHandler' = mEventHandler \ {h}
          /\ frees' = Freed({h}) /\ proxies' = proxies
          /\ UNCHANGED <<os, layout, words, delivered, misread>>
      BY <2>5 DEF AEDestructor
    <3>3. proxies \subseteq Handlers /\ chain \ {h} \subseteq proxies
      BY DEF ProxyInv, ProxyTypeOK, ReleasedOK
    <3> QED
      BY <3>1, <3>2, <3>3, ProxyInvRelease
  <2> QED
    BY <2>1, <2>2, <2>3, <2>4, <2>5 DEF ProxyNext
<1> QED
  BY <1>1, <1>2, PTL DEF ProxySpec

\* On both systems and for any set of services: the ROM finds the proxy's
\* table, class and ID in every object of its chain unless Gestalt failed, no
\* deleted proxy has an object there, each object is destroyed once, and an
\* event reaches the handler of its own ID.
THEOREM HandlersAlwaysSound == ProxySpec => []HandlersSound
<1>1. ProxyInv => HandlersSound
  <2> SUFFICES ASSUME ProxyInv PROVE HandlersSound
    OBVIOUS
  <2>1. ASSUME ~misread, NEW h \in chain
        PROVE  /\ words[h][Fields(os).vtable] = "proxy"
               /\ GetEventClass(h) = "mTLS" /\ GetEventID(h) = h
    <3>1. os \in OSes /\ words[h] = Prepared(h, layout[h]) /\ layout[h] = os
      BY <2>1 DEF ProxyInv, ProxyTypeOK, PreparedOK
    <3> QED
      BY <3>1, PreparedFields DEF GetEventClass, GetEventID
  <2> QED
    BY <2>1 DEF ProxyInv, ReleasedOK, DeliveredOK, HandlersSound
<1> QED
  BY <1>1, ProxyInvAlways, PTL

(***************************************************************************)
(* Certificates by index.                                                  *)
(***************************************************************************)
\* The shapes of the chain and of a call.
Callers == {"nobody", "count", "accessor", "der", "option"}
ChainTypeOK ==
    /\ crtChain \in Seq(Certs)
    /\ call \in [who : Callers, ix : Int, length : Nat]
    /\ walking \in BOOLEAN /\ index \in Int /\ crt \in Nat

\* A walk is at a node of the list, and what is left of its index is the
\* distance to the node it looks for; the count is the node it is at.
WalkOK ==
    walking =>
        /\ crt \in 0 .. Len(crtChain) /\ (crt = 0 <=> crtChain = <<>>)
        /\ call.who = "count" => index = crt
        /\ call.who = "der" => crt <= 1
        /\ call.who \in {"accessor", "option"} /\ crt # 0 =>
              index = call.ix + 1 - crt /\ (call.ix >= 0 => index >= 0)

\* The four cases of AccessorExact.
InChain == call.ix \in 0 .. Len(crtChain) - 1
Asked == crtChain[call.ix + 1]
CountOK == call.who = "count" => answer = [is |-> "number", number |-> Len(crtChain)]
AccessorOK ==
    call.who = "accessor" =>
        IF InChain
        THEN \/ answer = [is |-> "certificate", cert |-> Asked]
             \/ Asked \in LongTexts /\ answer = [is |-> "thrown", cert |-> Asked]
        ELSE answer = [is |-> "out of bounds"]
DEROK ==
    call.who = "der" =>
        answer = IF crtChain = <<>> THEN [is |-> "nil"]
                 ELSE [is |-> "certificate", cert |-> crtChain[1]]
OptionOK ==
    call.who = "option" /\ crtChain # <<>> =>
        IF InChain
        THEN /\ answer.is = "success" /\ answer.length = CertSize[Asked]
             /\ answer.copied = IF CertSize[Asked] <= call.length THEN <<Asked>> ELSE <<>>
        ELSE answer = [is |-> "failure"]
AnswerOK == ~walking => CountOK /\ AccessorOK /\ DEROK /\ OptionOK

ChainInv == ChainTypeOK /\ WalkOK /\ AnswerOK

\* The four cases are all there is to AccessorExact.
LEMMA AnswerIsExact == ChainTypeOK /\ AnswerOK => AccessorExact
<1> SUFFICES ASSUME ChainTypeOK, AnswerOK, ~walking PROVE AccessorExact
  BY DEF AccessorExact
<1>1. CountOK /\ AccessorOK /\ DEROK /\ OptionOK
  BY DEF AnswerOK
<1>2. call.who \in Callers
  BY DEF ChainTypeOK
<1>3. CASE call.who = "count"
  BY <1>1, <1>3 DEF AccessorExact, CountOK
<1>4. CASE call.who = "accessor"
  BY <1>1, <1>4 DEF AccessorExact, AccessorOK, InChain, Asked
<1>5. CASE call.who = "der"
  BY <1>1, <1>5 DEF AccessorExact, DEROK
<1>6. CASE call.who = "option"
  BY <1>1, <1>6 DEF AccessorExact, OptionOK, InChain, Asked
<1>7. CASE call.who = "nobody"
  BY <1>7 DEF AccessorExact
<1> QED
  BY <1>2, <1>3, <1>4, <1>5, <1>6, <1>7 DEF Callers

\* The chain grows or is freed between calls; the last answer is forgotten.
LEMMA ChainInvChange ==
    ASSUME ChainInv, NEW list \in Seq(Certs), ChangeChain(list)
    PROVE  ChainInv'
<1>1. ~walking /\ walking' = walking /\ crtChain' = list
      /\ call' = [who |-> "nobody", ix |-> 0, length |-> 0] /\ UNCHANGED <<index, crt>>
  BY DEF ChangeChain
<1>2. ChainTypeOK'
  BY <1>1 DEF ChainInv, ChainTypeOK, Callers
<1>3. WalkOK'
  BY <1>1 DEF WalkOK
<1>4. AnswerOK'
  BY <1>1 DEF AnswerOK, CountOK, AccessorOK, DEROK, OptionOK
<1> QED
  BY <1>2, <1>3, <1>4 DEF ChainInv

\* A call starts at the first node, if there is one.
LEMMA ChainInvStarts ==
    ASSUME ChainInv, NEW who \in Callers, NEW ix \in Int, NEW length \in Nat,
           Starts(who, ix, length),
           index' = IF who = "count" THEN (IF crtChain = <<>> THEN 0 ELSE 1) ELSE ix
    PROVE  ChainInv'
<1>1. /\ walking' = TRUE /\ crtChain' = crtChain
      /\ call' = [who |-> who, ix |-> ix, length |-> length]
      /\ crt' = IF crtChain = <<>> THEN 0 ELSE 1
  BY DEF Starts
<1>2. crtChain \in Seq(Certs) /\ (crtChain # <<>> => Len(crtChain) \in Nat \ {0})
  BY EmptySeq DEF ChainInv, ChainTypeOK
<1>3. ChainTypeOK'
  BY <1>1, <1>2 DEF ChainInv, ChainTypeOK
<1>4. WalkOK'
  BY <1>1, <1>2 DEF WalkOK
<1>5. AnswerOK'
  BY <1>1 DEF AnswerOK
<1> QED
  BY <1>3, <1>4, <1>5 DEF ChainInv

\* A walk goes to the next node, and its index follows.
LEMMA ChainInvAdvance ==
    ASSUME ChainInv, walking, crt # 0, NextNode # 0, crt' = NextNode,
           \/ call.who = "count" /\ index' = index + 1
           \/ call.who \in {"accessor", "option"} /\ index # 0 /\ index' = index - 1,
           UNCHANGED <<crtChain, call, walking, answer>>
    PROVE  ChainInv'
<1>1. /\ crtChain \in Seq(Certs) /\ Len(crtChain) \in Nat /\ crt \in Nat /\ index \in Int
      /\ call.ix \in Int
  BY DEF ChainInv, ChainTypeOK
<1>2. crt < Len(crtChain) /\ crt' = crt + 1
  BY <1>1 DEF NextNode
<1>3. index' \in Int
  BY <1>1
<1>4. ChainTypeOK'
  BY <1>1, <1>2, <1>3 DEF ChainInv, ChainTypeOK
<1>5. WalkOK'
  BY <1>1, <1>2 DEF ChainInv, WalkOK
<1>6. AnswerOK'
  BY DEF AnswerOK
<1> QED
  BY <1>4, <1>5, <1>6 DEF ChainInv

\* A call ends with an answer that is right.
LEMMA ChainInvEnds ==
    ASSUME ChainInv, NEW result, Ends(result),
           CountOK' /\ AccessorOK' /\ DEROK' /\ OptionOK'
    PROVE  ChainInv'
<1>1. walking' = FALSE /\ UNCHANGED <<crtChain, call, index, crt>>
  BY DEF Ends
<1>2. ChainTypeOK'
  BY <1>1 DEF ChainInv, ChainTypeOK
<1>3. WalkOK' /\ AnswerOK'
  BY <1>1 DEF WalkOK, AnswerOK
<1> QED
  BY <1>2, <1>3 DEF ChainInv

\* Where a walk stands, as the arithmetic of the list.
LEMMA WalkFacts ==
    ASSUME ChainInv, walking
    PROVE  /\ crtChain \in Seq(Certs) /\ Len(crtChain) \in Nat /\ call.ix \in Int
           /\ crt \in 0 .. Len(crtChain) /\ (crt = 0 <=> crtChain = <<>>)
           /\ crtChain = <<>> <=> Len(crtChain) = 0
           /\ NextNode = 0 => crt = Len(crtChain)
           /\ call.who = "count" => index = crt
           /\ call.who = "der" => crt <= 1
           /\ call.who \in {"accessor", "option"} /\ crt # 0 =>
                 index = call.ix + 1 - crt /\ (call.ix >= 0 => index >= 0)
<1>1. crtChain \in Seq(Certs) /\ Len(crtChain) \in Nat /\ call.ix \in Int
  BY DEF ChainInv, ChainTypeOK
<1>2. crtChain = <<>> <=> Len(crtChain) = 0
  BY <1>1, EmptySeq
<1>3. /\ crt \in 0 .. Len(crtChain) /\ (crt = 0 <=> crtChain = <<>>)
      /\ call.who = "count" => index = crt
      /\ call.who = "der" => crt <= 1
      /\ call.who \in {"accessor", "option"} /\ crt # 0 =>
            index = call.ix + 1 - crt /\ (call.ix >= 0 => index >= 0)
  BY DEF ChainInv, WalkOK
<1>4. NextNode = 0 => crt = Len(crtChain)
  BY <1>1, <1>3 DEF NextNode
<1> QED
  BY <1>1, <1>2, <1>3, <1>4

\* X509CrtCount.
LEMMA ChainInvCount == ChainInv /\ X509CrtCount => ChainInv'
<1> SUFFICES ASSUME ChainInv, X509CrtCount PROVE ChainInv'
  OBVIOUS
<1>1. CASE Starts("count", 0, 0) /\ index' = IF crtChain = <<>> THEN 0 ELSE 1
  BY <1>1, ChainInvStarts DEF Callers
<1>2. CASE /\ walking /\ call.who = "count" /\ crt # 0 /\ NextNode # 0
           /\ crt' = NextNode /\ index' = index + 1
           /\ UNCHANGED <<crtChain, call, walking, answer>>
  BY <1>2, ChainInvAdvance
<1>3. CASE /\ walking /\ call.who = "count" /\ (crt = 0 \/ NextNode = 0)
           /\ Ends([is |-> "number", number |-> index])
  <2>1. index = Len(crtChain)
    BY <1>3, WalkFacts
  <2>2. CountOK' /\ AccessorOK' /\ DEROK' /\ OptionOK'
    BY <1>3, <2>1 DEF Ends, CountOK, AccessorOK, DEROK, OptionOK
  <2> QED
    BY <1>3, <2>2, ChainInvEnds
<1> QED
  BY <1>1, <1>2, <1>3 DEF X509CrtCount

\* A walk that runs off the list looked for a node that is not there.
LEMMA WalkEnds ==
    ASSUME ChainInv, walking, call.who \in {"accessor", "option"},
           \/ crt = 0
           \/ index # 0 /\ crt # 0 /\ NextNode = 0
    PROVE  ~InChain
  BY WalkFacts DEF InChain

\* A walk whose index is used up is at the node it looked for.
LEMMA WalkFinds ==
    ASSUME ChainInv, walking, call.who \in {"accessor", "option"}, index = 0, crt # 0
    PROVE  InChain /\ crtChain[crt] = Asked /\ crtChain # <<>>
<1>1. crt = call.ix + 1
  BY WalkFacts
<1> QED
  BY <1>1, WalkFacts DEF InChain, Asked

\* The accessors.
LEMMA ChainInvGet == ChainInv /\ X509CrtGet => ChainInv'
<1> SUFFICES ASSUME ChainInv, X509CrtGet PROVE ChainInv'
  OBVIOUS
<1>1. ASSUME NEW ix \in Indices, Starts("accessor", ix, 0), index' = ix
      PROVE  ChainInv'
  BY <1>1, ChainInvStarts, ChainAssumption DEF Callers
<1>2. ASSUME walking, call.who = "accessor", ~InChain, Ends([is |-> "out of bounds"])
      PROVE  ChainInv'
  <2>1. CountOK' /\ AccessorOK' /\ DEROK' /\ OptionOK'
    BY <1>2 DEF Ends, CountOK, AccessorOK, DEROK, OptionOK, InChain
  <2> QED
    BY <1>2, <2>1, ChainInvEnds
<1>3. CASE walking /\ call.who = "accessor" /\ crt = 0 /\ Ends([is |-> "out of bounds"])
  BY <1>2, <1>3, WalkEnds
<1>4. CASE call.who = "accessor" /\ Walk([is |-> "out of bounds"])
  <2>1. CASE NextNode = 0
    BY <1>2, <1>4, <2>1, WalkEnds DEF Walk
  <2>2. CASE NextNode # 0
    BY <1>4, <2>2, ChainInvAdvance DEF Walk
  <2> QED
    BY <2>1, <2>2
<1>5. CASE /\ walking /\ call.who = "accessor" /\ index = 0 /\ crt # 0
           /\ \/ Ends([is |-> "certificate", cert |-> crtChain[crt]])
              \/ crtChain[crt] \in LongTexts /\ Ends([is |-> "thrown", cert |-> crtChain[crt]])
  <2>1. InChain /\ crtChain[crt] = Asked
    BY <1>5, WalkFinds
  <2>2. CountOK' /\ AccessorOK' /\ DEROK' /\ OptionOK'
    BY <1>5, <2>1 DEF Ends, CountOK, AccessorOK, DEROK, OptionOK, InChain, Asked
  <2> QED
    BY <1>5, <2>2, ChainInvEnds
<1> QED
  BY <1>1, <1>3, <1>4, <1>5 DEF X509CrtGet

\* X509CrtGetDER.
LEMMA ChainInvDER == ChainInv /\ X509CrtGetDER => ChainInv'
<1> SUFFICES ASSUME ChainInv, X509CrtGetDER PROVE ChainInv'
  OBVIOUS
<1>1. ASSUME NEW ix \in Indices, Starts("der", ix, 0), index' = ix
      PROVE  ChainInv'
  BY <1>1, ChainInvStarts, ChainAssumption DEF Callers
<1>2. CASE /\ walking /\ call.who = "der"
           /\ Ends(IF crt = 0 THEN [is |-> "nil"]
                   ELSE [is |-> "certificate", cert |-> crtChain[crt]])
  <2>1. (crt = 0 <=> crtChain = <<>>) /\ (crt # 0 => crt = 1)
    BY <1>2, WalkFacts
  <2>2. CountOK' /\ AccessorOK' /\ DEROK' /\ OptionOK'
    BY <1>2, <2>1 DEF Ends, CountOK, AccessorOK, DEROK, OptionOK
  <2> QED
    BY <1>2, <2>2, ChainInvEnds
<1> QED
  BY <1>1, <1>2 DEF X509CrtGetDER

\* The peer certificate option.
LEMMA ChainInvOption == ChainInv /\ PeerCertificateOption => ChainInv'
<1> SUFFICES ASSUME ChainInv, PeerCertificateOption PROVE ChainInv'
  OBVIOUS
<1>1. ASSUME NEW ix \in Indices \cap Nat, NEW length \in Lengths,
             Starts("option", ix, length), index' = ix
      PROVE  ChainInv'
  BY <1>1, ChainInvStarts, ChainAssumption DEF Callers
<1>2. CASE call.who = "option" /\ Walk([is |-> "failure"])
  <2>1. CASE NextNode = 0
    <3>1. ~InChain /\ walking /\ Ends([is |-> "failure"])
      BY <1>2, <2>1, WalkEnds DEF Walk
    <3>2. CountOK' /\ AccessorOK' /\ DEROK' /\ OptionOK'
      BY <1>2, <3>1 DEF Ends, CountOK, AccessorOK, DEROK, OptionOK, InChain
    <3> QED
      BY <3>1, <3>2, ChainInvEnds
  <2>2. CASE NextNode # 0
    BY <1>2, <2>2, ChainInvAdvance DEF Walk
  <2> QED
    BY <2>1, <2>2
<1>3. CASE walking /\ call.who = "option" /\ crt = 0 /\ Ends([is |-> "undefined"])
  <2>1. crtChain = <<>>
    BY <1>3, WalkFacts
  <2>2. CountOK' /\ AccessorOK' /\ DEROK' /\ OptionOK'
    BY <1>3, <2>1 DEF Ends, CountOK, AccessorOK, DEROK, OptionOK
  <2> QED
    BY <1>3, <2>2, ChainInvEnds
<1>4. CASE /\ walking /\ call.who = "option" /\ index = 0 /\ crt # 0
           /\ Ends([is |-> "success", length |-> CertSize[crtChain[crt]],
                    copied |-> IF CertSize[crtChain[crt]] <= call.length
                               THEN <<crtChain[crt]>> ELSE <<>>])
  <2>1. InChain /\ crtChain[crt] = Asked
    BY <1>4, WalkFinds
  <2>2. InChain' /\ Asked' = crtChain[crt] /\ UNCHANGED call
    BY <1>4, <2>1 DEF Ends, InChain, Asked
  <2>3. /\ answer'.is = "success" /\ answer'.length = CertSize[Asked']
        /\ answer'.copied = IF CertSize[Asked'] <= call.length THEN <<Asked'>> ELSE <<>>
    BY <1>4, <2>2 DEF Ends
  <2>4. CountOK' /\ AccessorOK' /\ DEROK' /\ OptionOK'
    BY <1>4, <2>2, <2>3 DEF CountOK, AccessorOK, DEROK, OptionOK
  <2> QED
    BY <1>4, <2>4, ChainInvEnds
<1> QED
  BY <1>1, <1>2, <1>3, <1>4 DEF PeerCertificateOption

\* For a chain of any length and any index, negative ones too, the accessors,
\* the option and X509CrtCount answer exactly what the index denotes, and the
\* option copies only what the client's buffer can take.
THEOREM AccessorAlwaysExact == ChainSpec => []AccessorExact
<1>1. ChainInit => ChainInv
  <2> SUFFICES ASSUME ChainInit PROVE ChainInv
    OBVIOUS
  <2>1. ChainTypeOK
    <3>1. walking \in BOOLEAN
      BY DEF ChainInit
    <3>2. crtChain \in Seq(Certs) /\ index \in Int /\ crt \in Nat
      BY DEF ChainInit
    <3>3. call \in [who : Callers, ix : Int, length : Nat]
      BY DEF ChainInit, Callers
    <3> QED
      BY <3>1, <3>2, <3>3 DEF ChainTypeOK
  <2>2. WalkOK /\ AnswerOK
    BY DEF ChainInit, WalkOK, AnswerOK, CountOK, AccessorOK, DEROK, OptionOK
  <2> QED
    BY <2>1, <2>2 DEF ChainInv
<1>2. ChainInv /\ [ChainNext]_chainVarsAll => ChainInv'
  <2> SUFFICES ASSUME ChainInv, [ChainNext]_chainVarsAll PROVE ChainInv'
    OBVIOUS
  <2>1. CASE UNCHANGED chainVarsAll
    BY <2>1 DEF chainVarsAll, ChainInv, ChainTypeOK, WalkOK, AnswerOK, CountOK, AccessorOK,
                DEROK, OptionOK, InChain, Asked
  <2>2. ASSUME NEW c \in Certs, ParseInto(c) PROVE ChainInv'
    <3>1. Append(crtChain, c) \in Seq(Certs)
      BY DEF ChainInv, ChainTypeOK
    <3> QED
      BY <2>2, <3>1, ChainInvChange DEF ParseInto
  <2>3. CASE FreeChain
    <3>1. <<>> \in Seq(Certs) /\ ChangeChain(<<>>)
      BY <2>3 DEF FreeChain
    <3> QED
      BY ONLY <3>1, ChainInv, ChainInvChange
  <2>4. CASE X509CrtCount \/ X509CrtGet \/ X509CrtGetDER \/ PeerCertificateOption
    BY <2>4, ChainInvCount, ChainInvGet, ChainInvDER, ChainInvOption
  <2> QED
    BY <2>1, <2>2, <2>3, <2>4 DEF ChainNext
<1>3. ChainInv => AccessorExact
  BY AnswerIsExact DEF ChainInv
<1> QED
  BY <1>1, <1>2, <1>3, PTL DEF ChainSpec

(***************************************************************************)
(* The locks of the bindings.                                              *)
(***************************************************************************)
\* The rows of all tables.
AllRows ==
    UNION {Rows(ContextQueries), Rows(SessionQueries), Rows(ContextRuns), Rows(SeedCalls),
           Rows(ContextSettings), Rows(ContextSetup), Rows(ConfigFirst),
           Rows(ConfigSecond), Rows(ConfigThird), Rows(ConfigFourth), Rows(ConfigLast),
           Rows(CertificateCalls), Rows(CertificateCallsLast)}

\* The pointers of a call, by the position of the argument, and a call.
Pointers == UNION {[at -> [ref : Refs, at : {0, 1}]] : at \in SUBSET (1 .. 3)}
Frames ==
    [ptrs : Pointers, under : {row.under : row \in AllRows},
     result : {row.result : row \in AllRows}]

CallsTypeOK ==
    /\ mode \in {"script", "native", "scriptThrows", "nativeThrows"}
    /\ frames \in Seq(Frames)
    /\ mode \in {"native", "nativeThrows"} => frames # <<>>
    /\ locks \in [Refs -> Nat] /\ addr \in [Refs -> {0, 1}]

\* The positions, in one call and in all calls in progress, that hold a binary.
Holders(ptrs, r) == {i \in DOMAIN ptrs : ptrs[i].ref = r}
AllHolders(fs, r) ==
    {at \in (DOMAIN fs) \X (1 .. 3) :
        at[2] \in DOMAIN fs[at[1]].ptrs /\ fs[at[1]].ptrs[at[2]].ref = r}

\* The two halves of PointersPinned.
PointersOK ==
    \A k \in DOMAIN frames : \A i \in DOMAIN frames[k].ptrs :
        frames[k].ptrs[i].at = addr[frames[k].ptrs[i].ref]
LocksOK == \A r \in Refs : locks[r] = Cardinality(AllHolders(frames, r))

CallsInv == CallsTypeOK /\ PointersOK /\ LocksOK

\* PointersPinned is the two halves.
LEMMA PinnedParts == PointersPinned <=> PointersOK /\ LocksOK
  BY DEF PointersPinned, PointersOK, LocksOK, AllHolders

\* The positions of a sequence are finitely many.
LEMMA PositionsFinite ==
    ASSUME NEW n \in Nat
    PROVE  IsFiniteSet(1 .. n)
<1>1. 1 \in Int /\ n \in Int
  OBVIOUS
<1> QED
  BY ONLY <1>1, FS_Interval

\* A call holds finitely many pointers.
LEMMA PointersFinite ==
    ASSUME NEW ptrs \in Pointers, NEW r
    PROVE  /\ DOMAIN ptrs \subseteq 1 .. 3
           /\ \A i \in DOMAIN ptrs : ptrs[i].ref \in Refs
           /\ IsFiniteSet(Holders(ptrs, r)) /\ Cardinality(Holders(ptrs, r)) \in Nat
<1>1. PICK D \in SUBSET (1 .. 3) : ptrs \in [D -> [ref : Refs, at : {0, 1}]]
  BY DEF Pointers
<1>2. DOMAIN ptrs \subseteq 1 .. 3 /\ \A i \in DOMAIN ptrs : ptrs[i].ref \in Refs
  BY <1>1
<1>3. IsFiniteSet(1 .. 3) /\ Holders(ptrs, r) \in SUBSET (1 .. 3)
  BY <1>2, PositionsFinite DEF Holders
<1> QED
  BY <1>2, <1>3, FS_Subset, FS_CardinalityType

\* So do all calls in progress.
LEMMA AllHoldersFinite ==
    ASSUME NEW fs \in Seq(Frames), NEW r
    PROVE  IsFiniteSet(AllHolders(fs, r)) /\ Cardinality(AllHolders(fs, r)) \in Nat
<1>1. DOMAIN fs = 1 .. Len(fs) /\ Len(fs) \in Nat
  OBVIOUS
<1>2. IsFiniteSet(DOMAIN fs) /\ IsFiniteSet(1 .. 3)
  BY <1>1, PositionsFinite
<1>3. IsFiniteSet((DOMAIN fs) \X (1 .. 3))
  BY <1>2, FS_Product
<1>4. AllHolders(fs, r) \in SUBSET ((DOMAIN fs) \X (1 .. 3))
  BY DEF AllHolders
<1> QED
  BY <1>3, <1>4, FS_Subset, FS_CardinalityType

\* The innermost call adds its own positions to those of the others.
LEMMA HoldersOfTop ==
    ASSUME NEW fs \in Seq(Frames), NEW f \in Frames, NEW r
    PROVE  Cardinality(AllHolders(Append(fs, f), r)) =
               Cardinality(AllHolders(fs, r)) + Cardinality(Holders(f.ptrs, r))
<1> DEFINE n == Len(fs) + 1
           top == {n} \X Holders(f.ptrs, r)
<1>1. /\ Append(fs, f) \in Seq(Frames) /\ Len(Append(fs, f)) = n
      /\ \A k \in 1 .. Len(fs) : Append(fs, f)[k] = fs[k]
      /\ Append(fs, f)[n] = f
      /\ n \in Nat /\ DOMAIN Append(fs, f) = 1 .. n /\ DOMAIN fs = 1 .. n - 1
  BY AppendProperties
<1>2. f.ptrs \in Pointers
  BY DEF Frames
<1>3. /\ DOMAIN f.ptrs \subseteq 1 .. 3
      /\ IsFiniteSet(Holders(f.ptrs, r)) /\ Cardinality(Holders(f.ptrs, r)) \in Nat
  BY <1>2, PointersFinite
<1> HIDE DEF n
<1>4. AllHolders(Append(fs, f), r) = AllHolders(fs, r) \cup top
  <2>1. ASSUME NEW at \in AllHolders(Append(fs, f), r)
        PROVE  at \in AllHolders(fs, r) \cup top
    <3>1. at \in (1 .. n) \X (1 .. 3)
      BY <1>1, <2>1 DEF AllHolders
    <3>2. CASE at[1] = n
      BY <1>1, <2>1, <3>1, <3>2 DEF AllHolders, Holders
    <3>3. CASE at[1] # n
      BY <1>1, <2>1, <3>1, <3>3 DEF AllHolders
    <3> QED
      BY <3>2, <3>3
  <2>2. ASSUME NEW at \in AllHolders(fs, r)
        PROVE  at \in AllHolders(Append(fs, f), r)
    BY <1>1, <2>2 DEF AllHolders
  <2>3. ASSUME NEW at \in top
        PROVE  at \in AllHolders(Append(fs, f), r)
    BY <1>1, <1>3, <2>3 DEF AllHolders, Holders
  <2> QED
    BY <2>1, <2>2, <2>3
<1>5. AllHolders(fs, r) \cap top = {}
  BY <1>1 DEF AllHolders
<1>6. IsFiniteSet({n}) /\ Cardinality({n}) = 1
  BY FS_Singleton
<1>7. IsFiniteSet(top) /\ Cardinality(top) = Cardinality(Holders(f.ptrs, r))
  BY <1>3, <1>6, FS_Product
<1>8. /\ IsFiniteSet(AllHolders(fs, r)) /\ Cardinality(AllHolders(fs, r)) \in Nat
  BY AllHoldersFinite
<1> HIDE DEF top
<1>9. Cardinality(AllHolders(fs, r) \cup top) =
          Cardinality(AllHolders(fs, r)) + Cardinality(top) - Cardinality({})
  BY <1>5, <1>7, <1>8, FS_Union
<1> QED
  BY <1>3, <1>4, <1>7, <1>8, <1>9, FS_EmptySet

\* The calls in progress are the outer ones and the innermost.
LEMMA PoppedAndTop ==
    ASSUME frames \in Seq(Frames), frames # <<>>
    PROVE  Popped \in Seq(Frames) /\ Top \in Frames /\ frames = Append(Popped, Top)
<1>1. Len(frames) \in Nat \ {0}
  BY EmptySeq
<1>2. /\ Popped \in Seq(Frames) /\ Len(Popped) = Len(frames) - 1
      /\ \A k \in 1 .. Len(frames) - 1 : Popped[k] = frames[k]
  <2> DEFINE n == Len(frames) - 1
  <2>1. 1 \in Int /\ n \in Int /\ \A k \in 1 .. n : frames[k] \in Frames
    BY <1>1
  <2>2. n \in Nat
    BY <1>1
  <2> HIDE DEF n
  <2>3. /\ SubSeq(frames, 1, n) \in Seq(Frames)
        /\ Len(SubSeq(frames, 1, n)) = IF 1 <= n THEN n - 1 + 1 ELSE 0
        /\ \A k \in 1 .. n - 1 + 1 : SubSeq(frames, 1, n)[k] = frames[1 + k - 1]
    BY <2>1, SubSeqProperties
  <2>4. /\ Len(SubSeq(frames, 1, n)) = n
        /\ \A k \in 1 .. n : SubSeq(frames, 1, n)[k] = frames[k]
    BY <2>2, <2>3
  <2> QED
    BY <2>3, <2>4 DEF Popped, n
<1>3. Top \in Frames
  BY <1>1 DEF Top
<1>4. /\ Append(Popped, Top) \in Seq(Frames)
      /\ Len(Append(Popped, Top)) = Len(frames)
      /\ \A k \in 1 .. Len(frames) : Append(Popped, Top)[k] = frames[k]
  BY <1>1, <1>2, <1>3, AppendProperties DEF Top
<1>5. frames = Append(Popped, Top)
  BY <1>4, SeqEqual
<1> QED
  BY <1>2, <1>3, <1>5

\* A call that is left, by returning or by an exception, releases its own locks
\* and no others.
LEMMA CallsInvPop ==
    ASSUME CallsInv, frames # <<>>, frames' = Popped, locks' = Unlocked(Top),
           UNCHANGED addr, mode' \in {"script", "scriptThrows"}
    PROVE  CallsInv'
<1>1. /\ frames \in Seq(Frames) /\ Popped \in Seq(Frames) /\ Top \in Frames
      /\ frames = Append(Popped, Top)
  BY PoppedAndTop DEF CallsInv, CallsTypeOK
<1>2. Top.ptrs \in Pointers
  BY <1>1 DEF Frames
<1>3. ASSUME NEW r \in Refs
      PROVE  locks'[r] = Cardinality(AllHolders(Popped, r))
  <2>1. locks[r] = Cardinality(AllHolders(Popped, r)) + Cardinality(Holders(Top.ptrs, r))
    BY <1>1, HoldersOfTop DEF CallsInv, LocksOK
  <2>2. locks'[r] = locks[r] - Cardinality(Holders(Top.ptrs, r))
    BY DEF Unlocked, Held, Holders
  <2>3. /\ Cardinality(AllHolders(Popped, r)) \in Nat
        /\ Cardinality(Holders(Top.ptrs, r)) \in Nat
    BY <1>1, <1>2, AllHoldersFinite, PointersFinite
  <2> QED
    BY <2>1, <2>2, <2>3
<1>4. LocksOK'
  BY <1>3 DEF LocksOK
<1>5. locks' \in [Refs -> Nat]
  <2>1. \A r \in Refs : Cardinality(AllHolders(Popped, r)) \in Nat
    BY <1>1, AllHoldersFinite
  <2>2. locks' = [r \in Refs |-> locks'[r]]
    BY DEF Unlocked
  <2> QED
    BY <1>3, <2>1, <2>2
<1>6. CallsTypeOK'
  BY <1>1, <1>5 DEF CallsInv, CallsTypeOK
<1>7. PointersOK'
  <2>1. \A k \in DOMAIN Popped : k \in DOMAIN frames /\ Popped[k] = frames[k]
    BY <1>1, AppendProperties
  <2> QED
    BY <2>1 DEF CallsInv, PointersOK
<1> QED
  BY <1>4, <1>6, <1>7 DEF CallsInv

\* Steps that only change who runs.
LEMMA CallsInvMode ==
    ASSUME CallsInv, UNCHANGED <<frames, locks, addr>>,
           mode' \in {"script", "native", "scriptThrows", "nativeThrows"},
           mode' \in {"native", "nativeThrows"} => frames # <<>>
    PROVE  CallsInv'
<1>1. CallsTypeOK'
  BY DEF CallsInv, CallsTypeOK
<1>2. PointersOK' /\ LocksOK'
  BY DEF CallsInv, PointersOK, LocksOK
<1> QED
  BY <1>1, <1>2 DEF CallsInv

\* No binding locks more than three arguments.
LEMMA AtMostThreeLocks == \A row \in AllRows : DOMAIN row.locks \subseteq 1 .. 3
<1> USE DEF Row, Query, Run, Setting, Stored, Late, Unimplemented, Accessor
<1>1. \A fn \in DOMAIN ContextQueries : DOMAIN ContextQueries[fn].locks \subseteq 1 .. 3
  BY DEF ContextQueries
<1>2. \A fn \in DOMAIN SessionQueries : DOMAIN SessionQueries[fn].locks \subseteq 1 .. 3
  BY DEF SessionQueries
<1>3. \A fn \in DOMAIN ContextRuns : DOMAIN ContextRuns[fn].locks \subseteq 1 .. 3
  BY DEF ContextRuns
<1>4. \A fn \in DOMAIN SeedCalls : DOMAIN SeedCalls[fn].locks \subseteq 1 .. 3
  BY DEF SeedCalls
<1>5. \A fn \in DOMAIN ContextSettings : DOMAIN ContextSettings[fn].locks \subseteq 1 .. 3
  BY DEF ContextSettings
<1>6. \A fn \in DOMAIN ContextSetup : DOMAIN ContextSetup[fn].locks \subseteq 1 .. 3
  BY DEF ContextSetup
<1>7. \A fn \in DOMAIN ConfigFirst : DOMAIN ConfigFirst[fn].locks \subseteq 1 .. 3
  BY DEF ConfigFirst
<1>8. \A fn \in DOMAIN ConfigSecond : DOMAIN ConfigSecond[fn].locks \subseteq 1 .. 3
  BY DEF ConfigSecond
<1>9. \A fn \in DOMAIN ConfigThird : DOMAIN ConfigThird[fn].locks \subseteq 1 .. 3
  BY DEF ConfigThird
<1>10. \A fn \in DOMAIN ConfigFourth : DOMAIN ConfigFourth[fn].locks \subseteq 1 .. 3
  BY DEF ConfigFourth
<1>11. \A fn \in DOMAIN ConfigLast : DOMAIN ConfigLast[fn].locks \subseteq 1 .. 3
  BY DEF ConfigLast
<1>12. \A fn \in DOMAIN CertificateCalls : DOMAIN CertificateCalls[fn].locks \subseteq 1 .. 3
  BY DEF CertificateCalls
<1>13. \A fn \in DOMAIN CertificateCallsLast :
          DOMAIN CertificateCallsLast[fn].locks \subseteq 1 .. 3
  BY DEF CertificateCallsLast
<1> QED
  BY ONLY <1>1, <1>2, <1>3, <1>4, <1>5, <1>6, <1>7, <1>8, <1>9, <1>10, <1>11, <1>12, <1>13
     DEF AllRows, Rows

\* A binding is entered: it locks what it takes pointers to.
LEMMA CallsInvEnter ==
    ASSUME CallsInv, NEW row \in AllRows, NEW args \in Arguments(row), Enter(row, args)
    PROVE  CallsInv'
<1> DEFINE ptrs == [i \in LockedPrefix(args) |-> [ref |-> args[i], at |-> addr[args[i]]]]
           f == [ptrs |-> ptrs, under |-> row.under, result |-> row.result]
<1>1. /\ frames \in Seq(Frames) /\ locks \in [Refs -> Nat] /\ addr \in [Refs -> {0, 1}]
      /\ \A r \in Refs : locks[r] = Cardinality(AllHolders(frames, r))
  BY DEF CallsInv, CallsTypeOK, LocksOK
<1>2. /\ frames' = Append(frames, f)
      /\ locks' = [r \in Refs |-> locks[r] + Held(ptrs, r)]
      /\ mode' \in {"native", "nativeThrows"} /\ UNCHANGED addr
  BY DEF Enter
<1>3. /\ args \in [DOMAIN row.locks -> Refs \cup {NOTBINARY, NoLock}]
      /\ DOMAIN args \subseteq 1 .. 3
  BY AtMostThreeLocks DEF Arguments
<1>4. LockedPrefix(args) \subseteq 1 .. 3 /\ \A i \in LockedPrefix(args) : args[i] \in Refs
  BY <1>3 DEF LockedPrefix
<1>5. ptrs \in Pointers
  <2>1. ptrs \in [LockedPrefix(args) -> [ref : Refs, at : {0, 1}]]
    BY <1>1, <1>4
  <2> QED
    BY <1>4, <2>1 DEF Pointers
<1>6. f \in Frames
  BY <1>5 DEF Frames
<1>7. /\ DOMAIN ptrs = LockedPrefix(args)
      /\ \A i \in DOMAIN ptrs : ptrs[i].at = addr[ptrs[i].ref]
  BY <1>1, <1>4
<1>8. f.ptrs = ptrs
  OBVIOUS
<1> HIDE DEF ptrs, f
<1>9. /\ Append(frames, f) \in Seq(Frames) /\ Append(frames, f) # <<>>
      /\ DOMAIN Append(frames, f) = 1 .. Len(frames) + 1
      /\ \A k \in 1 .. Len(frames) : Append(frames, f)[k] = frames[k]
      /\ Append(frames, f)[Len(frames) + 1] = f
      /\ Len(frames) \in Nat /\ DOMAIN frames = 1 .. Len(frames)
  BY <1>1, <1>6, AppendProperties
<1>10. \A r \in Refs : Held(ptrs, r) = Cardinality(Holders(ptrs, r)) /\ Held(ptrs, r) \in Nat
  BY <1>5, PointersFinite DEF Held, Holders
<1>11. CallsTypeOK'
  BY <1>1, <1>2, <1>9, <1>10 DEF CallsTypeOK
<1>12. PointersOK'
  <2> SUFFICES ASSUME NEW k \in 1 .. Len(frames) + 1
               PROVE  \A i \in DOMAIN Append(frames, f)[k].ptrs :
                         Append(frames, f)[k].ptrs[i].at =
                             addr[Append(frames, f)[k].ptrs[i].ref]
    BY <1>2, <1>9 DEF PointersOK
  <2>1. CASE k = Len(frames) + 1
    BY <1>7, <1>8, <1>9, <2>1
  <2>2. CASE k \in 1 .. Len(frames)
    BY <1>9, <2>2 DEF CallsInv, PointersOK
  <2> QED
    BY <1>9, <2>1, <2>2
<1>13. LocksOK'
  <2> SUFFICES ASSUME NEW r \in Refs
               PROVE  locks'[r] = Cardinality(AllHolders(Append(frames, f), r))
    BY <1>2 DEF LocksOK
  <2>1. Cardinality(AllHolders(Append(frames, f), r)) =
            Cardinality(AllHolders(frames, r)) + Cardinality(Holders(ptrs, r))
    BY <1>1, <1>6, <1>8, HoldersOfTop
  <2> QED
    BY <1>1, <1>2, <1>10, <2>1
<1> QED
  BY <1>11, <1>12, <1>13 DEF CallsInv

\* The garbage collector moves only what no call in progress points to.
LEMMA CallsInvCollect == CallsInv /\ Collect => CallsInv'
<1> SUFFICES ASSUME CallsInv, Collect PROVE CallsInv'
  OBVIOUS
<1>1. PICK moved \in SUBSET {r \in Refs : locks[r] = 0} :
         addr' = [r \in Refs |-> IF r \in moved THEN 1 - addr[r] ELSE addr[r]]
  BY DEF Collect
<1>2. UNCHANGED <<mode, frames, locks>>
  BY DEF Collect
<1>3. frames \in Seq(Frames) /\ addr \in [Refs -> {0, 1}]
  BY DEF CallsInv, CallsTypeOK
<1>4. addr' \in [Refs -> {0, 1}]
  BY <1>1, <1>3
<1>5. CallsTypeOK'
  BY <1>2, <1>4 DEF CallsInv, CallsTypeOK
<1>6. LocksOK'
  BY <1>2 DEF CallsInv, LocksOK
<1>7. PointersOK'
  <2> SUFFICES ASSUME NEW k \in DOMAIN frames, NEW i \in DOMAIN frames[k].ptrs
               PROVE  frames[k].ptrs[i].at = addr'[frames[k].ptrs[i].ref]
    BY <1>2 DEF PointersOK
  <2> DEFINE r == frames[k].ptrs[i].ref
  <2>1. frames[k] \in Frames
    BY <1>3
  <2>2. frames[k].ptrs \in Pointers
    BY <2>1 DEF Frames
  <2>3. i \in 1 .. 3 /\ r \in Refs
    BY <2>2, PointersFinite
  <2>4. <<k, i>> \in AllHolders(frames, r)
    BY <2>3 DEF AllHolders
  <2>5. Cardinality(AllHolders(frames, r)) # 0
    BY <1>3, <2>4, AllHoldersFinite, FS_EmptySet
  <2>6. locks[r] # 0
    BY <2>3, <2>5 DEF CallsInv, LocksOK
  <2>7. addr'[r] = addr[r]
    BY <1>1, <2>3, <2>6
  <2> QED
    BY <2>7 DEF CallsInv, PointersOK
<1> QED
  BY <1>5, <1>6, <1>7 DEF CallsInv

\* A trampoline of any table.
LEMMA CallsInvCall ==
    ASSUME CallsInv, NEW row \in AllRows, CallOne(row)
    PROVE  CallsInv'
<1>1. CASE mode' = "scriptThrows" /\ UNCHANGED <<frames, locks, addr>>
  BY <1>1, CallsInvMode
<1>2. CASE \E args \in Arguments(row) : Enter(row, args)
  BY <1>2, CallsInvEnter
<1> QED
  BY <1>1, <1>2 DEF CallOne

\* Every raw pointer a call in progress has given to mbedtls is where the
\* binary is, and a binary is locked exactly as often as calls hold it, for
\* calls nested to any depth and whatever exceptions pass through them.
THEOREM PointersAlwaysPinned == CallsSpec => []PointersPinned
<1>1. CallsInit => CallsInv
  <2> SUFFICES ASSUME CallsInit PROVE CallsInv
    OBVIOUS
  <2>1. CallsTypeOK
    BY DEF CallsInit, CallsTypeOK
  <2>2. PointersOK
    BY DEF CallsInit, PointersOK
  <2>3. \A r : AllHolders(frames, r) = {}
    BY DEF CallsInit, AllHolders
  <2>4. LocksOK
    BY <2>3, FS_EmptySet DEF CallsInit, LocksOK
  <2> QED
    BY <2>1, <2>2, <2>4 DEF CallsInv
<1>2. CallsInv /\ [CallsNext]_callVars => CallsInv'
  <2> SUFFICES ASSUME CallsInv, [CallsNext]_callVars PROVE CallsInv'
    OBVIOUS
  <2>0. /\ mode \in {"script", "native", "scriptThrows", "nativeThrows"}
        /\ mode \in {"native", "nativeThrows"} => frames # <<>>
    BY DEF CallsInv, CallsTypeOK
  <2>1. CASE UNCHANGED callVars
    BY <2>0, <2>1, CallsInvMode DEF callVars
  <2>2. CASE \/ CallContext \/ CallRunning \/ CallSetting \/ CallConfigFirst
             \/ CallConfigSecond \/ CallConfigThird \/ CallConfigLast \/ CallCertificate
    <3>1. PICK row \in AllRows : CallOne(row)
      BY <2>2 DEF AllRows, CallContext, CallRunning, CallSetting, CallConfigFirst,
                  CallConfigSecond, CallConfigThird, CallConfigLast, CallCertificate
    <3> QED
      BY <3>1, CallsInvCall
  <2>3. CASE CallBack \/ CallBackReturns \/ BodyThrows \/ ScriptThrows \/ ScriptCatches
    <3>1. /\ UNCHANGED <<frames, locks, addr>>
          /\ mode' \in {"script", "native", "scriptThrows", "nativeThrows"}
          /\ mode' \in {"native", "nativeThrows"} => frames # <<>>
      BY <2>0, <2>3 DEF CallBack, CallBackReturns, BodyThrows, ScriptThrows, ScriptCatches
    <3> QED
      BY <3>1, CallsInvMode
  <2>4. CASE Return \/ Unwind
    <3>1. /\ frames # <<>> /\ frames' = Popped /\ locks' = Unlocked(Top)
          /\ UNCHANGED addr /\ mode' \in {"script", "scriptThrows"}
      BY <2>0, <2>4 DEF Return, Unwind
    <3> QED
      BY <3>1, CallsInvPop
  <2>5. CASE Collect
    BY <2>5, CallsInvCollect
  <2> QED
    BY <2>1, <2>2, <2>3, <2>4, <2>5 DEF CallsNext
<1>3. CallsInv => PointersPinned
  BY PinnedParts DEF CallsInv
<1> QED
  BY <1>1, <1>2, <1>3, PTL DEF CallsSpec

(***************************************************************************)
(* The calendar conversions.  Large numbers are kept out of ranges: the    *)
(* provers enumerate a range whose ends they know.                         *)
(***************************************************************************)
\* The halves of a number: the low one, and what is above it.
Low(n) == n % 65536
High(n) == n \div 65536

\* What a half and an unsigned of the code hold.
IsHalf(n) == n \in Nat /\ n < 65536
IsU32(a) == a = <<a[1], a[2]>> /\ IsHalf(a[1]) /\ IsHalf(a[2])

\* A number is its halves, and a half has nothing above it.
LEMMA Halves ==
    ASSUME NEW n \in Int
    PROVE  /\ IsHalf(Low(n)) /\ Low(n) \in Int /\ High(n) \in Int
           /\ n = High(n) * 65536 + Low(n)
           /\ IsHalf(n) => Low(n) = n /\ High(n) = 0
  BY SMT DEF Low, High, IsHalf

\* Both are integers.
LEMMA HalvesInt == ASSUME NEW n \in Int PROVE Low(n) \in Int /\ High(n) \in Int
  BY SMT DEF Low, High

\* A half is its own low half.
LEMMA HalfAlone == ASSUME NEW n, IsHalf(n) PROVE Low(n) = n /\ High(n) = 0
  BY SMT DEF Low, High, IsHalf

\* Any integer, a negative offset too, becomes an unsigned ...
LEMMA U32IsU32 == ASSUME NEW n \in Int PROVE IsU32(U32(n))
<1>1. U32(n) = <<Low(High(n)), Low(n)>>
  BY DEF U32, Low, High
<1> QED BY <1>1, Halves DEF IsU32

\* Sums and differences in terms of the halves.
LEMMA SumParts ==
    ASSUME NEW a, NEW b
    PROVE  /\ Sum32(a, b) = <<Low(a[1] + b[1] + High(a[2] + b[2])), Low(a[2] + b[2])>>
           /\ Minus32(a, b) = <<Low(a[1] - b[1] + High(a[2] - b[2])), Low(a[2] - b[2])>>
  BY DEF Sum32, Minus32, Low, High

\* ... and so does a sum.
LEMMA SumIsU32 == ASSUME NEW a, NEW b, IsU32(a), IsU32(b) PROVE IsU32(Sum32(a, b))
<1>1. a[2] + b[2] \in Int /\ a[1] + b[1] \in Int
  BY DEF IsU32, IsHalf
<1>2. a[1] + b[1] + High(a[2] + b[2]) \in Int
  BY <1>1, Halves
<1> QED BY <1>1, <1>2, Halves, SumParts DEF IsU32

\* A half that was added is taken away again: the borrow is the carry.
LEMMA Borrow ==
    ASSUME NEW x, NEW y, IsHalf(x), IsHalf(y)
    PROVE  Low(Low(x + y) - y) = x /\ High(Low(x + y) - y) = -High(x + y)
<1>1. CASE x + y < 65536
  <2>1. Low(x + y) = x + y /\ High(x + y) = 0
    BY <1>1, SMT DEF IsHalf, Low, High
  <2>2. Low(x) = x /\ High(x) = 0 /\ x + y - y = x
    BY SMT DEF IsHalf, Low, High
  <2> QED BY <2>1, <2>2, SMT DEF IsHalf
<1>2. CASE x + y >= 65536
  <2>1. Low(x + y) = x + y - 65536 /\ High(x + y) = 1
    BY <1>2, SMT DEF IsHalf, Low, High
  <2>2. Low(x - 65536) = x /\ High(x - 65536) = -1 /\ x + y - 65536 - y = x - 65536
    BY SMT DEF IsHalf, Low, High
  <2> QED BY <2>1, <2>2, SMT DEF IsHalf
<1> QED BY <1>1, <1>2, SMT DEF IsHalf

\* Carries of two additions are those of one.
LEMMA Carries ==
    ASSUME NEW n \in Int, NEW z \in Int
    PROVE  /\ Low(Low(n) + z) = Low(n + z)
           /\ High(n) + High(Low(n) + z) = High(n + z)
  BY SMT DEF Low, High

\* What was added is taken away again, whether or not the sum wrapped.
LEMMA SumMinus ==
    ASSUME NEW a, NEW b, IsU32(a), IsU32(b)
    PROVE  Minus32(Sum32(a, b), b) = a
<1> DEFINE k == High(a[2] + b[2])
           n == a[1] + b[1] + k
<1>0. /\ IsHalf(a[1]) /\ a[1] \in Int /\ b[1] \in Int /\ IsHalf(a[2]) /\ IsHalf(b[2])
      /\ a[2] + b[2] \in Int /\ a = <<a[1], a[2]>>
  BY DEF IsU32, IsHalf
<1>1. k \in Int
  BY <1>0, Halves
<1>2. Minus32(Sum32(a, b), b) = <<Low(Low(n) - b[1] + High(Low(a[2] + b[2]) - b[2])),
                                  Low(Low(a[2] + b[2]) - b[2])>>
  BY SumParts
<1>3. Low(Low(a[2] + b[2]) - b[2]) = a[2] /\ High(Low(a[2] + b[2]) - b[2]) = -k
  BY <1>0, Borrow
<1> HIDE DEF k
<1>4. n \in Int /\ Low(n) \in Int /\ -(b[1] + k) \in Int
  <2>1. n \in Int /\ -(b[1] + k) \in Int
    BY <1>0, <1>1
  <2> HIDE DEF n
  <2> QED BY <2>1, Halves
<1>5. Low(n) - b[1] + (-k) = Low(n) + (-(b[1] + k)) /\ n + (-(b[1] + k)) = a[1]
  BY <1>0, <1>1, <1>4, SMT
<1> HIDE DEF n
<1>6. Low(Low(n) + (-(b[1] + k))) = a[1]
  <2>1. Low(Low(n) + (-(b[1] + k))) = Low(n + (-(b[1] + k)))
    BY <1>4, Carries
  <2>2. Low(a[1]) = a[1]
    BY <1>0, HalfAlone
  <2> QED BY <1>5, <2>1, <2>2
<1> QED BY <1>0, <1>2, <1>3, <1>5, <1>6

\* A sum of three has the halves of the sum of the halves.
LEMMA SumOfThree ==
    ASSUME NEW a, NEW b, NEW c, IsU32(a), IsU32(b), IsU32(c)
    PROVE  Sum32(Sum32(a, b), c)
             = <<Low(a[1] + b[1] + c[1] + High(a[2] + b[2] + c[2])), Low(a[2] + b[2] + c[2])>>
<1> DEFINE m == a[2] + b[2]
           k1 == High(m)
           k2 == High(Low(m) + c[2])
           n == a[1] + b[1] + k1
<1>0. a[1] \in Int /\ b[1] \in Int /\ c[1] \in Int /\ m \in Int /\ c[2] \in Int
  BY DEF IsU32, IsHalf
<1>1. Sum32(Sum32(a, b), c) = <<Low(Low(n) + c[1] + k2), Low(Low(m) + c[2])>>
  BY SumParts
<1> HIDE DEF m
<1>2. Low(m) \in Int /\ k1 \in Int
  BY <1>0, HalvesInt
<1>3. Low(m) + c[2] \in Int
  BY <1>0, <1>2
<1>4. k2 \in Int /\ k1 + k2 = High(m + c[2]) /\ Low(Low(m) + c[2]) = Low(m + c[2])
  <2>1. k2 \in Int
    BY <1>3, HalvesInt
  <2> QED BY <1>0, <2>1, Carries
<1> HIDE DEF k1, k2
<1>5. n \in Int /\ c[1] + k2 \in Int /\ Low(n) \in Int
  <2>1. n \in Int /\ c[1] + k2 \in Int
    BY <1>0, <1>2, <1>4
  <2> HIDE DEF n
  <2> QED BY <2>1, Halves
<1>6. Low(n) + c[1] + k2 = Low(n) + (c[1] + k2) /\ n + (c[1] + k2) = a[1] + b[1] + c[1] + (k1 + k2)
  BY <1>0, <1>2, <1>4, <1>5, SMT
<1>7. Low(Low(n) + (c[1] + k2)) = Low(n + (c[1] + k2))
  BY <1>5, Carries
<1> QED BY <1>1, <1>4, <1>6, <1>7 DEF m

\* Two numbers may be added in either order.
LEMMA SumCommutes ==
    ASSUME NEW a, NEW b, NEW c, IsU32(a), IsU32(b), IsU32(c)
    PROVE  Sum32(Sum32(a, b), c) = Sum32(Sum32(a, c), b)
<1>1. /\ a[1] + b[1] + c[1] = a[1] + c[1] + b[1]
      /\ a[2] + b[2] + c[2] = a[2] + c[2] + b[2]
  BY SMT DEF IsU32, IsHalf
<1> QED BY <1>1, SumOfThree

\* The number two halves stand for.
Value(a) == a[1] * 65536 + a[2]

\* Dividing it by halves is dividing it.
LEMMA QuotientBy60 ==
    ASSUME NEW a, IsU32(a)
    PROVE  Quotient(a, 60) = Value(a) \div 60 /\ Remainder(a, 60) = Value(a) % 60
  BY SMT DEF Quotient, Remainder, Value, IsU32, IsHalf

\* Days and seconds up to the last whole day of 2^32 seconds fit an unsigned.
LEMMA SecondsOfDay ==
    ASSUME NEW d \in Nat, d <= 49709, NEW sec \in Nat, sec < 86400
    PROVE  LET gmt == Sum32(<<d, 0>>, U32(d * 20864 + sec))
           IN  IsU32(gmt) /\ Value(gmt) = d * 86400 + sec
<1> DEFINE n == d * 20864 + sec
<1>1. n \in Nat /\ n < 1500000000
  BY SMT
<1>2. PICK hi \in Nat, lo \in Nat :
         /\ n = hi * 65536 + lo /\ IsHalf(lo) /\ IsHalf(d + hi) /\ IsHalf(hi)
         /\ hi = High(n) /\ lo = Low(n)
  <2>1. /\ n = High(n) * 65536 + Low(n) /\ IsHalf(Low(n)) /\ High(n) \in Int
    BY <1>1, Halves
  <2>2. ASSUME NEW hi \in Int, NEW lo, n = hi * 65536 + lo, IsHalf(lo)
        PROVE  hi \in Nat /\ IsHalf(d + hi) /\ IsHalf(hi)
    BY <1>1, <2>2, SMT DEF IsHalf
  <2> QED BY <2>1, <2>2 DEF IsHalf
<1>3. U32(n) = <<hi, lo>>
  <2>1. U32(n) = <<Low(High(n)), Low(n)>>
    BY DEF U32, Low, High
  <2> QED BY <1>2, <2>1, Halves
<1>4. Sum32(<<d, 0>>, <<hi, lo>>) = <<Low(d + hi + High(lo)), Low(lo)>>
  <2>1. 0 + lo = lo
    OBVIOUS
  <2> QED BY <2>1, SumParts
<1>5. Low(lo) = lo /\ High(lo) = 0 /\ Low(d + hi) = d + hi /\ d + hi + 0 = d + hi
  BY <1>2, Halves
<1>6. Sum32(<<d, 0>>, U32(n)) = <<d + hi, lo>>
  BY <1>3, <1>4, <1>5
<1>7. IsU32(<<d + hi, lo>>)
  BY <1>2 DEF IsU32
<1>8. Value(<<d + hi, lo>>) = d * 86400 + sec
  <2>1. Value(<<d + hi, lo>>) = (d + hi) * 65536 + lo
    BY DEF Value
  <2> QED BY <1>2, <2>1, SMT
<1> QED BY <1>6, <1>7, <1>8

\* The epoch of the clock is Skew seconds before the one of gmtime_r.
LEMMA EpochSkew ==
    ASSUME NEW a, IsU32(a)
    PROVE  Sum32(a, U32(24107 * 86400)) = Sum32(Sum32(a, <<0, Skew>>), NEWTON_EPOCH_DELTA)
<1>1. U32(24107 * 86400) = <<31781, 45184>> /\ NEWTON_EPOCH_DELTA = <<31781, 42145>>
  BY SMT DEF U32, NEWTON_EPOCH_DELTA
<1>2. IsU32(<<31781, 42145>>) /\ IsU32(<<0, 3039>>)
  BY DEF IsU32, IsHalf
<1>3. Sum32(Sum32(a, <<0, 3039>>), <<31781, 42145>>)
        = <<Low(a[1] + 0 + 31781 + High(a[2] + 3039 + 42145)), Low(a[2] + 3039 + 42145)>>
  BY <1>2, SumOfThree
<1>4. Sum32(a, <<31781, 45184>>) = <<Low(a[1] + 31781 + High(a[2] + 45184)), Low(a[2] + 45184)>>
  BY SumParts
<1>5. a[1] + 0 + 31781 = a[1] + 31781 /\ a[2] + 3039 + 42145 = a[2] + 45184
  BY SMT DEF IsU32, IsHalf
<1> QED BY <1>1, <1>3, <1>4, <1>5 DEF Skew

\* Added to a number far enough from 2^32, the skew does not wrap.
LEMMA SkewFits ==
    ASSUME NEW a, IsU32(a), Value(a) < 4294944000
    PROVE  /\ IsU32(Sum32(a, <<0, Skew>>))
           /\ Value(Sum32(a, <<0, Skew>>)) = Value(a) + Skew
<1>0. IsU32(<<0, Skew>>)
  BY DEF IsU32, IsHalf, Skew
<1>1. IsU32(Sum32(a, <<0, Skew>>))
  BY <1>0, SumIsU32
<1>2. /\ a[1] \in Int /\ 0 <= a[1] /\ a[1] < 65536
      /\ a[2] \in Int /\ 0 <= a[2] /\ a[2] < 65536
  BY SMT DEF IsU32, IsHalf
<1>3. Sum32(a, <<0, Skew>>) = <<Low(a[1] + 0 + High(a[2] + 3039)), Low(a[2] + 3039)>>
  BY SumParts DEF Skew
<1>4. a[1] * 65536 + a[2] < 4294944000
  BY DEF Value
<1> DEFINE x == a[1]  y == a[2]
<1> HIDE DEF x, y
<1>5. Low(x + 0 + High(y + 3039)) * 65536 + Low(y + 3039) = x * 65536 + y + 3039
  <2>0. /\ x \in Int /\ 0 <= x /\ x < 65536 /\ y \in Int /\ 0 <= y /\ y < 65536
        /\ x * 65536 + y < 4294944000
    BY <1>2, <1>4 DEF x, y
  <2>1. CASE y + 3039 < 65536
    <3>1. High(y + 3039) = 0 /\ Low(y + 3039) = y + 3039
      BY <2>0, <2>1, SMT DEF High, Low
    <3>2. Low(x + 0 + 0) = x
      BY <2>0, SMT DEF Low
    <3> QED BY <2>0, <3>1, <3>2, SMT
  <2>2. CASE y + 3039 >= 65536
    <3>1. High(y + 3039) = 1 /\ Low(y + 3039) = y + 3039 - 65536
      BY <2>0, <2>2, SMT DEF High, Low
    <3>2. x + 1 < 65536
      BY <2>0, <2>2, SMT
    <3>3. Low(x + 0 + 1) = x + 1
      BY <2>0, <3>2, SMT DEF Low
    <3> QED BY <2>0, <3>1, <3>3, SMT
  <2> QED BY <2>0, <2>1, <2>2, SMT
<1> QED BY <1>1, <1>3, <1>5 DEF Value, Skew, x, y

\* gmt_sec of gmtime_r is the number of seconds since 1970 in GMT and the skew,
\* although the clock is in local time and may have wrapped.
LEMMA GmtSeconds ==
    ASSUME NEW d \in Nat, d <= 49709, NEW sec \in Nat, sec < 86400, NEW z \in Int
    PROVE  LET gmt == Minus32(Minus32(Clock(d, sec, z), U32(z)), NEWTON_EPOCH_DELTA)
           IN  IsU32(gmt) /\ Value(gmt) = d * 86400 + sec + Skew
<1> DEFINE gmt == Sum32(<<d, 0>>, U32(d * 20864 + sec))
           skewed == Sum32(gmt, <<0, Skew>>)
           epoch == U32(24107 * 86400)
<1>1. IsU32(gmt) /\ Value(gmt) = d * 86400 + sec
  BY SecondsOfDay
<1>2. IsU32(U32(z)) /\ IsU32(NEWTON_EPOCH_DELTA) /\ IsU32(epoch)
  BY U32IsU32 DEF NEWTON_EPOCH_DELTA
<1>3. Clock(d, sec, z) = Sum32(Sum32(gmt, U32(z)), epoch)
  BY DEF Clock
<1>4. Value(gmt) < 4294944000
  BY <1>1, SMT
<1> HIDE DEF gmt
<1>5. IsU32(skewed) /\ Value(skewed) = d * 86400 + sec + Skew
  BY <1>1, <1>4, SkewFits
<1>6. Sum32(gmt, epoch) = Sum32(skewed, NEWTON_EPOCH_DELTA)
  BY <1>1, EpochSkew
<1> HIDE DEF epoch, skewed
<1>7. Clock(d, sec, z) = Sum32(Sum32(skewed, NEWTON_EPOCH_DELTA), U32(z))
  <2>1. Clock(d, sec, z) = Sum32(Sum32(gmt, epoch), U32(z))
    BY <1>1, <1>2, <1>3, SumCommutes
  <2> QED BY <1>6, <2>1
<1>8. Minus32(Clock(d, sec, z), U32(z)) = Sum32(skewed, NEWTON_EPOCH_DELTA)
  BY <1>2, <1>5, <1>7, SumIsU32, SumMinus
<1> QED BY <1>2, <1>5, <1>8, SumMinus

\* The year of the era from the day of the era: the three corrections of
\* gmtime_r take away exactly the leap days that have passed.  The last day of
\* a year exists only before a leap year's March.
LEMMA YearOfEra ==
    ASSUME NEW yoe \in Nat, yoe < 400, NEW doy \in Nat, doy <= 365,
           doy = 365 => (yoe + 1) % 4 = 0 /\ ((yoe + 1) % 100 # 0 \/ yoe = 399),
           NEW doe \in Int, doe = yoe * 365 + yoe \div 4 - yoe \div 100 + doy
    PROVE  /\ (0 <= doe /\ doe <= 146096)
           /\ (doe - doe \div 1460 + doe \div 36524 - doe \div 146096) \div 365 = yoe
<1>0. \E c \in 0 .. 3, b \in 0 .. 24, a \in 0 .. 3 : yoe = 100 * c + 4 * b + a
  <2>1. /\ yoe \div 100 \in 0 .. 3
        /\ (yoe - 100 * (yoe \div 100)) \div 4 \in 0 .. 24
        /\ yoe - 100 * (yoe \div 100) - 4 * ((yoe - 100 * (yoe \div 100)) \div 4) \in 0 .. 3
    BY SMT
  <2> QED BY <2>1, SMT
<1> PICK c \in 0 .. 3, b \in 0 .. 24, a \in 0 .. 3 : yoe = 100 * c + 4 * b + a
  BY <1>0, Zenon
<1>1. yoe \div 4 = 25 * c + b /\ yoe \div 100 = c
  BY SMT
<1>2. doy = 365 => a = 3 /\ (b = 24 => c = 3)
  <2>1. (yoe + 1) % 4 = 0 => a = 3
    BY SMT
  <2>2. a = 3 /\ b = 24 /\ c # 3 => (yoe + 1) % 100 = 0 /\ yoe # 399
    BY SMT
  <2> QED BY <2>1, <2>2, SMT
<1>3. doe = 36524 * c + 1461 * b + 365 * a + doy
  BY <1>1, SMT
<1>4. (0 <= doe /\ doe <= 146096) /\ doe \div 36524 - doe \div 146096 = c
  <2>1. doe >= 0 /\ doe <= 146096 /\ 36524 * c <= doe
    BY <1>2, <1>3, SMT
  <2>2. doe < 36524 * (c + 1) \/ (c = 3 /\ doe = 146096)
    BY <1>2, <1>3, SMT
  <2>3. CASE doe < 36524 * (c + 1)
    <3>1. doe \div 36524 = c
      BY <2>1, <2>3, SMT
    <3>2. doe \div 146096 = 0
      BY <2>1, <2>3, SMT
    <3> QED BY <2>1, <3>1, <3>2, SMT
  <2>4. CASE c = 3 /\ doe = 146096
    BY <2>4, SMT
  <2> QED BY <2>2, <2>3, <2>4, SMT
<1>5. PICK k \in 0 .. 1 : /\ doe \div 1460 = 25 * c + b + k
                          /\ 0 <= doy - k /\ doy - k <= 364
  <2>1. doe = 1460 * (25 * c + b) + (24 * c + b + 365 * a + doy)
    BY <1>3, SMT
  <2>2. CASE 24 * c + b + 365 * a + doy >= 1460
    <3>1. doe \div 1460 = 25 * c + b + 1
      BY <2>1, <2>2, SMT
    <3>2. 0 <= doy - 1 /\ doy - 1 <= 364
      BY <2>2, SMT
    <3> QED BY <3>1, <3>2, SMT
  <2>3. CASE 24 * c + b + 365 * a + doy < 1460
    <3>1. doe \div 1460 = 25 * c + b + 0
      BY <2>1, <2>3, SMT
    <3>2. 0 <= doy - 0 /\ doy - 0 <= 364
      BY <1>2, <2>3, SMT
    <3> QED BY <3>1, <3>2, SMT
  <2> QED BY <2>2, <2>3, SMT
<1>6. doe - doe \div 1460 + doe \div 36524 - doe \div 146096 = 365 * yoe + (doy - k)
  BY <1>3, <1>4, <1>5, SMT
<1>7. (365 * yoe + (doy - k)) \div 365 = yoe
  BY <1>5, SMT
<1> QED BY <1>4, <1>6, <1>7, SMT

(***************************************************************************)
(* Dates as counts of days from 1 March of the year 0.                     *)
(***************************************************************************)
\* Days before 1 March of a year, and before a month of a year that starts in
\* March; a date is a day of one.
YearStart(y) == 365 * y + y \div 4 - y \div 100 + y \div 400
MonthStart(m) == (153 * (m + (IF m > 2 THEN -3 ELSE 9)) + 2) \div 5
MarchYear(c) == c.y - (IF c.m <= 2 THEN 1 ELSE 0)
MarchDay(c) == MonthStart(c.m) + c.d - 1
Days(c) == YearStart(MarchYear(c)) + MarchDay(c)

\* A date of the calendar.
IsDate(c) ==
    /\ c = [y |-> c.y, m |-> c.m, d |-> c.d, wd |-> c.wd]
    /\ c.y \in Int /\ c.m \in 1 .. 12 /\ c.wd \in 0 .. 6
    /\ c.d \in Nat /\ 1 <= c.d /\ c.d <= DaysIn(c.y, c.m)

\* A year that ends with the February of y has a day more if y is a leap year.
LEMMA YearLength ==
    ASSUME NEW y \in Int
    PROVE  YearStart(y) = YearStart(y - 1) + (IF Leap(y) THEN 366 ELSE 365)
  BY Z3 DEF YearStart, Leap

\* The start of a year is an integer.
LEMMA YearStartInt == ASSUME NEW y \in Int PROVE YearStart(y) \in Int
  BY SMT DEF YearStart

\* The formula of both conversions, month by month.
LEMMA MonthStarts ==
    /\ MonthStart(1) = 306 /\ MonthStart(2) = 337 /\ MonthStart(3) = 0
    /\ MonthStart(4) = 31 /\ MonthStart(5) = 61 /\ MonthStart(6) = 92
    /\ MonthStart(7) = 122 /\ MonthStart(8) = 153 /\ MonthStart(9) = 184
    /\ MonthStart(10) = 214 /\ MonthStart(11) = 245 /\ MonthStart(12) = 275
  BY SMT DEF MonthStart

\* A month ends where the next begins.
LEMMA MonthLength ==
    ASSUME NEW y \in Int, NEW m \in 1 .. 12, m # 2, m # 12
    PROVE  MonthStart(m + 1) = MonthStart(m) + DaysIn(y, m)
  BY MonthStarts, SMT DEF DaysIn

\* 400 years have 146097 days.
LEMMA DaysOfEra ==
    ASSUME NEW y \in Int, NEW era \in Int, NEW yoe \in Nat, yoe < 400, y = era * 400 + yoe
    PROVE  YearStart(y) = era * 146097 + yoe * 365 + yoe \div 4 - yoe \div 100
<1>1. y \div 4 = era * 100 + yoe \div 4
  BY SMT
<1>2. y \div 100 = era * 4 + yoe \div 100
  BY SMT
<1>3. y \div 400 = era
  BY SMT
<1> QED BY <1>1, <1>2, <1>3, SMT DEF YearStart

\* The era of a year.
LEMMA YearInEra ==
    ASSUME NEW y \in Int
    PROVE  /\ y \div 400 \in Int /\ y - (y \div 400) * 400 \in Nat
           /\ y - (y \div 400) * 400 < 400
           /\ y = (y \div 400) * 400 + (y - (y \div 400) * 400)
  BY SMT

\* TimeToLocal1904Minutes counts days; 695361 is 1 January 1904.
LEMMA LocalMinutes ==
    ASSUME NEW c, IsDate(c)
    PROVE  TimeToLocal1904Minutes(c) = (Days(c) - 695361) * 1440
<1> DEFINE y == MarchYear(c)
           era == y \div 400
           yoe == y - era * 400
           doy == MarchDay(c)
<1>1. TimeToLocal1904Minutes(c)
        = (era * 146097 + (yoe * 365 + yoe \div 4 - yoe \div 100 + doy) - 695361) * 1440
  BY DEF TimeToLocal1904Minutes, MarchYear, MarchDay, MonthStart
<1>2. y \in Int /\ doy \in Int
  BY MonthStarts, SMT DEF IsDate, MarchYear, MarchDay
<1>3. Days(c) = YearStart(y) + doy
  BY DEF Days
<1> HIDE DEF y, doy
<1>4. era \in Int /\ yoe \in Nat /\ yoe < 400 /\ y = era * 400 + yoe
  BY <1>2, YearInEra
<1> HIDE DEF era, yoe
<1>5. YearStart(y) = era * 146097 + yoe * 365 + yoe \div 4 - yoe \div 100
  BY <1>2, <1>4, DaysOfEra, SMT
<1> QED BY <1>1, <1>2, <1>3, <1>4, <1>5, SMT

\* The calendar's next date is a date, a day later.
LEMMA NextDateIsNext ==
    ASSUME NEW c, IsDate(c)
    PROVE  IsDate(NextDate(c)) /\ Days(NextDate(c)) = Days(c) + 1
<1> DEFINE n == NextDate(c)
           last == c.d = DaysIn(c.y, c.m)
<1>0. /\ c.y \in Int /\ c.m \in 1 .. 12 /\ c.wd \in 0 .. 6
      /\ c.d \in Nat /\ 1 <= c.d /\ c.d <= DaysIn(c.y, c.m)
  BY DEF IsDate
<1>1. /\ n = [y |-> n.y, m |-> n.m, d |-> n.d, wd |-> n.wd]
      /\ n.y = (IF last /\ c.m = 12 THEN c.y + 1 ELSE c.y)
      /\ n.m = (IF last /\ c.m = 12 THEN 1 ELSE IF last THEN c.m + 1 ELSE c.m)
      /\ n.d = (IF last THEN 1 ELSE c.d + 1)
      /\ n.wd = (c.wd + 1) % 7
  BY DEF NextDate
<1> HIDE DEF n
<1>2. n.wd \in 0 .. 6
  BY <1>0, <1>1, SMT
<1>3. \A y \in Int, m \in 1 .. 12 : DaysIn(y, m) \in 28 .. 31
  BY SMT DEF DaysIn
<1>4. n.y \in Int /\ n.m \in 1 .. 12 /\ n.d \in Nat /\ 1 <= n.d
  BY <1>0, <1>1, SMT
<1>5. n.d <= DaysIn(n.y, n.m)
  <2>1. DaysIn(n.y, n.m) \in 28 .. 31 /\ DaysIn(c.y, c.m) \in 28 .. 31
    BY <1>0, <1>3, <1>4
  <2>2. CASE last
    BY <1>1, <2>1, <2>2, SMT
  <2>3. CASE ~last
    <3>1. n.y = c.y /\ n.m = c.m /\ n.d = c.d + 1
      BY <1>1, <2>3
    <3> QED BY <1>0, <2>1, <2>3, <3>1, SMT
  <2> QED BY <2>2, <2>3
<1>6. IsDate(n)
  BY <1>1, <1>2, <1>4, <1>5 DEF IsDate
<1>7. Days(n) = Days(c) + 1
  <2>0. /\ Days(n) = YearStart(MarchYear(n)) + (MonthStart(n.m) + n.d - 1)
        /\ Days(c) = YearStart(MarchYear(c)) + (MonthStart(c.m) + c.d - 1)
        /\ MarchYear(n) = n.y - (IF n.m <= 2 THEN 1 ELSE 0)
        /\ MarchYear(c) = c.y - (IF c.m <= 2 THEN 1 ELSE 0)
    BY DEF Days, MarchDay, MarchYear
  <2>1. MonthStart(c.m) \in Int /\ MarchYear(c) \in Int /\ YearStart(MarchYear(c)) \in Int
    BY <1>0, <2>0, MonthStarts, YearStartInt, SMT
  <2>2. CASE ~last
    <3>1. n.y = c.y /\ n.m = c.m /\ n.d = c.d + 1 /\ MarchYear(n) = MarchYear(c)
      BY <1>1, <2>0, <2>2
    <3> QED BY <1>0, <2>0, <2>1, <3>1, SMT
  <2>3. CASE last /\ c.m # 2 /\ c.m # 12
    <3>1. n.y = c.y /\ n.m = c.m + 1 /\ n.d = 1
      BY <1>1, <2>3
    <3>2. MarchYear(n) = MarchYear(c)
      BY <1>0, <2>0, <2>3, <3>1, SMT
    <3>3. MonthStart(n.m) = MonthStart(c.m) + c.d
      BY <1>0, <2>3, <3>1, MonthLength
    <3> QED BY <1>0, <2>0, <2>1, <3>1, <3>2, <3>3, SMT
  <2>4. CASE last /\ c.m = 12
    <3>1. n.y = c.y + 1 /\ n.m = 1 /\ n.d = 1 /\ c.d = 31
      BY <1>1, <2>4 DEF DaysIn
    <3>2. MarchYear(n) = MarchYear(c)
      BY <1>0, <2>0, <2>4, <3>1, SMT
    <3> QED BY <1>0, <2>0, <2>1, <2>4, <3>1, <3>2, MonthStarts, SMT
  <2>5. CASE last /\ c.m = 2
    <3>1. n.y = c.y /\ n.m = 3 /\ n.d = 1 /\ c.d = (IF Leap(c.y) THEN 29 ELSE 28)
      BY <1>1, <2>5, SMT DEF DaysIn
    <3>2. MarchYear(n) = c.y /\ MarchYear(c) = c.y - 1
      BY <1>0, <2>0, <2>5, <3>1, SMT
    <3>3. YearStart(c.y) = YearStart(c.y - 1) + (IF Leap(c.y) THEN 366 ELSE 365)
      BY <1>0, YearLength
    <3> QED BY <1>0, <2>0, <2>1, <2>5, <3>1, <3>2, <3>3, MonthStarts, SMT
  <2> QED BY <2>2, <2>3, <2>4, <2>5
<1> QED BY <1>6, <1>7 DEF n

\* The month and the day of a day of the year.
LEMMA MonthOfDay ==
    ASSUME NEW c, IsDate(c),
           NEW mp, mp = c.m + (IF c.m > 2 THEN -3 ELSE 9)
    PROVE  /\ MarchDay(c) \in Nat /\ MarchDay(c) <= 365
           /\ MarchDay(c) = 365 => c.m = 2 /\ Leap(c.y)
           /\ mp \in 0 .. 11 /\ (5 * MarchDay(c) + 2) \div 153 = mp
           /\ MarchDay(c) - (153 * mp + 2) \div 5 + 1 = c.d
           /\ mp + (IF mp < 10 THEN 2 ELSE -10) = c.m - 1
<1>1. c.m \in 1 .. 12 /\ c.d \in Nat /\ 1 <= c.d /\ c.d <= DaysIn(c.y, c.m)
  BY DEF IsDate
<1>2. MarchDay(c) = (153 * mp + 2) \div 5 + c.d - 1
  BY DEF MarchDay, MonthStart
<1>3. /\ c.d <= 31 /\ (c.m \in {2, 4, 6, 9, 11} => c.d <= 30)
      /\ c.m = 2 => c.d <= 29 /\ (c.d = 29 => Leap(c.y))
  BY <1>1, SMT DEF DaysIn
<1> DEFINE doy == MarchDay(c)
<1> HIDE DEF doy
<1>4. mp \in 0 .. 11 /\ mp + (IF mp < 10 THEN 2 ELSE -10) = c.m - 1
  BY <1>1, SMT
<1>5. doy \in Int /\ doy - (153 * mp + 2) \div 5 + 1 = c.d
  BY <1>1, <1>2, <1>4, SMT DEF doy
<1>6. doy \in Nat /\ doy <= 365 /\ (doy = 365 => c.m = 2 /\ c.d = 29)
  BY <1>1, <1>2, <1>3, SMT DEF doy
<1>7. (5 * doy + 2) \div 153 = mp
  <2>1. c.d = 31 => 5 * ((153 * mp + 2) \div 5) <= 153 * mp
    BY <1>1, <1>3, <1>4, SMT
  <2> DEFINE e == (153 * mp + 2) \div 5
  <2>2. e \in Int /\ 5 * e <= 153 * mp + 2 /\ 153 * mp + 2 < 5 * e + 5
    BY <1>4, SMT
  <2>3. doy = e + c.d - 1 /\ (c.d = 31 => 5 * e <= 153 * mp)
    BY <1>2, <2>1 DEF doy
  <2> HIDE DEF e
  <2>4. 153 * mp <= 5 * doy + 2 /\ 5 * doy + 2 < 153 * mp + 153
    BY <1>1, <1>3, <1>4, <2>2, <2>3, SMT
  <2>5. ASSUME NEW q \in Int, NEW x \in Int, 153 * q <= x, x < 153 * q + 153
        PROVE  x \div 153 = q
    BY <2>5, SMT
  <2>6. mp \in Int /\ 5 * doy + 2 \in Int
    BY <1>4, <1>6, SMT
  <2> QED BY <2>4, <2>5, <2>6
<1> QED BY <1>3, <1>4, <1>5, <1>6, <1>7 DEF doy

\* GmtDate recovers the date from the count of its days.
LEMMA GmtDateExact ==
    ASSUME NEW c, IsDate(c), NEW g \in Int, g + 719468 = Days(c), c.wd = (g + 4) % 7
    PROVE  GmtDate(g) = c
<1> DEFINE y == MarchYear(c)
           doy == MarchDay(c)
           era == y \div 400
           yoe == y - era * 400
           mp == c.m + (IF c.m > 2 THEN -3 ELSE 9)
           doe == yoe * 365 + yoe \div 4 - yoe \div 100 + doy
<1>1. c.y \in Int /\ c.m \in 1 .. 12 /\ c = [y |-> c.y, m |-> c.m, d |-> c.d, wd |-> c.wd]
  BY DEF IsDate
<1>2. y \in Int /\ y = c.y - (IF c.m <= 2 THEN 1 ELSE 0)
  BY <1>1, SMT DEF MarchYear
<1>3. /\ doy \in Nat /\ doy <= 365 /\ (doy = 365 => c.m = 2 /\ Leap(c.y))
      /\ mp \in 0 .. 11 /\ (5 * doy + 2) \div 153 = mp
      /\ doy - (153 * mp + 2) \div 5 + 1 = c.d
      /\ mp + (IF mp < 10 THEN 2 ELSE -10) = c.m - 1
  BY MonthOfDay
<1>4. g + 719468 = YearStart(y) + doy
  BY SMT DEF Days
<1> HIDE DEF y, doy, mp
<1>5. era \in Int /\ yoe \in Nat /\ yoe < 400 /\ y = era * 400 + yoe
  BY <1>2, YearInEra
<1> HIDE DEF era, yoe
<1>6. YearStart(y) = era * 146097 + yoe * 365 + yoe \div 4 - yoe \div 100
  BY <1>2, <1>5, DaysOfEra, SMT
<1>7. doy = 365 => (yoe + 1) % 4 = 0 /\ ((yoe + 1) % 100 # 0 \/ yoe = 399)
  <2>1. doy = 365 => c.y = era * 400 + (yoe + 1) /\ Leap(c.y)
    BY <1>1, <1>2, <1>3, <1>5, SMT
  <2> QED BY <1>5, <2>1, SMT DEF Leap
<1>8. doe \in Int /\ g + 719468 = era * 146097 + doe
  BY <1>3, <1>4, <1>5, <1>6, SMT
<1>9. /\ 0 <= doe /\ doe <= 146096
      /\ (doe - doe \div 1460 + doe \div 36524 - doe \div 146096) \div 365 = yoe
  BY <1>3, <1>5, <1>7, <1>8, YearOfEra, SMT
<1>10. doe - (365 * yoe + yoe \div 4 - yoe \div 100) = doy
  BY <1>3, <1>5, SMT
<1> HIDE DEF doe
<1> DEFINE shift == g + 719468
           era1 == shift \div 146097
           doe1 == shift - era1 * 146097
           yoe1 == (doe1 - doe1 \div 1460 + doe1 \div 36524 - doe1 \div 146096) \div 365
           doy1 == doe1 - (365 * yoe1 + yoe1 \div 4 - yoe1 \div 100)
           mp1 == (5 * doy1 + 2) \div 153
           m1 == mp1 + (IF mp1 < 10 THEN 2 ELSE -10)
<1>11. GmtDate(g)
         = [y |-> yoe1 + era1 * 400 + (IF m1 <= 1 THEN 1 ELSE 0), m |-> m1 + 1,
            d |-> doy1 - (153 * mp1 + 2) \div 5 + 1, wd |-> (g + 4) % 7]
  BY SMT DEF GmtDate
<1>12. era1 = era /\ doe1 = doe
  <2>1. era1 = era
    BY <1>5, <1>8, <1>9, SMT
  <2> QED BY <1>5, <1>8, <2>1, SMT
<1> HIDE DEF era1, doe1
<1>13. yoe1 = yoe
  BY <1>9, <1>12, SMT
<1> HIDE DEF yoe1
<1>14. doy1 = doy
  BY <1>10, <1>12, <1>13, SMT
<1> HIDE DEF doy1
<1>15. mp1 = mp
  BY <1>3, <1>14, SMT
<1> HIDE DEF mp1
<1>16. m1 = c.m - 1 /\ doy1 - (153 * mp1 + 2) \div 5 + 1 = c.d
  BY <1>3, <1>14, <1>15, SMT
<1> HIDE DEF m1
<1>17. yoe + era * 400 + (IF m1 <= 1 THEN 1 ELSE 0) = c.y /\ m1 + 1 = c.m
  BY <1>1, <1>2, <1>5, <1>16, SMT
<1> QED BY <1>1, <1>11, <1>12, <1>13, <1>16, <1>17, SMT

\* c is the date of the n-th day since 1 January 1970.
DateOf(n, c) == IsDate(c) /\ Days(c) = n + 719468 /\ c.wd = (n + 4) % 7

\* The offset that was read is the zone's, when there is one.
OffsetInv ==
    /\ zone \in Zones \cup {NOZONE}
    /\ zone # NOZONE => gmtdelta = zone

\* The inductive invariant: the calendar's date is that of its day.
CalInv ==
    /\ day \in Nat /\ day <= LastDay
    /\ DateOf(day, date)
    /\ OffsetInv

\* 1 January 1970 was a Thursday.
LEMMA CalInvInit == CalInit => CalInv
<1> SUFFICES ASSUME CalInit PROVE CalInv
  OBVIOUS
<1>1. day = 0 /\ date = [y |-> 1970, m |-> 1, d |-> 1, wd |-> 4]
  BY DEF CalInit, FirstDate
<1>2. day \in Nat /\ day <= LastDay
  BY <1>1, CalendarAssumption, SMT
<1>3. IsDate(date)
  BY <1>1, SMT DEF IsDate, DaysIn
<1>4. Days(date) = day + 719468 /\ date.wd = (day + 4) % 7
  <2>1. MarchYear(date) = 1969 /\ MarchDay(date) = 306
    BY <1>1, MonthStarts, SMT DEF MarchYear, MarchDay
  <2>2. YearStart(1969) = 719162
    BY SMT DEF YearStart
  <2> QED BY <1>1, <2>1, <2>2, SMT DEF Days
<1>5. OffsetInv
  BY DEF CalInit, GetGMTDelta, OffsetInv
<1>6. DateOf(day, date)
  BY <1>3, <1>4, SMT DEF DateOf
<1> QED BY <1>2, <1>5, <1>6, Zenon DEF CalInv

\* A day passes.
LEMMA CalInvNext == CalInv /\ [NextDay]_calVars => CalInv'
<1> SUFFICES ASSUME CalInv, [NextDay]_calVars PROVE CalInv'
  OBVIOUS
<1>1. CASE NextDay
  <2>1. day \in Nat /\ day < LastDay /\ day' = day + 1 /\ LastDay \in Nat
    BY <1>1, CalendarAssumption, SMT DEF CalInv, NextDay
  <2>2. day' \in Nat /\ day' <= LastDay
    BY <2>1, SMT
  <2>3. IsDate(date') /\ Days(date') = Days(date) + 1
    BY <1>1, NextDateIsNext, SMT DEF CalInv, DateOf, NextDay
  <2>4. Days(date') = day' + 719468
    BY <2>1, <2>3, SMT DEF CalInv, DateOf
  <2>5. date'.wd = (day' + 4) % 7
    <3>1. date'.wd = (date.wd + 1) % 7 /\ date.wd = (day + 4) % 7
      BY <1>1, SMT DEF CalInv, DateOf, NextDay, NextDate
    <3> QED BY <2>1, <3>1, SMT
  <2>6. OffsetInv'
    <3>1. OffsetInv
      BY SMT DEF CalInv
    <3> QED BY <1>1, <3>1 DEF NextDay, GetGMTDelta, OffsetInv
  <2>7. DateOf(day', date')
    BY <2>3, <2>4, <2>5, SMT DEF DateOf
  <2> QED BY <2>2, <2>6, <2>7, Zenon DEF CalInv
<1>2. CASE UNCHANGED calVars
  BY <1>2 DEF CalInv, OffsetInv, calVars
<1> QED BY <1>1, <1>2

\* The date and time gmtime_r makes of seconds since 1970.
LEMMA TimeOfSeconds ==
    ASSUME NEW gmt, IsU32(gmt), NEW d \in Nat, NEW t \in Nat, t < 86400,
           Value(gmt) = d * 86400 + t, NEW c, DateOf(d, c)
    PROVE  LET min == Quotient(gmt, 60)
               hour == min \div 60
           IN  /\ GmtDate(hour \div 24) = c /\ hour % 24 = t \div 3600
               /\ min % 60 = (t \div 60) % 60 /\ Remainder(gmt, 60) = t % 60
<1> DEFINE min == Quotient(gmt, 60)
           hour == min \div 60
<1>1. min = (d * 86400 + t) \div 60 /\ Remainder(gmt, 60) = (d * 86400 + t) % 60
  BY QuotientBy60
<1>2. min = d * 1440 + t \div 60 /\ Remainder(gmt, 60) = t % 60
  BY <1>1, SMT
<1> HIDE DEF min
<1>3. hour = d * 24 + t \div 3600
  BY <1>2, SMT
<1>4. min % 60 = (t \div 60) % 60
  BY <1>2, SMT
<1> HIDE DEF hour
<1>5. hour \div 24 = d /\ hour % 24 = t \div 3600
  <2>1. t \div 3600 \in 0 .. 23
    BY SMT
  <2> QED BY <1>3, <2>1, SMT
<1>6. GmtDate(d) = c
  <2>1. IsDate(c) /\ d + 719468 = Days(c) /\ c.wd = (d + 4) % 7
    BY SMT DEF DateOf
  <2> QED BY <2>1, GmtDateExact, SMT
<1> QED BY <1>2, <1>4, <1>5, <1>6 DEF hour, min

\* The calendar's next date is that of the next day.
LEMMA DateOfNext ==
    ASSUME NEW n \in Nat, NEW c, DateOf(n, c)
    PROVE  DateOf(n + 1, NextDate(c))
<1>1. IsDate(NextDate(c)) /\ Days(NextDate(c)) = Days(c) + 1
  BY NextDateIsNext DEF DateOf
<1>2. Days(NextDate(c)) = (n + 1) + 719468
  BY <1>1, SMT DEF DateOf
<1>3. NextDate(c).wd = ((n + 1) + 4) % 7
  <2>1. NextDate(c).wd = (c.wd + 1) % 7 /\ c.wd = (n + 4) % 7
    BY SMT DEF DateOf, NextDate
  <2> QED BY <2>1, SMT
<1> QED BY <1>1, <1>2, <1>3 DEF DateOf

\* gmtime_r on one second of a day, with any offset.
LEMMA GmtimeExact ==
    ASSUME CalInv, NEW sec \in Nat, sec < 86400, zone # NOZONE
    PROVE  Gmtime(Clock(day, sec, zone), gmtdelta) = TimeOn(date, sec + Skew)
<1>1. zone \in Int /\ gmtdelta = zone /\ day \in Nat /\ day <= 49709
  BY CalendarAssumption, SMT DEF CalInv, OffsetInv
<1> DEFINE gmt == Minus32(Minus32(Clock(day, sec, zone), U32(zone)), NEWTON_EPOCH_DELTA)
           min == Quotient(gmt, 60)
           hour == min \div 60
           s == sec + Skew
<1>2. IsU32(gmt) /\ Value(gmt) = day * 86400 + sec + Skew
  BY <1>1, GmtSeconds, SMT
<1>3. Gmtime(Clock(day, sec, zone), gmtdelta)
        = [date |-> GmtDate(hour \div 24), hour |-> hour % 24,
           min |-> min % 60, sec |-> Remainder(gmt, 60)]
  BY <1>1, SMT DEF Gmtime
<1>4. s \in Nat /\ s < 172800 /\ Value(gmt) = day * 86400 + s
  BY <1>1, <1>2, SMT DEF Skew
<1>5. DateOf(day, date)
  BY DEF CalInv
<1>6. TimeOn(date, s) = [date |-> IF s < 86400 THEN date ELSE NextDate(date),
                         hour |-> (s % 86400) \div 3600, min |-> (s \div 60) % 60,
                         sec |-> s % 60]
  BY DEF TimeOn
<1> HIDE DEF gmt, s
<1>7. CASE s < 86400
  <2>1. /\ GmtDate(hour \div 24) = date /\ hour % 24 = s \div 3600
        /\ min % 60 = (s \div 60) % 60 /\ Remainder(gmt, 60) = s % 60
    BY <1>1, <1>2, <1>4, <1>5, <1>7, TimeOfSeconds
  <2>2. s % 86400 = s
    BY <1>4, <1>7, SMT
  <2> QED BY <1>3, <1>6, <1>7, <2>1, <2>2 DEF s
<1>8. CASE ~(s < 86400)
  <2> DEFINE t == s - 86400
  <2>1. t \in Nat /\ t < 86400 /\ day + 1 \in Nat /\ Value(gmt) = (day + 1) * 86400 + t
    BY <1>1, <1>4, <1>8, SMT
  <2>2. DateOf(day + 1, NextDate(date))
    BY <1>1, <1>5, DateOfNext
  <2>3. s % 86400 = t /\ (s \div 60) % 60 = (t \div 60) % 60 /\ s % 60 = t % 60
    BY <1>4, <1>8, <2>1, SMT
  <2> HIDE DEF t
  <2>4. /\ GmtDate(hour \div 24) = NextDate(date) /\ hour % 24 = t \div 3600
        /\ min % 60 = (t \div 60) % 60 /\ Remainder(gmt, 60) = t % 60
    BY <1>2, <2>1, <2>2, TimeOfSeconds
  <2> QED BY <1>3, <1>6, <1>8, <2>3, <2>4 DEF s
<1> QED BY <1>7, <1>8

\* What CalendarExact says of some seconds of a day, of every second.
CalendarExactAllDay ==
    /\ zone # NOZONE =>
          \A sec \in Nat : sec < 86400 =>
             Gmtime(Clock(day, sec, zone), gmtdelta) = TimeOn(date, sec + Skew)
    /\ TimeToLocal1904Minutes(date) = (day + 24107) * 1440

\* Both conversions, from the invariant.
LEMMA CalInvImpliesAllDay == CalInv => CalendarExactAllDay
<1> SUFFICES ASSUME CalInv PROVE CalendarExactAllDay
  OBVIOUS
<1>1. ASSUME zone # NOZONE, NEW sec \in Nat, sec < 86400
      PROVE  Gmtime(Clock(day, sec, zone), gmtdelta) = TimeOn(date, sec + Skew)
  BY <1>1, GmtimeExact
<1>2. TimeToLocal1904Minutes(date) = (day + 24107) * 1440
  <2>1. TimeToLocal1904Minutes(date) = (Days(date) - 695361) * 1440
    BY LocalMinutes, SMT DEF CalInv, DateOf
  <2> QED BY <2>1, SMT DEF CalInv, DateOf
<1> QED BY <1>1, <1>2, SMT DEF CalendarExactAllDay

\* The seconds that the run looks at.
LEMMA AllDayImpliesExact == CalendarExactAllDay => CalendarExact
<1>1. \A sec \in {0, 83360, 83361, 86399} : sec \in Nat /\ sec < 86400
  OBVIOUS
<1> QED BY <1>1 DEF CalendarExact, CalendarExactAllDay

\* The calendar's date is always that of its day: LastDay may be any day up to
\* the last that 32 bits of seconds hold.
THEOREM CalInvariant == CalSpec => []CalInv
  BY CalInvInit, CalInvNext, PTL DEF CalSpec

\* For any set of time zones, every day from 1970 to 2106 and every second of
\* it, mbedtls_platform_gmtime_r gives the date and time 3039 seconds after GMT
\* (its epoch is not quite the clock's), whether or not the clock, the offset
\* or the epoch wrapped the unsigned arithmetic, and TimeToLocal1904Minutes the
\* minutes of the date.
THEOREM CalendarAlwaysExactAllDay == CalSpec => []CalendarExactAllDay
  BY CalInvariant, CalInvImpliesAllDay, PTL

\* In particular on the seconds where a day, and the date gmtime_r gives, start
\* and end: mbedtls goes over to the next date 50 minutes and 39 seconds early.
THEOREM CalendarAlwaysExact == CalSpec => []CalendarExact
  BY CalendarAlwaysExactAllDay, AllDayImpliesExact, PTL
=============================================================================
