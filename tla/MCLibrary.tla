----------------------------- MODULE MCLibrary -----------------------------
\* The small parts that mbedtls and NewtonScript call into, side by side: a
\* behaviour is one of one part, while the others stay as they are.
EXTENDS NativeCalls, X509Chain, Calendar, SSLTimer, HandlerProxy

VARIABLE part

MCCertSize == [c1 |-> 2, c2 |-> 3]
MCIndices == -2 .. 4
MCZones == {-28800, 34200}
MCGarbage == {0, 7200}

libVars == <<part, callVars, chainVarsAll, calVars, timerVars, proxyVars>>

FixedCalendar == day = 0 /\ date = FirstDate /\ zone = NOZONE /\ gmtdelta = 0
FixedTimer ==
    /\ nowms = 0 /\ mSSLTimerInt = 0 /\ mSSLTimerFin = 0
    /\ asked = NoTimer /\ elapsed = 0 /\ wrapped = FALSE

LibInit ==
    /\ part \in {"calls", "chain", "calendar", "timer", "handlers"}
    /\ CallsInit
    /\ ChainInit
    /\ IF part = "calendar" THEN CalInit ELSE FixedCalendar
    /\ IF part = "timer" THEN TimerInit ELSE FixedTimer
    /\ ProxyInit
    /\ part # "handlers" => os = "2.0"

LibNext ==
    /\ UNCHANGED part
    /\ \/ /\ part = "calls" /\ CallsNext
          /\ UNCHANGED <<chainVarsAll, calVars, timerVars, proxyVars>>
       \/ /\ part = "chain" /\ ChainNext
          /\ UNCHANGED <<callVars, calVars, timerVars, proxyVars>>
       \/ /\ part = "calendar" /\ NextDay
          /\ UNCHANGED <<callVars, chainVarsAll, timerVars, proxyVars>>
       \/ /\ part = "timer" /\ TimerNext
          /\ UNCHANGED <<callVars, chainVarsAll, calVars, proxyVars>>
       \/ /\ part = "handlers" /\ ProxyNext
          /\ UNCHANGED <<callVars, chainVarsAll, calVars, timerVars>>

LibSpec == LibInit /\ [][LibNext]_libVars
=============================================================================
