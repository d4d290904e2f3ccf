------------------------------ MODULE SSLTimer ------------------------------
(***************************************************************************)
(* The timer callbacks of the connection end.  mbedtls sets a timer with   *)
(* an intermediate and a final delay and asks later which have passed.     *)
(* Deadlines and clock are milliseconds in 32 bits; they wrap every 49     *)
(* days.                                                                   *)
(***************************************************************************)
EXTENDS Naturals

CONSTANTS
    Wrap,    \* 2^32 in the code
    Delays,  \* delays mbedtls asks for
    MaxWait  \* bound: milliseconds followed after the timer was set

ASSUME TimerAssumption == Wrap \in Nat \ {0} /\ Delays \subseteq Nat /\ MaxWait \in Nat

VARIABLES
    nowms, mSSLTimerInt, mSSLTimerFin,
    asked,    \* history: the delays of the timer that is set
    elapsed,  \* history: milliseconds since then
    wrapped   \* history: the clock or a deadline has wrapped since then

timerVars == <<nowms, mSSLTimerInt, mSSLTimerFin, asked, elapsed, wrapped>>

NoTimer == [int |-> 0, fin |-> 0]

TimerInit ==
    /\ nowms \in 0 .. Wrap - 1
    /\ mSSLTimerInt = 0 /\ mSSLTimerFin = 0
    /\ asked = NoTimer /\ elapsed = 0 /\ wrapped = FALSE

\* The clock of the Newton (external).
Millisecond ==
    /\ elapsed < MaxWait
    /\ nowms' = (nowms + 1) % Wrap
    /\ elapsed' = elapsed + 1
    /\ wrapped' = (wrapped \/ nowms' = 0)
    /\ UNCHANGED <<mSSLTimerInt, mSSLTimerFin, asked>>

\* A final delay of 0 cancels the timer.
SSLSetTimerCallback(int_ms, fin_ms) ==
    /\ mSSLTimerInt' = IF fin_ms = 0 THEN 0 ELSE (int_ms + nowms) % Wrap
    /\ mSSLTimerFin' = IF fin_ms = 0 THEN 0 ELSE (fin_ms + nowms) % Wrap
    /\ asked' = IF fin_ms = 0 THEN NoTimer ELSE [int |-> int_ms, fin |-> fin_ms]
    /\ elapsed' = 0
    /\ wrapped' = (fin_ms + nowms >= Wrap)
    /\ UNCHANGED nowms

\* Mutant: the deadlines are passed a millisecond late.
SSLGetTimerCallbackLate ==
    IF mSSLTimerFin = 0 THEN "cancelled"
    ELSE IF nowms > mSSLTimerFin THEN "final"
    ELSE IF nowms > mSSLTimerInt THEN "intermediate" ELSE "none"

SSLGetTimerCallback ==
    IF mSSLTimerFin = 0 THEN "cancelled"
    ELSE IF nowms >= mSSLTimerFin THEN "final"
    ELSE IF nowms >= mSSLTimerInt THEN "intermediate" ELSE "none"

\* Whether HandleTimerTick runs the handshake again, in a connection that is
\* configured and neither established nor closing; mSSLTimerFired, which it
\* tests too, is never set.
HandleTimerTick == mSSLTimerFin # 0 /\ nowms >= mSSLTimerFin

TimerNext ==
    \/ Millisecond
    \/ \E int_ms \in Delays, fin_ms \in Delays :
          (int_ms <= fin_ms \/ fin_ms = 0) /\ SSLSetTimerCallback(int_ms, fin_ms)

TimerSpec == TimerInit /\ [][TimerNext]_timerVars

-----------------------------------------------------------------------------
\* mbedtls's contract of the get callback: it tells a timer that was not set
\* or was cancelled from one that is running, and which of the delays have
\* passed, to the millisecond, unless 2^32 milliseconds lie in between (a
\* deadline that wraps is passed at once, one that wraps to 0 is cancelled).
\* The tick of the tool runs the handshake when the final delay has passed,
\* never before.
TimerExact ==
    ~wrapped =>
        /\ HandleTimerTick = (asked.fin # 0 /\ elapsed >= asked.fin)
        /\ SSLGetTimerCallback =
            IF asked.fin = 0 THEN "cancelled"
            ELSE IF elapsed >= asked.fin THEN "final"
            ELSE IF elapsed >= asked.int THEN "intermediate" ELSE "none"
=============================================================================
