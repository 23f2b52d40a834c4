---------------------------- MODULE TimeSupervision ----------------------------
(***************************************************************************)
(* What the two controllers compare of each other in every cycle beside    *)
(* the process data: the system time (src/pkgTIM/TIM.c), the elapsed time  *)
(* (pkgTest/pkgDeviceTest/clkCtrl.c) and the temperature                   *)
(* (tm_TemperatureMonitor-srv.c).                                          *)
(*                                                                         *)
(* A cycle is the six slices of the scheduler that hold them, which both   *)
(* controllers execute in step; the clock of a controller counts rate[c]   *)
(* in a cycle.                                                             *)
(***************************************************************************)
EXTENDS Integers, FiniteSets, Sequences

CONSTANTS C1, C2,
          Rates,          \* what a clock may count in a cycle
          Nominal,        \* what it should count
          MinDiff, MaxDiff,   \* k_MIN_TIMER_DIFF_TCYCL, k_MAX_TIMER_DIFF_TCYCL
          TimeDiff,       \* CLKCTRL_TIMEDIFF
          Deviation,      \* divisor of CLKCTRL_CALC_DEVIATION
          Wrap,           \* range of the timers
          FilterSize, Threshold,  \* TMSRV_TEST_FILTER_SIZE, TMSRV_TEST_THRESHOLD
          MaxChanges      \* bound on the changes of the rates

ASSUME TwoControllers == C1 # C2
ASSUME RatesAssumption == Rates \subseteq Nat /\ Nominal \in Rates
ASSUME LimitsAssumption ==
  /\ {MinDiff, MaxDiff, TimeDiff, Deviation, Wrap} \subseteq Nat
  /\ TimeDiff > 1 /\ Deviation > 0
  /\ 2 * TimeDiff + MaxDiff < Wrap  \* an elapsed time that is measured does not overflow
  /\ \A r \in Rates : 4 * r < Wrap
ASSUME FilterAssumption == Threshold \in 1 .. FilterSize /\ FilterSize \in Nat

C == {C1, C2}
Peer(c) == IF c = C1 THEN C2 ELSE C1

VARIABLES
  phase,        \* the slice: 2, 3, 10, 11, 18 or 19
  done,         \* the controllers that have executed it
  time,         \* timerHAL_GetSystemTime of a controller
  rate,
  curr,         \* u32_LocalTimestampCurrCycl, which is also what it sends
  local,        \* u32_LocalTimestampPrevCycl
  remote,       \* u32_RemoteTimestampPrevCycl
  first,        \* e_FirstRun
  start, diff,  \* clkCtrl_u32RdsSysTimeStart, clkCtrl_u32RdsSysTimeDiff
  results,      \* tmSRV_u8TestResult, the newest first
  own,          \* tmSRV_eTempTestStatusOwnChannel, also what it sends
  failSafe,
  disturbed,    \* bound: what goes wrong in a behaviour, "clocks" or "temperature"
  changes, off, hot   \* history: changes of a rate, a rate was not tolerable,
                      \* bad measurements in a row

timeVars == <<time, rate, curr, local, remote, first>>
clkVars == <<start, diff>>
tempVars == <<results, own, hot>>
vars == <<phase, done, timeVars, clkVars, tempVars, failSafe, disturbed, changes, off>>

NextPhase == [p \in {2, 3, 10, 11, 18, 19} |->
  CASE p = 2 -> 3 [] p = 3 -> 10 [] p = 10 -> 11 [] p = 11 -> 18 [] p = 18 -> 19 [] p = 19 -> 2]

Running(c) == failSafe[c] = "none"

\* Controller c executes slice p.
InSlice(c, p) ==
  /\ phase = p
  /\ c \notin done
  /\ Running(c)
  /\ done' = done \cup {c}
  /\ UNCHANGED <<phase, time, rate, disturbed, changes, off>>

Set(f, c, v) == f' = [f EXCEPT ![c] = v]
FailIf(cond, c, code) == failSafe' = IF cond THEN [failSafe EXCEPT ![c] = code] ELSE failSafe

-----------------------------------------------------------------------------
(* System time *)

TIM_SendTimerVal(c) ==
  /\ InSlice(c, 2)
  /\ Set(curr, c, time[c])
  /\ UNCHANGED <<local, remote, first, clkVars, tempVars, failSafe>>

\* Mutant: the difference is taken without the overflow of the timer.
InTime_Signed(now, before) == now - before \in MinDiff .. MaxDiff

InTime(now, before) == (now - before) % Wrap \in MinDiff .. MaxDiff

TIM_CheckAndSetTimerVal(c) ==
  /\ InSlice(c, 3)
  /\ LET ok == InTime(curr[Peer(c)], remote[c]) /\ InTime(curr[c], local[c])
     IN  IF first[c] \/ ok
         THEN /\ Set(local, c, curr[c])
              /\ Set(remote, c, curr[Peer(c)])
              /\ Set(first, c, FALSE)
              /\ UNCHANGED failSafe
         ELSE /\ FailIf(TRUE, c, "APPL_TIMER_DEV_ERR")
              /\ UNCHANGED <<local, remote, first>>
  /\ UNCHANGED <<curr, clkVars, tempVars>>

\* The time of controller 1 is the time of both.
TIM_TimeGet_128us(c) == IF c = C1 THEN local[c] ELSE remote[c]

-----------------------------------------------------------------------------
(* Temperature *)

\* Mutant: failures that do not follow each other are added up.
TestFailed_AnyThree(bits) == Cardinality({i \in 1 .. FilterSize : bits[i]}) >= Threshold

\* tmSRV_EvaluateTestResult: the scan of the filter meets Threshold failures in
\* a row.
TestFailed(bits) ==
  \E i \in 1 .. FilterSize - Threshold + 1 : \A j \in i .. i + Threshold - 1 : bits[j]

tmSRV_CheckTemperature(c) ==
  /\ InSlice(c, 10)
  /\ \E bad \in IF disturbed = "temperature" THEN BOOLEAN ELSE {FALSE} :
       LET bits == <<bad>> \o SubSeq(results[c], 1, FilterSize - 1)
       IN  /\ Set(results, c, bits)
           /\ Set(own, c, IF TestFailed(bits) THEN "FAILED" ELSE "PASSED")
           /\ Set(hot, c, IF ~bad THEN 0 ELSE IF hot[c] < Threshold THEN hot[c] + 1 ELSE hot[c])
  /\ UNCHANGED <<curr, local, remote, first, clkVars, failSafe>>

TooHot(c) == own[c] = "FAILED" \/ own[Peer(c)] = "FAILED"

tmSRV_SyncTemperature(c) ==
  /\ InSlice(c, 11)
  /\ FailIf(TooHot(c), c, "TEMPERATURE_ERR")
  /\ UNCHANGED <<curr, local, remote, first, clkVars, tempVars>>

-----------------------------------------------------------------------------
(* Clock control *)

clkCtrl_CalcAndSendTimeDiff(c) ==
  /\ InSlice(c, 18)
  /\ Set(diff, c, (time[c] - start[c]) % Wrap)
  /\ UNCHANGED <<curr, local, remote, first, start, tempVars, failSafe>>

\* Mutant: the elapsed times are not compared.
Deviates_Never(a, b) == FALSE

\* The longer of two times exceeds the shorter one by more than the deviation.
Deviates(a, b) ==
  LET shorter == IF a >= b THEN b ELSE a
      longer == IF a >= b THEN a ELSE b
  IN  longer > shorter + (shorter \div Deviation)

clkCtrl_CheckTimerVal(c) ==
  /\ InSlice(c, 19)
  /\ IF diff[c] >= TimeDiff /\ diff[Peer(c)] >= TimeDiff
     THEN /\ FailIf(Deviates(diff[c], diff[Peer(c)]), c, "CLK_CTRL")
          /\ Set(start, c, (start[c] + diff[c]) % Wrap)
     ELSE UNCHANGED <<failSafe, start>>
  /\ UNCHANGED <<curr, local, remote, first, diff, tempVars>>

-----------------------------------------------------------------------------
(* The cycle and its faults *)

Slice(c) ==
  \/ TIM_SendTimerVal(c)
  \/ TIM_CheckAndSetTimerVal(c)
  \/ tmSRV_CheckTemperature(c)
  \/ tmSRV_SyncTemperature(c)
  \/ clkCtrl_CalcAndSendTimeDiff(c)
  \/ clkCtrl_CheckTimerVal(c)

\* ipcsSYS_Sync: both go on to the next slice; the time of a cycle passes at
\* its end.  Each test uses the values of both controllers, so that no
\* controller waits for one that has stopped: both stop in the same slice.
NextSlice ==
  /\ done = C
  /\ \A c \in C : Running(c)
  /\ phase' = NextPhase[phase]
  /\ done' = {}
  /\ time' = IF phase = 19 THEN [c \in C |-> (time[c] + rate[c]) % Wrap] ELSE time
  /\ UNCHANGED <<rate, curr, local, remote, first, clkVars, tempVars, failSafe, disturbed, changes,
                 off>>

\* Rates between which the code has to tell from those that are tolerable.
Tolerable(r, s) ==
  /\ {r, s} \subseteq MinDiff .. MaxDiff
  /\ ~Deviates(r + 1, s) /\ ~Deviates(r, s + 1)
TooFarApart(r, s) == r * Deviation > s * (Deviation + 1) \/ s * Deviation > r * (Deviation + 1)
Untenable(r, s) == TooFarApart(r, s) \/ ~({r, s} \subseteq MinDiff .. MaxDiff)

RatesChange ==
  /\ disturbed = "clocks"
  /\ changes < MaxChanges
  /\ phase = 2 /\ done = {}
  /\ changes' = changes + 1
  /\ rate' \in [C -> Rates]
  /\ off' = (off \/ ~Tolerable(rate'[C1], rate'[C2]))
  /\ UNCHANGED <<phase, done, time, curr, local, remote, first, clkVars, tempVars,
                 failSafe, disturbed>>

\* TIM_Init, clkCtrl_Init: the controllers start one after the other.
Init ==
  /\ phase = 2
  /\ done = {}
  /\ time = [c \in C |-> 1]
  /\ rate = [c \in C |-> Nominal]
  /\ curr = [c \in C |-> 0]
  /\ local = [c \in C |-> 0]
  /\ remote = [c \in C |-> 0]
  /\ first = [c \in C |-> TRUE]
  /\ start \in [C -> 0 .. 1]
  /\ diff = [c \in C |-> 0]
  /\ results = [c \in C |-> [i \in 1 .. FilterSize |-> FALSE]]
  /\ own = [c \in C |-> "NONE"]
  /\ failSafe = [c \in C |-> "none"]
  /\ disturbed \in {"clocks", "temperature"}
  /\ changes = 0
  /\ off = ~Tolerable(Nominal, Nominal)
  /\ hot = [c \in C |-> 0]

Next ==
  \/ \E c \in C : Slice(c)
  \/ NextSlice
  \/ RatesChange

\* The timers drive the slices; no clock has to deviate.
Fairness ==
  /\ WF_vars(NextSlice)
  /\ \A c \in C : WF_vars(Slice(c))

Spec == Init /\ [][Next]_vars /\ Fairness

-----------------------------------------------------------------------------

\* The background tasks of both controllers, which run after slice 3, see the
\* same system time, though their clocks differ (TIM_TimeGet_128us).
SameSystemTime ==
  phase \notin {2, 3} => TIM_TimeGet_128us(C1) = TIM_TimeGet_128us(C2)

\* After slice 11 both controllers have drawn the same conclusion from their
\* temperatures: both stop exactly if one of them has measured a value out of
\* range Threshold times in a row (the filter of tmSRV_EvaluateTestResult).
TemperatureAgreed ==
  phase = 11 /\ done = C =>
    \A c \in C : failSafe[c] # "none" <=> \E d \in C : hot[d] >= Threshold

\* The controllers draw the same conclusions from what each has measured.
ConclusionsAgree == SameSystemTime /\ TemperatureAgreed

\* Clocks within the tolerances never cause an alarm, however the timers
\* overflow and whenever the controllers have started.
NoFalseAlarm ==
  ~off => \A c \in C : failSafe[c] \notin {"APPL_TIMER_DEV_ERR", "CLK_CTRL"}

\* Clocks that stay too far apart, or too far from the nominal rate, stop both
\* controllers: the time of a cycle finds what is coarse, clock control what
\* is fine.
DriftStops ==
  <>[]Untenable(rate[C1], rate[C2]) => <>(\A c \in C : ~Running(c))

=============================================================================
