----------------------------- MODULE DigitalInputs -----------------------------
(***************************************************************************)
(* The safe inputs and their diagnosis (src/GPIO/pkgDi, src/GPIO/pkgDiDiag). *)
(*                                                                         *)
(* Every controller has one input of each pair.  It filters its own inputs, *)
(* exchanges values and test results with the other controller and runs the *)
(* state machine of all inputs, its own and the other's.  A test pulse for  *)
(* the inputs of a controller is switched by the other one, when its copy   *)
(* of the state machine says so, and is evaluated by the first: the copies  *)
(* have to be in step.                                                     *)
(*                                                                         *)
(* All of it happens every four slices: in the first (slice 0) filter, test *)
(* of the lines TO and transmission, in the next (slice 1) reception and    *)
(* diState_ProcessDIs.  A cycle below is one of these.  The values of the   *)
(* TO parameter that "shall not be used" (always high, always low) are left *)
(* out, and the sampling of the ports, of which two of three decide, is the *)
(* choice of the pin's value in a cycle.                                   *)
(***************************************************************************)
EXTENDS Integers

CONSTANTS C1, C2,
          NumPairs,      \* GPIOCFG_NUM_DI_PER_uC
          Used,          \* pairs that are not disabled
          Dual,          \* pairs used as one input with two channels
          Contact,       \* pairs whose sensors are fed by the lines TO
          DebFilter, ToTestParam, ConsFilter,
          CycWait,       \* cycles to the next test, of 2500
          Steady,        \* inputs whose sensor is active all the time
          Moving,        \* inputs whose sensor switches
          Faulty, Faults, \* inputs that may get a fault, and which
          MaxReaction,   \* cycles until an inactive sensor is reported
          MaxChanges     \* bound: changes of sensors, faults and reset flags

ASSUME TwoControllers == C1 # C2
ASSUME CountsAssumption == {NumPairs, DebFilter, ToTestParam, ConsFilter, CycWait} \subseteq Nat

C == {C1, C2}
Peer(c) == IF c = C1 THEN C2 ELSE C1
Pairs == 0 .. NumPairs - 1
Inputs == 0 .. 2 * NumPairs - 1

\* The loops of the code: Step for 0, 1, ..., n - 1 in turn
InTurn(Step(_, _), s, n) ==
  LET t[k \in 0 .. n] == IF k = 0 THEN s ELSE Step(t[k - 1], k - 1)
  IN  t[n]

Pair(d) == d \div 2
Channel(d) == d % 2
Other(d) == IF Channel(d) = 0 THEN d + 1 ELSE d - 1
OwnChannel(c) == IF c = C1 THEN 0 ELSE 1
Own(c, d) == Channel(d) = OwnChannel(c)
OwnInput(c, p) == 2 * p + OwnChannel(c)
OfChannel(ch) == {d \in Inputs : Channel(d) = ch}
IsContact(d) == Pair(d) \in Contact

\* A test pulse of a line TO must be shorter than the filter.  The code does not
\* check it: it is left to the tool that makes the configuration.
ASSUME PulseAssumption == ToTestParam <= DebFilter + 1

ErrCntLimit == 2
FirstWait == 1

\* Counter values of the tests
SetPulse == 0
ReadBack == 1
LevelEnd == 2
ToStart == CycWait
ToResetPulse == ToStart + 1 + ToTestParam
ToStop == ToResetPulse + 1

VARIABLES
  slice,    \* 0 or 1
  sensor,   \* whether the sensor at an input is active
  fault,    \* of an input
  reset,    \* diState_DiErrRstSPDU; bound: the same for all inputs
  resetAll, \* globErrHandler_eDiErrRstReq, the error reset of the host
  di,       \* the data of each controller, see InitialData
  off,      \* cycles the sensor has been inactive, up to MaxReaction + 1
  changes   \* bound: changes so far

vars == <<slice, sensor, fault, reset, resetAll, di, off, changes>>

InitialData(c) == [
  filter |-> [p \in Pairs |-> 0],           \* u16RdsDiStateCnt
  first  |-> [p \in Pairs |-> FALSE],       \* own inputs active: eDi1stFilt
  value  |-> [d \in Inputs |-> FALSE],      \* diInput_eDiValue
  state  |-> [d \in Inputs |-> IF Pair(d) \in Used THEN "INACTIVE" ELSE "DONT_USE"],
  lev    |-> [d \in Inputs |-> "WAIT_1ST"], \* diDiagLev_sState
  cnt    |-> [d \in Inputs |-> 0],
  to     |-> [d \in Inputs |-> "WAIT_1ST"], \* diDiagTo_sState
  toCnt  |-> [ch \in 1 .. 2 |-> 0],         \* diDiagTo_sChState
  toExec |-> [ch \in 1 .. 2 |-> FALSE],
  toInc  |-> [ch \in 1 .. 2 |-> FALSE],     \* diDiagTo_u8IncreaseCnt
  qual   |-> [d \in Inputs |-> "NA"],       \* eDiDiagQualifier
  tmp    |-> [d \in Inputs |-> "NA"],       \* eDiDiagQualifierTmp, own inputs
  levErr |-> [p \in Pairs |-> ErrCntLimit], \* error counters of the own inputs
  toErr  |-> [p \in Pairs |-> 0],
  shErr  |-> [p \in Pairs |-> 0],
  cons   |-> [p \in Pairs |-> 0],
  suspect |-> {},                           \* pairs whose input follows the pulse
  pulse  |-> {},                            \* inputs whose level pin is active
  toLow  |-> FALSE,                         \* the line TO is switched off
  last   |-> [d \in Inputs |-> FALSE],      \* aeLastDiErrRstSPDU
  waits  |-> FALSE]                         \* eIsDIinWaitTest

-----------------------------------------------------------------------------
(* The inputs as a controller sees them *)

\* "stuck": the circuit of the input reads active; "fed": the line is connected
\* to the supply; "short": it is connected to the input of pair 0.
PinActive(d) ==
  LET p == di[Peer(IF Own(C1, d) THEN C1 ELSE C2)]
      pulsed == d \in p.pulse
                \/ \E e \in p.pulse : Channel(e) = Channel(d) /\
                     \/ fault[d] = "short" /\ Pair(e) = 0
                     \/ fault[e] = "short" /\ Pair(d) = 0
  IN  \/ fault[d] = "stuck"
      \/ fault[d] = "fed" /\ ~pulsed
      \/ sensor[d] /\ ~pulsed /\ ~(IsContact(d) /\ p.toLow)

FilterLimit == 2 + DebFilter

\* diInput_FilterDiValues for one input: a value that is not active has to last
\* for the whole filter, and the filter has to be emptied to get active again.
Filter(c, s, p) ==
  LET d == OwnInput(c, p)
      active == PinActive(d)
      n == s.filter[p]
  IN  [s EXCEPT !.first[p] = active,
                !.filter[p] = IF active THEN (IF n > 0 THEN n - 1 ELSE 0)
                              ELSE IF n < FilterLimit THEN n + 1 ELSE n,
                !.value[d] = IF active THEN n = 0 \/ @ ELSE n < FilterLimit /\ @]

diInput_FilterDiRelInputs(c, s) ==
  InTurn(LAMBDA t, p : Filter(c, t, p), s, NumPairs)

-----------------------------------------------------------------------------
(* Results of the tests (diErrHdl.c) *)

LevTestOk(s, d) ==
  [s EXCEPT !.levErr[Pair(d)] = 0,
            !.tmp[d] = IF s.qual[d] = "ERR" THEN @ ELSE "OK"]

LevTestFailed(s, d) ==
  IF s.levErr[Pair(d)] < ErrCntLimit THEN [s EXCEPT !.levErr[Pair(d)] = @ + 1]
                                     ELSE [s EXCEPT !.tmp[d] = "ERR"]

\* Mutant: a passed test clears the counters of all inputs of the line.
ToTestOk_ClearsAll(s, d) == [s EXCEPT !.toErr = [p \in Pairs |-> 0]]

ToTestOk(s, d) == [s EXCEPT !.toErr[Pair(d)] = 0]

ToTestFailed(s, d) ==
  IF s.toErr[Pair(d)] < ErrCntLimit THEN [s EXCEPT !.toErr[Pair(d)] = @ + 1]
                                    ELSE [s EXCEPT !.tmp[d] = "ERR"]

ShortTestOk(s, d) == [s EXCEPT !.shErr[Pair(d)] = 0]

ShortTestFailed(s, d) ==
  IF s.shErr[Pair(d)] < ErrCntLimit THEN [s EXCEPT !.shErr[Pair(d)] = @ + 1]
                                    ELSE [s EXCEPT !.tmp[d] = "ERR"]

ConsTestOk(s, p) == [s EXCEPT !.cons[p] = 0]

ConsTestFailed(s, p) ==
  IF s.cons[p] < ConsFilter THEN [s EXCEPT !.cons[p] = @ + 1]
  ELSE [s EXCEPT !.tmp[2 * p] = "ERR", !.tmp[2 * p + 1] = "ERR"]

diErrHdl_rstErr(s, d) == [s EXCEPT !.qual[d] = "NA", !.tmp[d] = "NA"]

diErrHdl_rstErrCnt(c, s, d) ==
  IF ~Own(c, d) THEN s
  ELSE [s EXCEPT !.cons[Pair(d)] = 0, !.toErr[Pair(d)] = 0, !.shErr[Pair(d)] = 0,
                 !.levErr[Pair(d)] = ErrCntLimit]

-----------------------------------------------------------------------------
(* The tests (diDiag.c, diDiagLev.c, diDiagShortCheck.c, diDiagTo.c) *)

LevTestOngoing(s, d) == s.lev[d] \in {"EXEC_1ST", "EXEC_CYC"}

IsTestAtPinOngoing(s, d) ==
  LevTestOngoing(s, d) \/ (IsContact(d) /\ s.toExec[Channel(d) + 1])

IsAnyTestOngoing(s) == \E d \in Inputs : IsTestAtPinOngoing(s, d)

RstTestStates(s, d) ==
  [s EXCEPT !.lev[d] = "WAIT_1ST", !.cnt[d] = 0, !.to[d] = "WAIT_1ST"]

diDiagCons_Check(s, d) ==
  IF Pair(d) \notin Dual \/ ConsFilter = 0 THEN s
  ELSE IF s.value[d] = s.value[Other(d)] THEN ConsTestOk(s, Pair(d))
  ELSE ConsTestFailed(s, Pair(d))

ShortCheck(s, d, p) ==
  IF p = Pair(d) THEN s
  ELSE IF p \in s.suspect /\ s.first[p] THEN ShortTestFailed(s, d)
  ELSE ShortTestOk(s, d)

\* diDiagShortCheck_End: all other inputs of the controller in turn
ShortCheckEnd(s, d) ==
  [InTurn(LAMBDA t, p : ShortCheck(t, d, p), s, NumPairs) EXCEPT !.suspect = {}]

EndLevTest(s, d) == [s EXCEPT !.cnt[d] = 0, !.lev[d] = "WAIT_CYC"]

ExecTestAtOwnCh(s, d) ==
  LET n == s.cnt[d]
  IN  IF n = SetPulse THEN [s EXCEPT !.suspect = {p \in Pairs : s.first[p]}]
      ELSE IF n = ReadBack
        THEN LET t == [s EXCEPT !.suspect = {p \in @ : ~s.first[p]}]
             IN  IF s.first[Pair(d)] THEN LevTestFailed(t, d) ELSE LevTestOk(t, d)
      ELSE EndLevTest(ShortCheckEnd(s, d), d)

ExecTestAtOtherCh(s, d) ==
  LET n == s.cnt[d]
  IN  IF n = SetPulse THEN [s EXCEPT !.pulse = @ \cup {d}]
      ELSE IF n = ReadBack THEN [s EXCEPT !.pulse = @ \ {d}]
      ELSE EndLevTest(s, d)

diDiagLev_ExecTest(c, s, d) ==
  LET t == IF Own(c, d) THEN ExecTestAtOwnCh(s, d) ELSE ExecTestAtOtherCh(s, d)
  IN  [t EXCEPT !.cnt[d] = @ + 1]

\* Mutant: a test starts whatever other test runs.
CheckTestStart_AtOnce(s, d, wait, req, exec) ==
  IF s.cnt[d] < wait THEN s ELSE [s EXCEPT !.lev[d] = exec, !.cnt[d] = 0]

\* diDiagLev_Check1stTestStart, diDiagLev_CheckCycTestStart
CheckTestStart(s, d, wait, req, exec) ==
  IF s.cnt[d] < wait THEN s
  ELSE IF IsAnyTestOngoing(s) THEN [s EXCEPT !.lev[d] = req]
  ELSE [s EXCEPT !.lev[d] = exec, !.cnt[d] = 0]

\* A test that starts from a waiting state sets its pulse at once.
WaitForTest(c, s, d, wait, req, exec) ==
  LET t == CheckTestStart(s, d, wait, req, exec)
  IN  IF t.lev[d] = exec THEN diDiagLev_ExecTest(c, t, d)
                         ELSE [t EXCEPT !.cnt[d] = @ + 1]

diDiagLev_HandleTestState(c, s, d) ==
  CASE s.lev[d] = "WAIT_1ST" ->
         WaitForTest(c, [s EXCEPT !.qual[d] = "NA"], d, FirstWait, "REQ_1ST", "EXEC_1ST")
    [] s.lev[d] = "REQ_1ST" -> CheckTestStart(s, d, FirstWait, "REQ_1ST", "EXEC_1ST")
    [] s.lev[d] = "WAIT_CYC" -> WaitForTest(c, s, d, CycWait, "REQ_CYC", "EXEC_CYC")
    [] s.lev[d] = "REQ_CYC" -> CheckTestStart(s, d, CycWait, "REQ_CYC", "EXEC_CYC")
    [] LevTestOngoing(s, d) -> diDiagLev_ExecTest(c, s, d)

diDiagTo_HandleTestState(s, d) ==
  CASE s.to[d] = "WAIT_1ST" -> [s EXCEPT !.toCnt[Channel(d) + 1] = ToStart]
    [] s.to[d] = "WAIT_CYC" -> [s EXCEPT !.toInc[Channel(d) + 1] = TRUE]
    [] s.to[d] = "EXEC_CYC" -> s

ToStates(s, ch, st) == [s EXCEPT !.to = [d \in Inputs |-> IF Channel(d) = ch THEN st ELSE @[d]]]

EndToTest(s, ch) ==
  [ToStates(s, ch, "WAIT_CYC") EXCEPT !.toCnt[ch + 1] = 0, !.toExec[ch + 1] = FALSE]

EvalToInput(c, s, p) ==
  IF p \notin Contact THEN s
  ELSE IF s.first[p] THEN ToTestFailed(s, OwnInput(c, p)) ELSE ToTestOk(s, OwnInput(c, p))

\* Evaluates all inputs of the channel that are fed by the line.
EvalToTest(c, s) == InTurn(LAMBDA t, p : EvalToInput(c, t, p), s, NumPairs)

diDiagTo_ExecTest(c, s, ch) ==
  LET n == s.toCnt[ch + 1]
      own == ch = OwnChannel(c)
      t == IF n = ToStart
             THEN [ToStates(s, ch, "EXEC_CYC") EXCEPT !.toLow = IF own THEN @ ELSE TRUE]
           ELSE IF n = ToResetPulse
             THEN IF own THEN EvalToTest(c, s) ELSE [s EXCEPT !.toLow = FALSE]
           ELSE IF n = ToStop THEN EndToTest(s, ch)
           ELSE s
  IN  [t EXCEPT !.toCnt[ch + 1] = @ + 1]

HandleToChannel(c, s, ch) ==
  LET a == IF s.toInc[ch + 1] /\ s.toCnt[ch + 1] < ToStart
             THEN [s EXCEPT !.toCnt[ch + 1] = @ + 1] ELSE s
      b == IF ~IsAnyTestOngoing(a) /\ a.toCnt[ch + 1] >= ToStart
             THEN [a EXCEPT !.toExec[ch + 1] = TRUE] ELSE a
  IN  IF b.toExec[ch + 1] THEN diDiagTo_ExecTest(c, b, ch) ELSE b

HandleToInput(s, d) ==
  IF IsContact(d) /\ s.state[d] = "VALID" THEN diDiagTo_HandleTestState(s, d) ELSE s

diState_HandleToTestExecution(c, s) ==
  LET t == InTurn(HandleToInput, s, 2 * NumPairs)
  IN  HandleToChannel(c, HandleToChannel(c, t, 0), 1)

-----------------------------------------------------------------------------
(* The state of an input (diState.c) *)

\* The even input of a pair checks both.
HandleConsTest(s, d) ==
  IF Channel(d) = 0 /\ ~IsTestAtPinOngoing(s, Other(d)) THEN diDiagCons_Check(s, d) ELSE s

ToInactive(c, s, d) ==
  [diErrHdl_rstErrCnt(c, RstTestStates(s, d), d) EXCEPT !.state[d] = "INACTIVE"]

InactiveState(s, d) ==
  LET t == HandleConsTest(s, d)
  IN  IF s.value[d] THEN [t EXCEPT !.state[d] = "WAIT_TEST"] ELSE t

ActiveWaitTestState(c, s, d) ==
  LET a == IF IsTestAtPinOngoing(s, d) THEN s
           ELSE HandleConsTest(IF s.value[d] THEN s ELSE ToInactive(c, s, d), d)
      b == diDiagLev_HandleTestState(c, a, d)
  IN  IF b.lev[d] \in {"WAIT_CYC", "REQ_CYC", "EXEC_CYC"} /\ b.qual[d] = "OK"
      THEN [b EXCEPT !.state[d] = "VALID"] ELSE b

\* Mutant: the value is not looked at while any input is tested.
ActiveState_AnyTest(c, s, d) ==
  IF IsAnyTestOngoing(s) THEN diDiagLev_HandleTestState(c, s, d)
  ELSE LET t == HandleConsTest(s, d)
       IN  IF s.value[d] THEN diDiagLev_HandleTestState(c, t, d) ELSE ToInactive(c, t, d)

ActiveState(c, s, d) ==
  IF IsTestAtPinOngoing(s, d) THEN diDiagLev_HandleTestState(c, s, d)
  ELSE LET t == HandleConsTest(s, d)
       IN  IF s.value[d] THEN diDiagLev_HandleTestState(c, t, d) ELSE ToInactive(c, t, d)

ErrState(c, s, d) ==
  LET t == RstTestStates(s, d)
      u == IF resetAll \/ (reset /\ ~s.last[d])
           THEN [diErrHdl_rstErrCnt(c, diErrHdl_rstErr(t, d), d) EXCEPT !.state[d] = "INACTIVE"]
           ELSE t
  IN  [u EXCEPT !.last[d] = reset]

\* An inactive input is not looked at while one before it waits for its test.
ProcessDI(c, s, d) ==
  LET t == CASE s.state[d] = "INACTIVE" -> IF s.waits THEN s ELSE InactiveState(s, d)
             [] s.state[d] = "WAIT_TEST" -> ActiveWaitTestState(c, s, d)
             [] s.state[d] = "VALID" -> ActiveState(c, s, d)
             [] s.state[d] = "ERROR" -> ErrState(c, s, d)
             [] s.state[d] = "DONT_USE" -> s
      u == [t EXCEPT !.waits = @ \/ t.state[d] = "WAIT_TEST"]
  IN  IF ~IsTestAtPinOngoing(u, d) /\ u.qual[d] = "ERR"
      THEN [u EXCEPT !.state[d] = "ERROR"] ELSE u

\* Mutant: eIsDIinWaitTest is not reset at the end.
diState_ProcessDIs_NoReset(c, s) == InTurn(LAMBDA t, d : ProcessDI(c, t, d), s, 2 * NumPairs)

diState_ProcessDIs(c, s) ==
  [InTurn(LAMBDA t, d : ProcessDI(c, t, d), s, 2 * NumPairs) EXCEPT !.waits = FALSE]

\* What the stack gets (diState_GetDiState)
Reported(c, d) ==
  /\ di[c].state[d] = "VALID"
  /\ Pair(d) \in Dual =>
       /\ di[c].state[Other(d)] = "VALID"
       /\ di[c].qual[d] # "ERR" /\ di[c].qual[Other(d)] # "ERR"

-----------------------------------------------------------------------------
(* The slices *)

\* gpio_SendIOvaluesViaIPC: the qualifiers of the own inputs are adopted.
diInput_PrepareValForIPC(c, s) ==
  [s EXCEPT !.qual = [d \in Inputs |-> IF Own(c, d) THEN s.tmp[d] ELSE @[d]]]

\* Mutant: a passed test of the other controller is not adopted.
diInput_ConvValFromOtherCh_ErrOnly(c, s, o) ==
  [s EXCEPT !.value = [d \in Inputs |-> IF Own(c, d) THEN @[d] ELSE o.value[d]],
            !.qual = [d \in Inputs |-> IF ~Own(c, d) /\ o.qual[d] = "ERR" THEN "ERR" ELSE @[d]]]

\* gpio_GetIOvaluesFromIPC: a test not executed counts as passed.
diInput_ConvValFromOtherCh(c, s, o) ==
  [s EXCEPT !.value = [d \in Inputs |-> IF Own(c, d) THEN @[d] ELSE o.value[d]],
            !.qual = [d \in Inputs |-> IF Own(c, d) THEN @[d]
                                       ELSE IF o.qual[d] = "ERR" THEN "ERR" ELSE "OK"]]

FilterAndSend ==
  /\ slice = 0
  /\ di' = [c \in C |-> diInput_PrepareValForIPC(c,
                          diState_HandleToTestExecution(c, diInput_FilterDiRelInputs(c, di[c])))]
  /\ slice' = 1
  /\ UNCHANGED <<sensor, fault, reset, resetAll, off, changes>>

GetAndProcess ==
  /\ slice = 1
  /\ di' = [c \in C |-> diState_ProcessDIs(c, diInput_ConvValFromOtherCh(c, di[c], di[Peer(c)]))]
  /\ off' = [d \in Moving |-> IF sensor[d] \/ fault[d] # "none" THEN 0
                              ELSE IF off[d] <= MaxReaction THEN off[d] + 1 ELSE off[d]]
  /\ slice' = 0

\* The process may change before the ports are sampled for the next cycle, and
\* so may the flag received with the safe data; the host may request a reset,
\* which globErrHandler_DiRstConf takes back at the end of the cycle.
SensorSwitches ==
  /\ \E d \in Moving : sensor' = [sensor EXCEPT ![d] = ~@]
  /\ resetAll' = FALSE
  /\ UNCHANGED <<fault, reset>>

Fails ==
  /\ \E d \in Faulty, f \in Faults : fault[d] = "none" /\ fault' = [fault EXCEPT ![d] = f]
  /\ resetAll' = FALSE
  /\ UNCHANGED <<sensor, reset>>

ResetFlagChanges ==
  /\ reset' = ~reset
  /\ resetAll' = FALSE
  /\ UNCHANGED <<sensor, fault>>

globErrHandler_ErrReset ==
  /\ resetAll' = TRUE
  /\ UNCHANGED <<sensor, fault, reset>>

ProcessChanges == SensorSwitches \/ Fails \/ ResetFlagChanges \/ globErrHandler_ErrReset

Cycle ==
  /\ GetAndProcess
  /\ \/ /\ resetAll' = FALSE
        /\ UNCHANGED <<sensor, fault, reset, changes>>
     \/ /\ changes < MaxChanges
        /\ ProcessChanges
        /\ changes' = changes + 1

Init ==
  /\ slice = 0
  /\ sensor \in {f \in [Inputs -> BOOLEAN] : \A d \in Inputs \ Moving : f[d] = (d \in Steady)}
  /\ fault = [d \in Inputs |-> "none"]
  /\ reset = FALSE /\ resetAll = FALSE
  /\ di = [c \in C |-> InitialData(c)]
  /\ off = [d \in Moving |-> 0]
  /\ changes = 0

Next == FilterAndSend \/ Cycle

\* The timer interrupt calls one slice after the other: this is the same as
\* WF_vars(Next), for Next is always enabled and always changes the slice.
NextSlice == slice' = 1 - slice

Spec == Init /\ [][Next]_vars /\ WF_slice(NextSlice)

-----------------------------------------------------------------------------

\* Both controllers are in the same state for every input and in the same step
\* of every test, though each has the results of its own inputs only: a pulse is
\* switched by one and evaluated by the other (diDiagLev_ExecTest,
\* diDiagTo_ExecTest).
CopiesAgree ==
  slice = 0 =>
    /\ di[C1].value = di[C2].value /\ di[C1].state = di[C2].state
    /\ di[C1].lev = di[C2].lev /\ di[C1].cnt = di[C2].cnt
    /\ di[C1].to = di[C2].to /\ di[C1].toCnt = di[C2].toCnt
    /\ di[C1].toExec = di[C2].toExec

\* An inactive sensor is reported after MaxReaction cycles at the latest, through
\* either channel, whatever tests hide the input meanwhile.
ReactsInTime ==
  \A d \in Moving, c \in C :
    slice = 0 /\ off[d] > MaxReaction =>
      /\ ~Reported(c, d)
      /\ Pair(d) \in Dual => ~Reported(c, Other(d))

\* Inputs that nothing but a fault of their own makes invalid
Independent == {d \in Steady : Pair(d) \in Dual => Other(d) \in Steady}

\* A good input whose sensor is active stays valid: no test of its own, of
\* another input or of a line is taken for a change or an error of it.
SteadyStaysValid ==
  [][\A d \in Independent, c \in C :
       fault[d] = "none" /\ di[c].state[d] = "VALID" => di'[c].state[d] = "VALID"]_vars

\* A good input whose sensor is active gets its first test and is valid in the
\* end, whatever the others do.
SteadyGetsValid ==
  \A d \in Independent : <>(fault[d] # "none" \/ \A c \in C : di[c].state[d] = "VALID")

\* The tests find an input that reads active for ever, and a line connected to
\* the supply.
FaultIsFound ==
  \A d \in Faulty : fault[d] # "none" ~> \A c \in C : di[c].state[d] = "ERROR"

\* A pulse at one input that arrives at another one of the controller "is an
\* indicator for a possible short" (diDiagShortCheck.c:179-181): one of the two
\* becomes erroneous.
ShortIsFound ==
  \A d \in Faulty :
    fault[d] = "short" ~> \E e \in {d, Channel(d)} : di[C1].state[e] = "ERROR"

=============================================================================
