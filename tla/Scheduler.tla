------------------------------- MODULE Scheduler -------------------------------
(***************************************************************************)
(* The scheduler interrupt of one controller                               *)
(* (src/pkgOperation/sch_Scheduler-app.c), the main loop it preempts       *)
(* (main.c, SAPL/SAPLbkgd/SAPLbkgdMain.c) and the semaphore between them.  *)
(* Times are counted in time slices of 100 us, from the moment the code     *)
(* takes its time stamp, up to Horizon, which is beyond every limit; the   *)
(* main loop's own limit, 600 s, is counted in cycles.  A slice is one     *)
(* step: the main loop does not preempt it.                                *)
(***************************************************************************)
EXTENDS Integers, Sequences, SequencesExt

CONSTANTS MainTimeout,  \* SCHEDULER_MAIN_TIMEOUT_US, in cycles
          MaxTask,      \* prompt: slices from the trigger to the end of the task
          MaxJitter,    \* bound on the delays of the interrupt, in a prompt
          FaultJitter   \* system and in one with faults

ASSUME TimesAssumption ==
  {MainTimeout, MaxTask, MaxJitter, FaultJitter} \subseteq Nat

BlockCount == 40
MaxCycle == 44          \* SCHEDULER_TIMEOUT_MAX_US
MinCycle == 36          \* SCHEDULER_TIMEOUT_MIN_US
ActivityTimeout == 44   \* k_BKGD_ACTIVITY_TIMEOUT_US
Horizon == 45
Later(t) == IF t < Horizon THEN t + 1 ELSE t

VARIABLES
  prompt,       \* chosen once: main loop and timer keep their times
  blockIdx,     \* u8_BlockIdx: the slice executed next
  table,        \* the table aicSm_eAicState selects: "startup" or "run"
  sent,         \* the exchange with the other controller that is under way
  sema,         \* e_BkgdTaskActivateSema
  main,         \* place of the main loop
  taskTable,    \* the table when the task read the AIC state
  tasks,        \* tasks executed since the last trigger
  due,          \* slices the interrupt is pending
  sinceLast,    \* since u32_LastTime, -1 before the first run
  sinceMain,    \* cycles since u32_RdsMainLoopTriggerTime
  sinceStart,   \* since u32_startTimeout; 0 outside SAPL_BkgdTaskExec's loop
  jitter,       \* delays of the interrupt so far
  irqOn,        \* the timer interrupt still comes
  failSafe

schedVars == <<prompt, blockIdx, table, sent, sema, main, taskTable, tasks, due, sinceLast,
               sinceMain, sinceStart, jitter, irqOn, failSafe>>

-----------------------------------------------------------------------------
(* The tables: what each slice calls, in order.  Calls that neither touch  *)
(* the other controller nor the background task are left out.              *)

SendIo == <<"SendIo">>
GetIo == <<"GetIo", "ProcessDIs">>
ProcessDOs == <<"ProcessDOs">>
OutputsOff == <<"OutputsOff">>

\* Slices 0 to 39 of timeSlicesRunMode.
IoSlice(s) == CASE s % 4 = 0 /\ s <= 36 -> SendIo
                [] s % 4 = 1 /\ s <= 37 -> GetIo
                [] s % 4 = 3            -> ProcessDOs
                [] OTHER                -> <<>>

OtherRunCalls ==
  [s \in 0 .. BlockCount - 1 |->
    CASE s = 2  -> <<"SendTimerVal", "DoSelfTests">>
      [] s = 3  -> <<"CheckForNewTgm", "CheckTimerVal", "SetStackVarAndPath">>
      [] s = 6  -> <<"NvLowHandler", "DoAicSync", "Sync", "ProcessTgm",
                     "SampleIoData", "BkgdTaskTrigger">>
      [] s = 10 -> <<"CheckTemperature">>
      [] s = 11 -> <<"SyncTemperature">>
      [] s = 14 -> <<"SendVar">>
      [] s = 15 -> <<"RecvAndCheckVar">>
      [] s = 18 -> <<"SendTimeDiff">>
      [] s = 19 -> <<"CheckTimeDiff">>
      [] s = 22 -> <<"DoSelfTests">>
      [] s = 23 -> <<"CheckForNewTgm">>
      [] s = 30 -> <<"CheckMainExecution">>
      [] s = 34 -> <<"SendSafeTgm">>
      [] s = 35 -> <<"RecvSafeTgm">>
      [] s = 38 -> <<"BkgdTaskCheck", "BuildAsmTgm", "CheckSchedulerTimeout">>
      [] s = 39 -> <<"Statemachine", "GetOutputData">>
      [] OTHER  -> <<>>]

\* The inputs and outputs come first but for the slices 19 and 39.
timeSlicesRunMode ==
  [s \in 0 .. BlockCount - 1 |->
    IF s \in {19, 39} THEN OtherRunCalls[s] \o IoSlice(s)
                      ELSE IoSlice(s) \o OtherRunCalls[s]]

\* Slices 0 to 39 of timeSlicesStartup.
timeSlicesStartup ==
  [s \in 0 .. BlockCount - 1 |->
    CASE s = 2  -> <<"SendTimerVal", "DoSelfTests">>
      [] s = 3  -> <<"CheckForNewTgm", "CheckTimerVal", "SetStackVarAndPath">>
      [] s = 4  -> <<"PrepAicSync", "SendAicSync", "OutputsOff">>
      [] s = 5  -> <<"GetAicSync", "DoAicSync", "Sync">>
      [] s = 6  -> <<"NvLowHandler", "ProcessTgm", "ResetIoData",
                     "BkgdTaskTrigger">>
      [] s = 10 -> <<"CheckTemperature">>
      [] s = 11 -> <<"SyncTemperature">>
      [] s = 14 -> <<"SendVar">>
      [] s = 15 -> <<"RecvAndCheckVar">>
      [] s = 17 -> <<"CheckForNewTgm">>
      [] s = 18 -> <<"SendTimeDiff">>
      [] s = 19 -> <<"CheckTimeDiff">>
      [] s = 22 -> <<"DoSelfTests">>
      [] s = 30 -> <<"CheckForNewTgm", "CheckMainExecution">>
      [] s = 38 -> <<"BkgdTaskCheck", "BuildAsmTgm", "CheckSchedulerTimeout">>
      [] s = 39 -> <<"Statemachine">>
      [] s % 4 = 0 /\ s # 4 -> OutputsOff
      [] OTHER  -> <<>>]

SliceCalls(t, s) ==
  IF t = "run" THEN timeSlicesRunMode[s] ELSE timeSlicesStartup[s]

-----------------------------------------------------------------------------
(* One slice *)

Sends == [SendIo |-> "io", SendAicSync |-> "io", SendTimerVal |-> "timer",
          CheckTemperature |-> "temperature", SendVar |-> "var",
          SendTimeDiff |-> "diff", SendSafeTgm |-> "spdu"]
Receives == [GetIo |-> "io", GetAicSync |-> "io", CheckTimerVal |-> "timer",
             SyncTemperature |-> "temperature", RecvAndCheckVar |-> "var",
             CheckTimeDiff |-> "diff", RecvSafeTgm |-> "spdu"]

ExchangeCalls == DOMAIN Sends \cup DOMAIN Receives

\* The USART and its DMA serve one exchange at a time, sent in one slice and
\* received in the next one so that the other controller has sent it too.
ExchangeAfterSlice(calls) ==
  LET made == {c \in ExchangeCalls : Contains(calls, c)}
  IN  CASE made = {} /\ sent = "none" -> "none"
        [] \E c \in DOMAIN Sends : made = {c} /\ sent = "none" ->
             Sends[CHOOSE c \in DOMAIN Sends : made = {c}]
        [] \E c \in DOMAIN Receives : made = {c} /\ sent = Receives[c] -> "none"
        [] OTHER -> "broken"

Calls(name) == Contains(SliceCalls(table, blockIdx), name)

\* Mutant: the limit itself counts as too long.
CycleTimeWrong_Reached == sinceLast >= 0 /\ ~(sinceLast \in MinCycle .. MaxCycle - 1)

\* CheckSchedulerTimeout
CycleTimeWrong == sinceLast >= 0 /\ ~(sinceLast \in MinCycle .. MaxCycle)

\* Mutant: slice 38 does not look whether the task is done.
TaskOverdue_Unchecked == Calls("BkgdTaskTrigger") /\ sema

\* SAPL_BkgdTaskTrigger, SAPL_BkgdTaskCheck
TaskOverdue == (Calls("BkgdTaskTrigger") \/ Calls("BkgdTaskCheck")) /\ sema

SliceFails ==
  CASE TaskOverdue                                         -> "BKGD_DELAY_ERR"
    [] ~TaskOverdue /\ Calls("CheckSchedulerTimeout") /\ CycleTimeWrong
                                                           -> "SCHEDULER_TIMEOUT"
    [] Calls("CheckMainExecution") /\ sinceMain > MainTimeout -> "MAIN_TIMEOUT"
    [] OTHER                                               -> "none"

Running == failSafe = "none"

\* TIM1_UP_IRQHandler: aicSm_Statemachine, in slice 39, selects the table of
\* the next cycle.
TIM1_UP_IRQHandler ==
  /\ Running
  /\ due > 0
  /\ due' = 0
  /\ blockIdx' = (blockIdx + 1) % BlockCount
  /\ sent' = ExchangeAfterSlice(SliceCalls(table, blockIdx))
  /\ failSafe' = SliceFails
  /\ IF Calls("Statemachine") THEN table' \in {"startup", "run"} ELSE table' = table
  /\ sema' = (sema \/ Calls("BkgdTaskTrigger"))
  /\ tasks' = IF Calls("BkgdTaskTrigger") THEN 0 ELSE tasks
  /\ sinceLast' = IF Calls("CheckSchedulerTimeout") THEN 0 ELSE sinceLast
  /\ sinceMain' = IF Calls("CheckMainExecution") /\ sinceMain <= MainTimeout
                  THEN sinceMain + 1 ELSE sinceMain
  /\ UNCHANGED <<prompt, main, taskTable, sinceStart, jitter, irqOn>>

-----------------------------------------------------------------------------
(* The main loop *)

MainAt(place, next) ==
  /\ Running
  /\ main = place
  /\ main' = next
  /\ UNCHANGED <<prompt, blockIdx, table, sent, due, sinceLast, jitter, irqOn>>

\* SAPL_BkgdTaskExec up to its loop.
EnterTaskExec ==
  /\ MainAt("enter", "wait")
  /\ sinceStart' = 0
  /\ UNCHANGED <<sema, taskTable, tasks, sinceMain, failSafe>>

\* Mutant: the main loop waits for the trigger without a limit.
TriggerOverdue_Never == FALSE

TriggerOverdue == sinceStart > ActivityTimeout

PollFails ==
  /\ MainAt("wait", "wait")
  /\ ~sema
  /\ TriggerOverdue
  /\ failSafe' = "BKGD_IRQ_MONITOR_ERR"
  /\ UNCHANGED <<sema, taskTable, tasks, sinceMain, sinceStart>>

StartTask ==
  /\ MainAt("wait", "task")
  /\ sema
  /\ taskTable' = table
  /\ sinceStart' = 0
  /\ UNCHANGED <<sema, tasks, sinceMain, failSafe>>

EndTask ==
  /\ MainAt("task", "loop")
  /\ sema' = FALSE
  /\ tasks' = tasks + 1
  /\ UNCHANGED <<taskTable, sinceMain, sinceStart, failSafe>>

\* The rest of the loop of main, up to schAPP_TriggerMainExecTime.
EndLoop ==
  /\ MainAt("loop", "enter")
  /\ sinceMain' = 0
  /\ UNCHANGED <<sema, taskTable, tasks, sinceStart, failSafe>>

MainStep == EnterTaskExec \/ PollFails \/ StartTask \/ EndTask \/ EndLoop

-----------------------------------------------------------------------------
(* Time *)

SinceTrigger == (blockIdx - 7) % BlockCount

\* prompt: the interrupt has been served, the task ends in MaxTask slices and
\* the rest of the loop is done by slice 0 of the next cycle.
TickAllowed ==
  /\ due = 0
  /\ sema => SinceTrigger < MaxTask
  /\ main \in {"loop", "enter"} => SinceTrigger < BlockCount - 7
  /\ ~(main = "wait" /\ TriggerOverdue)

TimePasses ==
  /\ sinceLast' = IF sinceLast >= 0 THEN Later(sinceLast) ELSE sinceLast
  /\ sinceStart' = IF main = "wait" THEN Later(sinceStart) ELSE 0

Tick ==
  /\ Running
  /\ prompt => TickAllowed
  /\ due' = IF irqOn THEN 1 ELSE 0
  /\ irqOn => due = 0
  /\ TimePasses
  /\ UNCHANGED <<prompt, blockIdx, table, sent, sema, main, taskTable, tasks, sinceMain,
                 jitter, irqOn, failSafe>>

\* The interrupt is late, for instance in ipcsSYS_Sync.
Delay ==
  /\ Running
  /\ jitter < IF prompt THEN MaxJitter ELSE FaultJitter
  /\ jitter' = jitter + 1
  /\ TimePasses
  /\ UNCHANGED <<prompt, blockIdx, table, sent, sema, main, taskTable, tasks, due,
                 sinceMain, irqOn, failSafe>>

IrqStops ==
  /\ Running
  /\ ~prompt
  /\ irqOn
  /\ irqOn' = FALSE
  /\ due' = 0
  /\ UNCHANGED <<prompt, blockIdx, table, sent, sema, main, taskTable, tasks, sinceLast,
                 sinceMain, sinceStart, jitter, failSafe>>

\* schAPP_Init, schAPP_StartScheduler
SchedInit ==
  /\ prompt \in BOOLEAN
  /\ blockIdx = 0
  /\ table = "startup"
  /\ sent = "none"
  /\ sema = FALSE
  /\ main = "enter"
  /\ taskTable = "startup"
  /\ tasks = 0
  /\ due = 0
  /\ sinceLast = -1
  /\ sinceMain = 0
  /\ sinceStart = 0
  /\ jitter = 0
  /\ irqOn = TRUE
  /\ failSafe = "none"

SchedNext == TIM1_UP_IRQHandler \/ MainStep \/ Tick \/ Delay \/ IrqStops

\* Time goes on and an interrupt that is pending is served; the main loop gets
\* the processor between two interrupts, and polls its limit there.  Delays and a stop of the timer are
\* faults, and nothing makes the task end in time.
Fairness ==
  /\ WF_schedVars(Tick)
  /\ WF_schedVars(TIM1_UP_IRQHandler)
  /\ WF_schedVars(EnterTaskExec)
  /\ SF_schedVars(PollFails)
  /\ WF_schedVars(StartTask)
  /\ WF_schedVars(EndLoop)

SchedSpec == SchedInit /\ [][SchedNext]_schedVars /\ Fairness

-----------------------------------------------------------------------------

\* Whatever the background task shares with slice 6 (NV memory, telegrams),
\* slice 38 (telegram to the host) and slice 39 (events) is its own while it
\* runs, and the AIC state it has read is still the present one.
TaskOwnsItsWindow ==
  Running /\ main = "task" =>
    /\ blockIdx \in 7 .. 38
    /\ taskTable = table

\* A cycle that reaches its state machine has executed its task exactly once.
OneTaskPerCycle ==
  Running /\ blockIdx = 39 => tasks = 1 /\ ~sema

\* Every exchange is received in the slice after it was sent, before the next
\* one is sent, in both tables and across a change of the table.
ExchangesArePaired == Running => sent # "broken"

\* Task, state machine and exchanges keep the order of the cycle.
CycleInOrder == TaskOwnsItsWindow /\ OneTaskPerCycle /\ ExchangesArePaired

\* A main loop and an interrupt that keep their times never cause an alarm.
NoFalseAlarm == prompt => Running

\* The main loop notices that the interrupt no longer comes, unless it is stuck
\* in the task, which only the interrupt would notice.
StoppedIrqIsNoticed == ~irqOn ~> ~Running \/ main = "task"

=============================================================================
