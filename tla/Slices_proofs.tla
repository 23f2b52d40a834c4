---------------------------- MODULE Slices_proofs ----------------------------
(***************************************************************************)
(* What the timer interrupt does, for every value of the constants.         *)
(*                                                                         *)
(* The scheduler: the window of the background task, and the absence of     *)
(* false alarms.  The lemmas first reduce the tables of calls to the numbers *)
(* of the slices that matter to them.                                       *)
(*                                                                         *)
(* The inputs: the two slices of four that handle them keep the state       *)
(* machines of both controllers in step.  Each function of the code is shown *)
(* to do the same to both copies of the data, in the order of the model;    *)
(* loops over the inputs are followed by induction over their counter.      *)
(***************************************************************************)
EXTENDS Scheduler, DigitalInputs, SequenceTheorems, WellFoundedInduction, TLAPS

-----------------------------------------------------------------------------
(* The scheduler *)

\* The slices of a cycle.
Slices == 0 .. BlockCount - 1

\* A call is in a concatenation when it is in one of its parts.
LEMMA ContainsConcat ==
  ASSUME NEW S, NEW a \in Seq(S), NEW b \in Seq(S), NEW e
  PROVE  Contains(a \o b, e) <=> Contains(a, e) \/ Contains(b, e)
<1>1. /\ Len(a \o b) = Len(a) + Len(b)
      /\ \A i \in 1 .. Len(a) + Len(b) :
           (a \o b)[i] = IF i <= Len(a) THEN a[i] ELSE b[i - Len(a)]
  BY ConcatProperties
<1>2. Len(a) \in Nat /\ Len(b) \in Nat
  OBVIOUS
<1>3. ASSUME Contains(a \o b, e) PROVE Contains(a, e) \/ Contains(b, e)
  <2>1. PICK i \in 1 .. Len(a) + Len(b) : (a \o b)[i] = e
    BY <1>1, <1>3 DEF Contains
  <2>2. CASE i <= Len(a)
    BY <1>1, <1>2, <2>1, <2>2 DEF Contains
  <2>3. CASE ~(i <= Len(a))
    <3>1. i - Len(a) \in 1 .. Len(b) /\ b[i - Len(a)] = e
      BY <1>1, <1>2, <2>1, <2>3
    <3> QED
      BY <3>1 DEF Contains
  <2> QED
    BY <2>2, <2>3
<1>4. ASSUME Contains(a, e) PROVE Contains(a \o b, e)
  <2>1. PICK i \in 1 .. Len(a) : a[i] = e
    BY <1>4 DEF Contains
  <2>2. i \in 1 .. Len(a \o b) /\ (a \o b)[i] = e
    BY <1>1, <1>2, <2>1
  <2> QED
    BY <2>2 DEF Contains
<1>5. ASSUME Contains(b, e) PROVE Contains(a \o b, e)
  <2>1. PICK i \in 1 .. Len(b) : b[i] = e
    BY <1>5 DEF Contains
  <2>2. Len(a) + i \in 1 .. Len(a \o b) /\ (a \o b)[Len(a) + i] = e
    BY <1>1, <1>2, <2>1
  <2> QED
    BY <2>2 DEF Contains
<1> QED
  BY <1>3, <1>4, <1>5

\* The calls that trigger, check and supervise the task and the cycle.
Marks == {"BkgdTaskTrigger", "BkgdTaskCheck", "Statemachine", "CheckSchedulerTimeout",
          "CheckMainExecution"}
\* The slice that makes a marked call.
SliceOf(m) == CASE m = "BkgdTaskTrigger" -> 6 [] m = "Statemachine" -> 39
                [] m = "CheckMainExecution" -> 30 [] OTHER -> 38

\* The calls of a slice of at most three calls.
LEMMA ShortSequences ==
  ASSUME NEW e
  PROVE  /\ ~Contains(<<>>, e)
         /\ \A a : Contains(<<a>>, e) <=> e = a
         /\ \A a, b : Contains(<<a, b>>, e) <=> e \in {a, b}
         /\ \A a, b, c : Contains(<<a, b, c>>, e) <=> e \in {a, b, c}
<1>1. ~Contains(<<>>, e)
  BY DEF Contains
<1>2. ASSUME NEW a PROVE Contains(<<a>>, e) <=> e = a
  BY DEF Contains
<1>3. ASSUME NEW a, NEW b PROVE Contains(<<a, b>>, e) <=> e \in {a, b}
  BY DEF Contains
<1>4. ASSUME NEW a, NEW b, NEW c PROVE Contains(<<a, b, c>>, e) <=> e \in {a, b, c}
  BY DEF Contains
<1> QED
  BY <1>1, <1>2, <1>3, <1>4

\* Short sequences over a set are sequences over it.
LEMMA ShortSequencesOf ==
  ASSUME NEW S
  PROVE  /\ <<>> \in Seq(S)
         /\ \A a \in S : <<a>> \in Seq(S)
         /\ \A a, b \in S : <<a, b>> \in Seq(S)
         /\ \A a, b, c \in S : <<a, b, c>> \in Seq(S)
<1>1. <<>> \in Seq(S)
  OBVIOUS
<1>2. ASSUME NEW a \in S PROVE <<a>> \in Seq(S)
  OBVIOUS
<1>3. ASSUME NEW a \in S, NEW b \in S PROVE <<a, b>> \in Seq(S)
  OBVIOUS
<1>4. ASSUME NEW a \in S, NEW b \in S, NEW c \in S PROVE <<a, b, c>> \in Seq(S)
  OBVIOUS
<1> QED
  BY <1>1, <1>2, <1>3, <1>4

\* The calls of timeSlicesRunMode.
RunCalls ==
  {"SendIo", "GetIo", "ProcessDIs", "ProcessDOs", "SendTimerVal", "DoSelfTests",
   "CheckForNewTgm", "CheckTimerVal", "SetStackVarAndPath", "NvLowHandler", "DoAicSync",
   "Sync", "ProcessTgm", "SampleIoData", "CheckTemperature", "SyncTemperature",
   "SendVar", "RecvAndCheckVar", "SendTimeDiff", "CheckTimeDiff", "SendSafeTgm",
   "RecvSafeTgm", "BuildAsmTgm", "GetOutputData"} \cup Marks

\* A marked call is in exactly one slice of timeSlicesStartup.
LEMMA StartupMarks ==
  ASSUME NEW s \in Slices, NEW m \in Marks
  PROVE  Contains(timeSlicesStartup[s], m) <=> s = SliceOf(m)
<1>1. CASE s = 6
  BY <1>1 DEF Contains, timeSlicesStartup, BlockCount, Marks, SliceOf
<1>2. CASE s = 30
  BY <1>2 DEF Contains, timeSlicesStartup, BlockCount, Marks, SliceOf
<1>3. CASE s = 38
  BY <1>3, ShortSequences DEF timeSlicesStartup, BlockCount, Marks, SliceOf
<1>4. CASE s = 39
  BY <1>4, ShortSequences DEF timeSlicesStartup, BlockCount, Marks, SliceOf
<1>5. CASE s \notin {6, 30, 38, 39}
  <2>1. timeSlicesStartup[s] \in
          {<<>>, <<"OutputsOff">>, <<"CheckTemperature">>, <<"SyncTemperature">>,
           <<"SendVar">>, <<"RecvAndCheckVar">>, <<"CheckForNewTgm">>,
           <<"SendTimeDiff">>, <<"CheckTimeDiff">>, <<"DoSelfTests">>,
           <<"SendTimerVal", "DoSelfTests">>,
           <<"CheckForNewTgm", "CheckTimerVal", "SetStackVarAndPath">>,
           <<"PrepAicSync", "SendAicSync", "OutputsOff">>,
           <<"GetAicSync", "DoAicSync", "Sync">>}
    BY <1>5 DEF timeSlicesStartup, Slices, BlockCount, OutputsOff
  <2>2. ~Contains(timeSlicesStartup[s], m)
    BY <2>1, ShortSequences DEF Marks
  <2>3. s # SliceOf(m)
    BY <1>5 DEF Marks, SliceOf
  <2> QED
    BY <2>2, <2>3
<1> QED
  BY <1>1, <1>2, <1>3, <1>4, <1>5

\* The inputs and outputs hold no marked call.
LEMMA IoMarks ==
  ASSUME NEW s \in Slices, NEW m \in Marks
  PROVE  ~Contains(IoSlice(s), m) /\ IoSlice(s) \in Seq(RunCalls)
<1>1. IoSlice(s) \in {<<>>, <<"SendIo">>, <<"GetIo", "ProcessDIs">>, <<"ProcessDOs">>}
  BY DEF IoSlice, Slices, BlockCount, SendIo, GetIo, ProcessDOs
<1>2. ~Contains(IoSlice(s), m)
  BY <1>1, ShortSequences DEF Marks
<1>3. {<<>>, <<"SendIo">>, <<"GetIo", "ProcessDIs">>, <<"ProcessDOs">>} \subseteq Seq(RunCalls)
  BY DEF RunCalls
<1>4. IoSlice(s) \in Seq(RunCalls)
  BY <1>1, <1>3
<1> QED
  BY <1>2, <1>4

\* A marked call is in exactly one slice of the other calls.
LEMMA OtherMarks ==
  ASSUME NEW s \in Slices, NEW m \in Marks
  PROVE  /\ Contains(OtherRunCalls[s], m) <=> s = SliceOf(m)
         /\ OtherRunCalls[s] \in Seq(RunCalls)
<1>1. CASE s = 6
  <2>1. OtherRunCalls[s] = <<"NvLowHandler", "DoAicSync", "Sync", "ProcessTgm",
                             "SampleIoData", "BkgdTaskTrigger">>
    BY <1>1 DEF OtherRunCalls, BlockCount
  <2>2. Contains(OtherRunCalls[s], m) <=> s = SliceOf(m)
    BY <1>1, <2>1 DEF Contains, Marks, SliceOf
  <2>3. OtherRunCalls[s] \in Seq(RunCalls)
    BY <2>1 DEF RunCalls, Marks
  <2> QED
    BY <2>2, <2>3
<1>2. CASE s = 30
  <2>1. OtherRunCalls[s] = <<"CheckMainExecution">>
    BY <1>2 DEF OtherRunCalls, BlockCount
  <2> QED
    BY <1>2, <2>1, ShortSequences, ShortSequencesOf DEF RunCalls, Marks, SliceOf
<1>3. CASE s = 38
  <2>1. OtherRunCalls[s] = <<"BkgdTaskCheck", "BuildAsmTgm", "CheckSchedulerTimeout">>
    BY <1>3 DEF OtherRunCalls, BlockCount
  <2> QED
    BY <1>3, <2>1, ShortSequences, ShortSequencesOf DEF RunCalls, Marks, SliceOf
<1>4. CASE s = 39
  <2>1. OtherRunCalls[s] = <<"Statemachine", "GetOutputData">>
    BY <1>4 DEF OtherRunCalls, BlockCount
  <2> QED
    BY <1>4, <2>1, ShortSequences, ShortSequencesOf DEF RunCalls, Marks, SliceOf
<1>5. CASE s \notin {6, 30, 38, 39}
  <2>1. OtherRunCalls[s] \in
          {<<>>, <<"CheckTemperature">>, <<"SyncTemperature">>,
           <<"SendVar">>, <<"RecvAndCheckVar">>, <<"CheckForNewTgm">>,
           <<"SendTimeDiff">>, <<"CheckTimeDiff">>, <<"DoSelfTests">>,
           <<"SendSafeTgm">>, <<"RecvSafeTgm">>,
           <<"SendTimerVal", "DoSelfTests">>,
           <<"CheckForNewTgm", "CheckTimerVal", "SetStackVarAndPath">>}
    BY <1>5 DEF OtherRunCalls, Slices, BlockCount
  <2>2. ~Contains(OtherRunCalls[s], m)
    BY <2>1, ShortSequences DEF Marks
  <2>3. {<<>>, <<"CheckTemperature">>, <<"SyncTemperature">>,
           <<"SendVar">>, <<"RecvAndCheckVar">>, <<"CheckForNewTgm">>,
           <<"SendTimeDiff">>, <<"CheckTimeDiff">>, <<"DoSelfTests">>,
           <<"SendSafeTgm">>, <<"RecvSafeTgm">>,
           <<"SendTimerVal", "DoSelfTests">>,
           <<"CheckForNewTgm", "CheckTimerVal", "SetStackVarAndPath">>}
        \subseteq Seq(RunCalls)
    BY DEF RunCalls
  <2>4. OtherRunCalls[s] \in Seq(RunCalls)
    BY <2>1, <2>3
  <2>5. s # SliceOf(m)
    BY <1>5 DEF Marks, SliceOf
  <2> QED
    BY <2>2, <2>4, <2>5
<1> QED
  BY <1>1, <1>2, <1>3, <1>4, <1>5

\* A marked call is in exactly one slice of timeSlicesRunMode, the same one.
LEMMA RunMarks ==
  ASSUME NEW s \in Slices, NEW m \in Marks
  PROVE  Contains(timeSlicesRunMode[s], m) <=> s = SliceOf(m)
<1> DEFINE io == IoSlice(s)
           other == OtherRunCalls[s]
<1>1. timeSlicesRunMode[s] = other \o io \/ timeSlicesRunMode[s] = io \o other
  BY DEF timeSlicesRunMode, Slices
<1>2. io \in Seq(RunCalls) /\ other \in Seq(RunCalls)
  BY IoMarks, OtherMarks
<1>3. /\ ~Contains(io, m)
      /\ Contains(other, m) <=> s = SliceOf(m)
  BY IoMarks, OtherMarks
<1> HIDE DEF io, other
<1>4. /\ Contains(other \o io, m) <=> Contains(other, m) \/ Contains(io, m)
      /\ Contains(io \o other, m) <=> Contains(io, m) \/ Contains(other, m)
  BY <1>2, ContainsConcat
<1> QED
  BY <1>1, <1>3, <1>4

-----------------------------------------------------------------------------
(* The invariants *)

\* The types of the variables.
SchedTypes ==
  /\ prompt \in BOOLEAN
  /\ blockIdx \in Slices
  /\ table \in {"startup", "run"}
  /\ taskTable \in {"startup", "run"}
  /\ sema \in BOOLEAN
  /\ main \in {"enter", "wait", "task", "loop"}
  /\ tasks \in Nat
  /\ due \in {0, 1}
  /\ sinceLast \in -1 .. Horizon
  /\ sinceMain \in Nat
  /\ sinceStart \in 0 .. Horizon
  /\ jitter \in Nat
  /\ irqOn \in BOOLEAN

\* The semaphore is down from the end of the task to the next trigger.
SemaInCycle ==
  Running =>
    /\ main = "task" => sema /\ taskTable = table
    /\ sema => blockIdx \in 7 .. 38 /\ tasks = 0
    /\ ~sema /\ blockIdx \in 7 .. 39 => tasks = 1

\* Slices since the last trigger, and since the last check of the cycle time.
FromTrigger == IF blockIdx >= 7 THEN blockIdx - 7 ELSE blockIdx + 33
FromCheck == IF blockIdx = 39 THEN 0 ELSE blockIdx + 1

\* The places of the main loop between two slices of a prompt system.
PromptPlaces ==
  /\ sema => main \in {"wait", "task"}
  /\ due = 1 /\ sema => blockIdx <= 6 + MaxTask
  /\ due = 1 /\ main \in {"loop", "enter"} => blockIdx \in 7 .. 39

\* What the three supervisions measure in a prompt system.
PromptTimes ==
  /\ jitter <= MaxJitter
  /\ sinceLast >= 0 => sinceLast \in FromCheck + due .. FromCheck + due + jitter
  /\ main = "wait" /\ ~sema => sinceStart <= FromTrigger + due + jitter

\* The main loop misses at most the slice that asks and the one under way.
PromptMainLoop ==
  LET fresh == ~sema /\ main \in {"enter", "wait"}
  IN  /\ blockIdx \in 0 .. 30 =>
           \/ sinceMain <= 1
           \/ blockIdx = 0 /\ main = "loop" /\ due = 0 /\ sinceMain <= 2
      /\ blockIdx \in 7 .. 30 /\ fresh => sinceMain = 0
      /\ blockIdx \in 31 .. 39 => sinceMain <= IF fresh THEN 1 ELSE 2

\* A prompt system runs, and keeps its places and its times.
PromptInv ==
  prompt => Running /\ irqOn /\ PromptPlaces /\ PromptTimes /\ PromptMainLoop

-----------------------------------------------------------------------------
(* One slice in terms of its number *)

\* Both tables make the marked calls in the same slices.
LEMMA CallsAt ==
  ASSUME SchedTypes
  PROVE  \A m \in Marks : Calls(m) <=> blockIdx = SliceOf(m)
<1> TAKE m \in Marks
<1>1. CASE table = "run"
  BY <1>1, RunMarks DEF Calls, SliceCalls, SchedTypes
<1>2. CASE table = "startup"
  BY <1>2, StartupMarks DEF Calls, SliceCalls, SchedTypes
<1> QED
  BY <1>1, <1>2 DEF SchedTypes

\* What the interrupt changes, by the number of the slice.
LEMMA SliceEffects ==
  ASSUME SchedTypes, TIM1_UP_IRQHandler
  PROVE  /\ Running
         /\ due = 1
         /\ due' = 0
         /\ blockIdx' = IF blockIdx = 39 THEN 0 ELSE blockIdx + 1
         /\ table' \in {"startup", "run"}
         /\ blockIdx # 39 => table' = table
         /\ sema' \in BOOLEAN
         /\ sema' <=> sema \/ blockIdx = 6
         /\ tasks' = IF blockIdx = 6 THEN 0 ELSE tasks
         /\ sinceLast' = IF blockIdx = 38 THEN 0 ELSE sinceLast
         /\ sinceMain' = IF blockIdx = 30 /\ sinceMain <= MainTimeout
                         THEN sinceMain + 1 ELSE sinceMain
         /\ UNCHANGED <<prompt, main, taskTable, sinceStart, jitter, irqOn>>
<1>1. /\ Calls("BkgdTaskTrigger") <=> blockIdx = 6
      /\ Calls("CheckSchedulerTimeout") <=> blockIdx = 38
      /\ Calls("CheckMainExecution") <=> blockIdx = 30
      /\ Calls("Statemachine") <=> blockIdx = 39
  BY CallsAt DEF Marks, SliceOf
<1>2. blockIdx' = IF blockIdx = 39 THEN 0 ELSE blockIdx + 1
  BY DEF TIM1_UP_IRQHandler, SchedTypes, Slices, BlockCount
<1>3. due = 1
  BY DEF TIM1_UP_IRQHandler, SchedTypes
<1>4. sema' = (sema \/ Calls("BkgdTaskTrigger"))
  BY DEF TIM1_UP_IRQHandler
<1>5. sema' \in BOOLEAN /\ (sema' <=> sema \/ blockIdx = 6)
  BY <1>1, <1>4, Zenon DEF SchedTypes
<1> QED
  BY <1>1, <1>2, <1>3, <1>5 DEF TIM1_UP_IRQHandler, SchedTypes

\* When the interrupt enters the fail-safe state.
LEMMA SliceVerdict ==
  ASSUME SchedTypes, TIM1_UP_IRQHandler
  PROVE  Running' <=>
           /\ ~(blockIdx \in {6, 38} /\ sema)
           /\ ~(blockIdx = 38 /\ CycleTimeWrong)
           /\ ~(blockIdx = 30 /\ sinceMain > MainTimeout)
<1>1. /\ Calls("BkgdTaskTrigger") <=> blockIdx = 6
      /\ Calls("BkgdTaskCheck") <=> blockIdx = 38
      /\ Calls("CheckSchedulerTimeout") <=> blockIdx = 38
      /\ Calls("CheckMainExecution") <=> blockIdx = 30
  BY CallsAt DEF Marks, SliceOf
<1>2. Running' <=> SliceFails = "none"
  BY DEF TIM1_UP_IRQHandler, Running
<1>3. TaskOverdue <=> blockIdx \in {6, 38} /\ sema
  BY <1>1 DEF TaskOverdue
<1> QED
  BY <1>1, <1>2, <1>3 DEF SliceFails

-----------------------------------------------------------------------------
(* The invariants are kept *)

\* Every step keeps the types.
LEMMA TypesKept ==
  ASSUME SchedTypes, [SchedNext]_schedVars
  PROVE  SchedTypes'
<1>1. CASE TIM1_UP_IRQHandler
  <2>1. sema' \in BOOLEAN
    BY <1>1, SliceEffects
  <2>2. prompt' \in BOOLEAN /\ irqOn' \in BOOLEAN
    BY <1>1, Zenon DEF TIM1_UP_IRQHandler, SchedTypes
  <2> QED
    BY <1>1, <2>1, <2>2, SliceEffects DEF SchedTypes, Slices, BlockCount, Horizon
<1>2. CASE MainStep
  <2>1. sema' \in BOOLEAN
    BY <1>2, Zenon DEF MainStep, EnterTaskExec, PollFails, StartTask, EndTask, EndLoop,
                       SchedTypes
  <2>2. prompt' \in BOOLEAN /\ irqOn' \in BOOLEAN
    BY <1>2, Zenon DEF MainStep, EnterTaskExec, PollFails, StartTask, EndTask, EndLoop,
                       MainAt, SchedTypes
  <2> QED
    BY <1>2, <2>1, <2>2
    DEF MainStep, EnterTaskExec, PollFails, StartTask, EndTask, EndLoop, MainAt,
        SchedTypes, Horizon
<1>3. CASE Tick
  BY <1>3 DEF Tick, TimePasses, Later, SchedTypes, Horizon
<1>4. CASE Delay
  BY <1>4 DEF Delay, TimePasses, Later, SchedTypes, Horizon
<1>5. CASE IrqStops
  BY <1>5 DEF IrqStops, SchedTypes
<1>6. CASE UNCHANGED schedVars
  BY <1>6 DEF schedVars, SchedTypes
<1> QED
  BY <1>1, <1>2, <1>3, <1>4, <1>5, <1>6 DEF SchedNext

\* Every step keeps the order of trigger, task, check and state machine.
LEMMA SemaInCycleKept ==
  ASSUME SchedTypes, SemaInCycle, [SchedNext]_schedVars
  PROVE  SemaInCycle'
<1> SUFFICES ASSUME Running'
             PROVE  /\ main' = "task" => sema' /\ taskTable' = table'
                    /\ sema' => blockIdx' \in 7 .. 38 /\ tasks' = 0
                    /\ ~sema' /\ blockIdx' \in 7 .. 39 => tasks' = 1
  BY DEF SemaInCycle
<1>1. CASE TIM1_UP_IRQHandler
  <2>1. ~(blockIdx \in {6, 38} /\ sema)
    BY <1>1, SliceVerdict
  <2> QED
    BY <1>1, <2>1, SliceEffects DEF SemaInCycle, SchedTypes, Slices, BlockCount
<1>2. CASE EnterTaskExec
  BY <1>2 DEF EnterTaskExec, MainAt, SemaInCycle
<1>3. CASE PollFails
  BY <1>3 DEF PollFails, MainAt, SemaInCycle, Running
<1>4. CASE StartTask
  BY <1>4 DEF StartTask, MainAt, SemaInCycle
<1>5. CASE EndTask
  BY <1>5 DEF EndTask, MainAt, SemaInCycle
<1>6. CASE EndLoop
  BY <1>6 DEF EndLoop, MainAt, SemaInCycle
<1>7. CASE Tick \/ Delay \/ IrqStops \/ UNCHANGED schedVars
  BY <1>7 DEF Tick, Delay, IrqStops, schedVars, SemaInCycle, Running
<1> QED
  BY <1>1, <1>2, <1>3, <1>4, <1>5, <1>6, <1>7 DEF SchedNext, MainStep

-----------------------------------------------------------------------------
(* A prompt system *)

\* The task ends before slice 38, the delays fit the tolerance of the cycle time
\* and the main loop may miss one cycle.
PromptLimits == MaxTask <= 31 /\ MaxJitter <= 4 /\ MainTimeout >= 1

\* The two ways to count slices since the trigger agree.
LEMMA Distances ==
  ASSUME SchedTypes
  PROVE  SinceTrigger = FromTrigger
  BY DEF SchedTypes, Slices, BlockCount, SinceTrigger, FromTrigger

\* No step of a prompt system raises an alarm.
LEMMA PromptStaysRunning ==
  ASSUME PromptLimits, SchedTypes, SemaInCycle, PromptInv, prompt, [SchedNext]_schedVars
  PROVE  Running' /\ irqOn' /\ prompt'
<1>1. Running /\ irqOn /\ PromptPlaces
  BY DEF PromptInv
<1>2. CASE TIM1_UP_IRQHandler
  <2>1. ~(blockIdx \in {6, 38} /\ sema)
    <3>1. due = 1
      BY <1>2, SliceEffects
    <3>2. MaxTask \in Nat /\ MaxTask <= 31
      BY TimesAssumption DEF PromptLimits
    <3>3. sema => blockIdx \in 7 .. 38 /\ blockIdx <= 6 + MaxTask
      BY <1>1, <3>1 DEF PromptPlaces, SemaInCycle
    <3> QED
      BY <3>2, <3>3
  <2>2. ~(blockIdx = 38 /\ CycleTimeWrong)
    BY <1>2, SliceEffects, TimesAssumption
    DEF PromptInv, PromptTimes, FromCheck, CycleTimeWrong, MinCycle, MaxCycle,
        PromptLimits, SchedTypes
  <2>3. ~(blockIdx = 30 /\ sinceMain > MainTimeout)
    BY <1>2, SliceEffects, TimesAssumption
    DEF PromptInv, PromptMainLoop, PromptLimits, SchedTypes
  <2>4. Running'
    BY <1>2, <2>1, <2>2, <2>3, SliceVerdict
  <2> QED
    BY <1>1, <1>2, <2>4 DEF TIM1_UP_IRQHandler
<1>3. CASE PollFails
  BY <1>3, TimesAssumption
  DEF PollFails, MainAt, TriggerOverdue, ActivityTimeout, PromptInv, PromptTimes,
      FromTrigger, PromptLimits, SchedTypes, Slices, BlockCount
<1>4. CASE EnterTaskExec \/ StartTask \/ EndTask \/ EndLoop
  BY <1>1, <1>4 DEF EnterTaskExec, StartTask, EndTask, EndLoop, MainAt, Running
<1>5. CASE Tick \/ Delay \/ IrqStops \/ UNCHANGED schedVars
  BY <1>1, <1>5 DEF Tick, Delay, IrqStops, schedVars, Running
<1> QED
  BY <1>2, <1>3, <1>4, <1>5 DEF SchedNext, MainStep

\* Every step of a prompt system keeps the places of its main loop.
LEMMA PromptPlacesKept ==
  ASSUME PromptLimits, SchedTypes, SemaInCycle, PromptInv, prompt, [SchedNext]_schedVars
  PROVE  PromptPlaces'
<1>1. PromptPlaces /\ Running
  BY DEF PromptInv
<1>2. CASE TIM1_UP_IRQHandler
  <2>1. sema' <=> sema \/ blockIdx = 6
    BY <1>2, SliceEffects
  <2>2. due = 1 /\ due' = 0 /\ main' = main
    BY <1>2, SliceEffects
  <2> QED
    BY <1>1, <2>1, <2>2 DEF PromptPlaces, SchedTypes
<1>3. CASE EnterTaskExec
  BY <1>1, <1>3 DEF EnterTaskExec, MainAt, PromptPlaces
<1>4. CASE PollFails
  BY <1>1, <1>4 DEF PollFails, MainAt, PromptPlaces
<1>5. CASE StartTask
  BY <1>1, <1>5 DEF StartTask, MainAt, PromptPlaces
<1>6. CASE EndTask
  BY <1>1, <1>6 DEF EndTask, MainAt, PromptPlaces, SemaInCycle
<1>7. CASE EndLoop
  BY <1>1, <1>7 DEF EndLoop, MainAt, PromptPlaces
<1>8. CASE Tick
  <2>1. /\ sema => FromTrigger < MaxTask
        /\ main \in {"loop", "enter"} => FromTrigger < 33
    BY <1>8, Distances DEF Tick, TickAllowed, BlockCount
  <2> QED
    BY <1>1, <1>8, <2>1, TimesAssumption
    DEF Tick, PromptPlaces, FromTrigger, SemaInCycle, SchedTypes, Slices, BlockCount
<1>9. CASE Delay
  BY <1>1, <1>9 DEF Delay, PromptPlaces
<1>10. CASE IrqStops
  BY <1>10 DEF IrqStops
<1>11. CASE UNCHANGED schedVars
  BY <1>1, <1>11 DEF schedVars, PromptPlaces
<1> QED
  BY <1>2, <1>3, <1>4, <1>5, <1>6, <1>7, <1>8, <1>9, <1>10, <1>11
  DEF SchedNext, MainStep

\* Every step of a prompt system keeps the bounds of the measured times.
LEMMA PromptTimesKept ==
  ASSUME PromptLimits, SchedTypes, PromptInv, prompt, [SchedNext]_schedVars
  PROVE  PromptTimes'
<1>1. PromptTimes /\ irqOn
  BY DEF PromptInv
<1>2. MaxJitter \in Nat /\ MaxJitter <= 4
  BY TimesAssumption DEF PromptLimits
<1>3. CASE TIM1_UP_IRQHandler
  <2>1. /\ due = 1 /\ due' = 0
        /\ blockIdx' = IF blockIdx = 39 THEN 0 ELSE blockIdx + 1
        /\ sinceLast' = IF blockIdx = 38 THEN 0 ELSE sinceLast
        /\ UNCHANGED <<main, sinceStart, jitter>>
    BY <1>3, SliceEffects
  <2>2. sema' <=> sema \/ blockIdx = 6
    BY <1>3, SliceEffects
  <2>3. blockIdx \in 0 .. 39 /\ sinceLast \in -1 .. 45 /\ jitter \in Nat /\ sinceStart \in Nat
    BY DEF SchedTypes, Slices, BlockCount, Horizon
  <2>4. jitter' <= MaxJitter
    BY <1>1, <2>1 DEF PromptTimes
  <2>5. sinceLast' >= 0 => sinceLast' \in FromCheck' + due' .. FromCheck' + due' + jitter'
    BY <1>1, <2>1, <2>3 DEF PromptTimes, FromCheck
  <2>6. main' = "wait" /\ ~sema' => sinceStart' <= FromTrigger' + due' + jitter'
    BY <1>1, <2>1, <2>2, <2>3 DEF PromptTimes, FromTrigger
  <2> QED
    BY <2>4, <2>5, <2>6 DEF PromptTimes
<1>4. CASE EnterTaskExec
  BY <1>1, <1>4 DEF EnterTaskExec, MainAt, PromptTimes, FromCheck, FromTrigger,
                    SchedTypes, Slices, BlockCount
<1>5. CASE PollFails
  BY <1>1, <1>5 DEF PollFails, MainAt, PromptTimes, FromCheck, FromTrigger
<1>6. CASE StartTask
  BY <1>1, <1>6 DEF StartTask, MainAt, PromptTimes, FromCheck, FromTrigger
<1>7. CASE EndTask
  BY <1>1, <1>7 DEF EndTask, MainAt, PromptTimes, FromCheck, FromTrigger
<1>8. CASE EndLoop
  BY <1>1, <1>8 DEF EndLoop, MainAt, PromptTimes, FromCheck, FromTrigger
<1>9. CASE Tick
  BY <1>1, <1>2, <1>9
  DEF Tick, TimePasses, Later, Horizon, PromptTimes, FromCheck, FromTrigger, SchedTypes,
      Slices, BlockCount
<1>10. CASE Delay
  BY <1>1, <1>2, <1>10
  DEF Delay, TimePasses, Later, Horizon, PromptTimes, FromCheck, FromTrigger, SchedTypes,
      Slices, BlockCount
<1>11. CASE IrqStops
  BY <1>11 DEF IrqStops
<1>12. CASE UNCHANGED schedVars
  BY <1>1, <1>12 DEF schedVars, PromptTimes, FromCheck, FromTrigger
<1> QED
  BY <1>3, <1>4, <1>5, <1>6, <1>7, <1>8, <1>9, <1>10, <1>11, <1>12
  DEF SchedNext, MainStep

\* Every step of a prompt system keeps the bounds of the missed cycles.
LEMMA PromptMainLoopKept ==
  ASSUME SchedTypes, SemaInCycle, PromptInv, prompt, [SchedNext]_schedVars
  PROVE  PromptMainLoop'
<1>1. PromptMainLoop /\ PromptPlaces /\ Running
  BY DEF PromptInv
<1>2. CASE TIM1_UP_IRQHandler
  <2>1. /\ due = 1 /\ due' = 0 /\ main' = main
        /\ blockIdx' = IF blockIdx = 39 THEN 0 ELSE blockIdx + 1
        /\ sinceMain' = IF blockIdx = 30 /\ sinceMain <= MainTimeout
                        THEN sinceMain + 1 ELSE sinceMain
    BY <1>2, SliceEffects
  <2>2. sema' <=> sema \/ blockIdx = 6
    BY <1>2, SliceEffects
  <2>3. blockIdx \in 0 .. 39 /\ sinceMain \in Nat
    BY DEF SchedTypes, Slices, BlockCount
  <2>4. /\ sema => blockIdx \in 7 .. 38 /\ main \in {"wait", "task"}
        /\ main \in {"loop", "enter"} => blockIdx \in 7 .. 39
        /\ main = "task" => sema
        /\ main \in {"enter", "wait", "task", "loop"}
    BY <1>1, <2>1 DEF PromptPlaces, SemaInCycle, SchedTypes
  <2>5. blockIdx' \in 0 .. 30 =>
           \/ sinceMain' <= 1
           \/ blockIdx' = 0 /\ main' = "loop" /\ due' = 0 /\ sinceMain' <= 2
    BY <1>1, <2>1, <2>3, <2>4 DEF PromptMainLoop
  <2>6. blockIdx' \in 7 .. 30 /\ ~sema' /\ main' \in {"enter", "wait"} => sinceMain' = 0
    BY <1>1, <2>1, <2>2, <2>3, <2>4 DEF PromptMainLoop
  <2>7. blockIdx' \in 31 .. 39 =>
           sinceMain' <= IF ~sema' /\ main' \in {"enter", "wait"} THEN 1 ELSE 2
    BY <1>1, <2>1, <2>2, <2>3, <2>4 DEF PromptMainLoop
  <2> QED
    BY <2>5, <2>6, <2>7 DEF PromptMainLoop
<1>3. CASE EnterTaskExec
  BY <1>1, <1>3 DEF EnterTaskExec, MainAt, PromptMainLoop
<1>4. CASE PollFails
  BY <1>1, <1>4 DEF PollFails, MainAt, PromptMainLoop
<1>5. CASE StartTask
  BY <1>1, <1>5 DEF StartTask, MainAt, PromptMainLoop
<1>6. CASE EndTask
  BY <1>1, <1>6 DEF EndTask, MainAt, PromptMainLoop, SemaInCycle
<1>7. CASE EndLoop
  BY <1>1, <1>7 DEF EndLoop, MainAt, PromptMainLoop
<1>8. CASE Tick
  <2>1. main = "loop" => blockIdx # 0
    BY <1>8, Distances DEF Tick, TickAllowed, BlockCount, FromTrigger
  <2> QED
    BY <1>1, <1>8, <2>1 DEF Tick, PromptMainLoop
<1>9. CASE Delay
  BY <1>1, <1>9 DEF Delay, PromptMainLoop
<1>10. CASE IrqStops
  BY <1>10 DEF IrqStops
<1>11. CASE UNCHANGED schedVars
  BY <1>1, <1>11 DEF schedVars, PromptMainLoop
<1> QED
  BY <1>2, <1>3, <1>4, <1>5, <1>6, <1>7, <1>8, <1>9, <1>10, <1>11
  DEF SchedNext, MainStep

\* Every step keeps what holds of a prompt system.
LEMMA PromptInvKept ==
  ASSUME PromptLimits, SchedTypes, SemaInCycle, PromptInv, [SchedNext]_schedVars
  PROVE  PromptInv'
<1> SUFFICES ASSUME prompt'
             PROVE  Running' /\ irqOn' /\ PromptPlaces' /\ PromptTimes' /\ PromptMainLoop'
  BY DEF PromptInv
<1>1. prompt' = prompt
  BY DEF SchedNext, TIM1_UP_IRQHandler, MainStep, EnterTaskExec, PollFails, StartTask,
         EndTask, EndLoop, MainAt, Tick, Delay, IrqStops, schedVars
<1>2. prompt
  BY <1>1
<1>3. Running' /\ irqOn'
  BY <1>2, PromptStaysRunning
<1>4. PromptPlaces' /\ PromptTimes' /\ PromptMainLoop'
  BY <1>2, PromptPlacesKept, PromptTimesKept, PromptMainLoopKept
<1> QED
  BY <1>3, <1>4

-----------------------------------------------------------------------------
(* The exchanges with the other controller *)

\* The exchange call of a slice: beside the inputs and outputs, of these, and of
\* a table.
OtherExchange(s) ==
  CASE s = 2 -> "SendTimerVal"
    [] s = 3 -> "CheckTimerVal"
    [] s = 10 -> "CheckTemperature"
    [] s = 11 -> "SyncTemperature"
    [] s = 14 -> "SendVar"
    [] s = 15 -> "RecvAndCheckVar"
    [] s = 18 -> "SendTimeDiff"
    [] s = 19 -> "CheckTimeDiff"
    [] s = 34 -> "SendSafeTgm"
    [] s = 35 -> "RecvSafeTgm"
    [] OTHER -> "none"

\* The exchange calls of slice s: of the inputs and outputs, and those of the
\* tables timeSlicesStartup and timeSlicesRunMode.
IoExchange(s) ==
  CASE s % 4 = 0 /\ s <= 36 -> "SendIo"
    [] s % 4 = 1 /\ s <= 37 -> "GetIo"
    [] OTHER -> "none"

StartupExchange(s) ==
  CASE s = 4 -> "SendAicSync"
    [] s = 5 -> "GetAicSync"
    [] s \in {34, 35} -> "none"
    [] OTHER -> OtherExchange(s)

\* A slice of timeSlicesStartup makes at most one exchange call.
LEMMA StartupExchanges ==
  ASSUME NEW s \in Slices, NEW e \in ExchangeCalls
  PROVE  Contains(timeSlicesStartup[s], e) <=> e = StartupExchange(s)
<1>1. CASE s = 2
  <2>1. timeSlicesStartup[s] = <<"SendTimerVal", "DoSelfTests">>
    BY <1>1 DEF timeSlicesStartup, BlockCount
  <2> QED
    BY <1>1, <2>1, ShortSequences DEF ExchangeCalls, Sends, Receives,
        StartupExchange, OtherExchange
<1>2. CASE s = 3
  <2>1. timeSlicesStartup[s] = <<"CheckForNewTgm", "CheckTimerVal", "SetStackVarAndPath">>
    BY <1>2 DEF timeSlicesStartup, BlockCount, OutputsOff
  <2>2. Contains(timeSlicesStartup[s], e) <=>
           e \in {"CheckForNewTgm", "CheckTimerVal", "SetStackVarAndPath"}
    BY <2>1, ShortSequences
  <2> QED
    BY <1>2, <2>2 DEF ExchangeCalls, Sends, Receives,
        StartupExchange, OtherExchange
<1>3. CASE s = 4
  <2>1. timeSlicesStartup[s] = <<"PrepAicSync", "SendAicSync", "OutputsOff">>
    BY <1>3 DEF timeSlicesStartup, BlockCount, OutputsOff
  <2>2. Contains(timeSlicesStartup[s], e) <=> e \in {"PrepAicSync", "SendAicSync", "OutputsOff"}
    BY <2>1, ShortSequences
  <2> QED
    BY <1>3, <2>2 DEF ExchangeCalls, Sends, Receives,
        StartupExchange, OtherExchange
<1>4. CASE s = 5
  <2>1. timeSlicesStartup[s] = <<"GetAicSync", "DoAicSync", "Sync">>
    BY <1>4 DEF timeSlicesStartup, BlockCount
  <2>2. Contains(timeSlicesStartup[s], e) <=> e \in {"GetAicSync", "DoAicSync", "Sync"}
    BY <2>1, ShortSequences
  <2> QED
    BY <1>4, <2>2 DEF ExchangeCalls, Sends, Receives, StartupExchange, OtherExchange
<1>5. CASE s = 10
  <2>1. timeSlicesStartup[s] = <<"CheckTemperature">>
    BY <1>5 DEF timeSlicesStartup, BlockCount
  <2>2. Contains(timeSlicesStartup[s], e) <=> e = "CheckTemperature"
    BY <2>1, ShortSequences
  <2>3. StartupExchange(s) = "CheckTemperature"
    BY <1>5 DEF StartupExchange, OtherExchange
  <2> QED
    BY <2>2, <2>3
<1>6. CASE s = 11
  <2>1. timeSlicesStartup[s] = <<"SyncTemperature">>
    BY <1>6 DEF timeSlicesStartup, BlockCount
  <2> QED
    BY <1>6, <2>1, ShortSequences DEF ExchangeCalls, Sends, Receives,
        StartupExchange, OtherExchange
<1>7. CASE s = 14
  <2>1. timeSlicesStartup[s] = <<"SendVar">>
    BY <1>7 DEF timeSlicesStartup, BlockCount
  <2> QED
    BY <1>7, <2>1, ShortSequences DEF ExchangeCalls, Sends, Receives,
        StartupExchange, OtherExchange
<1>8. CASE s = 15
  <2>1. timeSlicesStartup[s] = <<"RecvAndCheckVar">>
    BY <1>8 DEF timeSlicesStartup, BlockCount
  <2> QED
    BY <1>8, <2>1, ShortSequences DEF ExchangeCalls, Sends, Receives,
        StartupExchange, OtherExchange
<1>9. CASE s = 18
  <2>1. timeSlicesStartup[s] = <<"SendTimeDiff">>
    BY <1>9 DEF timeSlicesStartup, BlockCount
  <2> QED
    BY <1>9, <2>1, ShortSequences DEF ExchangeCalls, Sends, Receives,
        StartupExchange, OtherExchange
<1>10. CASE s = 19
  <2>1. timeSlicesStartup[s] = <<"CheckTimeDiff">>
    BY <1>10 DEF timeSlicesStartup, BlockCount
  <2> QED
    BY <1>10, <2>1, ShortSequences DEF ExchangeCalls, Sends, Receives,
        StartupExchange, OtherExchange
<1>11. CASE s = 6
  <2>1. timeSlicesStartup[s] = <<"NvLowHandler", "ProcessTgm", "ResetIoData", "BkgdTaskTrigger">>
    BY <1>11 DEF timeSlicesStartup, BlockCount
  <2> QED
    BY <1>11, <2>1 DEF Contains, ExchangeCalls, Sends, Receives,
        StartupExchange, OtherExchange
<1>12. CASE s \notin {2, 3, 4, 5, 10, 11, 14, 15, 18, 19, 6}
  <2>1. timeSlicesStartup[s] \in
          {<<>>, <<"OutputsOff">>, <<"CheckForNewTgm">>, <<"DoSelfTests">>, <<"Statemachine">>,
           <<"CheckForNewTgm", "CheckMainExecution">>,
           <<"BkgdTaskCheck", "BuildAsmTgm", "CheckSchedulerTimeout">>}
    BY <1>12 DEF timeSlicesStartup, Slices, BlockCount, OutputsOff
  <2>2. ~Contains(timeSlicesStartup[s], e)
    BY <2>1, ShortSequences DEF ExchangeCalls, Sends, Receives
  <2>3. StartupExchange(s) = "none"
    BY <1>12 DEF StartupExchange, OtherExchange
  <2>4. e # "none"
    BY DEF ExchangeCalls, Sends, Receives
  <2> QED
    BY <2>2, <2>3, <2>4
<1> QED
  BY <1>1, <1>2, <1>3, <1>4, <1>5, <1>6, <1>7, <1>8, <1>9, <1>10, <1>11, <1>12

\* A slice of the other calls of timeSlicesRunMode makes at most one.
LEMMA OtherExchanges ==
  ASSUME NEW s \in Slices, NEW e \in ExchangeCalls
  PROVE  Contains(OtherRunCalls[s], e) <=> e = OtherExchange(s)
<1>1. CASE s = 2
  <2>1. OtherRunCalls[s] = <<"SendTimerVal", "DoSelfTests">>
    BY <1>1 DEF OtherRunCalls, BlockCount
  <2> QED
    BY <1>1, <2>1, ShortSequences DEF ExchangeCalls, Sends, Receives, OtherExchange
<1>2. CASE s = 3
  <2>1. OtherRunCalls[s] = <<"CheckForNewTgm", "CheckTimerVal", "SetStackVarAndPath">>
    BY <1>2 DEF OtherRunCalls, BlockCount, OutputsOff
  <2>2. Contains(OtherRunCalls[s], e) <=>
           e \in {"CheckForNewTgm", "CheckTimerVal", "SetStackVarAndPath"}
    BY <2>1, ShortSequences
  <2> QED
    BY <1>2, <2>2 DEF ExchangeCalls, Sends, Receives, OtherExchange
<1>3. CASE s = 10
  <2>1. OtherRunCalls[s] = <<"CheckTemperature">>
    BY <1>3 DEF OtherRunCalls, BlockCount
  <2> QED
    BY <1>3, <2>1, ShortSequences DEF ExchangeCalls, Sends, Receives, OtherExchange
<1>4. CASE s = 11
  <2>1. OtherRunCalls[s] = <<"SyncTemperature">>
    BY <1>4 DEF OtherRunCalls, BlockCount
  <2> QED
    BY <1>4, <2>1, ShortSequences DEF ExchangeCalls, Sends, Receives, OtherExchange
<1>5. CASE s = 14
  <2>1. OtherRunCalls[s] = <<"SendVar">>
    BY <1>5 DEF OtherRunCalls, BlockCount
  <2> QED
    BY <1>5, <2>1, ShortSequences DEF ExchangeCalls, Sends, Receives, OtherExchange
<1>6. CASE s = 15
  <2>1. OtherRunCalls[s] = <<"RecvAndCheckVar">>
    BY <1>6 DEF OtherRunCalls, BlockCount
  <2> QED
    BY <1>6, <2>1, ShortSequences DEF ExchangeCalls, Sends, Receives, OtherExchange
<1>7. CASE s = 18
  <2>1. OtherRunCalls[s] = <<"SendTimeDiff">>
    BY <1>7 DEF OtherRunCalls, BlockCount
  <2> QED
    BY <1>7, <2>1, ShortSequences DEF ExchangeCalls, Sends, Receives, OtherExchange
<1>8. CASE s = 19
  <2>1. OtherRunCalls[s] = <<"CheckTimeDiff">>
    BY <1>8 DEF OtherRunCalls, BlockCount
  <2> QED
    BY <1>8, <2>1, ShortSequences DEF ExchangeCalls, Sends, Receives, OtherExchange
<1>9. CASE s = 34
  <2>1. OtherRunCalls[s] = <<"SendSafeTgm">>
    BY <1>9 DEF OtherRunCalls, BlockCount
  <2> QED
    BY <1>9, <2>1, ShortSequences DEF ExchangeCalls, Sends, Receives, OtherExchange
<1>10. CASE s = 35
  <2>1. OtherRunCalls[s] = <<"RecvSafeTgm">>
    BY <1>10 DEF OtherRunCalls, BlockCount
  <2> QED
    BY <1>10, <2>1, ShortSequences DEF ExchangeCalls, Sends, Receives, OtherExchange
<1>11. CASE s = 6
  <2>1. OtherRunCalls[s] = <<"NvLowHandler", "DoAicSync", "Sync", "ProcessTgm",
                              "SampleIoData", "BkgdTaskTrigger">>
    BY <1>11 DEF OtherRunCalls, BlockCount
  <2> QED
    BY <1>11, <2>1 DEF Contains, ExchangeCalls, Sends, Receives, OtherExchange
<1>12. CASE s \notin {2, 3, 10, 11, 14, 15, 18, 19, 34, 35, 6}
  <2>1. OtherRunCalls[s] \in
          {<<>>, <<"CheckForNewTgm">>, <<"DoSelfTests">>, <<"CheckMainExecution">>,
           <<"BkgdTaskCheck", "BuildAsmTgm", "CheckSchedulerTimeout">>,
           <<"Statemachine", "GetOutputData">>}
    BY <1>12 DEF OtherRunCalls, Slices, BlockCount
  <2>2. ~Contains(OtherRunCalls[s], e)
    BY <2>1, ShortSequences DEF ExchangeCalls, Sends, Receives
  <2>3. OtherExchange(s) = "none"
    BY <1>12 DEF OtherExchange
  <2>4. e # "none"
    BY DEF ExchangeCalls, Sends, Receives
  <2> QED
    BY <2>2, <2>3, <2>4
<1> QED
  BY <1>1, <1>2, <1>3, <1>4, <1>5, <1>6, <1>7, <1>8, <1>9, <1>10, <1>11, <1>12

\* The inputs and outputs are exchanged in the slices divisible by four.
LEMMA IoExchanges ==
  ASSUME NEW s \in Slices, NEW e \in ExchangeCalls
  PROVE  Contains(IoSlice(s), e) <=> e = IoExchange(s)
<1>1. CASE s % 4 = 0 /\ s <= 36
  BY <1>1, ShortSequences DEF IoSlice, IoExchange, SendIo, ExchangeCalls, Sends, Receives
<1>2. CASE s % 4 = 1 /\ s <= 37
  <2>1. IoSlice(s) = <<"GetIo", "ProcessDIs">> /\ IoExchange(s) = "GetIo"
    BY <1>2 DEF IoSlice, GetIo, IoExchange
  <2> QED
    BY <2>1, ShortSequences DEF ExchangeCalls, Sends, Receives
<1>3. CASE ~(s % 4 = 0 /\ s <= 36) /\ ~(s % 4 = 1 /\ s <= 37)
  <2>1. IoSlice(s) \in {<<>>, <<"ProcessDOs">>} /\ IoExchange(s) = "none"
    BY <1>3 DEF IoSlice, ProcessDOs, IoExchange
  <2> QED
    BY <2>1, ShortSequences DEF ExchangeCalls, Sends, Receives
<1> QED
  BY <1>1, <1>2, <1>3

RunExchange(s) == IF s % 4 \in {0, 1} THEN IoExchange(s) ELSE OtherExchange(s)

\* So does a slice of timeSlicesRunMode.
LEMMA RunExchanges ==
  ASSUME NEW s \in Slices, NEW e \in ExchangeCalls
  PROVE  Contains(timeSlicesRunMode[s], e) <=> e = RunExchange(s)
<1> DEFINE io == IoSlice(s)
           other == OtherRunCalls[s]
<1>1. timeSlicesRunMode[s] = other \o io \/ timeSlicesRunMode[s] = io \o other
  BY DEF timeSlicesRunMode, Slices
<1>2. io \in Seq(RunCalls) /\ other \in Seq(RunCalls)
  BY IoMarks, OtherMarks DEF Marks
<1>3. /\ Contains(io, e) <=> e = IoExchange(s)
      /\ Contains(other, e) <=> e = OtherExchange(s)
  BY IoExchanges, OtherExchanges
<1>4. e = IoExchange(s) \/ e = OtherExchange(s) <=> e = RunExchange(s)
  <2>1. e # "none"
    BY DEF ExchangeCalls, Sends, Receives
  <2>2. CASE s % 4 \in {0, 1}
    <3>1. OtherExchange(s) = "none"
      BY <2>2 DEF OtherExchange
    <3> QED
      BY <2>1, <2>2, <3>1 DEF RunExchange
  <2>3. CASE s % 4 \notin {0, 1}
    <3>1. IoExchange(s) = "none"
      BY <2>3 DEF IoExchange
    <3> QED
      BY <2>1, <2>3, <3>1 DEF RunExchange
  <2> QED
    BY <2>2, <2>3
<1> HIDE DEF io, other
<1>5. /\ Contains(other \o io, e) <=> Contains(other, e) \/ Contains(io, e)
      /\ Contains(io \o other, e) <=> Contains(io, e) \/ Contains(other, e)
  BY <1>2, ContainsConcat
<1> QED
  BY <1>1, <1>3, <1>4, <1>5

\* The exchange under way before a slice.
Pending(b) ==
  CASE table = "run" /\ b % 4 = 1 /\ b <= 37 -> "io"
    [] table = "startup" /\ b = 5 -> "io"
    [] b = 3 -> "timer"
    [] b = 11 -> "temperature"
    [] b = 15 -> "var"
    [] b = 19 -> "diff"
    [] table = "run" /\ b = 35 -> "spdu"
    [] OTHER -> "none"

\* A running controller has sent just what the table of slices says.
ExchangeInStep == Running => sent = Pending(blockIdx)

\* Before a slice that makes the exchange call e, what e ends is pending; after
\* it, what e begins.
PairsAt(e, s) ==
  /\ e \in {"none"} \cup DOMAIN Sends \cup DOMAIN Receives
  /\ e = "none" => Pending(s) = "none" /\ (s # 39 => Pending(s + 1) = "none")
  /\ e \in DOMAIN Sends => Pending(s) = "none" /\ s # 39 /\ Pending(s + 1) = Sends[e]
  /\ e \in DOMAIN Receives => Pending(s) = Receives[e] /\ s # 39 /\ Pending(s + 1) = "none"

\* The exchange call of a slice of the run fits what is pending.
LEMMA RunPairs ==
  ASSUME NEW s \in Slices, table = "run"
  PROVE  PairsAt(RunExchange(s), s)
<1>1. s \in 0 .. 39 /\ table = "run"
  BY DEF Slices, BlockCount
<1>2. CASE s % 4 = 0 /\ s <= 36
  <2>1. RunExchange(s) = "SendIo"
    BY <1>1, <1>2 DEF RunExchange, IoExchange, OtherExchange
  <2> QED
    BY <1>1, <1>2, <2>1 DEF PairsAt, Pending, Sends, Receives
<1>3. CASE s % 4 = 1 /\ s <= 37
  <2>1. RunExchange(s) = "GetIo"
    BY <1>1, <1>3 DEF RunExchange, IoExchange, OtherExchange
  <2> QED
    BY <1>1, <1>3, <2>1 DEF PairsAt, Pending, Sends, Receives
<1>4. CASE s = 2
  <2>1. RunExchange(s) = "SendTimerVal"
    BY <1>1, <1>4 DEF RunExchange, IoExchange, OtherExchange
  <2> QED
    BY <1>1, <1>4, <2>1 DEF PairsAt, Pending, Sends, Receives
<1>5. CASE s = 3
  <2>1. RunExchange(s) = "CheckTimerVal"
    BY <1>1, <1>5 DEF RunExchange, IoExchange, OtherExchange
  <2> QED
    BY <1>1, <1>5, <2>1 DEF PairsAt, Pending, Sends, Receives
<1>6. CASE s = 10
  <2>1. RunExchange(s) = "CheckTemperature"
    BY <1>1, <1>6 DEF RunExchange, IoExchange, OtherExchange
  <2> QED
    BY <1>1, <1>6, <2>1 DEF PairsAt, Pending, Sends, Receives
<1>7. CASE s = 11
  <2>1. RunExchange(s) = "SyncTemperature"
    BY <1>1, <1>7 DEF RunExchange, IoExchange, OtherExchange
  <2> QED
    BY <1>1, <1>7, <2>1 DEF PairsAt, Pending, Sends, Receives
<1>8. CASE s = 14
  <2>1. RunExchange(s) = "SendVar"
    BY <1>1, <1>8 DEF RunExchange, IoExchange, OtherExchange
  <2> QED
    BY <1>1, <1>8, <2>1 DEF PairsAt, Pending, Sends, Receives
<1>9. CASE s = 15
  <2>1. RunExchange(s) = "RecvAndCheckVar"
    BY <1>1, <1>9 DEF RunExchange, IoExchange, OtherExchange
  <2> QED
    BY <1>1, <1>9, <2>1 DEF PairsAt, Pending, Sends, Receives
<1>10. CASE s = 18
  <2>1. RunExchange(s) = "SendTimeDiff"
    BY <1>1, <1>10 DEF RunExchange, IoExchange, OtherExchange
  <2> QED
    BY <1>1, <1>10, <2>1 DEF PairsAt, Pending, Sends, Receives
<1>11. CASE s = 19
  <2>1. RunExchange(s) = "CheckTimeDiff"
    BY <1>1, <1>11 DEF RunExchange, IoExchange, OtherExchange
  <2> QED
    BY <1>1, <1>11, <2>1 DEF PairsAt, Pending, Sends, Receives
<1>12. CASE s = 34
  <2>1. RunExchange(s) = "SendSafeTgm"
    BY <1>1, <1>12 DEF RunExchange, IoExchange, OtherExchange
  <2> QED
    BY <1>1, <1>12, <2>1 DEF PairsAt, Pending, Sends, Receives
<1>13. CASE s = 35
  <2>1. RunExchange(s) = "RecvSafeTgm"
    BY <1>1, <1>13 DEF RunExchange, IoExchange, OtherExchange
  <2> QED
    BY <1>1, <1>13, <2>1 DEF PairsAt, Pending, Sends, Receives
<1>14. CASE s % 4 \in {2, 3} /\ s \notin {2, 3, 10, 11, 14, 15, 18, 19, 34, 35}
  <2>1. RunExchange(s) = "none"
    BY <1>1, <1>14 DEF RunExchange, IoExchange, OtherExchange
  <2> QED
    BY <1>1, <1>14, <2>1 DEF PairsAt, Pending, Sends, Receives
<1> QED
  BY <1>1, <1>2, <1>3, <1>4, <1>5, <1>6, <1>7, <1>8, <1>9, <1>10, <1>11, <1>12, <1>13, <1>14

\* So does a slice of the start.
LEMMA StartupPairs ==
  ASSUME NEW s \in Slices, table = "startup"
  PROVE  PairsAt(StartupExchange(s), s)
<1>1. s \in 0 .. 39 /\ table = "startup"
  BY DEF Slices, BlockCount
<1>2. CASE s = 4
  <2>1. StartupExchange(s) = "SendAicSync"
    BY <1>1, <1>2 DEF StartupExchange, OtherExchange
  <2> QED
    BY <1>1, <1>2, <2>1 DEF PairsAt, Pending, Sends, Receives
<1>3. CASE s = 5
  <2>1. StartupExchange(s) = "GetAicSync"
    BY <1>1, <1>3 DEF StartupExchange, OtherExchange
  <2> QED
    BY <1>1, <1>3, <2>1 DEF PairsAt, Pending, Sends, Receives
<1>4. CASE s = 2
  <2>1. StartupExchange(s) = "SendTimerVal"
    BY <1>1, <1>4 DEF StartupExchange, OtherExchange
  <2> QED
    BY <1>1, <1>4, <2>1 DEF PairsAt, Pending, Sends, Receives
<1>5. CASE s = 3
  <2>1. StartupExchange(s) = "CheckTimerVal"
    BY <1>1, <1>5 DEF StartupExchange, OtherExchange
  <2> QED
    BY <1>1, <1>5, <2>1 DEF PairsAt, Pending, Sends, Receives
<1>6. CASE s = 10
  <2>1. StartupExchange(s) = "CheckTemperature"
    BY <1>1, <1>6 DEF StartupExchange, OtherExchange
  <2> QED
    BY <1>1, <1>6, <2>1 DEF PairsAt, Pending, Sends, Receives
<1>7. CASE s = 11
  <2>1. StartupExchange(s) = "SyncTemperature"
    BY <1>1, <1>7 DEF StartupExchange, OtherExchange
  <2> QED
    BY <1>1, <1>7, <2>1 DEF PairsAt, Pending, Sends, Receives
<1>8. CASE s = 14
  <2>1. StartupExchange(s) = "SendVar"
    BY <1>1, <1>8 DEF StartupExchange, OtherExchange
  <2> QED
    BY <1>1, <1>8, <2>1 DEF PairsAt, Pending, Sends, Receives
<1>9. CASE s = 15
  <2>1. StartupExchange(s) = "RecvAndCheckVar"
    BY <1>1, <1>9 DEF StartupExchange, OtherExchange
  <2> QED
    BY <1>1, <1>9, <2>1 DEF PairsAt, Pending, Sends, Receives
<1>10. CASE s = 18
  <2>1. StartupExchange(s) = "SendTimeDiff"
    BY <1>1, <1>10 DEF StartupExchange, OtherExchange
  <2> QED
    BY <1>1, <1>10, <2>1 DEF PairsAt, Pending, Sends, Receives
<1>11. CASE s = 19
  <2>1. StartupExchange(s) = "CheckTimeDiff"
    BY <1>1, <1>11 DEF StartupExchange, OtherExchange
  <2> QED
    BY <1>1, <1>11, <2>1 DEF PairsAt, Pending, Sends, Receives
<1>12. CASE s \notin {2, 3, 4, 5, 10, 11, 14, 15, 18, 19}
  <2>1. StartupExchange(s) = "none"
    BY <1>1, <1>12 DEF StartupExchange, OtherExchange
  <2> QED
    BY <1>1, <1>12, <2>1 DEF PairsAt, Pending, Sends, Receives
<1> QED
  BY <1>1, <1>2, <1>3, <1>4, <1>5, <1>6, <1>7, <1>8, <1>9, <1>10, <1>11, <1>12

\* An exchange call takes the exchange that is pending to the next.
LEMMA CallPairs ==
  ASSUME NEW e, NEW calls, PairsAt(e, blockIdx), sent = Pending(blockIdx),
         \A c \in ExchangeCalls : Contains(calls, c) <=> c = e
  PROVE  ExchangeAfterSlice(calls) = IF blockIdx = 39 THEN "none" ELSE Pending(blockIdx + 1)
<1> DEFINE made == {c \in ExchangeCalls : Contains(calls, c)}
<1>1. made = {c \in ExchangeCalls : c = e}
  OBVIOUS
<1> HIDE DEF made
<1>2. CASE e = "none"
  <2>1. made = {}
    BY <1>1, <1>2 DEF ExchangeCalls, Sends, Receives
  <2> QED
    BY <1>2, <2>1 DEF made, ExchangeAfterSlice, PairsAt
<1>3. CASE e \in DOMAIN Sends
  <2>1. made = {e}
    BY <1>1, <1>3 DEF ExchangeCalls
  <2>2. (CHOOSE c \in DOMAIN Sends : made = {c}) = e
    BY <1>3, <2>1
  <2>3. made # {} /\ \A c \in DOMAIN Receives : made # {c}
    BY <1>3, <2>1 DEF Sends, Receives
  <2>4. ExchangeAfterSlice(calls) = Sends[e]
    BY <1>3, <2>1, <2>2, <2>3 DEF made, ExchangeAfterSlice, PairsAt
  <2> QED
    BY <1>3, <2>4 DEF PairsAt
<1>4. CASE e \in DOMAIN Receives
  <2>1. made = {e} /\ \A c \in DOMAIN Sends : made # {c}
    BY <1>1, <1>4 DEF ExchangeCalls, Sends, Receives
  <2>2. Receives[e] # "none"
    BY <1>4 DEF Receives
  <2>3. ExchangeAfterSlice(calls) = "none"
    BY <1>4, <2>1, <2>2 DEF made, ExchangeAfterSlice, PairsAt
  <2> QED
    BY <1>4, <2>3 DEF PairsAt
<1> QED
  BY <1>2, <1>3, <1>4 DEF PairsAt

\* So does a slice of either table.
LEMMA SlicePairs ==
  ASSUME SchedTypes, sent = Pending(blockIdx)
  PROVE  ExchangeAfterSlice(SliceCalls(table, blockIdx)) =
           IF blockIdx = 39 THEN "none" ELSE Pending(blockIdx + 1)
<1>1. blockIdx \in Slices
  BY DEF SchedTypes
<1>2. CASE table = "run"
  <2>1. SliceCalls(table, blockIdx) = timeSlicesRunMode[blockIdx]
    BY <1>2 DEF SliceCalls
  <2> QED
    BY <1>1, <1>2, <2>1, RunExchanges, RunPairs, CallPairs
<1>3. CASE table = "startup"
  <2>1. SliceCalls(table, blockIdx) = timeSlicesStartup[blockIdx]
    BY <1>3 DEF SliceCalls
  <2> QED
    BY <1>1, <1>3, <2>1, StartupExchanges, StartupPairs, CallPairs
<1> QED
  BY <1>2, <1>3 DEF SchedTypes

\* Every step keeps the pairing.
LEMMA ExchangeInStepKept ==
  ASSUME SchedTypes, ExchangeInStep, [SchedNext]_schedVars
  PROVE  ExchangeInStep'
<1>1. CASE TIM1_UP_IRQHandler
  <2>1. Running /\ sent = Pending(blockIdx)
    BY <1>1, SliceEffects DEF ExchangeInStep
  <2>2. sent' = ExchangeAfterSlice(SliceCalls(table, blockIdx))
    BY <1>1 DEF TIM1_UP_IRQHandler
  <2>3. CASE blockIdx = 39
    <3>1. sent' = "none" /\ blockIdx' = 0
      BY <1>1, <2>1, <2>2, <2>3, SlicePairs, SliceEffects
    <3> QED
      BY <3>1 DEF ExchangeInStep, Pending
  <2>4. CASE blockIdx # 39
    <3>1. sent' = Pending(blockIdx + 1)
      BY <2>1, <2>2, <2>4, SlicePairs
    <3>2. blockIdx' = blockIdx + 1 /\ table' = table
      BY <1>1, <2>4, SliceEffects
    <3> QED
      BY <3>1, <3>2 DEF ExchangeInStep, Pending
  <2> QED
    BY <2>3, <2>4
<1>2. ASSUME UNCHANGED <<blockIdx, table, sent>>, Running' => Running
      PROVE  ExchangeInStep'
  BY <1>2 DEF ExchangeInStep, Pending
<1>3. CASE MainStep
  BY <1>2, <1>3 DEF MainStep, EnterTaskExec, PollFails, StartTask, EndTask, EndLoop, MainAt
<1>4. CASE Tick \/ Delay \/ IrqStops \/ UNCHANGED schedVars
  BY <1>2, <1>4 DEF Tick, Delay, IrqStops, schedVars, Running
<1> QED
  BY <1>1, <1>3, <1>4 DEF SchedNext

-----------------------------------------------------------------------------
(* The theorems *)

\* The first state satisfies all of it.
LEMMA SchedInitially ==
  ASSUME SchedInit
  PROVE  SchedTypes /\ SemaInCycle /\ PromptInv
<1>1. SchedTypes
  <2>1. prompt \in BOOLEAN /\ sema \in BOOLEAN /\ irqOn \in BOOLEAN
    BY Zenon DEF SchedInit
  <2> QED
    BY <2>1 DEF SchedInit, SchedTypes, Slices, BlockCount, Horizon
<1>2. SemaInCycle
  BY DEF SchedInit, SemaInCycle
<1>3. PromptInv
  BY TimesAssumption
  DEF SchedInit, PromptInv, PromptPlaces, PromptTimes, PromptMainLoop, Running,
      FromTrigger, FromCheck
<1> QED
  BY <1>1, <1>2, <1>3

\* In every execution, whatever the delays, the task runs in the slices after
\* its trigger and before its check, under the table it has read; a cycle
\* reaches its state machine after exactly one execution; and every exchange
\* with the other controller is received before the next one is sent.
THEOREM CycleStaysInOrder == SchedSpec => []CycleInOrder
<1> DEFINE IInv == SchedTypes /\ SemaInCycle /\ ExchangeInStep
<1>1. SchedInit => IInv
  <2>1. SchedInit => sent = "none" /\ blockIdx = 0
    BY DEF SchedInit
  <2>2. sent = "none" /\ blockIdx = 0 => ExchangeInStep
    BY DEF ExchangeInStep, Pending
  <2> QED
    BY <2>1, <2>2, SchedInitially
<1>2. IInv /\ [SchedNext]_schedVars => IInv'
  BY TypesKept, SemaInCycleKept, ExchangeInStepKept
<1>3. IInv => CycleInOrder
  <2>1. SchedTypes /\ SemaInCycle => TaskOwnsItsWindow /\ OneTaskPerCycle
    BY DEF SemaInCycle, TaskOwnsItsWindow, OneTaskPerCycle
  <2>2. ExchangeInStep => ExchangesArePaired
    BY DEF ExchangeInStep, ExchangesArePaired, Pending
  <2> QED
    BY <2>1, <2>2 DEF CycleInOrder
<1> QED
  BY <1>1, <1>2, <1>3, PTL DEF SchedSpec

\* No supervision raises an alarm in a system that keeps its times: the task is
\* done before its check in slice 38, the interrupt is late by at most the
\* tolerance of the cycle time, and the main loop may miss one cycle.
THEOREM PromptNeverAlarms ==
  ASSUME PromptLimits
  PROVE  SchedSpec => []NoFalseAlarm
<1> DEFINE IInv == SchedTypes /\ SemaInCycle /\ PromptInv
<1>1. SchedInit => IInv
  BY SchedInitially
<1>2. IInv /\ [SchedNext]_schedVars => IInv'
  <2> SUFFICES ASSUME IInv, [SchedNext]_schedVars PROVE IInv'
    OBVIOUS
  <2>1. SchedTypes' /\ SemaInCycle'
    BY TypesKept, SemaInCycleKept
  <2>2. PromptInv'
    BY PromptInvKept
  <2> QED
    BY <2>1, <2>2
<1>3. IInv => NoFalseAlarm
  BY DEF PromptInv, NoFalseAlarm
<1> QED
  BY <1>1, <1>2, <1>3, PTL DEF SchedSpec

-----------------------------------------------------------------------------
(* The inputs *)

\* The states of an input (diState.c)
States == {"INACTIVE", "WAIT_TEST", "VALID", "ERROR", "DONT_USE"}
\* The states before the first test, while a test runs, and after the first
FirstTest == {"WAIT_1ST", "REQ_1ST"}
CyclicTest == {"WAIT_CYC", "REQ_CYC", "EXEC_CYC"}
Executing == {"EXEC_1ST", "EXEC_CYC"}
\* All states of the test of the level
LevStates == FirstTest \cup {"EXEC_1ST"} \cup CyclicTest
\* The values of eDiDiagQualifier
Qualifiers == {"NA", "OK", "ERR"}

\* The data of a controller
Data == [
  filter : [Pairs -> Nat], first : [Pairs -> BOOLEAN], value : [Inputs -> BOOLEAN],
  state : [Inputs -> States], lev : [Inputs -> LevStates], cnt : [Inputs -> Nat],
  to : [Inputs -> {"WAIT_1ST", "WAIT_CYC", "EXEC_CYC"}], toCnt : [1 .. 2 -> Nat],
  toExec : [1 .. 2 -> BOOLEAN], toInc : [1 .. 2 -> BOOLEAN],
  qual : [Inputs -> Qualifiers], tmp : [Inputs -> Qualifiers],
  levErr : [Pairs -> Nat], toErr : [Pairs -> Nat], shErr : [Pairs -> Nat],
  cons : [Pairs -> Nat], suspect : SUBSET Pairs, pulse : SUBSET Inputs,
  toLow : BOOLEAN, last : [Inputs -> BOOLEAN], waits : BOOLEAN]

\* The first test of an input has been read back: a result is due.
Tested(s, d) == s.lev[d] \in CyclicTest \/ (s.lev[d] = "EXEC_1ST" /\ s.cnt[d] >= LevelEnd)

\* Once an own input has had its first test, a result is there; until then the
\* error counter is such that the first failed test is one.
Results(c, s) ==
  \A d \in Inputs : Own(c, d) =>
    /\ s.tmp[d] = "NA" => s.levErr[Pair(d)] >= ErrCntLimit /\ s.qual[d] # "ERR"
    /\ Tested(s, d) => s.tmp[d] # "NA"

\* Two copies that are in the same state for every input and in the same step
\* of every test
SameTests(s, o) ==
  /\ s.state = o.state /\ s.last = o.last /\ s.waits = o.waits
  /\ s.lev = o.lev /\ s.cnt = o.cnt
  /\ s.to = o.to /\ s.toCnt = o.toCnt /\ s.toExec = o.toExec /\ s.toInc = o.toInc

\* Two copies that decide alike
Alike(s, o) ==
  /\ SameTests(s, o)
  /\ s.value = o.value
  /\ \A d \in Inputs : s.qual[d] = "ERR" <=> o.qual[d] = "ERR"

\* From s to t nothing but counters of errors and results of tests changes, and
\* a result only for the worse.
OnlyResults(s, t) ==
  /\ t \in Data
  /\ SameTests(s, t) /\ s.value = t.value /\ s.qual = t.qual
  /\ s.first = t.first /\ s.levErr = t.levErr
  /\ \A d \in Inputs : t.tmp[d] \in {s.tmp[d], "ERR"}

\* The loops of diState_ProcessDIs, diDiagShortCheck_End and
\* diState_HandleToTestExecution over the inputs
Processed(c, s) == InTurn(LAMBDA t, d : ProcessDI(c, t, d), s, 2 * NumPairs)

ShortChecked(s, d) == InTurn(LAMBDA t, p : ShortCheck(t, d, p), s, NumPairs)

ToHandled(s) == InTurn(HandleToInput, s, 2 * NumPairs)

\* Nothing but counters of errors changes.
OnlyCounts(s, t) == OnlyResults(s, t) /\ t.tmp = s.tmp

\* An input is the even or the odd one of a pair, the other of them is an input.
LEMMA InputFacts ==
  ASSUME NEW d \in Inputs
  PROVE  /\ Pair(d) \in Pairs /\ Channel(d) \in {0, 1} /\ Channel(d) + 1 \in 1 .. 2
         /\ Other(d) \in Inputs /\ Pair(Other(d)) = Pair(d)
         /\ d = 2 * Pair(d) + Channel(d) /\ d \in Nat
<1> NumPairs \in Nat /\ d \in 0 .. 2 * NumPairs - 1
    BY CountsAssumption DEF Inputs
<1> QED  BY DEF Pair, Channel, Other, Pairs, Inputs

\* Each controller has one input of each pair.
LEMMA PairFacts ==
  ASSUME NEW p \in Pairs
  PROVE  /\ 2 * p \in Inputs /\ 2 * p + 1 \in Inputs /\ p \in Nat
         /\ \A c \in C : OwnInput(c, p) \in Inputs /\ Pair(OwnInput(c, p)) = p
<1> NumPairs \in Nat /\ p \in 0 .. NumPairs - 1
    BY CountsAssumption DEF Pairs
<1> QED  BY DEF Pair, OwnInput, OwnChannel, Inputs

\* A controller has one input of a pair only: its error counters are kept per pair.
LEMMA OwnOfPair ==
  ASSUME NEW c, NEW d \in Inputs, NEW e \in Inputs, Own(c, d), Own(c, e), Pair(d) = Pair(e)
  PROVE  d = e
<1>1. d = 2 * Pair(d) + Channel(d) /\ e = 2 * Pair(e) + Channel(e)
    BY InputFacts
<1> QED  BY <1>1 DEF Own

\* Assigning a counter of errors, or the result ERR, is no more than that.
LEMMA ResultFields ==
  ASSUME NEW s \in Data, NEW d \in Inputs, NEW p \in Pairs, NEW n \in Nat
  PROVE  /\ OnlyResults(s, [s EXCEPT !.tmp[d] = "ERR"])
         /\ OnlyCounts(s, [s EXCEPT !.toErr[p] = n])
         /\ OnlyCounts(s, [s EXCEPT !.shErr[p] = n])
         /\ OnlyCounts(s, [s EXCEPT !.cons[p] = n])
<1>2. OnlyResults(s, [s EXCEPT !.tmp[d] = "ERR"])
    BY DEF OnlyResults, SameTests, Data, Qualifiers
<1>3. OnlyCounts(s, [s EXCEPT !.toErr[p] = n])
    BY DEF OnlyCounts, OnlyResults, SameTests, Data
<1>4. OnlyCounts(s, [s EXCEPT !.shErr[p] = n])
    BY DEF OnlyCounts, OnlyResults, SameTests, Data
<1>5. OnlyCounts(s, [s EXCEPT !.cons[p] = n])
    BY DEF OnlyCounts, OnlyResults, SameTests, Data
<1> QED  BY <1>2, <1>3, <1>4, <1>5

\* Doing nothing changes results only.
LEMMA SomeResults ==
  ASSUME NEW s \in Data
  PROVE  OnlyResults(s, s)
BY DEF OnlyResults, SameTests

\* Two steps that change results only are one such step.
LEMMA ResultsAddUp ==
  ASSUME NEW s, NEW t, NEW u, OnlyResults(s, t), OnlyResults(t, u)
  PROVE  OnlyResults(s, u)
BY DEF OnlyResults, SameTests

\* The results of the tests of lines and shorts (diErrHdl_ToTestOk, ...Failed)
LEMMA SimpleResults ==
  ASSUME NEW s \in Data, NEW d \in Inputs
  PROVE  /\ OnlyResults(s, ToTestOk(s, d)) /\ OnlyResults(s, ToTestFailed(s, d))
         /\ OnlyResults(s, ShortTestOk(s, d)) /\ OnlyResults(s, ShortTestFailed(s, d))
<1> DEFINE p == Pair(d)
<1>1. p \in Pairs
    BY InputFacts
<1>2. s.toErr[p] + 1 \in Nat /\ s.shErr[p] + 1 \in Nat /\ 0 \in Nat
    BY <1>1 DEF Data
<1>3. OnlyResults(s, [s EXCEPT !.tmp[d] = "ERR"])
    BY <1>1, <1>2, ResultFields
<1>4. OnlyResults(s, ToTestOk(s, d)) /\ OnlyResults(s, ShortTestOk(s, d))
    BY <1>1, <1>2, ResultFields DEF OnlyCounts, ToTestOk, ShortTestOk
<1>5. OnlyResults(s, [s EXCEPT !.toErr[p] = s.toErr[p] + 1])
      /\ OnlyResults(s, [s EXCEPT !.shErr[p] = s.shErr[p] + 1])
    BY <1>1, <1>2, ResultFields DEF OnlyCounts
<1>6. OnlyResults(s, ToTestFailed(s, d))
    BY <1>3, <1>5 DEF ToTestFailed
<1>7. OnlyResults(s, ShortTestFailed(s, d))
    BY <1>3, <1>5 DEF ShortTestFailed
<1> QED  BY <1>4, <1>6, <1>7

\* The test of the consistency makes results only (diDiagCons_Check).
LEMMA ConsResults ==
  ASSUME NEW s \in Data, NEW d \in Inputs
  PROVE  OnlyResults(s, HandleConsTest(s, d))
<1> DEFINE p == Pair(d)
           x == [s EXCEPT !.tmp[2 * p] = "ERR"]
           y == [x EXCEPT !.tmp[2 * p + 1] = "ERR"]
<1>1. p \in Pairs /\ 2 * p \in Inputs /\ 2 * p + 1 \in Inputs
    BY InputFacts, PairFacts
<1>2. s.cons[p] + 1 \in Nat /\ 0 \in Nat
    BY <1>1 DEF Data
<1>3. OnlyResults(s, y)
  <2>1. OnlyResults(s, x)
      BY <1>1, <1>2, ResultFields
  <2>2. x \in Data
      BY <2>1 DEF OnlyResults
  <2> HIDE DEF x
  <2>3. OnlyResults(x, y)
      BY <1>1, <1>2, <2>2, ResultFields
  <2> QED  BY <2>1, <2>3, ResultsAddUp
<1>4. OnlyResults(s, ConsTestOk(s, p))
    BY <1>1, <1>2, ResultFields DEF OnlyCounts, ConsTestOk
<1>5. OnlyResults(s, [s EXCEPT !.cons[p] = s.cons[p] + 1])
    BY <1>1, <1>2, ResultFields DEF OnlyCounts
<1>6. y = [s EXCEPT !.tmp[2 * p] = "ERR", !.tmp[2 * p + 1] = "ERR"]
    OBVIOUS
<1>7. OnlyResults(s, ConsTestFailed(s, p))
    BY <1>3, <1>5, <1>6 DEF ConsTestFailed
<1>8. OnlyResults(s, s)
    BY SomeResults
<1> QED  BY <1>4, <1>7, <1>8 DEF HandleConsTest, diDiagCons_Check

\* A set of numbers up to n that has 0, and every successor of its members, has
\* all of them: what a loop keeps holds at its end.
LEMMA Induction ==
  ASSUME NEW n \in Nat, NEW T, T \subseteq 0 .. n, 0 \in T,
         \A k \in 1 .. n : k - 1 \in T => k \in T
  PROVE  T = 0 .. n
<1> SUFFICES ASSUME (0 .. n) \ T # {} PROVE FALSE
    OBVIOUS
<1> DEFINE R == OpToRel(<, Nat)
<1>1. PICK x \in (0 .. n) \ T : \A y \in (0 .. n) \ T : <<y, x>> \notin R
  <2>1. (0 .. n) \ T \subseteq Nat
      OBVIOUS
  <2>2. IsWellFoundedOn(R, Nat)
      BY NatLessThanWellFounded
  <2> HIDE DEF R
  <2> QED  BY <2>1, <2>2, WFMin
<1>2. x - 1 \in 0 .. n /\ x \in 1 .. n
  <2> HIDE DEF R
  <2>1. x # 0 /\ x \in 0 .. n
      BY <1>1
  <2> QED  BY <2>1
<1>3. x - 1 \in T
  <2>1. SUFFICES ASSUME x - 1 \notin T PROVE FALSE
      OBVIOUS
  <2>2. <<x - 1, x>> \notin R
      BY <2>1, <1>1, <1>2
  <2>3. <<x - 1, x>> \in R
      BY <1>2 DEF OpToRel
  <2> QED  BY <2>2, <2>3
<1> HIDE DEF R
<1> QED  BY <1>1, <1>2, <1>3

\* The loop of diInput_FilterDiRelInputs passes through states t[0], t[1], ...
LEMMA FilterInTurn ==
  ASSUME NEW c, NEW s
  PROVE  \E t : /\ t[0] = s /\ t[NumPairs] = diInput_FilterDiRelInputs(c, s)
                /\ \A k \in 1 .. NumPairs : t[k] = Filter(c, t[k - 1], k - 1)
<1> DEFINE N == NumPairs
           Run(t, m) == t = [k \in 0 .. m |-> IF k = 0 THEN s ELSE Filter(c, t[k - 1], k - 1)]
           T == {m \in 0 .. N : \E t : Run(t, m)}
<1>0. N \in Nat
    BY CountsAssumption
<1>1. 0 \in T
  <2>1. Run([k \in 0 .. 0 |-> s], 0)
      OBVIOUS
  <2> HIDE DEF Run
  <2> QED  BY <1>0, <2>1
<1>2. ASSUME NEW m \in 1 .. N, m - 1 \in T PROVE m \in T
  <2>1. PICK t : Run(t, m - 1)
      BY <1>2
  <2> DEFINE u == [k \in 0 .. m |-> IF k = m THEN Filter(c, t[m - 1], m - 1) ELSE t[k]]
  <2> HIDE DEF N
  <2>2. Run(u, m)
      BY <1>0, <2>1
  <2> HIDE DEF Run, u
  <2> QED  BY <1>0, <2>2
<1>3. T = 0 .. N
  <2>1. T \subseteq 0 .. N
      OBVIOUS
  <2> HIDE DEF T, N
  <2> QED  BY <1>0, <1>1, <1>2, <2>1, Induction
<1> DEFINE r == CHOOSE t : Run(t, N)
<1>4. Run(r, N)
  <2> HIDE DEF Run
  <2>1. N \in T
    <3> HIDE DEF T, N
    <3> QED  BY <1>0, <1>3
  <2>2. \E t : Run(t, N)
      BY <2>1
  <2> QED  BY <2>2
<1>5. r[N] = diInput_FilterDiRelInputs(c, s)
    BY DEF diInput_FilterDiRelInputs, InTurn
<1>6. r[0] = s /\ \A k \in 1 .. N : r[k] = Filter(c, r[k - 1], k - 1)
  <2> HIDE DEF r, N
  <2> QED  BY <1>0, <1>4
<1> QED  BY <1>5, <1>6

\* The same for the evaluation of the test of a line (diDiagTo_ExecTest)
LEMMA EvalInTurn ==
  ASSUME NEW c, NEW s
  PROVE  \E t : /\ t[0] = s /\ t[NumPairs] = EvalToTest(c, s)
                /\ \A k \in 1 .. NumPairs : t[k] = EvalToInput(c, t[k - 1], k - 1)
<1> DEFINE N == NumPairs
           Run(t, m) == t = [k \in 0 .. m |-> IF k = 0 THEN s ELSE EvalToInput(c, t[k - 1], k - 1)]
           T == {m \in 0 .. N : \E t : Run(t, m)}
<1>0. N \in Nat
    BY CountsAssumption
<1>1. 0 \in T
  <2>1. Run([k \in 0 .. 0 |-> s], 0)
      OBVIOUS
  <2> HIDE DEF Run
  <2> QED  BY <1>0, <2>1
<1>2. ASSUME NEW m \in 1 .. N, m - 1 \in T PROVE m \in T
  <2>1. PICK t : Run(t, m - 1)
      BY <1>2
  <2> DEFINE u == [k \in 0 .. m |-> IF k = m THEN EvalToInput(c, t[m - 1], m - 1) ELSE t[k]]
  <2> HIDE DEF N
  <2>2. Run(u, m)
      BY <1>0, <2>1
  <2> HIDE DEF Run, u
  <2> QED  BY <1>0, <2>2
<1>3. T = 0 .. N
  <2>1. T \subseteq 0 .. N
      OBVIOUS
  <2> HIDE DEF T, N
  <2> QED  BY <1>0, <1>1, <1>2, <2>1, Induction
<1> DEFINE r == CHOOSE t : Run(t, N)
<1>4. Run(r, N)
  <2> HIDE DEF Run
  <2>1. N \in T
    <3> HIDE DEF T, N
    <3> QED  BY <1>0, <1>3
  <2>2. \E t : Run(t, N)
      BY <2>1
  <2> QED  BY <2>2
<1>5. r[N] = EvalToTest(c, s)
    BY DEF EvalToTest, InTurn
<1>6. r[0] = s /\ \A k \in 1 .. N : r[k] = EvalToInput(c, r[k - 1], k - 1)
  <2> HIDE DEF r, N
  <2> QED  BY <1>0, <1>4
<1> QED  BY <1>5, <1>6

\* The same for the state machine of the inputs (diState_ProcessDIs)
LEMMA ProcessInTurn ==
  ASSUME NEW c, NEW s
  PROVE  \E t : /\ t[0] = s /\ t[(2 * NumPairs)] = Processed(c, s)
                /\ \A k \in 1 .. (2 * NumPairs) : t[k] = ProcessDI(c, t[k - 1], k - 1)
<1> DEFINE N == (2 * NumPairs)
           Run(t, m) == t = [k \in 0 .. m |-> IF k = 0 THEN s ELSE ProcessDI(c, t[k - 1], k - 1)]
           T == {m \in 0 .. N : \E t : Run(t, m)}
<1>0. N \in Nat
    BY CountsAssumption
<1>1. 0 \in T
  <2>1. Run([k \in 0 .. 0 |-> s], 0)
      OBVIOUS
  <2> HIDE DEF Run
  <2> QED  BY <1>0, <2>1
<1>2. ASSUME NEW m \in 1 .. N, m - 1 \in T PROVE m \in T
  <2>1. PICK t : Run(t, m - 1)
      BY <1>2
  <2> DEFINE u == [k \in 0 .. m |-> IF k = m THEN ProcessDI(c, t[m - 1], m - 1) ELSE t[k]]
  <2> HIDE DEF N
  <2>2. Run(u, m)
      BY <1>0, <2>1
  <2> HIDE DEF Run, u
  <2> QED  BY <1>0, <2>2
<1>3. T = 0 .. N
  <2>1. T \subseteq 0 .. N
      OBVIOUS
  <2> HIDE DEF T, N
  <2> QED  BY <1>0, <1>1, <1>2, <2>1, Induction
<1> DEFINE r == CHOOSE t : Run(t, N)
<1>4. Run(r, N)
  <2> HIDE DEF Run
  <2>1. N \in T
    <3> HIDE DEF T, N
    <3> QED  BY <1>0, <1>3
  <2>2. \E t : Run(t, N)
      BY <2>1
  <2> QED  BY <2>2
<1>5. r[N] = Processed(c, s)
    BY DEF Processed, InTurn
<1>6. r[0] = s /\ \A k \in 1 .. N : r[k] = ProcessDI(c, r[k - 1], k - 1)
  <2> HIDE DEF r, N
  <2> QED  BY <1>0, <1>4
<1> QED  BY <1>5, <1>6

\* The same for the check of the shorts (diDiagShortCheck_End)
LEMMA ShortInTurn ==
  ASSUME NEW s, NEW d
  PROVE  \E t : /\ t[0] = s /\ t[NumPairs] = ShortChecked(s, d)
                /\ \A k \in 1 .. NumPairs : t[k] = ShortCheck(t[k - 1], d, k - 1)
<1> DEFINE N == NumPairs
           Run(t, m) == t = [k \in 0 .. m |-> IF k = 0 THEN s ELSE ShortCheck(t[k - 1], d, k - 1)]
           T == {m \in 0 .. N : \E t : Run(t, m)}
<1>0. N \in Nat
    BY CountsAssumption
<1>1. 0 \in T
  <2>1. Run([k \in 0 .. 0 |-> s], 0)
      OBVIOUS
  <2> HIDE DEF Run
  <2> QED  BY <1>0, <2>1
<1>2. ASSUME NEW m \in 1 .. N, m - 1 \in T PROVE m \in T
  <2>1. PICK t : Run(t, m - 1)
      BY <1>2
  <2> DEFINE u == [k \in 0 .. m |-> IF k = m THEN ShortCheck(t[m - 1], d, m - 1) ELSE t[k]]
  <2> HIDE DEF N
  <2>2. Run(u, m)
      BY <1>0, <2>1
  <2> HIDE DEF Run, u
  <2> QED  BY <1>0, <2>2
<1>3. T = 0 .. N
  <2>1. T \subseteq 0 .. N
      OBVIOUS
  <2> HIDE DEF T, N
  <2> QED  BY <1>0, <1>1, <1>2, <2>1, Induction
<1> DEFINE r == CHOOSE t : Run(t, N)
<1>4. Run(r, N)
  <2> HIDE DEF Run
  <2>1. N \in T
    <3> HIDE DEF T, N
    <3> QED  BY <1>0, <1>3
  <2>2. \E t : Run(t, N)
      BY <2>1
  <2> QED  BY <2>2
<1>5. r[N] = ShortChecked(s, d)
    BY DEF ShortChecked, InTurn
<1>6. r[0] = s /\ \A k \in 1 .. N : r[k] = ShortCheck(r[k - 1], d, k - 1)
  <2> HIDE DEF r, N
  <2> QED  BY <1>0, <1>4
<1> QED  BY <1>5, <1>6

\* The same for the states of the tests of the lines (diState_HandleToTestExecution)
LEMMA ToInTurn ==
  ASSUME NEW s
  PROVE  \E t : /\ t[0] = s /\ t[(2 * NumPairs)] = ToHandled(s)
                /\ \A k \in 1 .. (2 * NumPairs) : t[k] = HandleToInput(t[k - 1], k - 1)
<1> DEFINE N == (2 * NumPairs)
           Run(t, m) == t = [k \in 0 .. m |-> IF k = 0 THEN s ELSE HandleToInput(t[k - 1], k - 1)]
           T == {m \in 0 .. N : \E t : Run(t, m)}
<1>0. N \in Nat
    BY CountsAssumption
<1>1. 0 \in T
  <2>1. Run([k \in 0 .. 0 |-> s], 0)
      OBVIOUS
  <2> HIDE DEF Run
  <2> QED  BY <1>0, <2>1
<1>2. ASSUME NEW m \in 1 .. N, m - 1 \in T PROVE m \in T
  <2>1. PICK t : Run(t, m - 1)
      BY <1>2
  <2> DEFINE u == [k \in 0 .. m |-> IF k = m THEN HandleToInput(t[m - 1], m - 1) ELSE t[k]]
  <2> HIDE DEF N
  <2>2. Run(u, m)
      BY <1>0, <2>1
  <2> HIDE DEF Run, u
  <2> QED  BY <1>0, <2>2
<1>3. T = 0 .. N
  <2>1. T \subseteq 0 .. N
      OBVIOUS
  <2> HIDE DEF T, N
  <2> QED  BY <1>0, <1>1, <1>2, <2>1, Induction
<1> DEFINE r == CHOOSE t : Run(t, N)
<1>4. Run(r, N)
  <2> HIDE DEF Run
  <2>1. N \in T
    <3> HIDE DEF T, N
    <3> QED  BY <1>0, <1>3
  <2>2. \E t : Run(t, N)
      BY <2>1
  <2> QED  BY <2>2
<1>5. r[N] = ToHandled(s)
    BY DEF ToHandled, InTurn
<1>6. r[0] = s /\ \A k \in 1 .. N : r[k] = HandleToInput(r[k - 1], k - 1)
  <2> HIDE DEF r, N
  <2> QED  BY <1>0, <1>4
<1> QED  BY <1>5, <1>6

\* Evaluating the test of a line makes results only.
LEMMA EvalResults ==
  ASSUME NEW c \in C, NEW s \in Data
  PROVE  OnlyResults(s, EvalToTest(c, s))
<1>1. PICK t : /\ t[0] = s /\ t[NumPairs] = EvalToTest(c, s)
               /\ \A k \in 1 .. NumPairs : t[k] = EvalToInput(c, t[k - 1], k - 1)
    BY EvalInTurn
<1> DEFINE T == {k \in 0 .. NumPairs : OnlyResults(s, t[k])}
<1>2. NumPairs \in Nat
    BY CountsAssumption
<1>3. 0 \in T
    BY <1>1, <1>2, SomeResults
<1>4. ASSUME NEW k \in 1 .. NumPairs, k - 1 \in T PROVE k \in T
  <2>1. OnlyResults(s, t[k - 1]) /\ t[k - 1] \in Data
      BY <1>4 DEF OnlyResults
  <2>2. OwnInput(c, k - 1) \in Inputs
      BY <1>2, PairFacts DEF Pairs
  <2>3. OnlyResults(t[k - 1], EvalToInput(c, t[k - 1], k - 1))
      BY <2>1, <2>2, SimpleResults, SomeResults DEF EvalToInput
  <2>4. OnlyResults(s, t[k])
      BY <1>1, <2>1, <2>3, ResultsAddUp
  <2> QED  BY <1>2, <2>4
<1>5. T = 0 .. NumPairs
  <2>1. T \subseteq 0 .. NumPairs
      OBVIOUS
  <2> HIDE DEF T
  <2> QED  BY <1>2, <1>3, <1>4, <2>1, Induction
<1> QED  BY <1>1, <1>2, <1>5

\* So does the check of the shorts.
LEMMA ShortResults ==
  ASSUME NEW s \in Data, NEW d \in Inputs
  PROVE  OnlyResults(s, ShortCheckEnd(s, d))
<1>1. PICK t : /\ t[0] = s /\ t[NumPairs] = ShortChecked(s, d)
               /\ \A k \in 1 .. NumPairs : t[k] = ShortCheck(t[k - 1], d, k - 1)
    BY ShortInTurn
<1> DEFINE T == {k \in 0 .. NumPairs : OnlyResults(s, t[k])}
<1>2. NumPairs \in Nat
    BY CountsAssumption
<1>3. 0 \in T
    BY <1>1, <1>2, SomeResults
<1>4. ASSUME NEW k \in 1 .. NumPairs, k - 1 \in T PROVE k \in T
  <2>1. OnlyResults(s, t[k - 1]) /\ t[k - 1] \in Data
      BY <1>4 DEF OnlyResults
  <2>2. OnlyResults(t[k - 1], ShortCheck(t[k - 1], d, k - 1))
      BY <2>1, SimpleResults, SomeResults DEF ShortCheck
  <2>3. OnlyResults(s, t[k])
      BY <1>1, <2>1, <2>2, ResultsAddUp
  <2> QED  BY <1>2, <2>3
<1>5. T = 0 .. NumPairs
  <2>1. T \subseteq 0 .. NumPairs
      OBVIOUS
  <2> HIDE DEF T
  <2> QED  BY <1>2, <1>3, <1>4, <2>1, Induction
<1>6. OnlyResults(s, ShortChecked(s, d))
    BY <1>1, <1>2, <1>5
<1>7. ShortCheckEnd(s, d) = [ShortChecked(s, d) EXCEPT !.suspect = {}]
    BY DEF ShortCheckEnd, ShortChecked
<1>8. ASSUME NEW u, OnlyResults(s, u) PROVE OnlyResults(s, [u EXCEPT !.suspect = {}])
    BY <1>8 DEF OnlyResults, SameTests, Data
<1> QED  BY <1>6, <1>7, <1>8

\* All but the test of the level and the results stays.
Frame(s, t) ==
  /\ t \in Data
  /\ t.state = s.state /\ t.last = s.last /\ t.waits = s.waits /\ t.value = s.value
  /\ t.to = s.to /\ t.toCnt = s.toCnt /\ t.toExec = s.toExec /\ t.toInc = s.toInc

\* Only the test at input d moves, to state l and count n.
Moved(c, s, t, d, l, n) ==
  /\ Frame(s, t) /\ t.qual = s.qual
  /\ t.lev = [s.lev EXCEPT ![d] = l] /\ t.cnt = [s.cnt EXCEPT ![d] = n]
  /\ Results(c, s) => Results(c, t)

\* Reading back the own input: a first test has a result.
LEMMA ReadBackStep ==
  ASSUME NEW c \in C, NEW s \in Data, NEW d \in Inputs, Own(c, d),
         NEW t, t \in {LevTestOk(s, d), LevTestFailed(s, d)}
  PROVE  /\ Frame(s, t) /\ t.qual = s.qual /\ t.lev = s.lev /\ t.cnt = s.cnt
         /\ \A e \in Inputs \ {d} : t.tmp[e] = s.tmp[e]
         /\ \A p \in Pairs \ {Pair(d)} : t.levErr[p] = s.levErr[p]
         /\ Results(c, s) => t.tmp[d] # "NA"
<1>0. Pair(d) \in Pairs
    BY InputFacts
<1>1. CASE t = LevTestOk(s, d)
  <2>1. t = [s EXCEPT !.levErr[Pair(d)] = 0,
                      !.tmp[d] = IF s.qual[d] = "ERR" THEN @ ELSE "OK"]
      BY <1>1 DEF LevTestOk
  <2>2. Frame(s, t) /\ t.qual = s.qual /\ t.lev = s.lev /\ t.cnt = s.cnt
      BY <1>0, <2>1 DEF Frame, Data, Qualifiers
  <2>3. /\ \A e \in Inputs \ {d} : t.tmp[e] = s.tmp[e]
        /\ \A p \in Pairs \ {Pair(d)} : t.levErr[p] = s.levErr[p]
        /\ t.tmp[d] = IF s.qual[d] = "ERR" THEN s.tmp[d] ELSE "OK"
      BY <1>0, <2>1 DEF Data
  <2> QED  BY <2>2, <2>3 DEF Results
<1>2. CASE t = LevTestFailed(s, d) /\ s.levErr[Pair(d)] < ErrCntLimit
  <2> DEFINE m == s.levErr[Pair(d)] + 1
  <2>0. m \in Nat
      BY <1>0 DEF Data
  <2>1. t = [s EXCEPT !.levErr[Pair(d)] = m]
      BY <1>2 DEF LevTestFailed
  <2> HIDE DEF m
  <2>2. Frame(s, t) /\ t.qual = s.qual /\ t.lev = s.lev /\ t.cnt = s.cnt
      BY <1>0, <2>0, <2>1 DEF Frame, Data
  <2>3. t.tmp = s.tmp /\ \A p \in Pairs \ {Pair(d)} : t.levErr[p] = s.levErr[p]
      BY <1>0, <2>1 DEF Data
  <2>4. Results(c, s) => t.tmp[d] # "NA"
      BY <1>0, <1>2, <2>3 DEF Results, Data, ErrCntLimit
  <2> QED  BY <2>2, <2>3, <2>4
<1>3. CASE t = LevTestFailed(s, d) /\ ~(s.levErr[Pair(d)] < ErrCntLimit)
  <2>1. t = [s EXCEPT !.tmp[d] = "ERR"]
      BY <1>3 DEF LevTestFailed
  <2>2. Frame(s, t) /\ t.qual = s.qual /\ t.lev = s.lev /\ t.cnt = s.cnt
      BY <1>0, <2>1 DEF Frame, Data, Qualifiers
  <2>3. /\ t.levErr = s.levErr /\ t.tmp[d] = "ERR"
        /\ \A e \in Inputs \ {d} : t.tmp[e] = s.tmp[e]
      BY <1>0, <2>1 DEF Data
  <2> QED  BY <2>2, <2>3
<1> QED  BY <1>1, <1>2, <1>3

\* A step of the test of the level
StepLev(s, d) == IF s.cnt[d] < LevelEnd THEN s.lev[d] ELSE "WAIT_CYC"
StepCnt(s, d) == IF s.cnt[d] < LevelEnd THEN s.cnt[d] + 1 ELSE 1

\* Whoever tests, sets the pulse or reads it back, the test moves alike; at its
\* end an own input has a result (diDiagLev_ExecTest).
LEMMA LevTestStep ==
  ASSUME NEW c \in C, NEW s \in Data, NEW d \in Inputs, LevTestOngoing(s, d)
  PROVE  Moved(c, s, diDiagLev_ExecTest(c, s, d), d, StepLev(s, d), StepCnt(s, d))
<1> SUFFICES ASSUME NEW t, t = diDiagLev_ExecTest(c, s, d)
             PROVE  Moved(c, s, t, d, StepLev(s, d), StepCnt(s, d))
    OBVIOUS
<1> DEFINE u == IF Own(c, d) THEN ExecTestAtOwnCh(s, d) ELSE ExecTestAtOtherCh(s, d)
           n == s.cnt[d]
<1>1. t = [u EXCEPT !.cnt[d] = @ + 1] /\ n \in Nat /\ Pair(d) \in Pairs
    BY InputFacts DEF diDiagLev_ExecTest, Data
<1>2. CASE n < LevelEnd
  <2>1. /\ Frame(s, u) /\ u.qual = s.qual /\ u.lev = s.lev /\ u.cnt = s.cnt
        /\ \A e \in Inputs \ {d} : Own(c, e) => u.tmp[e] = s.tmp[e]
        /\ \A p \in Pairs \ {Pair(d)} : u.levErr[p] = s.levErr[p]
        /\ Own(c, d) /\ n = SetPulse => u.tmp[d] = s.tmp[d] /\ u.levErr = s.levErr
        /\ Own(c, d) /\ Results(c, s) /\ n = ReadBack => u.tmp[d] # "NA"
        /\ ~Own(c, d) => u.tmp = s.tmp /\ u.levErr = s.levErr
    <3>1. n \in {SetPulse, ReadBack} /\ SetPulse # ReadBack
        BY <1>1, <1>2 DEF SetPulse, ReadBack, LevelEnd
    <3>2. CASE ~Own(c, d)
      <4>1. u = ExecTestAtOtherCh(s, d)
          BY <3>2
      <4>2. \E P \in SUBSET Inputs : u = [s EXCEPT !.pulse = P]
        <5>1. s.pulse \in SUBSET Inputs
            BY DEF Data
        <5>2. u \in {[s EXCEPT !.pulse = s.pulse \cup {d}], [s EXCEPT !.pulse = s.pulse \ {d}]}
            BY <3>1, <4>1 DEF ExecTestAtOtherCh
        <5> HIDE DEF u
        <5> QED  BY <5>1, <5>2
      <4> HIDE DEF u
      <4> QED  BY <3>2, <4>2 DEF Frame, Data
    <3>3. CASE Own(c, d) /\ n = SetPulse
      <4>1. u = [s EXCEPT !.suspect = {p \in Pairs : s.first[p]}]
          BY <3>3 DEF ExecTestAtOwnCh
      <4> HIDE DEF u
      <4> QED  BY <3>1, <3>3, <4>1 DEF Frame, Data
    <3>4. CASE Own(c, d) /\ n = ReadBack
      <4> DEFINE v == [s EXCEPT !.suspect = {p \in @ : ~s.first[p]}]
      <4>1. u \in {LevTestOk(v, d), LevTestFailed(v, d)}
          BY <3>1, <3>4 DEF ExecTestAtOwnCh
      <4>2. /\ Frame(s, v) /\ v.qual = s.qual /\ v.lev = s.lev /\ v.cnt = s.cnt
            /\ v.tmp = s.tmp /\ v.levErr = s.levErr
          BY DEF Frame, Data
      <4>3. v \in Data /\ (Results(c, s) => Results(c, v))
          BY <4>2 DEF Frame, Results, Tested
      <4> HIDE DEF u, v
      <4>4. /\ Frame(v, u) /\ u.qual = v.qual /\ u.lev = v.lev /\ u.cnt = v.cnt
            /\ \A e \in Inputs \ {d} : u.tmp[e] = v.tmp[e]
            /\ \A p \in Pairs \ {Pair(d)} : u.levErr[p] = v.levErr[p]
            /\ Results(c, v) => u.tmp[d] # "NA"
          BY <3>4, <4>1, <4>3, ReadBackStep
      <4> QED  BY <3>1, <3>4, <4>2, <4>3, <4>4 DEF Frame
    <3> QED  BY <3>1, <3>2, <3>3, <3>4
  <2> HIDE DEF u
  <2>2. /\ Frame(u, t) /\ t.qual = u.qual /\ t.lev = u.lev
        /\ t.cnt = [u.cnt EXCEPT ![d] = @ + 1] /\ t.tmp = u.tmp /\ t.levErr = u.levErr
    <3> DEFINE K == [u.cnt EXCEPT ![d] = @ + 1]
    <3>1. K \in [Inputs -> Nat] /\ u \in Data
        BY <2>1 DEF Frame, Data
    <3>2. t = [u EXCEPT !.cnt = K]
        BY <1>1
    <3>3. K = [u.cnt EXCEPT ![d] = @ + 1]
        OBVIOUS
    <3> HIDE DEF K
    <3> QED  BY <3>1, <3>2, <3>3 DEF Frame, Data
  <2>3. t.lev = [s.lev EXCEPT ![d] = StepLev(s, d)]
      BY <1>2, <2>1, <2>2 DEF Data, StepLev, StepCnt
  <2>4. ASSUME Results(c, s) PROVE Results(c, t)
    <3>0. SUFFICES ASSUME NEW e \in Inputs, Own(c, e)
                   PROVE  /\ t.tmp[e] = "NA" => /\ t.levErr[Pair(e)] >= ErrCntLimit
                                                 /\ t.qual[e] # "ERR"
                          /\ Tested(t, e) => t.tmp[e] # "NA"
        BY DEF Results
    <3>1. CASE e # d
      <4>1. t.cnt[e] = s.cnt[e] /\ t.lev = s.lev /\ t.tmp[e] = s.tmp[e] /\ t.qual = s.qual
          BY <2>1, <2>2, <3>0, <3>1 DEF Data
      <4>2. t.levErr[Pair(e)] = s.levErr[Pair(e)]
        <5>1. CASE Own(c, d)
          <6>1. Pair(e) \in Pairs \ {Pair(d)}
              BY <3>0, <3>1, <5>1, OwnOfPair, InputFacts
          <6> QED  BY <2>1, <2>2, <6>1
        <5>2. CASE ~Own(c, d)
            BY <2>1, <2>2, <5>2
        <5> QED  BY <5>1, <5>2
      <4> QED  BY <2>4, <3>0, <4>1, <4>2 DEF Results, Tested
    <3>2. CASE e = d /\ n = SetPulse
      <4>1. t.cnt[e] = 1 /\ t.lev = s.lev /\ t.tmp[e] = s.tmp[e] /\ t.qual = s.qual
            /\ t.levErr = s.levErr
          BY <2>1, <2>2, <3>0, <3>2 DEF Data, SetPulse
      <4> QED  BY <2>4, <3>0, <4>1 DEF Results, Tested, LevelEnd
    <3>3. CASE e = d /\ n = ReadBack
        BY <2>1, <2>2, <2>4, <3>0, <3>3
    <3> QED  BY <1>1, <1>2, <3>1, <3>2, <3>3 DEF SetPulse, ReadBack, LevelEnd
  <2>5. t.cnt = [s.cnt EXCEPT ![d] = StepCnt(s, d)]
      BY <1>2, <2>1, <2>2 DEF Data, StepLev, StepCnt
  <2> QED  BY <2>1, <2>2, <2>3, <2>4, <2>5 DEF Frame, Moved
<1>3. CASE ~(n < LevelEnd)
  <2>1. PICK x : u = EndLevTest(x, d) /\ OnlyResults(s, x)
    <3>1. OnlyResults(s, s) /\ OnlyResults(s, ShortCheckEnd(s, d))
        BY SomeResults, ShortResults
    <3>2. n # SetPulse /\ n # ReadBack
        BY <1>1, <1>3 DEF SetPulse, ReadBack, LevelEnd
    <3>3. CASE Own(c, d)
        BY <3>1, <3>2, <3>3 DEF ExecTestAtOwnCh
    <3>4. CASE ~Own(c, d)
        BY <3>1, <3>2, <3>4 DEF ExecTestAtOtherCh
    <3> QED  BY <3>3, <3>4
  <2> HIDE DEF u
  <2>2. /\ x \in Data /\ Frame(s, x) /\ x.qual = s.qual /\ x.lev = s.lev /\ x.cnt = s.cnt
        /\ x.levErr = s.levErr /\ \A e \in Inputs : x.tmp[e] \in {s.tmp[e], "ERR"}
      BY <2>1 DEF OnlyResults, SameTests, Frame
  <2>3. /\ Frame(x, u) /\ u.qual = x.qual /\ u.lev = [x.lev EXCEPT ![d] = "WAIT_CYC"]
        /\ u.cnt = [x.cnt EXCEPT ![d] = 0] /\ u.tmp = x.tmp /\ u.levErr = x.levErr
      BY <2>1, <2>2 DEF EndLevTest, Frame, Data, LevStates, CyclicTest
  <2>4. /\ Frame(u, t) /\ t.qual = u.qual /\ t.lev = u.lev
        /\ t.cnt = [u.cnt EXCEPT ![d] = @ + 1] /\ t.tmp = u.tmp /\ t.levErr = u.levErr
      BY <1>1, <2>3 DEF Frame, Data
  <2>5. t.lev = [s.lev EXCEPT ![d] = StepLev(s, d)]
      BY <1>3, <2>2, <2>3, <2>4 DEF StepLev
  <2>6. t.cnt = [s.cnt EXCEPT ![d] = StepCnt(s, d)]
      BY <1>3, <2>2, <2>3, <2>4 DEF Data, StepCnt
  <2>7. ASSUME Results(c, s) PROVE Results(c, t)
    <3>1. Tested(s, d)
        BY <1>1, <1>3, <2>7 DEF Tested, LevTestOngoing, CyclicTest, LevelEnd
    <3>2. \A e \in Inputs : Tested(t, e) => Tested(s, e)
        BY <3>1, <2>5, <2>6 DEF Tested, Data
    <3> QED  BY <2>2, <2>3, <2>4, <2>7, <3>1, <3>2 DEF Results
  <2> QED  BY <2>2, <2>3, <2>4, <2>5, <2>6, <2>7 DEF Frame, Moved
<1> QED  BY <1>2, <1>3

\* Whether a test is going on is the same for copies in the same step.
LEMMA Ongoing ==
  ASSUME NEW s, NEW o, s.lev = o.lev, s.toExec = o.toExec
  PROVE  /\ \A d : IsTestAtPinOngoing(s, d) <=> IsTestAtPinOngoing(o, d)
         /\ IsAnyTestOngoing(s) <=> IsAnyTestOngoing(o)
BY DEF IsAnyTestOngoing, IsTestAtPinOngoing, LevTestOngoing

\* The state and the count of a test that waits, after its step
AfterWait(s, d, wait, req, exec) ==
  IF s.cnt[d] < wait THEN s.lev[d] ELSE IF IsAnyTestOngoing(s) THEN req ELSE exec
CountKept(s, d, wait) == IF s.cnt[d] < wait \/ IsAnyTestOngoing(s) THEN s.cnt[d] ELSE 0
CountAfterWait(s, d, wait) == IF s.cnt[d] < wait \/ IsAnyTestOngoing(s) THEN s.cnt[d] + 1 ELSE 1

\* Assigning state and count of the test of an input is a move of this test, and
\* keeps the results unless it claims a test that was not executed.
LEMMA TestMoves ==
  ASSUME NEW c \in C, NEW s \in Data, NEW d \in Inputs, NEW l \in LevStates, NEW n \in Nat,
         NEW t, t = [s EXCEPT !.lev[d] = l, !.cnt[d] = n],
         l \in CyclicTest \/ (l = "EXEC_1ST" /\ n >= LevelEnd) => Tested(s, d)
  PROVE  Moved(c, s, t, d, l, n)
<1> DEFINE L == [s.lev EXCEPT ![d] = l]
           K == [s.cnt EXCEPT ![d] = n]
           x == [s EXCEPT !.lev = L]
<1>1. L \in [Inputs -> LevStates] /\ K \in [Inputs -> Nat]
    BY DEF Data
<1>2. t = [x EXCEPT !.cnt = K] /\ x = [s EXCEPT !.lev = L]
    OBVIOUS
<1>3. /\ L = [s.lev EXCEPT ![d] = l] /\ K = [s.cnt EXCEPT ![d] = n]
      /\ \A e \in Inputs \ {d} : L[e] = s.lev[e] /\ K[e] = s.cnt[e]
      /\ L[d] = l /\ K[d] = n
    BY DEF Data
<1> HIDE DEF L, K, x
<1>4. /\ Frame(s, x) /\ x.qual = s.qual /\ x.cnt = s.cnt /\ x.tmp = s.tmp
      /\ x.levErr = s.levErr /\ x.lev = L
  <2>1. x = [s EXCEPT !.lev = L]
      BY <1>2
  <2> QED  BY <1>1, <2>1 DEF Frame, Data
<1>5. x \in Data
    BY <1>4 DEF Frame
<1>6. /\ Frame(x, t) /\ t.qual = x.qual /\ t.lev = x.lev /\ t.tmp = x.tmp
      /\ t.levErr = x.levErr /\ t.cnt = K
  <2>1. t = [x EXCEPT !.cnt = K]
      BY <1>2
  <2> QED  BY <1>1, <1>5, <2>1 DEF Frame, Data
<1>7. ASSUME Results(c, s) PROVE Results(c, t)
  <2>1. \A e \in Inputs : t.qual[e] \in {s.qual[e], "NA"}
      BY <1>4, <1>6
  <2>2. t.tmp = s.tmp /\ t.levErr = s.levErr
      BY <1>4, <1>6
  <2>3. \A e \in Inputs : Tested(t, e) => Tested(s, e)
      BY <1>3, <1>4, <1>6 DEF Tested
  <2> QED  BY <1>7, <2>1, <2>2, <2>3 DEF Results
<1> QED  BY <1>3, <1>4, <1>6, <1>7 DEF Moved, Frame

\* Starting a test (diDiagLev_Check1stTestStart, diDiagLev_CheckCycTestStart)
\* is a move of it that the other copy makes as well.
LEMMA StartStep ==
  ASSUME NEW c \in C, NEW s \in Data, NEW d \in Inputs, NEW wait \in Nat,
         NEW req \in LevStates, NEW exec \in Executing,
         req \in CyclicTest \/ exec \in CyclicTest => s.lev[d] \in CyclicTest,
         req # "EXEC_1ST"
  PROVE  Moved(c, s, CheckTestStart(s, d, wait, req, exec), d,
               AfterWait(s, d, wait, req, exec), CountKept(s, d, wait))
<1> DEFINE t == CheckTestStart(s, d, wait, req, exec)
           l == AfterWait(s, d, wait, req, exec)
           n == CountKept(s, d, wait)
<1>1. s.cnt[d] \in Nat /\ s.lev[d] \in LevStates /\ exec \in LevStates
    BY DEF Data, LevStates, CyclicTest, Executing
<1>2. l \in LevStates /\ n \in Nat
    BY <1>1 DEF AfterWait, CountKept
<1>3. t = [s EXCEPT !.lev[d] = l, !.cnt[d] = n]
  <2>1. s = [s EXCEPT !.lev[d] = s.lev[d], !.cnt[d] = s.cnt[d]]
      BY DEF Data
  <2>2. [s EXCEPT !.lev[d] = req] = [s EXCEPT !.lev[d] = req, !.cnt[d] = s.cnt[d]]
      BY DEF Data
  <2>3. CASE s.cnt[d] < wait
      BY <2>1, <2>3 DEF CheckTestStart, AfterWait, CountKept
  <2>4. CASE ~(s.cnt[d] < wait) /\ IsAnyTestOngoing(s)
      BY <2>2, <2>4 DEF CheckTestStart, AfterWait, CountKept
  <2>5. CASE ~(s.cnt[d] < wait) /\ ~IsAnyTestOngoing(s)
      BY <2>5 DEF CheckTestStart, AfterWait, CountKept
  <2> QED  BY <2>3, <2>4, <2>5
<1>4. l \in CyclicTest \/ (l = "EXEC_1ST" /\ n >= LevelEnd) => Tested(s, d)
  <2>1. CASE s.cnt[d] < wait
      BY <2>1 DEF Tested, AfterWait, CountKept
  <2>2. CASE ~(s.cnt[d] < wait) /\ IsAnyTestOngoing(s)
      BY <2>2 DEF Tested, AfterWait, CountKept
  <2>3. CASE ~(s.cnt[d] < wait) /\ ~IsAnyTestOngoing(s)
    <3>1. l = exec /\ ~(n >= LevelEnd)
        BY <2>3 DEF AfterWait, CountKept, LevelEnd
    <3> QED  BY <3>1 DEF Tested
  <2> QED  BY <2>1, <2>2, <2>3
<1> HIDE DEF t, l, n
<1>5. Moved(c, s, t, d, l, n)
    BY <1>2, <1>3, <1>4, TestMoves
<1> QED  BY <1>5 DEF t, l, n

\* Two moves of a test are one.
LEMMA MovedTwice ==
  ASSUME NEW c, NEW s \in Data, NEW t, NEW u, NEW d \in Inputs, NEW k, NEW l, NEW m, NEW n,
         Moved(c, s, t, d, k, m), Moved(c, t, u, d, l, n)
  PROVE  Moved(c, s, u, d, l, n)
BY DEF Moved, Frame, Data

\* Waiting for a test, which sets its pulse when it starts, is such a move, too.
LEMMA WaitStep ==
  ASSUME NEW c \in C, NEW s \in Data, NEW d \in Inputs, NEW wait \in Nat,
         NEW req \in LevStates, NEW exec \in Executing,
         req \in CyclicTest \/ exec \in CyclicTest => s.lev[d] \in CyclicTest,
         req # "EXEC_1ST", req # exec, s.lev[d] \notin {"EXEC_1ST", exec}
  PROVE  Moved(c, s, WaitForTest(c, s, d, wait, req, exec), d,
               AfterWait(s, d, wait, req, exec), CountAfterWait(s, d, wait))
<1> DEFINE t == WaitForTest(c, s, d, wait, req, exec)
           u == CheckTestStart(s, d, wait, req, exec)
           l == AfterWait(s, d, wait, req, exec)
           n == CountKept(s, d, wait)
<1>1. Moved(c, s, u, d, l, n)
    BY StartStep
<1>2. t = IF u.lev[d] = exec THEN diDiagLev_ExecTest(c, u, d) ELSE [u EXCEPT !.cnt[d] = @ + 1]
    BY DEF WaitForTest
<1> HIDE DEF t, u
<1>3. u \in Data /\ u.lev[d] = l /\ u.cnt[d] = n
    BY <1>1 DEF Moved, Frame, Data
<1>4. CASE s.cnt[d] < wait \/ IsAnyTestOngoing(s)
  <2>1. l # exec /\ l # "EXEC_1ST" /\ n = s.cnt[d] /\ n + 1 \in Nat /\ l \in LevStates
      BY <1>4 DEF AfterWait, CountKept, Data
  <2>2. t = [u EXCEPT !.lev[d] = l, !.cnt[d] = n + 1]
    <3>1. u = [u EXCEPT !.lev[d] = l]
        BY <1>3 DEF Data
    <3> HIDE DEF l, n
    <3> QED  BY <1>2, <1>3, <2>1, <3>1
  <2>3. l \in CyclicTest \/ (l = "EXEC_1ST" /\ n + 1 >= LevelEnd) => Tested(u, d)
      BY <1>3, <2>1 DEF Tested
  <2>4. Moved(c, u, t, d, l, n + 1)
    <3> DEFINE m == n + 1
    <3> HIDE DEF m, l
    <3>1. Moved(c, u, t, d, l, m)
        BY <1>3, <2>1, <2>2, <2>3, TestMoves DEF m
    <3> QED  BY <3>1 DEF m
  <2>5. Moved(c, s, t, d, l, n + 1)
      BY <1>1, <2>4, MovedTwice
  <2>6. n + 1 = CountAfterWait(s, d, wait)
      BY <1>4, <2>1 DEF CountAfterWait
  <2> QED  BY <2>5, <2>6 DEF t
<1>5. CASE ~(s.cnt[d] < wait \/ IsAnyTestOngoing(s))
  <2>1. u.lev[d] = exec /\ u.cnt[d] = 0 /\ l = exec /\ CountAfterWait(s, d, wait) = 1
      BY <1>3, <1>5 DEF AfterWait, CountKept, CountAfterWait
  <2>2. Moved(c, u, t, d, exec, 1)
    <3>1. LevTestOngoing(u, d)
        BY <2>1 DEF LevTestOngoing, Executing
    <3>2. t = diDiagLev_ExecTest(c, u, d) /\ StepLev(u, d) = exec /\ StepCnt(u, d) = 1
        BY <1>2, <2>1 DEF StepLev, StepCnt, LevelEnd
    <3> QED  BY <1>3, <3>1, <3>2, LevTestStep
  <2>3. Moved(c, s, t, d, exec, 1)
      BY <1>1, <2>2, MovedTwice
  <2> QED  BY <2>1, <2>3 DEF t
<1> QED  BY <1>4, <1>5

\* The step of the test at an input, whatever its state (diDiagLev_HandleTestState)
NextLev(s, d) ==
  CASE s.lev[d] = "WAIT_1ST" -> AfterWait(s, d, FirstWait, "REQ_1ST", "EXEC_1ST")
    [] s.lev[d] = "REQ_1ST" -> AfterWait(s, d, FirstWait, "REQ_1ST", "EXEC_1ST")
    [] s.lev[d] = "WAIT_CYC" -> AfterWait(s, d, CycWait, "REQ_CYC", "EXEC_CYC")
    [] s.lev[d] = "REQ_CYC" -> AfterWait(s, d, CycWait, "REQ_CYC", "EXEC_CYC")
    [] OTHER -> StepLev(s, d)

NextCnt(s, d) ==
  CASE s.lev[d] = "WAIT_1ST" -> CountAfterWait(s, d, FirstWait)
    [] s.lev[d] = "REQ_1ST" -> CountKept(s, d, FirstWait)
    [] s.lev[d] = "WAIT_CYC" -> CountAfterWait(s, d, CycWait)
    [] s.lev[d] = "REQ_CYC" -> CountKept(s, d, CycWait)
    [] OTHER -> StepCnt(s, d)

\* diDiagLev_HandleTestState, in every state of the test: a move that depends on
\* what the copies have in common, after a first test's result has been cleared
LEMMA HandleStep ==
  ASSUME NEW c \in C, NEW s \in Data, NEW d \in Inputs
  PROVE  LET t == diDiagLev_HandleTestState(c, s, d)
             u == IF s.lev[d] = "WAIT_1ST" THEN [s EXCEPT !.qual[d] = "NA"] ELSE s
         IN  /\ u \in Data /\ Frame(s, u)
             /\ u.lev = s.lev /\ u.cnt = s.cnt
             /\ u.qual = IF s.lev[d] = "WAIT_1ST" THEN [s.qual EXCEPT ![d] = "NA"] ELSE s.qual
             /\ Results(c, s) => Results(c, u)
             /\ Moved(c, u, t, d, NextLev(s, d), NextCnt(s, d))
<1> DEFINE t == diDiagLev_HandleTestState(c, s, d)
           u == IF s.lev[d] = "WAIT_1ST" THEN [s EXCEPT !.qual[d] = "NA"] ELSE s
<1>1. s.lev[d] \in LevStates /\ FirstWait \in Nat /\ CycWait \in Nat
    BY CountsAssumption DEF Data, FirstWait
<1>2. /\ {"REQ_1ST", "REQ_CYC"} \subseteq LevStates /\ {"EXEC_1ST", "EXEC_CYC"} = Executing
      /\ {"WAIT_CYC", "REQ_CYC", "EXEC_CYC"} = CyclicTest
    BY DEF LevStates, FirstTest, CyclicTest, Executing
<1>3. /\ u \in Data /\ Frame(s, u) /\ u.lev = s.lev /\ u.cnt = s.cnt
      /\ u.qual = IF s.lev[d] = "WAIT_1ST" THEN [s.qual EXCEPT ![d] = "NA"] ELSE s.qual
      /\ Results(c, s) => Results(c, u)
  <2>1. CASE s.lev[d] = "WAIT_1ST"
    <3>1. u = [s EXCEPT !.qual[d] = "NA"]
        BY <2>1
    <3> HIDE DEF u
    <3>2. /\ Frame(s, u) /\ u.lev = s.lev /\ u.cnt = s.cnt /\ u.tmp = s.tmp /\ u.levErr = s.levErr
          /\ u.qual = [s.qual EXCEPT ![d] = "NA"]
        BY <3>1 DEF Frame, Data, Qualifiers
    <3>3. \A e \in Inputs : u.qual[e] \in {s.qual[e], "NA"}
        BY <3>2 DEF Data
    <3>4. Results(c, s) => Results(c, u)
        BY <3>2, <3>3 DEF Results, Tested
    <3> QED  BY <2>1, <3>2, <3>4 DEF Frame
  <2>2. CASE s.lev[d] # "WAIT_1ST"
      BY <2>2 DEF Frame
  <2> QED  BY <2>1, <2>2
<1>4. Moved(c, u, t, d, NextLev(s, d), NextCnt(s, d))
  <2>1. \A wait, req, exec : /\ AfterWait(u, d, wait, req, exec) = AfterWait(s, d, wait, req, exec)
                             /\ CountAfterWait(u, d, wait) = CountAfterWait(s, d, wait)
                             /\ CountKept(u, d, wait) = CountKept(s, d, wait)
    <3>1. IsAnyTestOngoing(s) <=> IsAnyTestOngoing(u)
        BY <1>3, Ongoing DEF Frame
    <3> HIDE DEF u
    <3> QED  BY <1>3, <3>1 DEF AfterWait, CountAfterWait, CountKept
  <2>2. CASE s.lev[d] = "WAIT_1ST"
    <3>1. t = WaitForTest(c, u, d, FirstWait, "REQ_1ST", "EXEC_1ST")
        BY <2>2 DEF diDiagLev_HandleTestState, LevTestOngoing
    <3>2. /\ NextLev(s, d) = AfterWait(u, d, FirstWait, "REQ_1ST", "EXEC_1ST")
          /\ NextCnt(s, d) = CountAfterWait(u, d, FirstWait)
      <4>1. /\ NextLev(s, d) = AfterWait(s, d, FirstWait, "REQ_1ST", "EXEC_1ST")
            /\ NextCnt(s, d) = CountAfterWait(s, d, FirstWait)
          BY <2>2 DEF NextLev, NextCnt
      <4> HIDE DEF u
      <4> QED  BY <2>1, <4>1
    <3> HIDE DEF t, u
    <3> QED  BY <1>1, <1>2, <1>3, <2>2, <3>1, <3>2, WaitStep
  <2>3. CASE s.lev[d] = "REQ_1ST"
    <3>1. t = CheckTestStart(u, d, FirstWait, "REQ_1ST", "EXEC_1ST")
        BY <2>3 DEF diDiagLev_HandleTestState, LevTestOngoing
    <3>2. /\ NextLev(s, d) = AfterWait(u, d, FirstWait, "REQ_1ST", "EXEC_1ST")
          /\ NextCnt(s, d) = CountKept(u, d, FirstWait)
      <4>1. /\ NextLev(s, d) = AfterWait(s, d, FirstWait, "REQ_1ST", "EXEC_1ST")
            /\ NextCnt(s, d) = CountKept(s, d, FirstWait)
          BY <2>3 DEF NextLev, NextCnt
      <4> HIDE DEF u
      <4> QED  BY <2>1, <4>1
    <3> HIDE DEF t, u
    <3> QED  BY <1>1, <1>2, <1>3, <2>3, <3>1, <3>2, StartStep
  <2>4. CASE s.lev[d] = "WAIT_CYC"
    <3>1. t = WaitForTest(c, u, d, CycWait, "REQ_CYC", "EXEC_CYC")
        BY <2>4 DEF diDiagLev_HandleTestState, LevTestOngoing
    <3>2. /\ NextLev(s, d) = AfterWait(u, d, CycWait, "REQ_CYC", "EXEC_CYC")
          /\ NextCnt(s, d) = CountAfterWait(u, d, CycWait)
      <4>1. /\ NextLev(s, d) = AfterWait(s, d, CycWait, "REQ_CYC", "EXEC_CYC")
            /\ NextCnt(s, d) = CountAfterWait(s, d, CycWait)
          BY <2>4 DEF NextLev, NextCnt
      <4> HIDE DEF u
      <4> QED  BY <2>1, <4>1
    <3> HIDE DEF t, u
    <3> QED  BY <1>1, <1>2, <1>3, <2>4, <3>1, <3>2, WaitStep
  <2>5. CASE s.lev[d] = "REQ_CYC"
    <3>1. t = CheckTestStart(u, d, CycWait, "REQ_CYC", "EXEC_CYC")
        BY <2>5 DEF diDiagLev_HandleTestState, LevTestOngoing
    <3>2. /\ NextLev(s, d) = AfterWait(u, d, CycWait, "REQ_CYC", "EXEC_CYC")
          /\ NextCnt(s, d) = CountKept(u, d, CycWait)
      <4>1. /\ NextLev(s, d) = AfterWait(s, d, CycWait, "REQ_CYC", "EXEC_CYC")
            /\ NextCnt(s, d) = CountKept(s, d, CycWait)
          BY <2>5 DEF NextLev, NextCnt
      <4> HIDE DEF u
      <4> QED  BY <2>1, <4>1
    <3> HIDE DEF t, u
    <3> QED  BY <1>1, <1>2, <1>3, <2>5, <3>1, <3>2, StartStep
  <2>6. CASE s.lev[d] \in Executing
    <3>1. /\ u = s /\ LevTestOngoing(s, d)
          /\ NextLev(s, d) = StepLev(s, d) /\ NextCnt(s, d) = StepCnt(s, d)
        BY <2>6 DEF Executing, LevTestOngoing, NextLev, NextCnt
    <3>2. t = diDiagLev_ExecTest(c, s, d)
        BY <2>6, <3>1 DEF Executing, diDiagLev_HandleTestState
    <3> HIDE DEF t, u
    <3> QED  BY <3>1, <3>2, LevTestStep
  <2> HIDE DEF t, u
  <2> QED  BY <1>1, <2>2, <2>3, <2>4, <2>5, <2>6 DEF LevStates, FirstTest, CyclicTest, Executing
<1> QED  BY <1>3, <1>4

-----------------------------------------------------------------------------

\* A step for input d keeps what concerns the results, and the other inputs.
Kept(c, s, t, d) ==
  /\ t \in Data
  /\ Results(c, s) => Results(c, t)
  /\ \A e \in Inputs \ {d} : t.lev[e] = s.lev[e] /\ t.cnt[e] = s.cnt[e] /\ t.qual[e] = s.qual[e]

\* The result of a test that has been executed is there.
Known(s, d) == Tested(s, d) => s.qual[d] # "NA"

\* Two steps for an input keep what each keeps.
LEMMA KeptTwice ==
  ASSUME NEW c, NEW s, NEW t, NEW u, NEW d, Kept(c, s, t, d), Kept(c, t, u, d)
  PROVE  Kept(c, s, u, d)
BY DEF Kept

\* New results alone do not unmake a result.
LEMMA ResultsKept ==
  ASSUME NEW c, NEW s, NEW t, NEW d \in Inputs, OnlyResults(s, t)
  PROVE  Kept(c, s, t, d) /\ (Known(s, d) => Known(t, d))
BY DEF OnlyResults, SameTests, Kept, Results, Known, Tested

\* The move of a test does not, either.
LEMMA MovedKept ==
  ASSUME NEW c, NEW s \in Data, NEW t, NEW d \in Inputs, NEW l, NEW n, Moved(c, s, t, d, l, n)
  PROVE  Kept(c, s, t, d)
BY DEF Moved, Kept, Frame, Data

\* Results that come in do not part the copies: what counts is the qualifier, and
\* that is exchanged first.
LEMMA ResultsAlike ==
  ASSUME NEW s, NEW o, NEW t, NEW u, Alike(s, o), OnlyResults(s, t), OnlyResults(o, u)
  PROVE  Alike(t, u)
BY DEF Alike, SameTests, OnlyResults

\* The same move in both copies does not part them.
LEMMA MovedAlike ==
  ASSUME NEW c, NEW e, NEW s, NEW o, NEW t, NEW u, NEW d, NEW l, NEW n,
         Alike(s, o), Moved(c, s, t, d, l, n), Moved(e, o, u, d, l, n)
  PROVE  Alike(t, u)
BY DEF Alike, SameTests, Moved, Frame

\* The copies decide alike about the next step of a test.
LEMMA NextAlike ==
  ASSUME NEW s, NEW o, NEW d, Alike(s, o)
  PROVE  NextLev(s, d) = NextLev(o, d) /\ NextCnt(s, d) = NextCnt(o, d)
<1>1. s.lev = o.lev /\ s.cnt = o.cnt /\ s.toExec = o.toExec
    BY DEF Alike, SameTests
<1>2. IsAnyTestOngoing(s) <=> IsAnyTestOngoing(o)
    BY <1>1, Ongoing
<1>3. /\ \A w, q, x : AfterWait(s, d, w, q, x) = AfterWait(o, d, w, q, x)
      /\ \A w : CountAfterWait(s, d, w) = CountAfterWait(o, d, w)
      /\ \A w : CountKept(s, d, w) = CountKept(o, d, w)
      /\ StepLev(s, d) = StepLev(o, d) /\ StepCnt(s, d) = StepCnt(o, d)
    BY <1>1, <1>2 DEF AfterWait, CountAfterWait, CountKept, StepLev, StepCnt
<1> QED  BY <1>1, <1>3 DEF NextLev, NextCnt

\* diDiagLev_HandleTestState does the same in both copies, though one sets the
\* pulse and the other reads it back.
LEMMA HandleAlike ==
  ASSUME NEW c \in C, NEW e \in C, NEW s \in Data, NEW o \in Data, NEW d \in Inputs, Alike(s, o)
  PROVE  Alike(diDiagLev_HandleTestState(c, s, d), diDiagLev_HandleTestState(e, o, d))
<1> DEFINE t == diDiagLev_HandleTestState(c, s, d)
           u == diDiagLev_HandleTestState(e, o, d)
           x == IF s.lev[d] = "WAIT_1ST" THEN [s EXCEPT !.qual[d] = "NA"] ELSE s
           y == IF o.lev[d] = "WAIT_1ST" THEN [o EXCEPT !.qual[d] = "NA"] ELSE o
<1>1. /\ Frame(s, x) /\ x.lev = s.lev /\ x.cnt = s.cnt
      /\ x.qual = IF s.lev[d] = "WAIT_1ST" THEN [s.qual EXCEPT ![d] = "NA"] ELSE s.qual
      /\ Moved(c, x, t, d, NextLev(s, d), NextCnt(s, d))
    BY HandleStep
<1>2. /\ Frame(o, y) /\ y.lev = o.lev /\ y.cnt = o.cnt
      /\ y.qual = IF o.lev[d] = "WAIT_1ST" THEN [o.qual EXCEPT ![d] = "NA"] ELSE o.qual
      /\ Moved(e, y, u, d, NextLev(o, d), NextCnt(o, d))
    BY HandleStep
<1> HIDE DEF t, u, x, y
<1>3. Alike(x, y)
  <2>1. s.lev = o.lev
      BY DEF Alike, SameTests
  <2>2. \A f \in Inputs : x.qual[f] = "ERR" <=> y.qual[f] = "ERR"
      BY <1>1, <1>2, <2>1 DEF Alike, Data
  <2> QED  BY <1>1, <1>2, <2>2 DEF Alike, SameTests, Frame
<1>4. Alike(t, u)
  <2>1. NextLev(s, d) = NextLev(o, d) /\ NextCnt(s, d) = NextCnt(o, d)
      BY NextAlike
  <2> QED  BY <1>1, <1>2, <1>3, <2>1, MovedAlike
<1> QED  BY <1>4 DEF t, u

\* It keeps the results, and after the first test the result is there.
LEMMA HandleKept ==
  ASSUME NEW c \in C, NEW s \in Data, NEW d \in Inputs,
         NEW t, t = diDiagLev_HandleTestState(c, s, d)
  PROVE  /\ Kept(c, s, t, d) /\ t.state = s.state
         /\ Known(s, d) /\ t.lev[d] \in CyclicTest => t.qual[d] # "NA"
<1> DEFINE x == IF s.lev[d] = "WAIT_1ST" THEN [s EXCEPT !.qual[d] = "NA"] ELSE s
<1>1. /\ x \in Data /\ Frame(s, x) /\ x.lev = s.lev /\ x.cnt = s.cnt
      /\ x.qual = IF s.lev[d] = "WAIT_1ST" THEN [s.qual EXCEPT ![d] = "NA"] ELSE s.qual
      /\ Results(c, s) => Results(c, x)
      /\ Moved(c, x, t, d, NextLev(s, d), NextCnt(s, d))
    BY HandleStep
<1> HIDE DEF x
<1>2. Kept(c, s, x, d)
    BY <1>1 DEF Kept, Frame, Data
<1>3. Kept(c, x, t, d)
    BY <1>1, MovedKept
<1>4. t.state = s.state /\ t.lev[d] = NextLev(s, d) /\ t.qual = x.qual
    BY <1>1 DEF Moved, Frame, Data
<1>5. ASSUME Known(s, d), t.lev[d] \in CyclicTest PROVE t.qual[d] # "NA"
  <2>1. s.lev[d] \in LevStates /\ s.cnt[d] \in Nat
      BY DEF Data
  <2>2. s.lev[d] # "WAIT_1ST" /\ Tested(s, d)
      BY <1>4, <1>5, <2>1 DEF NextLev, AfterWait, StepLev, Tested, CyclicTest, LevStates,
         FirstTest, LevelEnd
  <2> QED  BY <1>1, <1>4, <1>5, <2>2 DEF Known
<1> QED  BY <1>2, <1>3, <1>4, <1>5, KeptTwice

-----------------------------------------------------------------------------

\* The states of the tests of an input are reset (diDiag_RstTestStates).
TestsReset(s, t, d) ==
  /\ t \in Data
  /\ t.lev = [s.lev EXCEPT ![d] = "WAIT_1ST"] /\ t.cnt = [s.cnt EXCEPT ![d] = 0]
  /\ t.to = [s.to EXCEPT ![d] = "WAIT_1ST"]
  /\ t.state = s.state /\ t.last = s.last /\ t.waits = s.waits /\ t.value = s.value
  /\ t.toCnt = s.toCnt /\ t.toExec = s.toExec /\ t.toInc = s.toInc
  /\ t.qual = s.qual /\ t.tmp = s.tmp /\ t.levErr = s.levErr

\* diDiag_RstTestStates resets the states of the tests of its input and no more.
LEMMA RstTestStatesFacts ==
  ASSUME NEW s \in Data, NEW d \in Inputs
  PROVE  TestsReset(s, RstTestStates(s, d), d)
<1> DEFINE x == [s EXCEPT !.lev[d] = "WAIT_1ST"]
           y == [x EXCEPT !.cnt[d] = 0]
           z == [y EXCEPT !.to[d] = "WAIT_1ST"]
<1>1. RstTestStates(s, d) = z
    BY DEF RstTestStates
<1>2. /\ x \in Data /\ Frame(s, x) /\ x.lev = [s.lev EXCEPT ![d] = "WAIT_1ST"] /\ x.cnt = s.cnt
      /\ x.qual = s.qual /\ x.tmp = s.tmp /\ x.levErr = s.levErr
    BY DEF Frame, Data, LevStates, FirstTest
<1>3. /\ y \in Data /\ Frame(x, y) /\ y.cnt = [x.cnt EXCEPT ![d] = 0] /\ y.lev = x.lev
      /\ y.qual = x.qual /\ y.tmp = x.tmp /\ y.levErr = x.levErr
  <2> HIDE DEF x
  <2> QED  BY <1>2 DEF Frame, Data
<1>4. /\ z \in Data /\ z.to = [y.to EXCEPT ![d] = "WAIT_1ST"] /\ z.cnt = y.cnt /\ z.lev = y.lev
      /\ z.state = y.state /\ z.last = y.last /\ z.waits = y.waits /\ z.value = y.value
      /\ z.toCnt = y.toCnt /\ z.toExec = y.toExec /\ z.toInc = y.toInc
      /\ z.qual = y.qual /\ z.tmp = y.tmp /\ z.levErr = y.levErr
  <2> HIDE DEF y
  <2> QED  BY <1>3 DEF Frame, Data
<1> HIDE DEF x, y, z
<1> QED  BY <1>1, <1>2, <1>3, <1>4 DEF TestsReset, Frame

\* The error counters of an own input are reset (diErrHdl_rstErrCnt).
CountersReset(c, s, t, d) ==
  /\ t \in Data
  /\ SameTests(s, t) /\ s.value = t.value /\ s.qual = t.qual /\ s.tmp = t.tmp
  /\ t.levErr = IF Own(c, d) THEN [s.levErr EXCEPT ![Pair(d)] = ErrCntLimit] ELSE s.levErr

\* diErrHdl_rstErrCnt sets the counters of an own input so that the first failed
\* test is an error.
LEMMA RstErrCntFacts ==
  ASSUME NEW c, NEW s \in Data, NEW d \in Inputs
  PROVE  CountersReset(c, s, diErrHdl_rstErrCnt(c, s, d), d)
<1> DEFINE p == Pair(d)
           x == [s EXCEPT !.cons[p] = 0]
           y == [x EXCEPT !.toErr[p] = 0]
           z == [y EXCEPT !.shErr[p] = 0]
           w == [z EXCEPT !.levErr[p] = ErrCntLimit]
<1>0. p \in Pairs /\ 0 \in Nat /\ ErrCntLimit \in Nat
    BY InputFacts DEF ErrCntLimit
<1>1. CASE ~Own(c, d)
    BY <1>1 DEF CountersReset, diErrHdl_rstErrCnt, SameTests
<1>2. CASE Own(c, d)
  <2>1. diErrHdl_rstErrCnt(c, s, d) = w
      BY <1>2 DEF diErrHdl_rstErrCnt
  <2> HIDE DEF p
  <2>2. OnlyCounts(s, x)
      BY <1>0, ResultFields
  <2>3. x \in Data
      BY <2>2 DEF OnlyCounts, OnlyResults
  <2> HIDE DEF x
  <2>4. OnlyCounts(x, y)
      BY <1>0, <2>3, ResultFields
  <2>5. y \in Data
      BY <2>4 DEF OnlyCounts, OnlyResults
  <2> HIDE DEF y
  <2>6. OnlyCounts(y, z)
      BY <1>0, <2>5, ResultFields
  <2> HIDE DEF z
  <2>7. z \in Data
      BY <2>6 DEF OnlyCounts, OnlyResults
  <2>8. /\ w \in Data /\ SameTests(z, w) /\ w.value = z.value /\ w.qual = z.qual /\ w.tmp = z.tmp
        /\ w.levErr = [z.levErr EXCEPT ![p] = ErrCntLimit]
      BY <1>0, <2>7 DEF Data, SameTests
  <2> HIDE DEF w
  <2> QED  BY <1>2, <2>1, <2>2, <2>4, <2>6, <2>8 DEF CountersReset, SameTests, OnlyCounts,
         OnlyResults, p
<1> QED  BY <1>1, <1>2

\* Only the state of input d changes.
StateSet(s, t, d, v) ==
  /\ t \in Data /\ t.state = [s.state EXCEPT ![d] = v]
  /\ t.last = s.last /\ t.waits = s.waits /\ t.value = s.value /\ t.lev = s.lev
  /\ t.cnt = s.cnt /\ t.to = s.to /\ t.toCnt = s.toCnt /\ t.toExec = s.toExec
  /\ t.toInc = s.toInc /\ t.qual = s.qual /\ t.tmp = s.tmp /\ t.levErr = s.levErr

\* Assigning the state of an input changes no more than that.
LEMMA StateField ==
  ASSUME NEW s \in Data, NEW d \in Inputs, NEW v \in States
  PROVE  StateSet(s, [s EXCEPT !.state[d] = v], d, v)
<1> DEFINE S == [s.state EXCEPT ![d] = v]
<1>1. S \in [Inputs -> States] /\ [s EXCEPT !.state[d] = v] = [s EXCEPT !.state = S]
    BY DEF Data
<1> HIDE DEF S
<1>2. LET t == [s EXCEPT !.state = S]
      IN  /\ t \in Data /\ t.state = S
          /\ t.last = s.last /\ t.waits = s.waits /\ t.value = s.value /\ t.lev = s.lev
          /\ t.cnt = s.cnt /\ t.to = s.to /\ t.toCnt = s.toCnt /\ t.toExec = s.toExec
          /\ t.toInc = s.toInc /\ t.qual = s.qual /\ t.tmp = s.tmp /\ t.levErr = s.levErr
    BY <1>1 DEF Data
<1> QED  BY <1>1, <1>2 DEF StateSet, S

\* From s to t, input d goes back to inactive; its result is reset or not.
BackToInactive(s, t, d) ==
  /\ t.lev = [s.lev EXCEPT ![d] = "WAIT_1ST"] /\ t.cnt = [s.cnt EXCEPT ![d] = 0]
  /\ t.to = [s.to EXCEPT ![d] = "WAIT_1ST"]
  /\ t.state = [s.state EXCEPT ![d] = "INACTIVE"]
  /\ t.last = s.last /\ t.waits = s.waits /\ t.value = s.value
  /\ t.toCnt = s.toCnt /\ t.toExec = s.toExec /\ t.toInc = s.toInc

\* An input that goes back to inactive forgets its tests, and a test it has not
\* had needs no result (diState_eActiveState).
LEMMA ToInactiveFacts ==
  ASSUME NEW c \in C, NEW s \in Data, NEW d \in Inputs, NEW t, t = ToInactive(c, s, d)
  PROVE  /\ Kept(c, s, t, d) /\ BackToInactive(s, t, d) /\ t.qual = s.qual
         /\ Known(t, d)
<1> DEFINE x == RstTestStates(s, d)
           y == diErrHdl_rstErrCnt(c, x, d)
<1>1. TestsReset(s, x, d)
    BY RstTestStatesFacts
<1>2. CountersReset(c, x, y, d)
    BY <1>1, RstErrCntFacts DEF TestsReset
<1>3. t = [y EXCEPT !.state[d] = "INACTIVE"]
    BY DEF ToInactive
<1> HIDE DEF x, y
<1>4. y \in Data
    BY <1>2 DEF CountersReset
<1>5. StateSet(y, t, d, "INACTIVE")
    BY <1>3, <1>4, StateField DEF States
<1>6. BackToInactive(s, t, d) /\ t.qual = s.qual /\ t.tmp = s.tmp
      /\ t.levErr = IF Own(c, d) THEN [s.levErr EXCEPT ![Pair(d)] = ErrCntLimit] ELSE s.levErr
    BY <1>1, <1>2, <1>5 DEF StateSet, BackToInactive, TestsReset, CountersReset, SameTests
<1>7. ~Tested(t, d)
    BY <1>6 DEF BackToInactive, Tested, Data, CyclicTest
<1>8. Results(c, s) => Results(c, t)
  <2>1. \A e \in Inputs : t.levErr[Pair(e)] \in {s.levErr[Pair(e)], ErrCntLimit}
      BY <1>6, InputFacts DEF Data
  <2>2. \A e \in Inputs : Tested(t, e) => Tested(s, e)
      BY <1>6, <1>7 DEF BackToInactive, Tested, Data
  <2> QED  BY <1>6, <2>1, <2>2 DEF Results, ErrCntLimit
<1>9. Kept(c, s, t, d)
    BY <1>5, <1>6, <1>8 DEF StateSet, Kept, BackToInactive, Data
<1> QED  BY <1>6, <1>7, <1>9 DEF Known

\* Both copies going back do not part.
LEMMA InactiveAlike ==
  ASSUME NEW s, NEW o, NEW t, NEW u, NEW d, Alike(s, o),
         BackToInactive(s, t, d), BackToInactive(o, u, d),
         \A f \in Inputs : t.qual[f] = "ERR" <=> u.qual[f] = "ERR"
  PROVE  Alike(t, u)
BY DEF Alike, SameTests, BackToInactive

\* The state of an input says nothing of its results.
LEMMA StateSetFacts ==
  ASSUME NEW c, NEW s \in Data, NEW t, NEW d \in Inputs, NEW v, StateSet(s, t, d, v)
  PROVE  Kept(c, s, t, d) /\ (Known(s, d) => Known(t, d))
BY DEF StateSet, Kept, Results, Known, Tested

\* The same state in both copies does not part them.
LEMMA StateSetAlike ==
  ASSUME NEW s, NEW o, NEW t, NEW u, NEW d, NEW v,
         Alike(s, o), StateSet(s, t, d, v), StateSet(o, u, d, v)
  PROVE  Alike(t, u)
BY DEF Alike, SameTests, StateSet

\* Both copies see the same tests going on at an input.
LEMMA OngoingAlike ==
  ASSUME NEW s, NEW o, Alike(s, o)
  PROVE  \A d : IsTestAtPinOngoing(s, d) <=> IsTestAtPinOngoing(o, d)
BY Ongoing DEF Alike, SameTests

\* The test of the consistency does the same in both copies as far as they decide
\* by it: its result is in eDiDiagQualifierTmp until the next exchange.
LEMMA ConsStep ==
  ASSUME NEW c, NEW s \in Data, NEW o \in Data, NEW d \in Inputs, Alike(s, o), Known(s, d)
  PROVE  LET t == HandleConsTest(s, d)
         IN  /\ t \in Data /\ Kept(c, s, t, d) /\ Known(t, d)
             /\ Alike(t, HandleConsTest(o, d))
<1>1. OnlyResults(s, HandleConsTest(s, d)) /\ OnlyResults(o, HandleConsTest(o, d))
    BY ConsResults
<1>2. HandleConsTest(s, d) \in Data
    BY <1>1 DEF OnlyResults
<1> QED  BY <1>1, <1>2, ResultsKept, ResultsAlike

\* The two copies s and o of the data handle input d in the same way.
Together(c, s, o, t, u, d) == t \in Data /\ Kept(c, s, t, d) /\ Alike(t, u)

\* Both copies handle an inactive input alike (diState_eInactiveState).
LEMMA InactiveStateStep ==
  ASSUME NEW c \in C, NEW s \in Data, NEW o \in Data, NEW d \in Inputs, Alike(s, o), Known(s, d)
  PROVE  Together(c, s, o, InactiveState(s, d), InactiveState(o, d), d)
<1> DEFINE t == HandleConsTest(s, d)
           u == HandleConsTest(o, d)
<1>1. t \in Data /\ Kept(c, s, t, d) /\ Alike(t, u)
    BY ConsStep
<1>2. u \in Data
    BY ConsResults DEF OnlyResults
<1>3. s.value = o.value
    BY DEF Alike
<1>4. CASE s.value[d]
  <2> DEFINE x == [t EXCEPT !.state[d] = "WAIT_TEST"]
             y == [u EXCEPT !.state[d] = "WAIT_TEST"]
  <2>1. InactiveState(s, d) = x /\ InactiveState(o, d) = y
      BY <1>3, <1>4 DEF InactiveState
  <2> HIDE DEF t, u
  <2>2. StateSet(t, x, d, "WAIT_TEST") /\ StateSet(u, y, d, "WAIT_TEST")
      BY <1>1, <1>2, StateField DEF States
  <2> HIDE DEF x, y
  <2>3. x \in Data /\ Kept(c, t, x, d) /\ Alike(x, y)
    <3>1. x \in Data
        BY <2>2 DEF StateSet
    <3> QED  BY <1>1, <2>2, <3>1, StateSetFacts, StateSetAlike
  <2>4. Kept(c, s, x, d)
      BY <1>1, <2>3, KeptTwice
  <2> QED  BY <2>1, <2>3, <2>4 DEF Together
<1>5. CASE ~s.value[d]
    BY <1>1, <1>3, <1>5 DEF InactiveState, Together
<1> QED  BY <1>4, <1>5

\* Both send an input back to inactive alike.
LEMMA InactiveStep ==
  ASSUME NEW c \in C, NEW e \in C, NEW s \in Data, NEW o \in Data, NEW d \in Inputs, Alike(s, o)
  PROVE  /\ Together(c, s, o, ToInactive(c, s, d), ToInactive(e, o, d), d)
         /\ Known(ToInactive(c, s, d), d)
<1> DEFINE t == ToInactive(c, s, d)
           u == ToInactive(e, o, d)
<1>1. Kept(c, s, t, d) /\ BackToInactive(s, t, d) /\ t.qual = s.qual /\ Known(t, d)
    BY ToInactiveFacts
<1>2. BackToInactive(o, u, d) /\ u.qual = o.qual
    BY ToInactiveFacts
<1> HIDE DEF t, u
<1>3. \A f \in Inputs : t.qual[f] = "ERR" <=> u.qual[f] = "ERR"
    BY <1>1, <1>2 DEF Alike
<1>4. Alike(t, u)
    BY <1>1, <1>2, <1>3, InactiveAlike
<1> QED  BY <1>1, <1>4 DEF Together, Kept, t, u

\* Both handle a valid input alike.
LEMMA ActiveStateStep ==
  ASSUME NEW c \in C, NEW e \in C, NEW s \in Data, NEW o \in Data, NEW d \in Inputs,
         Alike(s, o), Known(s, d), Known(o, d)
  PROVE  Together(c, s, o, ActiveState(c, s, d), ActiveState(e, o, d), d)
<1>1. IsTestAtPinOngoing(s, d) <=> IsTestAtPinOngoing(o, d)
    BY OngoingAlike
<1>2. CASE IsTestAtPinOngoing(s, d)
  <2>1. /\ ActiveState(c, s, d) = diDiagLev_HandleTestState(c, s, d)
        /\ ActiveState(e, o, d) = diDiagLev_HandleTestState(e, o, d)
      BY <1>1, <1>2 DEF ActiveState
  <2>2. Kept(c, s, diDiagLev_HandleTestState(c, s, d), d)
      BY HandleKept
  <2> QED  BY <2>1, <2>2, HandleAlike DEF Together, Kept
<1>3. CASE ~IsTestAtPinOngoing(s, d)
  <2> DEFINE t == HandleConsTest(s, d)
             u == HandleConsTest(o, d)
  <2>1. t \in Data /\ Kept(c, s, t, d) /\ Alike(t, u) /\ u \in Data
      BY ConsStep, ConsResults DEF OnlyResults
  <2>2. s.value = o.value
      BY DEF Alike
  <2>3. CASE s.value[d]
    <3>1. /\ ActiveState(c, s, d) = diDiagLev_HandleTestState(c, t, d)
          /\ ActiveState(e, o, d) = diDiagLev_HandleTestState(e, u, d)
        BY <1>1, <1>3, <2>2, <2>3 DEF ActiveState
    <3> HIDE DEF t, u
    <3>2. Kept(c, t, diDiagLev_HandleTestState(c, t, d), d)
        BY <2>1, HandleKept
    <3>3. Alike(diDiagLev_HandleTestState(c, t, d), diDiagLev_HandleTestState(e, u, d))
        BY <2>1, HandleAlike
    <3>4. Kept(c, s, diDiagLev_HandleTestState(c, t, d), d)
        BY <2>1, <3>2, KeptTwice
    <3> QED  BY <3>1, <3>3, <3>4 DEF Together, Kept
  <2>4. CASE ~s.value[d]
    <3>1. ActiveState(c, s, d) = ToInactive(c, t, d) /\ ActiveState(e, o, d) = ToInactive(e, u, d)
        BY <1>1, <1>3, <2>2, <2>4 DEF ActiveState
    <3> HIDE DEF t, u
    <3>2. Together(c, t, u, ToInactive(c, t, d), ToInactive(e, u, d), d)
        BY <2>1, InactiveStep
    <3> QED  BY <2>1, <3>1, <3>2, KeptTwice DEF Together
  <2> QED  BY <2>3, <2>4
<1> QED  BY <1>2, <1>3

\* Both handle an input that waits for its first test alike: it gets valid in both,
\* for its result is known in both and an error in both or in none.
LEMMA WaitTestStateStep ==
  ASSUME NEW c \in C, NEW e \in C, NEW s \in Data, NEW o \in Data, NEW d \in Inputs,
         Alike(s, o), Known(s, d), Known(o, d)
  PROVE  Together(c, s, o, ActiveWaitTestState(c, s, d), ActiveWaitTestState(e, o, d), d)
<1> DEFINE First(k, x) == IF IsTestAtPinOngoing(x, d) THEN x
                          ELSE HandleConsTest(IF x.value[d] THEN x ELSE ToInactive(k, x, d), d)
           a == First(c, s)
           b == First(e, o)
           t == diDiagLev_HandleTestState(c, a, d)
           u == diDiagLev_HandleTestState(e, b, d)
           Passed(x) == x.lev[d] \in CyclicTest /\ x.qual[d] = "OK"
<1>1. a \in Data /\ b \in Data /\ Kept(c, s, a, d) /\ Alike(a, b) /\ Known(a, d) /\ Known(b, d)
  <2>1. IsTestAtPinOngoing(s, d) <=> IsTestAtPinOngoing(o, d)
      BY OngoingAlike
  <2>2. s.value = o.value /\ Alike(o, s)
      BY DEF Alike, SameTests
  <2>3. CASE IsTestAtPinOngoing(s, d)
    <3>1. a = s /\ b = o
        BY <2>1, <2>3
    <3>2. Kept(c, s, s, d)
        BY DEF Kept
    <3> HIDE DEF a, b
    <3> QED  BY <3>1, <3>2
  <2>4. CASE ~IsTestAtPinOngoing(s, d) /\ s.value[d]
    <3>1. a = HandleConsTest(s, d) /\ b = HandleConsTest(o, d)
        BY <2>1, <2>2, <2>4
    <3> HIDE DEF a, b
    <3> QED  BY <2>2, <3>1, ConsStep
  <2>5. CASE ~IsTestAtPinOngoing(s, d) /\ ~s.value[d]
    <3> DEFINE x == ToInactive(c, s, d)
               y == ToInactive(e, o, d)
    <3>1. a = HandleConsTest(x, d) /\ b = HandleConsTest(y, d)
        BY <2>1, <2>2, <2>5
    <3>2. x \in Data /\ Kept(c, s, x, d) /\ Alike(x, y) /\ Known(x, d)
        BY InactiveStep DEF Together
    <3>3. y \in Data /\ Alike(y, x) /\ Known(y, d)
        BY <2>2, InactiveStep DEF Together
    <3> HIDE DEF a, b, x, y
    <3>4. a \in Data /\ Kept(c, x, a, d) /\ Known(a, d) /\ Alike(a, b)
        BY <3>1, <3>2, <3>3, ConsStep
    <3>5. b \in Data /\ Known(b, d)
        BY <3>1, <3>2, <3>3, ConsStep
    <3> QED  BY <3>2, <3>4, <3>5, KeptTwice
  <2> HIDE DEF a, b
  <2> QED  BY <2>3, <2>4, <2>5
<1>2. /\ ActiveWaitTestState(c, s, d) = IF Passed(t) THEN [t EXCEPT !.state[d] = "VALID"] ELSE t
      /\ ActiveWaitTestState(e, o, d) = IF Passed(u) THEN [u EXCEPT !.state[d] = "VALID"] ELSE u
    BY DEF ActiveWaitTestState, CyclicTest
<1> HIDE DEF a, b
<1>3. Kept(c, a, t, d) /\ Kept(e, b, u, d) /\ Alike(t, u)
    BY <1>1, HandleKept, HandleAlike
<1>4. t \in Data /\ u \in Data /\ Kept(c, s, t, d)
    BY <1>1, <1>3, KeptTwice DEF Kept
<1>5. Passed(t) <=> Passed(u)
  <2>1. /\ t.lev[d] \in CyclicTest => t.qual[d] # "NA"
        /\ u.lev[d] \in CyclicTest => u.qual[d] # "NA"
      BY <1>1, HandleKept
  <2>2. t.lev = u.lev /\ (t.qual[d] = "ERR" <=> u.qual[d] = "ERR")
      BY <1>3 DEF Alike, SameTests
  <2>3. t.qual[d] \in Qualifiers /\ u.qual[d] \in Qualifiers
      BY <1>4 DEF Data
  <2> HIDE DEF t, u
  <2> QED  BY <2>1, <2>2, <2>3 DEF Qualifiers
<1>6. CASE Passed(t)
  <2> DEFINE x == [t EXCEPT !.state[d] = "VALID"]
             y == [u EXCEPT !.state[d] = "VALID"]
  <2>1. ActiveWaitTestState(c, s, d) = x /\ ActiveWaitTestState(e, o, d) = y
      BY <1>2, <1>5, <1>6
  <2> HIDE DEF t, u
  <2>2. StateSet(t, x, d, "VALID") /\ StateSet(u, y, d, "VALID")
      BY <1>4, StateField DEF States
  <2> HIDE DEF x, y
  <2>3. x \in Data /\ Kept(c, t, x, d) /\ Alike(x, y)
    <3>1. x \in Data
        BY <2>2 DEF StateSet
    <3> QED  BY <1>3, <1>4, <2>2, <3>1, StateSetFacts, StateSetAlike
  <2> QED  BY <1>4, <2>1, <2>3, KeptTwice DEF Together
<1>7. CASE ~Passed(t)
  <2>1. ActiveWaitTestState(c, s, d) = t /\ ActiveWaitTestState(e, o, d) = u
      BY <1>2, <1>5, <1>7
  <2> QED  BY <1>3, <1>4, <2>1 DEF Together
<1> QED  BY <1>6, <1>7

\* Both handle an erroneous input alike, and take the same edge of the reset flag.
LEMMA ErrStateStep ==
  ASSUME NEW c \in C, NEW e \in C, NEW s \in Data, NEW o \in Data, NEW d \in Inputs,
         Alike(s, o), reset \in BOOLEAN
  PROVE  Together(c, s, o, ErrState(c, s, d), ErrState(e, o, d), d)
<1> DEFINE Resets(x) == resetAll \/ (reset /\ ~x.last[d])
           Rst(x) == RstTestStates(x, d)
           Cnt(k, x) == diErrHdl_rstErrCnt(k, diErrHdl_rstErr(Rst(x), d), d)
           Res(k, x) == IF Resets(x) THEN [Cnt(k, x) EXCEPT !.state[d] = "INACTIVE"] ELSE Rst(x)
           \* What one of the copies makes of input d
           Done(k, x, t) ==
             /\ Kept(k, x, t, d)
             /\ t.lev = [x.lev EXCEPT ![d] = "WAIT_1ST"] /\ t.cnt = [x.cnt EXCEPT ![d] = 0]
             /\ t.to = [x.to EXCEPT ![d] = "WAIT_1ST"]
             /\ t.state = IF Resets(x) THEN [x.state EXCEPT ![d] = "INACTIVE"] ELSE x.state
             /\ t.qual = IF Resets(x) THEN [x.qual EXCEPT ![d] = "NA"] ELSE x.qual
             /\ t.last = [x.last EXCEPT ![d] = reset]
             /\ t.waits = x.waits /\ t.value = x.value
             /\ t.toCnt = x.toCnt /\ t.toExec = x.toExec /\ t.toInc = x.toInc
<1>1. ASSUME NEW k \in C, NEW x \in Data PROVE Done(k, x, ErrState(k, x, d))
  <2> DEFINE r == Rst(x)
             q == diErrHdl_rstErr(r, d)
             n == Cnt(k, x)
             u == Res(k, x)
             t == ErrState(k, x, d)
  <2>1. TestsReset(x, r, d)
      BY RstTestStatesFacts
  <2>2. t = [u EXCEPT !.last[d] = reset]
      BY DEF ErrState
  <2>3. q = [r EXCEPT !.qual[d] = "NA", !.tmp[d] = "NA"]
      BY DEF diErrHdl_rstErr
  <2>4. n = diErrHdl_rstErrCnt(k, q, d)
      OBVIOUS
  <2>5. u = IF Resets(x) THEN [n EXCEPT !.state[d] = "INACTIVE"] ELSE r
      OBVIOUS
  <2> HIDE DEF r, q, n, u, t
  <2>6. r \in Data
      BY <2>1 DEF TestsReset
  <2>7. /\ q \in Data /\ SameTests(r, q) /\ q.value = r.value
        /\ q.qual = [r.qual EXCEPT ![d] = "NA"] /\ q.tmp = [r.tmp EXCEPT ![d] = "NA"]
        /\ q.levErr = r.levErr
    <3> DEFINE y == [r EXCEPT !.qual[d] = "NA"]
               z == [y EXCEPT !.tmp[d] = "NA"]
    <3>1. /\ y \in Data /\ SameTests(r, y) /\ y.value = r.value
          /\ y.qual = [r.qual EXCEPT ![d] = "NA"] /\ y.tmp = r.tmp /\ y.levErr = r.levErr
        BY <2>6 DEF Data, SameTests, Qualifiers
    <3>2. q = z
        BY <2>3
    <3> HIDE DEF y
    <3>3. /\ z \in Data /\ SameTests(y, z) /\ z.value = y.value
          /\ z.qual = y.qual /\ z.tmp = [y.tmp EXCEPT ![d] = "NA"] /\ z.levErr = y.levErr
        BY <3>1 DEF Data, SameTests, Qualifiers
    <3> HIDE DEF z
    <3> QED  BY <3>1, <3>2, <3>3 DEF SameTests
  <2>8. CountersReset(k, q, n, d)
      BY <2>4, <2>7, RstErrCntFacts
  <2> DEFINE Same(y) ==
        /\ y \in Data
        /\ y.lev = [x.lev EXCEPT ![d] = "WAIT_1ST"] /\ y.cnt = [x.cnt EXCEPT ![d] = 0]
        /\ y.to = [x.to EXCEPT ![d] = "WAIT_1ST"]
        /\ y.last = x.last /\ y.waits = x.waits /\ y.value = x.value
        /\ y.toCnt = x.toCnt /\ y.toExec = x.toExec /\ y.toInc = x.toInc
             Goal ==
        /\ Same(u) /\ (Results(k, x) => Results(k, u))
        /\ u.state = IF Resets(x) THEN [x.state EXCEPT ![d] = "INACTIVE"] ELSE x.state
        /\ u.qual = IF Resets(x) THEN [x.qual EXCEPT ![d] = "NA"] ELSE x.qual
  <2>9. ASSUME Resets(x) PROVE Goal
    <3>1. n \in Data /\ u = [n EXCEPT !.state[d] = "INACTIVE"]
        BY <2>5, <2>8, <2>9 DEF CountersReset
    <3>2. StateSet(n, u, d, "INACTIVE")
        BY <3>1, StateField DEF States
    <3>3. /\ Same(u)
          /\ u.state = [x.state EXCEPT ![d] = "INACTIVE"]
          /\ u.qual = [x.qual EXCEPT ![d] = "NA"] /\ u.tmp = [x.tmp EXCEPT ![d] = "NA"]
          /\ u.levErr = IF Own(k, d) THEN [x.levErr EXCEPT ![Pair(d)] = ErrCntLimit] ELSE x.levErr
        BY <2>1, <2>7, <2>8, <3>2 DEF TestsReset, SameTests, CountersReset, StateSet
    <3>4. ASSUME Results(k, x) PROVE Results(k, u)
      <4>1. SUFFICES ASSUME NEW f \in Inputs, Own(k, f)
                     PROVE  /\ u.tmp[f] = "NA" => u.levErr[Pair(f)] >= ErrCntLimit
                                                 /\ u.qual[f] # "ERR"
                            /\ Tested(u, f) => u.tmp[f] # "NA"
          BY DEF Results
      <4>2. Pair(f) \in Pairs
          BY InputFacts
      <4>3. CASE f = d
          BY <3>3, <4>1, <4>2, <4>3 DEF Data, Tested, CyclicTest, ErrCntLimit
      <4>4. CASE f # d
        <5>1. /\ u.tmp[f] = x.tmp[f] /\ u.qual[f] = x.qual[f]
              /\ u.lev[f] = x.lev[f] /\ u.cnt[f] = x.cnt[f]
            BY <3>3, <4>4 DEF Data
        <5>2. u.levErr[Pair(f)] \in {x.levErr[Pair(f)], ErrCntLimit}
            BY <3>3, <4>2 DEF Data
        <5> QED  BY <3>4, <4>1, <5>1, <5>2 DEF Results, Tested, ErrCntLimit
      <4> QED  BY <4>3, <4>4
    <3> QED  BY <2>9, <3>3, <3>4
  <2>10. ASSUME ~Resets(x) PROVE Goal
    <3>1. u = r
        BY <2>5, <2>10
    <3>2. Same(u) /\ u.state = x.state /\ u.qual = x.qual /\ u.tmp = x.tmp /\ u.levErr = x.levErr
        BY <2>1, <3>1 DEF TestsReset
    <3>3. \A f \in Inputs : Tested(u, f) => Tested(x, f)
        BY <3>2 DEF Data, Tested, CyclicTest
    <3> QED  BY <2>10, <3>2, <3>3 DEF Results
  <2>11. Goal
      BY <2>9, <2>10
  <2>12. /\ t \in Data /\ t.last = [u.last EXCEPT ![d] = reset]
         /\ t.state = u.state /\ t.waits = u.waits /\ t.value = u.value /\ t.lev = u.lev
         /\ t.cnt = u.cnt /\ t.to = u.to /\ t.toCnt = u.toCnt /\ t.toExec = u.toExec
         /\ t.toInc = u.toInc /\ t.qual = u.qual /\ t.tmp = u.tmp /\ t.levErr = u.levErr
      BY <2>2, <2>11 DEF Data
  <2>13. Results(k, u) => Results(k, t)
      BY <2>12 DEF Results, Tested
  <2>14. Kept(k, x, t, d)
    <3> HIDE DEF Resets
    <3> QED  BY <2>11, <2>12, <2>13 DEF Kept, Data
  <2> QED  BY <2>11, <2>12, <2>14 DEF t
<1>2. Done(c, s, ErrState(c, s, d)) /\ Done(e, o, ErrState(e, o, d))
    BY <1>1
<1>3. Resets(s) <=> Resets(o)
    BY DEF Alike, SameTests
<1> DEFINE t == ErrState(c, s, d)
           u == ErrState(e, o, d)
<1> HIDE DEF Resets, t, u
<1>4. \A f \in Inputs : t.qual[f] = "ERR" <=> u.qual[f] = "ERR"
    BY <1>2, <1>3 DEF Alike, Data, t, u
<1>5. Alike(t, u)
    BY <1>2, <1>3, <1>4 DEF Alike, SameTests, t, u
<1> QED  BY <1>2, <1>5 DEF Together, Kept, t, u

-----------------------------------------------------------------------------

\* Doing nothing in both copies does not part them.
LEMMA SameTogether ==
  ASSUME NEW c, NEW s \in Data, NEW o, NEW d, Alike(s, o)
  PROVE  Together(c, s, o, s, o, d)
BY DEF Together, Kept

\* ProcessDI up to the state of the input
Handled(c, s, d) ==
  CASE s.state[d] = "INACTIVE" -> IF s.waits THEN s ELSE InactiveState(s, d)
    [] s.state[d] = "WAIT_TEST" -> ActiveWaitTestState(c, s, d)
    [] s.state[d] = "VALID" -> ActiveState(c, s, d)
    [] s.state[d] = "ERROR" -> ErrState(c, s, d)
    [] s.state[d] = "DONT_USE" -> s

\* Both copies handle an input alike, whatever its state.
LEMMA HandledStep ==
  ASSUME NEW c \in C, NEW e \in C, NEW s \in Data, NEW o \in Data, NEW d \in Inputs,
         Alike(s, o), Known(s, d), Known(o, d), reset \in BOOLEAN
  PROVE  Together(c, s, o, Handled(c, s, d), Handled(e, o, d), d)
<1>1. s.state = o.state /\ s.waits = o.waits
    BY DEF Alike, SameTests
<1>2. s.state[d] \in States
    BY DEF Data
<1>3. CASE s.state[d] = "INACTIVE" /\ s.waits
  <2>1. Handled(c, s, d) = s /\ Handled(e, o, d) = o
      BY <1>1, <1>3 DEF Handled
  <2> QED  BY <2>1, SameTogether
<1>4. CASE s.state[d] = "INACTIVE" /\ ~s.waits
  <2>1. Handled(c, s, d) = InactiveState(s, d) /\ Handled(e, o, d) = InactiveState(o, d)
      BY <1>1, <1>4 DEF Handled
  <2> QED  BY <2>1, InactiveStateStep
<1>5. CASE s.state[d] = "WAIT_TEST"
  <2>1. /\ Handled(c, s, d) = ActiveWaitTestState(c, s, d)
        /\ Handled(e, o, d) = ActiveWaitTestState(e, o, d)
      BY <1>1, <1>5 DEF Handled
  <2> QED  BY <2>1, WaitTestStateStep
<1>6. CASE s.state[d] = "VALID"
  <2>1. Handled(c, s, d) = ActiveState(c, s, d) /\ Handled(e, o, d) = ActiveState(e, o, d)
      BY <1>1, <1>6 DEF Handled
  <2> QED  BY <2>1, ActiveStateStep
<1>7. CASE s.state[d] = "ERROR"
  <2>1. Handled(c, s, d) = ErrState(c, s, d) /\ Handled(e, o, d) = ErrState(e, o, d)
      BY <1>1, <1>7 DEF Handled
  <2> QED  BY <2>1, ErrStateStep
<1>8. CASE s.state[d] = "DONT_USE"
  <2>1. Handled(c, s, d) = s /\ Handled(e, o, d) = o
      BY <1>1, <1>8 DEF Handled
  <2> QED  BY <2>1, SameTogether
<1> QED  BY <1>2, <1>3, <1>4, <1>5, <1>6, <1>7, <1>8 DEF States

\* One input, handled by both copies
LEMMA ProcessStep ==
  ASSUME NEW c \in C, NEW e \in C, NEW s \in Data, NEW o \in Data, NEW d \in Inputs,
         Alike(s, o), Known(s, d), Known(o, d), reset \in BOOLEAN
  PROVE  Together(c, s, o, ProcessDI(c, s, d), ProcessDI(e, o, d), d)
<1> DEFINE t == Handled(c, s, d)
           u == Handled(e, o, d)
           W(x) == [x EXCEPT !.waits = @ \/ x.state[d] = "WAIT_TEST"]
           Bad(x) == ~IsTestAtPinOngoing(x, d) /\ x.qual[d] = "ERR"
           Err(x) == [x EXCEPT !.state[d] = "ERROR"]
           Res(x) == IF Bad(W(x)) THEN Err(W(x)) ELSE W(x)
<1>1. ProcessDI(c, s, d) = Res(t) /\ ProcessDI(e, o, d) = Res(u)
    BY DEF ProcessDI, Handled
<1>2. Together(c, s, o, t, u, d) /\ Together(e, o, s, u, t, d)
  <2>1. Alike(o, s)
      BY DEF Alike, SameTests
  <2> QED  BY <2>1, HandledStep
<1> HIDE DEF t, u
<1>3. \A x \in Data : /\ W(x) \in Data /\ W(x).waits = (x.waits \/ x.state[d] = "WAIT_TEST")
                      /\ W(x).state = x.state /\ W(x).last = x.last /\ W(x).value = x.value
                      /\ W(x).lev = x.lev /\ W(x).cnt = x.cnt /\ W(x).to = x.to
                      /\ W(x).toCnt = x.toCnt /\ W(x).toExec = x.toExec /\ W(x).toInc = x.toInc
                      /\ W(x).qual = x.qual /\ W(x).tmp = x.tmp /\ W(x).levErr = x.levErr
    BY DEF Data
<1> DEFINE x == W(t)
           y == W(u)
<1>4. x \in Data /\ y \in Data /\ Kept(c, t, x, d) /\ Alike(x, y)
  <2>1. t \in Data /\ u \in Data /\ Alike(t, u)
      BY <1>2 DEF Together
  <2>2. /\ x \in Data /\ x.waits = (t.waits \/ t.state[d] = "WAIT_TEST")
        /\ x.state = t.state /\ x.last = t.last /\ x.value = t.value
        /\ x.lev = t.lev /\ x.cnt = t.cnt /\ x.to = t.to
        /\ x.toCnt = t.toCnt /\ x.toExec = t.toExec /\ x.toInc = t.toInc
        /\ x.qual = t.qual /\ x.tmp = t.tmp /\ x.levErr = t.levErr
      BY <1>3, <2>1
  <2>3. /\ y \in Data /\ y.waits = (u.waits \/ u.state[d] = "WAIT_TEST")
        /\ y.state = u.state /\ y.last = u.last /\ y.value = u.value
        /\ y.lev = u.lev /\ y.cnt = u.cnt /\ y.to = u.to
        /\ y.toCnt = u.toCnt /\ y.toExec = u.toExec /\ y.toInc = u.toInc
        /\ y.qual = u.qual /\ y.tmp = u.tmp /\ y.levErr = u.levErr
      BY <1>3, <2>1
  <2> HIDE DEF x, y, W
  <2>4. Kept(c, t, x, d)
      BY <2>2 DEF Kept, Results, Tested
  <2>5. Alike(x, y)
      BY <2>1, <2>2, <2>3 DEF Alike, SameTests
  <2> QED  BY <2>2, <2>3, <2>4, <2>5
<1> HIDE DEF W
<1>5. Kept(c, s, x, d)
    BY <1>2, <1>4, KeptTwice DEF Together
<1>6. Bad(x) <=> Bad(y)
    BY <1>4, OngoingAlike DEF Alike
<1> HIDE DEF x, y
<1>7. CASE Bad(x)
  <2> DEFINE v == Err(x)
             w == Err(y)
  <2>1. Res(t) = v /\ Res(u) = w
      BY <1>6, <1>7 DEF x, y
  <2>2. StateSet(x, v, d, "ERROR") /\ StateSet(y, w, d, "ERROR")
      BY <1>4, StateField DEF States
  <2> HIDE DEF v, w, Res
  <2>3. v \in Data
      BY <2>2 DEF StateSet
  <2>4. Kept(c, x, v, d) /\ Alike(v, w)
      BY <1>4, <2>2, StateSetFacts, StateSetAlike
  <2> QED  BY <1>1, <1>5, <2>1, <2>3, <2>4, KeptTwice DEF Together
<1>8. CASE ~Bad(x)
  <2>1. Res(t) = x /\ Res(u) = y
      BY <1>6, <1>8 DEF x, y
  <2> HIDE DEF Res
  <2> QED  BY <1>1, <1>4, <1>5, <2>1 DEF Together
<1> QED  BY <1>7, <1>8

\* All inputs in turn (diState_ProcessDIs)
LEMMA ProcessDIsStep ==
  ASSUME NEW c \in C, NEW e \in C, NEW s \in Data, NEW o \in Data, Alike(s, o),
         \A d \in Inputs : Known(s, d) /\ Known(o, d), reset \in BOOLEAN,
         NEW t, t = diState_ProcessDIs(c, s), NEW u, u = diState_ProcessDIs(e, o)
  PROVE  t \in Data /\ (Results(c, s) => Results(c, t)) /\ SameTests(t, u) /\ t.value = u.value
<1> DEFINE N == 2 * NumPairs
<1>1. PICK x : /\ x[0] = s /\ x[N] = Processed(c, s)
               /\ \A k \in 1 .. N : x[k] = ProcessDI(c, x[k - 1], k - 1)
    BY ProcessInTurn
<1>2. PICK y : /\ y[0] = o /\ y[N] = Processed(e, o)
               /\ \A k \in 1 .. N : y[k] = ProcessDI(e, y[k - 1], k - 1)
    BY ProcessInTurn
<1> DEFINE Good(k) ==
             /\ x[k] \in Data /\ y[k] \in Data /\ Alike(x[k], y[k])
             /\ Results(c, s) => Results(c, x[k])
             /\ \A d \in Inputs : d >= k => Known(x[k], d) /\ Known(y[k], d)
           T == {k \in 0 .. N : Good(k)}
<1>3. N \in Nat
    BY CountsAssumption
<1>4. 0 \in T
    BY <1>1, <1>2, <1>3
<1>5. ASSUME NEW k \in 1 .. N, k - 1 \in T PROVE k \in T
  <2> DEFINE d == k - 1
  <2>1. d \in Inputs /\ Good(d)
      BY <1>3, <1>5 DEF Inputs
  <2>2. Alike(y[d], x[d]) /\ Known(x[d], d) /\ Known(y[d], d)
    <3>1. d >= d
        BY <1>3
    <3> HIDE DEF d
    <3> QED  BY <2>1, <3>1 DEF Alike, SameTests
  <2>3. x[k] = ProcessDI(c, x[d], d) /\ y[k] = ProcessDI(e, y[d], d)
      BY <1>1, <1>2
  <2>4. /\ Together(c, x[d], y[d], x[k], y[k], d)
        /\ Together(e, y[d], x[d], y[k], x[k], d)
    <3> HIDE DEF d
    <3> QED  BY <2>1, <2>2, <2>3, ProcessStep
  <2>5. ASSUME NEW f \in Inputs, f >= k PROVE Known(x[k], f) /\ Known(y[k], f)
    <3>1. f # d /\ f >= d
        BY <1>3, <2>5 DEF Inputs
    <3>2. Known(x[d], f) /\ Known(y[d], f)
        BY <2>1, <3>1
    <3> HIDE DEF d
    <3> QED  BY <2>4, <3>1, <3>2 DEF Together, Kept, Known, Tested
  <2>6. Good(k)
    <3> HIDE DEF d
    <3> QED  BY <2>1, <2>4, <2>5 DEF Together, Kept
  <2> HIDE DEF Good
  <2> QED  BY <1>3, <2>6
<1>6. T = 0 .. N
  <2>1. T \subseteq 0 .. N
      OBVIOUS
  <2> HIDE DEF T, N
  <2> QED  BY <1>3, <1>4, <1>5, <2>1, Induction
<1>7. Good(N)
  <2>1. N \in T
    <3> HIDE DEF T, N
    <3> QED  BY <1>3, <1>6
  <2> QED  BY <2>1
<1>8. t = [x[N] EXCEPT !.waits = FALSE] /\ u = [y[N] EXCEPT !.waits = FALSE]
    BY <1>1, <1>2 DEF diState_ProcessDIs, Processed
<1>9. ASSUME NEW a \in Data, NEW b, b = [a EXCEPT !.waits = FALSE]
      PROVE  /\ b \in Data /\ b.waits = FALSE
             /\ b.state = a.state /\ b.last = a.last /\ b.value = a.value /\ b.lev = a.lev
             /\ b.cnt = a.cnt /\ b.to = a.to /\ b.toCnt = a.toCnt /\ b.toExec = a.toExec
             /\ b.toInc = a.toInc /\ b.qual = a.qual /\ b.tmp = a.tmp /\ b.levErr = a.levErr
    BY <1>9 DEF Data
<1> HIDE DEF N
<1> DEFINE a == x[N]
           b == y[N]
<1>10. a \in Data /\ b \in Data /\ t = [a EXCEPT !.waits = FALSE] /\ u = [b EXCEPT !.waits = FALSE]
    BY <1>7, <1>8
<1>11. Alike(a, b) /\ (Results(c, s) => Results(c, a))
    BY <1>7
<1> HIDE DEF a, b
<1>12. /\ t \in Data /\ t.waits = FALSE
       /\ t.state = a.state /\ t.last = a.last /\ t.value = a.value /\ t.lev = a.lev
       /\ t.cnt = a.cnt /\ t.to = a.to /\ t.toCnt = a.toCnt /\ t.toExec = a.toExec
       /\ t.toInc = a.toInc /\ t.qual = a.qual /\ t.tmp = a.tmp /\ t.levErr = a.levErr
    BY <1>9, <1>10
<1>13. /\ u.waits = FALSE
       /\ u.state = b.state /\ u.last = b.last /\ u.value = b.value /\ u.lev = b.lev
       /\ u.cnt = b.cnt /\ u.to = b.to /\ u.toCnt = b.toCnt /\ u.toExec = b.toExec
       /\ u.toInc = b.toInc
    BY <1>9, <1>10
<1>14. SameTests(t, u) /\ t.value = u.value
    BY <1>11, <1>12, <1>13 DEF Alike, SameTests
<1>15. Results(c, a) => Results(c, t)
    BY <1>12 DEF Results, Tested
<1> QED  BY <1>11, <1>12, <1>14, <1>15

-----------------------------------------------------------------------------

\* Only the tests of the lines TO and their results move.
ToStep(s, t) ==
  /\ t \in Data
  /\ t.state = s.state /\ t.last = s.last /\ t.waits = s.waits /\ t.value = s.value
  /\ t.lev = s.lev /\ t.cnt = s.cnt /\ t.qual = s.qual /\ t.levErr = s.levErr
  /\ \A d \in Inputs : t.tmp[d] \in {s.tmp[d], "ERR"}

\* Two steps of the tests of the lines are one such step.
LEMMA ToStepsAddUp ==
  ASSUME NEW s, NEW t, NEW u, ToStep(s, t), ToStep(t, u)
  PROVE  ToStep(s, u)
BY DEF ToStep

\* Two copies that are in the same step of the tests of the lines
ToTogether(s, t, u) == ToStep(s, t) /\ SameTests(t, u)

\* In a step of the tests of the lines only one of them moves: the count,
ToCntSet(s, t, i, n) ==
  /\ ToStep(s, t) /\ t.to = s.to /\ t.toExec = s.toExec /\ t.toInc = s.toInc
  /\ t.toCnt = [s.toCnt EXCEPT ![i] = n]
\* The flag that counts (diDiagTo_u8IncreaseCnt) moves,
ToIncSet(s, t, i, b) ==
  /\ ToStep(s, t) /\ t.to = s.to /\ t.toExec = s.toExec /\ t.toCnt = s.toCnt
  /\ t.toInc = [s.toInc EXCEPT ![i] = b]
\* the flag of a test that is executed,
ToExecSet(s, t, i, b) ==
  /\ ToStep(s, t) /\ t.to = s.to /\ t.toInc = s.toInc /\ t.toCnt = s.toCnt
  /\ t.toExec = [s.toExec EXCEPT ![i] = b]
\* the states of the inputs of a channel.
ToStatesSet(s, t, ch, st) ==
  /\ ToStep(s, t) /\ t.toCnt = s.toCnt /\ t.toExec = s.toExec /\ t.toInc = s.toInc
  /\ t.to = [d \in Inputs |-> IF Channel(d) = ch THEN st ELSE s.to[d]]

\* Assigning a count is a step that moves only the count.
LEMMA ToCntField ==
  ASSUME NEW s \in Data, NEW i \in 1 .. 2, NEW n \in Nat
  PROVE  ToCntSet(s, [s EXCEPT !.toCnt[i] = n], i, n)
BY DEF ToCntSet, ToStep, Data

\* Assigning a flag of a channel moves only that flag.
LEMMA ToFlagFields ==
  ASSUME NEW s \in Data, NEW i \in 1 .. 2, NEW b \in BOOLEAN
  PROVE  /\ ToIncSet(s, [s EXCEPT !.toInc[i] = b], i, b)
         /\ ToExecSet(s, [s EXCEPT !.toExec[i] = b], i, b)
<1>1. ToIncSet(s, [s EXCEPT !.toInc[i] = b], i, b)
    BY DEF ToIncSet, ToStep, Data
<1>2. ToExecSet(s, [s EXCEPT !.toExec[i] = b], i, b)
    BY DEF ToExecSet, ToStep, Data
<1> QED  BY <1>1, <1>2

\* Setting the states of the inputs of a channel moves only them.
LEMMA ToStatesField ==
  ASSUME NEW s \in Data, NEW ch, NEW st \in {"WAIT_1ST", "WAIT_CYC", "EXEC_CYC"}
  PROVE  ToStatesSet(s, ToStates(s, ch, st), ch, st)
BY DEF ToStatesSet, ToStep, Data, ToStates

\* diDiagTo_HandleTestState does the same in both copies.
LEMMA ToInputStep ==
  ASSUME NEW s \in Data, NEW o \in Data, NEW d \in Inputs, SameTests(s, o)
  PROVE  ToTogether(s, HandleToInput(s, d), HandleToInput(o, d))
<1> DEFINE i == Channel(d) + 1
           Op(x) == IF ~(IsContact(d) /\ x.state[d] = "VALID") THEN x
                    ELSE IF x.to[d] = "WAIT_1ST" THEN [x EXCEPT !.toCnt[i] = ToStart]
                    ELSE IF x.to[d] = "WAIT_CYC" THEN [x EXCEPT !.toInc[i] = TRUE] ELSE x
<1>1. i \in 1 .. 2 /\ ToStart \in Nat
    BY InputFacts, CountsAssumption DEF ToStart
<1>2. ASSUME NEW x \in Data PROVE HandleToInput(x, d) = Op(x)
  <2>1. x.to[d] \in {"WAIT_1ST", "WAIT_CYC", "EXEC_CYC"}
      BY DEF Data
  <2> QED  BY <2>1 DEF HandleToInput, diDiagTo_HandleTestState
<1>3. s.state = o.state /\ s.to = o.to
    BY DEF SameTests
<1> HIDE DEF i
<1>4. CASE ~(IsContact(d) /\ s.state[d] = "VALID")
    BY <1>2, <1>3, <1>4 DEF ToTogether, ToStep
<1>5. CASE IsContact(d) /\ s.state[d] = "VALID" /\ s.to[d] = "WAIT_1ST"
  <2> DEFINE t == [s EXCEPT !.toCnt[i] = ToStart]
             u == [o EXCEPT !.toCnt[i] = ToStart]
  <2>1. HandleToInput(s, d) = t /\ HandleToInput(o, d) = u
      BY <1>2, <1>3, <1>5
  <2>2. ToCntSet(s, t, i, ToStart) /\ ToCntSet(o, u, i, ToStart)
      BY <1>1, ToCntField
  <2> HIDE DEF t, u
  <2> QED  BY <2>1, <2>2 DEF ToCntSet, ToTogether, ToStep, SameTests
<1>6. CASE IsContact(d) /\ s.state[d] = "VALID" /\ s.to[d] = "WAIT_CYC"
  <2> DEFINE t == [s EXCEPT !.toInc[i] = TRUE]
             u == [o EXCEPT !.toInc[i] = TRUE]
  <2>1. HandleToInput(s, d) = t /\ HandleToInput(o, d) = u
      BY <1>2, <1>3, <1>6
  <2>2. ToIncSet(s, t, i, TRUE) /\ ToIncSet(o, u, i, TRUE)
      BY <1>1, ToFlagFields
  <2> HIDE DEF t, u
  <2> QED  BY <2>1, <2>2 DEF ToIncSet, ToTogether, ToStep, SameTests
<1>7. CASE IsContact(d) /\ s.state[d] = "VALID" /\ s.to[d] \notin {"WAIT_1ST", "WAIT_CYC"}
    BY <1>2, <1>3, <1>7 DEF ToTogether, ToStep
<1> QED  BY <1>4, <1>5, <1>6, <1>7

\* So does the loop over all inputs.
LEMMA ToHandledStep ==
  ASSUME NEW s \in Data, NEW o \in Data, SameTests(s, o)
  PROVE  ToTogether(s, ToHandled(s), ToHandled(o)) /\ ToHandled(o) \in Data
<1> DEFINE N == 2 * NumPairs
<1>1. PICK x : /\ x[0] = s /\ x[N] = ToHandled(s)
               /\ \A k \in 1 .. N : x[k] = HandleToInput(x[k - 1], k - 1)
    BY ToInTurn
<1>2. PICK y : /\ y[0] = o /\ y[N] = ToHandled(o)
               /\ \A k \in 1 .. N : y[k] = HandleToInput(y[k - 1], k - 1)
    BY ToInTurn
<1> DEFINE Good(k) == x[k] \in Data /\ y[k] \in Data /\ ToTogether(s, x[k], y[k])
           T == {k \in 0 .. N : Good(k)}
<1>3. N \in Nat
    BY CountsAssumption
<1>4. 0 \in T
    BY <1>1, <1>2, <1>3 DEF ToTogether, ToStep
<1>5. ASSUME NEW k \in 1 .. N, k - 1 \in T PROVE k \in T
  <2> DEFINE d == k - 1
  <2>1. d \in Inputs /\ Good(d)
      BY <1>3, <1>5 DEF Inputs
  <2>2. x[k] = HandleToInput(x[d], d) /\ y[k] = HandleToInput(y[d], d)
      BY <1>1, <1>2
  <2> HIDE DEF d
  <2>3. ToTogether(x[d], x[k], y[k]) /\ ToStep(y[d], y[k])
    <3>1. SameTests(x[d], y[d]) /\ SameTests(y[d], x[d])
        BY <2>1 DEF ToTogether, SameTests
    <3>2. ToTogether(x[d], x[k], y[k]) /\ ToTogether(y[d], y[k], x[k])
        BY <2>1, <2>2, <3>1, ToInputStep
    <3> QED  BY <3>2 DEF ToTogether
  <2>4. ToStep(s, x[k])
      BY <2>1, <2>3, ToStepsAddUp DEF ToTogether
  <2>5. Good(k)
      BY <2>3, <2>4 DEF ToTogether, ToStep
  <2> HIDE DEF Good
  <2> QED  BY <1>3, <2>5
<1>6. T = 0 .. N
  <2>1. T \subseteq 0 .. N
      OBVIOUS
  <2> HIDE DEF T, N
  <2> QED  BY <1>3, <1>4, <1>5, <2>1, Induction
<1>7. Good(N)
  <2>1. N \in T
    <3> HIDE DEF T, N
    <3> QED  BY <1>3, <1>6
  <2> QED  BY <2>1
<1> HIDE DEF N
<1> QED  BY <1>1, <1>2, <1>7

\* Nothing but results and the line itself changes.
ToQuiet(s, t) ==
  /\ ToStep(s, t)
  /\ t.to = s.to /\ t.toCnt = s.toCnt /\ t.toExec = s.toExec /\ t.toInc = s.toInc

\* Switching a line moves nothing of its test.
LEMMA ToLowField ==
  ASSUME NEW s \in Data, NEW b \in BOOLEAN
  PROVE  ToQuiet(s, [s EXCEPT !.toLow = b])
BY DEF ToQuiet, ToStep, Data

\* A step of the test of the line of channel ch
ToExecuted(s, t, ch) ==
  LET n == s.toCnt[ch + 1]
  IN  /\ ToStep(s, t) /\ t.toInc = s.toInc
      /\ t.to = IF n = ToStart
                  THEN [d \in Inputs |-> IF Channel(d) = ch THEN "EXEC_CYC" ELSE s.to[d]]
                ELSE IF n = ToStop
                  THEN [d \in Inputs |-> IF Channel(d) = ch THEN "WAIT_CYC" ELSE s.to[d]]
                ELSE s.to
      /\ t.toCnt = [s.toCnt EXCEPT ![ch + 1] = IF n = ToStop THEN 1 ELSE n + 1]
      /\ t.toExec = IF n = ToStop THEN [s.toExec EXCEPT ![ch + 1] = FALSE] ELSE s.toExec

\* diDiagTo_ExecTest moves the test of a line in the same way, whether it switches
\* the line or evaluates the inputs.
LEMMA ToExecStep ==
  ASSUME NEW c \in C, NEW s \in Data, NEW ch \in {0, 1}
  PROVE  ToExecuted(s, diDiagTo_ExecTest(c, s, ch), ch)
<1> DEFINE i == ch + 1
           n == s.toCnt[i]
           own == ch = OwnChannel(c)
           t == IF n = ToStart
                  THEN [ToStates(s, ch, "EXEC_CYC") EXCEPT !.toLow = IF own THEN @ ELSE TRUE]
                ELSE IF n = ToResetPulse
                  THEN IF own THEN EvalToTest(c, s) ELSE [s EXCEPT !.toLow = FALSE]
                ELSE IF n = ToStop THEN EndToTest(s, ch)
                ELSE s
           u == diDiagTo_ExecTest(c, s, ch)
<1>1. u = [t EXCEPT !.toCnt[i] = @ + 1]
    BY DEF diDiagTo_ExecTest
<1>2. /\ i \in 1 .. 2 /\ n \in Nat /\ {ToStart, ToResetPulse, ToStop} \subseteq Nat
      /\ ToStart # ToResetPulse /\ ToStart # ToStop /\ ToResetPulse # ToStop
    BY CountsAssumption DEF Data, ToStart, ToResetPulse, ToStop
<1>3. /\ ToStep(s, t) /\ t.toInc = s.toInc
      /\ t.to = IF n = ToStart
                  THEN [d \in Inputs |-> IF Channel(d) = ch THEN "EXEC_CYC" ELSE s.to[d]]
                ELSE IF n = ToStop
                  THEN [d \in Inputs |-> IF Channel(d) = ch THEN "WAIT_CYC" ELSE s.to[d]]
                ELSE s.to
      /\ t.toCnt = IF n = ToStop THEN [s.toCnt EXCEPT ![i] = 0] ELSE s.toCnt
      /\ t.toExec = IF n = ToStop THEN [s.toExec EXCEPT ![i] = FALSE] ELSE s.toExec
  <2> HIDE DEF i
  <2>0. ToStep(s, s)
      BY DEF ToStep
  <2>1. CASE n = ToStart
    <3> DEFINE x == ToStates(s, ch, "EXEC_CYC")
    <3>1. ToStatesSet(s, x, ch, "EXEC_CYC")
        BY ToStatesField
    <3>2. t = [x EXCEPT !.toLow = IF own THEN @ ELSE TRUE]
        BY <2>1
    <3> HIDE DEF x, t, own
    <3>3. x \in Data /\ x.toLow \in BOOLEAN
        BY <3>1 DEF ToStatesSet, ToStep, Data
    <3>4. \E b \in BOOLEAN : t = [x EXCEPT !.toLow = b]
        BY <3>2, <3>3
    <3>5. ToQuiet(x, t)
        BY <3>3, <3>4, ToLowField
    <3>6. ToStep(s, t)
        BY <3>1, <3>5, ToStepsAddUp DEF ToStatesSet, ToQuiet
    <3> QED  BY <1>2, <2>1, <3>1, <3>5, <3>6 DEF ToStatesSet, ToQuiet
  <2>2. CASE n = ToResetPulse
    <3>1. ToQuiet(s, t)
      <4>1. CASE own
        <5>1. t = EvalToTest(c, s)
            BY <1>2, <2>2, <4>1
        <5> HIDE DEF t
        <5>2. OnlyResults(s, t)
            BY <5>1, EvalResults
        <5> QED  BY <5>2 DEF ToQuiet, ToStep, OnlyResults, SameTests
      <4>2. CASE ~own
          BY <1>2, <2>2, <4>2, ToLowField
      <4> QED  BY <4>1, <4>2
    <3> HIDE DEF t
    <3> QED  BY <1>2, <2>2, <3>1 DEF ToQuiet
  <2>3. CASE n = ToStop
    <3> DEFINE x == ToStates(s, ch, "WAIT_CYC")
               y == [x EXCEPT !.toCnt[i] = 0]
               z == [y EXCEPT !.toExec[i] = FALSE]
    <3>1. ToStatesSet(s, x, ch, "WAIT_CYC")
        BY ToStatesField
    <3>2. t = z
        BY <1>2, <2>3 DEF EndToTest, i
    <3> HIDE DEF x, t
    <3>3. x \in Data
        BY <3>1 DEF ToStatesSet, ToStep
    <3>4. ToCntSet(x, y, i, 0)
        BY <1>2, <3>3, ToCntField
    <3> HIDE DEF y
    <3>5. y \in Data
        BY <3>4 DEF ToCntSet, ToStep
    <3>6. ToExecSet(y, z, i, FALSE)
        BY <1>2, <3>5, ToFlagFields
    <3> HIDE DEF z
    <3>7. ToStep(s, z)
        BY <3>1, <3>4, <3>6, ToStepsAddUp DEF ToStatesSet, ToCntSet, ToExecSet
    <3> QED  BY <1>2, <2>3, <3>1, <3>2, <3>4, <3>6, <3>7 DEF ToStatesSet, ToCntSet, ToExecSet
  <2>4. CASE n \notin {ToStart, ToResetPulse, ToStop}
      BY <2>0, <2>4
  <2> HIDE DEF t
  <2> QED  BY <2>1, <2>2, <2>3, <2>4
<1> HIDE DEF t, u
<1>4. t \in Data /\ t.toCnt[i] + 1 \in Nat /\ t.toCnt[i] = IF n = ToStop THEN 0 ELSE n
    BY <1>2, <1>3 DEF ToStep, Data
<1>5. ToCntSet(t, u, i, t.toCnt[i] + 1)
  <2> DEFINE m == t.toCnt[i] + 1
  <2>1. u = [t EXCEPT !.toCnt[i] = m] /\ m \in Nat
      BY <1>1, <1>4
  <2> HIDE DEF m, i
  <2>2. ToCntSet(t, u, i, m)
      BY <1>2, <1>4, <2>1, ToCntField
  <2> QED  BY <2>2 DEF m
<1>6. ToStep(s, u)
    BY <1>3, <1>5, ToStepsAddUp DEF ToCntSet
<1>7. u.toCnt = [s.toCnt EXCEPT ![i] = IF n = ToStop THEN 1 ELSE n + 1]
    BY <1>2, <1>3, <1>4, <1>5 DEF ToCntSet, Data
<1> QED  BY <1>3, <1>5, <1>6, <1>7 DEF ToExecuted, ToCntSet, u

\* So both copies stay in the same step of it.
LEMMA ToExecTogether ==
  ASSUME NEW s, NEW o, NEW t, NEW u, NEW ch, SameTests(s, o),
         ToExecuted(s, t, ch), ToExecuted(o, u, ch)
  PROVE  ToTogether(s, t, u)
BY DEF ToTogether, ToExecuted, ToStep, SameTests

\* The test of one line, from its start to its end, in both copies
LEMMA ToChannelStep ==
  ASSUME NEW c \in C, NEW e \in C, NEW s \in Data, NEW o \in Data, NEW ch \in {0, 1},
         SameTests(s, o)
  PROVE  ToTogether(s, HandleToChannel(c, s, ch), HandleToChannel(e, o, ch))
<1> DEFINE i == ch + 1
           A(x) == IF x.toInc[i] /\ x.toCnt[i] < ToStart THEN [x EXCEPT !.toCnt[i] = @ + 1] ELSE x
           B(x) == IF ~IsAnyTestOngoing(x) /\ x.toCnt[i] >= ToStart
                     THEN [x EXCEPT !.toExec[i] = TRUE] ELSE x
           D(k, x) == IF x.toExec[i] THEN diDiagTo_ExecTest(k, x, ch) ELSE x
<1>0. i \in 1 .. 2
    OBVIOUS
<1>1. /\ HandleToChannel(c, s, ch) = D(c, B(A(s)))
      /\ HandleToChannel(e, o, ch) = D(e, B(A(o)))
    BY DEF HandleToChannel
<1> HIDE DEF i
<1>2. ASSUME NEW x \in Data, NEW y \in Data, SameTests(x, y) PROVE ToTogether(x, A(x), A(y))
  <2> DEFINE m == x.toCnt[i] + 1
  <2>1. m \in Nat /\ x.toCnt = y.toCnt /\ x.toInc = y.toInc
      BY <1>0, <1>2 DEF Data, SameTests
  <2>2. CASE x.toInc[i] /\ x.toCnt[i] < ToStart
    <3>1. A(x) = [x EXCEPT !.toCnt[i] = m] /\ A(y) = [y EXCEPT !.toCnt[i] = m]
        BY <2>1, <2>2
    <3> HIDE DEF m, A
    <3>2. ToCntSet(x, A(x), i, m) /\ ToCntSet(y, A(y), i, m)
        BY <1>0, <2>1, <3>1, ToCntField
    <3> QED  BY <1>2, <3>2 DEF ToTogether, ToCntSet, ToStep, SameTests
  <2>3. CASE ~(x.toInc[i] /\ x.toCnt[i] < ToStart)
      BY <1>2, <2>1, <2>3 DEF ToTogether, ToStep
  <2> QED  BY <2>2, <2>3
<1>3. ASSUME NEW x \in Data, NEW y \in Data, SameTests(x, y) PROVE ToTogether(x, B(x), B(y))
  <2>1. x.toCnt = y.toCnt /\ (IsAnyTestOngoing(x) <=> IsAnyTestOngoing(y))
      BY <1>3, Ongoing DEF SameTests
  <2>2. CASE ~IsAnyTestOngoing(x) /\ x.toCnt[i] >= ToStart
    <3>1. B(x) = [x EXCEPT !.toExec[i] = TRUE] /\ B(y) = [y EXCEPT !.toExec[i] = TRUE]
        BY <2>1, <2>2
    <3> HIDE DEF B
    <3>2. ToExecSet(x, B(x), i, TRUE) /\ ToExecSet(y, B(y), i, TRUE)
        BY <1>0, <3>1, ToFlagFields
    <3> QED  BY <1>3, <3>2 DEF ToTogether, ToExecSet, ToStep, SameTests
  <2>3. CASE ~(~IsAnyTestOngoing(x) /\ x.toCnt[i] >= ToStart)
      BY <1>3, <2>1, <2>3 DEF ToTogether, ToStep
  <2> QED  BY <2>2, <2>3
<1>4. ASSUME NEW x \in Data, NEW y \in Data, SameTests(x, y) PROVE ToTogether(x, D(c, x), D(e, y))
  <2>1. x.toExec = y.toExec
      BY <1>4 DEF SameTests
  <2>2. CASE x.toExec[i]
    <3>1. D(c, x) = diDiagTo_ExecTest(c, x, ch) /\ D(e, y) = diDiagTo_ExecTest(e, y, ch)
        BY <2>1, <2>2
    <3> HIDE DEF D
    <3> QED  BY <1>4, <3>1, ToExecStep, ToExecTogether
  <2>3. CASE ~x.toExec[i]
      BY <1>4, <2>1, <2>3 DEF ToTogether, ToStep
  <2> QED  BY <2>2, <2>3
<1> HIDE DEF A, B, D
<1>5. ToTogether(s, A(s), A(o)) /\ A(s) \in Data /\ A(o) \in Data
  <2>1. SameTests(o, s)
      BY DEF SameTests
  <2>2. ToTogether(s, A(s), A(o)) /\ ToTogether(o, A(o), A(s))
      BY <1>2, <2>1
  <2> QED  BY <2>2 DEF ToTogether, ToStep
<1>6. ToTogether(A(s), B(A(s)), B(A(o))) /\ B(A(s)) \in Data /\ B(A(o)) \in Data
  <2>1. SameTests(A(s), A(o)) /\ SameTests(A(o), A(s))
      BY <1>5 DEF ToTogether, SameTests
  <2>2. ToTogether(A(s), B(A(s)), B(A(o))) /\ ToTogether(A(o), B(A(o)), B(A(s)))
      BY <1>3, <1>5, <2>1
  <2> QED  BY <2>2 DEF ToTogether, ToStep
<1>7. ToTogether(B(A(s)), D(c, B(A(s))), D(e, B(A(o))))
    BY <1>4, <1>6 DEF ToTogether
<1> QED  BY <1>1, <1>5, <1>6, <1>7, ToStepsAddUp DEF ToTogether

\* The tests of the lines in a slice (diState_HandleToTestExecution)
LEMMA ToTestsStep ==
  ASSUME NEW c \in C, NEW e \in C, NEW s \in Data, NEW o \in Data, SameTests(s, o)
  PROVE  ToTogether(s, diState_HandleToTestExecution(c, s), diState_HandleToTestExecution(e, o))
<1> DEFINE a == ToHandled(s)
           b == ToHandled(o)
           x == HandleToChannel(c, a, 0)
           y == HandleToChannel(e, b, 0)
<1>1. /\ diState_HandleToTestExecution(c, s) = HandleToChannel(c, x, 1)
      /\ diState_HandleToTestExecution(e, o) = HandleToChannel(e, y, 1)
    BY DEF diState_HandleToTestExecution, ToHandled
<1>2. ToTogether(s, a, b) /\ a \in Data /\ b \in Data
    BY ToHandledStep DEF ToTogether, ToStep
<1> HIDE DEF a, b
<1>3. ToTogether(a, x, y) /\ x \in Data /\ y \in Data
  <2>1. SameTests(a, b) /\ SameTests(b, a)
      BY <1>2 DEF ToTogether, SameTests
  <2>2. ToTogether(a, x, y) /\ ToTogether(b, y, x)
      BY <1>2, <2>1, ToChannelStep
  <2> QED  BY <2>2 DEF ToTogether, ToStep
<1> HIDE DEF x, y
<1>4. ToTogether(x, HandleToChannel(c, x, 1), HandleToChannel(e, y, 1))
    BY <1>3, ToChannelStep DEF ToTogether
<1> QED  BY <1>1, <1>2, <1>3, <1>4, ToStepsAddUp DEF ToTogether

-----------------------------------------------------------------------------

\* Only the filter of the own inputs and the values move.
Filtered(s, t) ==
  /\ t \in Data /\ SameTests(s, t)
  /\ t.qual = s.qual /\ t.tmp = s.tmp /\ t.levErr = s.levErr

\* Filtering an input (diInput_FilterDiValues) leaves its tests alone.
LEMMA FilterStep ==
  ASSUME NEW c \in C, NEW s \in Data, NEW p \in Pairs
  PROVE  Filtered(s, Filter(c, s, p))
<1> DEFINE d == OwnInput(c, p)
           active == PinActive(d)
           n == s.filter[p]
           m == IF active THEN (IF n > 0 THEN n - 1 ELSE 0)
                ELSE IF n < FilterLimit THEN n + 1 ELSE n
           v == IF active THEN n = 0 \/ s.value[d] ELSE n < FilterLimit /\ s.value[d]
           F == [s.first EXCEPT ![p] = active]
           M == [s.filter EXCEPT ![p] = m]
           V == [s.value EXCEPT ![d] = v]
           t == Filter(c, s, p)
<1>1. d \in Inputs /\ n \in Nat /\ s.value[d] \in BOOLEAN
    BY PairFacts DEF Data
<1>2. active \in BOOLEAN
    BY DEF PinActive
<1>3. v \in BOOLEAN
  <2>1. (n = 0 \/ s.value[d]) \in BOOLEAN /\ (n < FilterLimit /\ s.value[d]) \in BOOLEAN
      OBVIOUS
  <2> QED  BY <2>1
<1>4. m \in Nat
  <2> HIDE DEF active, n
  <2> QED  BY <1>1
<1>5. t = [s EXCEPT !.first = F, !.filter = M, !.value = V]
    BY DEF Filter
<1>6. F \in [Pairs -> BOOLEAN] /\ M \in [Pairs -> Nat] /\ V \in [Inputs -> BOOLEAN]
  <2> HIDE DEF active, m, v, d
  <2> QED  BY <1>1, <1>2, <1>3, <1>4 DEF Data
<1> DEFINE x == [s EXCEPT !.first = F]
           y == [x EXCEPT !.filter = M]
<1>7. t = [y EXCEPT !.value = V]
    BY <1>5
<1> HIDE DEF F, M, V, t
<1>8. Filtered(s, x)
    BY <1>6 DEF Filtered, SameTests, Data
<1>9. x = [s EXCEPT !.first = F] /\ y = [x EXCEPT !.filter = M]
    OBVIOUS
<1> HIDE DEF x, y
<1>10. Filtered(x, y)
    BY <1>6, <1>8, <1>9 DEF Filtered, SameTests, Data
<1>11. Filtered(y, t)
  <2>1. y \in Data
      BY <1>10 DEF Filtered
  <2> QED  BY <1>6, <1>7, <2>1 DEF Filtered, SameTests, Data
<1> QED  BY <1>8, <1>10, <1>11 DEF Filtered, SameTests, t

\* The same for all own inputs (diInput_FilterDiRelInputs)
LEMMA FilterAllStep ==
  ASSUME NEW c \in C, NEW s \in Data
  PROVE  Filtered(s, diInput_FilterDiRelInputs(c, s))
<1>1. PICK t : /\ t[0] = s /\ t[NumPairs] = diInput_FilterDiRelInputs(c, s)
               /\ \A k \in 1 .. NumPairs : t[k] = Filter(c, t[k - 1], k - 1)
    BY FilterInTurn
<1> DEFINE T == {k \in 0 .. NumPairs : Filtered(s, t[k])}
<1>2. NumPairs \in Nat
    BY CountsAssumption
<1>3. 0 \in T
    BY <1>1, <1>2 DEF Filtered, SameTests
<1>4. ASSUME NEW k \in 1 .. NumPairs, k - 1 \in T PROVE k \in T
  <2>1. Filtered(s, t[k - 1]) /\ t[k - 1] \in Data
      BY <1>4 DEF Filtered
  <2>2. k - 1 \in Pairs
      BY <1>2 DEF Pairs
  <2>3. Filtered(t[k - 1], t[k])
      BY <1>1, <2>1, <2>2, FilterStep
  <2>4. Filtered(s, t[k])
      BY <2>1, <2>3 DEF Filtered, SameTests
  <2> QED  BY <1>2, <2>4
<1>5. T = 0 .. NumPairs
  <2>1. T \subseteq 0 .. NumPairs
      OBVIOUS
  <2> HIDE DEF T
  <2> QED  BY <1>2, <1>3, <1>4, <2>1, Induction
<1> QED  BY <1>1, <1>2, <1>5

\* What a controller has sent: its qualifiers are its results.
Sent(c, s) == \A d \in Inputs : Own(c, d) => s.qual[d] = s.tmp[d]

\* diInput_PrepareValForIPC adopts the results of the own inputs.
LEMMA SendStep ==
  ASSUME NEW c \in C, NEW s \in Data, NEW t, t = diInput_PrepareValForIPC(c, s)
  PROVE  /\ t \in Data /\ SameTests(s, t) /\ Sent(c, t)
         /\ Results(c, s) => Results(c, t)
<1> DEFINE Q == [d \in Inputs |-> IF Own(c, d) THEN s.tmp[d] ELSE s.qual[d]]
<1>1. t = [s EXCEPT !.qual = Q]
    BY DEF diInput_PrepareValForIPC
<1>2. Q \in [Inputs -> Qualifiers] /\ \A d \in Inputs : Own(c, d) => Q[d] = s.tmp[d]
    BY DEF Data
<1> HIDE DEF Q
<1>3. t \in Data /\ SameTests(s, t) /\ t.qual = Q /\ t.tmp = s.tmp /\ t.levErr = s.levErr
    BY <1>1, <1>2 DEF SameTests, Data
<1>4. Results(c, s) => Results(c, t)
    BY <1>2, <1>3 DEF Results, Tested, SameTests
<1> QED  BY <1>2, <1>3, <1>4 DEF Sent

\* What a controller makes of the values and results it gets: two copies that
\* agree so far decide alike, and every input that was tested has a result
\* (gpio_GetIOvaluesFromIPC).
LEMMA ReceiveStep ==
  ASSUME NEW c \in C, NEW s \in Data, NEW o \in Data, SameTests(s, o),
         Sent(c, s), Sent(Peer(c), o), Results(c, s), Results(Peer(c), o),
         NEW t, t = diInput_ConvValFromOtherCh(c, s, o),
         NEW u, u = diInput_ConvValFromOtherCh(Peer(c), o, s)
  PROVE  /\ t \in Data /\ Results(c, t) /\ Alike(t, u)
         /\ \A d \in Inputs : Known(t, d)
<1> DEFINE Value(k, x, y) == [d \in Inputs |-> IF Own(k, d) THEN x.value[d] ELSE y.value[d]]
           Qual(k, x, y) == [d \in Inputs |-> IF Own(k, d) THEN x.qual[d]
                                              ELSE IF y.qual[d] = "ERR" THEN "ERR" ELSE "OK"]
<1>1. \A d \in Inputs : Own(Peer(c), d) <=> ~Own(c, d)
    BY TwoControllers, InputFacts DEF C, Peer, Own, OwnChannel
<1>2. ASSUME NEW k \in C, NEW x \in Data, NEW y \in Data,
             NEW z, z = diInput_ConvValFromOtherCh(k, x, y)
      PROVE  /\ z \in Data /\ SameTests(x, z) /\ z.tmp = x.tmp /\ z.levErr = x.levErr
             /\ z.value = Value(k, x, y) /\ z.qual = Qual(k, x, y)
  <2> DEFINE V == Value(k, x, y)
             Q == Qual(k, x, y)
             w == [x EXCEPT !.value = V]
  <2>1. z = [w EXCEPT !.qual = Q]
      BY <1>2 DEF diInput_ConvValFromOtherCh
  <2>2. V \in [Inputs -> BOOLEAN] /\ Q \in [Inputs -> Qualifiers]
      BY <1>2 DEF Data, Qualifiers
  <2> HIDE DEF V, Q
  <2>3. /\ w \in Data /\ SameTests(x, w) /\ w.tmp = x.tmp /\ w.levErr = x.levErr
        /\ w.value = V
      BY <1>2, <2>2 DEF SameTests, Data
  <2> HIDE DEF w
  <2>4. /\ z \in Data /\ SameTests(w, z) /\ z.tmp = w.tmp /\ z.levErr = w.levErr
        /\ z.value = w.value /\ z.qual = Q
      BY <2>1, <2>2, <2>3 DEF SameTests, Data
  <2> QED  BY <2>3, <2>4 DEF SameTests, V, Q
<1>3. /\ t \in Data /\ SameTests(s, t) /\ t.tmp = s.tmp /\ t.levErr = s.levErr
      /\ t.value = Value(c, s, o) /\ t.qual = Qual(c, s, o)
    BY <1>2
<1>4. /\ SameTests(o, u) /\ u.value = Value(Peer(c), o, s) /\ u.qual = Qual(Peer(c), o, s)
  <2>1. Peer(c) \in C
      BY DEF C, Peer
  <2> QED  BY <1>2, <2>1
<1>5. Alike(t, u)
  <2>1. t.value = u.value
      BY <1>1, <1>3, <1>4
  <2>2. \A d \in Inputs : t.qual[d] = "ERR" <=> u.qual[d] = "ERR"
      BY <1>1, <1>3, <1>4
  <2>3. SameTests(t, u)
      BY <1>3, <1>4 DEF SameTests
  <2> QED  BY <2>1, <2>2, <2>3 DEF Alike
<1>6. Results(c, t)
    BY <1>3 DEF Results, Tested, SameTests
<1>7. ASSUME NEW d \in Inputs PROVE Known(t, d)
  <2>1. CASE Own(c, d)
      BY <1>3, <2>1 DEF Known, Results, Tested, SameTests, Sent
  <2>2. CASE ~Own(c, d)
      BY <1>3, <2>2 DEF Known
  <2> QED  BY <2>1, <2>2
<1> QED  BY <1>3, <1>5, <1>6, <1>7

-----------------------------------------------------------------------------

\* The inductive invariant.  The copies are in the same step all the time; the
\* values are the same only after the exchange, and a controller that has sent
\* its results has adopted them as its qualifiers.
InStep ==
  /\ slice \in {0, 1} /\ reset \in BOOLEAN /\ di \in [C -> Data]
  /\ SameTests(di[C1], di[C2])
  /\ slice = 0 => di[C1].value = di[C2].value
  /\ \A c \in C : Results(c, di[c]) /\ (slice = 1 => Sent(c, di[c]))

\* The two controllers start alike, every error counter at its limit.
LEMMA InStepInit == Init => InStep
<1> SUFFICES ASSUME Init PROVE InStep
    OBVIOUS
<1>1. ASSUME NEW c \in C PROVE InitialData(c) \in Data /\ Results(c, InitialData(c))
  <2> DEFINE s == InitialData(c)
  <2>1. s \in Data
    <3>1. [p \in Pairs |-> ErrCntLimit] \in [Pairs -> Nat]
        BY DEF ErrCntLimit
    <3> QED  BY <3>1 DEF InitialData, Data, States, LevStates, FirstTest, Qualifiers
  <2>2. Results(c, s)
    <3> SUFFICES ASSUME NEW d \in Inputs
                 PROVE  s.levErr[Pair(d)] >= ErrCntLimit /\ s.qual[d] # "ERR" /\ ~Tested(s, d)
        BY DEF Results
    <3>1. Pair(d) \in Pairs
        BY InputFacts
    <3> QED  BY <3>1 DEF InitialData, Tested, CyclicTest, ErrCntLimit
  <2> QED  BY <2>1, <2>2
<1>2. C1 \in C /\ C2 \in C /\ di = [c \in C |-> InitialData(c)] /\ slice = 0 /\ reset = FALSE
    BY DEF Init, C
<1>3. SameTests(di[C1], di[C2]) /\ di[C1].value = di[C2].value
  <2>1. di[C1] = InitialData(C1) /\ di[C2] = InitialData(C2)
      BY <1>2
  <2>2. InitialData(C1) = InitialData(C2)
      BY DEF InitialData
  <2> QED  BY <2>1, <2>2 DEF SameTests
<1>4. di \in [C -> Data] /\ \A c \in C : Results(c, di[c])
    BY <1>1, <1>2
<1>5. slice \in {0, 1} /\ slice # 1
    BY <1>2
<1>6. reset \in BOOLEAN
    BY Zenon DEF Init
<1> QED  BY <1>3, <1>4, <1>5, <1>6 DEF InStep

\* Every slice keeps it, whatever the sensors, the faults and the resets do.
LEMMA InStepNext == InStep /\ [Next]_vars => InStep'
<1> SUFFICES ASSUME InStep, [Next]_vars PROVE InStep'
    OBVIOUS
<1>0. /\ C1 \in C /\ C2 \in C /\ C = {C1, C2} /\ Peer(C1) = C2 /\ Peer(C2) = C1
      /\ di[C1] \in Data /\ di[C2] \in Data
      /\ SameTests(di[C1], di[C2]) /\ SameTests(di[C2], di[C1])
  <2>1. C1 \in C /\ C2 \in C /\ C = {C1, C2} /\ Peer(C1) = C2 /\ Peer(C2) = C1
      BY TwoControllers DEF C, Peer
  <2> QED  BY <2>1 DEF InStep, SameTests
<1>1. CASE FilterAndSend
  <2> DEFINE filt(c) == diInput_FilterDiRelInputs(c, di[c])
             test(c) == diState_HandleToTestExecution(c, filt(c))
             send(c) == diInput_PrepareValForIPC(c, test(c))
  <2>1. di' = [c \in C |-> send(c)] /\ slice' = 1 /\ reset' = reset
      BY <1>1 DEF FilterAndSend
  <2>2. \A c \in C : Filtered(di[c], filt(c))
    <3>1. \A c \in C : di[c] \in Data
        BY DEF InStep
    <3> QED  BY <3>1, FilterAllStep
  <2> HIDE DEF filt
  <2>3. /\ filt(C1) \in Data /\ filt(C2) \in Data
        /\ SameTests(filt(C1), filt(C2)) /\ SameTests(filt(C2), filt(C1))
      BY <1>0, <2>2 DEF Filtered, SameTests
  <2>4. ToTogether(filt(C1), test(C1), test(C2)) /\ ToTogether(filt(C2), test(C2), test(C1))
      BY <1>0, <2>3, ToTestsStep
  <2> HIDE DEF test
  <2>5. ASSUME NEW c \in C PROVE test(c) \in Data /\ Results(c, test(c))
    <3>1. Results(c, filt(c))
        BY <2>2 DEF InStep, Filtered, Results, Tested, SameTests
    <3>2. ToStep(filt(c), test(c))
        BY <1>0, <2>4 DEF ToTogether
    <3>3. Results(c, test(c))
      <4>1. \A d \in Inputs : test(c).tmp[d] \in {filt(c).tmp[d], "ERR"}
          BY <3>2 DEF ToStep
      <4>2. /\ test(c).lev = filt(c).lev /\ test(c).cnt = filt(c).cnt
            /\ test(c).qual = filt(c).qual /\ test(c).levErr = filt(c).levErr
          BY <3>2 DEF ToStep
      <4> QED  BY <3>1, <4>1, <4>2 DEF Results, Tested
    <3> QED  BY <3>2, <3>3 DEF ToStep
  <2>6. ASSUME NEW c \in C
        PROVE  /\ send(c) \in Data /\ SameTests(test(c), send(c))
               /\ Sent(c, send(c)) /\ Results(c, send(c))
      BY <2>5, SendStep
  <2>7. SameTests(test(C1), test(C2))
      BY <2>4 DEF ToTogether
  <2> HIDE DEF send
  <2>8. SameTests(send(C1), send(C2))
      BY <1>0, <2>6, <2>7 DEF SameTests
  <2>9. di' \in [C -> Data] /\ \A c \in C : di'[c] = send(c)
      BY <2>1, <2>6
  <2> QED  BY <1>0, <2>1, <2>6, <2>8, <2>9 DEF InStep
<1>2. CASE Cycle
  <2> DEFINE conv(c) == diInput_ConvValFromOtherCh(c, di[c], di[Peer(c)])
             proc(c) == diState_ProcessDIs(c, conv(c))
  <2>1. slice = 1 /\ di' = [c \in C |-> proc(c)] /\ slice' = 0
      BY <1>2 DEF Cycle, GetAndProcess
  <2>2. reset' \in BOOLEAN
    <3>1. reset' = reset \/ reset' = ~reset
        BY <1>2 DEF Cycle, ProcessChanges, SensorSwitches, Fails, ResetFlagChanges,
                    globErrHandler_ErrReset
    <3> QED  BY <3>1 DEF InStep
  <2>3. \A c \in C : Results(c, di[c]) /\ Sent(c, di[c])
      BY <2>1 DEF InStep
  <2>4. /\ conv(C1) \in Data /\ Results(C1, conv(C1)) /\ Alike(conv(C1), conv(C2))
        /\ \A d \in Inputs : Known(conv(C1), d)
      BY <1>0, <2>3, ReceiveStep
  <2>5. /\ conv(C2) \in Data /\ Results(C2, conv(C2)) /\ Alike(conv(C2), conv(C1))
        /\ \A d \in Inputs : Known(conv(C2), d)
      BY <1>0, <2>3, ReceiveStep
  <2> HIDE DEF conv
  <2>6. /\ proc(C1) \in Data /\ Results(C1, proc(C1))
        /\ SameTests(proc(C1), proc(C2)) /\ proc(C1).value = proc(C2).value
    <3>1. reset \in BOOLEAN
        BY DEF InStep
    <3> QED  BY <1>0, <2>4, <2>5, <3>1, ProcessDIsStep
  <2>7. proc(C2) \in Data /\ Results(C2, proc(C2))
    <3>1. reset \in BOOLEAN
        BY DEF InStep
    <3> QED  BY <1>0, <2>4, <2>5, <3>1, ProcessDIsStep
  <2> HIDE DEF proc
  <2>8. di' \in [C -> Data] /\ di'[C1] = proc(C1) /\ di'[C2] = proc(C2)
      BY <1>0, <2>1, <2>6, <2>7
  <2> QED  BY <1>0, <2>1, <2>2, <2>6, <2>7, <2>8 DEF InStep
<1>3. CASE UNCHANGED vars
    BY <1>3 DEF InStep, vars
<1> QED  BY <1>1, <1>2, <1>3 DEF Next

\* Both controllers are in the same state for every input and in the same step
\* of every test, for every number of pairs, every configuration of them, every
\* filter and every set of faults (diState_ProcessDIs,
\* diState_HandleToTestExecution).
THEOREM CopiesInStep == Spec => []CopiesAgree
<1>1. InStep => CopiesAgree
    BY DEF InStep, CopiesAgree, SameTests
<1> QED  BY <1>1, InStepInit, InStepNext, PTL DEF Spec

=============================================================================
