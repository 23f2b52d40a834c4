------------------------ MODULE SafetyDevice_proofs ------------------------
(***************************************************************************)
(* Theorems about SafetyDevice for every set of configurations, every set  *)
(* of originators and every length of the event queue: the types, the      *)
(* supervisor and the connections, and that the AIC state machine, the     *)
(* validators, the supervisor, the NV memory and the owner of the          *)
(* configuration stay in step (StatesInStep, ConfigurationInStep,          *)
(* AppliesWhatWasStored).                                                  *)
(*                                                                         *)
(* The state machine lags behind: it learns of the others through the      *)
(* queue.  The invariant therefore speaks of the state f in which it will  *)
(* be when it has handled all events of the queue: f agrees with the       *)
(* others at any time, and at the end of a cycle, when the queue is empty, *)
(* f is the state itself.                                                  *)
(***************************************************************************)
EXTENDS SafetyDevice, TLAPS

-----------------------------------------------------------------------------
(* Type correctness *)

\* Events are only added while there is room.
LEMMA QueueKeepsType ==
  ASSUME events \in Seq(Events), Len(events) <= MaxNumEvents,
         NEW es \in Seq(Events)
  PROVE  QueueAfter(es) \in Seq(Events) /\ Len(QueueAfter(es)) <= MaxNumEvents
BY MaxNumEventsIsPositive DEF QueueAfter, FitsQueue

\* Every handler leads to a state of the machine.
LEMMA NextAicStateType ==
  ASSUME NEW s \in AicStates, s # "STARTUP", NEW e \in Events
  PROVE  NextAicState(s, e) \in AicStates
BY DEF NextAicState, AicStates, WaitForInitState, StartCssState,
       WaitForTunidState, WaitForConfigState, ProcessConfigState,
       InvalidConfigState, IdleState, ProducerOnlyState, ConsumerOnlyState,
       ProducerConsumerState, WaitResetState, AbortState

\* The part of the types that signalling an event touches.
QueueTypeOK ==
  /\ events \in Seq(Events)
  /\ Len(events) <= MaxNumEvents
  /\ failSafe \in {"none", "EVENT_CNT_ERR", "NV_APPL_ERR", "UNEXPECTED", "CSS_FATAL"}

\* Signalled events keep the type of the queue.
LEMMA SignalKeepsType ==
  ASSUME DeviceTypeOK, NEW es \in Seq(Events), Signal(es)
  PROVE  QueueTypeOK'
BY QueueKeepsType DEF Signal, DeviceTypeOK, SmTypeOK, QueueTypeOK

\* One signalled event keeps the type of the queue.
LEMMA SignalOneKeepsType ==
  ASSUME DeviceTypeOK, NEW e \in Events, Signal(<<e>>)
  PROVE  QueueTypeOK'
<1>1. <<e>> \in Seq(Events)
  OBVIOUS
<1> QED
  BY <1>1, SignalKeepsType

\* What a transition of a validator leaves of the types.
SsoStates ==
  {"SELF_TESTING", "WAIT_TUNID", "CONFIGURING", "IDLE", "EXECUTING", "ABORT"}
\* The states of a validator.
SvStates == {"IDLE", "INITIALIZING", "ESTABLISHED", "FAILED"}

\* A transition of a validator keeps the types of the stack.
LEMMA SvTransitionKeepsType ==
  ASSUME DeviceTypeOK, NEW v \in Conn, NEW s \in SvStates, NEW e,
         NEW es \in Seq(Events), SvTransition(v, s, e, es)
  PROVE  /\ sv' \in [Conn -> SvStates]
         /\ sso' \in SsoStates
         /\ QueueTypeOK'
<1>1. QueueAfter(es) \in Seq(Events) /\ Len(QueueAfter(es)) <= MaxNumEvents
  BY QueueKeepsType DEF DeviceTypeOK, SmTypeOK
<1>2. sv' \in [Conn -> SvStates]
  BY DEF SvTransition, DeviceTypeOK, SvStates
<1>3. \A n : CnxnStateTrans(sso, e, n) \in SsoStates \cup {"FATAL"}
  BY DEF CnxnStateTrans, DeviceTypeOK, SsoStates
<1>4. sso' \in SsoStates
  BY <1>3 DEF SvTransition, DeviceTypeOK, SsoStates
<1> QED
  BY <1>1, <1>2, <1>4 DEF SvTransition, QueueTypeOK

\* The events a connection can raise.
LEMMA ConnEvents ==
  ASSUME NEW v \in Conn
  PROVE  /\ <<Established(v)>> \in Seq(Events)
         /\ <<Closed(v)>> \in Seq(Events)
         /\ <<Faulted(v)>> \in Seq(Events)
BY DEF Conn, Established, Closed, Faulted, Events

\* Dropping the connections signals events.
LEMMA DroppedEventsType == DroppedEvents \in Seq(Events)
<1>1. <<>> \in Seq(Events) /\ <<Closed("prod")>> \in Seq(Events)
      /\ <<Closed("cons")>> \in Seq(Events)
  BY ConnEvents DEF Conn
<1>2. \A a, b \in Seq(Events) : a \o b \in Seq(Events)
  OBVIOUS
<1> QED
  BY <1>1, <1>2 DEF DroppedEvents

\* One lemma per slice of the cycle: its actions keep the types.
LEMMA Slice6KeepsType ==
  ASSUME DeviceTypeOK, Slice6
  PROVE  DeviceTypeOK'
<1> USE DEF At, Go, Phases, smVars, cssVars, nvVars, hostVars
<1>1. CASE AbortStateRequest
  <2>1. QueueTypeOK'
    BY <1>1, SignalOneKeepsType DEF AbortStateRequest, Events
  <2> QED
    BY <1>1, <2>1 DEF AbortStateRequest, DeviceTypeOK, SmTypeOK, QueueTypeOK
<1>2. CASE NoAbortRequest
  BY <1>2 DEF NoAbortRequest, DeviceTypeOK, SmTypeOK
<1>3. CASE SetInitData
  <2>1. QueueTypeOK'
    BY <1>3, SignalOneKeepsType DEF SetInitData, Events
  <2>2. halc' \in BOOLEAN
    BY <1>3, Zenon DEF SetInitData
  <2> QED
    BY <1>3, <2>1, <2>2 DEF SetInitData, DeviceTypeOK, SmTypeOK, QueueTypeOK
<1>4. ASSUME NEW c \in Configs \cup {NoConfig}, SetConfigString(c)
      PROVE  DeviceTypeOK'
  <2>1. QueueTypeOK'
    BY <1>4, SignalOneKeepsType DEF SetConfigString, Events
  <2>2. halc' \in BOOLEAN /\ cfgIsToolOwned' \in BOOLEAN
    BY <1>4, Zenon DEF SetConfigString
  <2> QED
    BY <1>4, <2>1, <2>2 DEF SetConfigString, DeviceTypeOK, SmTypeOK, QueueTypeOK
<1>5. CASE OtherTelegram
  BY <1>5 DEF OtherTelegram, DeviceTypeOK, SmTypeOK
<1> QED
  BY <1>1, <1>2, <1>3, <1>4, <1>5 DEF Slice6

\* The monitors of the stack keep the types.
LEMMA MonitorsKeepType ==
  ASSUME DeviceTypeOK, Monitors
  PROVE  DeviceTypeOK'
<1> USE DEF At, Go, Phases, smVars, cssVars, nvVars, hostVars
<1>1. ASSUME NEW v \in Conn, FirstFrame(v)
      PROVE  DeviceTypeOK'
  <2>1. <<>> \in Seq(Events) /\ "ESTABLISHED" \in SvStates
    BY DEF SvStates
  <2>2. SvTransition(v, "ESTABLISHED", "ESTAB", <<>>)
    BY <1>1 DEF FirstFrame
  <2>3. sv' \in [Conn -> SvStates] /\ sso' \in SsoStates /\ QueueTypeOK'
    BY <2>1, <2>2, SvTransitionKeepsType
  <2> QED
    BY <1>1, <2>3
       DEF FirstFrame, DeviceTypeOK, SmTypeOK, QueueTypeOK, SvStates, SsoStates
<1>2. ASSUME NEW v \in Conn, Fault(v)
      PROVE  DeviceTypeOK'
  <2>1. <<Faulted(v)>> \in Seq(Events) /\ "FAILED" \in SvStates
    BY ConnEvents DEF SvStates
  <2>2. SvTransition(v, "FAILED", "FAIL", <<Faulted(v)>>)
    BY <1>2 DEF Fault
  <2>3. sv' \in [Conn -> SvStates] /\ sso' \in SsoStates /\ QueueTypeOK'
    BY <2>1, <2>2, SvTransitionKeepsType
  <2>4. isRunMode' \in BOOLEAN
    BY <1>2, Zenon DEF Fault, RunModeAfterLoss, DeviceTypeOK
  <2> QED
    BY <1>2, <2>3, <2>4
       DEF Fault, DeviceTypeOK, SmTypeOK, QueueTypeOK,
           SvStates, SsoStates
<1>3. ASSUME NEW run \in BOOLEAN, RunIdle(run)
      PROVE  DeviceTypeOK'
  BY <1>3 DEF RunIdle, DeviceTypeOK, SmTypeOK
<1> QED
  BY <1>1, <1>2, <1>3 DEF Monitors

\* The configuration task keeps the types.
LEMMA TaskStepKeepsType ==
  ASSUME DeviceTypeOK, TaskStep
  PROVE  DeviceTypeOK'
<1> USE DEF At, Go, Phases, smVars, cssVars, nvVars, hostVars
<1>1. CASE CheckForAbortState
  BY <1>1 DEF CheckForAbortState, DeviceTypeOK, SmTypeOK
<1>2. CASE EndMonitor
  BY <1>2 DEF EndMonitor, DeviceTypeOK, SmTypeOK
<1>3. CASE DiscardTask
  BY <1>3 DEF DiscardTask, DeviceTypeOK, SmTypeOK
<1>4. CASE InitIdle
  <2>1. QueueTypeOK'
    BY <1>4, SignalOneKeepsType
       DEF InitIdle, Events, DeviceTypeOK, SmTypeOK, QueueTypeOK
  <2> QED
    BY <1>4, <2>1 DEF InitIdle, DeviceTypeOK, SmTypeOK, QueueTypeOK
<1>5. ASSUME NEW status \in {"CONFIGURING", "WAIT_TUNID", "ABORT"}, InitOther(status)
      PROVE  DeviceTypeOK'
  <2> DEFINE e == CASE status = "CONFIGURING" -> "CSS_INIT_WAIT_CONFIG"
                    [] status = "WAIT_TUNID"  -> "CSS_INIT_WAIT_TUNID"
                    [] status = "ABORT"       -> "CSS_INIT_INVLD_NODEID"
  <2>1. e \in Events
    BY DEF Events
  <2>2. Signal(<<e>>)
    BY <1>5 DEF InitOther
  <2> HIDE DEF e
  <2>3. QueueTypeOK'
    BY <2>1, <2>2, SignalOneKeepsType
  <2>4. /\ cfgIsToolOwned' \in BOOLEAN
        /\ cfgIsOriginatorOwned' \in BOOLEAN
        /\ nvBusy' \in BOOLEAN
    BY <1>5, Zenon DEF InitOther
  <2> QED
    BY <1>5, <2>3, <2>4 DEF InitOther, DeviceTypeOK, SmTypeOK, QueueTypeOK
<1>6. CASE VerifyAndStore
  <2>1. QueueTypeOK'
    BY <1>6, SignalOneKeepsType
       DEF VerifyAndStore, Events, DeviceTypeOK, SmTypeOK, QueueTypeOK
  <2>2. nvBusy' \in BOOLEAN
    BY <1>6, Zenon DEF VerifyAndStore, DeviceTypeOK
  <2> QED
    BY <1>6, <2>1, <2>2 DEF VerifyAndStore, DeviceTypeOK, SmTypeOK, QueueTypeOK
<1>7. CASE WriteConfig
  BY <1>7 DEF WriteConfig, DeviceTypeOK, SmTypeOK
<1>8. CASE ApplyConfig
  <2>1. QueueTypeOK'
    BY <1>8, SignalOneKeepsType
       DEF ApplyConfig, Events, DeviceTypeOK, SmTypeOK, QueueTypeOK
  <2> QED
    BY <1>8, <2>1 DEF ApplyConfig, DeviceTypeOK, SmTypeOK, QueueTypeOK
<1>9. CASE CheckForTunidState
  <2>1. CASE sso = "CONFIGURING"
    <3>1. QueueTypeOK'
      BY <1>9, <2>1, SignalOneKeepsType DEF CheckForTunidState, Events
    <3> QED
      BY <1>9, <3>1 DEF CheckForTunidState, DeviceTypeOK, SmTypeOK, QueueTypeOK
  <2>2. CASE sso # "CONFIGURING"
    BY <1>9, <2>2 DEF CheckForTunidState, DeviceTypeOK, SmTypeOK
  <2> QED
    BY <2>1, <2>2
<1>10. CASE NoStep
  BY <1>10 DEF NoStep, DeviceTypeOK, SmTypeOK
<1> QED
  BY <1>1, <1>2, <1>3, <1>4, <1>5, <1>6, <1>7, <1>8, <1>9, <1>10 DEF TaskStep

\* The messages to the stack keep the types.
LEMMA HalcMessageKeepsType ==
  ASSUME DeviceTypeOK, HalcMessage
  PROVE  DeviceTypeOK'
<1> USE DEF MessageArrives, MayOpen, At, Go, Phases, smVars, cssVars, nvVars, hostVars
<1>1. CASE NoMessage
  BY <1>1 DEF NoMessage, DeviceTypeOK, SmTypeOK
<1>2. CASE ApplyTunid
  <2>1. nvBusy' \in BOOLEAN
    BY <1>2, Zenon DEF ApplyTunid
  <2> QED
    BY <1>2, <2>1 DEF ApplyTunid, DeviceTypeOK, SmTypeOK
<1>3. CASE SafetyReset
  <2>1. QueueTypeOK'
    BY <1>3, SignalOneKeepsType DEF SafetyReset, Events
  <2>2. isRunMode' \in BOOLEAN
    BY <1>3, Zenon DEF SafetyReset
  <2> QED
    BY <1>3, <2>1, <2>2 DEF SafetyReset, DeviceTypeOK, SmTypeOK, QueueTypeOK
<1>4. ASSUME NEW v \in Conn, FwdClose(v)
      PROVE  DeviceTypeOK'
  <2>1. <<Closed(v)>> \in Seq(Events) /\ "IDLE" \in SvStates
    BY ConnEvents DEF SvStates
  <2>2. SvTransition(v, "IDLE", "DEL", <<Closed(v)>>)
    BY <1>4 DEF FwdClose
  <2>3. sv' \in [Conn -> SvStates] /\ sso' \in SsoStates /\ QueueTypeOK'
    BY <2>1, <2>2, SvTransitionKeepsType
  <2>4. isRunMode' \in BOOLEAN
    BY <1>4, Zenon DEF FwdClose, RunModeAfterLoss, DeviceTypeOK
  <2> QED
    BY <1>4, <2>3, <2>4
       DEF FwdClose, DeviceTypeOK, SmTypeOK, QueueTypeOK, SvStates, SsoStates
<1>5. ASSUME NEW v \in Conn, T2Open(v)
      PROVE  DeviceTypeOK'
  <2>1. QueueTypeOK'
    BY <1>5, ConnEvents, SignalKeepsType DEF T2Open
  <2> QED
    BY <1>5, <2>1 DEF T2Open, DeviceTypeOK, SmTypeOK, QueueTypeOK
<1>6. ASSUME NEW c \in Configs, NEW o \in Originators, T1Denied(c, o)
      PROVE  DeviceTypeOK'
  BY <1>6 DEF T1Denied, T1Allowed, DeviceTypeOK, SmTypeOK
<1>7. RunModeAfterDrop \in BOOLEAN
  BY Zenon DEF RunModeAfterDrop, DeviceTypeOK
<1>8. SvAfterDrop \in [Conn -> SvStates]
  BY DEF SvAfterDrop, SvStates, DeviceTypeOK
<1>9. ASSUME NEW c \in Configs, NEW o \in Originators, T1Refused(c, o)
      PROVE  DeviceTypeOK'
  <2>1. QueueTypeOK'
    BY <1>9, DroppedEventsType, SignalKeepsType DEF T1Refused
  <2>2. cfgIsOriginatorOwned' \in BOOLEAN /\ nvBusy' \in BOOLEAN
    BY <1>9, Zenon DEF T1Refused
  <2> QED
    BY <1>7, <1>8, <1>9, <2>1, <2>2
       DEF T1Refused, T1Allowed, DeviceTypeOK, SmTypeOK, QueueTypeOK, SvStates
<1>10. ASSUME NEW c \in Configs, NEW o \in Originators, NEW v \in Conn,
              NEW known \in BOOLEAN, T1Accepted(v, c, o, known)
       PROVE  DeviceTypeOK'
  <2> DEFINE opens == IF known THEN ~Dropped ELSE SvAfterDrop[v] = "IDLE"
             last == IF opens THEN <<Established(v)>> ELSE <<>>
             es == DroppedEvents \o <<"CONFIG_RECEIVED", "CONFIG_DONE">> \o last
  <2>1. last \in Seq(Events)
    BY ConnEvents
  <2>2. <<"CONFIG_RECEIVED", "CONFIG_DONE">> \in Seq(Events)
    BY DEF Events
  <2>3. es \in Seq(Events)
    <3> HIDE DEF last
    <3> QED
      BY <2>1, <2>2, DroppedEventsType
  <2>4. /\ events' = QueueAfter(es)
        /\ failSafe' = CASE ~FitsQueue(es)   -> "EVENT_CNT_ERR"
                         [] known /\ Dropped -> "CSS_FATAL"
                         [] OTHER            -> "none"
    BY <1>10 DEF T1Accepted
  <2>5. sv' = IF opens THEN [SvAfterDrop EXCEPT ![v] = "INITIALIZING"] ELSE SvAfterDrop
    BY <1>10 DEF T1Accepted
  <2> HIDE DEF es, opens
  <2>6. QueueTypeOK'
    BY <2>3, <2>4, QueueKeepsType DEF QueueTypeOK, DeviceTypeOK, SmTypeOK
  <2>7. sv' \in [Conn -> SvStates]
    BY <1>8, <2>5 DEF SvStates
  <2>8. cfgIsOriginatorOwned' \in BOOLEAN /\ nvBusy' \in BOOLEAN
    BY <1>10, Zenon DEF T1Accepted
  <2>9. /\ candidate' = c /\ nvConfig' = c /\ scid' = c /\ cfunid' = o
        /\ sso' = "IDLE" /\ isRunMode' = RunModeAfterDrop /\ phase' = "events"
        /\ UNCHANGED <<aicState, cfgIsToolOwned, iParam, safConCheckActive, flash,
                       hostVars, cfgTask>>
    BY <1>10 DEF T1Accepted, T1Allowed
  <2> QED
    BY <1>7, <2>6, <2>7, <2>8, <2>9 DEF DeviceTypeOK, SmTypeOK, QueueTypeOK, SvStates
<1> QED
  BY <1>1, <1>2, <1>3, <1>4, <1>5, <1>6, <1>9, <1>10 DEF HalcMessage

\* The end of the cycle keeps the types.
LEMMA Slice39KeepsType ==
  ASSUME DeviceTypeOK, Slice39
  PROVE  DeviceTypeOK'
<1> USE DEF At, Go, Phases, smVars, cssVars, nvVars, hostVars
<1>1. CASE StateMachine
  <2>1. Head(events) \in Events /\ Tail(events) \in Seq(Events)
        /\ Len(Tail(events)) <= MaxNumEvents
    BY <1>1, MaxNumEventsIsPositive
       DEF StateMachine, HandleEvent, DeviceTypeOK, SmTypeOK
  <2>2. aicState' \in AicStates
    BY <1>1, <2>1, NextAicStateType
       DEF StateMachine, HandleEvent, DeviceTypeOK, SmTypeOK
  <2>3. \A s, e : SafConCheckAfter(s, e) \in BOOLEAN
    BY Zenon DEF SafConCheckAfter, DeviceTypeOK, SmTypeOK
  <2>4. safConCheckActive' \in BOOLEAN
    BY <1>1, <2>3, Zenon DEF StateMachine, HandleEvent
  <2>5. /\ iParam' \in Configs \cup {NoConfig}
        /\ candidate' \in Configs \cup {NoConfig}
    BY <1>1 DEF StateMachine, HandleEvent, ActivatesCandidate, DeviceTypeOK, SmTypeOK
  <2>6. /\ events' = Tail(events)
        /\ UNCHANGED <<cfgIsToolOwned, cfgIsOriginatorOwned, cssVars, nvVars,
                       hostVars, phase, cfgTask, failSafe>>
    BY <1>1 DEF StateMachine, HandleEvent
  <2> QED
    BY <2>1, <2>2, <2>4, <2>5, <2>6 DEF DeviceTypeOK, SmTypeOK
<1>2. CASE StartupState
  BY <1>2 DEF StartupState, AicStates, DeviceTypeOK, SmTypeOK
<1>3. CASE EndCycle
  BY <1>3 DEF EndCycle, DeviceTypeOK, SmTypeOK
<1> QED
  BY <1>1, <1>2, <1>3 DEF Slice39

\* Every step of the device keeps the types.
LEMMA NextKeepsType == DeviceTypeOK /\ [Next]_deviceVars => DeviceTypeOK'
<1> SUFFICES ASSUME DeviceTypeOK, [Next]_deviceVars
             PROVE  DeviceTypeOK'
  OBVIOUS
<1>1. CASE CycleStep
  BY <1>1, Slice6KeepsType, TaskStepKeepsType, HalcMessageKeepsType,
     Slice39KeepsType DEF CycleStep
<1>2. CASE Monitors
  BY <1>2, MonitorsKeepType
<1>3. CASE NvLowHandler
  <2>1. flash' \in [config : Configs \cup {NoConfig}, scid : Configs \cup {NoConfig}]
    BY <1>3 DEF NvLowHandler, DeviceTypeOK
  <2>2. UNCHANGED <<smVars, cssVars, scid, cfunid, nvConfig, hostVars, phase,
                    cfgTask, failSafe>>
    BY <1>3 DEF NvLowHandler
  <2>3. nvBusy' \in BOOLEAN
    BY <1>3, Zenon DEF NvLowHandler
  <2> QED
    BY <2>1, <2>2, <2>3 DEF DeviceTypeOK, SmTypeOK, smVars, cssVars, hostVars
<1>4. CASE UNCHANGED deviceVars
  BY <1>4 DEF deviceVars, DeviceTypeOK, SmTypeOK, smVars, cssVars, nvVars, hostVars
<1> QED
  BY <1>1, <1>2, <1>3, <1>4 DEF Next

\* Every variable keeps its type, and the event queue its bound, whatever the
\* order of telegrams, frames, faults and messages.
THEOREM DeviceTypeCorrect == Spec => []DeviceTypeOK
<1>1. DeviceInit => DeviceTypeOK
  <2> SUFFICES ASSUME DeviceInit
               PROVE  DeviceTypeOK
    OBVIOUS
  <2>1. /\ nvConfig \in Configs \cup {NoConfig}
        /\ scid \in Configs \cup {NoConfig}
    BY DEF DeviceInit
  <2>2. flash \in [config : Configs \cup {NoConfig}, scid : Configs \cup {NoConfig}]
    BY <2>1 DEF DeviceInit
  <2>3. sv \in [Conn -> {"IDLE", "INITIALIZING", "ESTABLISHED", "FAILED"}]
    BY DEF DeviceInit
  <2>4. /\ cfgIsToolOwned \in BOOLEAN /\ cfgIsOriginatorOwned \in BOOLEAN
        /\ safConCheckActive \in BOOLEAN
    BY Zenon DEF DeviceInit, SmInit
  <2>5. events \in Seq(Events) /\ Len(events) <= MaxNumEvents
    BY MaxNumEventsIsPositive DEF DeviceInit, SmInit
  <2>6. SmTypeOK
    BY <2>4, <2>5 DEF DeviceInit, SmInit, SmTypeOK, AicStates
  <2>7. /\ halc \in BOOLEAN /\ abortReqTriggered \in BOOLEAN
        /\ isRunMode \in BOOLEAN /\ nvBusy \in BOOLEAN
    BY Zenon DEF DeviceInit
  <2> QED
    BY <2>1, <2>2, <2>3, <2>6, <2>7 DEF DeviceInit, DeviceTypeOK, Phases
<1> QED
  BY <1>1, NextKeepsType, PTL DEF Spec

-----------------------------------------------------------------------------
(* The run mode *)

\* Closing or losing the consumer ends the run mode, and only an established
\* consumer starts it, so the property is inductive under the types.
LEMMA NextKeepsRunMode ==
  DeviceTypeOK /\ RunModeNeedsConsumer /\ [Next]_deviceVars => RunModeNeedsConsumer'
<1> SUFFICES ASSUME DeviceTypeOK, RunModeNeedsConsumer, [Next]_deviceVars
             PROVE  RunModeNeedsConsumer'
  OBVIOUS
<1> USE DEF RunModeNeedsConsumer, At
<1>1. sv \in [Conn -> {"IDLE", "INITIALIZING", "ESTABLISHED", "FAILED"}]
      /\ "cons" \in Conn /\ "prod" \in Conn
  BY DEF DeviceTypeOK, Conn
<1>2. ASSUME UNCHANGED <<sv, isRunMode>>, failSafe = "none" \/ UNCHANGED failSafe
      PROVE  RunModeNeedsConsumer'
  BY <1>2
<1>3. CASE Slice6 \/ TaskStep \/ Slice39 \/ NvLowHandler
  BY <1>2, <1>3
     DEF Slice6, AbortStateRequest, NoAbortRequest, SetInitData, SetConfigString,
         OtherTelegram, TaskStep, CheckForAbortState, EndMonitor, DiscardTask,
         InitIdle, InitOther, VerifyAndStore, WriteConfig, ApplyConfig,
         CheckForTunidState, NoStep, Slice39, StateMachine, StartupState,
         EndCycle, NvLowHandler, cssVars
<1>4. CASE Monitors
  <2>1. ASSUME NEW v \in Conn, FirstFrame(v)
        PROVE  RunModeNeedsConsumer'
    BY <1>1, <2>1 DEF FirstFrame, SvTransition
  <2>2. ASSUME NEW v \in Conn, Fault(v)
        PROVE  RunModeNeedsConsumer'
    BY <1>1, <2>2 DEF Fault, SvTransition, RunModeAfterLoss
  <2>3. ASSUME NEW run \in BOOLEAN, RunIdle(run)
        PROVE  RunModeNeedsConsumer'
    BY <2>3 DEF RunIdle
  <2> QED
    BY <1>4, <2>1, <2>2, <2>3 DEF Monitors
<1>5. CASE HalcMessage
  <2>1. CASE NoMessage \/ ApplyTunid \/ SafetyReset
    BY <2>1 DEF NoMessage, ApplyTunid, SafetyReset, MessageArrives, cssVars
  <2>2. ASSUME NEW v \in Conn, FwdClose(v)
        PROVE  RunModeNeedsConsumer'
    BY <1>1, <2>2 DEF FwdClose, MessageArrives, SvTransition, RunModeAfterLoss
  <2>3. ASSUME NEW v \in Conn, T2Open(v)
        PROVE  RunModeNeedsConsumer'
    BY <1>1, <2>3 DEF T2Open, MayOpen, MessageArrives, IsOpen
  <2>4. failSafe = "none" =>
          (RunModeAfterDrop => SvAfterDrop["cons"] = "ESTABLISHED")
    BY <1>1 DEF RunModeAfterDrop, SvAfterDrop
  <2>5. ASSUME NEW c \in Configs, NEW o \in Originators,
               T1Denied(c, o) \/ T1Refused(c, o)
        PROVE  RunModeNeedsConsumer'
    BY <2>4, <2>5
       DEF T1Denied, T1Refused, T1Allowed, MayOpen, MessageArrives, cssVars
  <2>6. ASSUME NEW c \in Configs, NEW o \in Originators, NEW v \in Conn,
               NEW known \in BOOLEAN, T1Accepted(v, c, o, known)
        PROVE  RunModeNeedsConsumer'
    <3>1. SvAfterDrop \in [Conn -> {"IDLE", "INITIALIZING", "ESTABLISHED", "FAILED"}]
      BY <1>1 DEF SvAfterDrop
    <3>2. failSafe = "none" /\ isRunMode' = RunModeAfterDrop
      BY <2>6 DEF T1Accepted, T1Allowed, MayOpen, MessageArrives
    <3>3. \/ sv' = SvAfterDrop
          \/ /\ sv' = [SvAfterDrop EXCEPT ![v] = "INITIALIZING"]
             /\ SvAfterDrop[v] \in {"IDLE", "FAILED"}
      BY <2>6 DEF T1Accepted, SvAfterDrop
    <3> QED
      BY <1>1, <2>4, <3>1, <3>2, <3>3
  <2> QED
    BY <1>5, <2>1, <2>2, <2>3, <2>5, <2>6 DEF HalcMessage
<1>6. CASE UNCHANGED deviceVars
  BY <1>2, <1>6 DEF deviceVars, cssVars
<1> QED
  BY <1>3, <1>4, <1>5, <1>6 DEF Next, CycleStep

\* The outputs are never in run mode without an established consumer
\* connection.
THEOREM RunModeIsSafe == Spec => []RunModeNeedsConsumer
<1>1. DeviceInit => RunModeNeedsConsumer
  BY DEF DeviceInit, RunModeNeedsConsumer
<1> QED
  BY <1>1, NextKeepsRunMode, DeviceTypeCorrect, PTL DEF Spec

-----------------------------------------------------------------------------
(* The cyclic check of the active parameters *)

\* The states in which the active parameters may be exchanged.
Uncommitted ==
  {"STARTUP", "WAIT_FOR_INIT", "START_CSS", "WAIT_TUNID"} \cup ConfigStates

\* The strengthening: the check is off in all of them, because it is only
\* resumed on the way to IDLE, and suspended on the only way back.
SafConInv == aicState \in Uncommitted => ~safConCheckActive

\* An event handled by the state machine keeps the cyclic check sound.
LEMMA HandleEventKeepsSafConInv ==
  ASSUME SafConInv, HandleEvent, aicState \in AicStates, aicState # "STARTUP"
  PROVE  SafConInv'
<1> DEFINE e == Head(events)
<1>1. /\ aicState' = NextAicState(aicState, e)
      /\ safConCheckActive' = SafConCheckAfter(aicState, e)
  BY DEF HandleEvent
<1> HIDE DEF e
<1> SUFFICES ASSUME NextAicState(aicState, e) \in Uncommitted
             PROVE  ~SafConCheckAfter(aicState, e)
  BY <1>1, Zenon DEF SafConInv
<1>2. \/ aicState \in Uncommitted
      \/ aicState = "IDLE" /\ e = "CONFIG_RECEIVED"
  BY DEF NextAicState, AicStates, Uncommitted, ConfigStates, IdleState,
         ProducerOnlyState, ConsumerOnlyState, ProducerConsumerState,
         WaitResetState, AbortState
<1>3. ~(aicState = "START_CSS" /\ e = "CSS_INIT_IDLE")
  BY DEF NextAicState, StartCssState, Uncommitted, ConfigStates
<1>4. ~(aicState = "PROCESS_CONFIG" /\ e = "CONFIG_DONE")
  BY DEF NextAicState, ProcessConfigState, Uncommitted, ConfigStates
<1>5. CASE aicState = "IDLE" /\ e = "CONFIG_RECEIVED"
  BY <1>3, <1>4, <1>5, Zenon DEF SafConCheckAfter
<1>6. CASE aicState \in Uncommitted /\ ~(aicState = "IDLE" /\ e = "CONFIG_RECEIVED")
  <2>1. SafConCheckAfter(aicState, e) = safConCheckActive
    BY <1>3, <1>4, <1>6, Zenon DEF SafConCheckAfter
  <2> QED
    BY <2>1, <1>6, Zenon DEF SafConInv
<1> QED
  BY <1>2, <1>5, <1>6

\* Only the state machine changes the state or the check, apart from STARTUP.
LEMMA StateAndCheckSteps ==
  ASSUME [Next]_deviceVars
  PROVE  \/ HandleEvent /\ aicState # "STARTUP"
         \/ StartupState /\ UNCHANGED <<safConCheckActive, iParam>>
         \/ UNCHANGED <<aicState, safConCheckActive>>
<1>1. CASE Slice6
  BY <1>1 DEF Slice6, AbortStateRequest, NoAbortRequest, SetInitData,
              SetConfigString, OtherTelegram, smVars
<1>2. CASE TaskStep
  BY <1>2 DEF TaskStep, CheckForAbortState, EndMonitor, DiscardTask, InitIdle,
              InitOther, VerifyAndStore, WriteConfig, ApplyConfig,
              CheckForTunidState, NoStep, smVars
<1>3. CASE HalcMessage
  BY <1>3 DEF HalcMessage, NoMessage, ApplyTunid, SafetyReset, FwdClose, T2Open,
              T1Denied, T1Refused, T1Accepted, smVars
<1>4. CASE Slice39
  BY <1>4 DEF Slice39, StateMachine, StartupState, EndCycle, smVars
<1>5. CASE Monitors \/ NvLowHandler \/ UNCHANGED deviceVars
  BY <1>5 DEF Monitors, FirstFrame, Fault, RunIdle, NvLowHandler, deviceVars, smVars
<1> QED
  BY <1>1, <1>2, <1>3, <1>4, <1>5 DEF Next, CycleStep

\* Every step of the device keeps the cyclic check sound.
LEMMA NextKeepsSafConInv ==
  DeviceTypeOK /\ SafConInv /\ [Next]_deviceVars => SafConInv'
<1> SUFFICES ASSUME DeviceTypeOK, SafConInv, [Next]_deviceVars
             PROVE  SafConInv'
  OBVIOUS
<1>1. CASE HandleEvent /\ aicState # "STARTUP"
  BY <1>1, HandleEventKeepsSafConInv DEF DeviceTypeOK, SmTypeOK
<1>2. CASE StartupState /\ UNCHANGED <<safConCheckActive, iParam>>
  <2>1. aicState = "STARTUP" /\ safConCheckActive' = safConCheckActive
    BY <1>2 DEF StartupState
  <2>2. ~safConCheckActive
    BY <2>1 DEF SafConInv, Uncommitted
  <2> QED
    BY <2>1, <2>2, Zenon DEF SafConInv
<1>3. CASE UNCHANGED <<aicState, safConCheckActive>>
  BY <1>3 DEF SafConInv
<1> QED
  BY <1>1, <1>2, <1>3, StateAndCheckSteps

\* The parameters change in three places: when the stored configuration is
\* applied at start or after the tool's, and when a candidate is activated.
LEMMA IParamSteps ==
  ASSUME [Next]_deviceVars, iParam' # iParam
  PROVE  aicState \in Uncommitted
<1>1. CASE Slice6
  BY <1>1 DEF Slice6, AbortStateRequest, NoAbortRequest, SetInitData,
              SetConfigString, OtherTelegram, smVars
<1>2. CASE TaskStep
  BY <1>2 DEF TaskStep, CheckForAbortState, EndMonitor, DiscardTask, InitIdle,
              InitOther, VerifyAndStore, WriteConfig, ApplyConfig,
              CheckForTunidState, NoStep, smVars, Uncommitted
<1>3. CASE HalcMessage
  BY <1>3 DEF HalcMessage, NoMessage, ApplyTunid, SafetyReset, FwdClose, T2Open,
              T1Denied, T1Refused, T1Accepted, smVars
<1>4. CASE Slice39
  BY <1>4 DEF Slice39, StateMachine, StartupState, EndCycle, smVars, HandleEvent,
              ActivatesCandidate, Uncommitted, ConfigStates
<1>5. CASE Monitors \/ NvLowHandler \/ UNCHANGED deviceVars
  BY <1>5 DEF Monitors, FirstFrame, Fault, RunIdle, NvLowHandler, deviceVars, smVars
<1> QED
  BY <1>1, <1>2, <1>3, <1>4, <1>5 DEF Next, CycleStep

\* The active parameters are never exchanged under the cyclic check, which
\* would take the exchange for a corruption and stop the device.
THEOREM ParametersAreGuarded == Spec => SafConGuardsParameters
<1>1. DeviceInit => SafConInv
  BY Zenon DEF DeviceInit, SmInit, SafConInv
<1>2. SafConInv /\ [Next]_deviceVars => [iParam' # iParam => ~safConCheckActive]_deviceVars
  BY IParamSteps DEF SafConInv
<1> QED
  BY <1>1, <1>2, NextKeepsSafConInv, DeviceTypeCorrect, PTL
     DEF Spec, SafConGuardsParameters

-----------------------------------------------------------------------------
(* The supervisor and the connections *)

\* The strengthening: CONFIGURING and the states before it hold no established
\* connection either, and neither does a device that starts.
SsoInv ==
  /\ failSafe = "none" /\ sso # "ABORT" =>
       (sso = "EXECUTING" <=> NumEstab(sv) > 0)
  /\ aicState \in {"STARTUP", "WAIT_FOR_INIT", "START_CSS"} => NumEstab(sv) = 0

\* The connections count one or zero each.
LEMMA NumEstabValues ==
  ASSUME NEW s
  PROVE  /\ NumEstab(s) \in {0, 1, 2}
         /\ NumEstab(s) = 0 <=> \A v \in Conn : s[v] # "ESTABLISHED"
         /\ NumEstab(s) = 2 <=> \A v \in Conn : s[v] = "ESTABLISHED"
BY DEF NumEstab, Conn

\* A validator that was not established and will not be does not count.
LEMMA NumEstabUnchanged ==
  ASSUME NEW s \in [Conn -> SvStates], NEW v \in Conn,
         s[v] # "ESTABLISHED", NEW t, t # "ESTABLISHED"
  PROVE  NumEstab([s EXCEPT ![v] = t]) = NumEstab(s)
BY DEF NumEstab, Conn

\* A transition of a validator keeps the supervisor in step.
LEMMA SvTransitionKeepsSso ==
  ASSUME DeviceTypeOK, SsoInv, failSafe = "none",
         NEW v \in Conn, NEW s \in SvStates, NEW e, NEW es,
         SvTransition(v, s, e, es),
         \/ e = "ESTAB" /\ s = "ESTABLISHED" /\ sv[v] # "ESTABLISHED"
         \/ e # "ESTAB" /\ s # "ESTABLISHED"
  PROVE  failSafe' = "none" /\ sso' # "ABORT" =>
           (sso' = "EXECUTING" <=> NumEstab(sv') > 0)
<1> DEFINE n == NumEstab(sv')
<1> DEFINE next == CnxnStateTrans(sso, e, n)
<1>1. sv' = [sv EXCEPT ![v] = s]
  BY DEF SvTransition
<1>2. /\ sso' = IF next = "FATAL" THEN sso ELSE next
      /\ failSafe' = CASE ~FitsQueue(es)   -> "EVENT_CNT_ERR"
                       [] next = "FATAL"   -> "UNEXPECTED"
                       [] OTHER            -> "none"
  BY <1>1, Zenon DEF SvTransition
<1>3. failSafe' = "none" => next # "FATAL" /\ sso' = next
  <2> HIDE DEF next
  <2> QED
    BY <1>2
<1>4. NumEstab(sv) \in {0, 1, 2} /\ n \in {0, 1, 2}
  BY NumEstabValues
<1>5. sso # "ABORT" => (sso = "EXECUTING" <=> NumEstab(sv) > 0)
  BY DEF SsoInv
<1>6. next # "FATAL" =>
        \/ e = "ESTAB" /\ sso \in {"IDLE", "EXECUTING"} /\ next = "EXECUTING"
        \/ e # "ESTAB" /\ sso = "IDLE" /\ n = 0 /\ next = "IDLE"
        \/ e # "ESTAB" /\ sso = "EXECUTING" /\ n = 1 /\ next = "EXECUTING"
        \/ e # "ESTAB" /\ sso = "EXECUTING" /\ n = 0 /\ next = "IDLE"
        \/ e # "ESTAB" /\ sso \in {"ABORT", "CONFIGURING"} /\ next = sso
  <2> HIDE DEF n
  <2> QED
    BY DEF CnxnStateTrans
<1> HIDE DEF next
<1>7. CASE e = "ESTAB"
  <2>1. n = NumEstab(sv) + 1
    BY <1>1, <1>7 DEF NumEstab, Conn, DeviceTypeOK
  <2> QED
    BY <1>3, <1>4, <1>6, <1>7, <2>1
<1>8. CASE e # "ESTAB"
  <2>1. n <= NumEstab(sv)
    BY <1>1, <1>8 DEF NumEstab, Conn, DeviceTypeOK
  <2> QED
    BY <1>3, <1>4, <1>5, <1>6, <1>8, <2>1
<1> QED
  BY <1>7, <1>8

\* Every step of the device keeps the supervisor in step.
LEMMA NextKeepsSsoInv == DeviceTypeOK /\ SsoInv /\ [Next]_deviceVars => SsoInv'
<1> SUFFICES ASSUME DeviceTypeOK, SsoInv, [Next]_deviceVars
             PROVE  SsoInv'
  OBVIOUS
<1> DEFINE Count == NumEstab(sv)
<1>1. sv \in [Conn -> SvStates] /\ "prod" \in Conn /\ "cons" \in Conn
  BY DEF DeviceTypeOK, Conn, SvStates
<1>2. Count \in {0, 1, 2}
  BY NumEstabValues
\* Nothing leads back to the states of a starting device.
<1>3. aicState' \in {"STARTUP", "WAIT_FOR_INIT", "START_CSS"} =>
        aicState \in {"STARTUP", "WAIT_FOR_INIT", "START_CSS"}
  <2>1. CASE HandleEvent /\ aicState # "STARTUP"
    BY <2>1 DEF HandleEvent, NextAicState, WaitForTunidState,
                WaitForConfigState, ProcessConfigState, InvalidConfigState,
                IdleState, ProducerOnlyState, ConsumerOnlyState,
                ProducerConsumerState, WaitResetState, AbortState,
                DeviceTypeOK, SmTypeOK, AicStates
  <2> QED
    BY <2>1, StateAndCheckSteps DEF StartupState
\* Only the first frame of a running device establishes a connection.
<1>4. ASSUME sso' = sso, NumEstab(sv') = Count, failSafe = "none"
      PROVE  SsoInv'
  BY <1>3, <1>4 DEF SsoInv
<1>5. CASE Slice6 \/ Slice39
  BY <1>4, <1>5 DEF Slice6, AbortStateRequest, NoAbortRequest, SetInitData,
     SetConfigString, OtherTelegram, Slice39, StateMachine, StartupState,
     EndCycle, cssVars, At
<1>6. CASE NvLowHandler
  <2>1. UNCHANGED cssVars /\ failSafe = "none"
    BY <1>6, Zenon DEF NvLowHandler, At
  <2> QED
    BY <1>4, <2>1 DEF cssVars
<1>7. CASE TaskStep
  <2>1. CASE EndMonitor \/ DiscardTask \/ WriteConfig \/ CheckForTunidState \/ NoStep
    BY <1>4, <2>1 DEF EndMonitor, DiscardTask, WriteConfig, CheckForTunidState,
       NoStep, cssVars, At
  <2>2. CASE CheckForAbortState
    <3>1. sso' = "ABORT" /\ sv' = sv /\ aicState = "ABORT"
      BY <2>2 DEF CheckForAbortState
    <3> QED
      BY <1>3, <3>1 DEF SsoInv
  <2>3. CASE InitIdle \/ \E status \in {"CONFIGURING", "WAIT_TUNID", "ABORT"} :
                           InitOther(status)
    <3>1. aicState = "START_CSS" /\ sv' = sv /\ sso' # "EXECUTING"
      BY <2>3 DEF InitIdle, InitOther
    <3>2. Count = 0
      BY <3>1 DEF SsoInv
    <3> QED
      BY <1>3, <3>1, <3>2 DEF SsoInv
  <2>4. CASE VerifyAndStore \/ ApplyConfig
    <3>1. sv' = sv /\ failSafe = "none"
      BY <2>4 DEF VerifyAndStore, ApplyConfig, At
    <3>2. \/ sso' = sso
          \/ sso \in {"IDLE", "CONFIGURING"} /\ sso' = "CONFIGURING"
          \/ sso = "CONFIGURING" /\ sso' = "IDLE"
      BY <2>4 DEF VerifyAndStore, ApplyConfig
    <3> QED
      BY <1>3, <3>1, <3>2 DEF SsoInv
  <2> QED
    BY <1>7, <2>1, <2>2, <2>3, <2>4 DEF TaskStep
<1>8. CASE Monitors
  <2>1. ASSUME NEW v \in Conn, FirstFrame(v)
        PROVE  SsoInv'
    <3>1. SvTransition(v, "ESTABLISHED", "ESTAB", <<>>) /\ failSafe = "none"
          /\ sv[v] # "ESTABLISHED"
      BY <2>1 DEF FirstFrame, At
    <3>2. aicState' \notin {"STARTUP", "WAIT_FOR_INIT", "START_CSS"}
      BY <1>3, <2>1 DEF FirstFrame
    <3> QED
      BY <3>1, <3>2, SvTransitionKeepsSso DEF SsoInv, SvStates
  <2>2. ASSUME NEW v \in Conn, Fault(v)
        PROVE  SsoInv'
    <3>1. SvTransition(v, "FAILED", "FAIL", <<Faulted(v)>>) /\ failSafe = "none"
      BY <2>2 DEF Fault, At
    <3>2. aicState' \notin {"STARTUP", "WAIT_FOR_INIT", "START_CSS"}
      BY <1>3, <2>2 DEF Fault, ServedStates, Executing, ConfigStates
    <3> QED
      BY <3>1, <3>2, SvTransitionKeepsSso DEF SsoInv, SvStates
  <2>3. ASSUME NEW run \in BOOLEAN, RunIdle(run)
        PROVE  SsoInv'
    BY <1>4, <2>3 DEF RunIdle, At
  <2> QED
    BY <1>8, <2>1, <2>2, <2>3 DEF Monitors
<1>9. CASE HalcMessage
  <2>1. CASE NoMessage \/ SafetyReset
    BY <1>4, <2>1 DEF NoMessage, SafetyReset, MessageArrives, At, cssVars
  <2>2. CASE ApplyTunid
    BY <1>3, <2>2 DEF ApplyTunid, MessageArrives, At, SsoInv
  <2>3. ASSUME NEW v \in Conn, FwdClose(v)
        PROVE  SsoInv'
    <3>1. SvTransition(v, "IDLE", "DEL", <<Closed(v)>>) /\ failSafe = "none"
      BY <2>3 DEF FwdClose, MessageArrives, At
    <3>2. Count = 0 => NumEstab(sv') = 0
      BY <1>1, <3>1 DEF SvTransition, NumEstab, Conn
    <3> QED
      BY <1>3, <3>1, <3>2, SvTransitionKeepsSso DEF SsoInv, SvStates
  <2>4. ASSUME NEW v \in Conn, T2Open(v)
        PROVE  SsoInv'
    <3>1. sv' = [sv EXCEPT ![v] = "INITIALIZING"] /\ sv[v] # "ESTABLISHED"
          /\ sso' = sso /\ failSafe = "none"
      BY <2>4 DEF T2Open, MayOpen, MessageArrives, At, IsOpen
    <3>2. NumEstab(sv') = Count
      BY <1>1, <3>1, NumEstabUnchanged
    <3> QED
      BY <1>4, <3>1, <3>2
  <2>5. failSafe = "none" /\ sso \in {"IDLE", "EXECUTING", "CONFIGURING"} =>
          NumEstab(SvAfterDrop) = 0
    BY <1>2 DEF SvAfterDrop, Dropped, SsoInv, NumEstab, Conn
  <2>6. ASSUME NEW c \in Configs, NEW o \in Originators, T1Denied(c, o)
        PROVE  SsoInv'
    BY <1>4, <2>6 DEF T1Denied, T1Allowed, MayOpen, MessageArrives, At, cssVars
  <2>7. ASSUME NEW c \in Configs, NEW o \in Originators, T1Refused(c, o)
        PROVE  SsoInv'
    <3>1. sv' = SvAfterDrop /\ sso' = "CONFIGURING" /\ failSafe = "none"
          /\ sso \in {"IDLE", "EXECUTING", "CONFIGURING"}
      BY <2>7 DEF T1Refused, T1Allowed, MayOpen, MessageArrives, At
    <3> QED
      BY <2>5, <3>1 DEF SsoInv
  <2>8. ASSUME NEW c \in Configs, NEW o \in Originators, NEW v \in Conn,
               NEW known \in BOOLEAN, T1Accepted(v, c, o, known)
        PROVE  SsoInv'
    <3>1. /\ sso' = "IDLE" /\ failSafe = "none"
          /\ sso \in {"IDLE", "EXECUTING", "CONFIGURING"}
          /\ sv' \in {SvAfterDrop, [SvAfterDrop EXCEPT ![v] = "INITIALIZING"]}
      BY <2>8 DEF T1Accepted, T1Allowed, MayOpen, MessageArrives, At
    <3>2. SvAfterDrop \in [Conn -> SvStates]
      BY <1>1 DEF SvAfterDrop, SvStates
    <3>3. SvAfterDrop[v] # "ESTABLISHED"
      BY <2>5, <3>1, NumEstabValues
    <3>4. NumEstab(sv') = 0
      BY <2>5, <3>1, <3>2, <3>3, NumEstabUnchanged
    <3> QED
      BY <3>1, <3>4 DEF SsoInv
  <2> QED
    BY <1>9, <2>1, <2>2, <2>3, <2>4, <2>6, <2>7, <2>8 DEF HalcMessage
<1>10. CASE UNCHANGED deviceVars
  BY <1>10 DEF deviceVars, smVars, cssVars, SsoInv
<1> QED
  BY <1>5, <1>6, <1>7, <1>8, <1>9, <1>10 DEF Next, CycleStep

\* The supervisor is in EXECUTING exactly while a connection is established,
\* although it learns of the connections one transition at a time.
THEOREM SupervisorFollowsConnections == Spec => []SsoMatchesConnections
<1>1. DeviceInit => SsoInv
  BY DEF DeviceInit, SmInit, SsoInv, NumEstab, Conn
<1>2. SsoInv => SsoMatchesConnections
  BY DEF SsoInv, SsoMatchesConnections
<1> QED
  BY <1>1, <1>2, NextKeepsSsoInv, DeviceTypeCorrect, PTL DEF Spec

-----------------------------------------------------------------------------
(* Where a queue of events leads *)

\* The handlers lead from state s over the events of q to state f.
Leads(s, q, f) ==
  \E p \in [1 .. Len(q) + 1 -> AicStates] :
    /\ p[1] = s
    /\ p[Len(q) + 1] = f
    /\ \A i \in 1 .. Len(q) : p[i + 1] = NextAicState(p[i], q[i])

\* No event leads nowhere, and one event to the next state.
LEMMA LeadsNowhere ==
  ASSUME NEW s \in AicStates
  PROVE  \A f : Leads(s, <<>>, f) <=> f = s
<1>1. ASSUME NEW f, Leads(s, <<>>, f)
      PROVE  f = s
  BY <1>1 DEF Leads
<1>2. Leads(s, <<>>, s)
  <2> DEFINE p == [i \in 1 .. Len(<<>>) + 1 |-> s]
  <2>1. p \in [1 .. Len(<<>>) + 1 -> AicStates] /\ p[1] = s /\ p[Len(<<>>) + 1] = s
    OBVIOUS
  <2>2. \A i \in 1 .. Len(<<>>) : p[i + 1] = NextAicState(p[i], <<>>[i])
    OBVIOUS
  <2> HIDE DEF p
  <2> QED
    BY <2>1, <2>2 DEF Leads
<1> QED
  BY <1>1, <1>2

\* One event leads to the next state of it.
LEMMA LeadsOneStep ==
  ASSUME NEW s \in AicStates, s # "STARTUP", NEW e \in Events
  PROVE  Leads(s, <<e>>, NextAicState(s, e))
<1> DEFINE g == NextAicState(s, e)
           p == [i \in 1 .. 2 |-> IF i = 1 THEN s ELSE g]
<1>1. g \in AicStates
  BY NextAicStateType
<1> HIDE DEF g
<1>2. p \in [1 .. 2 -> AicStates] /\ p[1] = s /\ p[2] = g
  BY <1>1
<1> HIDE DEF p
<1>3. Len(<<e>>) = 1 /\ <<e>>[1] = e
  OBVIOUS
<1>4. p \in [1 .. Len(<<e>>) + 1 -> AicStates] /\ p[Len(<<e>>) + 1] = g
  BY <1>2, <1>3
<1>5. \A i \in 1 .. Len(<<e>>) : p[i + 1] = NextAicState(p[i], <<e>>[i])
  <2> SUFFICES ASSUME NEW i \in 1 .. Len(<<e>>)
               PROVE  p[i + 1] = NextAicState(p[i], <<e>>[i])
    OBVIOUS
  <2>1. i = 1 /\ i + 1 = 2
    BY <1>3
  <2> QED
    BY <1>2, <1>3, <2>1 DEF g
<1> QED
  BY <1>2, <1>4, <1>5 DEF Leads, g

\* Two events lead to the next state of the next state.
LEMMA LeadsTwoSteps ==
  ASSUME NEW s \in AicStates, s # "STARTUP", NEW d \in Events, NEW e \in Events,
         NEW g \in AicStates, g # "STARTUP", g = NextAicState(s, d)
  PROVE  Leads(s, <<d, e>>, NextAicState(g, e))
<1> DEFINE h == NextAicState(g, e)
           p == [i \in 1 .. 3 |-> IF i = 1 THEN s ELSE IF i = 2 THEN g ELSE h]
<1>1. h \in AicStates
  BY NextAicStateType
<1> HIDE DEF h
<1>2. p \in [1 .. 3 -> AicStates] /\ p[1] = s /\ p[2] = g /\ p[3] = h
  BY <1>1
<1> HIDE DEF p
<1>3. Len(<<d, e>>) = 2 /\ <<d, e>>[1] = d /\ <<d, e>>[2] = e
  OBVIOUS
<1>4. p \in [1 .. Len(<<d, e>>) + 1 -> AicStates] /\ p[Len(<<d, e>>) + 1] = h
  BY <1>2, <1>3
<1>5. \A i \in 1 .. Len(<<d, e>>) : p[i + 1] = NextAicState(p[i], <<d, e>>[i])
  <2> SUFFICES ASSUME NEW i \in 1 .. Len(<<d, e>>)
               PROVE  p[i + 1] = NextAicState(p[i], <<d, e>>[i])
    OBVIOUS
  <2>1. (i = 1 /\ i + 1 = 2) \/ (i = 2 /\ i + 1 = 3)
    BY <1>3
  <2>2. CASE i = 1
    BY <1>2, <1>3, <2>1, <2>2
  <2>3. CASE i = 2
    BY <1>2, <1>3, <2>1, <2>3 DEF h
  <2> QED
    BY <2>1, <2>2, <2>3
<1> QED
  BY <1>2, <1>4, <1>5 DEF Leads, h

\* Events put behind others lead on from where those lead.
LEMMA LeadsOn ==
  ASSUME NEW s \in AicStates, NEW f \in AicStates, NEW g \in AicStates,
         NEW q \in Seq(Events), NEW r \in Seq(Events),
         Leads(s, q, f), Leads(f, r, g)
  PROVE  Leads(s, q \o r, g)
<1> DEFINE m == Len(q)
           n == Len(r)
<1>1. PICK p \in [1 .. m + 1 -> AicStates] :
        /\ p[1] = s /\ p[m + 1] = f
        /\ \A i \in 1 .. m : p[i + 1] = NextAicState(p[i], q[i])
  BY DEF Leads
<1>2. PICK t \in [1 .. n + 1 -> AicStates] :
        /\ t[1] = f /\ t[n + 1] = g
        /\ \A i \in 1 .. n : t[i + 1] = NextAicState(t[i], r[i])
  BY DEF Leads
<1>3. m \in Nat /\ n \in Nat /\ Len(q \o r) = m + n
  OBVIOUS
<1>4. /\ \A i \in 1 .. m : (q \o r)[i] = q[i]
      /\ \A i \in m + 1 .. m + n : (q \o r)[i] = r[i - m]
  OBVIOUS
<1> HIDE DEF m, n
<1> DEFINE u == [i \in 1 .. m + n + 1 |-> IF i <= m THEN p[i] ELSE t[i - m]]
<1>5. u \in [1 .. m + n + 1 -> AicStates]
  BY <1>1, <1>2, <1>3
<1>6. u[1] = s /\ u[m + n + 1] = g
  BY <1>1, <1>2, <1>3
<1>7. ASSUME NEW i \in 1 .. m + n
      PROVE  u[i + 1] = NextAicState(u[i], (q \o r)[i])
  <2>1. CASE i \in 1 .. m
    <3>1. u[i] = p[i] /\ (q \o r)[i] = q[i] /\ p[i + 1] = NextAicState(p[i], q[i])
      BY <1>1, <1>3, <1>4, <2>1
    <3>2. u[i + 1] = p[i + 1]
      BY <1>1, <1>2, <1>3, <2>1
    <3> QED
      BY <3>1, <3>2
  <2>2. CASE i \in m + 1 .. m + n
    <3>1. i - m \in 1 .. n /\ (i - m) + 1 = (i + 1) - m
      BY <1>3, <2>2
    <3>2. u[i] = t[i - m] /\ (q \o r)[i] = r[i - m]
      BY <1>3, <1>4, <2>2
    <3>3. u[i + 1] = t[(i + 1) - m]
      BY <1>3, <2>2
    <3>4. t[(i - m) + 1] = NextAicState(t[i - m], r[i - m])
      BY <1>2, <3>1
    <3> QED
      BY <3>1, <3>2, <3>3, <3>4
  <2> QED
    BY <1>3, <2>1, <2>2
<1> HIDE DEF u
<1> QED
  BY <1>3, <1>5, <1>6, <1>7 DEF Leads

\* Handling the first event takes the state one step along the way.
LEMMA LeadsFromTail ==
  ASSUME NEW s \in AicStates, NEW f \in AicStates, NEW q \in Seq(Events),
         q # <<>>, Leads(s, q, f)
  PROVE  Leads(NextAicState(s, Head(q)), Tail(q), f)
<1> DEFINE m == Len(q)
<1>1. PICK p \in [1 .. m + 1 -> AicStates] :
        /\ p[1] = s /\ p[m + 1] = f
        /\ \A i \in 1 .. m : p[i + 1] = NextAicState(p[i], q[i])
  BY DEF Leads
<1>2. m \in Nat /\ m >= 1 /\ Len(Tail(q)) = m - 1 /\ Head(q) = q[1]
  OBVIOUS
<1>3. \A i \in 1 .. m - 1 : Tail(q)[i] = q[i + 1]
  OBVIOUS
<1> HIDE DEF m
<1> DEFINE u == [i \in 1 .. m |-> p[i + 1]]
<1>4. u \in [1 .. m -> AicStates]
  BY <1>1, <1>2
<1>5. u[1] = NextAicState(s, Head(q)) /\ u[m] = f
  <2>1. p[2] = NextAicState(p[1], q[1])
    BY <1>1, <1>2
  <2> QED
    BY <1>1, <1>2, <2>1
<1>6. \A i \in 1 .. m - 1 : u[i + 1] = NextAicState(u[i], Tail(q)[i])
  <2> SUFFICES ASSUME NEW i \in 1 .. m - 1
               PROVE  u[i + 1] = NextAicState(u[i], Tail(q)[i])
    OBVIOUS
  <2>1. u[i] = p[i + 1] /\ u[i + 1] = p[i + 2] /\ Tail(q)[i] = q[i + 1]
    BY <1>2, <1>3
  <2>2. p[(i + 1) + 1] = NextAicState(p[i + 1], q[i + 1])
    BY <1>1, <1>2
  <2> QED
    BY <1>2, <2>1, <2>2
<1> HIDE DEF u
<1>7. (m - 1) + 1 = m
  BY <1>2
<1> QED
  BY <1>2, <1>4, <1>5, <1>6, <1>7 DEF Leads

-----------------------------------------------------------------------------
(* What the events do to the state *)

Starting == {"STARTUP", "WAIT_FOR_INIT", "START_CSS"}
Running == {"IDLE"} \cup Executing
Waiting == {"WAIT_FOR_CONFIG", "INVALID_CONFIG"}
Gone == {"ABORT", "WAIT_RESET"}

\* The state machine takes the connection of validator v for open.
Holds(f, v) ==
  \/ v = "prod" /\ f \in {"EXEC_PROD_ONLY", "EXEC_PROD_CONS"}
  \/ v = "cons" /\ f \in {"EXEC_CONS_ONLY", "EXEC_PROD_CONS"}

\* No event leads back to STARTUP.
LEMMA NeverBackToStartup ==
  ASSUME NEW f \in AicStates, f # "STARTUP", NEW e \in Events
  PROVE  NextAicState(f, e) \in AicStates \ {"STARTUP"}
BY DEF NextAicState, AicStates, WaitForInitState, StartCssState,
       WaitForTunidState, WaitForConfigState, ProcessConfigState,
       InvalidConfigState, IdleState, ProducerOnlyState, ConsumerOnlyState,
       ProducerConsumerState, WaitResetState, AbortState

\* A closed or lost connection is no longer held, and nothing else changes.
LEMMA LosingEvent ==
  ASSUME NEW f \in AicStates, f # "STARTUP", NEW v \in Conn,
         NEW e \in {Closed(v), Faulted(v)}
  PROVE  LET g == NextAicState(f, e)
         IN  /\ f \in Running => /\ g \in Running
                                 /\ \A w \in Conn : Holds(g, w) <=> Holds(f, w) /\ w # v
             /\ f \notin Running => g = f
<1> USE DEF NextAicState, AicStates, WaitForInitState, StartCssState,
            WaitForTunidState, WaitForConfigState, ProcessConfigState,
            InvalidConfigState, IdleState, ProducerOnlyState, ConsumerOnlyState,
            ProducerConsumerState, WaitResetState, AbortState, Running, Executing,
            ProdGone, ConsGone, Closed, Faulted, Conn
<1>1. CASE f \notin Running
  BY <1>1
<1>2. CASE f \in Running
  BY <1>2 DEF Holds
<1> QED
  BY <1>1, <1>2

\* A new connection is held in the states that can hold it.
LEMMA OpeningEvent ==
  ASSUME NEW f \in AicStates, f # "STARTUP", NEW v \in Conn, ~Holds(f, v)
  PROVE  LET g == NextAicState(f, Established(v))
         IN  /\ f \in Running => /\ g \in Executing
                                 /\ \A w \in Conn : Holds(g, w) <=> Holds(f, w) \/ w = v
             /\ f \notin Running => g = f
<1> USE DEF NextAicState, AicStates, WaitForInitState, StartCssState,
            WaitForTunidState, WaitForConfigState, ProcessConfigState,
            InvalidConfigState, IdleState, ProducerOnlyState, ConsumerOnlyState,
            ProducerConsumerState, WaitResetState, AbortState, Running, Executing,
            Established, Conn
<1>1. CASE f \notin Running
  BY <1>1
<1>2. CASE f \in Running
  BY <1>2 DEF Holds
<1> QED
  BY <1>1, <1>2

\* The other events, in the states in which they may come.
LEMMA OtherEvents ==
  ASSUME NEW f \in AicStates, f # "STARTUP"
  PROVE  /\ f \in ServedStates => NextAicState(f, "ABORT_REQUEST") = "ABORT"
         /\ f = "WAIT_FOR_INIT" => NextAicState(f, "CSS_INIT_RECEIVED") = "START_CSS"
         /\ f = "START_CSS" =>
              /\ NextAicState(f, "CSS_INIT_IDLE") = "IDLE"
              /\ NextAicState(f, "CSS_INIT_WAIT_TUNID") = "WAIT_TUNID"
              /\ NextAicState(f, "CSS_INIT_WAIT_CONFIG") = "WAIT_FOR_CONFIG"
              /\ NextAicState(f, "CSS_INIT_INVLD_NODEID") = "ABORT"
         /\ NextAicState(f, "TUNID_RECEIVED") =
              IF f = "WAIT_TUNID" THEN "WAIT_FOR_CONFIG" ELSE f
         /\ NextAicState(f, "CONFIG_RECEIVED") =
              IF f \in Waiting \cup {"IDLE"} THEN "PROCESS_CONFIG" ELSE f
         /\ NextAicState(f, "INVLD_CONFIG") =
              IF f = "PROCESS_CONFIG" THEN "INVALID_CONFIG" ELSE f
         /\ NextAicState(f, "CONFIG_DONE") =
              IF f = "PROCESS_CONFIG" THEN "IDLE" ELSE f
         /\ NextAicState(f, "SAFETY_RESET") =
              IF f \in {"IDLE", "WAIT_TUNID", "ABORT"} \cup ConfigStates
              THEN "WAIT_RESET" ELSE f
<1> USE DEF NextAicState, AicStates, WaitForInitState, StartCssState,
            WaitForTunidState, WaitForConfigState, ProcessConfigState,
            InvalidConfigState, IdleState, ProducerOnlyState, ConsumerOnlyState,
            ProducerConsumerState, WaitResetState, AbortState, ServedStates,
            Executing, ConfigStates, Waiting, ProdGone, ConsGone
<1>1. f \in ServedStates => NextAicState(f, "ABORT_REQUEST") = "ABORT"
  OBVIOUS
<1>2. /\ f = "WAIT_FOR_INIT" => NextAicState(f, "CSS_INIT_RECEIVED") = "START_CSS"
      /\ f = "START_CSS" =>
           /\ NextAicState(f, "CSS_INIT_IDLE") = "IDLE"
           /\ NextAicState(f, "CSS_INIT_WAIT_TUNID") = "WAIT_TUNID"
           /\ NextAicState(f, "CSS_INIT_WAIT_CONFIG") = "WAIT_FOR_CONFIG"
           /\ NextAicState(f, "CSS_INIT_INVLD_NODEID") = "ABORT"
  OBVIOUS
<1>3. NextAicState(f, "TUNID_RECEIVED") =
        IF f = "WAIT_TUNID" THEN "WAIT_FOR_CONFIG" ELSE f
  OBVIOUS
<1>4. NextAicState(f, "CONFIG_RECEIVED") =
        IF f \in Waiting \cup {"IDLE"} THEN "PROCESS_CONFIG" ELSE f
  OBVIOUS
<1>5. NextAicState(f, "INVLD_CONFIG") =
        IF f = "PROCESS_CONFIG" THEN "INVALID_CONFIG" ELSE f
  OBVIOUS
<1>6. NextAicState(f, "CONFIG_DONE") =
        IF f = "PROCESS_CONFIG" THEN "IDLE" ELSE f
  OBVIOUS
<1>7. NextAicState(f, "SAFETY_RESET") =
        IF f \in {"IDLE", "WAIT_TUNID", "ABORT"} \cup ConfigStates
        THEN "WAIT_RESET" ELSE f
  OBVIOUS
<1> QED
  BY <1>1, <1>2, <1>3, <1>4, <1>5, <1>6, <1>7

-----------------------------------------------------------------------------
(* The parts of the invariant that stand alone *)

\* A device that starts, or waits for its TUNID, has no connection at all.
StartsClosed ==
  aicState \in Starting \/ sso \in {"SELF_TESTING", "WAIT_TUNID"} =>
    \A v \in Conn : sv[v] = "IDLE"

\* At most one of the two owner flags is set.
OneOwner == ~(cfgIsToolOwned /\ cfgIsOriginatorOwned)

\* Whoever announces a configuration has left its parameters, as the active
\* ones a or as a candidate c.
Announces(q, a, c) ==
  \A i \in 1 .. Len(q) :
    /\ q[i] = "CSS_INIT_IDLE" => a # NoConfig
    /\ q[i] = "CONFIG_DONE" => a # NoConfig \/ c # NoConfig

\* A running device has parameters, and has them under the check.
ParamsInStep ==
  /\ aicState \in Running => safConCheckActive /\ iParam # NoConfig
  /\ Announces(events, iParam, candidate)

\* Nothing leads back to the states of a starting device.
LEMMA NeverBackToStarting ==
  ASSUME DeviceTypeOK, [Next]_deviceVars, aicState' \in Starting
  PROVE  aicState \in Starting
<1>1. CASE HandleEvent /\ aicState # "STARTUP"
  BY <1>1 DEF Starting, HandleEvent, NextAicState, WaitForTunidState,
              WaitForConfigState, ProcessConfigState, InvalidConfigState,
              IdleState, ProducerOnlyState, ConsumerOnlyState,
              ProducerConsumerState, WaitResetState, AbortState,
              DeviceTypeOK, SmTypeOK, AicStates
<1> QED
  BY <1>1, StateAndCheckSteps DEF StartupState, Starting

\* No step of the device lets the start end with an open connection.
LEMMA NextKeepsStartsClosed ==
  DeviceTypeOK /\ StartsClosed /\ [Next]_deviceVars => StartsClosed'
<1> SUFFICES ASSUME DeviceTypeOK, StartsClosed, [Next]_deviceVars
             PROVE  StartsClosed'
  OBVIOUS
<1> DEFINE Early == {"SELF_TESTING", "WAIT_TUNID"}
<1>1. ASSUME sv' = sv, sso' \in Early => sso \in Early \/ aicState \in Starting
      PROVE  StartsClosed'
  BY <1>1, NeverBackToStarting DEF StartsClosed
<1>2. ASSUME NEW v \in Conn, NEW s, NEW e, NEW es, SvTransition(v, s, e, es),
             sv[v] # "IDLE"
      PROVE  StartsClosed'
  <2>1. aicState \notin Starting /\ sso \notin Early
    BY <1>2 DEF StartsClosed
  <2>2. \A n : CnxnStateTrans(sso, e, n) \notin Early
    BY DEF CnxnStateTrans
  <2>3. sso' \notin Early
    BY <1>2, <2>1, <2>2 DEF SvTransition
  <2> QED
    BY <2>1, <2>3, NeverBackToStarting DEF StartsClosed
<1>3. CASE Slice6 \/ Slice39 \/ NvLowHandler \/ UNCHANGED deviceVars
  BY <1>1, <1>3 DEF Slice6, AbortStateRequest, NoAbortRequest, SetInitData,
     SetConfigString, OtherTelegram, Slice39, StateMachine, StartupState,
     EndCycle, NvLowHandler, deviceVars, cssVars
<1>4. CASE TaskStep
  <2>1. CASE EndMonitor \/ DiscardTask \/ WriteConfig \/ CheckForTunidState \/ NoStep
    BY <1>1, <2>1 DEF EndMonitor, DiscardTask, WriteConfig, CheckForTunidState,
                      NoStep, cssVars
  <2>2. CASE \/ CheckForAbortState \/ InitIdle \/ VerifyAndStore \/ ApplyConfig
             \/ \E status \in {"CONFIGURING", "WAIT_TUNID", "ABORT"} : InitOther(status)
    BY <1>1, <2>2 DEF CheckForAbortState, InitIdle, InitOther, VerifyAndStore,
                      ApplyConfig, Starting
  <2> QED
    BY <1>4, <2>1, <2>2 DEF TaskStep
<1>5. CASE Monitors
  <2>1. ASSUME NEW v \in Conn, FirstFrame(v)
        PROVE  StartsClosed'
    BY <1>2, <2>1 DEF FirstFrame
  <2>2. ASSUME NEW v \in Conn, Fault(v)
        PROVE  StartsClosed'
    BY <1>2, <2>2 DEF Fault, IsOpen
  <2>3. ASSUME NEW run \in BOOLEAN, RunIdle(run)
        PROVE  StartsClosed'
    BY <1>1, <2>3 DEF RunIdle
  <2> QED
    BY <1>5, <2>1, <2>2, <2>3 DEF Monitors
<1>6. CASE HalcMessage
  <2>1. CASE NoMessage \/ ApplyTunid \/ SafetyReset
    BY <1>1, <2>1 DEF NoMessage, ApplyTunid, SafetyReset, cssVars
  <2>2. ASSUME NEW v \in Conn, FwdClose(v)
        PROVE  StartsClosed'
    BY <1>2, <2>2 DEF FwdClose
  <2>3. ASSUME aicState \notin Starting, sso' \notin Early
        PROVE  StartsClosed'
    BY <2>3, NeverBackToStarting DEF StartsClosed
  <2>4. ASSUME NEW v \in Conn, T2Open(v)
        PROVE  StartsClosed'
    BY <2>3, <2>4 DEF T2Open, T2Allowed, MayOpen, Starting
  <2>5. ASSUME NEW c \in Configs, NEW o \in Originators,
               \/ T1Denied(c, o)
               \/ T1Refused(c, o)
               \/ \E v \in Conn, known \in BOOLEAN : T1Accepted(v, c, o, known)
        PROVE  StartsClosed'
    BY <2>3, <2>5 DEF T1Denied, T1Refused, T1Accepted, T1Allowed, MayOpen,
                      Starting, cssVars
  <2> QED
    BY <1>6, <2>1, <2>2, <2>4, <2>5 DEF HalcMessage
<1> QED
  BY <1>3, <1>4, <1>5, <1>6 DEF Next, CycleStep

\* Every step of the device keeps at most one owner.
LEMMA NextKeepsOneOwner ==
  DeviceTypeOK /\ OneOwner /\ [Next]_deviceVars => OneOwner'
<1> SUFFICES ASSUME OneOwner, [Next]_deviceVars
             PROVE  OneOwner'
  OBVIOUS
<1>1. CASE UNCHANGED <<cfgIsToolOwned, cfgIsOriginatorOwned>>
  BY <1>1 DEF OneOwner
<1>2. CASE Slice6
  <2>1. ASSUME NEW c, SetConfigString(c)
        PROVE  OneOwner'
    <3>1. ~cfgIsOriginatorOwned /\ cfgIsOriginatorOwned' = cfgIsOriginatorOwned
      BY <2>1, Zenon DEF SetConfigString, MaySetConfig
    <3> QED
      BY <3>1, Zenon DEF OneOwner
  <2> QED
    BY <1>1, <1>2, <2>1 DEF Slice6, AbortStateRequest, NoAbortRequest, SetInitData,
       OtherTelegram, smVars
<1>3. CASE TaskStep
  <2>1. CASE InitIdle
    <3>1. /\ cfgIsToolOwned' <=> cfunid = ToolUnid
          /\ cfgIsOriginatorOwned' <=> cfunid \in Originators
      BY <2>1, Zenon DEF InitIdle
    <3> QED
      BY <3>1, UnidsDiffer DEF OneOwner
  <2>2. ASSUME NEW status, InitOther(status)
        PROVE  OneOwner'
    <3>1. cfgIsToolOwned' <=> FALSE
      BY <2>2, Zenon DEF InitOther
    <3> QED
      BY <3>1 DEF OneOwner
  <2> QED
    BY <1>1, <1>3, <2>1, <2>2 DEF TaskStep, CheckForAbortState, EndMonitor,
       DiscardTask, VerifyAndStore, WriteConfig, ApplyConfig, CheckForTunidState,
       NoStep, smVars
<1>4. CASE HalcMessage
  <2>1. ASSUME NEW c, NEW o, T1Refused(c, o)
        PROVE  OneOwner'
    <3>1. cfgIsOriginatorOwned' <=> FALSE
      BY <2>1, Zenon DEF T1Refused
    <3> QED
      BY <3>1 DEF OneOwner
  <2>2. ASSUME NEW v, NEW c, NEW o, NEW known, T1Accepted(v, c, o, known)
        PROVE  OneOwner'
    <3>1. ~cfgIsToolOwned /\ cfgIsToolOwned' = cfgIsToolOwned
      BY <2>2, Zenon DEF T1Accepted
    <3> QED
      BY <3>1, Zenon DEF OneOwner
  <2> QED
    BY <1>1, <1>4, <2>1, <2>2 DEF HalcMessage, NoMessage, ApplyTunid, SafetyReset,
       FwdClose, T2Open, T1Denied, smVars
<1>5. CASE Slice39 \/ Monitors \/ NvLowHandler \/ UNCHANGED deviceVars
  BY <1>1, <1>5 DEF Slice39, StateMachine, HandleEvent, StartupState, EndCycle,
     Monitors, FirstFrame, Fault, RunIdle, NvLowHandler, deviceVars, smVars
<1> QED
  BY <1>2, <1>3, <1>4, <1>5 DEF Next, CycleStep

\* An event in a part of the queue is an event in the queue.
LEMMA AnnouncesOn ==
  ASSUME NEW q \in Seq(Events), NEW r \in Seq(Events), NEW a, NEW c,
         Announces(q, a, c), Announces(r, a, c)
  PROVE  Announces(q \o r, a, c)
<1> SUFFICES ASSUME NEW i \in 1 .. Len(q \o r)
             PROVE  /\ (q \o r)[i] = "CSS_INIT_IDLE" => a # NoConfig
                    /\ (q \o r)[i] = "CONFIG_DONE" => a # NoConfig \/ c # NoConfig
  BY DEF Announces
<1>1. CASE i \in 1 .. Len(q)
  <2>1. (q \o r)[i] = q[i]
    BY <1>1
  <2> QED
    BY <1>1, <2>1 DEF Announces
<1>2. CASE i \in Len(q) + 1 .. Len(q) + Len(r)
  <2>1. (q \o r)[i] = r[i - Len(q)] /\ i - Len(q) \in 1 .. Len(r)
    BY <1>2
  <2> QED
    BY <2>1 DEF Announces
<1> QED
  BY <1>1, <1>2

\* A queue of one event announces it.
LEMMA AnnouncesOne ==
  ASSUME NEW e, NEW a, NEW c,
         e = "CSS_INIT_IDLE" => a # NoConfig,
         e = "CONFIG_DONE" => a # NoConfig \/ c # NoConfig
  PROVE  Announces(<<e>>, a, c)
<1>1. \A i \in 1 .. Len(<<e>>) : <<e>>[i] = e
  OBVIOUS
<1> QED
  BY <1>1 DEF Announces

\* Signalling events that announce nothing, or what is there.
LEMMA SignalKeepsAnnounces ==
  ASSUME DeviceTypeOK, ParamsInStep, NEW es \in Seq(Events), NEW a, NEW c,
         events' = QueueAfter(es),
         iParam # NoConfig => a # NoConfig, candidate # NoConfig => c # NoConfig,
         Announces(es, a, c)
  PROVE  Announces(events', a, c)
<1>1. Announces(events, a, c)
  BY DEF ParamsInStep, Announces
<1>2. events \in Seq(Events)
  BY DEF DeviceTypeOK, SmTypeOK
<1> QED
  BY <1>1, <1>2, AnnouncesOn DEF QueueAfter

\* The events of connections announce nothing.
LEMMA ConnAnnounces ==
  ASSUME NEW v \in Conn, NEW a, NEW c
  PROVE  /\ Announces(<<Established(v)>>, a, c)
         /\ Announces(<<Closed(v)>>, a, c)
         /\ Announces(<<Faulted(v)>>, a, c)
<1>1. /\ Established(v) \notin {"CSS_INIT_IDLE", "CONFIG_DONE"}
      /\ Closed(v) \notin {"CSS_INIT_IDLE", "CONFIG_DONE"}
      /\ Faulted(v) \notin {"CSS_INIT_IDLE", "CONFIG_DONE"}
  BY DEF Established, Closed, Faulted
<1> QED
  BY <1>1, AnnouncesOne

\* The empty queue announces nothing.
LEMMA NothingAnnounces ==
  ASSUME NEW a, NEW c
  PROVE  Announces(<<>>, a, c)
BY DEF Announces

\* Dropping the connections announces no configuration.
LEMMA DroppedAnnounces ==
  ASSUME NEW a, NEW c
  PROVE  Announces(DroppedEvents, a, c)
<1> DEFINE P == IF sv["prod"] # "IDLE" THEN <<Closed("prod")>> ELSE <<>>
           C == IF sv["cons"] # "IDLE" THEN <<Closed("cons")>> ELSE <<>>
<1>1. "prod" \in Conn /\ "cons" \in Conn
  BY DEF Conn
<1>2. P \in Seq(Events) /\ Announces(P, a, c)
  <2>1. <<>> \in Seq(Events) /\ Announces(<<>>, a, c)
    BY NothingAnnounces
  <2>2. <<Closed("prod")>> \in Seq(Events) /\ Announces(<<Closed("prod")>>, a, c)
    BY <1>1, ConnEvents, ConnAnnounces
  <2> QED
    BY <2>1, <2>2
<1>3. C \in Seq(Events) /\ Announces(C, a, c)
  <2>1. <<>> \in Seq(Events) /\ Announces(<<>>, a, c)
    BY NothingAnnounces
  <2>2. <<Closed("cons")>> \in Seq(Events) /\ Announces(<<Closed("cons")>>, a, c)
    BY <1>1, ConnEvents, ConnAnnounces
  <2> QED
    BY <2>1, <2>2
<1>4. DroppedEvents = IF ~Dropped THEN <<>> ELSE P \o C
  BY DEF DroppedEvents
<1> HIDE DEF P, C
<1> QED
  BY <1>2, <1>3, <1>4, AnnouncesOn, NothingAnnounces

\* An event handled by the state machine keeps the parameters in step.
LEMMA HandleEventKeepsParams ==
  ASSUME DeviceTypeOK, ParamsInStep, HandleEvent, aicState # "STARTUP"
  PROVE  ParamsInStep'
<1> DEFINE e == Head(events)
           s == aicState
<1>1. /\ aicState' = NextAicState(s, e)
      /\ safConCheckActive' = SafConCheckAfter(s, e)
      /\ IF ActivatesCandidate(s, e)
         THEN iParam' = candidate /\ candidate' = NoConfig
         ELSE UNCHANGED <<iParam, candidate>>
      /\ events' = Tail(events)
      /\ events # <<>>
  BY DEF HandleEvent
<1>2. /\ e = "CSS_INIT_IDLE" => iParam # NoConfig
      /\ e = "CONFIG_DONE" => iParam # NoConfig \/ candidate # NoConfig
  <2>1. events \in Seq(Events)
    BY DEF DeviceTypeOK, SmTypeOK
  <2>2. 1 \in 1 .. Len(events) /\ e = events[1]
    BY <1>1, <2>1
  <2> QED
    BY <2>2 DEF ParamsInStep, Announces
<1>3. iParam # NoConfig \/ (candidate # NoConfig /\ ActivatesCandidate(s, e))
        => iParam' # NoConfig
  BY <1>1 DEF ActivatesCandidate
<1>4. Announces(events', iParam', candidate')
  <2> SUFFICES ASSUME NEW i \in 1 .. Len(Tail(events))
               PROVE  /\ Tail(events)[i] = "CSS_INIT_IDLE" => iParam' # NoConfig
                      /\ Tail(events)[i] = "CONFIG_DONE" =>
                           iParam' # NoConfig \/ candidate' # NoConfig
    BY <1>1 DEF Announces
  <2>1. events \in Seq(Events)
    BY DEF DeviceTypeOK, SmTypeOK
  <2>2. Tail(events)[i] = events[i + 1] /\ i + 1 \in 1 .. Len(events)
    BY <1>1, <2>1
  <2>3. /\ events[i + 1] = "CSS_INIT_IDLE" => iParam # NoConfig
        /\ events[i + 1] = "CONFIG_DONE" => iParam # NoConfig \/ candidate # NoConfig
    BY <2>2 DEF ParamsInStep, Announces
  <2>4. CASE ActivatesCandidate(s, e)
    BY <1>3, <2>2, <2>3, <2>4 DEF ActivatesCandidate
  <2>5. CASE ~ActivatesCandidate(s, e)
    BY <1>1, <2>2, <2>3, <2>5
  <2> QED
    BY <2>4, <2>5
<1> HIDE DEF e
<1>5. ASSUME NextAicState(s, e) \in Running
      PROVE  \/ s \in Running /\ ~(s = "IDLE" /\ e = "CONFIG_RECEIVED")
             \/ s = "START_CSS" /\ e = "CSS_INIT_IDLE"
             \/ s = "PROCESS_CONFIG" /\ e = "CONFIG_DONE"
  BY <1>5 DEF NextAicState, WaitForInitState, StartCssState,
       WaitForTunidState, WaitForConfigState, ProcessConfigState,
       InvalidConfigState, IdleState, WaitResetState, AbortState,
       DeviceTypeOK, SmTypeOK, AicStates, Running, Executing
<1>6. ASSUME NextAicState(s, e) \in Running
      PROVE  iParam' # NoConfig
  <2>1. CASE iParam # NoConfig
    BY <1>3, <2>1
  <2>2. CASE iParam = NoConfig
    <3>1. s \notin Running
      BY <2>2 DEF ParamsInStep
    <3>2. s = "PROCESS_CONFIG" /\ e = "CONFIG_DONE" /\ candidate # NoConfig
      BY <1>2, <1>5, <1>6, <2>2, <3>1
    <3> QED
      BY <1>3, <3>2 DEF ActivatesCandidate
  <2> QED
    BY <2>1, <2>2
<1>7. ASSUME NextAicState(s, e) \in Running
      PROVE  safConCheckActive'
  <2>1. CASE s \in Running /\ ~(s = "IDLE" /\ e = "CONFIG_RECEIVED")
    <3>1. s # "START_CSS" /\ s # "PROCESS_CONFIG"
      BY <2>1 DEF Running, Executing
    <3>2. SafConCheckAfter(s, e) = safConCheckActive
      BY <2>1, <3>1, Zenon DEF SafConCheckAfter
    <3> QED
      BY <1>1, <2>1, <3>2, Zenon DEF ParamsInStep
  <2>2. CASE \/ s = "START_CSS" /\ e = "CSS_INIT_IDLE"
             \/ s = "PROCESS_CONFIG" /\ e = "CONFIG_DONE"
    <3>1. "START_CSS" # "PROCESS_CONFIG" /\ "CSS_INIT_IDLE" # "CONFIG_DONE"
          /\ s # "IDLE"
      BY <2>2
    <3>2. CASE s = "START_CSS" /\ e = "CSS_INIT_IDLE"
      <4>1. ~(s = "PROCESS_CONFIG" /\ e = "CONFIG_DONE")
        BY <3>2
      <4>2. SafConCheckAfter(s, e) = TRUE
        BY <3>1, <3>2, <4>1, Zenon DEF SafConCheckAfter
      <4> QED
        BY <1>1, <4>2, Zenon
    <3>3. CASE s = "PROCESS_CONFIG" /\ e = "CONFIG_DONE"
      <4>1. ~(s = "START_CSS" /\ e = "CSS_INIT_IDLE")
        BY <3>3
      <4>2. SafConCheckAfter(s, e) = TRUE
        BY <3>1, <3>3, <4>1, Zenon DEF SafConCheckAfter
      <4> QED
        BY <1>1, <4>2, Zenon
    <3> QED
      BY <2>2, <3>2, <3>3
  <2> QED
    BY <1>5, <1>7, <2>1, <2>2
<1> QED
  BY <1>1, <1>4, <1>6, <1>7 DEF ParamsInStep

\* Every step of the device keeps the parameters in step.
LEMMA NextKeepsParams ==
  DeviceTypeOK /\ ParamsInStep /\ [Next]_deviceVars => ParamsInStep'
<1> SUFFICES ASSUME DeviceTypeOK, ParamsInStep, [Next]_deviceVars
             PROVE  ParamsInStep'
  OBVIOUS
\* What the steps other than those of the state machine have to leave.
<1>1. ASSUME UNCHANGED <<aicState, safConCheckActive>>,
             iParam # NoConfig => iParam' # NoConfig,
             candidate # NoConfig => candidate' # NoConfig,
             \/ events' = events
             \/ \E es \in Seq(Events) : /\ events' = QueueAfter(es)
                                        /\ Announces(es, iParam', candidate')
      PROVE  ParamsInStep'
  <2>1. Announces(events', iParam', candidate')
    <3>1. CASE events' = events
      BY <1>1, <3>1 DEF ParamsInStep, Announces
    <3>2. CASE events' # events
      BY <1>1, <3>2, SignalKeepsAnnounces
    <3> QED
      BY <3>1, <3>2
  <2>2. aicState' \in Running => safConCheckActive'
    BY <1>1, Zenon DEF ParamsInStep
  <2> QED
    BY <1>1, <2>1, <2>2 DEF ParamsInStep
<1>2. ASSUME UNCHANGED <<aicState, safConCheckActive, iParam, candidate>>,
             NEW e \in Events \ {"CSS_INIT_IDLE", "CONFIG_DONE"}, Signal(<<e>>)
      PROVE  ParamsInStep'
  <2>1. <<e>> \in Seq(Events) /\ Announces(<<e>>, iParam', candidate')
    BY AnnouncesOne
  <2>2. events' = QueueAfter(<<e>>)
    BY <1>2 DEF Signal
  <2> QED
    BY <1>1, <1>2, <2>1, <2>2
<1>3. CASE UNCHANGED smVars
  BY <1>1, <1>3 DEF smVars
<1>4. CASE Slice6
  <2>1. CASE AbortStateRequest
    BY <1>2, <2>1 DEF AbortStateRequest, Events
  <2>2. CASE SetInitData
    BY <1>2, <2>2 DEF SetInitData, Events
  <2>3. ASSUME NEW c, SetConfigString(c)
        PROVE  ParamsInStep'
    BY <1>2, <2>3 DEF SetConfigString, Events
  <2> QED
    BY <1>3, <1>4, <2>1, <2>2, <2>3 DEF Slice6, NoAbortRequest, OtherTelegram
<1>5. CASE TaskStep
  <2>1. CASE InitIdle
    <3>1. CASE FlashIsConsistent
      <4>1. iParam' # NoConfig /\ Signal(<<"CSS_INIT_IDLE">>)
        BY <2>1, <3>1 DEF InitIdle, FlashIsConsistent
      <4>2. <<"CSS_INIT_IDLE">> \in Seq(Events)
            /\ Announces(<<"CSS_INIT_IDLE">>, iParam', candidate')
        BY <4>1, AnnouncesOne DEF Events
      <4> QED
        BY <1>1, <2>1, <4>1, <4>2 DEF InitIdle, Signal
    <3>2. CASE ~FlashIsConsistent
      BY <1>1, <2>1, <3>2 DEF InitIdle
    <3> QED
      BY <3>1, <3>2
  <2>2. ASSUME NEW status \in {"CONFIGURING", "WAIT_TUNID", "ABORT"}, InitOther(status)
        PROVE  ParamsInStep'
    <3> DEFINE e == CASE status = "CONFIGURING" -> "CSS_INIT_WAIT_CONFIG"
                      [] status = "WAIT_TUNID"  -> "CSS_INIT_WAIT_TUNID"
                      [] status = "ABORT"       -> "CSS_INIT_INVLD_NODEID"
    <3>1. e \in Events \ {"CSS_INIT_IDLE", "CONFIG_DONE"}
      BY DEF Events
    <3>2. Signal(<<e>>) /\ UNCHANGED <<aicState, safConCheckActive, iParam, candidate>>
      BY <2>2 DEF InitOther
    <3> HIDE DEF e
    <3> QED
      BY <1>2, <3>1, <3>2
  <2>3. CASE VerifyAndStore
    <3>1. \/ UNCHANGED events
          \/ Signal(<<"INVLD_CONFIG">>)
      BY <2>3 DEF VerifyAndStore
    <3> QED
      BY <1>1, <1>2, <2>3, <3>1 DEF VerifyAndStore, Events
  <2>4. CASE ApplyConfig
    <3>1. CASE sso = "CONFIGURING" /\ FlashIsConsistent
      <4>1. iParam' # NoConfig /\ Signal(<<"CONFIG_DONE">>)
        BY <2>4, <3>1 DEF ApplyConfig, FlashIsConsistent
      <4>2. <<"CONFIG_DONE">> \in Seq(Events)
            /\ Announces(<<"CONFIG_DONE">>, iParam', candidate')
        BY <4>1, AnnouncesOne DEF Events
      <4> QED
        BY <1>1, <2>4, <4>1, <4>2 DEF ApplyConfig, Signal
    <3>2. CASE ~(sso = "CONFIGURING" /\ FlashIsConsistent)
      BY <1>1, <2>4, <3>2 DEF ApplyConfig
    <3> QED
      BY <3>1, <3>2
  <2>5. CASE CheckForTunidState
    <3>1. \/ UNCHANGED events
          \/ Signal(<<"TUNID_RECEIVED">>)
      BY <2>5 DEF CheckForTunidState
    <3> QED
      BY <1>1, <1>2, <2>5, <3>1 DEF CheckForTunidState, Events
  <2> QED
    BY <1>3, <1>5, <2>1, <2>2, <2>3, <2>4, <2>5 DEF TaskStep, CheckForAbortState,
       EndMonitor, DiscardTask, WriteConfig, NoStep
<1>6. CASE Monitors
  <2>1. ASSUME NEW v \in Conn, FirstFrame(v)
        PROVE  ParamsInStep'
    <3>1. events' = QueueAfter(<<>>) /\ <<>> \in Seq(Events)
      BY <2>1 DEF FirstFrame, SvTransition
    <3> QED
      BY <1>1, <2>1, <3>1, NothingAnnounces DEF FirstFrame
  <2>2. ASSUME NEW v \in Conn, Fault(v)
        PROVE  ParamsInStep'
    <3>1. events' = QueueAfter(<<Faulted(v)>>)
      BY <2>2 DEF Fault, SvTransition
    <3> QED
      BY <1>1, <2>2, <3>1, ConnEvents, ConnAnnounces DEF Fault
  <2> QED
    BY <1>3, <1>6, <2>1, <2>2 DEF Monitors, RunIdle
<1>7. CASE HalcMessage
  <2>1. CASE SafetyReset
    BY <1>2, <2>1 DEF SafetyReset, Events
  <2>2. ASSUME NEW v \in Conn, FwdClose(v)
        PROVE  ParamsInStep'
    <3>1. events' = QueueAfter(<<Closed(v)>>)
      BY <2>2 DEF FwdClose, SvTransition
    <3> QED
      BY <1>1, <2>2, <3>1, ConnEvents, ConnAnnounces DEF FwdClose
  <2>3. ASSUME NEW v \in Conn, T2Open(v)
        PROVE  ParamsInStep'
    <3>1. events' = QueueAfter(<<Established(v)>>)
      BY <2>3 DEF T2Open, Signal
    <3> QED
      BY <1>1, <2>3, <3>1, ConnEvents, ConnAnnounces DEF T2Open
  <2>4. ASSUME NEW c \in Configs, NEW o \in Originators, T1Denied(c, o)
        PROVE  ParamsInStep'
    BY <1>1, <2>4, NoConfigIsNone DEF T1Denied
  <2>5. ASSUME NEW c \in Configs, NEW o \in Originators, T1Refused(c, o)
        PROVE  ParamsInStep'
    <3>1. events' = QueueAfter(DroppedEvents) /\ candidate' # NoConfig
      BY <2>5, NoConfigIsNone DEF T1Refused, Signal
    <3> QED
      BY <1>1, <2>5, <3>1, DroppedEventsType, DroppedAnnounces DEF T1Refused
  <2>6. ASSUME NEW c \in Configs, NEW o \in Originators, NEW v \in Conn,
               NEW known \in BOOLEAN, T1Accepted(v, c, o, known)
        PROVE  ParamsInStep'
    <3> DEFINE opens == IF known THEN ~Dropped ELSE SvAfterDrop[v] = "IDLE"
               last == IF opens THEN <<Established(v)>> ELSE <<>>
               done == <<"CONFIG_RECEIVED", "CONFIG_DONE">>
    <3>1. candidate' # NoConfig
          /\ UNCHANGED <<aicState, safConCheckActive, iParam>>
      BY <2>6, NoConfigIsNone DEF T1Accepted
    <3>2. events' = QueueAfter(DroppedEvents \o done \o last)
      BY <2>6 DEF T1Accepted
    <3>3. last \in Seq(Events) /\ Announces(last, iParam', candidate')
      <4>1. <<>> \in Seq(Events) /\ Announces(<<>>, iParam', candidate')
        BY NothingAnnounces
      <4>2. /\ <<Established(v)>> \in Seq(Events)
            /\ Announces(<<Established(v)>>, iParam', candidate')
        BY ConnEvents, ConnAnnounces
      <4> QED
        BY <4>1, <4>2
    <3>4. done \in Seq(Events) /\ Announces(done, iParam', candidate')
      BY <3>1 DEF Announces, Events
    <3> HIDE DEF last, done
    <3>5. /\ DroppedEvents \o done \in Seq(Events)
          /\ Announces(DroppedEvents \o done, iParam', candidate')
      BY <3>4, DroppedEventsType, DroppedAnnounces, AnnouncesOn
    <3>6. /\ (DroppedEvents \o done) \o last \in Seq(Events)
          /\ Announces((DroppedEvents \o done) \o last, iParam', candidate')
      <4> DEFINE d == DroppedEvents \o done
      <4>1. d \in Seq(Events) /\ Announces(d, iParam', candidate')
        BY <3>5
      <4> HIDE DEF d
      <4>2. d \o last \in Seq(Events) /\ Announces(d \o last, iParam', candidate')
        BY <3>3, <4>1, AnnouncesOn
      <4> QED
        BY <4>2 DEF d
    <3> QED
      BY <1>1, <3>1, <3>2, <3>6
  <2> QED
    BY <1>3, <1>7, <2>1, <2>2, <2>3, <2>4, <2>5, <2>6
       DEF HalcMessage, NoMessage, ApplyTunid
<1>8. CASE Slice39
  <2>1. CASE StateMachine
    BY <2>1, HandleEventKeepsParams DEF StateMachine
  <2>2. CASE StartupState
    <3>1. aicState' \notin Running /\ UNCHANGED <<events, iParam, candidate>>
      BY <2>2 DEF StartupState, Running, Executing
    <3> QED
      BY <3>1 DEF ParamsInStep
  <2> QED
    BY <1>3, <1>8, <2>1, <2>2 DEF Slice39, EndCycle
<1>9. CASE NvLowHandler \/ UNCHANGED deviceVars
  BY <1>3, <1>9 DEF NvLowHandler, deviceVars
<1> QED
  BY <1>4, <1>5, <1>6, <1>7, <1>8, <1>9 DEF Next, CycleStep

-----------------------------------------------------------------------------
(* The invariant *)

FlashIsCurrent == flash = [config |-> nvConfig, scid |-> scid]

\* The owner flags of the state machine say what the NV attributes say.
OwnersMatch ==
  /\ cfgIsToolOwned <=> cfunid = ToolUnid
  /\ cfgIsOriginatorOwned <=> cfunid \in Originators

\* What supervisor, validators, NV memory and configuration task have to be
\* like for state s of the state machine.
SsoFits(s) ==
  /\ s \in Starting => sso = "SELF_TESTING"
  /\ s = "WAIT_TUNID" => sso \in {"WAIT_TUNID", "CONFIGURING"}
  /\ s \in Waiting => sso = "CONFIGURING"
  /\ s = "PROCESS_CONFIG" => sso \in {"IDLE", "CONFIGURING"}
  /\ s \in Running => sso \in {"IDLE", "EXECUTING"}

ConnectionsFit(s) == s \notin Running \cup Gone => \A v \in Conn : ~IsOpen(v)

StartFits(s) ==
  s \in Starting => ~nvBusy /\ scid \in {NoConfig, nvConfig} /\ FlashIsCurrent

TaskFits(s) == cfgTask # "CHECK_STATE" => s \in Gone \cup {"PROCESS_CONFIG"}

\* The state s agrees with all that the stack knows.
Fits(s) == SsoFits(s) /\ ConnectionsFit(s) /\ StartFits(s) /\ TaskFits(s)

\* State f, in which the queue leaves the state machine, agrees with the
\* others, although the events are still to be handled.
Settles(f) ==
  /\ Fits(f)
  /\ f \in Running =>
       /\ \A v \in Conn : IsOpen(v) <=> Holds(f, v)
       /\ OwnersMatch
       /\ scid # NoConfig
       /\ nvConfig = scid
       /\ nvBusy \/ FlashIsConsistent
  /\ f = "PROCESS_CONFIG" => cfgIsToolOwned

\* Before slice 39 the state is that of the end of the last cycle, and fits as
\* well; the cycle up to now bounds where the queue may lead.
Serves(f) ==
  /\ Fits(aicState)
  /\ aicState \in Running /\ (halc \/ phase \in {"ctrlSts", "telegram"}) => OwnersMatch
  /\ phase = "ctrlSts" => events = <<>>
  /\ phase = "telegram" => f \in {aicState, "ABORT"}
  /\ aicState \in {"STARTUP", "START_CSS"} => f = aicState
  /\ aicState = "WAIT_FOR_INIT" => f \in {"WAIT_FOR_INIT", "START_CSS"}
  /\ aicState \in Gone => f \in Gone
  /\ aicState = "PROCESS_CONFIG" /\ phase \in {"telegram", "monitor", "step"} =>
       f \in {"PROCESS_CONFIG", "ABORT"}
  /\ f = "WAIT_TUNID" => aicState = "WAIT_TUNID"
  /\ f = "PROCESS_CONFIG" => aicState = "PROCESS_CONFIG" \/ ~halc

\* A configuration that is being written is the one of the SCID and the tool's,
\* and is in the flash when it is to be applied.
TaskInStep ==
  cfgTask # "CHECK_STATE" =>
    /\ sso \in {"CONFIGURING", "ABORT"}
    /\ scid = nvConfig
    /\ scid # NoConfig
    /\ cfunid = ToolUnid
    /\ nvBusy \/ FlashIsCurrent
    /\ cfgTask = "APPLY_CONFIG" => ~nvBusy

\* An open connection has a configuration.
ScidForOpen == \A v \in Conn : IsOpen(v) => scid # NoConfig

\* The queue leads to the state f, which agrees with the stack; before the
\* state machine runs, the state it has agrees already where it has to.
InStepAt(f) ==
  /\ Leads(aicState, events, f)
  /\ f = "STARTUP" => aicState = "STARTUP"
  /\ aicState = "STARTUP" => events = <<>>
  /\ ScidForOpen
  /\ TaskInStep
  /\ Settles(f)
  /\ phase # "events" => Serves(f)

\* The machine is on its way to a state that agrees with the stack, unless an
\* unexpected event has stopped the device.
InStep ==
  /\ NoUnexpectedFlow
  /\ failSafe = "none" => \E f \in AicStates : InStepAt(f)

\* What has been shown before.
Known == DeviceTypeOK /\ SsoInv /\ StartsClosed /\ OneOwner

-----------------------------------------------------------------------------
(* What the steps of a cycle have in common *)

\* Signalled events lead on.
LEMMA SignalLeads ==
  ASSUME DeviceTypeOK, NEW f \in AicStates, NEW g \in AicStates,
         NEW es \in Seq(Events), Leads(aicState, events, f), Leads(f, es, g),
         events' = QueueAfter(es), FitsQueue(es), aicState' = aicState
  PROVE  Leads(aicState', events', g)
<1>1. aicState \in AicStates /\ events \in Seq(Events) /\ events' = events \o es
  BY DEF DeviceTypeOK, SmTypeOK, QueueAfter
<1> QED
  BY <1>1, LeadsOn

\* A signalled event leads one step further.
LEMMA SignalOneLeads ==
  ASSUME DeviceTypeOK, NEW f \in AicStates, f # "STARTUP", NEW e \in Events,
         Leads(aicState, events, f), events' = QueueAfter(<<e>>),
         FitsQueue(<<e>>), aicState' = aicState
  PROVE  /\ NextAicState(f, e) \in AicStates \ {"STARTUP"}
         /\ Leads(aicState', events', NextAicState(f, e))
<1>1. <<e>> \in Seq(Events) /\ NextAicState(f, e) \in AicStates \ {"STARTUP"}
  BY NeverBackToStartup
<1>2. Leads(f, <<e>>, NextAicState(f, e))
  BY LeadsOneStep
<1> QED
  BY <1>1, <1>2, SignalLeads

\* Steps that leave what Settles and TaskInStep speak of.
inStepVars == <<aicState, events, cfgIsToolOwned, cfgIsOriginatorOwned, sso, sv,
                scid, cfunid, nvConfig, flash, nvBusy, cfgTask>>

\* Nothing changes if no variable of it does.
LEMMA InStepUnchanged ==
  ASSUME NEW f, InStepAt(f), UNCHANGED inStepVars, phase' # "events" => Serves(f)'
  PROVE  InStepAt(f)'
<1>1. Leads(aicState', events', f)
  BY DEF InStepAt, inStepVars
<1>2. ScidForOpen' /\ TaskInStep'
  BY DEF InStepAt, inStepVars, ScidForOpen, IsOpen, TaskInStep, FlashIsCurrent
<1>3. Settles(f)'
  BY DEF InStepAt, inStepVars, Settles, Fits, SsoFits, ConnectionsFit, StartFits,
         TaskFits, IsOpen, OwnersMatch, FlashIsConsistent, FlashIsCurrent
<1> QED
  BY <1>1, <1>2, <1>3 DEF InStepAt, inStepVars

\* At the beginning of a cycle the queue is empty.
LEMMA QueueEmptyAtStart ==
  ASSUME DeviceTypeOK, NEW f, InStepAt(f), phase = "ctrlSts"
  PROVE  f = aicState
BY LeadsNowhere DEF InStepAt, Serves, DeviceTypeOK, SmTypeOK

\* The slice of the state machine keeps the machine in step.
LEMMA Slice6InStep ==
  ASSUME Known, NEW f \in AicStates, InStepAt(f), failSafe = "none", Slice6
  PROVE  NoUnexpectedFlow' /\ (failSafe' = "none" => \E g \in AicStates : InStepAt(g)')
<1> USE DEF At, Go
<1>1. DeviceTypeOK
  BY DEF Known
<1>2. CASE AbortStateRequest
  <2>1. f = aicState /\ aicState \in ServedStates \ {"ABORT"} /\ f # "STARTUP"
    BY <1>1, <1>2, QueueEmptyAtStart
       DEF AbortStateRequest, ServedStates, Executing, ConfigStates
  <2>2. NextAicState(f, "ABORT_REQUEST") = "ABORT"
    BY <2>1, OtherEvents
  <2>3. Signal(<<"ABORT_REQUEST">>) /\ aicState' = aicState
    BY <1>2 DEF AbortStateRequest
  <2>4. NoUnexpectedFlow'
    BY <2>3 DEF Signal, NoUnexpectedFlow
  <2> SUFFICES ASSUME failSafe' = "none"
               PROVE  InStepAt("ABORT")'
    BY <2>4 DEF AicStates
  <2>5. Leads(aicState', events', "ABORT")
    BY <1>1, <2>1, <2>2, <2>3, SignalOneLeads DEF Signal, InStepAt, Events
  <2>6. UNCHANGED <<cfgIsToolOwned, cfgIsOriginatorOwned, sso, sv, scid, cfunid,
                    nvConfig, flash, nvBusy, cfgTask, halc>> /\ phase' = "telegram"
    BY <1>2 DEF AbortStateRequest, cssVars, nvVars
  <2>7. ScidForOpen' /\ TaskInStep'
    BY <2>6 DEF InStepAt, ScidForOpen, IsOpen, TaskInStep, FlashIsCurrent
  <2>8. Settles("ABORT")'
    BY DEF Settles, Fits, SsoFits, ConnectionsFit, StartFits, TaskFits, Starting,
           Running, Waiting, Gone, Executing
  <2>9. phase = "ctrlSts" /\ Serves(f)
    BY <1>2 DEF AbortStateRequest, InStepAt
  <2>10. Fits(aicState)'
    BY <2>3, <2>6, <2>9 DEF Serves, Fits, SsoFits, ConnectionsFit, StartFits,
       TaskFits, IsOpen, FlashIsCurrent
  <2>11. Serves("ABORT")'
    BY <2>1, <2>3, <2>6, <2>9, <2>10
       DEF Serves, OwnersMatch, ServedStates, Executing, ConfigStates, Gone
  <2> QED
    BY <2>1, <2>3, <2>5, <2>7, <2>8, <2>11
       DEF InStepAt, ServedStates, Executing, ConfigStates
<1>3. CASE NoAbortRequest
  <2>1. f = aicState /\ phase = "ctrlSts" /\ phase' = "telegram"
    BY <1>1, <1>3, QueueEmptyAtStart DEF NoAbortRequest
  <2>2. UNCHANGED <<smVars, cssVars, nvVars, hostVars, cfgTask, failSafe>>
    BY <1>3 DEF NoAbortRequest
  <2>3. Serves(f)'
    BY <2>1, <2>2 DEF InStepAt, Serves, Fits, SsoFits, ConnectionsFit, StartFits,
       TaskFits, IsOpen, FlashIsCurrent, OwnersMatch, smVars, cssVars, nvVars, hostVars
  <2>4. InStepAt(f)'
    BY <2>2, <2>3, InStepUnchanged DEF inStepVars, smVars, cssVars, nvVars
  <2> QED
    BY <2>2, <2>4 DEF NoUnexpectedFlow
<1>4. CASE SetInitData
  <2>1. aicState = "WAIT_FOR_INIT" /\ phase = "telegram" /\ Serves(f)
        /\ aicState' = aicState /\ Signal(<<"CSS_INIT_RECEIVED">>)
    BY <1>4 DEF SetInitData, InStepAt
  <2>2. f = "WAIT_FOR_INIT"
    BY <2>1 DEF Serves
  <2>3. NextAicState(f, "CSS_INIT_RECEIVED") = "START_CSS"
    BY <2>2, OtherEvents
  <2>4. NoUnexpectedFlow'
    BY <2>1 DEF Signal, NoUnexpectedFlow
  <2> SUFFICES ASSUME failSafe' = "none"
               PROVE  InStepAt("START_CSS")'
    BY <2>4 DEF AicStates
  <2>5. Leads(aicState', events', "START_CSS")
    BY <1>1, <2>1, <2>2, <2>3, SignalOneLeads DEF Signal, InStepAt, Events
  <2>6. UNCHANGED <<cfgIsToolOwned, cfgIsOriginatorOwned, sso, sv, scid, cfunid,
                    nvConfig, flash, nvBusy, cfgTask>> /\ phase' = "monitor"
    BY <1>4 DEF SetInitData, cssVars, nvVars
  <2>7. ScidForOpen' /\ TaskInStep'
    BY <2>6 DEF InStepAt, ScidForOpen, IsOpen, TaskInStep, FlashIsCurrent
  <2>8. Fits(aicState) /\ Fits(aicState)'
    BY <2>1, <2>6 DEF Serves, Fits, SsoFits, ConnectionsFit, StartFits,
       TaskFits, IsOpen, FlashIsCurrent
  <2>9. Settles("START_CSS")'
    BY <2>1, <2>8 DEF Settles, Fits, SsoFits, ConnectionsFit, StartFits,
       TaskFits, Starting, Running, Waiting, Gone, Executing
  <2>10. Serves("START_CSS")'
    BY <2>1, <2>6, <2>8 DEF Serves, Running, Executing, Gone
  <2> QED
    BY <2>1, <2>5, <2>7, <2>9, <2>10 DEF InStepAt
<1>5. ASSUME NEW c \in Configs \cup {NoConfig}, SetConfigString(c)
      PROVE  NoUnexpectedFlow' /\ (failSafe' = "none" => \E g \in AicStates : InStepAt(g)')
  <2>1. /\ aicState \in {"IDLE"} \cup Waiting /\ phase = "telegram" /\ Serves(f)
        /\ aicState' = aicState /\ Signal(<<"CONFIG_RECEIVED">>)
        /\ f # "STARTUP" /\ f \in {aicState, "ABORT"}
    BY <1>5 DEF SetConfigString, MaySetConfig, InStepAt, Waiting, Serves
  <2> DEFINE g == IF f = "ABORT" THEN f ELSE "PROCESS_CONFIG"
  <2>2. NextAicState(f, "CONFIG_RECEIVED") = g /\ g \in {"ABORT", "PROCESS_CONFIG"}
    BY <2>1, OtherEvents DEF Waiting
  <2>3. NoUnexpectedFlow'
    BY <2>1 DEF Signal, NoUnexpectedFlow
  <2> SUFFICES ASSUME failSafe' = "none"
               PROVE  InStepAt(g)'
    BY <2>3 DEF AicStates
  <2>4. Leads(aicState', events', g)
    <3>1. /\ events' = QueueAfter(<<"CONFIG_RECEIVED">>)
          /\ FitsQueue(<<"CONFIG_RECEIVED">>)
          /\ "CONFIG_RECEIVED" \in Events
      BY <2>1 DEF Signal, Events
    <3> HIDE DEF g
    <3> QED
      BY <1>1, <2>1, <2>2, <3>1, SignalOneLeads DEF InStepAt
  <2>5. UNCHANGED <<sso, sv, scid, cfunid, nvConfig, flash, nvBusy, cfgTask>>
        /\ phase' = "monitor"
    BY <1>5 DEF SetConfigString, cssVars, nvVars
  <2>6. ~halc' /\ cfgIsToolOwned'
    BY <1>5, Zenon DEF SetConfigString
  <2>7. ScidForOpen' /\ TaskInStep'
    BY <2>5 DEF InStepAt, ScidForOpen, IsOpen, TaskInStep, FlashIsCurrent
  <2>8. Fits(aicState) /\ Fits(aicState)'
    BY <2>1, <2>5 DEF Serves, Fits, SsoFits, ConnectionsFit, StartFits,
       TaskFits, IsOpen, FlashIsCurrent
  <2>9. Settles(g)'
    <3>1. CASE f = "ABORT"
      BY <3>1 DEF Settles, Fits, SsoFits, ConnectionsFit, StartFits, TaskFits,
                  Starting, Running, Waiting, Gone, Executing
    <3>2. CASE f # "ABORT"
      <4>1. f = aicState /\ Settles(f)
        BY <2>1, <3>2 DEF InStepAt
      <4>2. \A v \in Conn : ~IsOpen(v)
        BY <2>1, <4>1 DEF Settles, Fits, ConnectionsFit, Holds, Running, Waiting,
                          Gone, Executing
      <4>3. sso \in {"IDLE", "CONFIGURING"}
        <5>1. NumEstab(sv) = 0
          BY <4>2, NumEstabValues DEF IsOpen
        <5>2. sso # "EXECUTING"
          BY <5>1 DEF Known, SsoInv
        <5> QED
          BY <2>1, <2>8, <5>2 DEF Fits, SsoFits, Running
      <4>4. cfgTask = "CHECK_STATE"
        BY <2>1, <2>8 DEF Fits, TaskFits, Gone, Waiting
      <4> QED
        BY <2>5, <2>6, <3>2, <4>2, <4>3, <4>4
           DEF Settles, Fits, SsoFits, ConnectionsFit, StartFits, TaskFits,
               Starting, Running, Waiting, Gone, Executing, IsOpen
    <3> QED
      BY <3>1, <3>2
  <2>10. Serves(g)'
    BY <2>1, <2>5, <2>6, <2>8 DEF Serves, Running, Executing, Waiting, Gone
  <2> QED
    BY <2>1, <2>2, <2>4, <2>7, <2>9, <2>10 DEF InStepAt, Waiting
<1>6. CASE OtherTelegram
  <2>1. phase = "telegram" /\ phase' = "monitor" /\ Serves(f)
    BY <1>6 DEF OtherTelegram, InStepAt
  <2>2. UNCHANGED <<smVars, cssVars, nvVars, cfgTask, failSafe>>
    BY <1>6 DEF OtherTelegram
  <2>3. Serves(f)'
    BY <2>1, <2>2 DEF Serves, Fits, SsoFits, ConnectionsFit, StartFits,
       TaskFits, IsOpen, FlashIsCurrent, OwnersMatch, smVars, cssVars, nvVars
  <2>4. InStepAt(f)'
    BY <2>2, <2>3, InStepUnchanged DEF inStepVars, smVars, cssVars, nvVars
  <2> QED
    BY <2>2, <2>4 DEF NoUnexpectedFlow
<1> QED
  BY <1>2, <1>3, <1>4, <1>5, <1>6 DEF Slice6

\* A connection that is closed or lost, in the eyes of all.
LEMMA LosingInStep ==
  ASSUME Known, NEW f \in AicStates, InStepAt(f), failSafe = "none",
         NEW v \in Conn, NEW s \in {"FAILED", "IDLE"}, NEW e \in {"FAIL", "DEL"},
         NEW ev \in {Closed(v), Faulted(v)}, SvTransition(v, s, e, <<ev>>),
         sv[v] # "IDLE",
         UNCHANGED <<aicState, cfgIsToolOwned, cfgIsOriginatorOwned, nvVars, cfgTask>>,
         NEW g, g = NextAicState(f, ev)
  PROVE  /\ NoUnexpectedFlow'
         /\ failSafe' = "none" =>
              /\ g \in AicStates \ {"STARTUP"}
              /\ Leads(aicState', events', g)
              /\ aicState # "STARTUP"
              /\ ScidForOpen'
              /\ TaskInStep'
              /\ Settles(g)'
              /\ Fits(aicState) => Fits(aicState)'
              /\ f \notin Running => g = f
              /\ f \in Running => g \in Running
<1>1. DeviceTypeOK /\ sv \in [Conn -> SvStates]
  BY DEF Known, DeviceTypeOK, SvStates
<1>2. aicState \notin Starting /\ sso \notin {"SELF_TESTING", "WAIT_TUNID"}
  BY DEF Known, StartsClosed
<1>3. f # "STARTUP"
  BY <1>2 DEF InStepAt, Starting
<1>4. sv' = [sv EXCEPT ![v] = s] /\ s # "ESTABLISHED"
  BY DEF SvTransition
<1> DEFINE n == NumEstab(sv')
           next == CnxnStateTrans(sso, e, n)
<1>5. n \in {0, 1, 2} /\ n # 2 /\ (NumEstab(sv) = 0 => n = 0)
  <2>1. sv'[v] # "ESTABLISHED"
    BY <1>1, <1>4
  <2>2. NumEstab(sv) = 0 => \A w \in Conn : sv'[w] # "ESTABLISHED"
    BY <1>1, <1>4, NumEstabValues
  <2> QED
    BY <2>1, <2>2, NumEstabValues
<1>6. /\ sso = "IDLE" => NumEstab(sv) = 0
      /\ sso \in {"IDLE", "EXECUTING", "CONFIGURING", "ABORT"}
  <2>1. NumEstab(sv) \in {0, 1, 2}
    BY NumEstabValues
  <2> QED
    BY <1>1, <1>2, <2>1 DEF Known, SsoInv, DeviceTypeOK
<1>7. /\ next # "FATAL"
      /\ sso = "EXECUTING" => next \in {"EXECUTING", "IDLE"}
      /\ sso # "EXECUTING" => next = sso
  <2> HIDE DEF n
  <2> QED
    BY <1>5, <1>6 DEF CnxnStateTrans
<1>8. sso' = next /\ failSafe' = IF FitsQueue(<<ev>>) THEN "none" ELSE "EVENT_CNT_ERR"
  <2>1. /\ sso' = IF next = "FATAL" THEN sso ELSE next
        /\ failSafe' = CASE ~FitsQueue(<<ev>>) -> "EVENT_CNT_ERR"
                         [] next = "FATAL"     -> "UNEXPECTED"
                         [] OTHER              -> "none"
    BY <1>4, Zenon DEF SvTransition
  <2> HIDE DEF next
  <2> QED
    BY <1>7, <2>1
<1> HIDE DEF next, n
<1>9. NoUnexpectedFlow'
  BY <1>8 DEF NoUnexpectedFlow
<1> SUFFICES ASSUME failSafe' = "none"
             PROVE  /\ g \in AicStates \ {"STARTUP"}
                    /\ Leads(aicState', events', g)
                    /\ ScidForOpen'
                    /\ TaskInStep'
                    /\ Settles(g)'
                    /\ Fits(aicState) => Fits(aicState)'
                    /\ f \notin Running => g = f
                    /\ f \in Running => g \in Running
  BY <1>2, <1>9 DEF Starting
<1>10. ev \in Events
  BY DEF Events, Closed, Faulted
<1>11. g \in AicStates \ {"STARTUP"} /\ Leads(aicState', events', g)
  BY <1>1, <1>3, <1>8, <1>10, SignalOneLeads DEF SvTransition, InStepAt
<1>12. /\ f \in Running => /\ g \in Running
                           /\ \A w \in Conn : Holds(g, w) <=> Holds(f, w) /\ w # v
       /\ f \notin Running => g = f
  BY <1>3, LosingEvent
<1>13. \A w \in Conn : IsOpen(w)' <=> IsOpen(w) /\ w # v
  BY <1>1, <1>4 DEF IsOpen
<1>14. ScidForOpen'
  BY <1>13 DEF InStepAt, ScidForOpen, nvVars
<1>15. TaskInStep'
  BY <1>7, <1>8 DEF InStepAt, TaskInStep, nvVars, FlashIsCurrent
<1>16. \A t : Fits(t) => Fits(t)'
  BY <1>2, <1>6, <1>7, <1>8, <1>13
     DEF Fits, SsoFits, ConnectionsFit, StartFits, TaskFits, nvVars, FlashIsCurrent
<1>17. Settles(g)'
  <2>1. Settles(f)
    BY DEF InStepAt
  <2>2. CASE f \in Running
    <3>1. /\ OwnersMatch' /\ scid' # NoConfig /\ nvConfig' = scid'
          /\ (nvBusy \/ FlashIsConsistent)'
      BY <2>1, <2>2 DEF Settles, OwnersMatch, FlashIsConsistent, nvVars
    <3>2. \A w \in Conn : IsOpen(w)' <=> Holds(g, w)
      BY <1>12, <1>13, <2>1, <2>2 DEF Settles
    <3>3. SsoFits(f)'
      BY <1>16, <2>1 DEF Settles, Fits
    <3>4. Fits(f)' /\ g \in Running
      BY <1>12, <1>16, <2>1, <2>2 DEF Settles
    <3>5. Fits(g)'
      BY <2>2, <3>4 DEF Fits, SsoFits, ConnectionsFit, StartFits, TaskFits,
         Running, Executing, Starting, Waiting, Gone
    <3>6. g # "PROCESS_CONFIG"
      BY <3>4 DEF Running, Executing
    <3> QED
      BY <3>1, <3>2, <3>5, <3>6 DEF Settles
  <2>3. CASE f \notin Running
    BY <1>12, <1>16, <2>1, <2>3 DEF Settles
  <2> QED
    BY <2>2, <2>3
<1> QED
  BY <1>11, <1>12, <1>14, <1>15, <1>16, <1>17

\* The monitors of the stack keep the machine in step.
LEMMA MonitorsInStep ==
  ASSUME Known, NEW f \in AicStates, InStepAt(f), failSafe = "none", Monitors
  PROVE  NoUnexpectedFlow' /\ (failSafe' = "none" => \E g \in AicStates : InStepAt(g)')
<1> USE DEF At, Go
<1>1. DeviceTypeOK /\ sv \in [Conn -> SvStates]
  BY DEF Known, DeviceTypeOK, SvStates
<1>2. ASSUME NEW v \in Conn, FirstFrame(v)
      PROVE  NoUnexpectedFlow' /\ (failSafe' = "none" => \E g \in AicStates : InStepAt(g)')
  <2>1. /\ phase = "monitor" /\ phase' = phase /\ aicState \in Executing /\ Serves(f)
        /\ sv[v] = "INITIALIZING" /\ SvTransition(v, "ESTABLISHED", "ESTAB", <<>>)
        /\ UNCHANGED <<aicState, cfgIsToolOwned, cfgIsOriginatorOwned, nvVars, hostVars,
                       cfgTask>>
    BY <1>2 DEF FirstFrame, InStepAt, Executing
  <2>2. sso \in {"IDLE", "EXECUTING"} /\ cfgTask = "CHECK_STATE"
    BY <2>1 DEF Serves, Fits, SsoFits, TaskFits, Running, Executing, Gone
  <2>3. sv' = [sv EXCEPT ![v] = "ESTABLISHED"]
    BY <2>1 DEF SvTransition
  <2>4. /\ sso = "IDLE" => NumEstab(sv') = 1
        /\ sso = "EXECUTING" => NumEstab(sv') = 2
    <3>1. NumEstab(sv') = NumEstab(sv) + 1 /\ NumEstab(sv) \in {0, 1, 2}
      BY <1>1, <2>1, <2>3, NumEstabValues DEF NumEstab, Conn
    <3>2. NumEstab(sv) # 2
      BY <2>1, NumEstabValues
    <3>3. sso = "EXECUTING" <=> NumEstab(sv) > 0
      BY <2>2 DEF Known, SsoInv
    <3> QED
      BY <2>2, <3>1, <3>2, <3>3
  <2>5. CnxnStateTrans(sso, "ESTAB", NumEstab(sv')) = "EXECUTING"
    BY <2>2, <2>4 DEF CnxnStateTrans
  <2>6. Len(<<>>) = 0 /\ FitsQueue(<<>>) /\ QueueAfter(<<>>) = events
    BY <1>1 DEF FitsQueue, QueueAfter, DeviceTypeOK, SmTypeOK
  <2>7. sso' = "EXECUTING" /\ failSafe' = "none" /\ events' = events
    <3>1. CnxnStateTrans(sso, "ESTAB", NumEstab([sv EXCEPT ![v] = "ESTABLISHED"]))
            = "EXECUTING"
      BY <2>3, <2>5
    <3> QED
      BY <2>1, <2>6, <3>1 DEF SvTransition
  <2>8. \A w \in Conn : IsOpen(w)' <=> IsOpen(w)
    BY <1>1, <2>1, <2>3 DEF IsOpen
  <2>9. Settles(f) /\ f \in Running \cup Gone
    BY <2>1 DEF InStepAt, Settles, Fits, ConnectionsFit, IsOpen
  <2>10. Settles(f)'
    <3>1. Fits(f)'
      BY <2>1, <2>2, <2>7, <2>9
         DEF Fits, SsoFits, ConnectionsFit, StartFits, TaskFits, Starting, Waiting,
             Running, Executing, Gone
    <3>2. f \in Running =>
            /\ OwnersMatch' /\ scid' # NoConfig /\ nvConfig' = scid'
            /\ (nvBusy \/ FlashIsConsistent)'
      BY <2>1, <2>9 DEF Settles, OwnersMatch, FlashIsConsistent, nvVars
    <3>3. f # "PROCESS_CONFIG"
      BY <2>9 DEF Running, Executing, Gone
    <3> QED
      BY <2>8, <2>9, <3>1, <3>2, <3>3 DEF Settles
  <2>11. Fits(aicState)'
    BY <2>1, <2>2, <2>7 DEF Fits, SsoFits, ConnectionsFit, StartFits, TaskFits, Starting,
       Waiting, Running, Executing, Gone
  <2>12. Serves(f)'
    BY <2>1, <2>11 DEF Serves, OwnersMatch, nvVars, hostVars
  <2>13. ScidForOpen' /\ TaskInStep'
    BY <2>1, <2>2, <2>8 DEF InStepAt, ScidForOpen, TaskInStep, nvVars
  <2>14. InStepAt(f)'
    BY <2>1, <2>7, <2>10, <2>12, <2>13 DEF InStepAt
  <2> QED
    BY <2>7, <2>14 DEF NoUnexpectedFlow
<1>3. ASSUME NEW v \in Conn, Fault(v)
      PROVE  NoUnexpectedFlow' /\ (failSafe' = "none" => \E g \in AicStates : InStepAt(g)')
  <2> DEFINE g == NextAicState(f, Faulted(v))
  <2>1. /\ phase = "monitor" /\ phase' = phase /\ Serves(f) /\ sv[v] # "IDLE"
        /\ SvTransition(v, "FAILED", "FAIL", <<Faulted(v)>>)
        /\ UNCHANGED <<aicState, cfgIsToolOwned, cfgIsOriginatorOwned, nvVars, hostVars,
                       cfgTask>>
    BY <1>3 DEF Fault, InStepAt, IsOpen
  <2> HIDE DEF g
  <2>2. g = NextAicState(f, Faulted(v))
    BY DEF g
  <2>3. /\ NoUnexpectedFlow'
        /\ failSafe' = "none" =>
              /\ g \in AicStates \ {"STARTUP"}
              /\ Leads(aicState', events', g)
              /\ aicState # "STARTUP"
              /\ ScidForOpen'
              /\ TaskInStep'
              /\ Settles(g)'
              /\ Fits(aicState) => Fits(aicState)'
              /\ f \notin Running => g = f
              /\ f \in Running => g \in Running
    BY <2>1, <2>2, LosingInStep
  <2> SUFFICES ASSUME failSafe' = "none"
               PROVE  InStepAt(g)'
    BY <2>3
  <2>4. Serves(g)'
    BY <2>1, <2>3 DEF Serves, OwnersMatch, nvVars, hostVars, Running, Executing, Gone
  <2> QED
    BY <2>1, <2>3, <2>4 DEF InStepAt
<1>4. ASSUME NEW run \in BOOLEAN, RunIdle(run)
      PROVE  NoUnexpectedFlow' /\ (failSafe' = "none" => \E g \in AicStates : InStepAt(g)')
  <2>1. /\ UNCHANGED <<smVars, sso, sv, nvVars, hostVars, phase, cfgTask, failSafe>>
        /\ phase = "monitor"
    BY <1>4 DEF RunIdle
  <2>2. Serves(f)'
    BY <2>1 DEF InStepAt, Serves, Fits, SsoFits, ConnectionsFit, StartFits,
       TaskFits, IsOpen, FlashIsCurrent, OwnersMatch, smVars, nvVars, hostVars
  <2>3. InStepAt(f)'
    BY <2>1, <2>2, InStepUnchanged DEF inStepVars, smVars, nvVars
  <2> QED
    BY <2>1, <2>3 DEF NoUnexpectedFlow
<1> QED
  BY <1>2, <1>3, <1>4 DEF Monitors

\* The handler of the NV memory keeps the machine in step.
LEMMA NvLowHandlerInStep ==
  ASSUME Known, NEW f \in AicStates, InStepAt(f), failSafe = "none", NvLowHandler
  PROVE  NoUnexpectedFlow' /\ (failSafe' = "none" => \E g \in AicStates : InStepAt(g)')
<1>1. /\ phase = "ctrlSts" /\ nvBusy /\ Serves(f)
      /\ flash' = [config |-> nvConfig, scid |-> scid]
      /\ UNCHANGED <<smVars, cssVars, scid, cfunid, nvConfig, hostVars, phase,
                     cfgTask, failSafe>>
  BY DEF NvLowHandler, At, InStepAt
<1>2. FlashIsCurrent' /\ (scid = nvConfig /\ scid # NoConfig => FlashIsConsistent')
  BY <1>1 DEF FlashIsCurrent, FlashIsConsistent
<1>3. ~nvBusy'
  BY Zenon DEF NvLowHandler
<1>4. \A t : Fits(t) => Fits(t)'
  BY <1>1, <1>2, <1>3 DEF Fits, SsoFits, ConnectionsFit, StartFits, TaskFits, IsOpen, cssVars
<1>5. Settles(f)'
  BY <1>1, <1>2, <1>4 DEF InStepAt, Settles, OwnersMatch, IsOpen, smVars, cssVars
<1>6. Serves(f)'
  BY <1>1, <1>4 DEF Serves, OwnersMatch, smVars, hostVars
<1>7. ScidForOpen' /\ TaskInStep'
  BY <1>1, <1>2, <1>3 DEF InStepAt, ScidForOpen, IsOpen, TaskInStep, cssVars
<1>8. InStepAt(f)'
  BY <1>1, <1>5, <1>6, <1>7 DEF InStepAt, smVars
<1> QED
  BY <1>1, <1>8 DEF NoUnexpectedFlow

\* Every step of the configuration task keeps the machine in step.
LEMMA TaskStepInStep ==
  ASSUME Known, NEW f \in AicStates, InStepAt(f), failSafe = "none", TaskStep
  PROVE  NoUnexpectedFlow' /\ (failSafe' = "none" => \E g \in AicStates : InStepAt(g)')
<1> USE DEF At, Go
<1>1. DeviceTypeOK
  BY DEF Known
\* Steps that leave everything but the place in the cycle.
<1>2. ASSUME UNCHANGED <<smVars, cssVars, nvVars, hostVars, cfgTask, failSafe>>,
             \/ phase = "monitor" /\ phase' \in {"step", "events"}
             \/ phase = "step" /\ phase' = "message"
      PROVE  NoUnexpectedFlow' /\ (failSafe' = "none" => \E g \in AicStates : InStepAt(g)')
  <2>1. phase' # "events" => Serves(f)'
    BY <1>2 DEF InStepAt, Serves, Fits, SsoFits, ConnectionsFit, StartFits,
       TaskFits, IsOpen, FlashIsCurrent, OwnersMatch, smVars, cssVars, nvVars, hostVars
  <2>2. InStepAt(f)'
    BY <1>2, <2>1, InStepUnchanged DEF inStepVars, smVars, cssVars, nvVars
  <2> QED
    BY <1>2, <2>2 DEF NoUnexpectedFlow
<1>3. CASE EndMonitor \/ DiscardTask \/ NoStep
  BY <1>2, <1>3 DEF EndMonitor, DiscardTask, NoStep
<1>4. CASE CheckForAbortState
  <2>1. /\ aicState = "ABORT" /\ phase = "monitor" /\ Serves(f) /\ sso' = "ABORT"
        /\ UNCHANGED <<smVars, sv, isRunMode, nvVars, hostVars, phase, cfgTask, failSafe>>
    BY <1>4 DEF CheckForAbortState, InStepAt
  <2>2. f \in Gone
    BY <2>1 DEF Serves, Gone
  <2>3. Settles(f)' /\ Fits(aicState)'
    BY <2>1, <2>2 DEF Settles, Fits, SsoFits, ConnectionsFit, StartFits, TaskFits,
       Starting, Waiting, Running, Executing, Gone, smVars
  <2>4. Serves(f)'
    BY <2>1, <2>3 DEF Serves, OwnersMatch, smVars, nvVars, hostVars
  <2>5. ScidForOpen' /\ TaskInStep'
    BY <2>1 DEF InStepAt, ScidForOpen, IsOpen, TaskInStep, FlashIsCurrent, nvVars
  <2>6. InStepAt(f)'
    BY <2>1, <2>3, <2>4, <2>5 DEF InStepAt, smVars
  <2> QED
    BY <2>1, <2>6 DEF NoUnexpectedFlow
\* The first task of a device that has been started.
<1>5. ASSUME aicState = "START_CSS", phase = "monitor"
      PROVE  /\ f = "START_CSS"
             /\ \A v \in Conn : ~IsOpen(v)
             /\ cfgTask = "CHECK_STATE"
             /\ ~nvBusy /\ scid \in {NoConfig, nvConfig} /\ FlashIsCurrent
  <2>1. Serves(f) /\ f = "START_CSS" /\ Fits(f)
    BY <1>5 DEF InStepAt, Serves
  <2> QED
    BY <1>5, <2>1 DEF Known, StartsClosed, IsOpen, Fits, StartFits, TaskFits, Starting, Gone
<1>6. CASE InitIdle
  <2>1. /\ aicState = "START_CSS" /\ phase = "monitor" /\ scid # NoConfig
        /\ phase' = "events" /\ sso' = "IDLE"
        /\ UNCHANGED <<aicState, sv, nvVars, cfgTask>>
    BY <1>6 DEF InitIdle
  <2>2. FlashIsConsistent /\ scid = nvConfig
    BY <1>5, <2>1 DEF FlashIsConsistent, FlashIsCurrent
  <2>3. Signal(<<"CSS_INIT_IDLE">>)
    BY <1>6, <2>2 DEF InitIdle
  <2>4. OwnersMatch'
    <3>1. /\ cfgIsToolOwned' <=> cfunid = ToolUnid
          /\ cfgIsOriginatorOwned' <=> cfunid \in Originators
      BY <1>6, Zenon DEF InitIdle
    <3> QED
      BY <2>1, <3>1 DEF OwnersMatch, nvVars
  <2>5. NoUnexpectedFlow'
    BY <2>3 DEF Signal, NoUnexpectedFlow
  <2> SUFFICES ASSUME failSafe' = "none"
               PROVE  InStepAt("IDLE")'
    BY <2>5 DEF AicStates
  <2>6. NextAicState(f, "CSS_INIT_IDLE") = "IDLE"
    BY <1>5, <2>1, OtherEvents
  <2>7. Leads(aicState', events', "IDLE")
    BY <1>1, <1>5, <2>1, <2>3, <2>6, SignalOneLeads DEF Signal, InStepAt, Events
  <2>8. \A v \in Conn : ~IsOpen(v)'
    BY <1>5, <2>1 DEF IsOpen
  <2>9. Settles("IDLE")'
    BY <1>5, <2>1, <2>2, <2>4, <2>8 DEF Settles, Fits, SsoFits, ConnectionsFit,
       StartFits, TaskFits, Starting, Waiting, Running, Executing, Gone, Holds,
       FlashIsConsistent, nvVars
  <2>10. ScidForOpen' /\ TaskInStep'
    BY <1>5, <2>1, <2>8 DEF ScidForOpen, TaskInStep
  <2> QED
    BY <2>1, <2>7, <2>9, <2>10 DEF InStepAt
<1>7. ASSUME NEW status \in {"CONFIGURING", "WAIT_TUNID", "ABORT"}, InitOther(status)
      PROVE  NoUnexpectedFlow' /\ (failSafe' = "none" => \E g \in AicStates : InStepAt(g)')
  <2> DEFINE e == CASE status = "CONFIGURING" -> "CSS_INIT_WAIT_CONFIG"
                    [] status = "WAIT_TUNID"  -> "CSS_INIT_WAIT_TUNID"
                    [] status = "ABORT"       -> "CSS_INIT_INVLD_NODEID"
             g == CASE status = "CONFIGURING" -> "WAIT_FOR_CONFIG"
                    [] status = "WAIT_TUNID"  -> "WAIT_TUNID"
                    [] status = "ABORT"       -> "ABORT"
  <2>1. /\ aicState = "START_CSS" /\ phase = "monitor"
        /\ phase' = "events" /\ sso' = status /\ Signal(<<e>>)
        /\ UNCHANGED <<aicState, sv, scid, cfunid, nvConfig, flash, cfgTask>>
    BY <1>7 DEF InitOther
  <2>2. NextAicState(f, e) = g /\ f # "STARTUP" /\ e \in Events /\ g \in AicStates
    BY <1>5, <2>1, OtherEvents DEF Events, AicStates
  <2>3. /\ g \in Waiting => sso' = "CONFIGURING"
        /\ g = "WAIT_TUNID" => sso' = "WAIT_TUNID"
        /\ g \in Waiting \cup {"WAIT_TUNID", "ABORT"}
    BY <2>1 DEF Waiting
  <2> HIDE DEF e, g
  <2>4. NoUnexpectedFlow'
    BY <2>1 DEF Signal, NoUnexpectedFlow
  <2> SUFFICES ASSUME failSafe' = "none"
               PROVE  InStepAt(g)'
    BY <2>2, <2>4
  <2>5. Leads(aicState', events', g)
    BY <1>1, <2>1, <2>2, SignalOneLeads DEF Signal, InStepAt
  <2>6. \A v \in Conn : ~IsOpen(v)'
    BY <1>5, <2>1 DEF IsOpen
  <2>7. Settles(g)'
    BY <1>5, <2>1, <2>3, <2>6 DEF Settles, Fits, SsoFits, ConnectionsFit,
       StartFits, TaskFits, Starting, Waiting, Running, Executing, Gone
  <2>8. ScidForOpen' /\ TaskInStep'
    BY <1>5, <2>1, <2>6 DEF ScidForOpen, TaskInStep
  <2> QED
    BY <2>1, <2>2, <2>3, <2>5, <2>7, <2>8 DEF InStepAt, Waiting
\* What holds when a configuration is processed.
<1>8. ASSUME aicState = "PROCESS_CONFIG", phase = "step"
      PROVE  /\ f \in {"PROCESS_CONFIG", "ABORT"}
             /\ \A v \in Conn : ~IsOpen(v)
             /\ sso \in {"IDLE", "CONFIGURING"}
             /\ Serves(f) /\ Settles(f)
  BY <1>8 DEF InStepAt, Serves, Fits, SsoFits, ConnectionsFit, Running, Executing, Gone
<1>9. CASE VerifyAndStore
  <2>1. /\ aicState = "PROCESS_CONFIG" /\ phase = "step" /\ phase' = "message"
        /\ cfgTask = "CHECK_STATE"
        /\ UNCHANGED <<flash, aicState, cfgIsToolOwned, cfgIsOriginatorOwned, sv, hostVars>>
    BY <1>9 DEF VerifyAndStore
  <2>2. sso' = "CONFIGURING"
    BY <1>8, <1>9, <2>1 DEF VerifyAndStore
  <2>3. nvBusy'
    BY <1>8, <1>9, <2>1, Zenon DEF VerifyAndStore
  <2>4. \A v \in Conn : ~IsOpen(v)'
    BY <1>8, <2>1 DEF IsOpen
  <2>5. Fits("INVALID_CONFIG")' \/ cfgTask' # "CHECK_STATE"
    BY <2>2, <2>4 DEF Fits, SsoFits, ConnectionsFit, StartFits, TaskFits, Starting,
       Waiting, Running, Executing, Gone
  <2>6. Fits("PROCESS_CONFIG")'
    BY <2>2, <2>4 DEF Fits, SsoFits, ConnectionsFit, StartFits, TaskFits, Starting,
       Waiting, Running, Executing, Gone
  <2>7. Settles("ABORT")'
    BY DEF Settles, Fits, SsoFits, ConnectionsFit, StartFits, TaskFits, Starting,
           Running, Waiting, Gone, Executing
  <2>8. CASE cfgStr # NoConfig
    <3>1. /\ nvConfig' = cfgStr /\ scid' = cfgStr /\ cfunid' = ToolUnid
          /\ cfgTask' = "WRITE_CONFIG" /\ UNCHANGED <<events, failSafe>>
      BY <1>8, <1>9, <2>1, <2>8 DEF VerifyAndStore
    <3>2. Settles(f)'
      BY <1>8, <2>1, <2>6, <2>7 DEF Settles, Running, Executing
    <3>3. ScidForOpen' /\ TaskInStep'
      BY <2>2, <2>3, <2>4, <2>8, <3>1 DEF ScidForOpen, TaskInStep
    <3>4. Serves(f)'
      BY <1>8, <2>1, <2>6 DEF Serves, Running, Executing, Gone
    <3>5. InStepAt(f)'
      BY <2>1, <3>1, <3>2, <3>3, <3>4 DEF InStepAt
    <3> QED
      BY <3>1, <3>5 DEF NoUnexpectedFlow
  <2>9. CASE cfgStr = NoConfig
    <3> DEFINE g == IF f = "ABORT" THEN f ELSE "INVALID_CONFIG"
    <3>1. Signal(<<"INVLD_CONFIG">>) /\ cfgTask' = "CHECK_STATE"
      BY <1>8, <1>9, <2>1, <2>9 DEF VerifyAndStore
    <3>2. NextAicState(f, "INVLD_CONFIG") = g /\ f # "STARTUP"
      BY <1>8, <2>1, OtherEvents
    <3>3. NoUnexpectedFlow'
      BY <3>1 DEF Signal, NoUnexpectedFlow
    <3> SUFFICES ASSUME failSafe' = "none"
                 PROVE  InStepAt(g)'
      BY <3>3 DEF AicStates
    <3>4. Leads(aicState', events', g)
      <4>1. /\ events' = QueueAfter(<<"INVLD_CONFIG">>)
            /\ FitsQueue(<<"INVLD_CONFIG">>)
            /\ "INVLD_CONFIG" \in Events
        BY <3>1 DEF Signal, Events
      <4> HIDE DEF g
      <4> QED
        BY <1>1, <2>1, <3>2, <4>1, SignalOneLeads DEF InStepAt
    <3>5. Settles(g)'
      BY <2>5, <2>7, <3>1 DEF Settles, Running, Executing
    <3>6. ScidForOpen' /\ TaskInStep'
      BY <2>4, <3>1 DEF ScidForOpen, TaskInStep
    <3>7. Serves(g)'
      BY <1>8, <2>1, <2>6 DEF Serves, Running, Executing, Gone
    <3> QED
      BY <2>1, <3>4, <3>5, <3>6, <3>7 DEF InStepAt
  <2> QED
    BY <2>8, <2>9
<1>10. CASE WriteConfig
  <2>1. /\ aicState \in ConfigStates /\ cfgTask = "WRITE_CONFIG"
        /\ phase = "step" /\ phase' = "message"
        /\ cfgTask' = IF ~nvBusy THEN "APPLY_CONFIG" ELSE "WRITE_CONFIG"
        /\ UNCHANGED <<smVars, cssVars, nvVars, hostVars, failSafe>>
    BY <1>10 DEF WriteConfig, NvReady
  <2>2. \A t : Fits(t) => Fits(t)'
    BY <2>1 DEF Fits, SsoFits, ConnectionsFit, StartFits, TaskFits, IsOpen,
                FlashIsCurrent, cssVars, nvVars
  <2>3. Settles(f)'
    BY <2>1, <2>2 DEF InStepAt, Settles, OwnersMatch, FlashIsConsistent, IsOpen,
                      smVars, cssVars, nvVars
  <2>4. ScidForOpen' /\ TaskInStep'
    BY <2>1 DEF InStepAt, ScidForOpen, IsOpen, TaskInStep, FlashIsCurrent, cssVars, nvVars
  <2>5. Serves(f)'
    BY <2>1, <2>2 DEF InStepAt, Serves, OwnersMatch, smVars, nvVars, hostVars
  <2>6. InStepAt(f)'
    BY <2>1, <2>3, <2>4, <2>5 DEF InStepAt, smVars
  <2> QED
    BY <2>1, <2>6 DEF NoUnexpectedFlow
<1>11. CASE ApplyConfig
  <2>1. /\ aicState \in ConfigStates /\ cfgTask = "APPLY_CONFIG"
        /\ phase = "step" /\ phase' = "message"
        /\ UNCHANGED <<aicState, cfgIsToolOwned, cfgIsOriginatorOwned, sv, nvVars, hostVars>>
    BY <1>11 DEF ApplyConfig
  <2>2. aicState = "PROCESS_CONFIG"
    BY <2>1 DEF InStepAt, Serves, Fits, TaskFits, ConfigStates, Gone
  <2>3. /\ sso \in {"CONFIGURING", "ABORT"} /\ scid = nvConfig /\ scid # NoConfig
        /\ cfunid = ToolUnid /\ FlashIsCurrent
    BY <2>1 DEF InStepAt, TaskInStep
  <2>4. sso = "CONFIGURING" /\ FlashIsConsistent
    BY <1>8, <2>1, <2>2, <2>3 DEF FlashIsConsistent, FlashIsCurrent
  <2>5. sso' = "IDLE" /\ Signal(<<"CONFIG_DONE">>) /\ cfgTask' = "CHECK_STATE"
    BY <1>11, <2>4 DEF ApplyConfig
  <2> DEFINE g == IF f = "ABORT" THEN f ELSE "IDLE"
  <2>6. NextAicState(f, "CONFIG_DONE") = g /\ f # "STARTUP"
    BY <1>8, <2>1, <2>2, OtherEvents
  <2>7. NoUnexpectedFlow'
    BY <2>5 DEF Signal, NoUnexpectedFlow
  <2> SUFFICES ASSUME failSafe' = "none"
               PROVE  InStepAt(g)'
    BY <2>7 DEF AicStates
  <2>8. Leads(aicState', events', g)
    <3>1. /\ events' = QueueAfter(<<"CONFIG_DONE">>)
          /\ FitsQueue(<<"CONFIG_DONE">>)
          /\ "CONFIG_DONE" \in Events
      BY <2>5 DEF Signal, Events
    <3> HIDE DEF g
    <3> QED
      BY <1>1, <2>1, <2>6, <3>1, SignalOneLeads DEF InStepAt
  <2>9. \A v \in Conn : ~IsOpen(v)'
    BY <1>8, <2>1, <2>2 DEF IsOpen
  <2>10. Settles(g)'
    <3>1. CASE f = "ABORT"
      BY <3>1 DEF Settles, Fits, SsoFits, ConnectionsFit, StartFits, TaskFits,
                  Starting, Running, Waiting, Gone, Executing
    <3>2. CASE f # "ABORT"
      <4>1. f = "PROCESS_CONFIG" /\ g = "IDLE" /\ cfgIsToolOwned
        BY <1>8, <2>1, <2>2, <3>2 DEF Settles
      <4>2. ~cfgIsOriginatorOwned
        BY <4>1, Zenon DEF Known, OneOwner
      <4>3. OwnersMatch'
        BY <2>1, <2>3, <4>1, <4>2, UnidsDiffer DEF OwnersMatch, nvVars
      <4>4. FlashIsConsistent' /\ scid' = nvConfig' /\ scid' # NoConfig
        BY <2>1, <2>3, <2>4 DEF FlashIsConsistent, nvVars
      <4>5. Fits("IDLE")'
        BY <2>5, <2>9 DEF Fits, SsoFits, ConnectionsFit, StartFits, TaskFits,
                  Starting, Running, Waiting, Gone, Executing
      <4>6. \A v \in Conn : ~Holds("IDLE", v)
        BY DEF Holds
      <4> QED
        BY <2>9, <4>1, <4>3, <4>4, <4>5, <4>6 DEF Settles
    <3> QED
      BY <3>1, <3>2
  <2>11. ScidForOpen' /\ TaskInStep'
    BY <2>5, <2>9 DEF ScidForOpen, TaskInStep
  <2>12. Fits(aicState)'
    BY <2>1, <2>2, <2>5, <2>9 DEF Fits, SsoFits, ConnectionsFit, StartFits, TaskFits,
       Starting, Running, Waiting, Gone, Executing
  <2>13. Serves(g)'
    BY <2>1, <2>2, <2>12 DEF Serves, Running, Executing, Gone
  <2> QED
    BY <2>1, <2>2, <2>8, <2>10, <2>11, <2>13 DEF InStepAt
<1>12. CASE CheckForTunidState
  <2>1. /\ aicState = "WAIT_TUNID" /\ phase = "step" /\ phase' = "message"
        /\ UNCHANGED <<aicState, cfgIsToolOwned, cfgIsOriginatorOwned, cssVars, nvVars,
                       hostVars, cfgTask>>
    BY <1>12 DEF CheckForTunidState
  <2>2. Serves(f) /\ Settles(f) /\ f # "STARTUP" /\ sso \in {"WAIT_TUNID", "CONFIGURING"}
    BY <2>1 DEF InStepAt, Serves, Fits, SsoFits
  <2>3. CASE sso = "WAIT_TUNID"
    <3>1. UNCHANGED <<events, failSafe>>
      BY <1>12, <2>3 DEF CheckForTunidState
    <3>2. Serves(f)'
      BY <2>1, <2>2, <3>1 DEF Serves, Fits, SsoFits, ConnectionsFit, StartFits,
         TaskFits, IsOpen, FlashIsCurrent, OwnersMatch, cssVars, nvVars, hostVars
    <3>3. InStepAt(f)'
      BY <2>1, <3>1, <3>2, InStepUnchanged DEF inStepVars, cssVars, nvVars
    <3> QED
      BY <3>1, <3>3 DEF NoUnexpectedFlow
  <2>4. CASE sso = "CONFIGURING"
    <3> DEFINE g == IF f = "WAIT_TUNID" THEN "WAIT_FOR_CONFIG" ELSE f
    <3>1. Signal(<<"TUNID_RECEIVED">>)
      BY <1>12, <2>4 DEF CheckForTunidState
    <3>2. NextAicState(f, "TUNID_RECEIVED") = g
      BY <2>2, OtherEvents
    <3>3. NoUnexpectedFlow'
      BY <3>1 DEF Signal, NoUnexpectedFlow
    <3> SUFFICES ASSUME failSafe' = "none"
                 PROVE  InStepAt(g)'
      BY <3>3 DEF AicStates
    <3>4. Leads(aicState', events', g)
      <4>1. /\ events' = QueueAfter(<<"TUNID_RECEIVED">>)
            /\ FitsQueue(<<"TUNID_RECEIVED">>)
            /\ "TUNID_RECEIVED" \in Events
        BY <3>1 DEF Signal, Events
      <4> HIDE DEF g
      <4> QED
        BY <1>1, <2>1, <2>2, <3>2, <4>1, SignalOneLeads DEF InStepAt
    <3>5. \A t : Fits(t) => Fits(t)'
      BY <2>1 DEF Fits, SsoFits, ConnectionsFit, StartFits, TaskFits, IsOpen,
                  FlashIsCurrent, cssVars, nvVars
    <3>6. Settles(f)'
      BY <2>1, <2>2, <3>5 DEF Settles, OwnersMatch, FlashIsConsistent, IsOpen,
                              cssVars, nvVars
    <3>7. Settles(g)'
      <4>1. CASE f = "WAIT_TUNID"
        BY <2>1, <2>4, <3>6, <4>1 DEF Settles, Fits, SsoFits, ConnectionsFit, StartFits,
           TaskFits, Starting, Running, Waiting, Gone, Executing, cssVars
      <4> QED
        BY <3>6, <4>1
    <3>8. ScidForOpen' /\ TaskInStep'
      BY <2>1 DEF InStepAt, ScidForOpen, IsOpen, TaskInStep, FlashIsCurrent, cssVars, nvVars
    <3>9. Serves(g)'
      BY <2>1, <2>2, <3>5 DEF Serves, OwnersMatch, nvVars, hostVars, Running, Executing, Gone
    <3> QED
      BY <2>1, <2>2, <3>4, <3>7, <3>8, <3>9 DEF InStepAt
  <2> QED
    BY <2>2, <2>3, <2>4
<1> QED
  BY <1>3, <1>4, <1>6, <1>7, <1>9, <1>10, <1>11, <1>12 DEF TaskStep

\* The events of the connections that T1_SOPEN drops lead to a state that holds
\* none of them.
LEMMA DroppingLeads ==
  ASSUME Known, NEW f \in AicStates, f # "STARTUP", Settles(f),
         f \in Running \cup Waiting \cup Gone
  PROVE  \E g \in AicStates :
           /\ Leads(f, DroppedEvents, g)
           /\ f \notin Running => g = f
           /\ f \in Running =>
                /\ g \in Running
                /\ \A w \in Conn : Holds(g, w) <=>
                     SvAfterDrop[w] \in {"INITIALIZING", "ESTABLISHED"}
<1> DEFINE A(v, h) == IF sv[v] # "IDLE" THEN NextAicState(h, Closed(v)) ELSE h
           P(v) == IF sv[v] # "IDLE" THEN <<Closed(v)>> ELSE <<>>
<1>1. "prod" \in Conn /\ "cons" \in Conn /\ Conn = {"prod", "cons"}
  BY DEF Conn
\* One connection.
<1>2. ASSUME NEW h \in AicStates, h # "STARTUP", NEW v \in Conn,
             sv[v] = "IDLE" => ~Holds(h, v)
      PROVE  /\ A(v, h) \in AicStates \ {"STARTUP"}
             /\ P(v) \in Seq(Events)
             /\ Leads(h, P(v), A(v, h))
             /\ h \notin Running => A(v, h) = h
             /\ h \in Running => /\ A(v, h) \in Running
                                 /\ \A w \in Conn : Holds(A(v, h), w) <=> Holds(h, w) /\ w # v
  <2>1. Closed(v) \in Events
    BY DEF Events, Closed
  <2>2. CASE sv[v] # "IDLE"
    <3>1. A(v, h) = NextAicState(h, Closed(v)) /\ P(v) = <<Closed(v)>>
      BY <2>2
    <3>2. A(v, h) \in AicStates \ {"STARTUP"}
      BY <1>2, <2>1, <3>1, NeverBackToStartup
    <3>3. Leads(h, P(v), A(v, h))
      BY <1>2, <2>1, <3>1, LeadsOneStep
    <3>4. P(v) \in Seq(Events)
      BY <2>1, <3>1
    <3> HIDE DEF A, P
    <3> QED
      BY <1>2, <3>1, <3>2, <3>3, <3>4, LosingEvent
  <2>3. CASE sv[v] = "IDLE"
    <3>1. A(v, h) = h /\ P(v) = <<>>
      BY <2>3
    <3>2. Leads(h, P(v), A(v, h))
      BY <1>2, <3>1, LeadsNowhere
    <3>3. P(v) \in Seq(Events)
      BY <3>1
    <3> HIDE DEF A, P
    <3> QED
      BY <1>2, <2>3, <3>1, <3>2, <3>3
  <2> QED
    BY <2>2, <2>3
<1>3. CASE ~Dropped
  <2>1. DroppedEvents = <<>> /\ SvAfterDrop = sv
    BY <1>3 DEF DroppedEvents, SvAfterDrop
  <2>2. Leads(f, DroppedEvents, f)
    BY <2>1, LeadsNowhere
  <2> QED
    BY <2>1, <2>2 DEF Settles, IsOpen
<1>4. CASE Dropped
  <2>1. DroppedEvents = P("prod") \o P("cons")
    BY <1>4 DEF DroppedEvents
  <2>2. \A v \in Conn : SvAfterDrop[v] = "IDLE"
    BY <1>4 DEF SvAfterDrop
  <2>3. \A v \in Conn : sv[v] = "IDLE" => ~Holds(f, v)
    <3>1. f \notin Running => \A v \in Conn : ~Holds(f, v)
      BY DEF Holds, Running, Executing
    <3> QED
      BY <3>1 DEF Settles, IsOpen
  <2> DEFINE g1 == A("prod", f)
             g2 == A("cons", g1)
  <2> HIDE DEF A, P
  <2>4. /\ g1 \in AicStates \ {"STARTUP"} /\ P("prod") \in Seq(Events)
        /\ Leads(f, P("prod"), g1)
        /\ f \notin Running => g1 = f
        /\ f \in Running => /\ g1 \in Running
                            /\ \A w \in Conn : Holds(g1, w) <=> Holds(f, w) /\ w # "prod"
    BY <1>1, <1>2, <2>3
  <2> HIDE DEF g1
  <2>5. sv["cons"] = "IDLE" => ~Holds(g1, "cons")
    BY <1>1, <2>3, <2>4
  <2>6. /\ g2 \in AicStates \ {"STARTUP"} /\ P("cons") \in Seq(Events)
        /\ Leads(g1, P("cons"), g2)
        /\ g1 \notin Running => g2 = g1
        /\ g1 \in Running => /\ g2 \in Running
                             /\ \A w \in Conn : Holds(g2, w) <=> Holds(g1, w) /\ w # "cons"
    BY <1>1, <1>2, <2>4, <2>5
  <2> HIDE DEF g2
  <2>7. Leads(f, DroppedEvents, g2)
    BY <2>1, <2>4, <2>6, LeadsOn
  <2>8. f \in Running => \A w \in Conn : ~Holds(g2, w)
    BY <1>1, <2>4, <2>6
  <2> QED
    BY <2>2, <2>4, <2>6, <2>7, <2>8
<1> QED
  BY <1>3, <1>4

\* What the state of the machine allows a SafetyOpen to find.
LEMMA OpenFinds ==
  ASSUME Known, NEW f \in AicStates, InStepAt(f), MayOpen,
         aicState \in {"IDLE", "EXEC_PROD_ONLY", "EXEC_CONS_ONLY"} \cup Waiting
  PROVE  /\ f \in Running \cup Waiting \cup Gone /\ f # "STARTUP"
         /\ failSafe = "none" /\ phase' = "events"
         /\ cfgTask = "CHECK_STATE"
         /\ aicState \in Waiting => sso = "CONFIGURING" /\ \A v \in Conn : ~IsOpen(v)
         /\ aicState \notin Waiting => OwnersMatch /\ sso # "CONFIGURING"
         /\ aicState # "STARTUP"
         /\ Settles(f)
<1>1. /\ phase = "message" /\ halc /\ failSafe = "none" /\ phase' = "events"
      /\ sso \in {"IDLE", "EXECUTING", "CONFIGURING"}
      /\ Serves(f) /\ Settles(f) /\ Fits(aicState)
  BY DEF MayOpen, MessageArrives, At, Go, InStepAt, Serves
<1>2. f \notin Starting
  BY <1>1 DEF Settles, Fits, SsoFits
<1>3. f \notin {"WAIT_TUNID", "PROCESS_CONFIG"}
  BY <1>1 DEF Serves, Waiting
<1>4. f \in Running \cup Waiting \cup Gone
  BY <1>2, <1>3 DEF AicStates, Running, Executing, Waiting, Gone, Starting
<1>5. /\ aicState \in Waiting => sso = "CONFIGURING" /\ \A v \in Conn : ~IsOpen(v)
      /\ aicState \notin Waiting => OwnersMatch /\ sso # "CONFIGURING"
  BY <1>1 DEF Serves, Fits, SsoFits, ConnectionsFit, Running, Executing, Waiting, Gone
<1>6. cfgTask = "CHECK_STATE"
  BY <1>1 DEF Fits, TaskFits, Waiting, Gone
<1> QED
  BY <1>1, <1>2, <1>4, <1>5, <1>6 DEF Starting, Waiting

\* The events of an accepted SafetyOpen lead to a state that holds what is open
\* after it.
LEMMA AcceptingLeads ==
  ASSUME Known, NEW f \in AicStates, InStepAt(f), NEW v \in Conn, NEW c, NEW o,
         NEW known \in BOOLEAN, T1Accepted(v, c, o, known), failSafe' = "none"
  PROVE  \E g \in AicStates :
           /\ Leads(aicState, events', g)
           /\ g \in Running \cup Gone
           /\ g \in Running => \A w \in Conn : Holds(g, w) <=> IsOpen(w)'
<1> DEFINE opens == IF known THEN ~Dropped ELSE SvAfterDrop[v] = "IDLE"
           last == IF opens THEN <<Established(v)>> ELSE <<>>
           es == DroppedEvents \o <<"CONFIG_RECEIVED", "CONFIG_DONE">> \o last
<1>1. /\ MayOpen
      /\ aicState \in {"IDLE", "EXEC_PROD_ONLY", "EXEC_CONS_ONLY"} \cup Waiting
      /\ known => sv[v] = "FAILED"
  BY DEF T1Accepted, T1Allowed, Waiting
<1>2. /\ f \in Running \cup Waiting \cup Gone /\ f # "STARTUP" /\ Settles(f)
      /\ sv \in [Conn -> SvStates] /\ aicState \in AicStates /\ events \in Seq(Events)
  BY <1>1, OpenFinds DEF Known, DeviceTypeOK, SmTypeOK, SvStates
<1>3. events' = QueueAfter(es) /\ FitsQueue(es)
  BY DEF T1Accepted
<1>4. sv' = IF opens THEN [SvAfterDrop EXCEPT ![v] = "INITIALIZING"] ELSE SvAfterDrop
  BY DEF T1Accepted
<1>5. SvAfterDrop \in [Conn -> SvStates]
  BY <1>2 DEF SvAfterDrop, SvStates
<1>6. opens => SvAfterDrop[v] \notin {"INITIALIZING", "ESTABLISHED"}
  BY <1>1, <1>2 DEF SvAfterDrop
<1>7. \A w \in Conn : IsOpen(w)' <=>
        SvAfterDrop[w] \in {"INITIALIZING", "ESTABLISHED"} \/ (opens /\ w = v)
  BY <1>4, <1>5 DEF IsOpen
<1>8. PICK g1 \in AicStates :
        /\ Leads(f, DroppedEvents, g1)
        /\ f \notin Running => g1 = f
        /\ f \in Running =>
             /\ g1 \in Running
             /\ \A w \in Conn : Holds(g1, w) <=>
                  SvAfterDrop[w] \in {"INITIALIZING", "ESTABLISHED"}
  BY <1>2, DroppingLeads
<1>9. g1 \in Running \cup Waiting \cup Gone /\ g1 # "STARTUP"
  BY <1>2, <1>8 DEF Running, Executing, Waiting, Gone
<1> DEFINE g2 == IF g1 \in Waiting \cup {"IDLE"} THEN "PROCESS_CONFIG" ELSE g1
           g3 == IF g2 = "PROCESS_CONFIG" THEN "IDLE" ELSE g2
<1>10. /\ NextAicState(g1, "CONFIG_RECEIVED") = g2 /\ g2 \in AicStates /\ g2 # "STARTUP"
       /\ NextAicState(g2, "CONFIG_DONE") = g3 /\ g3 \in AicStates /\ g3 # "STARTUP"
  <2>1. NextAicState(g1, "CONFIG_RECEIVED") = g2
    BY <1>9, OtherEvents
  <2>2. g2 \in AicStates /\ g2 # "STARTUP" /\ g3 \in AicStates /\ g3 # "STARTUP"
    BY <1>9 DEF AicStates
  <2>3. NextAicState(g2, "CONFIG_DONE") = g3
    <3> HIDE DEF g2
    <3> QED
      BY <2>2, OtherEvents
  <2> QED
    BY <2>1, <2>2, <2>3
<1>11. /\ g3 \in Running \cup Gone
       /\ g3 \in Running => \A w \in Conn : Holds(g3, w) <=>
            SvAfterDrop[w] \in {"INITIALIZING", "ESTABLISHED"}
  <2>1. CASE f \in Gone
    BY <1>8, <2>1 DEF Running, Executing, Waiting, Gone
  <2>2. CASE f \in Waiting
    <3>1. g1 = f /\ g3 = "IDLE" /\ \A w \in Conn : ~IsOpen(w)
      BY <1>2, <1>8, <2>2 DEF Running, Executing, Waiting, Gone, Settles, Fits,
                              ConnectionsFit
    <3>2. \A w \in Conn : SvAfterDrop[w] \notin {"INITIALIZING", "ESTABLISHED"}
      BY <3>1 DEF SvAfterDrop, IsOpen
    <3>3. \A w \in Conn : ~Holds("IDLE", w)
      BY DEF Holds
    <3> QED
      BY <3>1, <3>2, <3>3 DEF Running
  <2>3. CASE f \in Running
    <3>1. g3 = g1
      BY <1>8, <2>3 DEF Running, Executing, Waiting
    <3> HIDE DEF g3
    <3> QED
      BY <1>8, <2>3, <3>1
  <2> QED
    BY <1>2, <2>1, <2>2, <2>3
<1> HIDE DEF g2, g3
<1>12. "CONFIG_RECEIVED" \in Events /\ "CONFIG_DONE" \in Events
       /\ <<"CONFIG_RECEIVED", "CONFIG_DONE">> \in Seq(Events)
  BY DEF Events
<1>13. Leads(g1, <<"CONFIG_RECEIVED", "CONFIG_DONE">>, g3)
  BY <1>9, <1>10, <1>12, LeadsTwoSteps
<1> DEFINE g4 == IF opens THEN NextAicState(g3, Established(v)) ELSE g3
<1>14. ~Holds(g3, v) \/ ~opens
  <2>1. g3 \in Gone => ~Holds(g3, v)
    BY DEF Gone, Holds
  <2> HIDE DEF opens
  <2> QED
    BY <1>6, <1>11, <2>1
<1>15. /\ g4 \in AicStates /\ last \in Seq(Events) /\ Leads(g3, last, g4)
       /\ g3 \in Running => /\ g4 \in Running
                            /\ \A w \in Conn : Holds(g4, w) <=> Holds(g3, w) \/ (opens /\ w = v)
       /\ g3 \notin Running => g4 = g3
  <2>1. Established(v) \in Events
    BY DEF Events, Established
  <2>2. CASE opens
    <3>1. g4 = NextAicState(g3, Established(v)) /\ last = <<Established(v)>>
      BY <2>2
    <3>2. g4 \in AicStates /\ Leads(g3, last, g4) /\ last \in Seq(Events)
      BY <1>10, <2>1, <3>1, NeverBackToStartup, LeadsOneStep
    <3>3. /\ g3 \in Running => /\ g4 \in Executing
                               /\ \A w \in Conn : Holds(g4, w) <=> Holds(g3, w) \/ w = v
          /\ g3 \notin Running => g4 = g3
      <4> HIDE DEF g4
      <4> QED
        BY <1>10, <1>14, <2>2, <3>1, OpeningEvent
    <3> HIDE DEF g4, opens, last
    <3> QED
      BY <2>2, <3>2, <3>3 DEF Running
  <2>3. CASE ~opens
    <3>1. g4 = g3 /\ last = <<>>
      BY <2>3
    <3>2. Leads(g3, last, g4) /\ last \in Seq(Events)
      BY <1>10, <3>1, LeadsNowhere
    <3> HIDE DEF g4, opens, last
    <3> QED
      BY <1>10, <2>3, <3>1, <3>2
  <2> QED
    BY <2>2, <2>3
<1> HIDE DEF g4, last, opens
<1>16. es \in Seq(Events) /\ Leads(f, es, g4)
  <2>1. DroppedEvents \o <<"CONFIG_RECEIVED", "CONFIG_DONE">> \in Seq(Events)
        /\ Leads(f, DroppedEvents \o <<"CONFIG_RECEIVED", "CONFIG_DONE">>, g3)
    <3> DEFINE done == <<"CONFIG_RECEIVED", "CONFIG_DONE">>
    <3>1. done \in Seq(Events) /\ Leads(g1, done, g3) /\ DroppedEvents \in Seq(Events)
      BY <1>12, <1>13, DroppedEventsType
    <3> HIDE DEF done
    <3>2. DroppedEvents \o done \in Seq(Events) /\ Leads(f, DroppedEvents \o done, g3)
      BY <1>8, <1>10, <3>1, LeadsOn
    <3> QED
      BY <3>2 DEF done
  <2> DEFINE d == DroppedEvents \o <<"CONFIG_RECEIVED", "CONFIG_DONE">>
  <2>2. d \in Seq(Events) /\ Leads(f, d, g3) /\ es = d \o last
    BY <2>1
  <2> HIDE DEF d, es
  <2>3. d \o last \in Seq(Events) /\ Leads(f, d \o last, g4)
    BY <1>10, <1>15, <2>2, LeadsOn
  <2> QED
    BY <2>2, <2>3
<1> HIDE DEF es
<1>17. Leads(aicState, events', g4)
  <2>1. events' = events \o es
    BY <1>3 DEF QueueAfter
  <2> QED
    BY <1>2, <1>15, <1>16, <2>1, LeadsOn DEF InStepAt
<1> QED
  BY <1>7, <1>11, <1>15, <1>17

\* Every message to the stack keeps the machine in step.
LEMMA HalcMessageInStep ==
  ASSUME Known, NEW f \in AicStates, InStepAt(f), failSafe = "none", HalcMessage
  PROVE  NoUnexpectedFlow' /\ (failSafe' = "none" => \E g \in AicStates : InStepAt(g)')
<1> USE DEF At, Go
<1>1. DeviceTypeOK
  BY DEF Known
<1>2. ASSUME UNCHANGED <<aicState, events, cfgIsToolOwned, cfgIsOriginatorOwned,
                         cssVars, nvVars, cfgTask, failSafe>>, phase' = "events"
      PROVE  NoUnexpectedFlow' /\ (failSafe' = "none" => \E g \in AicStates : InStepAt(g)')
  <2>1. InStepAt(f)'
    BY <1>2, InStepUnchanged DEF inStepVars, cssVars, nvVars
  <2> QED
    BY <1>2, <2>1 DEF NoUnexpectedFlow
<1>3. CASE NoMessage
  BY <1>2, <1>3 DEF NoMessage, smVars
<1>4. CASE ApplyTunid
  <2>1. /\ phase' = "events" /\ sso = "WAIT_TUNID" /\ sso' = "CONFIGURING"
        /\ UNCHANGED <<smVars, sv, cfunid, nvConfig, flash, cfgTask, failSafe>>
    BY <1>4 DEF ApplyTunid, MessageArrives
  <2>2. /\ Settles(f) /\ f \in Gone \cup {"WAIT_TUNID"} /\ cfgTask = "CHECK_STATE"
        /\ \A v \in Conn : ~IsOpen(v)
    BY <2>1 DEF InStepAt, TaskInStep, Settles, Fits, SsoFits, AicStates, Starting,
       Running, Executing, Waiting, Gone, Known, StartsClosed, IsOpen
  <2>3. Settles(f)' /\ ScidForOpen' /\ TaskInStep'
    BY <2>1, <2>2 DEF Settles, Fits, SsoFits, ConnectionsFit, StartFits, TaskFits,
       IsOpen, Starting, Running, Executing, Waiting, Gone, ScidForOpen, TaskInStep
  <2>4. InStepAt(f)'
    BY <2>1, <2>3 DEF InStepAt, smVars
  <2> QED
    BY <2>1, <2>4 DEF NoUnexpectedFlow
<1>5. CASE SafetyReset
  <2> DEFINE g == IF f \in {"IDLE", "WAIT_TUNID", "ABORT"} \cup ConfigStates
                  THEN "WAIT_RESET" ELSE f
  <2>1. /\ phase' = "events" /\ Signal(<<"SAFETY_RESET">>)
        /\ aicState \in {"IDLE", "WAIT_TUNID", "ABORT"} \cup ConfigStates
        /\ UNCHANGED <<aicState, cfgIsToolOwned, cfgIsOriginatorOwned, sso, sv,
                       nvVars, cfgTask>>
    BY <1>5 DEF SafetyReset, MessageArrives
  <2>2. f # "STARTUP" /\ aicState # "STARTUP"
    BY <2>1 DEF InStepAt, ConfigStates
  <2>3. NextAicState(f, "SAFETY_RESET") = g
    BY <2>2, OtherEvents
  <2>4. NoUnexpectedFlow'
    BY <2>1 DEF Signal, NoUnexpectedFlow
  <2> SUFFICES ASSUME failSafe' = "none"
               PROVE  InStepAt(g)'
    BY <2>4 DEF AicStates
  <2>5. Leads(aicState', events', g)
    <3>1. /\ events' = QueueAfter(<<"SAFETY_RESET">>)
          /\ FitsQueue(<<"SAFETY_RESET">>)
          /\ "SAFETY_RESET" \in Events
      BY <2>1 DEF Signal, Events
    <3> HIDE DEF g
    <3> QED
      BY <1>1, <2>1, <2>2, <2>3, <3>1, SignalOneLeads DEF InStepAt
  <2>6. Settles("WAIT_RESET")'
    BY DEF Settles, Fits, SsoFits, ConnectionsFit, StartFits, TaskFits, Starting,
           Running, Waiting, Gone, Executing
  <2>7. Settles(f)'
    BY <2>1 DEF InStepAt, Settles, Fits, SsoFits, ConnectionsFit, StartFits,
       TaskFits, IsOpen, OwnersMatch, FlashIsConsistent, FlashIsCurrent, nvVars
  <2>8. ScidForOpen' /\ TaskInStep'
    BY <2>1 DEF InStepAt, ScidForOpen, IsOpen, TaskInStep, FlashIsCurrent, nvVars
  <2> QED
    BY <2>1, <2>2, <2>5, <2>6, <2>7, <2>8 DEF InStepAt
<1>6. ASSUME NEW v \in Conn, FwdClose(v)
      PROVE  NoUnexpectedFlow' /\ (failSafe' = "none" => \E g \in AicStates : InStepAt(g)')
  <2> DEFINE g == NextAicState(f, Closed(v))
  <2>1. /\ phase' = "events" /\ sv[v] # "IDLE"
        /\ SvTransition(v, "IDLE", "DEL", <<Closed(v)>>)
        /\ UNCHANGED <<aicState, cfgIsToolOwned, cfgIsOriginatorOwned, nvVars, cfgTask>>
    BY <1>6 DEF FwdClose, MessageArrives
  <2>2. g = NextAicState(f, Closed(v))
    OBVIOUS
  <2> HIDE DEF g
  <2>3. /\ NoUnexpectedFlow'
        /\ failSafe' = "none" =>
              /\ g \in AicStates \ {"STARTUP"}
              /\ Leads(aicState', events', g)
              /\ aicState # "STARTUP"
              /\ ScidForOpen'
              /\ TaskInStep'
              /\ Settles(g)'
    BY <2>1, <2>2, LosingInStep
  <2> QED
    BY <2>1, <2>3 DEF InStepAt
<1>7. ASSUME NEW v \in Conn, T2Open(v)
      PROVE  NoUnexpectedFlow' /\ (failSafe' = "none" => \E g \in AicStates : InStepAt(g)')
  <2> DEFINE g == NextAicState(f, Established(v))
  <2>1. /\ MayOpen /\ aicState \in {"IDLE", "EXEC_PROD_ONLY", "EXEC_CONS_ONLY"}
        /\ scid # NoConfig /\ ~IsOpen(v)
        /\ sv' = [sv EXCEPT ![v] = "INITIALIZING"] /\ Signal(<<Established(v)>>)
        /\ UNCHANGED <<aicState, cfgIsToolOwned, cfgIsOriginatorOwned, sso, nvVars,
                       cfgTask>>
    BY <1>7 DEF T2Open, T2Allowed
  <2>2. /\ f \in Running \cup Waiting \cup Gone /\ f # "STARTUP" /\ phase' = "events"
        /\ cfgTask = "CHECK_STATE" /\ sso # "CONFIGURING" /\ Settles(f)
        /\ aicState # "STARTUP"
    BY <2>1, OpenFinds DEF Waiting
  <2>3. f \in Running \cup Gone
    BY <2>2 DEF Settles, Fits, SsoFits
  <2>4. ~Holds(f, v)
    BY <2>1, <2>2, <2>3 DEF Settles, Holds, Gone
  <2>5. /\ f \in Running => /\ g \in Executing
                            /\ \A w \in Conn : Holds(g, w) <=> Holds(f, w) \/ w = v
        /\ f \notin Running => g = f
    BY <2>2, <2>4, OpeningEvent
  <2>6. NoUnexpectedFlow'
    BY <2>1 DEF Signal, NoUnexpectedFlow
  <2>7. Established(v) \in Events /\ g \in AicStates \ {"STARTUP"}
    <3>1. Established(v) \in Events
      BY DEF Events, Established
    <3> QED
      BY <2>2, <3>1, NeverBackToStartup
  <2> HIDE DEF g
  <2> SUFFICES ASSUME failSafe' = "none"
               PROVE  InStepAt(g)'
    BY <2>6, <2>7
  <2>8. Leads(aicState', events', g)
    BY <1>1, <2>1, <2>2, <2>7, SignalOneLeads DEF Signal, InStepAt, g
  <2>9. \A w \in Conn : IsOpen(w)' <=> IsOpen(w) \/ w = v
    BY <1>1, <2>1 DEF IsOpen, DeviceTypeOK
  <2>10. Settles(g)'
    <3>1. CASE f \in Running
      <4>1. g \in Running /\ g # "PROCESS_CONFIG"
        BY <2>5, <3>1 DEF Running, Executing
      <4>2. \A w \in Conn : IsOpen(w)' <=> Holds(g, w)
        BY <2>2, <2>5, <2>9, <3>1 DEF Settles
      <4>3. /\ OwnersMatch' /\ scid' # NoConfig /\ nvConfig' = scid'
            /\ (nvBusy \/ FlashIsConsistent)' /\ sso \in {"IDLE", "EXECUTING"}
        BY <2>1, <2>2, <3>1
           DEF Settles, Fits, SsoFits, OwnersMatch, FlashIsConsistent, nvVars
      <4>4. Fits(g)'
        BY <2>1, <2>2, <4>1, <4>3 DEF Fits, SsoFits, ConnectionsFit, StartFits,
           TaskFits, Starting, Running, Executing, Waiting, Gone
      <4> QED
        BY <4>1, <4>2, <4>3, <4>4 DEF Settles
    <3>2. CASE f \in Gone
      <4>1. g \in Gone
        BY <2>5, <3>2 DEF Running, Executing, Gone
      <4> QED
        BY <4>1 DEF Settles, Fits, SsoFits, ConnectionsFit, StartFits, TaskFits,
                    Starting, Running, Waiting, Gone, Executing
    <3> QED
      BY <2>3, <3>1, <3>2
  <2>11. ScidForOpen' /\ TaskInStep'
    BY <2>1, <2>2 DEF ScidForOpen, TaskInStep, nvVars
  <2> QED
    BY <2>1, <2>2, <2>7, <2>8, <2>10, <2>11 DEF InStepAt
<1>8. ASSUME NEW c \in Configs, NEW o \in Originators, T1Denied(c, o)
      PROVE  NoUnexpectedFlow' /\ (failSafe' = "none" => \E g \in AicStates : InStepAt(g)')
  BY <1>2, <1>8 DEF T1Denied, T1Allowed, MayOpen, MessageArrives
<1>9. ASSUME NEW c \in Configs, NEW o \in Originators, T1Refused(c, o)
      PROVE  NoUnexpectedFlow' /\ (failSafe' = "none" => \E g \in AicStates : InStepAt(g)')
  <2>1. /\ MayOpen /\ cfunid \in {ZeroUnid, o} /\ cfgIsToolOwned
        /\ aicState \in {"IDLE", "EXEC_PROD_ONLY", "EXEC_CONS_ONLY"} \cup Waiting
    BY <1>9 DEF T1Refused, T1Allowed, CfunidCheck, Waiting
  <2>2. /\ f \in Running \cup Waiting \cup Gone /\ f # "STARTUP" /\ phase' = "events"
        /\ cfgTask = "CHECK_STATE" /\ Settles(f) /\ aicState # "STARTUP"
        /\ aicState \in Waiting => sso = "CONFIGURING" /\ \A v \in Conn : ~IsOpen(v)
        /\ aicState \notin Waiting => OwnersMatch
    BY <2>1, OpenFinds
\* The owner has been checked: it is only refused while there is none yet.
  <2>3. aicState \in Waiting
    BY <2>1, <2>2, UnidsDiffer DEF OwnersMatch
  <2>4. ~Dropped /\ DroppedEvents = <<>> /\ SvAfterDrop = sv
    BY <2>2, <2>3 DEF Dropped, DroppedEvents, SvAfterDrop
  <2>5. /\ sv' = sv /\ Signal(<<>>) /\ sso' = "CONFIGURING" /\ scid' = NoConfig
        /\ UNCHANGED <<aicState, cfgIsToolOwned, cfunid, nvConfig, flash, cfgTask>>
    BY <1>9, <2>4 DEF T1Refused
  <2>6. FitsQueue(<<>>) /\ QueueAfter(<<>>) = events
    BY <1>1 DEF FitsQueue, QueueAfter, DeviceTypeOK, SmTypeOK
  <2>7. events' = events /\ failSafe' = "none"
    BY <2>5, <2>6 DEF Signal
  <2>8. f \in Waiting \cup Gone
    BY <2>2, <2>3 DEF Settles, Fits, SsoFits
  <2>9. Settles(f)'
    BY <2>2, <2>3, <2>5, <2>8 DEF Settles, Fits, SsoFits, ConnectionsFit, StartFits,
       TaskFits, IsOpen, Starting, Running, Waiting, Gone, Executing
  <2>10. ScidForOpen' /\ TaskInStep'
    BY <2>2, <2>3, <2>5 DEF ScidForOpen, IsOpen, TaskInStep
  <2>11. InStepAt(f)'
    BY <2>2, <2>5, <2>7, <2>9, <2>10 DEF InStepAt
  <2> QED
    BY <2>7, <2>11 DEF NoUnexpectedFlow
<1>10. ASSUME NEW c \in Configs, NEW o \in Originators, NEW v \in Conn,
              NEW known \in BOOLEAN, T1Accepted(v, c, o, known)
       PROVE  NoUnexpectedFlow' /\ (failSafe' = "none" => \E g \in AicStates : InStepAt(g)')
  <2>1. /\ MayOpen
        /\ aicState \in {"IDLE", "EXEC_PROD_ONLY", "EXEC_CONS_ONLY"} \cup Waiting
        /\ nvConfig' = c /\ scid' = c /\ cfunid' = o /\ sso' = "IDLE"
        /\ UNCHANGED <<aicState, flash, cfgTask>>
    BY <1>10 DEF T1Accepted, T1Allowed, Waiting
  <2>2. /\ cfgIsOriginatorOwned' <=> TRUE
        /\ cfgIsToolOwned' <=> FALSE
        /\ nvBusy' <=> TRUE
    BY <1>10, Zenon DEF T1Accepted
  <2>3. phase' = "events" /\ cfgTask = "CHECK_STATE" /\ aicState # "STARTUP"
    BY <2>1, OpenFinds
  <2>4. NoUnexpectedFlow'
    <3>1. failSafe' \in {"EVENT_CNT_ERR", "CSS_FATAL", "none"}
      BY <1>10 DEF T1Accepted
    <3> QED
      BY <3>1 DEF NoUnexpectedFlow
  <2> SUFFICES ASSUME failSafe' = "none"
               PROVE  \E g \in AicStates : InStepAt(g)'
    BY <2>4
  <2>5. PICK g \in AicStates :
          /\ Leads(aicState', events', g)
          /\ g \in Running \cup Gone
          /\ g \in Running => \A w \in Conn : Holds(g, w) <=> IsOpen(w)'
    <3>1. \E g \in AicStates :
            /\ Leads(aicState, events', g)
            /\ g \in Running \cup Gone
            /\ g \in Running => \A w \in Conn : Holds(g, w) <=> IsOpen(w)'
      BY <1>10, AcceptingLeads
    <3> QED
      BY <2>1, <3>1
  <2>6. OwnersMatch' /\ scid' # NoConfig /\ nvConfig' = scid'
    BY <2>1, <2>2, UnidsDiffer, NoConfigIsNone DEF OwnersMatch
  <2>7. Fits(g)'
    BY <2>1, <2>3, <2>5 DEF Fits, SsoFits, ConnectionsFit, StartFits, TaskFits,
       Starting, Running, Waiting, Gone, Executing
  <2>8. Settles(g)'
    BY <2>2, <2>5, <2>6, <2>7 DEF Settles, Running, Executing, Gone
  <2>9. ScidForOpen' /\ TaskInStep'
    BY <2>1, <2>3, <2>6 DEF ScidForOpen, TaskInStep
  <2>10. g # "STARTUP"
    BY <2>5 DEF Running, Executing, Gone
  <2> QED
    BY <2>1, <2>3, <2>5, <2>8, <2>9, <2>10 DEF InStepAt
<1> QED
  BY <1>3, <1>4, <1>5, <1>6, <1>7, <1>8, <1>9, <1>10 DEF HalcMessage

\* The end of the cycle keeps the machine in step.
LEMMA Slice39InStep ==
  ASSUME Known, NEW f \in AicStates, InStepAt(f), failSafe = "none", Slice39
  PROVE  NoUnexpectedFlow' /\ (failSafe' = "none" => \E g \in AicStates : InStepAt(g)')
<1> USE DEF At, Go
<1>1. DeviceTypeOK /\ aicState \in AicStates /\ events \in Seq(Events)
  BY DEF Known, DeviceTypeOK, SmTypeOK
\* What holds of f holds of the state when the queue has been emptied.
<1>2. ASSUME events = <<>>, aicState = f, phase' = "ctrlSts",
             UNCHANGED <<aicState, events, cfgIsToolOwned, cfgIsOriginatorOwned,
                         cssVars, nvVars, cfgTask>>
      PROVE  Serves(f)'
  <2>1. Fits(f)' /\ (f \in Running => OwnersMatch')
    BY <1>2 DEF InStepAt, Settles, Fits, SsoFits, ConnectionsFit, StartFits, TaskFits,
       IsOpen, OwnersMatch, FlashIsCurrent, cssVars, nvVars
  <2> QED
    BY <1>2, <2>1 DEF Serves
<1>3. CASE StateMachine
  <2>1. /\ phase = "events" /\ aicState # "STARTUP" /\ HandleEvent
        /\ UNCHANGED <<cssVars, nvVars, hostVars, phase, cfgTask, failSafe>>
    BY <1>3 DEF StateMachine
  <2>2. /\ events # <<>> /\ events' = Tail(events)
        /\ aicState' = NextAicState(aicState, Head(events))
        /\ UNCHANGED <<cfgIsToolOwned, cfgIsOriginatorOwned>>
    BY <2>1 DEF HandleEvent
  <2>3. Leads(aicState', events', f)
    BY <1>1, <2>2, LeadsFromTail DEF InStepAt
  <2>4. aicState' # "STARTUP" /\ f # "STARTUP"
    <3>1. Head(events) \in Events
      BY <1>1, <2>2
    <3> QED
      BY <1>1, <2>1, <2>2, <3>1, NeverBackToStartup DEF InStepAt
  <2>5. Settles(f)' /\ ScidForOpen' /\ TaskInStep'
    BY <2>1, <2>2 DEF InStepAt, Settles, Fits, SsoFits, ConnectionsFit, StartFits,
       TaskFits, IsOpen, OwnersMatch, FlashIsConsistent, FlashIsCurrent, ScidForOpen,
       TaskInStep, cssVars, nvVars
  <2>6. InStepAt(f)'
    BY <2>1, <2>3, <2>4, <2>5 DEF InStepAt
  <2> QED
    BY <2>1, <2>6 DEF NoUnexpectedFlow
<1>4. CASE EndCycle
  <2>1. /\ events = <<>> /\ phase' = "ctrlSts"
        /\ UNCHANGED <<smVars, cssVars, nvVars, hostVars, cfgTask, failSafe>>
    BY <1>4 DEF EndCycle
  <2>2. aicState = f
    BY <1>1, <2>1, LeadsNowhere DEF InStepAt
  <2>3. Serves(f)'
    BY <1>2, <2>1, <2>2 DEF smVars
  <2>4. InStepAt(f)'
    BY <2>1, <2>3, InStepUnchanged DEF inStepVars, smVars, cssVars, nvVars
  <2> QED
    BY <2>1, <2>4 DEF NoUnexpectedFlow
<1>5. CASE StartupState
  <2>1. /\ aicState = "STARTUP" /\ phase' = "ctrlSts"
        /\ aicState' \in {"STARTUP", "WAIT_FOR_INIT"}
        /\ UNCHANGED <<events, cfgIsToolOwned, cfgIsOriginatorOwned, cssVars, nvVars,
                       hostVars, cfgTask, failSafe>>
    BY <1>5 DEF StartupState
  <2>2. events = <<>> /\ f = "STARTUP"
    BY <1>1, <2>1, LeadsNowhere DEF InStepAt
  <2> PICK g \in {"STARTUP", "WAIT_FOR_INIT"} : aicState' = g
    BY <2>1
  <2>3. g \in AicStates /\ Leads(aicState', events', g)
    BY <2>1, <2>2, LeadsNowhere DEF AicStates
  <2>4. Fits(g)'
    <3>1. Fits("STARTUP")
      BY <2>2 DEF InStepAt, Settles
    <3> QED
      BY <2>1, <3>1 DEF Fits, SsoFits, ConnectionsFit, StartFits, TaskFits, IsOpen,
         FlashIsCurrent, Starting, Running, Waiting, Gone, Executing, cssVars, nvVars
  <2>5. g \in Starting /\ g \notin Running /\ g \notin Gone
    BY <2>1 DEF Starting, Running, Executing, Gone
  <2>6. Settles(g)'
    BY <2>4, <2>5 DEF Settles, Starting
  <2>7. Serves(g)'
    BY <2>1, <2>2, <2>4, <2>5 DEF Serves
  <2>8. ScidForOpen' /\ TaskInStep'
    BY <2>1 DEF InStepAt, ScidForOpen, IsOpen, TaskInStep, FlashIsCurrent, cssVars, nvVars
  <2>9. InStepAt(g)'
    BY <2>1, <2>2, <2>3, <2>6, <2>7, <2>8 DEF InStepAt
  <2> QED
    BY <2>1, <2>3, <2>9 DEF NoUnexpectedFlow
<1> QED
  BY <1>3, <1>4, <1>5 DEF Slice39

\* Every step of the device keeps the machine in step.
LEMMA NextKeepsInStep == Known /\ InStep /\ [Next]_deviceVars => InStep'
<1> SUFFICES ASSUME Known, InStep, [Next]_deviceVars
             PROVE  InStep'
  OBVIOUS
<1>1. CASE UNCHANGED deviceVars
  <2>1. NoUnexpectedFlow' /\ failSafe' = failSafe
    BY <1>1 DEF InStep, NoUnexpectedFlow, deviceVars
  <2>2. ASSUME NEW f \in AicStates, InStepAt(f)
        PROVE  InStepAt(f)'
    <3>1. Serves(f)' <=> Serves(f)
      BY <1>1 DEF Serves, Fits, SsoFits, ConnectionsFit, StartFits, TaskFits, IsOpen,
         FlashIsCurrent, OwnersMatch, deviceVars, smVars, cssVars, nvVars, hostVars
    <3>2. UNCHANGED inStepVars /\ phase' = phase
      BY <1>1 DEF inStepVars, deviceVars, smVars, cssVars, nvVars
    <3> QED
      BY <2>2, <3>1, <3>2, InStepUnchanged DEF InStepAt
  <2> QED
    BY <2>1, <2>2 DEF InStep
<1>2. CASE Next
  <2>1. failSafe = "none"
    BY <1>2 DEF Next, CycleStep, Slice6, AbortStateRequest, NoAbortRequest, SetInitData,
       SetConfigString, OtherTelegram, Monitors, FirstFrame, Fault, RunIdle, TaskStep,
       CheckForAbortState, EndMonitor, DiscardTask, InitIdle, InitOther, VerifyAndStore,
       WriteConfig, ApplyConfig, CheckForTunidState, NoStep, HalcMessage, NoMessage,
       ApplyTunid, SafetyReset, FwdClose, T2Open, T1Denied, T1Refused, T1Accepted,
       T1Allowed, MayOpen, MessageArrives, Slice39, StateMachine, StartupState, EndCycle,
       NvLowHandler, At
  <2>2. PICK f \in AicStates : InStepAt(f)
    BY <2>1 DEF InStep
  <2> QED
    BY <1>2, <2>1, <2>2, Slice6InStep, MonitorsInStep, NvLowHandlerInStep, TaskStepInStep,
       HalcMessageInStep, Slice39InStep DEF Next, CycleStep, InStep
<1> QED
  BY <1>1, <1>2

-----------------------------------------------------------------------------
(* The theorems *)

LEMMA InitiallyKnown == DeviceInit => SsoInv /\ StartsClosed /\ OneOwner /\ ParamsInStep
<1> SUFFICES ASSUME DeviceInit
             PROVE  SsoInv /\ StartsClosed /\ OneOwner /\ ParamsInStep
  OBVIOUS
<1>1. SsoInv
  BY DEF DeviceInit, SmInit, SsoInv, NumEstab, Conn
<1>2. StartsClosed
  BY DEF DeviceInit, StartsClosed
<1>3. OneOwner
  BY Zenon DEF DeviceInit, SmInit, OneOwner
<1>4. ParamsInStep
  BY DEF DeviceInit, SmInit, ParamsInStep, Announces, Running, Executing
<1> QED
  BY <1>1, <1>2, <1>3, <1>4

\* The start of the device is in step.
LEMMA InitiallyInStep == DeviceInit => InStep
<1> SUFFICES ASSUME DeviceInit
             PROVE  InStep
  OBVIOUS
<1>1. /\ aicState = "STARTUP" /\ events = <<>> /\ phase = "ctrlSts"
      /\ sso = "SELF_TESTING" /\ cfgTask = "CHECK_STATE" /\ failSafe = "none"
      /\ scid \in {NoConfig, nvConfig} /\ FlashIsCurrent
      /\ \A v \in Conn : ~IsOpen(v)
  BY DEF DeviceInit, SmInit, FlashIsCurrent, IsOpen
<1>2. ~nvBusy
  BY Zenon DEF DeviceInit
<1>3. Fits("STARTUP")
  BY <1>1, <1>2 DEF Fits, SsoFits, ConnectionsFit, StartFits, TaskFits, Starting,
     Running, Waiting, Gone, Executing
<1>4. Settles("STARTUP") /\ Serves("STARTUP")
  BY <1>1, <1>3 DEF Settles, Serves, Running, Executing, Gone
<1>5. "STARTUP" \in AicStates /\ Leads(aicState, events, "STARTUP")
  BY <1>1, LeadsNowhere DEF AicStates
<1>6. ScidForOpen /\ TaskInStep
  BY <1>1 DEF ScidForOpen, TaskInStep
<1>7. InStepAt("STARTUP")
  BY <1>1, <1>4, <1>5, <1>6 DEF InStepAt
<1> QED
  BY <1>1, <1>5, <1>7 DEF InStep, NoUnexpectedFlow

\* What the other invariants know always holds.
LEMMA AlwaysKnown == Spec => [](Known /\ ParamsInStep)
<1>1. SsoInv /\ StartsClosed /\ OneOwner /\ ParamsInStep /\ DeviceTypeOK /\ [Next]_deviceVars
        => (SsoInv /\ StartsClosed /\ OneOwner /\ ParamsInStep)'
  BY NextKeepsSsoInv, NextKeepsStartsClosed, NextKeepsOneOwner, NextKeepsParams
<1>2. SsoInv /\ StartsClosed /\ OneOwner /\ ParamsInStep /\ DeviceTypeOK
        => Known /\ ParamsInStep
  BY DEF Known
<1> QED
  BY <1>1, <1>2, InitiallyKnown, DeviceTypeCorrect, PTL DEF Spec

\* The machine is always on its way.
LEMMA AlwaysInStep == Spec => [](Known /\ ParamsInStep /\ InStep)
BY InitiallyInStep, NextKeepsInStep, AlwaysKnown, PTL DEF Spec

\* At the end of a cycle the state is the one f of the invariant.
LEMMA SteadyState ==
  ASSUME Known, InStep, Steady
  PROVE  Settles(aicState)
<1>1. PICK f \in AicStates : InStepAt(f)
  BY DEF InStep, Steady
<1>2. f = aicState
  BY <1>1, QueueEmptyAtStart DEF Known, Steady
<1> QED
  BY <1>1, <1>2 DEF InStepAt

\* The state machine, which only sees the events, agrees at the end of every
\* cycle with the validators that raise them, and none of the assertions of the
\* code against an unexpected flow fires (aicSm.c, SAPLcbfk.c, SAPLbkgdConfig.c).
THEOREM MachineFollowsConnections == Spec => []StatesInStep
<1>1. Known /\ InStep => StatesInStep
  <2> SUFFICES ASSUME Known, InStep
               PROVE  StatesInStep
    OBVIOUS
  <2>1. NoUnexpectedFlow
    BY DEF InStep
  <2>2. ExecMatchesValidators
    <3> SUFFICES ASSUME Steady, aicState \in Running
                 PROVE  /\ aicState \in {"EXEC_PROD_ONLY", "EXEC_PROD_CONS"} <=> IsOpen("prod")
                        /\ aicState \in {"EXEC_CONS_ONLY", "EXEC_PROD_CONS"} <=> IsOpen("cons")
      BY DEF ExecMatchesValidators, Running
    <3>1. \A v \in Conn : IsOpen(v) <=> Holds(aicState, v)
      BY SteadyState DEF Settles
    <3> QED
      BY <3>1 DEF Holds, Conn
  <2>3. NoOpenConnectionElsewhere
    <3> SUFFICES ASSUME Steady, aicState \notin {"IDLE", "ABORT", "WAIT_RESET"} \cup Executing
                 PROVE  \A v \in Conn : ~IsOpen(v)
      BY DEF NoOpenConnectionElsewhere
    <3> QED
      BY SteadyState DEF Settles, Fits, ConnectionsFit, Running, Gone
  <2> QED
    BY <2>1, <2>2, <2>3 DEF StatesInStep
<1> QED
  BY <1>1, AlwaysInStep, PTL

\* The configuration, its owner, the parameters and the connections stay in
\* step (aicSm.c, SAPLcbfk.c, IXSSOattrib.c).
THEOREM ConfigurationFollows == Spec => []ConfigurationInStep
<1>1. Known /\ ParamsInStep /\ InStep => ConfigurationInStep
  <2> SUFFICES ASSUME Known, ParamsInStep, InStep
               PROVE  ConfigurationInStep
    OBVIOUS
  <2>1. OwnershipMatchesCfunid
    <3>1. Steady /\ aicState \in Running => OwnersMatch
      BY SteadyState DEF Settles
    <3> QED
      BY <3>1 DEF OwnershipMatchesCfunid, OwnersMatch, Known, OneOwner, Running
  <2>2. ConfiguredWhenIdle
    <3> SUFFICES ASSUME Steady, aicState \in Running
                 PROVE  /\ scid # NoConfig /\ nvConfig = scid
                        /\ ~nvBusy => FlashIsConsistent
                        /\ iParam # NoConfig /\ safConCheckActive
      BY DEF ConfiguredWhenIdle, Running
    <3>1. scid # NoConfig /\ nvConfig = scid /\ (~nvBusy => FlashIsConsistent)
      BY SteadyState DEF Settles
    <3>2. iParam # NoConfig /\ safConCheckActive
      BY DEF ParamsInStep
    <3> QED
      BY <3>1, <3>2
  <2>3. OpenNeedsScid
    BY DEF InStep, InStepAt, OpenNeedsScid, ScidForOpen
  <2> QED
    BY <2>1, <2>2, <2>3 DEF ConfigurationInStep
<1> QED
  BY <1>1, AlwaysInStep, PTL

\* What the configuration task applies is what was stored under the SCID of
\* this moment (SAPLbkgdConfig.c, k_APPLY_CONFIG).
THEOREM AppliesTheStored == Spec => AppliesWhatWasStored
<1>1. Known /\ InStep /\ [Next]_deviceVars =>
        [cfgTask = "APPLY_CONFIG" /\ cfgTask' = "CHECK_STATE" => iParam' = scid]_deviceVars
  <2> SUFFICES ASSUME Known, InStep, Next, cfgTask = "APPLY_CONFIG", cfgTask' = "CHECK_STATE"
               PROVE  iParam' = scid
    OBVIOUS
  <2>1. ApplyConfig
    BY DEF Next, CycleStep, Slice6, AbortStateRequest, NoAbortRequest, SetInitData,
       SetConfigString, OtherTelegram, Monitors, FirstFrame, Fault, RunIdle, TaskStep,
       CheckForAbortState, EndMonitor, DiscardTask, InitIdle, InitOther, VerifyAndStore,
       WriteConfig, CheckForTunidState, NoStep, HalcMessage, NoMessage,
       ApplyTunid, SafetyReset, FwdClose, T2Open, T1Denied, T1Refused, T1Accepted,
       Slice39, StateMachine, StartupState, EndCycle, NvLowHandler
  <2>2. iParam' = flash.config
    BY <2>1 DEF ApplyConfig
  <2>3. PICK f \in AicStates : InStepAt(f)
    BY <2>1 DEF ApplyConfig, At, InStep
  <2>4. FlashIsCurrent /\ scid = nvConfig
    BY <2>3 DEF InStepAt, TaskInStep
  <2> QED
    BY <2>2, <2>4 DEF FlashIsCurrent
<1> QED
  BY <1>1, AlwaysInStep, PTL DEF Spec, AppliesWhatWasStored

=============================================================================
