---------------------------- MODULE SafetyDevice ----------------------------
(***************************************************************************)
(* One safety controller between SetInitData and the hardware reset: the   *)
(* AIC state machine (AicSm), the background task of                       *)
(* src/CIPsafety/SAPL that is triggered once per 4 ms cycle, the safety    *)
(* supervisor (SSO) and the two safety validators of src/CIPsafety/CSS,    *)
(* and the telegrams of the Anybus host.  A cycle is slice 6 (control/     *)
(* status byte, then one telegram), the background task, and slice 39,     *)
(* which drains the event queue.  The task reads the AIC state, which only *)
(* slice 39 changes.                                                       *)
(***************************************************************************)
EXTENDS AicSm

CONSTANTS Originators,   \* UNIDs of originators
          ZeroUnid,      \* configuration not owned
          ToolUnid       \* IXSSO_ks_ffUnid, owned by the configuration tool

ASSUME UnidsDiffer ==
  /\ ZeroUnid # ToolUnid
  /\ Originators \cap {ZeroUnid, ToolUnid} = {}

\* The producing (client) and the consuming (server) safety validator.
Conn == {"prod", "cons"}

VARIABLES
  phase,               \* place in the cycle
  halc,                \* the telegram of this cycle may be a HALC message
  abortReqTriggered,   \* e_AbortReqTriggered of aicMsgCtrlSts.c
  cfgStr,              \* s_CfgStrData of aicMsgCfg.c, NoConfig if invalid
  cfgTask,             \* e_State of SAPLbkgdConfig.c
  sso,                 \* u8_DevStat of IXSSOstate.c
  sv,                  \* state of each safety validator
  isRunMode,           \* spduOutData_e_IsRunMode
  scid,                \* SCID attribute: SCCRC of the configuration
  cfunid,              \* CFUNID attribute: owner of the configuration
  nvConfig,            \* configuration in the write buffer s_WrBufBgrd
  flash,               \* the valid block: its configuration and its SCID
  nvBusy,              \* SAPL_NvLowIsBusy
  failSafe             \* why the safety handler was entered, or "none"

cssVars == <<sso, sv, isRunMode>>
nvVars == <<scid, cfunid, nvConfig, flash, nvBusy>>
hostVars == <<halc, abortReqTriggered, cfgStr>>
deviceVars == <<smVars, cssVars, nvVars, hostVars, phase, cfgTask, failSafe>>

Phases == {"ctrlSts", "telegram", "monitor", "step", "message", "events"}

Executing == {"EXEC_PROD_ONLY", "EXEC_CONS_ONLY", "EXEC_PROD_CONS"}
ConfigStates == {"WAIT_FOR_CONFIG", "PROCESS_CONFIG", "INVALID_CONFIG"}

\* The states whose background task runs the monitors and reads messages.
ServedStates == Executing \cup ConfigStates \cup {"IDLE", "WAIT_TUNID", "ABORT"}

At(p) == failSafe = "none" /\ phase = p
Go(p) == phase' = p

\* aicSm_SetEvent, called for each event of es: the queue has no room left
\* for one of them means the safety handler.
Signal(es) ==
  /\ events' = QueueAfter(es)
  /\ failSafe' = IF FitsQueue(es) THEN "none" ELSE "EVENT_CNT_ERR"

-----------------------------------------------------------------------------
(* Slice 6: the control/status byte, then the telegram *)

AbortStateRequest ==
  /\ At("ctrlSts")
  /\ ~abortReqTriggered
  /\ aicState \in ServedStates \ {"ABORT"}
  /\ Signal(<<"ABORT_REQUEST">>)
  /\ abortReqTriggered' = TRUE
  /\ Go("telegram")
  /\ UNCHANGED <<aicState, cfgIsToolOwned, cfgIsOriginatorOwned, iParam,
                 candidate, safConCheckActive, cssVars, nvVars, halc, cfgStr,
                 cfgTask>>

NoAbortRequest ==
  /\ At("ctrlSts")
  /\ Go("telegram")
  /\ UNCHANGED <<smVars, cssVars, nvVars, hostVars, cfgTask, failSafe>>

\* The block with all that was stored is written and becomes the valid one.
NvLowHandler ==
  /\ At("ctrlSts")
  /\ nvBusy
  /\ nvBusy' = FALSE
  /\ flash' = [config |-> nvConfig, scid |-> scid]
  /\ UNCHANGED <<smVars, cssVars, scid, cfunid, nvConfig, hostVars, phase,
                 cfgTask, failSafe>>

SetInitData ==
  /\ At("telegram")
  /\ aicState = "WAIT_FOR_INIT"
  /\ Signal(<<"CSS_INIT_RECEIVED">>)
  /\ halc' = FALSE
  /\ Go("monitor")
  /\ UNCHANGED <<aicState, cfgIsToolOwned, cfgIsOriginatorOwned, iParam,
                 candidate, safConCheckActive, cssVars, nvVars,
                 abortReqTriggered, cfgStr, cfgTask>>

\* Mutant: the tool may configure a device an originator owns.
MaySetConfig_AnyOwner == aicState \in {"IDLE", "WAIT_FOR_CONFIG", "INVALID_CONFIG"}

MaySetConfig ==
  /\ ~cfgIsOriginatorOwned
  /\ aicState \in {"IDLE", "WAIT_FOR_CONFIG", "INVALID_CONFIG"}

\* The last fragment of SetConfigString; NoConfig is a configuration that
\* BkgdTaskIoCfgVerify refuses.  A refused telegram has no effect: its data
\* are overwritten by the next accepted one before they are read.
SetConfigString(c) ==
  /\ At("telegram")
  /\ MaySetConfig
  /\ cfgStr' = c
  /\ Signal(<<"CONFIG_RECEIVED">>)
  /\ cfgIsToolOwned' = TRUE
  /\ halc' = FALSE
  /\ Go("monitor")
  /\ UNCHANGED <<aicState, cfgIsOriginatorOwned, iParam, candidate,
                 safConCheckActive, cssVars, nvVars, abortReqTriggered, cfgTask>>

OtherTelegram ==
  /\ At("telegram")
  /\ halc' = TRUE
  /\ Go("monitor")
  /\ UNCHANGED <<smVars, cssVars, nvVars, abortReqTriggered, cfgStr, cfgTask,
                 failSafe>>

-----------------------------------------------------------------------------
(* The safety supervisor and the safety validators *)

NumEstab(s) == (IF s["prod"] = "ESTABLISHED" THEN 1 ELSE 0)
             + (IF s["cons"] = "ESTABLISHED" THEN 1 ELSE 0)

\* Mutant: the last connection to go leaves the supervisor executing.
CnxnStateTrans_Stays(st, e, n) ==
  CASE st = "IDLE" /\ e = "ESTAB" /\ n = 1      -> "EXECUTING"
    [] st = "IDLE" /\ e # "ESTAB" /\ n = 0      -> "IDLE"
    [] st = "EXECUTING" /\ e = "ESTAB" /\ n = 2 -> "EXECUTING"
    [] st = "EXECUTING" /\ e # "ESTAB"          -> "EXECUTING"
    [] st \in {"ABORT", "CONFIGURING"} /\ e # "ESTAB" -> st
    [] OTHER                                    -> "FATAL"

\* IXSSO_IxsvoCnxnStateTransClbk for event e ("ESTAB", "FAIL" or "DEL") with
\* n connections established after it: the next supervisor state, or "FATAL"
\* for an error that enters the safety handler.
CnxnStateTrans(st, e, n) ==
  CASE st = "IDLE" /\ e = "ESTAB" /\ n = 1      -> "EXECUTING"
    [] st = "IDLE" /\ e # "ESTAB" /\ n = 0      -> "IDLE"
    [] st = "EXECUTING" /\ e = "ESTAB" /\ n = 2 -> "EXECUTING"
    [] st = "EXECUTING" /\ e # "ESTAB" /\ n = 1 -> "EXECUTING"
    [] st = "EXECUTING" /\ e # "ESTAB" /\ n = 0 -> "IDLE"
    [] st \in {"ABORT", "CONFIGURING"} /\ e # "ESTAB" -> st
    [] OTHER                                    -> "FATAL"

\* Validator v goes to state s: event e for the supervisor, the sequence es
\* of at most one event for the AIC state machine.
SvTransition(v, s, e, es) ==
  LET next == CnxnStateTrans(sso, e, NumEstab([sv EXCEPT ![v] = s]))
  IN  /\ sv' = [sv EXCEPT ![v] = s]
      /\ sso' = IF next = "FATAL" THEN sso ELSE next
      /\ events' = QueueAfter(es)
      /\ failSafe' = CASE ~FitsQueue(es)   -> "EVENT_CNT_ERR"
                       [] next = "FATAL"   -> "UNEXPECTED"
                       [] OTHER            -> "none"

Established(v) == IF v = "prod" THEN "PROD_CONN_ESTABLISHED"
                                ELSE "CONS_CONN_ESTABLISHED"
Closed(v) == IF v = "prod" THEN "PROD_CONN_CLOSED" ELSE "CONS_CONN_CLOSED"
Faulted(v) == IF v = "prod" THEN "PROD_CONN_FAULTED" ELSE "CONS_CONN_FAULTED"

IsOpen(v) == sv[v] \in {"INITIALIZING", "ESTABLISHED"}

-----------------------------------------------------------------------------
(* The background task: I/O frames, monitors, frame generation.  A fault   *)
(* of a validator is found by either of the three.                         *)

\* The first valid data (server) or the first handshake (client), processed
\* only in the states that consume, respectively produce.
FirstFrame(v) ==
  /\ At("monitor")
  /\ aicState \in {"EXEC_PROD_CONS",
                   IF v = "prod" THEN "EXEC_PROD_ONLY" ELSE "EXEC_CONS_ONLY"}
  /\ sv[v] = "INITIALIZING"
  /\ SvTransition(v, "ESTABLISHED", "ESTAB", <<>>)
  /\ UNCHANGED <<aicState, cfgIsToolOwned, cfgIsOriginatorOwned, iParam,
                 candidate, safConCheckActive, isRunMode, nvVars, hostVars,
                 phase, cfgTask>>

\* SERVER_RUN and SERVER_IDLE: the run/idle flag of a data frame.
RunIdle(run) ==
  /\ At("monitor")
  /\ aicState \in {"EXEC_PROD_CONS", "EXEC_CONS_ONLY"}
  /\ sv["cons"] = "ESTABLISHED"
  /\ isRunMode' = run
  /\ UNCHANGED <<smVars, sso, sv, nvVars, hostVars, phase, cfgTask, failSafe>>

\* Mutant: a fault does not end the run mode.
RunModeAfterLoss_Kept(v) == isRunMode

RunModeAfterLoss(v) == IF v = "cons" THEN FALSE ELSE isRunMode

Fault(v) ==
  /\ At("monitor")
  /\ aicState \in ServedStates
  /\ aicState = "ABORT" => sso = "ABORT"
  /\ IsOpen(v)
  /\ SvTransition(v, "FAILED", "FAIL", <<Faulted(v)>>)
  /\ isRunMode' = RunModeAfterLoss(v)
  /\ UNCHANGED <<aicState, cfgIsToolOwned, cfgIsOriginatorOwned, iParam,
                 candidate, safConCheckActive, nvVars, hostVars, phase, cfgTask>>

\* BkgdTaskCheckForAbortState, the first thing the task of ABORT does.
CheckForAbortState ==
  /\ At("monitor")
  /\ aicState = "ABORT"
  /\ sso \in {"WAIT_TUNID", "CONFIGURING", "IDLE", "EXECUTING"}
  /\ sso' = "ABORT"
  /\ UNCHANGED <<smVars, sv, isRunMode, nvVars, hostVars, phase, cfgTask, failSafe>>

EndMonitor ==
  /\ At("monitor")
  /\ aicState \in ServedStates
  /\ aicState = "ABORT" => sso = "ABORT"
  /\ Go("step")
  /\ UNCHANGED <<smVars, cssVars, nvVars, hostVars, cfgTask, failSafe>>

\* The tasks of the states before START_CSS, and of WAIT_RESET, discard the
\* message and leave everything modelled here alone.
DiscardTask ==
  /\ At("monitor")
  /\ aicState \in {"STARTUP", "WAIT_FOR_INIT", "WAIT_RESET"}
  /\ Go("events")
  /\ UNCHANGED <<smVars, cssVars, nvVars, hostVars, cfgTask, failSafe>>

-----------------------------------------------------------------------------
(* The background task: the step of the task that depends on the state *)

\* SAPL_BkgdComIoCfgApply makes the configuration in the flash the active one
\* if its SCCRC is that of the SCID beside it, else enters the safety handler.
FlashIsConsistent == flash.scid # NoConfig /\ flash.config = flash.scid

\* SAPL_BkgdTaskInit, device status IDLE.
InitIdle ==
  /\ At("monitor")
  /\ aicState = "START_CSS"
  /\ scid # NoConfig
  /\ sso' = "IDLE"
  /\ IF FlashIsConsistent
     THEN iParam' = flash.config /\ Signal(<<"CSS_INIT_IDLE">>)
     ELSE failSafe' = "NV_APPL_ERR" /\ UNCHANGED <<iParam, events>>
  /\ cfgIsToolOwned' = (cfunid = ToolUnid)
  /\ cfgIsOriginatorOwned' = (cfunid \in Originators)
  /\ Go("events")
  /\ UNCHANGED <<aicState, candidate, safConCheckActive, sv, isRunMode, nvVars,
                 hostVars, cfgTask>>

\* SAPL_BkgdTaskInit, device status CONFIGURING, WAIT_TUNID or ABORT: no SCID,
\* no TUNID, or a TUNID that does not match the node address.
InitOther(status) ==
  /\ At("monitor")
  /\ aicState = "START_CSS"
  /\ status = "CONFIGURING" => scid = NoConfig
  /\ sso' = status
  /\ Signal(<<CASE status = "CONFIGURING" -> "CSS_INIT_WAIT_CONFIG"
                [] status = "WAIT_TUNID"  -> "CSS_INIT_WAIT_TUNID"
                [] status = "ABORT"       -> "CSS_INIT_INVLD_NODEID">>)
  /\ cfgIsToolOwned' = FALSE
  /\ cfgIsOriginatorOwned' = (status = "ABORT")
  /\ nvBusy' = (status = "CONFIGURING")
  /\ Go("events")
  /\ UNCHANGED <<aicState, iParam, candidate, safConCheckActive, sv, isRunMode,
                 scid, cfunid, nvConfig, flash, hostVars, cfgTask>>

\* BkgdTaskConfigProcess, k_CHECK_STATE in PROCESS_CONFIG: T1_SOPEN takes the
\* supervisor to CONFIGURING, which clears the SCID, and a valid configuration
\* is stored under the SCID and the owner of the tool.
VerifyAndStore ==
  /\ At("step")
  /\ aicState = "PROCESS_CONFIG"
  /\ cfgTask = "CHECK_STATE"
  /\ Go("message")
  /\ IF sso \in {"IDLE", "CONFIGURING"}
     THEN /\ sso' = "CONFIGURING"
          /\ nvBusy' = TRUE
          /\ IF cfgStr # NoConfig
             THEN /\ nvConfig' = cfgStr
                  /\ scid' = cfgStr
                  /\ cfunid' = ToolUnid
                  /\ cfgTask' = "WRITE_CONFIG"
                  /\ UNCHANGED <<events, failSafe>>
             ELSE /\ scid' = NoConfig
                  /\ Signal(<<"INVLD_CONFIG">>)
                  /\ UNCHANGED <<cfunid, nvConfig, cfgTask>>
     ELSE /\ failSafe' = "UNEXPECTED"
          /\ UNCHANGED <<sso, scid, cfunid, nvConfig, nvBusy, events, cfgTask>>
  /\ UNCHANGED <<flash, aicState, cfgIsToolOwned, cfgIsOriginatorOwned, iParam,
                 candidate, safConCheckActive, sv, isRunMode, hostVars>>

\* Mutant: the configuration is applied while it is still being written.
NvReady_Always == TRUE

NvReady == ~nvBusy

\* BkgdTaskConfigProcess, k_WRITE_CONFIG.
WriteConfig ==
  /\ At("step")
  /\ aicState \in ConfigStates
  /\ cfgTask = "WRITE_CONFIG"
  /\ cfgTask' = IF NvReady THEN "APPLY_CONFIG" ELSE "WRITE_CONFIG"
  /\ Go("message")
  /\ UNCHANGED <<smVars, cssVars, nvVars, hostVars, failSafe>>

\* BkgdTaskConfigProcess, k_APPLY_CONFIG.  APPLY_REQ is only accepted in
\* CONFIGURING.
ApplyConfig ==
  /\ At("step")
  /\ aicState \in ConfigStates
  /\ cfgTask = "APPLY_CONFIG"
  /\ Go("message")
  /\ IF sso = "CONFIGURING" /\ FlashIsConsistent
     THEN /\ iParam' = flash.config
          /\ sso' = "IDLE"
          /\ Signal(<<"CONFIG_DONE">>)
          /\ cfgTask' = "CHECK_STATE"
     ELSE /\ failSafe' = IF FlashIsConsistent THEN "UNEXPECTED" ELSE "NV_APPL_ERR"
          /\ UNCHANGED <<iParam, sso, events, cfgTask>>
  /\ UNCHANGED <<aicState, cfgIsToolOwned, cfgIsOriginatorOwned, candidate,
                 safConCheckActive, sv, isRunMode, nvVars, hostVars>>

\* BkgdTaskCheckForTunidState
CheckForTunidState ==
  /\ At("step")
  /\ aicState = "WAIT_TUNID"
  /\ Go("message")
  /\ CASE sso = "WAIT_TUNID"  -> UNCHANGED <<events, failSafe>>
       [] sso = "CONFIGURING" -> Signal(<<"TUNID_RECEIVED">>)
       [] OTHER               -> failSafe' = "UNEXPECTED" /\ UNCHANGED events
  /\ UNCHANGED <<aicState, cfgIsToolOwned, cfgIsOriginatorOwned, iParam,
                 candidate, safConCheckActive, cssVars, nvVars, hostVars, cfgTask>>

NoStep ==
  /\ At("step")
  /\ \/ aicState \in Executing \cup {"IDLE", "ABORT"}
     \/ aicState \in {"WAIT_FOR_CONFIG", "INVALID_CONFIG"} /\ cfgTask = "CHECK_STATE"
  /\ Go("message")
  /\ UNCHANGED <<smVars, cssVars, nvVars, hostVars, cfgTask, failSafe>>

-----------------------------------------------------------------------------
(* The background task: one HALC message, SAPL_BkgdComRxProcessHalcMsg.    *)
(* Only the services that change something modelled here are told apart.   *)

MessageArrives == At("message") /\ halc /\ Go("events")

NoMessage ==
  /\ At("message")
  /\ Go("events")
  /\ UNCHANGED <<smVars, cssVars, nvVars, hostVars, cfgTask, failSafe>>

FwdClose(v) ==
  /\ MessageArrives
  /\ sv[v] # "IDLE"
  /\ SvTransition(v, "IDLE", "DEL", <<Closed(v)>>)
  /\ isRunMode' = RunModeAfterLoss(v)
  /\ UNCHANGED <<aicState, cfgIsToolOwned, cfgIsOriginatorOwned, iParam,
                 candidate, safConCheckActive, nvVars, hostVars, cfgTask>>

\* Apply_TUNID with the value proposed before.
ApplyTunid ==
  /\ MessageArrives
  /\ sso = "WAIT_TUNID"
  /\ sso' = "CONFIGURING"
  /\ scid' = NoConfig
  /\ nvBusy' = TRUE
  /\ UNCHANGED <<smVars, sv, isRunMode, cfunid, nvConfig, flash, hostVars, cfgTask,
                 failSafe>>

\* Safety_Reset: refused while a validator is open.
SafetyReset ==
  /\ MessageArrives
  /\ \A v \in Conn : ~IsOpen(v)
  /\ aicState \in {"IDLE", "WAIT_TUNID", "ABORT"} \cup ConfigStates
  /\ isRunMode' = FALSE
  /\ Signal(<<"SAFETY_RESET">>)
  /\ UNCHANGED <<aicState, cfgIsToolOwned, cfgIsOriginatorOwned, iParam,
                 candidate, safConCheckActive, sso, sv, nvVars, hostVars, cfgTask>>

MayOpen ==
  /\ MessageArrives
  /\ sso \in {"IDLE", "EXECUTING", "CONFIGURING"}

T2Allowed ==
  /\ scid # NoConfig
  /\ aicState \in {"IDLE", "EXEC_PROD_ONLY", "EXEC_CONS_ONLY"}

\* A SafetyOpen without configuration data, for a free validator or with the
\* triad of a failed one.
T2Open(v) ==
  /\ MayOpen
  /\ T2Allowed
  /\ ~IsOpen(v)
  /\ sv' = [sv EXCEPT ![v] = "INITIALIZING"]
  /\ Signal(<<Established(v)>>)
  /\ UNCHANGED <<aicState, cfgIsToolOwned, cfgIsOriginatorOwned, iParam,
                 candidate, safConCheckActive, sso, isRunMode, nvVars, hostVars,
                 cfgTask>>

CfunidCheck(o) == cfunid \in {ZeroUnid, o}

\* The checks before SAPL_IxsceCfgApplyClbk: a SafetyOpen with configuration
\* data from originator o.
T1Allowed(o) ==
  /\ MayOpen
  /\ CfunidCheck(o)
  /\ aicState \in {"IDLE", "EXEC_PROD_ONLY", "EXEC_CONS_ONLY",
                   "WAIT_FOR_CONFIG", "INVALID_CONFIG"}

\* T1_SOPEN: in EXECUTING all connections are dropped, then the supervisor
\* goes to CONFIGURING.
Dropped == sso = "EXECUTING"
DroppedEvents ==
  IF ~Dropped THEN <<>>
  ELSE (IF sv["prod"] # "IDLE" THEN <<Closed("prod")>> ELSE <<>>)
       \o (IF sv["cons"] # "IDLE" THEN <<Closed("cons")>> ELSE <<>>)
SvAfterDrop == IF Dropped THEN [v \in Conn |-> "IDLE"] ELSE sv
RunModeAfterDrop == IF Dropped /\ sv["cons"] # "IDLE" THEN FALSE ELSE isRunMode

\* Denied by SAPL_IxsceSafetyOpenValidateClbk for a connection parameter,
\* after ValidateType1 has stored the candidate.
T1Denied(c, o) ==
  /\ T1Allowed(o)
  /\ candidate' = c
  /\ UNCHANGED <<aicState, events, cfgIsToolOwned, cfgIsOriginatorOwned, iParam,
                 safConCheckActive, cssVars, nvVars, hostVars, cfgTask, failSafe>>

\* Refused by aicSm_CfgOwnerOriginatorGetSet: the tool owns the configuration.
T1Refused(c, o) ==
  /\ T1Allowed(o)
  /\ cfgIsToolOwned
  /\ candidate' = c
  /\ cfgIsOriginatorOwned' = FALSE
  /\ sv' = SvAfterDrop
  /\ isRunMode' = RunModeAfterDrop
  /\ Signal(DroppedEvents)
  /\ sso' = "CONFIGURING"
  /\ scid' = NoConfig
  /\ nvBusy' = TRUE
  /\ UNCHANGED <<aicState, cfgIsToolOwned, iParam, safConCheckActive, cfunid,
                 nvConfig, flash, hostVars, cfgTask>>

\* The configuration is stored, and the connection opened if there is a
\* validator for it: known is TRUE for the triad of a failed validator, which
\* was looked up before the connections were dropped.
T1Accepted(v, c, o, known) ==
  LET opens == IF known THEN ~Dropped ELSE SvAfterDrop[v] = "IDLE"
      es == DroppedEvents \o <<"CONFIG_RECEIVED", "CONFIG_DONE">>
            \o (IF opens THEN <<Established(v)>> ELSE <<>>)
  IN  /\ T1Allowed(o)
      /\ ~cfgIsToolOwned
      /\ known => sv[v] = "FAILED"
      /\ candidate' = c
      /\ nvConfig' = c
      /\ scid' = c
      /\ cfunid' = o
      /\ cfgIsOriginatorOwned' = TRUE
      /\ nvBusy' = TRUE
      /\ sso' = "IDLE"
      /\ sv' = IF opens THEN [SvAfterDrop EXCEPT ![v] = "INITIALIZING"]
                        ELSE SvAfterDrop
      /\ isRunMode' = RunModeAfterDrop
      /\ events' = QueueAfter(es)
      /\ failSafe' = CASE ~FitsQueue(es)    -> "EVENT_CNT_ERR"
                       [] known /\ Dropped  -> "CSS_FATAL"
                       [] OTHER             -> "none"
      /\ UNCHANGED <<aicState, cfgIsToolOwned, iParam, safConCheckActive,
                     flash, hostVars, cfgTask>>

-----------------------------------------------------------------------------
(* Slice 39: the event queue *)

StateMachine ==
  /\ At("events")
  /\ aicState # "STARTUP"
  /\ HandleEvent
  /\ UNCHANGED <<cssVars, nvVars, hostVars, phase, cfgTask, failSafe>>

\* aicSm_StartupState: the first message from the host has arrived or not.
StartupState ==
  /\ At("events")
  /\ aicState = "STARTUP"
  /\ aicState' \in {"STARTUP", "WAIT_FOR_INIT"}
  /\ Go("ctrlSts")
  /\ UNCHANGED <<events, cfgIsToolOwned, cfgIsOriginatorOwned, iParam, candidate,
                 safConCheckActive, cssVars, nvVars, hostVars, cfgTask, failSafe>>

EndCycle ==
  /\ At("events")
  /\ aicState # "STARTUP"
  /\ events = <<>>
  /\ Go("ctrlSts")
  /\ UNCHANGED <<smVars, cssVars, nvVars, hostVars, cfgTask, failSafe>>

-----------------------------------------------------------------------------

\* The SCID is cleared in the NV memory before another configuration is
\* stored, and set after it: a power loss leaves them equal or the SCID zero.
DeviceInit ==
  /\ SmInit
  /\ phase = "ctrlSts"
  /\ halc = FALSE
  /\ abortReqTriggered = FALSE
  /\ cfgStr = NoConfig
  /\ cfgTask = "CHECK_STATE"
  /\ sso = "SELF_TESTING"
  /\ sv = [v \in Conn |-> "IDLE"]
  /\ isRunMode = FALSE
  /\ nvConfig \in Configs \cup {NoConfig}
  /\ scid \in {NoConfig, nvConfig}
  /\ cfunid \in {ZeroUnid, ToolUnid} \cup Originators
  /\ flash = [config |-> nvConfig, scid |-> scid]
  /\ nvBusy = FALSE
  /\ failSafe = "none"

Slice6 ==
  \/ AbortStateRequest
  \/ NoAbortRequest
  \/ SetInitData
  \/ \E c \in Configs \cup {NoConfig} : SetConfigString(c)
  \/ OtherTelegram

Monitors ==
  \/ \E v \in Conn : FirstFrame(v) \/ Fault(v)
  \/ \E run \in BOOLEAN : RunIdle(run)

TaskStep ==
  \/ CheckForAbortState
  \/ EndMonitor
  \/ DiscardTask
  \/ InitIdle
  \/ \E status \in {"CONFIGURING", "WAIT_TUNID", "ABORT"} : InitOther(status)
  \/ VerifyAndStore
  \/ WriteConfig
  \/ ApplyConfig
  \/ CheckForTunidState
  \/ NoStep

HalcMessage ==
  \/ NoMessage
  \/ ApplyTunid
  \/ SafetyReset
  \/ \E v \in Conn : FwdClose(v) \/ T2Open(v)
  \/ \E c \in Configs, o \in Originators :
       \/ T1Denied(c, o)
       \/ T1Refused(c, o)
       \/ \E v \in Conn, known \in BOOLEAN : T1Accepted(v, c, o, known)

Slice39 == StateMachine \/ StartupState \/ EndCycle

\* The steps that bring the cycle to its end.
CycleStep == Slice6 \/ TaskStep \/ HalcMessage \/ Slice39

Next == CycleStep \/ Monitors \/ NvLowHandler

\* The scheduler runs every slice of every cycle, and the NV handler, called
\* in each, ends a write after a bounded number of half-words.
Fairness == WF_deviceVars(CycleStep) /\ SF_deviceVars(NvLowHandler)

Spec == DeviceInit /\ [][Next]_deviceVars /\ Fairness

-----------------------------------------------------------------------------

\* Every variable has a value of its type, and the queue keeps its bound.
DeviceTypeOK ==
  /\ SmTypeOK
  /\ phase \in Phases
  /\ halc \in BOOLEAN
  /\ abortReqTriggered \in BOOLEAN
  /\ cfgStr \in Configs \cup {NoConfig}
  /\ cfgTask \in {"CHECK_STATE", "WRITE_CONFIG", "APPLY_CONFIG"}
  /\ sso \in {"SELF_TESTING", "WAIT_TUNID", "CONFIGURING", "IDLE", "EXECUTING", "ABORT"}
  /\ sv \in [Conn -> {"IDLE", "INITIALIZING", "ESTABLISHED", "FAILED"}]
  /\ isRunMode \in BOOLEAN
  /\ scid \in Configs \cup {NoConfig}
  /\ cfunid \in {ZeroUnid, ToolUnid} \cup Originators
  /\ nvConfig \in Configs \cup {NoConfig}
  /\ flash \in [config : Configs \cup {NoConfig}, scid : Configs \cup {NoConfig}]
  /\ nvBusy \in BOOLEAN
  /\ failSafe \in {"none", "EVENT_CNT_ERR", "NV_APPL_ERR", "UNEXPECTED", "CSS_FATAL"}

Steady == failSafe = "none" /\ phase = "ctrlSts"

\* Between two cycles the AIC state machine, which only sees the events, and
\* the validators, which raise them, agree on the connections that are open,
\* although a cycle may open, lose, drop and reopen them (aicSm_SetEvent and
\* the event handlers of SAPLcbfk.c).
ExecMatchesValidators ==
  Steady /\ aicState \in {"IDLE"} \cup Executing =>
    /\ aicState \in {"EXEC_PROD_ONLY", "EXEC_PROD_CONS"} <=> IsOpen("prod")
    /\ aicState \in {"EXEC_CONS_ONLY", "EXEC_PROD_CONS"} <=> IsOpen("cons")

\* Outside the states that hold connections open, none is open: only ABORT and
\* WAIT_RESET, which abandon the state machine, may leave one behind.
NoOpenConnectionElsewhere ==
  Steady /\ aicState \notin {"IDLE", "ABORT", "WAIT_RESET"} \cup Executing =>
    \A v \in Conn : ~IsOpen(v)

\* The supervisor executes exactly while some connection is established
\* (IXSSO_IxsvoCnxnStateTransClbk, SAPL_IxssoProfDepStateChangeClbk).
SsoMatchesConnections ==
  failSafe = "none" /\ sso \in {"IDLE", "EXECUTING"} =>
    (sso = "EXECUTING" <=> NumEstab(sv) > 0)

\* None of the assertions against an unexpected program flow can fire: what
\* the supervisor is asked to do suits its state, and the stored
\* configuration is the one of the SCID when it is applied.
NoUnexpectedFlow == failSafe \notin {"UNEXPECTED", "NV_APPL_ERR"}

\* AIC state machine, validators and the flow of the supervisor stay in step,
\* whatever a cycle does to the connections.
StatesInStep == ExecMatchesValidators /\ NoOpenConnectionElsewhere /\ NoUnexpectedFlow

\* The outputs are in run mode only with an established consumer connection:
\* whichever way the connection goes, the run mode goes with it
\* (spduOutData_e_IsRunMode, SAPL_IxsvsEventHandlerClbk).
RunModeNeedsConsumer ==
  failSafe = "none" /\ isRunMode => sv["cons"] = "ESTABLISHED"

\* Never both the tool and an originator own the configuration, and between
\* two cycles of a configured device the flags of aicSm.c agree with the
\* CFUNID attribute of the supervisor.
OwnershipMatchesCfunid ==
  /\ ~(cfgIsToolOwned /\ cfgIsOriginatorOwned)
  /\ Steady /\ aicState \in {"IDLE"} \cup Executing =>
       /\ cfgIsToolOwned <=> cfunid = ToolUnid
       /\ cfgIsOriginatorOwned <=> cfunid \in Originators

\* A device that is idle or executing has a configuration, stored under its
\* SCID, and its parameters are under the cyclic check against corruption.
ConfiguredWhenIdle ==
  Steady /\ aicState \in {"IDLE"} \cup Executing =>
    /\ scid # NoConfig
    /\ nvConfig = scid
    /\ ~nvBusy => FlashIsConsistent
    /\ iParam # NoConfig
    /\ safConCheckActive

\* No connection is open on a device without a stored configuration: whatever
\* clears the SCID (T1_SOPEN, Apply_TUNID) has dropped the connections, or
\* finds none (ScidCheck, SsoSmExecuting).
OpenNeedsScid ==
  failSafe = "none" => \A v \in Conn : IsOpen(v) => scid # NoConfig

\* The configuration, its owner and the connections that rely on it stay in
\* step.
ConfigurationInStep == OwnershipMatchesCfunid /\ ConfiguredWhenIdle /\ OpenNeedsScid

\* The active parameters never change under the cyclic check, which would
\* take the change for a corruption (fiParam_CalcFiParamSafeConCrc).
SafConGuardsParameters == [][iParam' # iParam => ~safConCheckActive]_deviceVars

\* The configuration task applies what was stored under the present SCID, not
\* what the flash held before the write it has started (k_WRITE_CONFIG).
AppliesWhatWasStored ==
  [][cfgTask = "APPLY_CONFIG" /\ cfgTask' = "CHECK_STATE" => iParam' = scid]_deviceVars

\* The processing of a configuration comes to an end: accepted, refused,
\* abandoned or in the safety handler.
ProcessConfigEnds ==
  aicState = "PROCESS_CONFIG" ~> aicState # "PROCESS_CONFIG" \/ failSafe # "none"

\* An abort request of the host stops the supervisor, whatever is going on.
AbortIsObeyed ==
  abortReqTriggered ~> sso = "ABORT" \/ aicState = "WAIT_RESET" \/ failSafe # "none"

\* What has been started ends, and what has been requested happens.
RequestsEnd == ProcessConfigEnds /\ AbortIsObeyed

-----------------------------------------------------------------------------
(* What comments of the code say, and the code does not do *)

\* SAPL_IxsceCfgApplyClbk: the configuration an originator has applied is the
\* one its connections run with.
OriginatorConfigBecomesActive ==
  Steady /\ aicState \in Executing /\ cfgIsOriginatorOwned => iParam = scid

=============================================================================
