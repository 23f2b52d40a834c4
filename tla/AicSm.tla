-------------------------------- MODULE AicSm --------------------------------
(***************************************************************************)
(* The AIC state machine of one safety controller,                         *)
(* src/pkgAic/pkgAicSm/aicSm.c: its state, the queue of events other parts *)
(* of the firmware put to it, the flags that say who owns the configur-    *)
(* ation, and the I-parameters of src/pkgParam/fiParam.c it activates.     *)
(* The events are drained in slice 39 of every 4 ms cycle.                 *)
(***************************************************************************)
EXTENDS Naturals, Sequences

CONSTANTS Configs,       \* configurations, told apart by their SCCRC
          NoConfig,      \* SCCRC zero
          MaxNumEvents   \* cfg_MAX_NUM_EVENTS

ASSUME NoConfigIsNone == NoConfig \notin Configs
ASSUME MaxNumEventsIsPositive == MaxNumEvents \in Nat \ {0}

VARIABLES
  aicState,                \* aicSm_eAicState
  events,                  \* ae_SmEvents, the entries in use
  cfgIsToolOwned,          \* aicSm_eCfgIsToolOwned
  cfgIsOriginatorOwned,    \* aicSm_eCfgIsOriginatorOwned
  iParam,                  \* fiParam_sIParam and its fiParam_u32_Sccrc
  candidate,               \* sIParamCandidate and its u32CandidateSccrc
  safConCheckActive        \* fiParam_eSafConCheckActive

smVars == <<aicState, events, cfgIsToolOwned, cfgIsOriginatorOwned, iParam,
            candidate, safConCheckActive>>

AicStates ==
  {"STARTUP", "WAIT_FOR_INIT", "START_CSS", "WAIT_TUNID", "WAIT_FOR_CONFIG",
   "PROCESS_CONFIG", "INVALID_CONFIG", "IDLE", "EXEC_PROD_ONLY",
   "EXEC_CONS_ONLY", "EXEC_PROD_CONS", "WAIT_RESET", "ABORT"}

Events ==
  {"CSS_INIT_RECEIVED", "CSS_INIT_WAIT_TUNID", "CSS_INIT_WAIT_CONFIG",
   "CSS_INIT_IDLE", "CSS_INIT_INVLD_NODEID", "TUNID_RECEIVED",
   "CONFIG_RECEIVED", "INVLD_CONFIG", "CONFIG_DONE",
   "PROD_CONN_ESTABLISHED", "PROD_CONN_CLOSED", "PROD_CONN_FAULTED",
   "CONS_CONN_ESTABLISHED", "CONS_CONN_CLOSED", "CONS_CONN_FAULTED",
   "SAFETY_RESET", "ABORT_REQUEST"}

ProdGone == {"PROD_CONN_CLOSED", "PROD_CONN_FAULTED"}
ConsGone == {"CONS_CONN_CLOSED", "CONS_CONN_FAULTED"}

-----------------------------------------------------------------------------
(* The handlers of the states: the next state for an event.  An event a    *)
(* handler does not expect is at most logged.                              *)

WaitForInitState(e) ==
  IF e = "CSS_INIT_RECEIVED" THEN "START_CSS" ELSE "WAIT_FOR_INIT"

StartCssState(e) ==
  CASE e = "CSS_INIT_IDLE"         -> "IDLE"
    [] e = "CSS_INIT_WAIT_TUNID"   -> "WAIT_TUNID"
    [] e = "CSS_INIT_WAIT_CONFIG"  -> "WAIT_FOR_CONFIG"
    [] e = "CSS_INIT_INVLD_NODEID" -> "ABORT"
    [] OTHER                       -> "START_CSS"

WaitForTunidState(e) ==
  CASE e = "TUNID_RECEIVED" -> "WAIT_FOR_CONFIG"
    [] e = "SAFETY_RESET"   -> "WAIT_RESET"
    [] e = "ABORT_REQUEST"  -> "ABORT"
    [] OTHER                -> "WAIT_TUNID"

WaitForConfigState(e) ==
  CASE e = "CONFIG_RECEIVED" -> "PROCESS_CONFIG"
    [] e = "SAFETY_RESET"    -> "WAIT_RESET"
    [] e = "ABORT_REQUEST"   -> "ABORT"
    [] OTHER                 -> "WAIT_FOR_CONFIG"

ProcessConfigState(e) ==
  CASE e = "CONFIG_DONE"   -> "IDLE"
    [] e = "INVLD_CONFIG"  -> "INVALID_CONFIG"
    [] e = "SAFETY_RESET"  -> "WAIT_RESET"
    [] e = "ABORT_REQUEST" -> "ABORT"
    [] OTHER               -> "PROCESS_CONFIG"

InvalidConfigState(e) ==
  CASE e = "CONFIG_RECEIVED" -> "PROCESS_CONFIG"
    [] e = "SAFETY_RESET"    -> "WAIT_RESET"
    [] e = "ABORT_REQUEST"   -> "ABORT"
    [] OTHER                 -> "INVALID_CONFIG"

IdleState(e) ==
  CASE e = "PROD_CONN_ESTABLISHED" -> "EXEC_PROD_ONLY"
    [] e = "CONS_CONN_ESTABLISHED" -> "EXEC_CONS_ONLY"
    [] e = "CONFIG_RECEIVED"       -> "PROCESS_CONFIG"
    [] e = "SAFETY_RESET"          -> "WAIT_RESET"
    [] e = "ABORT_REQUEST"         -> "ABORT"
    [] OTHER                       -> "IDLE"

ProducerOnlyState(e) ==
  CASE e \in ProdGone              -> "IDLE"
    [] e = "CONS_CONN_ESTABLISHED" -> "EXEC_PROD_CONS"
    [] e = "ABORT_REQUEST"         -> "ABORT"
    [] OTHER                       -> "EXEC_PROD_ONLY"

\* Mutant: an abort request does not leave the state.
ConsumerOnlyState_NoAbort(e) ==
  CASE e \in ConsGone              -> "IDLE"
    [] e = "PROD_CONN_ESTABLISHED" -> "EXEC_PROD_CONS"
    [] OTHER                       -> "EXEC_CONS_ONLY"

ConsumerOnlyState(e) ==
  CASE e \in ConsGone              -> "IDLE"
    [] e = "PROD_CONN_ESTABLISHED" -> "EXEC_PROD_CONS"
    [] e = "ABORT_REQUEST"         -> "ABORT"
    [] OTHER                       -> "EXEC_CONS_ONLY"

\* Mutant: the fault of the consumer connection is forgotten.
ProducerConsumerState_ConsFault(e) ==
  CASE e \in ProdGone           -> "EXEC_CONS_ONLY"
    [] e = "CONS_CONN_CLOSED"   -> "EXEC_PROD_ONLY"
    [] e = "ABORT_REQUEST"      -> "ABORT"
    [] OTHER                    -> "EXEC_PROD_CONS"

ProducerConsumerState(e) ==
  CASE e \in ProdGone      -> "EXEC_CONS_ONLY"
    [] e \in ConsGone      -> "EXEC_PROD_ONLY"
    [] e = "ABORT_REQUEST" -> "ABORT"
    [] OTHER               -> "EXEC_PROD_CONS"

WaitResetState(e) == "WAIT_RESET"

AbortState(e) == IF e = "SAFETY_RESET" THEN "WAIT_RESET" ELSE "ABORT"

\* STARTUP has no entry: the queue is not drained there.
NextAicState(s, e) ==
  CASE s = "WAIT_FOR_INIT"   -> WaitForInitState(e)
    [] s = "START_CSS"       -> StartCssState(e)
    [] s = "WAIT_TUNID"      -> WaitForTunidState(e)
    [] s = "WAIT_FOR_CONFIG" -> WaitForConfigState(e)
    [] s = "PROCESS_CONFIG"  -> ProcessConfigState(e)
    [] s = "INVALID_CONFIG"  -> InvalidConfigState(e)
    [] s = "IDLE"            -> IdleState(e)
    [] s = "EXEC_PROD_ONLY"  -> ProducerOnlyState(e)
    [] s = "EXEC_CONS_ONLY"  -> ConsumerOnlyState(e)
    [] s = "EXEC_PROD_CONS"  -> ProducerConsumerState(e)
    [] s = "WAIT_RESET"      -> WaitResetState(e)
    [] s = "ABORT"           -> AbortState(e)

-----------------------------------------------------------------------------
(* What the handlers do besides changing the state *)

\* Mutant: the check stays on while a configuration is processed.
SafConCheckAfter_StaysOn(s, e) ==
  IF \/ s = "START_CSS" /\ e = "CSS_INIT_IDLE"
     \/ s = "PROCESS_CONFIG" /\ e = "CONFIG_DONE"
  THEN TRUE ELSE safConCheckActive

\* fiParam_eSafConCheckActive after state s has handled event e.
SafConCheckAfter(s, e) ==
  CASE s = "START_CSS" /\ e = "CSS_INIT_IDLE"    -> TRUE
    [] s = "PROCESS_CONFIG" /\ e = "CONFIG_DONE" -> TRUE
    [] s = "IDLE" /\ e = "CONFIG_RECEIVED"       -> FALSE
    [] OTHER                                     -> safConCheckActive

\* A stored candidate becomes the active set when a configuration is done.
ActivatesCandidate(s, e) ==
  s = "PROCESS_CONFIG" /\ e = "CONFIG_DONE" /\ candidate # NoConfig

\* aicSm_Statemachine, one entry of the queue.
HandleEvent ==
  /\ events # <<>>
  /\ LET e == Head(events)
     IN  /\ aicState' = NextAicState(aicState, e)
         /\ safConCheckActive' = SafConCheckAfter(aicState, e)
         /\ IF ActivatesCandidate(aicState, e)
            THEN iParam' = candidate /\ candidate' = NoConfig
            ELSE UNCHANGED <<iParam, candidate>>
  /\ events' = Tail(events)
  /\ UNCHANGED <<cfgIsToolOwned, cfgIsOriginatorOwned>>

\* Mutant: one event more than the queue has entries.
FitsQueue_OneMore(es) == Len(events) + Len(es) <= MaxNumEvents + 1

\* aicSm_SetEvent for every event of the sequence es.
FitsQueue(es) == Len(events) + Len(es) <= MaxNumEvents
QueueAfter(es) == IF FitsQueue(es) THEN events \o es ELSE events

-----------------------------------------------------------------------------

SmInit ==
  /\ aicState = "STARTUP"
  /\ events = <<>>
  /\ cfgIsToolOwned = FALSE
  /\ cfgIsOriginatorOwned = FALSE
  /\ iParam = NoConfig
  /\ candidate = NoConfig
  /\ safConCheckActive = FALSE

SmTypeOK ==
  /\ aicState \in AicStates
  /\ events \in Seq(Events)
  /\ Len(events) <= MaxNumEvents
  /\ cfgIsToolOwned \in BOOLEAN
  /\ cfgIsOriginatorOwned \in BOOLEAN
  /\ iParam \in Configs \cup {NoConfig}
  /\ candidate \in Configs \cup {NoConfig}
  /\ safConCheckActive \in BOOLEAN

=============================================================================
