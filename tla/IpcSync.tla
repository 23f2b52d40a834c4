------------------------------- MODULE IpcSync -------------------------------
(***************************************************************************)
(* The two-pin synchronisation of the redundant safety controllers,        *)
(* src/pkgCommunication/ipcs_IpcSync-sys.c.  Each controller drives PA12   *)
(* and reads, on PA11, the PA12 of the other.  ipcsSYS_SyncStartup raises  *)
(* the pin once and waits for the peer; every later ipcsSYS_Sync drives    *)
(* the level it expects, waits until the peer shows the same level, and    *)
(* toggles the expectation of the next call.  A wait that lasts too long   *)
(* ends in the safety handler, which never returns and leaves PA12 alone.  *)
(***************************************************************************)
EXTENDS Naturals

CONSTANTS C1, C2,      \* SAFETY_CONTROLLER_1, SAFETY_CONTROLLER_2
          MaxWaits     \* bound: waits begun per controller

ASSUME ControllersDiffer == C1 # C2
ASSUME MaxWaitsIsNat == MaxWaits \in Nat

Ctrl == {C1, C2}
Peer(c) == IF c = C1 THEN C2 ELSE C1

VARIABLES
  pc,                \* where each controller is, see PcValues
  pin,               \* level each controller drives on PA12
  ePinExpectedState, \* static variable of ipcsSYS_Sync
  begun,             \* history: waits begun; the first is SyncStartup's
  ended,             \* history: waits that ended with the expected level
  prompt             \* history: no controller has yet called ipcsSYS_Sync
                     \* before its waiting peer had read the level of the call
                     \* before

syncVars == <<pc, pin, ePinExpectedState, begun, ended, prompt>>

Level == {"IO_LOW", "IO_HIGH"}

\* "startupWait" and "syncWait": PA11 was read with the wrong level, so the
\* loop that checks the timeout has been entered.
PcValues == {"init", "startup", "startupWait", "run", "sync", "syncWait",
             "failSafe"}

\* Mutant: the toggle forgets the level below.
Toggle_Stuck(level) == IF level = "IO_HIGH" THEN "IO_LOW" ELSE "IO_UNKNOWN"

Toggle(level) == IF level = "IO_HIGH" THEN "IO_LOW" ELSE "IO_HIGH"

IpcSyncInit ==
  /\ pc = [c \in Ctrl |-> "init"]
  /\ pin = [c \in Ctrl |-> "IO_LOW"]
  /\ ePinExpectedState = [c \in Ctrl |-> "IO_HIGH"]
  /\ begun = [c \in Ctrl |-> 0]
  /\ ended = [c \in Ctrl |-> 0]
  /\ prompt = TRUE

-----------------------------------------------------------------------------
(* ipcsSYS_SyncStartup *)

SyncStartup(c) ==
  /\ pc[c] = "init"
  /\ begun[c] < MaxWaits
  /\ pc' = [pc EXCEPT ![c] = "startup"]
  /\ pin' = [pin EXCEPT ![c] = "IO_HIGH"]
  /\ begun' = [begun EXCEPT ![c] = @ + 1]
  /\ UNCHANGED <<ePinExpectedState, ended, prompt>>

SyncStartupPass(c) ==
  /\ pc[c] \in {"startup", "startupWait"}
  /\ pin[Peer(c)] = "IO_HIGH"
  /\ pc' = [pc EXCEPT ![c] = "run"]
  /\ ended' = [ended EXCEPT ![c] = @ + 1]
  /\ UNCHANGED <<pin, ePinExpectedState, begun, prompt>>

SyncStartupMiss(c) ==
  /\ pc[c] = "startup"
  /\ pin[Peer(c)] # "IO_HIGH"
  /\ pc' = [pc EXCEPT ![c] = "startupWait"]
  /\ UNCHANGED <<pin, ePinExpectedState, begun, ended, prompt>>

-----------------------------------------------------------------------------
(* ipcsSYS_Sync *)

\* The peer of c is in a wait that its next read of PA11 would end.
PeerIsReleased(c) ==
  LET p == Peer(c)
  IN  \/ pc[p] \in {"startup", "startupWait"} /\ pin[c] = "IO_HIGH"
      \/ pc[p] \in {"sync", "syncWait"} /\ pin[c] = ePinExpectedState[p]

Sync(c) ==
  /\ pc[c] = "run"
  /\ begun[c] < MaxWaits
  /\ prompt' = (prompt /\ ~PeerIsReleased(c))
  /\ pc' = [pc EXCEPT ![c] = "sync"]
  /\ pin' = [pin EXCEPT ![c] = ePinExpectedState[c]]
  /\ begun' = [begun EXCEPT ![c] = @ + 1]
  /\ UNCHANGED <<ePinExpectedState, ended>>

\* Mutant: the call returns without waiting for the peer's level.
SyncPass_NoWait(c) ==
  /\ pc[c] \in {"sync", "syncWait"}
  /\ pc' = [pc EXCEPT ![c] = "run"]
  /\ ePinExpectedState' = [ePinExpectedState EXCEPT ![c] = Toggle(@)]
  /\ ended' = [ended EXCEPT ![c] = @ + 1]
  /\ UNCHANGED <<pin, begun, prompt>>

SyncPass(c) ==
  /\ pc[c] \in {"sync", "syncWait"}
  /\ pin[Peer(c)] = ePinExpectedState[c]
  /\ pc' = [pc EXCEPT ![c] = "run"]
  /\ ePinExpectedState' = [ePinExpectedState EXCEPT ![c] = Toggle(@)]
  /\ ended' = [ended EXCEPT ![c] = @ + 1]
  /\ UNCHANGED <<pin, begun, prompt>>

SyncMiss(c) ==
  /\ pc[c] = "sync"
  /\ pin[Peer(c)] # ePinExpectedState[c]
  /\ pc' = [pc EXCEPT ![c] = "syncWait"]
  /\ UNCHANGED <<pin, ePinExpectedState, begun, ended, prompt>>

\* Mutant: only the startup wait has a timeout.
SyncTimeout_StartupOnly(c) ==
  /\ pc[c] = "startupWait"
  /\ pc' = [pc EXCEPT ![c] = "failSafe"]
  /\ UNCHANGED <<pin, ePinExpectedState, begun, ended, prompt>>

\* The timeout is checked before PA11 is read again, so it may strike in a
\* state in which the peer has arrived in the meantime.
SyncTimeout(c) ==
  /\ pc[c] \in {"startupWait", "syncWait"}
  /\ pc' = [pc EXCEPT ![c] = "failSafe"]
  /\ UNCHANGED <<pin, ePinExpectedState, begun, ended, prompt>>

\* The safety handler, called for any other reason between two calls: it
\* disables interrupts and loops for ever.
SafetyHandler(c) ==
  /\ pc[c] \in {"init", "run"}
  /\ pc' = [pc EXCEPT ![c] = "failSafe"]
  /\ UNCHANGED <<pin, ePinExpectedState, begun, ended, prompt>>

IpcSyncNext ==
  \E c \in Ctrl :
    \/ SyncStartup(c) \/ SyncStartupPass(c) \/ SyncStartupMiss(c)
    \/ Sync(c) \/ SyncPass(c) \/ SyncMiss(c) \/ SyncTimeout(c)
    \/ SafetyHandler(c)

IpcSyncSpec == IpcSyncInit /\ [][IpcSyncNext]_syncVars

\* A controller that is not in its safety handler keeps executing: it polls
\* PA11 in a loop with a timeout, and its program keeps calling ipcsSYS_Sync.
IpcSyncFairness ==
  \A c \in Ctrl :
    /\ WF_syncVars(SyncStartup(c) \/ SyncStartupMiss(c) \/ Sync(c) \/ SyncMiss(c))
    /\ WF_syncVars(SyncStartupPass(c) \/ SyncPass(c) \/ SyncTimeout(c))

IpcSyncFairSpec == IpcSyncSpec /\ IpcSyncFairness

-----------------------------------------------------------------------------
(* Properties *)

Waiting(c) == pc[c] \in {"startup", "startupWait", "sync", "syncWait"}

IpcSyncTypeOK ==
  /\ pc \in [Ctrl -> PcValues]
  /\ pin \in [Ctrl -> Level]
  /\ ePinExpectedState \in [Ctrl -> Level]
  /\ begun \in [Ctrl -> Nat]
  /\ ended \in [Ctrl -> Nat]
  /\ prompt \in BOOLEAN

\* From the second ipcsSYS_Sync on, a controller gets past its n-th wait only
\* when the peer has reached its n-th wait too.  The first ipcsSYS_Sync
\* (wait 2) expects the level SyncStartup already left on the pin, so it
\* only shows that the peer has reached SyncStartup.
BarrierHolds ==
  \A c \in Ctrl :
    /\ ended[c] # 2 => begun[Peer(c)] >= ended[c]
    /\ ended[c] = 2 => begun[Peer(c)] >= 1

\* The level c waits for is gone for good: the peer is already in a later
\* wait, for which it has toggled its pin.
LevelMissed(c) ==
  /\ Waiting(c)
  /\ begun[Peer(c)] > begun[c]
  /\ pin[Peer(c)] # ePinExpectedState[c]

\* As long as polling is prompt, no controller that waits in its second or a later
\* ipcsSYS_Sync misses the level of its peer: neither call returns so early
\* that the peer can toggle the pin under a wait still polling it.
NoLevelMissed ==
  prompt => \A c \in Ctrl : begun[c] > 2 => ~LevelMissed(c)

\* A level missed (two levels only tell neighbouring calls apart) never lets
\* the controllers run on one call apart: both waits run into their timeout.
MissedLevelIsFatal ==
  \A c \in Ctrl : LevelMissed(c) ~> \A d \in Ctrl : pc[d] = "failSafe"

\* The abstract barrier that this protocol implements.
Barrier == INSTANCE IpcBarrier
             WITH stopped <- [c \in Ctrl |-> pc[c] = "failSafe"]
BarrierSpec == Barrier!BarrierSpec

=============================================================================
