------------------------------ MODULE IpcBarrier ------------------------------
(***************************************************************************)
(* What the synchronisation of the two controllers promises its callers    *)
(* (src/pkgCommunication/ipcs_IpcSync-sys.c), without pins and polling: a  *)
(* two-party barrier.  Wait 1 is ipcsSYS_SyncStartup, wait n + 1 the n-th  *)
(* call of ipcsSYS_Sync.  The first ipcsSYS_Sync adds no barrier of its    *)
(* own, and a party may stop for ever at any time.                         *)
(***************************************************************************)
EXTENDS Naturals

CONSTANTS C1, C2, MaxWaits

Ctrl == {C1, C2}
Peer(c) == IF c = C1 THEN C2 ELSE C1

VARIABLES begun, ended, stopped

barrierVars == <<begun, ended, stopped>>

BarrierInit ==
  /\ begun = [c \in Ctrl |-> 0]
  /\ ended = [c \in Ctrl |-> 0]
  /\ stopped = [c \in Ctrl |-> FALSE]

\* The wait of the peer that must have begun before wait n may end.
PeerWait(n) == IF n = 2 THEN 1 ELSE n

Enter(c) ==
  /\ ~stopped[c]
  /\ begun[c] = ended[c]
  /\ begun[c] < MaxWaits
  /\ begun' = [begun EXCEPT ![c] = @ + 1]
  /\ UNCHANGED <<ended, stopped>>

Leave(c) ==
  /\ ~stopped[c]
  /\ begun[c] = ended[c] + 1
  /\ begun[Peer(c)] >= PeerWait(begun[c])
  /\ ended' = [ended EXCEPT ![c] = @ + 1]
  /\ UNCHANGED <<begun, stopped>>

Stop(c) ==
  /\ ~stopped[c]
  /\ stopped' = [stopped EXCEPT ![c] = TRUE]
  /\ UNCHANGED <<begun, ended>>

BarrierNext == \E c \in Ctrl : Enter(c) \/ Leave(c) \/ Stop(c)

BarrierSpec == BarrierInit /\ [][BarrierNext]_barrierVars

=============================================================================
