----------------------------- MODULE Ipc_proofs -----------------------------
(***************************************************************************)
(* Theorems about the two controllers' synchronisation and exchange.       *)
(* IpcSync, for every bound MaxWaits: type correctness, the barrier, and   *)
(* that the pin protocol implements the abstract barrier of IpcBarrier.    *)
(* IpcExchange, for every number of faults and all programs that read each *)
(* telegram before the next is sent, equal or forking: data handed to a    *)
(* caller are never stale or foreign, and no telegram is sent to a         *)
(* receiver that has not armed its DMA for it.                             *)
(***************************************************************************)
EXTENDS IpcExchange, FiniteSetTheorems, SequenceTheorems, TLAPS

(* The synchronisation *)

\* The level a controller shows in its n-th wait: wait 1 (SyncStartup) and
\* wait 2 (the first ipcsSYS_Sync) share IO_HIGH, then the levels alternate.
LevelOf(n) == IF n = 1 \/ (n # 0 /\ n % 2 = 0) THEN "IO_HIGH" ELSE "IO_LOW"

\* The program counter tells how many waits have begun and ended.
CountsMatchPc ==
  \A c \in Ctrl :
    /\ pc[c] = "init" => begun[c] = 0 /\ ended[c] = 0
    /\ pc[c] \in {"startup", "startupWait"} => begun[c] = 1 /\ ended[c] = 0
    /\ pc[c] = "run" => begun[c] = ended[c] /\ ended[c] >= 1
    /\ pc[c] \in {"sync", "syncWait"} => begun[c] = ended[c] + 1 /\ ended[c] >= 1
    /\ pc[c] = "failSafe" => ended[c] <= begun[c] /\ begun[c] <= ended[c] + 1

\* Pin and expectation are functions of the two counts.
LevelsMatchCounts ==
  \A c \in Ctrl :
    /\ pin[c] = LevelOf(begun[c])
    /\ ePinExpectedState[c] = LevelOf(ended[c] + 1)

\* How far the peer has come when a wait has ended.
PeerHasFollowed ==
  \A c \in Ctrl :
    /\ ended[c] >= 1 => begun[Peer(c)] >= 1
    /\ ended[c] >= 3 => begun[Peer(c)] >= ended[c]

\* The inductive invariant.
IInv == IpcSyncTypeOK /\ CountsMatchPc /\ LevelsMatchCounts /\ PeerHasFollowed

-----------------------------------------------------------------------------

\* Levels of neighbouring waits differ from wait 2 on, so a level that equals
\* the one of wait n is not the one of wait n - 1.
LEMMA LevelsAlternate ==
  ASSUME NEW n \in Nat, n >= 3
  PROVE  /\ LevelOf(n) # LevelOf(n - 1)
         /\ n = 3 => \A m \in Nat : m >= 1 /\ LevelOf(m) = LevelOf(n) => m >= 3
BY DEF LevelOf

\* The toggle in ipcsSYS_Sync steps from the level of one wait to the next.
LEMMA ToggleIsNextLevel ==
  ASSUME NEW n \in Nat, n >= 2
  PROVE  Toggle(LevelOf(n)) = LevelOf(n + 1)
BY DEF LevelOf, Toggle

\* Two distinct controllers are each other's peer.
LEMMA PeerIsOther ==
  ASSUME NEW c \in Ctrl
  PROVE  /\ Peer(c) \in Ctrl
         /\ Peer(c) # c
         /\ Peer(Peer(c)) = c
         /\ \A d \in Ctrl : d = c \/ d = Peer(c)
BY ControllersDiffer DEF Ctrl, Peer

\* It holds at the start.
LEMMA InitEstablishesIInv == IpcSyncInit => IInv
BY PeerIsOther, MaxWaitsIsNat
   DEF IpcSyncInit, IInv, IpcSyncTypeOK, CountsMatchPc, LevelsMatchCounts,
       PeerHasFollowed, PcValues, Level, LevelOf

\* The step that needs the argument: a wait ends only when the peer has come
\* far enough for the level to be the one of this very wait.
LEMMA PassKeepsPeerHasFollowed ==
  ASSUME IInv, NEW c \in Ctrl, SyncPass(c)
  PROVE  PeerHasFollowed'
<1> DEFINE p == Peer(c)  n == ended[c] + 1
<1>1. /\ p \in Ctrl /\ p # c /\ Peer(p) = c
      /\ \A d \in Ctrl : d = c \/ d = p
  BY PeerIsOther
<1>2. /\ ended[c] \in Nat /\ n \in Nat /\ begun[p] \in Nat /\ ended[p] \in Nat /\ begun[c] \in Nat
      /\ n >= 2 /\ begun[c] = n
      /\ LevelOf(begun[p]) = LevelOf(n)
  BY <1>1 DEF IInv, IpcSyncTypeOK, CountsMatchPc, LevelsMatchCounts, SyncPass
<1>3. /\ begun' = begun
      /\ ended'[c] = n
      /\ ended'[p] = ended[p]
  BY <1>1 DEF IInv, IpcSyncTypeOK, SyncPass
<1>4. begun[p] >= 1
  BY <1>1, <1>2 DEF IInv, PeerHasFollowed
<1>5. n >= 3 => begun[p] >= n
  <2>1. CASE n = 3
    BY <1>2, <1>4, <2>1, LevelsAlternate
  <2>2. CASE n >= 4
    <3>1. begun[p] >= n - 1
      BY <1>2, <2>2 DEF IInv, PeerHasFollowed
    <3>2. begun[p] # n - 1
      <4>1. LevelOf(n) # LevelOf(n - 1)
        BY <1>2, <2>2, LevelsAlternate
      <4> QED BY <4>1, <1>2
    <3> HIDE DEF n
    <3> QED BY <3>1, <3>2, <1>2
  <2> HIDE DEF n
  <2> QED BY <2>1, <2>2, <1>2
<1>6. ended[p] >= 1 => begun[c] >= 1
  BY <1>2
<1>7. ended[p] >= 3 => begun[c] >= ended[p]
  BY <1>1 DEF IInv, PeerHasFollowed
<1> HIDE DEF n, p
<1>8. ASSUME NEW d \in Ctrl
      PROVE  /\ ended'[d] >= 1 => begun'[Peer(d)] >= 1
             /\ ended'[d] >= 3 => begun'[Peer(d)] >= ended'[d]
  <2>1. CASE d = c
    BY <2>1, <1>2, <1>3, <1>4, <1>5 DEF p
  <2>2. CASE d = p
    BY <2>2, <1>1, <1>3, <1>6, <1>7
  <2> QED BY <1>1, <2>1, <2>2
<1> QED BY <1>8 DEF PeerHasFollowed

\* Every step keeps the inductive invariant.
LEMMA NextKeepsIInv == IInv /\ [IpcSyncNext]_syncVars => IInv'
<1> SUFFICES ASSUME IInv, [IpcSyncNext]_syncVars PROVE IInv'
  OBVIOUS
<1> USE DEF IInv
<1>1. CASE UNCHANGED syncVars
  BY <1>1 DEF syncVars, IpcSyncTypeOK, CountsMatchPc, LevelsMatchCounts,
              PeerHasFollowed
<1>2. ASSUME NEW c \in Ctrl, SyncStartup(c) PROVE IInv'
  BY <1>2, PeerIsOther
     DEF SyncStartup, IpcSyncTypeOK, CountsMatchPc, LevelsMatchCounts,
         PeerHasFollowed, PcValues, Level, LevelOf
<1>3. ASSUME NEW c \in Ctrl, SyncStartupPass(c) PROVE IInv'
  BY <1>3, PeerIsOther
     DEF SyncStartupPass, IpcSyncTypeOK, CountsMatchPc, LevelsMatchCounts,
         PeerHasFollowed, PcValues, Level, LevelOf
<1>4. ASSUME NEW c \in Ctrl, SyncStartupMiss(c) PROVE IInv'
  BY <1>4 DEF SyncStartupMiss, IpcSyncTypeOK, CountsMatchPc,
              LevelsMatchCounts, PeerHasFollowed, PcValues
<1>5. ASSUME NEW c \in Ctrl, Sync(c) PROVE IInv'
  <2>1. IpcSyncTypeOK' /\ CountsMatchPc'
    BY <1>5 DEF Sync, IpcSyncTypeOK, CountsMatchPc, PcValues
  <2>2. LevelsMatchCounts'
    BY <1>5 DEF Sync, IpcSyncTypeOK, CountsMatchPc, LevelsMatchCounts
  <2>3. PeerHasFollowed'
    BY <1>5, PeerIsOther DEF Sync, IpcSyncTypeOK, PeerHasFollowed
  <2> QED BY <2>1, <2>2, <2>3
<1>6. ASSUME NEW c \in Ctrl, SyncPass(c) PROVE IInv'
  <2>1. IpcSyncTypeOK' /\ CountsMatchPc'
    BY <1>6 DEF SyncPass, IpcSyncTypeOK, CountsMatchPc, PcValues, Level, Toggle
  <2>2. LevelsMatchCounts'
    <3>1. /\ ended[c] + 1 \in Nat /\ ended[c] + 1 >= 2
          /\ ePinExpectedState[c] = LevelOf(ended[c] + 1)
      BY <1>6 DEF SyncPass, IpcSyncTypeOK, CountsMatchPc, LevelsMatchCounts
    <3>2. Toggle(LevelOf(ended[c] + 1)) = LevelOf((ended[c] + 1) + 1)
      BY <3>1, ToggleIsNextLevel
    <3> QED BY <1>6, <3>1, <3>2 DEF SyncPass, IpcSyncTypeOK, LevelsMatchCounts
  <2>3. PeerHasFollowed'
    BY <1>6, PassKeepsPeerHasFollowed
  <2> QED BY <2>1, <2>2, <2>3
<1>7. ASSUME NEW c \in Ctrl, SyncMiss(c) PROVE IInv'
  BY <1>7 DEF SyncMiss, IpcSyncTypeOK, CountsMatchPc, LevelsMatchCounts,
              PeerHasFollowed, PcValues
<1>8. ASSUME NEW c \in Ctrl, SyncTimeout(c) PROVE IInv'
  BY <1>8 DEF SyncTimeout, IpcSyncTypeOK, CountsMatchPc, LevelsMatchCounts,
              PeerHasFollowed, PcValues
<1>9. ASSUME NEW c \in Ctrl, SafetyHandler(c) PROVE IInv'
  BY <1>9 DEF SafetyHandler, IpcSyncTypeOK, CountsMatchPc, LevelsMatchCounts,
              PeerHasFollowed, PcValues
<1> QED
  BY <1>1, <1>2, <1>3, <1>4, <1>5, <1>6, <1>7, <1>8, <1>9 DEF IpcSyncNext

\* It always holds.
LEMMA IInvHolds == IpcSyncSpec => []IInv
<1>1. IpcSyncInit => IInv
  BY InitEstablishesIInv
<1>2. IInv /\ [IpcSyncNext]_syncVars => IInv'
  BY NextKeepsIInv
<1> QED BY <1>1, <1>2, PTL DEF IpcSyncSpec

-----------------------------------------------------------------------------

\* Every variable keeps the values its C type and the protocol allow.
THEOREM TypeCorrect == IpcSyncSpec => []IpcSyncTypeOK
<1>1. IInv => IpcSyncTypeOK
  BY DEF IInv
<1> QED BY <1>1, IInvHolds, PTL

\* A controller gets past a wait only when its peer has come as far, with the
\* one exception of the first ipcsSYS_Sync: whatever the interleaving of the
\* two programs and their polls, and wherever one of them stops.
THEOREM BarrierIsSafe == IpcSyncSpec => []BarrierHolds
<1>1. IInv => BarrierHolds
  BY PeerIsOther DEF IInv, IpcSyncTypeOK, PeerHasFollowed, BarrierHolds
<1> QED BY <1>1, IInvHolds, PTL

\* The pin protocol implements the abstract two-party barrier.
THEOREM ImplementsBarrier == IpcSyncSpec => BarrierSpec
<1>1. IpcSyncInit => Barrier!BarrierInit
  BY DEF IpcSyncInit, Barrier!BarrierInit, Ctrl, Barrier!Ctrl
<1>2. IInv /\ IInv' /\ [IpcSyncNext]_syncVars
        => [Barrier!BarrierNext]_(Barrier!barrierVars)
  <2> SUFFICES ASSUME IInv, IInv', [IpcSyncNext]_syncVars
               PROVE  [Barrier!BarrierNext]_(Barrier!barrierVars)
    OBVIOUS
  <2> USE DEF IInv, IpcSyncTypeOK, CountsMatchPc
  <2>0. Barrier!Ctrl = Ctrl /\ \A c \in Ctrl : Barrier!Peer(c) = Peer(c)
    BY DEF Barrier!Ctrl, Ctrl, Barrier!Peer, Peer
  <2>1. CASE UNCHANGED syncVars
    BY <2>1 DEF syncVars, Barrier!barrierVars
  <2>2. ASSUME NEW c \in Ctrl, SyncStartup(c) \/ Sync(c)
        PROVE  Barrier!Enter(c)
    BY <2>2 DEF SyncStartup, Sync, Barrier!Enter
  <2>3. ASSUME NEW c \in Ctrl, SyncStartupPass(c) \/ SyncPass(c)
        PROVE  Barrier!Leave(c)
    <3>1. begun[Peer(c)] >= Barrier!PeerWait(begun[c])
      <4>1. /\ Peer(c) \in Ctrl /\ begun[Peer(c)] \in Nat /\ begun[c] \in Nat
            /\ begun' = begun /\ ended'[c] = begun[c] /\ begun[c] >= 1
        BY <2>3, PeerIsOther DEF SyncStartupPass, SyncPass
      <4>2. /\ ended'[c] >= 1 => begun'[Peer(c)] >= 1
            /\ ended'[c] >= 3 => begun'[Peer(c)] >= ended'[c]
        BY DEF PeerHasFollowed
      <4> QED BY <4>1, <4>2 DEF Barrier!PeerWait
    <3> QED BY <2>0, <2>3, <3>1 DEF SyncStartupPass, SyncPass, Barrier!Leave
  <2>4. ASSUME NEW c \in Ctrl, SyncTimeout(c) \/ SafetyHandler(c)
        PROVE  Barrier!Stop(c)
    BY <2>4 DEF SyncTimeout, SafetyHandler, Barrier!Stop
  <2>5. ASSUME NEW c \in Ctrl, SyncStartupMiss(c) \/ SyncMiss(c)
        PROVE  UNCHANGED Barrier!barrierVars
    BY <2>5 DEF SyncStartupMiss, SyncMiss, Barrier!barrierVars
  <2> QED
    BY <2>0, <2>1, <2>2, <2>3, <2>4, <2>5 DEF IpcSyncNext, Barrier!BarrierNext
<1> QED
  BY <1>1, <1>2, IInvHolds, PTL DEF IpcSyncSpec, BarrierSpec, Barrier!BarrierSpec

\* As long as polling is prompt, no peer is in a later wait than a controller
\* that waits in its second or a later ipcsSYS_Sync: it would have begun it while
\* the present level released the controller.
PeerNotAhead ==
  prompt => \A c \in Ctrl :
    pc[c] \in {"sync", "syncWait"} /\ begun[c] >= 3 => begun[Peer(c)] <= begun[c]

\* A call of ipcsSYS_Sync, the only step that could put a peer ahead.
LEMMA SyncKeepsPeerNotAhead ==
  ASSUME IInv, PeerNotAhead, NEW d \in Ctrl, Sync(d)
  PROVE  PeerNotAhead'
<1> SUFFICES ASSUME prompt', NEW c \in Ctrl, pc'[c] \in {"sync", "syncWait"}, begun'[c] >= 3
             PROVE  begun'[Peer(c)] <= begun'[c]
  BY DEF PeerNotAhead
<1> DEFINE p == Peer(c)
<1>1. p \in Ctrl /\ p # c /\ Peer(p) = c /\ (d = c \/ d = p)
  BY PeerIsOther
<1>2. /\ begun[c] \in Nat /\ begun[p] \in Nat /\ ended[c] \in Nat /\ ended[p] \in Nat
      /\ begun'[d] = begun[d] + 1
      /\ \A e \in Ctrl : e # d => begun'[e] = begun[e] /\ pc'[e] = pc[e]
  BY <1>1 DEF IInv, IpcSyncTypeOK, Sync
<1>3. CASE d = c
  <2>1. begun[p] <= ended[p] + 1
    <3>1. pc[p] \in PcValues
      BY <1>1 DEF IInv, IpcSyncTypeOK
    <3> QED
      BY <1>1, <1>2, <3>1 DEF IInv, CountsMatchPc, PcValues
  <2>2. ended[p] >= 3 => begun[c] >= ended[p]
    BY <1>1 DEF IInv, PeerHasFollowed
  <2>3. begun'[c] = begun[c] + 1 /\ begun'[p] = begun[p]
    BY <1>1, <1>2, <1>3
  <2> QED
    BY <1>2, <2>1, <2>2, <2>3
<1>4. CASE d = p
  <2>1. begun'[c] = begun[c] /\ pc'[c] = pc[c] /\ begun'[p] = begun[p] + 1
    BY <1>1, <1>2, <1>4
  <2>2. prompt /\ ~PeerIsReleased(p)
    BY <1>4, Zenon DEF Sync
  <2>3. begun[p] <= begun[c]
    BY <2>1, <2>2 DEF PeerNotAhead
  <2>4. pin[p] # ePinExpectedState[c]
    BY <1>1, <2>1, <2>2 DEF PeerIsReleased
  <2>5. pin[p] = LevelOf(begun[p]) /\ ePinExpectedState[c] = LevelOf(begun[c])
    BY <1>1, <2>1 DEF IInv, LevelsMatchCounts, CountsMatchPc
  <2>6. begun[p] # begun[c]
    BY <2>4, <2>5
  <2> QED
    BY <1>2, <2>1, <2>3, <2>6
<1> QED
  BY <1>1, <1>3, <1>4

\* Every step keeps it.
LEMMA NextKeepsPeerNotAhead == IInv /\ PeerNotAhead /\ [IpcSyncNext]_syncVars => PeerNotAhead'
<1> SUFFICES ASSUME IInv, PeerNotAhead, [IpcSyncNext]_syncVars PROVE PeerNotAhead'
  OBVIOUS
<1>1. ASSUME UNCHANGED <<begun, prompt>>,
             \A c \in Ctrl : pc'[c] \in {"sync", "syncWait"} => pc[c] \in {"sync", "syncWait"}
      PROVE  PeerNotAhead'
  BY <1>1 DEF PeerNotAhead
<1>2. ASSUME NEW c \in Ctrl, SyncStartup(c) PROVE PeerNotAhead'
  <2>1. /\ prompt' = prompt /\ begun[c] = 0 /\ begun'[c] = 1 /\ pc'[c] = "startup"
        /\ \A e \in Ctrl : e # c => begun'[e] = begun[e] /\ pc'[e] = pc[e]
        /\ \A e \in Ctrl : begun[e] \in Nat
    BY <1>2 DEF SyncStartup, IInv, IpcSyncTypeOK, CountsMatchPc
  <2> QED
    BY <2>1, PeerIsOther DEF PeerNotAhead
<1>3. ASSUME NEW c \in Ctrl,
             \/ SyncStartupPass(c) \/ SyncStartupMiss(c) \/ SyncPass(c) \/ SyncMiss(c)
             \/ SyncTimeout(c) \/ SafetyHandler(c)
      PROVE  PeerNotAhead'
  <2>1. UNCHANGED <<begun, prompt>>
    BY <1>3 DEF SyncStartupPass, SyncStartupMiss, SyncPass, SyncMiss, SyncTimeout, SafetyHandler
  <2>2. \A d \in Ctrl : pc'[d] \in {"sync", "syncWait"} => pc[d] \in {"sync", "syncWait"}
    BY <1>3 DEF SyncStartupPass, SyncStartupMiss, SyncPass, SyncMiss, SyncTimeout, SafetyHandler,
                IInv, IpcSyncTypeOK
  <2> QED
    BY <1>1, <2>1, <2>2
<1>4. CASE UNCHANGED syncVars
  BY <1>1, <1>4 DEF syncVars
<1> QED
  BY <1>2, <1>3, <1>4, SyncKeepsPeerNotAhead DEF IpcSyncNext

\* While polling is prompt no controller misses the level it waits for, from its
\* second ipcsSYS_Sync on: the two levels are enough to tell the waits apart.
THEOREM PromptPollingMissesNothing == IpcSyncSpec => []NoLevelMissed
<1>1. IpcSyncInit => PeerNotAhead
  BY DEF IpcSyncInit, PeerNotAhead
<1>2. IInv /\ PeerNotAhead => NoLevelMissed
  <2> SUFFICES ASSUME IInv, PeerNotAhead, prompt, NEW c \in Ctrl, begun[c] > 2, LevelMissed(c)
               PROVE  FALSE
    BY DEF NoLevelMissed
  <2>1. begun[c] \in Nat /\ begun[Peer(c)] \in Nat
    BY PeerIsOther DEF IInv, IpcSyncTypeOK
  <2>2. pc[c] \in {"sync", "syncWait"}
    BY <2>1 DEF LevelMissed, Waiting, IInv, CountsMatchPc
  <2>3. begun[Peer(c)] <= begun[c]
    BY <2>1, <2>2 DEF PeerNotAhead
  <2> QED
    BY <2>1, <2>3 DEF LevelMissed
<1> QED
  BY InitEstablishesIInv, NextKeepsIInv, NextKeepsPeerNotAhead, <1>1, <1>2, PTL DEF IpcSyncSpec

-----------------------------------------------------------------------------
(* The exchange: programs *)

\* Call i of a program sends or reads a telegram.
IsSend(calls, i) == i \in 1 .. Len(calls) /\ calls[i].op = "send"
IsGet(calls, i) == i \in 1 .. Len(calls) /\ calls[i].op = "get"

\* Where the programs p fork (beyond their ends if they are equal), and the
\* controller that waits in vain there.
ForkOf(p) == CHOOSE f \in [at : Nat, who : Ctrl] :
  /\ f.at > 0 /\ Forks(p, f.at, f.who)
  /\ p[C1] = p[C2] => Len(p[C1]) + 1 < f.at

\* The number of waits is counted up at each call that is not a read.
LEMMA WaitsStep ==
  ASSUME NEW calls, NEW i \in Nat \ {0}
  PROVE  /\ WaitsBefore(calls, i) \in Nat \ {0}
         /\ i = 1 => WaitsBefore(calls, i) = 1
         /\ calls[i].op = "get" => WaitsBefore(calls, i + 1) = WaitsBefore(calls, i)
         /\ calls[i].op # "get" => WaitsBefore(calls, i + 1) = WaitsBefore(calls, i) + 1
<1> DEFINE Waits(n) == {j \in 1 .. n - 1 : calls[j].op # "get"}
<1>1. ASSUME NEW n \in Nat \ {0} PROVE IsFiniteSet(Waits(n)) /\ Cardinality(Waits(n)) \in Nat
  <2>1. IsFiniteSet(1 .. n - 1)
    BY FS_Interval
  <2>2. IsFiniteSet(Waits(n))
    BY <2>1, FS_Subset
  <2> QED
    BY <2>2, FS_CardinalityType
<1>2. WaitsBefore(calls, i) = 1 + Cardinality(Waits(i))
  BY DEF WaitsBefore
<1>3. WaitsBefore(calls, i + 1) = 1 + Cardinality(Waits(i + 1))
  BY DEF WaitsBefore
<1>4. ASSUME calls[i].op = "get" PROVE WaitsBefore(calls, i + 1) = WaitsBefore(calls, i)
  <2>1. Waits(i + 1) = Waits(i)
    BY <1>4
  <2> HIDE DEF Waits
  <2> QED
    BY <1>2, <1>3, <1>4, <2>1
<1>5. ASSUME calls[i].op # "get" PROVE WaitsBefore(calls, i + 1) = WaitsBefore(calls, i) + 1
  <2>1. Waits(i + 1) = Waits(i) \cup {i} /\ i \notin Waits(i)
    BY <1>5
  <2>2. Cardinality(Waits(i + 1)) = Cardinality(Waits(i)) + 1
    BY <1>1, <2>1, FS_AddElement
  <2>3. Cardinality(Waits(i)) \in Nat
    BY <1>1
  <2> HIDE DEF Waits
  <2> QED
    BY <1>2, <1>3, <1>5, <2>2, <2>3
<1>6. WaitsBefore(calls, i) \in Nat \ {0}
  <2>1. Cardinality(Waits(i)) \in Nat
    BY <1>1
  <2> HIDE DEF Waits
  <2> QED
    BY <1>2, <2>1
<1>7. ASSUME i = 1 PROVE WaitsBefore(calls, i) = 1
  <2>1. Waits(i) = {}
    BY <1>7
  <2> QED
    BY <1>2, <2>1, FS_EmptySet
<1> QED
  BY <1>4, <1>5, <1>6, <1>7

\* It never falls.
LEMMA WaitsGrow ==
  ASSUME NEW calls, NEW i \in Nat \ {0}, NEW j \in Nat \ {0}, i <= j
  PROVE  WaitsBefore(calls, i) <= WaitsBefore(calls, j)
<1> DEFINE Waits(n) == {k \in 1 .. n - 1 : calls[k].op # "get"}
<1>1. IsFiniteSet(1 .. j - 1)
  BY FS_Interval
<1>2. IsFiniteSet(Waits(j))
  BY <1>1, FS_Subset
<1>3. Waits(i) \subseteq Waits(j)
  OBVIOUS
<1>4. IsFiniteSet(Waits(i)) /\ Cardinality(Waits(i)) <= Cardinality(Waits(j))
  BY <1>2, <1>3, FS_Subset
<1>5. Cardinality(Waits(i)) \in Nat /\ Cardinality(Waits(j)) \in Nat
  BY <1>2, <1>4, FS_CardinalityType
<1>6. WaitsBefore(calls, i) = 1 + Cardinality(Waits(i))
  BY DEF WaitsBefore
<1>7. WaitsBefore(calls, j) = 1 + Cardinality(Waits(j))
  BY DEF WaitsBefore
<1> HIDE DEF Waits
<1> QED
  BY <1>4, <1>5, <1>6, <1>7

\* A call that waits, earlier in the program, counts.
LEMMA WaitsCount ==
  ASSUME NEW calls, NEW i \in Nat \ {0}, NEW j \in Nat \ {0}, i < j, calls[i].op # "get"
  PROVE  WaitsBefore(calls, i) + 1 <= WaitsBefore(calls, j)
<1>1. WaitsBefore(calls, i + 1) <= WaitsBefore(calls, j)
  BY WaitsGrow
<1> QED
  BY <1>1, WaitsStep

\* Before the first call only SyncStartup has waited, before any other call of a
\* program more than it.
LEMMA FirstCall ==
  ASSUME NEW calls \in Seq([op : {"sync", "send", "get"}, id : IpcIds]), Exchanges(calls),
         NEW s \in 1 .. Len(calls), s > 1
  PROVE  WaitsBefore(calls, s) >= 2
<1>1. calls[1].op # "get"
  BY DEF Exchanges
<1>2. WaitsBefore(calls, 1) + 1 <= WaitsBefore(calls, s)
  BY <1>1, WaitsCount
<1> QED
  BY <1>2, WaitsStep

\* Programs equal so far have waited as often.
LEMMA WaitsAgree ==
  ASSUME NEW p, NEW q, NEW i \in Nat \ {0}, \A j \in 1 .. i - 1 : p[j] = q[j]
  PROVE  WaitsBefore(p, i) = WaitsBefore(q, i)
<1>1. {j \in 1 .. i - 1 : p[j].op # "get"} = {j \in 1 .. i - 1 : q[j].op # "get"}
  OBVIOUS
<1> QED
  BY <1>1 DEF WaitsBefore

\* Programs fork somewhere.
LEMMA ForkExists ==
  ASSUME NEW p \in Progs
  PROVE  /\ ForkOf(p) \in [at : Nat, who : Ctrl]
         /\ ForkOf(p).at > 0 /\ Forks(p, ForkOf(p).at, ForkOf(p).who)
         /\ p[C1] = p[C2] => Len(p[C1]) + 1 < ForkOf(p).at
<1>0. \A c \in Ctrl : Len(p[c]) \in Nat
  BY ProgsAreCalls, LenProperties
<1>1. C1 \in Ctrl /\ C2 \in Ctrl /\ \A c \in Ctrl : Peer(c) \in Ctrl
  BY DEF Ctrl, Peer
<1>2. \E f \in [at : Nat, who : Ctrl] :
        /\ f.at > 0 /\ Forks(p, f.at, f.who)
        /\ p[C1] = p[C2] => Len(p[C1]) + 1 < f.at
  <2>1. CASE p[C1] = p[C2]
    <3> DEFINE k == Len(p[C1]) + 2
    <3>1. k \in Nat /\ k > 0 /\ Len(p[C1]) + 1 < k
      BY <1>0, <1>1
    <3>2. \A c \in Ctrl : p[c] = p[C1]
      BY <2>1 DEF Ctrl
    <3>3. Forks(p, k, C1)
      <4>1. \A c \in Ctrl : Len(p[c]) + 1 < k
        BY <3>2, <1>0, <1>1
      <4>2. \A i \in k .. Len(p[Peer(C1)]) : FALSE
        BY <3>2, <1>0, <1>1
      <4>3. \A i \in 1 .. k - 1 :
              /\ i <= Len(p[C1]) <=> i <= Len(p[C2])
              /\ i <= Len(p[C1]) => p[C1][i] = p[C2][i]
        BY <2>1
      <4> HIDE DEF k
      <4> QED
        BY <4>1, <4>2, <4>3 DEF Forks
    <3> HIDE DEF k
    <3>4. [at |-> k, who |-> C1] \in [at : Nat, who : Ctrl]
      BY <3>1, <1>1
    <3> WITNESS [at |-> k, who |-> C1] \in [at : Nat, who : Ctrl]
    <3> QED
      BY <3>1, <3>3
  <2>2. CASE p[C1] # p[C2]
    <3>1. PICK k \in 1 .. Len(p[C1]) + 1, x \in Ctrl : Forks(p, k, x)
      BY <2>2, ProgsExchange
    <3>2. k \in Nat /\ k > 0
      BY <1>0, <1>1
    <3> WITNESS [at |-> k, who |-> x] \in [at : Nat, who : Ctrl]
    <3> QED
      BY <2>2, <3>1, <3>2
  <2> QED
    BY <2>1, <2>2
<1> QED
  BY <1>2 DEF ForkOf

-----------------------------------------------------------------------------
(* The inductive invariant *)

\* The call at which the programs fork, the controller that waits in vain there
\* and the other one.
K == ForkOf(prog).at
X == ForkOf(prog).who
Y == Peer(X)

\* What can be on a line or in a buffer.
Copies == [id : IpcIds \cup {"none"}, from : Ctrl \cup {"none"}, at : Nat, ok : BOOLEAN]

\* The values of the variables.
ExTypeOK ==
  /\ prog \in Progs
  /\ step \in [Ctrl -> Nat \ {0}] /\ \A c \in Ctrl : step[c] <= Len(prog[c]) + 1
  /\ phase \in [Ctrl -> {"entry", "armed", "transmit", "await"}]
  /\ rx \in [Ctrl -> [need : 0 .. 3, buf : Seq(Copies), armedAt : Nat]]
  /\ \A c \in Ctrl : rx[c].need + Len(rx[c].buf) >= 2
  /\ line \in [Ctrl -> Seq(Copies)]
  /\ got \in [Ctrl -> [copy : Copies, armedAt : Nat]]

\* Waits that c has begun before its present call.
Waited(c) == WaitsBefore(prog[c], step[c])

\* The waits begun and ended tell how far a program has come.
WaitsOf(c) ==
  /\ pc[c] \in {"init", "startup", "startupWait"} => step[c] = 1 /\ phase[c] = "entry"
  /\ pc[c] = "run" /\ phase[c] # "transmit" => begun[c] = Waited(c)
  /\ pc[c] \in {"sync", "syncWait"} => begun[c] = Waited(c) + 1 /\ phase[c] \in {"entry", "armed"}
  /\ phase[c] \in {"armed", "transmit"} => IsSend(prog[c], step[c])
  /\ phase[c] = "await" => IsGet(prog[c], step[c])
  /\ \/ begun[c] <= Waited(c)
     \/ /\ begun[c] = Waited(c) + 1
        /\ step[c] <= Len(prog[c]) /\ ~IsGet(prog[c], step[c])
        /\ IsSend(prog[c], step[c]) => phase[c] \in {"armed", "transmit"}
  /\ step[c] > 1 => ended[c] >= Waited(c)
  /\ phase[c] = "transmit" => begun[c] = Waited(c) + 1 /\ ended[c] = Waited(c) + 1

\* The DMA is armed for the last send.
ArmedOf(c) ==
  /\ phase[c] \in {"armed", "transmit"} => rx[c].armedAt = step[c]
  /\ phase[c] \notin {"armed", "transmit"} => rx[c].armedAt < step[c]
  /\ rx[c].armedAt # 0 => IsSend(prog[c], rx[c].armedAt)
  /\ \A i \in 1 .. step[c] - 1 : IsSend(prog[c], i) => i <= rx[c].armedAt

\* Behind the fork X waits in vain, and Y never sends.
ForkInv ==
  /\ \A g \in K .. Len(prog[X]) : WaitsInVain(prog, K, X, g) => step[X] <= g
  /\ \A i \in K .. Len(prog[Y]) : IsSend(prog[Y], i) =>
       step[Y] <= i /\ (step[Y] = i => phase[Y] # "transmit")

\* What c has read before the fork its peer has sent.
ReadOf(c) ==
  \A i \in 1 .. K - 1 : \A g \in i + 1 .. step[c] - 1 :
    IsSend(prog[c], i) /\ IsGet(prog[c], g) => i < step[Peer(c)]

\* The copy of the telegram that c sends in call i.
Sent(p, c, i) == [id |-> p[c][i].id, from |-> c, at |-> i, ok |-> TRUE]

\* A program has read between its calls a and s.
ReadAfter(calls, a, s) == \E g \in a + 1 .. s - 1 : IsGet(calls, g)
HasRead(d) == ReadAfter(prog[d], rx[d].armedAt, step[d])

\* The channel to d before d has armed its DMA for the first time: only the first
\* telegram can be in it.
Unarmed(d) ==
  /\ rx[d].need + Len(rx[d].buf) = 3
  /\ Len(rx[d].buf) + Len(line[d]) <= 2
  /\ Len(rx[d].buf) + Len(line[d]) # 0 => step[Peer(d)] > 1 /\ IsSend(prog[Peer(d)], 1)
  /\ \A i \in 1 .. Len(line[d]) : line[d][i] = Sent(prog, Peer(d), 1)

\* Armed before its peer sends.
Fresh(d) ==
  /\ rx[d].need = 2 /\ rx[d].buf = <<>> /\ line[d] = <<>> /\ ~HasRead(d)

\* Since its peer has sent.
Receives(d) ==
  /\ rx[d].need + Len(rx[d].buf) = 2
  /\ Len(line[d]) <= rx[d].need
  /\ \A i \in 1 .. Len(line[d]) : line[d][i] = Sent(prog, Peer(d), rx[d].armedAt)
  /\ \A i \in 1 .. Len(rx[d].buf) :
       rx[d].buf[i].ok => rx[d].buf[i].at = rx[d].armedAt /\ rx[d].buf[i].from \in Ctrl
  /\ HasRead(d) => rx[d].need = 0

\* The peer of d has not sent the telegram that d has armed its DMA for.
Early(d) == rx[d].armedAt >= K \/ rx[d].armedAt >= step[Peer(d)]

\* Y has come to the fork: what X sends there it does not read.
Served(d) == step[d] < K \/ d = X

ChannelOf(d) ==
  Served(d) =>
    /\ rx[d].armedAt = 0 => Unarmed(d)
    /\ rx[d].armedAt # 0 /\ Early(d) => Fresh(d)
    /\ rx[d].armedAt # 0 /\ ~Early(d) => Receives(d)

\* The inductive invariant of the exchange.
ExInv ==
  /\ IInv /\ ExTypeOK /\ ForkInv
  /\ \A c \in Ctrl : WaitsOf(c) /\ ArmedOf(c) /\ ReadOf(c) /\ ChannelOf(c)

\* The fork of the programs, and the programs before it.
LEMMA ForkFacts ==
  ASSUME ExTypeOK
  PROVE  /\ K \in Nat \ {0} /\ X \in Ctrl /\ Y \in Ctrl /\ X # Y /\ Peer(Y) = X
         /\ Forks(prog, K, X)
         /\ prog[C1] = prog[C2] => Len(prog[C1]) + 1 < K
<1>1. prog \in Progs
  BY DEF ExTypeOK
<1> QED
  BY <1>1, ForkExists, PeerIsOther DEF K, X, Y

\* Programs are sequences of calls, each telegram read before the next is sent.
LEMMA ProgFacts ==
  ASSUME ExTypeOK, NEW c \in Ctrl
  PROVE  /\ prog[c] \in Seq([op : {"sync", "send", "get"}, id : IpcIds])
         /\ Len(prog[c]) \in Nat
         /\ Exchanges(prog[c])
         /\ step[c] \in 1 .. Len(prog[c]) + 1
<1>1. prog \in Progs /\ step[c] \in Nat \ {0} /\ step[c] <= Len(prog[c]) + 1
  BY DEF ExTypeOK
<1>2. prog[c] \in Seq([op : {"sync", "send", "get"}, id : IpcIds])
  BY <1>1, ProgsAreCalls
<1>3. Len(prog[c]) \in Nat
  BY <1>2, LenProperties
<1> QED
  BY <1>1, <1>2, <1>3, ProgsExchange

\* Before the fork both controllers make the same calls.
LEMMA SameCalls ==
  ASSUME ExTypeOK, NEW c \in Ctrl, NEW d \in Ctrl, NEW i \in 1 .. K - 1, i <= Len(prog[c])
  PROVE  i <= Len(prog[d]) /\ prog[c][i] = prog[d][i]
<1>1. Forks(prog, K, X)
  BY ForkFacts
<1>2. /\ i <= Len(prog[C1]) <=> i <= Len(prog[C2])
      /\ i <= Len(prog[C1]) => prog[C1][i] = prog[C2][i]
  BY <1>1 DEF Forks
<1> QED
  BY <1>2 DEF Ctrl

\* And have begun as many waits before them.
LEMMA SameWaits ==
  ASSUME ExTypeOK, NEW c \in Ctrl, NEW d \in Ctrl, NEW i \in 1 .. K, i <= Len(prog[c]) + 1
  PROVE  WaitsBefore(prog[c], i) = WaitsBefore(prog[d], i)
<1>0. K \in Nat \ {0} /\ Len(prog[c]) \in Nat
  BY ForkFacts, ProgFacts
<1>1. ASSUME NEW j \in 1 .. i - 1 PROVE prog[c][j] = prog[d][j]
  <2>1. j \in 1 .. K - 1 /\ j <= Len(prog[c])
    BY <1>0
  <2> QED
    BY <2>1, SameCalls
<1>2. i \in Nat \ {0}
  BY <1>0
<1> QED
  BY <1>1, <1>2, WaitsAgree

\* The values of the counters.
LEMMA CountFacts ==
  ASSUME IInv, ExTypeOK, NEW c \in Ctrl
  PROVE  /\ begun[c] \in Nat /\ ended[c] \in Nat /\ ended[c] <= begun[c] /\ begun[c] <= ended[c] + 1
         /\ Waited(c) \in Nat \ {0}
         /\ pc[c] = "run" => begun[c] = ended[c]
<1>1. Waited(c) \in Nat \ {0}
  BY ProgFacts, WaitsStep DEF Waited
<1>2. pc[c] \in PcValues /\ begun[c] \in Nat /\ ended[c] \in Nat
  BY DEF IInv, IpcSyncTypeOK
<1> QED
  BY <1>1, <1>2 DEF IInv, CountsMatchPc, PcValues

\* A controller that has begun the wait of call s has come to it.
LEMMA HasBegun ==
  ASSUME IInv, ExTypeOK, NEW c \in Ctrl, WaitsOf(c), NEW s \in Nat \ {0},
         begun[c] >= WaitsBefore(prog[c], s) + 1
  PROVE  \/ step[c] > s
         \/ /\ step[c] = s /\ s <= Len(prog[c]) /\ ~IsGet(prog[c], s)
            /\ IsSend(prog[c], s) => phase[c] \in {"armed", "transmit"}
<1>0. step[c] \in Nat \ {0} /\ step[c] \in 1 .. Len(prog[c]) + 1 /\ Len(prog[c]) \in Nat
  BY ProgFacts
<1>1. /\ WaitsBefore(prog[c], s) \in Nat \ {0} /\ Waited(c) \in Nat \ {0}
      /\ begun[c] \in Nat
  BY CountFacts, WaitsStep
<1>2. \/ begun[c] <= Waited(c)
      \/ /\ begun[c] = Waited(c) + 1
         /\ step[c] <= Len(prog[c]) /\ ~IsGet(prog[c], step[c])
         /\ IsSend(prog[c], step[c]) => phase[c] \in {"armed", "transmit"}
  BY DEF WaitsOf
<1>3. CASE step[c] < s
  <2>1. Waited(c) <= WaitsBefore(prog[c], s)
    BY <1>0, <1>3, WaitsGrow DEF Waited
  <2>2. ~IsGet(prog[c], step[c]) /\ step[c] <= Len(prog[c])
    BY <1>1, <1>2, <2>1
  <2>3. prog[c][step[c]].op # "get"
    BY <1>0, <2>2 DEF IsGet
  <2>4. Waited(c) + 1 <= WaitsBefore(prog[c], s)
    BY <1>0, <1>3, <2>3, WaitsCount DEF Waited
  <2> QED
    BY <1>1, <1>2, <2>4
<1>4. CASE step[c] = s
  <2>1. Waited(c) = WaitsBefore(prog[c], s)
    BY <1>4 DEF Waited
  <2> QED
    BY <1>1, <1>2, <1>4, <2>1
<1> QED
  BY <1>0, <1>3, <1>4

-----------------------------------------------------------------------------
(* What sender and receiver know of each other *)

\* The synchronisation inside ipcxSYS_SendBuffer: a controller that is about to
\* send, in any but its first call, has a peer that has begun the same wait.
LEMMA PeerHasBegun ==
  ASSUME IInv, ExTypeOK, NEW c \in Ctrl, step[c] <= Len(prog[c]), step[c] > 1,
         ended[c] = Waited(c) + 1
  PROVE  begun[Peer(c)] >= Waited(c) + 1
<1>0. /\ prog[c] \in Seq([op : {"sync", "send", "get"}, id : IpcIds]) /\ Exchanges(prog[c])
      /\ step[c] \in 1 .. Len(prog[c])
  <2>1. Len(prog[c]) \in Nat /\ step[c] \in 1 .. Len(prog[c]) + 1
    BY ProgFacts
  <2>2. step[c] \in 1 .. Len(prog[c])
    BY <2>1
  <2> QED
    BY <2>2, ProgFacts
<1>1. Waited(c) >= 2
  BY <1>0, FirstCall DEF Waited
<1>2. ended[c] \in Nat /\ Waited(c) \in Nat
  BY CountFacts
<1>3. ended[c] >= 3
  BY <1>1, <1>2
<1> QED
  BY <1>3 DEF IInv, PeerHasFollowed

\* A controller that reads has sent before, and what it may have to wait for in
\* vain it does not come to.
LEMMA ReaderIsServed ==
  ASSUME ExTypeOK, ForkInv, NEW d \in Ctrl, ArmedOf(d), IsGet(prog[d], step[d])
  PROVE  Served(d) /\ rx[d].armedAt # 0
<1>0. /\ step[d] \in 1 .. Len(prog[d]) + 1 /\ Len(prog[d]) \in Nat /\ Exchanges(prog[d])
      /\ K \in Nat \ {0} /\ X \in Ctrl /\ Forks(prog, K, X)
      /\ d = X \/ d = Y
  BY ProgFacts, ForkFacts, PeerIsOther DEF Y
<1>1. rx[d].armedAt # 0
  <2>1. PICK j \in 1 .. step[d] - 1 : prog[d][j].op = "send"
    BY <1>0 DEF IsGet, Exchanges
  <2>2. IsSend(prog[d], j) /\ j > 0
    BY <1>0, <2>1 DEF IsSend
  <2>3. j <= rx[d].armedAt
    BY <2>2 DEF ArmedOf
  <2> QED
    BY <1>0, <2>2, <2>3
<1>2. ASSUME d = Y, step[d] >= K PROVE FALSE
  <2>1. step[d] \in K .. Len(prog[Y]) /\ prog[Y][step[d]].op = "get"
    BY <1>0, <1>2 DEF IsGet
  <2>2. PICK j \in K .. step[d] - 1 : prog[Y][j].op = "send"
    BY <1>0, <2>1 DEF Forks, Y
  <2>3. j \in K .. Len(prog[Y]) /\ IsSend(prog[Y], j)
    BY <1>0, <1>2, <2>1, <2>2 DEF IsSend
  <2>4. step[Y] <= j
    BY <2>3 DEF ForkInv
  <2> QED
    BY <1>0, <1>2, <2>2, <2>4
<1> QED
  BY <1>0, <1>1, <1>2 DEF Served

\* A controller whose DMA has taken two copies since it was armed gets the
\* telegram that its peer has sent in the same call.
LEMMA ReadsReceived ==
  ASSUME ExTypeOK, ForkInv, NEW d \in Ctrl, ArmedOf(d), ChannelOf(d),
         IsGet(prog[d], step[d]), rx[d].need = 0
  PROVE  Served(d) /\ rx[d].armedAt # 0 /\ ~Early(d) /\ Receives(d)
<1>1. Served(d) /\ rx[d].armedAt # 0
  BY ReaderIsServed
<1>2. ~Fresh(d)
  BY DEF Fresh
<1> QED
  BY <1>1, <1>2 DEF ChannelOf

\* A controller that is about to send behind the fork is X, and Y has come there.
LEMMA SendsBehindFork ==
  ASSUME IInv, ExTypeOK, ForkInv, NEW c \in Ctrl, WaitsOf(c), WaitsOf(Peer(c)),
         phase[c] = "transmit", step[c] >= K
  PROVE  ~Served(Peer(c))
<1> DEFINE d == Peer(c)  s == step[c]
<1>0. /\ s \in 1 .. Len(prog[c]) + 1 /\ Len(prog[c]) \in Nat
      /\ d \in Ctrl /\ d # c /\ ((c = X /\ d = Y) \/ (c = Y /\ d = X))
      /\ K \in Nat \ {0} /\ X # Y
  <2>1. X \in Ctrl /\ Y = Peer(X) /\ K \in Nat \ {0} /\ X # Y /\ Peer(Y) = X
    BY ForkFacts DEF Y
  <2>2. c = X \/ c = Y
    BY <2>1, PeerIsOther
  <2>3. d \in Ctrl /\ d # c
    BY PeerIsOther
  <2>4. s \in 1 .. Len(prog[c]) + 1 /\ Len(prog[c]) \in Nat
    BY ProgFacts
  <2> QED
    BY <2>1, <2>2, <2>3, <2>4
<1>1. IsSend(prog[c], s) /\ ended[c] = Waited(c) + 1
  BY DEF WaitsOf
<1>2. s <= Len(prog[c])
  BY <1>0, <1>1 DEF IsSend
<1>3. c = X
  <2>1. ASSUME c = Y PROVE FALSE
    <3>1. s \in K .. Len(prog[Y])
      BY <1>0, <1>2, <2>1
    <3> QED
      BY <1>1, <2>1, <3>1 DEF ForkInv
  <2> QED
    BY <1>0, <2>1
<1>4. ASSUME step[d] < K PROVE FALSE
  <2>0. step[d] \in Nat \ {0} /\ Len(prog[d]) \in Nat
    BY <1>0, ProgFacts
  <2>1. s > 1
    BY <1>0, <1>4, <2>0
  <2>2. begun[d] >= Waited(c) + 1
    BY <1>1, <1>2, <2>1, PeerHasBegun
  <2>3. WaitsBefore(prog[c], K) <= Waited(c)
    BY <1>0, WaitsGrow DEF Waited
  <2>4. WaitsBefore(prog[c], K) = WaitsBefore(prog[d], K)
    BY <1>0, <1>2, SameWaits
  <2>5. WaitsBefore(prog[d], K) \in Nat /\ Waited(c) \in Nat /\ begun[d] \in Nat
    BY <1>0, WaitsStep, CountFacts
  <2>6. begun[d] >= WaitsBefore(prog[d], K) + 1
    BY <2>2, <2>3, <2>4, <2>5
  <2>7. step[d] > K \/ step[d] = K
    BY <1>0, <2>6, HasBegun
  <2> QED
    BY <1>0, <1>4, <2>0, <2>7
<1>5. step[d] \in Nat
  BY <1>0, ProgFacts
<1> QED
  BY <1>0, <1>3, <1>4, <1>5 DEF Served

\* A controller that is about to send before the fork has a peer that has armed
\* its DMA for this very telegram and still waits for it, or it is the first.
LEMMA SendsToArmed ==
  ASSUME IInv, ExTypeOK, ForkInv, NEW c \in Ctrl, WaitsOf(c), WaitsOf(Peer(c)),
         ArmedOf(Peer(c)), ReadOf(Peer(c)), phase[c] = "transmit", step[c] < K
  PROVE  \/ rx[Peer(c)].armedAt = step[c]
         \/ rx[Peer(c)].armedAt = 0 /\ step[c] = 1
<1> DEFINE d == Peer(c)  s == step[c]  a == rx[d].armedAt
<1>0. /\ s \in 1 .. Len(prog[c]) + 1 /\ Len(prog[c]) \in Nat /\ s \in Nat \ {0}
      /\ d \in Ctrl /\ Peer(d) = c
      /\ K \in Nat \ {0} /\ Exchanges(prog[d])
      /\ step[d] \in Nat \ {0} /\ Len(prog[d]) \in Nat
  BY ProgFacts, ForkFacts, PeerIsOther
<1>a. a \in Nat
  BY <1>0 DEF ExTypeOK
<1>1. IsSend(prog[c], s) /\ ended[c] = Waited(c) + 1
  BY DEF WaitsOf
<1>2. s <= Len(prog[c])
  BY <1>0, <1>1 DEF IsSend
<1>3. IsSend(prog[d], s)
  BY <1>0, <1>1, <1>2, SameCalls DEF IsSend
<1>4. ASSUME s > 1 PROVE a >= s
  <2>1. begun[d] >= Waited(c) + 1
    BY <1>1, <1>2, <1>4, PeerHasBegun
  <2>2. Waited(c) = WaitsBefore(prog[d], s)
    BY <1>0, SameWaits DEF Waited
  <2>3. begun[d] >= WaitsBefore(prog[d], s) + 1
    BY <2>1, <2>2
  <2>4. \/ step[d] > s
        \/ step[d] = s /\ phase[d] \in {"armed", "transmit"}
    BY <1>0, <1>3, <2>3, HasBegun
  <2> HIDE DEF s, d, a
  <2> QED
    BY <1>0, <1>a, <1>3, <2>4 DEF ArmedOf, a, d
<1>5. ASSUME a > s PROVE FALSE
  <2>1. IsSend(prog[d], a)
    BY <1>0, <1>a, <1>5 DEF ArmedOf
  <2>2. a <= step[d]
    BY <1>0, <1>a DEF ArmedOf
  <2>3. PICK g \in s + 1 .. a - 1 : prog[d][g].op = "get"
    BY <1>3, <1>5, <2>1, <1>0 DEF Exchanges, IsSend
  <2>4. g \in s + 1 .. step[d] - 1 /\ IsGet(prog[d], g)
    BY <1>0, <1>a, <2>1, <2>2, <2>3 DEF IsGet, IsSend
  <2>5. s \in 1 .. K - 1
    BY <1>0
  <2>6. s < step[Peer(d)]
    BY <1>3, <2>4, <2>5 DEF ReadOf
  <2> QED
    BY <1>0, <2>6
<1> HIDE DEF s, a
<1> QED
  BY <1>0, <1>a, <1>4, <1>5 DEF s, a

-----------------------------------------------------------------------------
(* What a step changes *)

\* A step of controller c, of its hardware, or of the line to it.
StepOf(c) == Software(c) \/ CopyArrives(c) \/ CopyFails(c)

\* Each step is one of the synchronisation or leaves that alone.
LEMMA SyncSteps ==
  ASSUME NEW c \in Ctrl, StepOf(c)
  PROVE  [IpcSyncNext]_syncVars
<1>1. CASE Startup(c)
  BY <1>1 DEF Startup, IpcSyncNext
<1>2. CASE CallSync(c)
  BY <1>2 DEF CallSync, IpcSyncNext
<1>3. CASE PollSync(c)
  BY <1>3 DEF PollSync, IpcSyncNext
<1>4. CASE ReturnFromSync(c)
  BY <1>4 DEF ReturnFromSync, IpcSyncNext
<1>5. CASE FailInSync(c)
  BY <1>5 DEF FailInSync, IpcSyncNext
<1>6. CASE FailElsewhere(c)
  BY <1>6 DEF FailElsewhere, IpcSyncNext
<1>7. ASSUME NEW why, pc[c] = "run", Fail(c, why) PROVE IpcSyncNext
  BY <1>7 DEF Fail, SafetyHandler, IpcSyncNext
<1>8. CASE ReceiveTimeout(c)
  BY <1>7, <1>8 DEF ReceiveTimeout, At
<1>9. CASE RejectTelegram(c)
  <2>1. pc[c] = "run"
    BY <1>9 DEF RejectTelegram, Reading, At
  <2>2. Fail(c, "crc") \/ Fail(c, "controllerId") \/ Fail(c, "ipcId")
    BY <1>9 DEF RejectTelegram
  <2> QED
    BY <2>1, <2>2, <1>7
<1>10. CASE ArmRxDma(c) \/ Transmit(c) \/ Busy(c) \/ GetBuffer(c) \/ CopyArrives(c) \/ CopyFails(c)
  BY <1>10 DEF ArmRxDma, Transmit, Busy, GetBuffer, CopyArrives, CopyFails
<1> QED
  BY <1>1, <1>2, <1>3, <1>4, <1>5, <1>6, <1>8, <1>9, <1>10 DEF StepOf, Software

\* Steps of c that go on to another call or another part of one, or move copies.
Moves(c) ==
  \/ ReturnFromSync(c) \/ ArmRxDma(c) \/ Transmit(c) \/ Busy(c) \/ GetBuffer(c)
  \/ RejectTelegram(c) \/ CopyArrives(c) \/ CopyFails(c)

\* All other steps.
LEMMA OtherSteps ==
  ASSUME NEW c \in Ctrl, StepOf(c)
  PROVE  Moves(c) \/ UNCHANGED <<prog, step, phase, rx, line, got>>
<1>1. CASE Startup(c) \/ CallSync(c) \/ PollSync(c)
  BY <1>1 DEF Startup, CallSync, PollSync, exVars
<1>2. CASE FailInSync(c) \/ FailElsewhere(c) \/ ReceiveTimeout(c)
  BY <1>2 DEF FailInSync, FailElsewhere, ReceiveTimeout
<1> QED
  BY <1>1, <1>2 DEF StepOf, Software, Moves

\* A step of c leaves the other controller alone, but for what c sends to it.
LEMMA OthersKeep ==
  ASSUME IInv, ExTypeOK, NEW c \in Ctrl, StepOf(c), NEW d \in Ctrl, d # c
  PROVE  /\ prog' = prog
         /\ pc'[d] = pc[d] /\ begun'[d] = begun[d] /\ ended'[d] = ended[d]
         /\ step'[d] = step[d] /\ phase'[d] = phase[d] /\ rx'[d] = rx[d] /\ got'[d] = got[d]
         /\ ~Transmit(c) => line'[d] = line[d]
<1>1. /\ pc \in [Ctrl -> PcValues] /\ begun \in [Ctrl -> Nat] /\ ended \in [Ctrl -> Nat]
      /\ DOMAIN step = Ctrl /\ DOMAIN phase = Ctrl /\ DOMAIN rx = Ctrl /\ DOMAIN got = Ctrl
      /\ DOMAIN line = Ctrl
  BY DEF IInv, IpcSyncTypeOK, ExTypeOK
<1>2. pc'[d] = pc[d] /\ begun'[d] = begun[d] /\ ended'[d] = ended[d]
  <2>1. CASE Startup(c)
    BY <1>1, <2>1 DEF Startup, SyncStartup, SyncStartupPass, SyncStartupMiss
  <2>2. CASE CallSync(c) \/ PollSync(c)
    BY <1>1, <2>2 DEF CallSync, Sync, PollSync, SyncMiss
  <2>3. CASE ReturnFromSync(c)
    BY <1>1, <2>3 DEF ReturnFromSync, SyncPass
  <2>4. CASE FailInSync(c) \/ FailElsewhere(c)
    BY <1>1, <2>4 DEF FailInSync, FailElsewhere, SyncTimeout, SafetyHandler
  <2>5. CASE ReceiveTimeout(c)
    BY <1>1, <2>5 DEF ReceiveTimeout, Fail
  <2>6. CASE RejectTelegram(c)
    BY <1>1, <2>6 DEF RejectTelegram, Fail
  <2>7. CASE ArmRxDma(c) \/ Transmit(c) \/ Busy(c) \/ GetBuffer(c) \/ CopyArrives(c) \/ CopyFails(c)
    BY <2>7 DEF ArmRxDma, Transmit, Busy, GetBuffer, CopyArrives, CopyFails, syncVars
  <2> QED
    BY <2>1, <2>2, <2>3, <2>4, <2>5, <2>6, <2>7 DEF StepOf, Software
<1>3. CASE UNCHANGED <<prog, step, phase, rx, line, got>>
  BY <1>2, <1>3
<1>4. CASE ReturnFromSync(c)
  BY <1>1, <1>2, <1>4 DEF ReturnFromSync, NextCall
<1>5. CASE ArmRxDma(c) \/ Busy(c)
  BY <1>1, <1>2, <1>5 DEF ArmRxDma, Busy
<1>6. CASE Transmit(c)
  BY <1>1, <1>2, <1>6 DEF Transmit, NextCall
<1>7. CASE GetBuffer(c) \/ RejectTelegram(c)
  BY <1>1, <1>2, <1>7 DEF GetBuffer, RejectTelegram, NextCall, ClearRx
<1>8. CASE CopyArrives(c)
  BY <1>1, <1>2, <1>8 DEF CopyArrives, DmaTakes
<1>9. CASE CopyFails(c)
  BY <1>1, <1>2, <1>9 DEF CopyFails, DmaTakes
<1> QED
  BY <1>3, <1>4, <1>5, <1>6, <1>7, <1>8, <1>9, OtherSteps DEF Moves

\* A copy taken is appended and counted.
LEMMA DmaEffect ==
  ASSUME ExTypeOK, NEW c \in Ctrl, NEW copy, DmaTakes(c, copy)
  PROVE  \/ rx[c].need = 0 /\ UNCHANGED rx
         \/ /\ rx[c].need # 0
            /\ rx' = [rx EXCEPT ![c] = [need |-> rx[c].need - 1, buf |-> Append(rx[c].buf, copy),
                                       armedAt |-> rx[c].armedAt]]
<1>1. /\ rx \in [Ctrl -> [need : 0 .. 3, buf : Seq(Copies), armedAt : Nat]]
      /\ rx[c] \in [need : 0 .. 3, buf : Seq(Copies), armedAt : Nat]
  BY DEF ExTypeOK
<1>2. CASE rx[c].need = 0
  BY <1>2 DEF DmaTakes
<1>3. CASE rx[c].need # 0
  <2>1. rx' = [rx EXCEPT ![c].need = @ - 1, ![c].buf = Append(@, copy)]
    BY <1>3 DEF DmaTakes
  <2> QED
    BY <1>1, <1>3, <2>1
<1> QED
  BY <1>2, <1>3

\* How far a step brings the program of c: from one call or part of it to the next.
Stays(c) ==
  step'[c] = step[c] /\ phase'[c] = phase[c] /\ rx'[c].armedAt = rx[c].armedAt
Arms(c) ==
  /\ IsSend(prog[c], step[c]) /\ phase[c] = "entry"
  /\ step'[c] = step[c] /\ phase'[c] = "armed" /\ rx'[c].armedAt = step[c]
Readies(c) ==
  /\ IsSend(prog[c], step[c]) /\ phase[c] = "armed" /\ ended'[c] = Waited(c) + 1
  /\ step'[c] = step[c] /\ phase'[c] = "transmit" /\ rx'[c].armedAt = rx[c].armedAt
Sends(c) ==
  /\ IsSend(prog[c], step[c]) /\ phase[c] = "transmit"
  /\ step'[c] = step[c] + 1 /\ phase'[c] = "entry" /\ rx'[c].armedAt = rx[c].armedAt
Passes(c) ==
  /\ step[c] <= Len(prog[c]) /\ ~IsSend(prog[c], step[c]) /\ ~IsGet(prog[c], step[c])
  /\ phase[c] = "entry"
  /\ step'[c] = step[c] + 1 /\ phase'[c] = "entry" /\ rx'[c].armedAt = rx[c].armedAt
Polls(c) ==
  /\ IsGet(prog[c], step[c]) /\ phase[c] = "entry"
  /\ step'[c] = step[c] /\ phase'[c] = "await" /\ rx'[c].armedAt = rx[c].armedAt
Reads(c) ==
  /\ IsGet(prog[c], step[c]) /\ phase[c] \in {"entry", "await"} /\ rx[c].need = 0
  /\ step'[c] = step[c] + 1 /\ phase'[c] = "entry" /\ rx'[c].armedAt = rx[c].armedAt

\* There are no others.
LEMMA ProgramSteps ==
  ASSUME IInv, ExTypeOK, NEW c \in Ctrl, WaitsOf(c), StepOf(c)
  PROVE  /\ \/ Stays(c) \/ Arms(c) \/ Readies(c) \/ Sends(c) \/ Passes(c) \/ Polls(c) \/ Reads(c)
         /\ prog' = prog
<1>1. /\ DOMAIN step = Ctrl /\ DOMAIN phase = Ctrl /\ DOMAIN rx = Ctrl /\ step[c] \in Nat \ {0}
      /\ rx[c] \in [need : 0 .. 3, buf : Seq(Copies), armedAt : Nat]
      /\ begun[c] \in Nat /\ ended[c] \in Nat /\ Waited(c) \in Nat /\ DOMAIN ended = Ctrl
      /\ Len(prog[c]) \in Nat
  BY CountFacts, ProgFacts DEF ExTypeOK, IInv, IpcSyncTypeOK
<1>2. CASE UNCHANGED <<prog, step, phase, rx, line, got>>
  BY <1>2 DEF Stays
<1>3. CASE ReturnFromSync(c)
  <2>1. /\ begun[c] = Waited(c) + 1 /\ phase[c] \in {"entry", "armed"} /\ ended'[c] = ended[c] + 1
        /\ ended[c] + 1 = begun[c]
    BY <1>1, <1>3 DEF ReturnFromSync, SyncPass, WaitsOf, IInv, CountsMatchPc
  <2>2. /\ step[c] <= Len(prog[c]) /\ ~IsGet(prog[c], step[c])
        /\ IsSend(prog[c], step[c]) => phase[c] \in {"armed", "transmit"}
    BY <1>1, <2>1 DEF WaitsOf
  <2>3. CASE phase[c] = "armed"
    <3>1. IsSend(prog[c], step[c])
      BY <2>3 DEF WaitsOf
    <3> QED
      BY <1>1, <1>3, <2>1, <2>3, <3>1 DEF ReturnFromSync, Readies
  <2>4. CASE phase[c] = "entry"
    BY <1>1, <1>3, <2>2, <2>4 DEF ReturnFromSync, NextCall, Passes
  <2> QED
    BY <2>1, <2>3, <2>4
<1>4. CASE ArmRxDma(c)
  BY <1>1, <1>4 DEF ArmRxDma, At, Arms, IsSend
<1>5. CASE Transmit(c)
  BY <1>1, <1>5 DEF Transmit, At, NextCall, Sends, IsSend
<1>6. CASE Busy(c)
  BY <1>1, <1>6 DEF Busy, At, Polls, IsGet
<1>7. CASE GetBuffer(c)
  BY <1>1, <1>7 DEF GetBuffer, Reading, At, NextCall, ClearRx, Reads, IsGet
<1>8. CASE RejectTelegram(c)
  BY <1>1, <1>8 DEF RejectTelegram, ClearRx, Stays
<1>9. CASE CopyArrives(c)
  BY <1>1, <1>9 DEF CopyArrives, DmaTakes, Stays
<1>10. CASE CopyFails(c)
  BY <1>1, <1>10 DEF CopyFails, DmaTakes, Stays
<1> QED
  BY <1>2, <1>3, <1>4, <1>5, <1>6, <1>7, <1>8, <1>9, <1>10, OtherSteps DEF Moves

-----------------------------------------------------------------------------
(* Steps keep the invariant *)

\* The bytes on the line and in the buffers are copies of telegrams.
LEMMA KeepsTypes ==
  ASSUME IInv, ExTypeOK, NEW c \in Ctrl, WaitsOf(c), StepOf(c)
  PROVE  ExTypeOK'
<1>1. /\ prog \in Progs /\ step \in [Ctrl -> Nat \ {0}]
      /\ phase \in [Ctrl -> {"entry", "armed", "transmit", "await"}]
      /\ rx \in [Ctrl -> [need : 0 .. 3, buf : Seq(Copies), armedAt : Nat]]
      /\ line \in [Ctrl -> Seq(Copies)]
      /\ got \in [Ctrl -> [copy : Copies, armedAt : Nat]]
      /\ \A e \in Ctrl : step[e] <= Len(prog[e]) + 1 /\ Len(prog[e]) \in Nat /\ step[e] \in Nat \ {0}
      /\ Peer(c) \in Ctrl
  BY ProgFacts, PeerIsOther DEF ExTypeOK
<1>2. prog' = prog
  BY ProgramSteps
<1>3. step' \in [Ctrl -> Nat \ {0}] /\ \A e \in Ctrl : step'[e] <= Len(prog'[e]) + 1
  <2>1. step' = step \/ step' = [step EXCEPT ![c] = @ + 1]
    <3>1. CASE UNCHANGED step
      BY <3>1
    <3>2. CASE ReturnFromSync(c) \/ Transmit(c) \/ GetBuffer(c)
      BY <3>2 DEF ReturnFromSync, Transmit, GetBuffer, NextCall
    <3>3. CASE ArmRxDma(c) \/ Busy(c) \/ RejectTelegram(c) \/ CopyArrives(c) \/ CopyFails(c)
      BY <3>3 DEF ArmRxDma, Busy, RejectTelegram, CopyArrives, CopyFails
    <3> QED
      BY <3>1, <3>2, <3>3, OtherSteps DEF Moves
  <2>2. step'[c] # step[c] => step[c] <= Len(prog[c])
    BY <1>1, ProgramSteps DEF Stays, Arms, Readies, Sends, Passes, Polls, Reads, IsSend, IsGet
  <2>3. CASE step' = step
    BY <1>1, <1>2, <2>3
  <2>4. CASE step'[c] # step[c] /\ step' = [step EXCEPT ![c] = @ + 1]
    <3>1. step[c] + 1 \in Nat \ {0} /\ step[c] + 1 <= Len(prog[c]) + 1
      BY <1>1, <2>2, <2>4
    <3> QED
      BY <1>1, <1>2, <2>4, <3>1
  <2> QED
    BY <1>1, <2>1, <2>3, <2>4
<1>4. phase' \in [Ctrl -> {"entry", "armed", "transmit", "await"}]
  <2>1. CASE UNCHANGED phase
    BY <1>1, <2>1
  <2>2. CASE ReturnFromSync(c) \/ Transmit(c) \/ GetBuffer(c)
    BY <1>1, <2>2 DEF ReturnFromSync, Transmit, GetBuffer, NextCall
  <2>3. CASE ArmRxDma(c) \/ Busy(c) \/ RejectTelegram(c) \/ CopyArrives(c) \/ CopyFails(c)
    BY <1>1, <2>3 DEF ArmRxDma, Busy, RejectTelegram, CopyArrives, CopyFails
  <2> QED
    BY <2>1, <2>2, <2>3, OtherSteps DEF Moves
<1>5. Cleared \in Copies
  BY DEF Cleared, Copies
<1>6. ASSUME line[c] # <<>> PROVE Head(line[c]) \in Copies /\ Tail(line[c]) \in Seq(Copies)
  BY <1>1, <1>6, HeadTailProperties
<1>7. ASSUME line[c] # <<>>, NEW copy \in Damaged(c, Head(line[c])) PROVE copy \in Copies
  BY <1>6, <1>7 DEF Damaged, Copies
<1>8. rx' \in [Ctrl -> [need : 0 .. 3, buf : Seq(Copies), armedAt : Nat]]
  <2>1. CASE UNCHANGED rx
    BY <1>1, <2>1
  <2>2. CASE ArmRxDma(c)
    <3>1. <<>> \in Seq(Copies)
      OBVIOUS
    <3>2. [need |-> 2, buf |-> <<>>, armedAt |-> step[c]]
            \in [need : 0 .. 3, buf : Seq(Copies), armedAt : Nat]
      BY <1>1, <3>1
    <3> QED
      BY <1>1, <2>2, <3>2 DEF ArmRxDma
  <2>3. CASE GetBuffer(c) \/ RejectTelegram(c)
    <3>1. <<Cleared, Cleared>> \in Seq(Copies)
      BY <1>5
    <3>2. rx' = [rx EXCEPT ![c].buf = <<Cleared, Cleared>>]
      BY <2>3 DEF GetBuffer, RejectTelegram, ClearRx
    <3> QED
      BY <1>1, <3>1, <3>2
  <2>4. ASSUME NEW copy \in Copies, DmaTakes(c, copy)
        PROVE  rx' \in [Ctrl -> [need : 0 .. 3, buf : Seq(Copies), armedAt : Nat]]
    <3>1. rx[c] \in [need : 0 .. 3, buf : Seq(Copies), armedAt : Nat]
      BY <1>1
    <3>2. Append(rx[c].buf, copy) \in Seq(Copies)
      BY <3>1, AppendProperties
    <3>3. rx[c].need # 0 => rx[c].need - 1 \in 0 .. 3
      BY <3>1
    <3>4. rx[c].need # 0 =>
            [need |-> rx[c].need - 1, buf |-> Append(rx[c].buf, copy), armedAt |-> rx[c].armedAt]
              \in [need : 0 .. 3, buf : Seq(Copies), armedAt : Nat]
      BY <3>1, <3>2, <3>3
    <3>5. CASE UNCHANGED rx
      BY <1>1, <3>5
    <3>6. ASSUME NEW r \in [need : 0 .. 3, buf : Seq(Copies), armedAt : Nat],
                 rx' = [rx EXCEPT ![c] = r]
          PROVE  rx' \in [Ctrl -> [need : 0 .. 3, buf : Seq(Copies), armedAt : Nat]]
      BY <1>1, <3>6
    <3> QED
      BY <2>4, <3>4, <3>5, <3>6, DmaEffect
  <2>5. CASE CopyArrives(c) \/ CopyFails(c)
    BY <1>6, <1>7, <2>1, <2>4, <2>5 DEF CopyArrives, CopyFails
  <2>6. CASE ReturnFromSync(c) \/ Transmit(c) \/ Busy(c)
    BY <2>1, <2>6 DEF ReturnFromSync, Transmit, Busy
  <2> QED
    BY <2>1, <2>2, <2>3, <2>5, <2>6, OtherSteps DEF Moves
<1>9. line' \in [Ctrl -> Seq(Copies)]
  <2>1. CASE UNCHANGED line
    BY <1>1, <2>1
  <2>2. CASE Transmit(c)
    <3>1. step[c] \in 1 .. Len(prog[c])
      BY <1>1, <2>2 DEF Transmit, At
    <3>2. Copy(c) \in Copies
      <4>1. prog[c][step[c]] \in [op : {"sync", "send", "get"}, id : IpcIds]
        <5>1. prog[c] \in Seq([op : {"sync", "send", "get"}, id : IpcIds])
          BY ProgFacts
        <5> QED
          BY <3>1, <5>1, ElementOfSeq
      <4> QED
        BY <1>1, <4>1 DEF Copy, Copies
    <3>3. line[Peer(c)] \o <<Copy(c), Copy(c)>> \in Seq(Copies)
      <4>1. <<Copy(c), Copy(c)>> \in Seq(Copies)
        BY <3>2
      <4> QED
        BY <1>1, <4>1, ConcatProperties
    <3> QED
      BY <1>1, <2>2, <3>3 DEF Transmit
  <2>3. CASE CopyArrives(c) \/ CopyFails(c)
    BY <1>1, <1>6, <2>3 DEF CopyArrives, CopyFails
  <2>4. CASE ReturnFromSync(c) \/ ArmRxDma(c) \/ Busy(c) \/ GetBuffer(c) \/ RejectTelegram(c)
    BY <2>1, <2>4 DEF ReturnFromSync, ArmRxDma, Busy, GetBuffer, RejectTelegram
  <2> QED
    BY <2>1, <2>2, <2>3, <2>4, OtherSteps DEF Moves
<1>10. got' \in [Ctrl -> [copy : Copies, armedAt : Nat]]
  <2>1. CASE UNCHANGED got
    BY <1>1, <2>1
  <2>2. CASE GetBuffer(c)
    <3>1. rx[c] \in [need : 0 .. 3, buf : Seq(Copies), armedAt : Nat]
      BY <1>1
    <3>2. rx[c].need = 0 /\ rx[c].need + Len(rx[c].buf) >= 2
      BY <2>2 DEF GetBuffer, ExTypeOK
    <3>3. 1 \in 1 .. Len(rx[c].buf) /\ 2 \in 1 .. Len(rx[c].buf)
      BY <3>1, <3>2, LenProperties
    <3>4. rx[c].buf[1] \in Copies /\ rx[c].buf[2] \in Copies
      BY <3>1, <3>3, ElementOfSeq
    <3>5. Chosen(c) \in Copies
      BY <3>4 DEF Chosen
    <3> QED
      BY <1>1, <2>2, <3>1, <3>5 DEF GetBuffer
  <2>3. CASE \/ ReturnFromSync(c) \/ ArmRxDma(c) \/ Transmit(c) \/ Busy(c) \/ RejectTelegram(c)
             \/ CopyArrives(c) \/ CopyFails(c)
    BY <2>1, <2>3 DEF ReturnFromSync, ArmRxDma, Transmit, Busy, RejectTelegram, CopyArrives, CopyFails
  <2> QED
    BY <2>1, <2>2, <2>3, OtherSteps DEF Moves
<1>11. ASSUME NEW e \in Ctrl PROVE rx'[e].need + Len(rx'[e].buf) >= 2
  <2>1. /\ rx[e] \in [need : 0 .. 3, buf : Seq(Copies), armedAt : Nat]
        /\ rx[e].need + Len(rx[e].buf) >= 2 /\ Len(rx[e].buf) \in Nat
    BY LenProperties DEF ExTypeOK
  <2>2. CASE rx'[e] = rx[e]
    BY <2>1, <2>2
  <2>3. CASE ArmRxDma(c) /\ e = c
    BY <1>1, <2>3 DEF ArmRxDma
  <2>4. CASE (GetBuffer(c) \/ RejectTelegram(c)) /\ e = c
    <3>1. rx'[e].buf = <<Cleared, Cleared>> /\ rx'[e].need = rx[e].need
      BY <1>1, <2>4 DEF GetBuffer, RejectTelegram, ClearRx
    <3> QED
      BY <2>1, <3>1
  <2>5. ASSUME NEW copy \in Copies, DmaTakes(c, copy), e = c
        PROVE  rx'[e].need + Len(rx'[e].buf) >= 2
    <3>1. Len(Append(rx[e].buf, copy)) = Len(rx[e].buf) + 1
      BY <2>1, <2>5, AppendProperties
    <3>2. rx[e].need # 0 =>
            rx'[e].need = rx[e].need - 1 /\ rx'[e].buf = Append(rx[e].buf, copy)
      BY <1>1, <2>1, <2>5, DmaEffect
    <3>3. rx[e].need = 0 => rx'[e] = rx[e]
      BY <1>1, <2>1, <2>5, DmaEffect
    <3> QED
      BY <2>1, <2>2, <3>1, <3>2, <3>3
  <2>6. CASE (CopyArrives(c) \/ CopyFails(c)) /\ e = c
    BY <1>6, <1>7, <2>2, <2>5, <2>6 DEF CopyArrives, CopyFails
  <2>7. CASE ReturnFromSync(c) \/ Transmit(c) \/ Busy(c)
    BY <2>2, <2>7 DEF ReturnFromSync, Transmit, Busy
  <2> QED
    BY <2>2, <2>3, <2>4, <2>6, <2>7, OtherSteps, OthersKeep DEF Moves
<1> QED
  BY <1>1, <1>2, <1>3, <1>4, <1>8, <1>9, <1>10, <1>11 DEF ExTypeOK

\* The counters of the waits keep telling where c is in its program.
LEMMA KeepsWaits ==
  ASSUME IInv, ExTypeOK, NEW c \in Ctrl, WaitsOf(c), StepOf(c)
  PROVE  WaitsOf(c)'
<1>1. /\ pc \in [Ctrl -> PcValues] /\ begun \in [Ctrl -> Nat] /\ ended \in [Ctrl -> Nat]
      /\ DOMAIN step = Ctrl /\ DOMAIN phase = Ctrl /\ step[c] \in Nat \ {0}
      /\ begun[c] \in Nat /\ ended[c] \in Nat /\ Waited(c) \in Nat \ {0}
      /\ pc[c] = "run" => begun[c] = ended[c]
      /\ phase[c] \in {"entry", "armed", "transmit", "await"}
  BY CountFacts DEF IInv, IpcSyncTypeOK, ExTypeOK
<1>2. prog' = prog
  BY ProgramSteps
<1>3. ASSUME step'[c] = step[c] PROVE Waited(c)' = Waited(c)
  BY <1>2, <1>3 DEF Waited
<1>4. ASSUME step'[c] = step[c] + 1, ~IsGet(prog[c], step[c]), step[c] <= Len(prog[c])
      PROVE  Waited(c)' = Waited(c) + 1
  <2>1. prog[c][step[c]].op # "get"
    BY <1>1, <1>4, ProgFacts DEF IsGet
  <2> QED
    BY <1>1, <1>2, <1>4, <2>1, WaitsStep DEF Waited
<1>5. ASSUME step'[c] = step[c] + 1, IsGet(prog[c], step[c])
      PROVE  Waited(c)' = Waited(c)
  <2>1. prog[c][step[c]].op = "get"
    BY <1>5 DEF IsGet
  <2> QED
    BY <1>1, <1>2, <1>5, <2>1, WaitsStep DEF Waited
<1>6. CASE Startup(c)
  <2>0. UNCHANGED <<step, phase>> /\ Waited(c)' = Waited(c)
    BY <1>3, <1>6 DEF Startup, exVars
  <2>1. step[c] = 1 /\ phase[c] = "entry"
    BY <1>6 DEF Startup, SyncStartup, SyncStartupPass, SyncStartupMiss, WaitsOf
  <2>2. Waited(c) = 1
    BY <2>1, WaitsStep DEF Waited
  <2>3. begun'[c] = 1 /\ pc'[c] \in {"startup", "startupWait", "run"}
    BY <1>1, <1>6 DEF Startup, SyncStartup, SyncStartupPass, SyncStartupMiss, IInv, CountsMatchPc
  <2> QED
    BY <2>0, <2>1, <2>2, <2>3 DEF WaitsOf
<1>7. CASE CallSync(c)
  <2>1. UNCHANGED <<step, phase>> /\ Waited(c)' = Waited(c)
    BY <1>3, <1>7 DEF CallSync, exVars
  <2>2. /\ pc[c] = "run" /\ pc'[c] = "sync" /\ begun'[c] = begun[c] + 1 /\ ended' = ended
        /\ phase[c] \in {"entry", "armed"}
        /\ step[c] <= Len(prog[c]) /\ ~IsGet(prog[c], step[c])
        /\ IsSend(prog[c], step[c]) => phase[c] = "armed"
    BY <1>1, <1>7 DEF CallSync, At, Sync, IsGet, IsSend
  <2>3. begun[c] = Waited(c)
    BY <2>2 DEF WaitsOf
  <2> QED
    BY <1>1, <1>2, <2>1, <2>2, <2>3 DEF WaitsOf
<1>8. CASE PollSync(c)
  BY <1>1, <1>2, <1>3, <1>8 DEF PollSync, SyncMiss, exVars, WaitsOf
<1>9. CASE ReturnFromSync(c)
  <2>1. /\ pc'[c] = "run" /\ begun' = begun /\ begun[c] = Waited(c) + 1
        /\ ended'[c] = ended[c] + 1 /\ ended[c] + 1 = begun[c]
    BY <1>1, <1>9 DEF ReturnFromSync, SyncPass, WaitsOf, IInv, CountsMatchPc
  <2>2. phase[c] \in {"entry", "armed"}
    BY <1>9 DEF ReturnFromSync, SyncPass, WaitsOf
  <2>3. step[c] <= Len(prog[c]) /\ ~IsGet(prog[c], step[c])
    BY <1>1, <2>1 DEF WaitsOf
  <2>4. CASE phase[c] = "armed"
    <3>1. phase'[c] = "transmit" /\ step' = step
      BY <1>1, <1>9, <2>4 DEF ReturnFromSync
    <3>2. IsSend(prog[c], step[c])
      BY <2>4 DEF WaitsOf
    <3> QED
      BY <1>1, <1>2, <1>3, <2>1, <2>3, <3>1, <3>2 DEF WaitsOf
  <2>5. CASE phase[c] = "entry"
    <3>1. phase'[c] = "entry" /\ step'[c] = step[c] + 1
      BY <1>1, <1>9, <2>5 DEF ReturnFromSync, NextCall
    <3> QED
      BY <1>1, <1>2, <1>4, <2>1, <2>3, <3>1 DEF WaitsOf
  <2> QED
    BY <2>2, <2>4, <2>5
<1>10. ASSUME UNCHANGED <<step, phase, begun, ended>>, pc'[c] = "failSafe" PROVE WaitsOf(c)'
  BY <1>1, <1>2, <1>3, <1>10 DEF WaitsOf
<1>11. CASE FailInSync(c) \/ FailElsewhere(c) \/ ReceiveTimeout(c) \/ RejectTelegram(c)
  <2>1. UNCHANGED <<step, phase, begun, ended>>
    BY <1>11 DEF FailInSync, FailElsewhere, ReceiveTimeout, RejectTelegram,
                 SyncTimeout, SafetyHandler, Fail
  <2>2. pc'[c] = "failSafe"
    BY <1>1, <1>11 DEF FailInSync, FailElsewhere, ReceiveTimeout, RejectTelegram,
                       SyncTimeout, SafetyHandler, Fail
  <2> QED
    BY <1>10, <2>1, <2>2
<1>12. CASE ArmRxDma(c)
  <2>1. /\ pc[c] = "run" /\ UNCHANGED <<pc, begun, ended, step>> /\ phase[c] = "entry"
        /\ phase'[c] = "armed" /\ IsSend(prog[c], step[c])
    BY <1>1, <1>12 DEF ArmRxDma, At, syncVars, IsSend
  <2> QED
    BY <1>1, <1>2, <1>3, <2>1 DEF WaitsOf
<1>13. CASE Transmit(c)
  <2>1. /\ pc[c] = "run" /\ UNCHANGED <<pc, begun, ended>> /\ phase[c] = "transmit"
        /\ phase'[c] = "entry" /\ step'[c] = step[c] + 1 /\ step[c] <= Len(prog[c])
        /\ ~IsGet(prog[c], step[c])
    BY <1>1, <1>13 DEF Transmit, At, syncVars, NextCall, IsGet
  <2>2. begun[c] = Waited(c) + 1
    BY <2>1 DEF WaitsOf
  <2> QED
    BY <1>1, <1>2, <1>4, <2>1, <2>2 DEF WaitsOf
<1>14. CASE Busy(c)
  <2>1. /\ pc[c] = "run" /\ UNCHANGED <<pc, begun, ended, step>> /\ phase[c] = "entry"
        /\ phase'[c] = "await" /\ IsGet(prog[c], step[c])
    BY <1>1, <1>14 DEF Busy, At, syncVars, IsGet
  <2> QED
    BY <1>1, <1>2, <1>3, <2>1 DEF WaitsOf
<1>15. CASE GetBuffer(c)
  <2>1. /\ pc[c] = "run" /\ UNCHANGED <<pc, begun, ended>> /\ phase[c] \in {"entry", "await"}
        /\ phase'[c] = "entry" /\ step'[c] = step[c] + 1 /\ IsGet(prog[c], step[c])
    BY <1>1, <1>15 DEF GetBuffer, Reading, At, syncVars, NextCall, IsGet
  <2>2. begun[c] = Waited(c)
    BY <2>1 DEF WaitsOf
  <2> QED
    BY <1>1, <1>2, <1>5, <2>1, <2>2 DEF WaitsOf
<1>16. CASE CopyArrives(c) \/ CopyFails(c)
  BY <1>1, <1>2, <1>3, <1>16 DEF CopyArrives, CopyFails, syncVars, WaitsOf
<1> QED
  BY <1>6, <1>7, <1>8, <1>9, <1>11, <1>12, <1>13, <1>14, <1>15, <1>16 DEF StepOf, Software

\* The DMA stays armed for the last send.
LEMMA KeepsArmed ==
  ASSUME IInv, ExTypeOK, NEW c \in Ctrl, WaitsOf(c), ArmedOf(c), StepOf(c)
  PROVE  ArmedOf(c)'
<1>1. /\ step[c] \in Nat \ {0} /\ rx[c].armedAt \in Nat
      /\ phase[c] \in {"entry", "armed", "transmit", "await"}
      /\ phase[c] \in {"armed", "transmit"} => IsSend(prog[c], step[c])
  BY DEF ExTypeOK, WaitsOf
<1>2. prog' = prog
  BY ProgramSteps
<1>3. ASSUME NEW i \in 1 .. step'[c] - 1, IsSend(prog[c], i),
             step'[c] = step[c] \/ step'[c] = step[c] + 1
      PROVE  i = step[c] \/ i <= rx[c].armedAt
  BY <1>1, <1>3 DEF ArmedOf
<1>4. CASE Stays(c)
  BY <1>1, <1>2, <1>4 DEF Stays, ArmedOf
<1>5. CASE Arms(c)
  BY <1>1, <1>2, <1>5 DEF Arms, ArmedOf
<1>6. CASE Readies(c)
  BY <1>1, <1>2, <1>6 DEF Readies, ArmedOf
<1>7. CASE Sends(c)
  BY <1>1, <1>2, <1>3, <1>7 DEF Sends, ArmedOf
<1>8. CASE Passes(c)
  BY <1>1, <1>2, <1>3, <1>8 DEF Passes, ArmedOf
<1>9. CASE Polls(c)
  BY <1>1, <1>2, <1>9 DEF Polls, ArmedOf
<1>10. CASE Reads(c)
  <2>1. ~IsSend(prog[c], step[c])
    BY <1>10 DEF Reads, IsGet, IsSend
  <2> QED
    BY <1>1, <1>2, <1>3, <1>10, <2>1 DEF Reads, ArmedOf
<1> QED
  BY <1>4, <1>5, <1>6, <1>7, <1>8, <1>9, <1>10, ProgramSteps

\* The fork does not move.
LEMMA ForkStays ==
  ASSUME prog' = prog
  PROVE  K' = K /\ X' = X /\ Y' = Y
BY DEF K, X, Y

\* X never gets past its wait in vain: its peer has not sent.
LEMMA XWaits ==
  ASSUME IInv, ExTypeOK, ForkInv, WaitsOf(X), ArmedOf(X), ChannelOf(X), StepOf(X),
         NEW g \in K .. Len(prog[X]), WaitsInVain(prog, K, X, g)
  PROVE  step'[X] <= g
<1>1. /\ X \in Ctrl /\ K \in Nat \ {0} /\ step[X] \in Nat \ {0} /\ Len(prog[X]) \in Nat
      /\ step[X] <= g /\ rx[X].armedAt \in Nat
  BY ForkFacts, ProgFacts DEF ForkInv, ExTypeOK
<1>2. step'[X] = step[X] \/ step'[X] = step[X] + 1
  BY <1>1, ProgramSteps DEF Stays, Arms, Readies, Sends, Passes, Polls, Reads
<1>3. CASE step[X] = g
  <2>1. IsGet(prog[X], step[X]) /\ ~IsSend(prog[X], step[X])
    BY <1>1, <1>3 DEF WaitsInVain, IsGet, IsSend
  <2>2. ~Reads(X)
    <3>1. PICK i \in K .. g - 1 : prog[X][i].op = "send"
      BY DEF WaitsInVain
    <3>2. i \in 1 .. step[X] - 1 /\ IsSend(prog[X], i)
      BY <1>1, <1>3, <3>1 DEF IsSend
    <3>3. rx[X].armedAt >= K
      BY <1>1, <3>1, <3>2 DEF ArmedOf
    <3>4. Early(X)
      BY <3>3 DEF Early
    <3>5. rx[X].need # 0
      BY <1>1, <2>1, <3>4, ReadsReceived
    <3> QED
      BY <3>5 DEF Reads
  <2>3. step'[X] = step[X]
    BY <1>1, <2>1, <2>2, ProgramSteps DEF Stays, Arms, Readies, Sends, Passes, Polls
  <2> QED
    BY <1>3, <2>3
<1>4. CASE step[X] < g
  BY <1>1, <1>2, <1>4
<1> QED
  BY <1>1, <1>3, <1>4

\* Y never comes to send behind the fork: its peer waits and does not begin the
\* wait of that send.
LEMMA YStops ==
  ASSUME IInv, IInv', ExTypeOK, ForkInv, WaitsOf(X), WaitsOf(Y), StepOf(Y),
         NEW i \in K .. Len(prog[Y]), IsSend(prog[Y], i)
  PROVE  step'[Y] <= i /\ (step'[Y] = i => phase'[Y] # "transmit")
<1>1. /\ X \in Ctrl /\ Y \in Ctrl /\ X # Y /\ Peer(Y) = X /\ Y = Peer(X) /\ K \in Nat \ {0}
      /\ Forks(prog, K, X)
  BY ForkFacts DEF Y
<1>2. /\ step[Y] \in Nat \ {0} /\ Len(prog[Y]) \in Nat /\ Len(prog[X]) \in Nat
      /\ step[Y] <= i /\ (step[Y] = i => phase[Y] # "transmit")
  BY <1>1, ProgFacts DEF ForkInv
<1>3. ASSUME Readies(Y), step[Y] = i PROVE FALSE
  <2>1. PICK g \in K .. Len(prog[X]) : WaitsInVain(prog, K, X, g)
    BY <1>1, <1>2 DEF Forks
  <2>2. WaitsBefore(prog[X], g) <= WaitsBefore(prog[Y], i)
    <3>1. i \in K .. Len(prog[Y]) /\ prog[Y][i].op = "send"
      BY DEF IsSend
    <3> QED
      BY <1>1, <2>1, <3>1 DEF WaitsInVain
  <2>3. PICK j \in K .. g - 1 : prog[X][j].op = "send"
    BY <2>1 DEF WaitsInVain
  <2>4. j \in Nat \ {0} /\ g \in Nat \ {0} /\ j < g /\ i \in Nat \ {0}
    BY <1>1, <1>2, <2>1, <2>3
  <2>5. WaitsBefore(prog[X], j) + 1 <= WaitsBefore(prog[X], g)
    BY <2>3, <2>4, WaitsCount
  <2>6. /\ WaitsBefore(prog[X], j) \in Nat \ {0} /\ WaitsBefore(prog[X], g) \in Nat \ {0}
        /\ WaitsBefore(prog[Y], i) \in Nat \ {0}
    BY <2>4, WaitsStep
  <2>7. ended'[Y] = WaitsBefore(prog[Y], i) + 1
    BY <1>3 DEF Readies, Waited
  <2>8. ended'[Y] >= 3
    BY <2>2, <2>5, <2>6, <2>7
  <2>9. begun'[X] >= ended'[Y]
    BY <1>1, <2>8 DEF IInv, PeerHasFollowed
  <2>10. begun'[X] = begun[X] /\ begun[X] \in Nat
    BY <1>1, OthersKeep, CountFacts
  <2>11. begun[X] >= WaitsBefore(prog[X], g) + 1
    BY <2>2, <2>6, <2>7, <2>9, <2>10
  <2>12. step[X] > g \/ ~IsGet(prog[X], g)
    BY <1>1, <2>4, <2>11, HasBegun
  <2>13. step[X] <= g
    BY <2>1 DEF ForkInv
  <2>14. IsGet(prog[X], g)
    BY <2>1, <2>4 DEF WaitsInVain, IsGet
  <2>15. step[X] \in Nat
    BY <1>1, ProgFacts
  <2> QED
    BY <2>4, <2>12, <2>13, <2>14, <2>15
<1>4. CASE step[Y] = i
  <2>1. ~IsGet(prog[Y], step[Y]) /\ IsSend(prog[Y], step[Y])
    BY <1>4 DEF IsGet, IsSend
  <2>2. Stays(Y) \/ Arms(Y)
    BY <1>1, <1>2, <1>3, <1>4, <2>1, ProgramSteps DEF Sends, Passes, Polls, Reads
  <2> QED
    BY <1>2, <1>4, <2>2 DEF Stays, Arms
<1>5. CASE step[Y] < i
  <2>1. step'[Y] = step[Y] \/ (step'[Y] = step[Y] + 1 /\ phase'[Y] = "entry")
    BY <1>1, ProgramSteps DEF Stays, Arms, Readies, Sends, Passes, Polls, Reads
  <2> QED
    BY <1>2, <1>5, <2>1
<1> QED
  BY <1>2, <1>4, <1>5

\* Behind the fork X waits in vain, and Y never sends.
LEMMA KeepsFork ==
  ASSUME ExInv, IInv', NEW c \in Ctrl, StepOf(c)
  PROVE  ForkInv'
<1>0. IInv /\ ExTypeOK /\ ForkInv /\ \A d \in Ctrl : WaitsOf(d) /\ ArmedOf(d) /\ ChannelOf(d)
  BY DEF ExInv
<1>1. X \in Ctrl /\ Y \in Ctrl /\ X # Y
  BY <1>0, ForkFacts
<1>2. prog' = prog
  BY <1>0, ProgramSteps
<1>3. K' = K /\ X' = X /\ Y' = Y
  BY <1>2, ForkStays
<1>4. ASSUME NEW g \in K .. Len(prog[X]), WaitsInVain(prog, K, X, g)
      PROVE  step'[X] <= g
  <2>1. CASE c = X
    BY <1>0, <1>1, <1>4, <2>1, XWaits
  <2>2. CASE c # X
    <3>1. step'[X] = step[X]
      BY <1>0, <1>1, <2>2, OthersKeep
    <3> QED
      BY <1>0, <1>4, <3>1 DEF ForkInv
  <2> QED
    BY <2>1, <2>2
<1>5. ASSUME NEW i \in K .. Len(prog[Y]), IsSend(prog[Y], i)
      PROVE  step'[Y] <= i /\ (step'[Y] = i => phase'[Y] # "transmit")
  <2>1. CASE c = Y
    BY <1>0, <1>1, <1>5, <2>1, YStops
  <2>2. CASE c # Y
    <3>1. step'[Y] = step[Y] /\ phase'[Y] = phase[Y]
      BY <1>0, <1>1, <2>2, OthersKeep
    <3> QED
      BY <1>0, <1>5, <3>1 DEF ForkInv
  <2> QED
    BY <2>1, <2>2
<1> QED
  BY <1>2, <1>3, <1>4, <1>5 DEF ForkInv

\* What a controller reads its peer has sent.
LEMMA KeepsRead ==
  ASSUME ExInv, NEW c \in Ctrl, StepOf(c), NEW d \in Ctrl
  PROVE  ReadOf(d)'
<1>0. /\ IInv /\ ExTypeOK /\ ForkInv /\ WaitsOf(c) /\ ArmedOf(d) /\ ChannelOf(d) /\ ReadOf(d)
      /\ Peer(d) \in Ctrl /\ Peer(d) # d /\ (c = d \/ c = Peer(d))
  BY PeerIsOther DEF ExInv
<1>1. /\ step[d] \in Nat \ {0} /\ step[Peer(d)] \in Nat \ {0} /\ rx[d].armedAt \in Nat
      /\ K \in Nat
  BY <1>0, ForkFacts DEF ExTypeOK
<1>2. prog' = prog /\ K' = K
  BY <1>0, ProgramSteps, ForkStays
<1>3. step'[c] = step[c] \/ step'[c] = step[c] + 1
  BY <1>0, ProgramSteps DEF Stays, Arms, Readies, Sends, Passes, Polls, Reads
<1>4. SUFFICES ASSUME NEW i \in 1 .. K - 1, NEW g \in i + 1 .. step'[d] - 1,
                      IsSend(prog[d], i), IsGet(prog[d], g)
               PROVE  i < step'[Peer(d)]
  BY <1>2 DEF ReadOf
<1>5. CASE g < step[d]
  <2>1. i < step[Peer(d)]
    BY <1>0, <1>1, <1>4, <1>5 DEF ReadOf
  <2>2. step'[Peer(d)] >= step[Peer(d)]
    BY <1>0, <1>1, <1>3, OthersKeep
  <2>3. step'[Peer(d)] \in Nat
    BY <1>0, <1>1, <1>3, OthersKeep
  <2> QED
    BY <1>1, <2>1, <2>2, <2>3
<1>6. CASE g >= step[d]
  <2>1. c = d
    <3>1. step'[d] # step[d]
      BY <1>1, <1>4, <1>6
    <3> QED
      BY <1>0, <3>1, OthersKeep
  <2>2. g = step[d] /\ step'[d] = step[d] + 1
    BY <1>1, <1>3, <1>4, <1>6, <2>1
  <2>3. Reads(d)
    <3>1. IsGet(prog[d], step[d]) /\ ~IsSend(prog[d], step[d])
      BY <1>4, <2>2 DEF IsGet, IsSend
    <3> QED
      BY <1>0, <1>1, <2>1, <2>2, <3>1, ProgramSteps DEF Stays, Arms, Readies, Sends, Passes, Polls
  <2>4. ~Early(d)
    BY <1>0, <2>3, ReadsReceived DEF Reads
  <2>5. i <= rx[d].armedAt
    BY <1>0, <1>1, <1>4, <2>2 DEF ArmedOf
  <2>6. step'[Peer(d)] = step[Peer(d)]
    BY <1>0, <2>1, OthersKeep
  <2> QED
    BY <1>1, <2>4, <2>5, <2>6 DEF Early
<1>7. g \in Nat
  BY <1>1, <1>4
<1> QED
  BY <1>1, <1>5, <1>6, <1>7

\* A call that is not a read adds none.
LEMMA ReadAfterStep ==
  ASSUME NEW calls, NEW a \in Nat, NEW s \in Nat \ {0}, ~IsGet(calls, s), ReadAfter(calls, a, s + 1)
  PROVE  ReadAfter(calls, a, s)
<1>1. PICK g \in a + 1 .. s : IsGet(calls, g)
  BY DEF ReadAfter
<1>2. g # s
  BY <1>1
<1>3. g \in a + 1 .. s - 1
  BY <1>1, <1>2
<1> QED
  BY <1>1, <1>3 DEF ReadAfter

\* What the channel to d is made of.
LEMMA ChannelFacts ==
  ASSUME ExTypeOK, NEW d \in Ctrl
  PROVE  /\ rx[d] \in [need : 0 .. 3, buf : Seq(Copies), armedAt : Nat]
         /\ rx[d].need \in 0 .. 3 /\ rx[d].armedAt \in Nat /\ rx[d].buf \in Seq(Copies)
         /\ Len(rx[d].buf) \in Nat
         /\ line[d] \in Seq(Copies) /\ Len(line[d]) \in Nat
         /\ step[d] \in Nat \ {0} /\ step[Peer(d)] \in Nat \ {0} /\ K \in Nat \ {0}
         /\ Peer(d) \in Ctrl /\ Peer(d) # d /\ Peer(Peer(d)) = d
BY LenProperties, ForkFacts, PeerIsOther DEF ExTypeOK

\* The channel to d is not touched while the programs go on.
LEMMA ChannelFrame ==
  ASSUME ExTypeOK, NEW d \in Ctrl, ChannelOf(d), prog' = prog, rx'[d] = rx[d], line'[d] = line[d],
         step'[Peer(d)] \in Nat, step'[Peer(d)] >= step[Peer(d)],
         \/ step'[d] = step[d]
         \/ step'[d] = step[d] + 1 /\ ~IsGet(prog[d], step[d])
  PROVE  ChannelOf(d)'
<1>1. /\ rx[d].need \in 0 .. 3 /\ rx[d].armedAt \in Nat /\ Len(rx[d].buf) \in Nat
      /\ step[d] \in Nat \ {0} /\ step[Peer(d)] \in Nat \ {0} /\ K \in Nat \ {0}
  BY ChannelFacts
<1>2. K' = K /\ X' = X
  BY ForkStays
<1>3. HasRead(d)' => HasRead(d)
  BY <1>1, ReadAfterStep DEF HasRead
<1>4. Served(d)' => Served(d)
  BY <1>1, <1>2 DEF Served
<1>5. Early(d)' => Early(d)
  BY <1>1, <1>2 DEF Early
<1>6. ASSUME Unarmed(d) PROVE Unarmed(d)'
  <2>1. step[Peer(d)] > 1 => step'[Peer(d)] > 1
    BY <1>1
  <2>2. ASSUME Len(rx[d].buf) + Len(line[d]) # 0
        PROVE  step'[Peer(d)] > 1 /\ IsSend(prog[Peer(d)], 1)
    BY <1>6, <2>1, <2>2, Zenon DEF Unarmed
  <2>3. /\ rx[d].need + Len(rx[d].buf) = 3 /\ Len(rx[d].buf) + Len(line[d]) <= 2
        /\ \A i \in 1 .. Len(line[d]) : line[d][i] = Sent(prog, Peer(d), 1)
    BY <1>6, Zenon DEF Unarmed
  <2> QED
    BY <2>2, <2>3, Zenon DEF Unarmed
<1>7. Fresh(d) => Fresh(d)'
  BY <1>3 DEF Fresh
<1>8. Receives(d) => Receives(d)'
  BY <1>3 DEF Receives
<1>9. Fresh(d) => Receives(d)'
  BY <1>3 DEF Fresh, Receives
<1> QED
  BY <1>4, <1>5, <1>6, <1>7, <1>8, <1>9 DEF ChannelOf

\* d arms its DMA: nothing of an earlier telegram is on the line any more.
LEMMA ChannelArmed ==
  ASSUME IInv, ExTypeOK, ForkInv, NEW d \in Ctrl, ArmedOf(d), ChannelOf(d), ArmRxDma(d),
         step'[Peer(d)] = step[Peer(d)]
  PROVE  ChannelOf(d)'
<1> DEFINE s == step[d]  a == rx[d].armedAt  e == Peer(d)
<1>1. /\ rx[d].need \in 0 .. 3 /\ a \in Nat /\ Len(rx[d].buf) \in Nat /\ Len(line[d]) \in Nat
      /\ s \in Nat \ {0} /\ step[e] \in Nat \ {0} /\ K \in Nat \ {0} /\ e \in Ctrl
      /\ line[d] \in Seq(Copies) /\ Len(prog[d]) \in Nat /\ Len(prog[e]) \in Nat
      /\ Exchanges(prog[d])
  BY ChannelFacts, ProgFacts
<1>2. /\ prog' = prog /\ line' = line /\ step' = step
      /\ rx'[d] = [need |-> 2, buf |-> <<>>, armedAt |-> s]
      /\ IsSend(prog[d], s) /\ phase[d] = "entry"
  BY <1>1 DEF ArmRxDma, At, IsSend, ExTypeOK
<1>3. K' = K /\ X' = X
  BY <1>2, ForkStays
<1>4. a < s
  BY <1>2 DEF ArmedOf
<1>5. ~HasRead(d)'
  <2>1. s + 1 .. s - 1 = {}
    BY <1>1
  <2> QED
    BY <1>2, <2>1 DEF HasRead, ReadAfter
<1>6. SUFFICES ASSUME Served(d) PROVE ChannelOf(d)'
  BY <1>2, <1>3 DEF ChannelOf, Served
<1>7. CASE line[d] = <<>>
  <2>1. Fresh(d)' /\ Receives(d)'
    BY <1>2, <1>5, <1>7 DEF Fresh, Receives
  <2>2. rx'[d].armedAt # 0
    BY <1>1, <1>2
  <2> QED
    BY <2>1, <2>2 DEF ChannelOf
<1>8. CASE line[d] # <<>>
  <2>1. Len(line[d]) # 0
    BY <1>1, <1>8, EmptySeq
  <2>2. a = 0
    <3>1. ASSUME a # 0, Receives(d) PROVE FALSE
      <4>1. IsSend(prog[d], a)
        BY <3>1 DEF ArmedOf
      <4>2. PICK g \in a + 1 .. s - 1 : prog[d][g].op = "get"
        BY <1>1, <1>2, <1>4, <4>1 DEF Exchanges, IsSend
      <4>3. IsGet(prog[d], g)
        BY <1>1, <1>2, <4>2 DEF IsGet, IsSend
      <4>4. HasRead(d)
        BY <4>2, <4>3 DEF HasRead, ReadAfter
      <4> QED
        BY <1>1, <2>1, <3>1, <4>4 DEF Receives
    <3>2. ~Fresh(d)
      BY <1>8 DEF Fresh
    <3> QED
      BY <1>6, <3>1, <3>2 DEF ChannelOf
  <2>3. Unarmed(d)
    BY <1>6, <2>2 DEF ChannelOf
  <2>a. /\ Len(rx[d].buf) + Len(line[d]) # 0 => step[e] > 1 /\ IsSend(prog[e], 1)
        /\ Len(rx[d].buf) + Len(line[d]) <= 2
        /\ \A i \in 1 .. Len(line[d]) : line[d][i] = Sent(prog, e, 1)
    BY <2>3, Zenon DEF Unarmed
  <2>b. \A m, n \in Nat : (n # 0 => m + n # 0) /\ (m + n <= 2 => n <= 2)
    OBVIOUS
  <2>4. step[e] > 1 /\ IsSend(prog[e], 1)
    BY <1>1, <2>1, <2>a, <2>b, Zenon
  <2>5. K > 1
    <3>1. ASSUME K = 1 PROVE FALSE
      <4>1. d = X /\ e = Y
        BY <1>1, <1>6, <3>1 DEF Served, Y
      <4>2. 1 \in K .. Len(prog[Y])
        BY <2>4, <3>1, <4>1 DEF IsSend
      <4>3. step[Y] <= 1
        BY <2>4, <4>1, <4>2 DEF ForkInv
      <4> QED
        BY <1>1, <2>4, <4>1, <4>3
    <3> QED
      BY <1>1, <3>1
  <2>6. s = 1
    <3>1. 1 <= Len(prog[e])
      BY <2>4 DEF IsSend
    <3>2. IsSend(prog[d], 1)
      BY <1>1, <2>4, <2>5, <3>1, SameCalls DEF IsSend
    <3>3. s > 1 => 1 <= a
      BY <1>1, <3>2 DEF ArmedOf
    <3> QED
      BY <1>1, <2>2, <3>3
  <2>7. rx'[d].armedAt = 1 /\ ~Early(d)'
    BY <1>1, <1>2, <1>3, <2>4, <2>5, <2>6 DEF Early
  <2>8. Receives(d)'
    <3>1. Len(line[d]) <= 2
      BY <1>1, <2>a, <2>b, Zenon
    <3> QED
      BY <1>2, <1>5, <2>6, <2>a, <3>1 DEF Receives
  <2> QED
    BY <2>7, <2>8 DEF ChannelOf
<1> QED
  BY <1>7, <1>8

\* d takes the telegram out of the buffer, or finds it wrong.
LEMMA ChannelRead ==
  ASSUME ExTypeOK, ForkInv, NEW d \in Ctrl, ArmedOf(d), ChannelOf(d),
         GetBuffer(d) \/ RejectTelegram(d), step'[Peer(d)] = step[Peer(d)]
  PROVE  ChannelOf(d)'
<1>1. /\ rx[d].need \in 0 .. 3 /\ rx[d].armedAt \in Nat /\ Len(line[d]) \in Nat
      /\ rx[d] \in [need : 0 .. 3, buf : Seq(Copies), armedAt : Nat] /\ DOMAIN rx = Ctrl
      /\ K \in Nat \ {0}
  BY ChannelFacts DEF ExTypeOK
<1>2. IsGet(prog[d], step[d]) /\ rx[d].need = 0
  BY DEF GetBuffer, RejectTelegram, Reading, At, IsGet, ExTypeOK
<1>3. rx[d].armedAt # 0 /\ ~Early(d) /\ Receives(d)
  BY <1>2, ReadsReceived
<1>4. prog' = prog /\ line' = line
  BY DEF GetBuffer, RejectTelegram
<1>5. rx'[d] = [need |-> 0, buf |-> <<Cleared, Cleared>>, armedAt |-> rx[d].armedAt]
  <2>1. rx'[d] = [rx[d] EXCEPT !.buf = <<Cleared, Cleared>>]
    BY <1>1 DEF GetBuffer, RejectTelegram, ClearRx
  <2> QED
    BY <1>1, <1>2, <2>1
<1>6. Len(line[d]) = 0
  BY <1>1, <1>2, <1>3 DEF Receives
<1>7. K' = K
  BY <1>4, ForkStays
<1>8. ~Early(d)'
  BY <1>1, <1>3, <1>5, <1>7 DEF Early
<1>9. Receives(d)'
  <2>1. \A i \in 1 .. 2 : <<Cleared, Cleared>>[i].ok = FALSE
    BY DEF Cleared
  <2>2. Len(<<Cleared, Cleared>>) = 2
    OBVIOUS
  <2> QED
    BY <1>4, <1>5, <1>6, <2>1, <2>2 DEF Receives
<1> QED
  BY <1>3, <1>5, <1>8, <1>9 DEF ChannelOf

\* A copy leaves the line and reaches the DMA of d, damaged or not, or is lost.
LEMMA ChannelTakes ==
  ASSUME ExTypeOK, NEW d \in Ctrl, ChannelOf(d), CopyArrives(d) \/ CopyFails(d)
  PROVE  ChannelOf(d)'
<1> DEFINE need == rx[d].need  a == rx[d].armedAt  b == rx[d].buf  q == line[d]
<1>1. /\ need \in 0 .. 3 /\ a \in Nat /\ b \in Seq(Copies) /\ Len(b) \in Nat
      /\ q \in Seq(Copies) /\ Len(q) \in Nat /\ DOMAIN line = Ctrl /\ DOMAIN rx = Ctrl
      /\ Peer(d) \in Ctrl
  BY ChannelFacts DEF ExTypeOK
<1>2. /\ q # <<>> /\ prog' = prog /\ step' = step /\ line'[d] = Tail(q)
  BY <1>1 DEF CopyArrives, CopyFails
<1>3. /\ Len(q) >= 1 /\ Len(Tail(q)) = Len(q) - 1 /\ Head(q) = q[1]
      /\ \A i \in 1 .. Len(Tail(q)) : Tail(q)[i] = q[i + 1] /\ i + 1 \in 1 .. Len(q)
  <2>1. Len(q) # 0
    BY <1>1, <1>2, EmptySeq
  <2>2. Tail(q) \in Seq(Copies) /\ Len(Tail(q)) = Len(q) - 1 /\ Head(q) = q[1]
    BY <1>1, <1>2, <2>1, HeadTailProperties
  <2>3. \A i \in 1 .. Len(Tail(q)) : Tail(q)[i] = q[i + 1]
    BY <1>1, <1>2, <2>2, HeadTailProperties
  <2>4. \A i \in 1 .. Len(Tail(q)) : i + 1 \in 1 .. Len(q)
    BY <1>1, <2>1, <2>2
  <2>5. Len(q) >= 1
    BY <1>1, <2>1
  <2> QED
    BY <2>2, <2>3, <2>4, <2>5
<1>4. K' = K /\ X' = X /\ Served(d)' = Served(d)
  BY <1>2, ForkStays DEF Served
<1>5. PICK copy : /\ UNCHANGED rx \/ DmaTakes(d, copy)
                  /\ copy.ok => copy = q[1] \/ copy = [q[1] EXCEPT !.from = d]
  <2>1. CASE CopyArrives(d)
    BY <1>3, <2>1 DEF CopyArrives
  <2>2. CASE CopyFails(d) /\ ~UNCHANGED rx
    <3>1. PICK copy \in Damaged(d, Head(q)) : DmaTakes(d, copy)
      BY <2>2 DEF CopyFails
    <3>2. q[1] \in Copies
      BY <1>1, <1>3, ElementOfSeq
    <3>3. copy = [q[1] EXCEPT !.ok = FALSE] \/ copy = [q[1] EXCEPT !.from = d]
      BY <1>3, <3>1 DEF Damaged
    <3>4. [q[1] EXCEPT !.ok = FALSE].ok = FALSE
      BY <3>2 DEF Copies
    <3> QED
      BY <3>1, <3>3, <3>4
  <2>3. CASE UNCHANGED rx
    BY <2>3
  <2> QED
    BY <2>1, <2>2, <2>3
<1>6. /\ rx'[d].armedAt = a
      /\ \/ rx'[d].need = need /\ rx'[d].buf = b
         \/ need # 0 /\ rx'[d].need = need - 1 /\ rx'[d].buf = Append(b, copy)
  BY <1>1, <1>5, DmaEffect
<1>7. /\ Len(Append(b, copy)) = Len(b) + 1 /\ Append(b, copy)[Len(b) + 1] = copy
      /\ \A i \in 1 .. Len(b) : Append(b, copy)[i] = b[i]
  <2>1. b \in Seq(Copies \cup {copy})
    <3>1. Copies \subseteq Copies \cup {copy}
      OBVIOUS
    <3> QED
      BY <1>1, <3>1
  <2> QED
    BY <2>1, AppendProperties
<1>8. HasRead(d)' => HasRead(d)
  BY <1>2, <1>6 DEF HasRead
<1>9. ASSUME Unarmed(d) PROVE Unarmed(d)'
  <2>1. /\ need + Len(b) = 3 /\ Len(b) + Len(q) <= 2
        /\ Len(b) + Len(q) # 0 => step[Peer(d)] > 1 /\ IsSend(prog[Peer(d)], 1)
        /\ \A i \in 1 .. Len(q) : q[i] = Sent(prog, Peer(d), 1)
    BY <1>9, Zenon DEF Unarmed
  <2>2. step[Peer(d)] > 1 /\ IsSend(prog[Peer(d)], 1)
    <3> HIDE DEF need, b, q
    <3>1. Len(b) + Len(q) # 0
      BY <1>1, <1>3
    <3> QED
      BY <2>1, <3>1
  <2>3. Len(rx'[d].buf) \in {Len(b), Len(b) + 1} /\ rx'[d].need + Len(rx'[d].buf) = 3
    <3> HIDE DEF need, b, q
    <3> QED
      BY <1>1, <1>6, <1>7, <2>1
  <2>4. Len(rx'[d].buf) + Len(Tail(q)) <= 2
    <3>1. Len(rx'[d].buf) \in Nat /\ Len(Tail(q)) \in Nat
      <4> HIDE DEF need, b, q
      <4> QED
        BY <1>1, <1>3, <2>3
    <3>2. Len(b) \in Nat /\ Len(q) \in Nat
      BY <1>1
    <3>3. /\ Len(b) + Len(q) <= 2 /\ Len(rx'[d].buf) \in {Len(b), Len(b) + 1}
          /\ Len(Tail(q)) = Len(q) - 1
      BY <1>3, <2>1, <2>3
    <3> HIDE DEF need, b, q
    <3>4. PICK m \in Nat, n \in Nat, k \in Nat, l \in Nat :
            m = Len(b) /\ n = Len(q) /\ k = Len(rx'[d].buf) /\ l = Len(Tail(q))
      BY <3>1, <3>2
    <3>5. m + n <= 2 /\ k \in {m, m + 1} /\ l = n - 1
      BY <3>3, <3>4
    <3>6. k + l <= 2
      BY <3>5
    <3> QED
      BY <3>4, <3>6
  <2>5. \A i \in 1 .. Len(Tail(q)) : Tail(q)[i] = Sent(prog, Peer(d), 1)
    BY <1>3, <2>1
  <2> HIDE DEF q
  <2> QED
    BY <1>2, <2>2, <2>3, <2>4, <2>5, Zenon DEF Unarmed
<1>10. ASSUME Receives(d) PROVE Receives(d)'
  <2>1. /\ need + Len(b) = 2 /\ Len(q) <= need
        /\ \A i \in 1 .. Len(q) : q[i] = Sent(prog, Peer(d), a)
        /\ \A i \in 1 .. Len(b) : b[i].ok => b[i].at = a /\ b[i].from \in Ctrl
        /\ HasRead(d) => need = 0
    BY <1>10, Zenon DEF Receives
  <2>2. ~HasRead(d)' /\ need # 0
    <3> HIDE DEF need, q
    <3> QED
      BY <1>1, <1>3, <1>8, <2>1
  <2>3. copy.ok => copy.at = a /\ copy.from \in Ctrl
    <3>1. q[1] = [id |-> prog[Peer(d)][a].id, from |-> Peer(d), at |-> a, ok |-> TRUE]
      <4>1. 1 \in 1 .. Len(q)
        BY <1>1, <1>3
      <4>2. q[1] = Sent(prog, Peer(d), a)
        BY <2>1, <4>1
      <4> QED
        BY <4>2 DEF Sent
    <3>2. [q[1] EXCEPT !.from = d].at = a /\ [q[1] EXCEPT !.from = d].from = d
      BY <3>1
    <3> QED
      BY <1>1, <1>5, <3>1, <3>2
  <2>4. rx'[d].need + Len(rx'[d].buf) = 2 /\ Len(Tail(q)) <= rx'[d].need
    <3> HIDE DEF need, b, q
    <3> QED
      BY <1>1, <1>3, <1>6, <1>7, <2>1
  <2>5. \A i \in 1 .. Len(Tail(q)) : Tail(q)[i] = Sent(prog, Peer(d), a)
    BY <1>3, <2>1
  <2>6. ASSUME NEW i \in 1 .. Len(rx'[d].buf), rx'[d].buf[i].ok
        PROVE  rx'[d].buf[i].at = a /\ rx'[d].buf[i].from \in Ctrl
    <3> HIDE DEF need, b, q
    <3>1. CASE rx'[d].buf = b
      BY <2>1, <2>6, <3>1
    <3>2. CASE rx'[d].buf = Append(b, copy)
      <4>1. i \in 1 .. Len(b) \/ i = Len(b) + 1
        BY <1>1, <1>7, <2>6, <3>2
      <4> QED
        BY <1>7, <2>1, <2>3, <2>6, <3>2, <4>1
    <3> QED
      BY <1>6, <3>1, <3>2
  <2> HIDE DEF q, a
  <2> QED
    BY <1>2, <1>6, <2>2, <2>4, <2>5, <2>6, Zenon DEF Receives
<1>11. ~Fresh(d)
  BY <1>2 DEF Fresh
<1>12. Early(d)' = Early(d)
  BY <1>2, <1>4, <1>6 DEF Early
<1> QED
  BY <1>4, <1>6, <1>9, <1>10, <1>11, <1>12 DEF ChannelOf

\* The peer of d sends: d has armed its DMA for this telegram, or it is the first.
LEMMA ChannelSent ==
  ASSUME IInv, ExTypeOK, ForkInv, NEW d \in Ctrl, WaitsOf(d), WaitsOf(Peer(d)), ArmedOf(d),
         ReadOf(d), ChannelOf(d), Transmit(Peer(d))
  PROVE  ChannelOf(d)'
<1> DEFINE c == Peer(d)  s == step[c]  a == rx[d].armedAt
<1>1. /\ rx[d].need \in 0 .. 3 /\ a \in Nat /\ Len(rx[d].buf) \in Nat /\ rx[d].buf \in Seq(Copies)
      /\ line[d] \in Seq(Copies) /\ Len(line[d]) \in Nat /\ DOMAIN line = Ctrl /\ DOMAIN step = Ctrl
      /\ s \in Nat \ {0} /\ K \in Nat \ {0} /\ c \in Ctrl /\ Peer(c) = d /\ c # d
  BY ChannelFacts DEF ExTypeOK
<1>2. /\ prog' = prog /\ rx' = rx /\ step'[c] = s + 1 /\ step'[d] = step[d]
      /\ line'[d] = line[d] \o <<Sent(prog, c, s), Sent(prog, c, s)>>
      /\ phase[c] = "transmit" /\ IsSend(prog[c], s)
  BY <1>1 DEF Transmit, NextCall, Copy, Sent, At, IsSend
<1>3. K' = K /\ X' = X /\ Served(d)' = Served(d)
  BY <1>2, ForkStays DEF Served
<1>4. SUFFICES ASSUME Served(d) PROVE ChannelOf(d)'
  BY <1>3 DEF ChannelOf
<1>5. s < K
  BY <1>1, <1>2, <1>4, SendsBehindFork
<1>6. a = s \/ (a = 0 /\ s = 1)
  BY <1>1, <1>2, <1>5, SendsToArmed
<1>7. HasRead(d)' = HasRead(d)
  BY <1>2 DEF HasRead
<1>8. ASSUME Len(line[d]) = 0
      PROVE  Len(line'[d]) = 2 /\ \A i \in 1 .. Len(line'[d]) : line'[d][i] = Sent(prog, c, s)
  <2>1. line[d] = <<>>
    BY <1>1, <1>8, EmptySeq
  <2>2. line'[d] = <<Sent(prog, c, s), Sent(prog, c, s)>>
    BY <1>2, <2>1
  <2> HIDE DEF s, c
  <2> QED
    BY <2>2
<1>9. CASE a = s
  <2>1. Early(d) /\ a # 0
    BY <1>1, <1>9 DEF Early
  <2>2. Fresh(d)
    BY <1>4, <2>1 DEF ChannelOf
  <2>3. ~Early(d)'
    BY <1>1, <1>2, <1>3, <1>5, <1>9 DEF Early
  <2>4. /\ Len(line'[d]) = 2
        /\ \A i \in 1 .. Len(line'[d]) : line'[d][i] = Sent(prog, c, a)
    BY <1>8, <1>9, <2>2 DEF Fresh
  <2>5. rx[d].need = 2 /\ Len(rx[d].buf) = 0 /\ ~HasRead(d)
    BY <2>2 DEF Fresh
  <2>6. Receives(d)'
    BY <1>2, <1>7, <2>4, <2>5 DEF Receives
  <2> QED
    BY <1>2, <2>1, <2>3, <2>6 DEF ChannelOf
<1>10. CASE a = 0 /\ s = 1
  <2>1. Unarmed(d)
    BY <1>4, <1>10 DEF ChannelOf
  <2>2. rx[d].need + Len(rx[d].buf) = 3 /\ Len(rx[d].buf) + Len(line[d]) = 0
    <3>1. /\ rx[d].need + Len(rx[d].buf) = 3
          /\ Len(rx[d].buf) + Len(line[d]) # 0 => step[c] > 1
      BY <2>1, Zenon DEF Unarmed
    <3>2. ~(step[c] > 1)
      BY <1>10
    <3> QED
      BY <3>1, <3>2
  <2>3. Len(rx[d].buf) = 0 /\ Len(line[d]) = 0 /\ rx[d].need = 3
    BY <1>1, <2>2
  <2>4. /\ Len(line'[d]) = 2
        /\ \A i \in 1 .. Len(line'[d]) : line'[d][i] = Sent(prog, c, 1)
    BY <1>8, <1>10, <2>3
  <2>5. step'[c] > 1 /\ IsSend(prog[c], 1)
    BY <1>2, <1>10
  <2>6. Unarmed(d)'
    BY <1>2, <2>3, <2>4, <2>5 DEF Unarmed
  <2> QED
    BY <1>2, <1>10, <2>6 DEF ChannelOf
<1> QED
  BY <1>6, <1>9, <1>10

\* The channel to each controller stays as it is said to be.
LEMMA KeepsChannel ==
  ASSUME ExInv, NEW c \in Ctrl, StepOf(c), NEW d \in Ctrl
  PROVE  ChannelOf(d)'
<1>0. /\ IInv /\ ExTypeOK /\ ForkInv /\ WaitsOf(c) /\ WaitsOf(d) /\ WaitsOf(Peer(d)) /\ ArmedOf(d)
      /\ ReadOf(d) /\ ChannelOf(d)
      /\ Peer(d) \in Ctrl /\ Peer(d) # d /\ (c = d \/ c = Peer(d))
  BY PeerIsOther DEF ExInv
<1>1. /\ step[d] \in Nat \ {0} /\ step[Peer(d)] \in Nat \ {0} /\ DOMAIN line = Ctrl
      /\ DOMAIN rx = Ctrl /\ DOMAIN step = Ctrl
  BY <1>0, ChannelFacts DEF ExTypeOK
<1>2. prog' = prog
  BY <1>0, ProgramSteps
<1>3. step'[c] = step[c] \/ step'[c] = step[c] + 1
  BY <1>0, ProgramSteps DEF Stays, Arms, Readies, Sends, Passes, Polls, Reads
<1>4. CASE c = d
  <2>1. step'[Peer(d)] = step[Peer(d)]
    BY <1>0, <1>4, OthersKeep
  <2>2. CASE ArmRxDma(d)
    BY <1>0, <2>1, <2>2, ChannelArmed
  <2>3. CASE GetBuffer(d) \/ RejectTelegram(d)
    BY <1>0, <2>1, <2>3, ChannelRead
  <2>4. CASE CopyArrives(d) \/ CopyFails(d)
    BY <1>0, <2>4, ChannelTakes
  <2>5. ASSUME rx'[d] = rx[d], line'[d] = line[d], ~Reads(d) PROVE ChannelOf(d)'
    <3>1. step'[d] = step[d] \/ (step'[d] = step[d] + 1 /\ ~IsGet(prog[d], step[d]))
      BY <1>0, <1>4, <2>5, ProgramSteps
         DEF Stays, Arms, Readies, Sends, Passes, Polls, IsGet, IsSend
    <3> QED
      BY <1>0, <1>1, <1>2, <2>1, <2>5, <3>1, ChannelFrame
  <2>6. CASE ReturnFromSync(d) \/ Busy(d)
    <3>1. rx' = rx /\ line' = line
      BY <2>6 DEF ReturnFromSync, Busy
    <3>2. ASSUME ReturnFromSync(d), Reads(d) PROVE FALSE
      <4>1. begun[d] = Waited(d) + 1
        BY <1>0, <3>2 DEF ReturnFromSync, SyncPass, WaitsOf
      <4>2. Waited(d) \in Nat
        BY <1>0, CountFacts
      <4> QED
        BY <1>0, <3>2, <4>1, <4>2 DEF WaitsOf, Reads
    <3>3. ASSUME Busy(d), Reads(d) PROVE FALSE
      BY <1>1, <3>3 DEF Busy, Reads
    <3> QED
      BY <2>5, <2>6, <3>1, <3>2, <3>3
  <2>7. CASE Transmit(d)
    <3>1. rx' = rx /\ line'[d] = line[d]
      BY <1>0, <1>1, <2>7 DEF Transmit
    <3>2. ~Reads(d)
      BY <2>7 DEF Transmit, At, Reads
    <3> QED
      BY <2>5, <3>1, <3>2
  <2>8. CASE UNCHANGED <<prog, step, phase, rx, line, got>>
    BY <1>0, <1>1, <1>2, <2>1, <2>8, ChannelFrame
  <2> QED
    BY <1>0, <1>4, <2>2, <2>3, <2>4, <2>6, <2>7, <2>8, OtherSteps DEF Moves
<1>5. CASE c = Peer(d)
  <2>1. CASE Transmit(c)
    BY <1>0, <1>5, <2>1, ChannelSent
  <2>2. CASE ~Transmit(c)
    <3>1. rx'[d] = rx[d] /\ line'[d] = line[d] /\ step'[d] = step[d]
      BY <1>0, <1>5, <2>2, OthersKeep
    <3>2. step'[Peer(d)] \in Nat /\ step'[Peer(d)] >= step[Peer(d)]
      BY <1>1, <1>3, <1>5
    <3> QED
      BY <1>0, <1>2, <3>1, <3>2, ChannelFrame
  <2> QED
    BY <2>1, <2>2
<1> QED
  BY <1>0, <1>4, <1>5

\* The invariant holds at the start.
LEMMA InitEstablishesExInv == IpcExchangeInit => ExInv
<1> SUFFICES ASSUME IpcExchangeInit PROVE ExInv
  OBVIOUS
<1>1. /\ prog \in Progs /\ step = [c \in Ctrl |-> 1] /\ phase = [c \in Ctrl |-> "entry"]
      /\ rx = [c \in Ctrl |-> [need |-> 3, buf |-> <<>>, armedAt |-> 0]]
      /\ line = [c \in Ctrl |-> <<>>] /\ got = [c \in Ctrl |-> Nothing]
      /\ begun = [c \in Ctrl |-> 0] /\ pc = [c \in Ctrl |-> "init"]
  BY DEF IpcExchangeInit, IpcSyncInit, InitialNeed
<1>2. IInv
  BY InitEstablishesIInv DEF IpcExchangeInit
<1>3. ExTypeOK
  <2>1. \A c \in Ctrl : Len(prog[c]) \in Nat
    BY <1>1, ProgsAreCalls, LenProperties
  <2>2. <<>> \in Seq(Copies) /\ Len(<<>>) = 0
    OBVIOUS
  <2>3. Nothing \in [copy : Copies, armedAt : Nat]
    BY DEF Nothing, Cleared, Copies
  <2>4. step \in [Ctrl -> Nat \ {0}] /\ \A c \in Ctrl : step[c] <= Len(prog[c]) + 1
    BY <1>1, <2>1
  <2>5. rx \in [Ctrl -> [need : 0 .. 3, buf : Seq(Copies), armedAt : Nat]]
    BY <1>1, <2>2
  <2>6. \A c \in Ctrl : rx[c].need + Len(rx[c].buf) >= 2
    BY <1>1, <2>2
  <2> QED
    BY <1>1, <2>2, <2>3, <2>4, <2>5, <2>6 DEF ExTypeOK
<1>4. /\ K \in Nat \ {0} /\ X \in Ctrl /\ Y \in Ctrl
      /\ Len(prog[X]) \in Nat /\ Len(prog[Y]) \in Nat
  BY <1>3, ForkFacts, ProgFacts
<1>5. ForkInv
  BY <1>1, <1>4 DEF ForkInv
<1>6. ASSUME NEW c \in Ctrl PROVE WaitsOf(c) /\ ArmedOf(c) /\ ReadOf(c) /\ ChannelOf(c)
  <2>1. /\ step[c] = 1 /\ phase[c] = "entry" /\ begun[c] = 0 /\ pc[c] = "init"
        /\ rx[c] = [need |-> 3, buf |-> <<>>, armedAt |-> 0] /\ line[c] = <<>>
    BY <1>1
  <2>2. Waited(c) = 1
    BY <2>1, WaitsStep DEF Waited
  <2>3. WaitsOf(c)
    BY <2>1, <2>2 DEF WaitsOf
  <2>4. ArmedOf(c)
    BY <2>1 DEF ArmedOf
  <2>5. ReadOf(c)
    BY <1>4, <2>1 DEF ReadOf
  <2>6. ChannelOf(c)
    BY <2>1 DEF ChannelOf, Unarmed
  <2> QED
    BY <2>3, <2>4, <2>5, <2>6
<1> QED
  BY <1>2, <1>3, <1>5, <1>6 DEF ExInv

\* Every step keeps it.
LEMMA NextKeepsExInv == ExInv /\ [IpcExchangeNext]_ipcVars => ExInv'
<1>1. ASSUME ExInv, UNCHANGED ipcVars PROVE ExInv'
  <2>0. UNCHANGED syncVars /\ UNCHANGED <<prog, step, phase, rx, line, got>>
    BY <1>1 DEF ipcVars, exVars
  <2>1. IInv'
    BY <1>1, <2>0, NextKeepsIInv DEF ExInv
  <2>2. UNCHANGED <<pc, begun, ended>>
    BY <2>0 DEF syncVars
  <2>3. ExTypeOK'
    BY <1>1, <2>0 DEF ExInv, ExTypeOK
  <2>4. K' = K /\ X' = X /\ Y' = Y
    BY <2>0, ForkStays
  <2>5. ForkInv'
    BY <1>1, <2>0, <2>4 DEF ExInv, ForkInv
  <2>6. ASSUME NEW c \in Ctrl PROVE (WaitsOf(c) /\ ArmedOf(c) /\ ReadOf(c) /\ ChannelOf(c))'
    <3>1. WaitsOf(c)'
      BY <1>1, <2>0, <2>2 DEF ExInv, WaitsOf, Waited
    <3>2. ArmedOf(c)'
      BY <1>1, <2>0 DEF ExInv, ArmedOf
    <3>3. ReadOf(c)'
      BY <1>1, <2>0, <2>4 DEF ExInv, ReadOf
    <3>4. ChannelOf(c)'
      BY <1>1, <2>0, <2>4
         DEF ExInv, ChannelOf, Served, Early, Unarmed, Fresh, Receives, HasRead
    <3> QED
      BY <3>1, <3>2, <3>3, <3>4
  <2> QED
    BY <2>1, <2>3, <2>5, <2>6 DEF ExInv
<1>2. ASSUME ExInv, NEW c \in Ctrl, StepOf(c) PROVE ExInv'
  <2>0. IInv /\ ExTypeOK /\ WaitsOf(c) /\ ArmedOf(c)
    BY <1>2 DEF ExInv
  <2>1. IInv'
    BY <1>2, <2>0, SyncSteps, NextKeepsIInv
  <2>2. ExTypeOK'
    BY <1>2, <2>0, KeepsTypes
  <2>3. ForkInv'
    BY <1>2, <2>1, KeepsFork
  <2>4. ASSUME NEW d \in Ctrl PROVE WaitsOf(d)' /\ ArmedOf(d)'
    <3>1. CASE d = c
      BY <1>2, <2>0, <3>1, KeepsWaits, KeepsArmed
    <3>2. CASE d # c
      <4>1. /\ prog' = prog /\ pc'[d] = pc[d] /\ begun'[d] = begun[d] /\ ended'[d] = ended[d]
            /\ step'[d] = step[d] /\ phase'[d] = phase[d] /\ rx'[d] = rx[d]
        BY <1>2, <2>0, <3>2, OthersKeep
      <4>2. WaitsOf(d) /\ ArmedOf(d)
        BY <1>2 DEF ExInv
      <4> QED
        BY <4>1, <4>2 DEF WaitsOf, ArmedOf, Waited
    <3> QED
      BY <3>1, <3>2
  <2>5. ASSUME NEW d \in Ctrl PROVE ReadOf(d)' /\ ChannelOf(d)'
    BY <1>2, KeepsRead, KeepsChannel
  <2> QED
    BY <2>1, <2>2, <2>3, <2>4, <2>5 DEF ExInv
<1> QED
  BY <1>1, <1>2 DEF IpcExchangeNext, StepOf

\* It always holds.
LEMMA ExInvHolds == IpcExchangeSpec => []ExInv
BY InitEstablishesExInv, NextKeepsExInv, PTL DEF IpcExchangeSpec

\* What a controller takes out of its buffer is of the exchange it armed its DMA
\* for.
LEMMA NextKeepsConsumed ==
  ExInv /\ ConsumesCurrentPeerData /\ [IpcExchangeNext]_ipcVars => ConsumesCurrentPeerData'
<1>1. ASSUME ConsumesCurrentPeerData, UNCHANGED got PROVE ConsumesCurrentPeerData'
  BY <1>1 DEF ConsumesCurrentPeerData
<1>2. ASSUME ExInv, ConsumesCurrentPeerData, NEW c \in Ctrl, GetBuffer(c)
      PROVE  ConsumesCurrentPeerData'
  <2>1. ExTypeOK /\ ForkInv /\ ArmedOf(c) /\ ChannelOf(c) /\ DOMAIN got = Ctrl
    BY <1>2 DEF ExInv, ExTypeOK
  <2>2. IsGet(prog[c], step[c]) /\ rx[c].need = 0
    BY <1>2, <2>1 DEF GetBuffer, Reading, At, IsGet, ExTypeOK
  <2>3. Receives(c)
    BY <2>1, <2>2, ReadsReceived
  <2>4. Len(rx[c].buf) = 2
    <3>1. Len(rx[c].buf) \in Nat /\ rx[c].need + Len(rx[c].buf) = 2
      BY <2>1, <2>3, ChannelFacts DEF Receives
    <3> QED
      BY <2>2, <3>1
  <2>5. Chosen(c).ok /\ Chosen(c) \in {rx[c].buf[1], rx[c].buf[2]}
    BY <1>2 DEF GetBuffer, CrcRight, Chosen
  <2>6. Chosen(c).at = rx[c].armedAt /\ Chosen(c).from \in Ctrl
    BY <2>3, <2>4, <2>5 DEF Receives
  <2>7. Chosen(c).from = Peer(c)
    BY <1>2, <2>6, PeerIsOther DEF GetBuffer
  <2>8. got'[c] = [copy |-> Chosen(c), armedAt |-> rx[c].armedAt]
    BY <1>2, <2>1 DEF GetBuffer
  <2>9. \A d \in Ctrl : d # c => got'[d] = got[d]
    BY <1>2, <2>1 DEF GetBuffer
  <2> QED
    BY <1>2, <2>5, <2>6, <2>7, <2>8, <2>9 DEF ConsumesCurrentPeerData
<1>3. ASSUME NEW c \in Ctrl, StepOf(c), ~GetBuffer(c) PROVE UNCHANGED got
  BY <1>3, OtherSteps DEF Moves, ReturnFromSync, ArmRxDma, Transmit, Busy, RejectTelegram,
                          CopyArrives, CopyFails
<1>4. UNCHANGED ipcVars => UNCHANGED got
  BY DEF ipcVars, exVars
<1> QED
  BY <1>1, <1>2, <1>3, <1>4 DEF IpcExchangeNext, StepOf

\* The calls of the exchange use the pins as IpcSync says: all its theorems hold of
\* the exchange.
THEOREM ExchangeSynchronises == IpcExchangeSpec => IpcSyncSpec
<1>1. IpcExchangeInit => IpcSyncInit
  BY DEF IpcExchangeInit
<1>2. [IpcExchangeNext]_ipcVars => [IpcSyncNext]_syncVars
  BY SyncSteps DEF IpcExchangeNext, StepOf, ipcVars
<1> QED
  BY <1>1, <1>2, PTL DEF IpcExchangeSpec, IpcSyncSpec

\* Whatever happens on the line, data handed to a caller are undamaged, the peer's,
\* and of the exchange the receiver armed its DMA for: for all programs that read
\* each telegram before the next, where they fork too.
THEOREM NeverStaleOrForeign == IpcExchangeSpec => []ConsumesCurrentPeerData
<1>1. IpcExchangeInit => ConsumesCurrentPeerData
  BY DEF IpcExchangeInit, ConsumesCurrentPeerData
<1> QED
  BY <1>1, InitEstablishesExInv, NextKeepsExInv, NextKeepsConsumed, PTL DEF IpcExchangeSpec

\* Controllers that run the same program send each telegram but the first to a
\* peer that has restarted its DMA for it and has an empty line.
THEOREM SendsToArmedReceivers == IpcExchangeSpec => LaterSendsToArmedReceiver
<1>1. ASSUME ExInv, NEW c \in Ctrl, Transmit(c), begun[c] > 2, prog[C1] = prog[C2]
      PROVE  ArmedFor(Peer(c), step[c]) /\ line[Peer(c)] = <<>>
  <2> DEFINE d == Peer(c)
  <2>0. /\ IInv /\ ExTypeOK /\ ForkInv /\ WaitsOf(c) /\ WaitsOf(d) /\ ArmedOf(d) /\ ReadOf(d)
        /\ ChannelOf(d) /\ d \in Ctrl /\ Peer(d) = c
    BY <1>1, PeerIsOther DEF ExInv
  <2>1. /\ rx[d] \in [need : 0 .. 3, buf : Seq(Copies), armedAt : Nat]
        /\ step[c] \in Nat \ {0} /\ step[d] \in Nat \ {0} /\ K \in Nat /\ begun[c] \in Nat
    BY <2>0, ChannelFacts, CountFacts
  <2>2. \A e \in Ctrl : step[e] < K
    <3>1. Len(prog[C1]) + 1 < K
      BY <1>1, <2>0, ForkFacts
    <3>2. \A e \in Ctrl : prog[e] = prog[C1]
      BY <1>1 DEF Ctrl
    <3>3. ASSUME NEW e \in Ctrl PROVE step[e] < K
      <4>1. step[e] \in 1 .. Len(prog[e]) + 1 /\ Len(prog[e]) \in Nat
        BY <2>0, ProgFacts
      <4> QED
        BY <2>1, <3>1, <3>2, <4>1
    <3> QED
      BY <3>3
  <2>3. phase[c] = "transmit"
    BY <1>1 DEF Transmit, At
  <2>4. rx[d].armedAt = step[c] \/ step[c] = 1
    BY <2>0, <2>2, <2>3, SendsToArmed
  <2>5. step[c] # 1
    <3>1. ASSUME step[c] = 1 PROVE FALSE
      <4>1. Waited(c) = 1
        BY <3>1, WaitsStep DEF Waited
      <4>2. begun[c] = Waited(c) + 1
        BY <2>0, <2>3 DEF WaitsOf
      <4> QED
        BY <1>1, <4>1, <4>2
    <3> QED
      BY <3>1
  <2>6. Served(d) /\ Early(d) /\ rx[d].armedAt # 0 /\ rx[d].armedAt = step[c]
    BY <2>0, <2>1, <2>2, <2>4, <2>5 DEF Served, Early
  <2>7. Fresh(d)
    BY <2>0, <2>6 DEF ChannelOf
  <2>8. rx[d] = [need |-> 2, buf |-> <<>>, armedAt |-> step[c]]
    BY <2>1, <2>6, <2>7 DEF Fresh
  <2> QED
    BY <2>7, <2>8 DEF Fresh, ArmedFor
<1>2. ExInv /\ [IpcExchangeNext]_ipcVars =>
        [\A c \in Ctrl : Transmit(c) /\ begun[c] > 2 /\ prog[C1] = prog[C2] =>
           ArmedFor(Peer(c), step[c]) /\ line[Peer(c)] = <<>>]_ipcVars
  BY <1>1
<1> QED
  BY <1>2, ExInvHolds, PTL DEF IpcExchangeSpec, LaterSendsToArmedReceiver

=============================================================================
