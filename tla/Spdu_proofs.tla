------------------------------ MODULE Spdu_proofs ------------------------------
(***************************************************************************)
(* Proof that the controllers never put halves of different messages       *)
(* together, and that no message waits for longer than a cycle, for every  *)
(* range of the DUI and every pace of the messages.                        *)
(*                                                                         *)
(* The halves in tx of the controllers differ by the message that only one *)
(* of them has generated in the present run, and rx is what tx of the      *)
(* other controller was between the start and the end of that run: at most *)
(* one message older than tx, which its DUI tells.                         *)
(***************************************************************************)
EXTENDS Spdu, TLAPS

\* The controller has generated the message of this run.
Done(c, ch) == \E i \in 1 .. pos[c] : work[i] = ch

\* The run of a task, and the place of each controller in it.
RunOK ==
  /\ work \in Runs
  /\ pos \in [C -> 0 .. Len(work)]
  /\ slice \in {6, 39} => \A c \in C : pos[c] = Len(work)

\* a is one message further than b where a's controller alone has generated it.
Ahead(a, b, aDone, bDone) ==
  \/ a = b /\ (aDone <=> bDone)
  \/ a = Succ(b) /\ aDone /\ ~bDone
  \/ b = Succ(a) /\ bDone /\ ~aDone

\* The controllers prepare the same messages, one before the other.
SendersInStep ==
  \A ch \in Channels : Ahead(tx[C1][ch], tx[C2][ch], Done(C1, ch), Done(C2, ch))

\* The half of the other controller, against the own one.
Received(c, ch) ==
  \/ rx[c][ch] = tx[c][ch]
  \/ tx[c][ch] = Succ(rx[c][ch]) /\ Done(c, ch)
  \/ rx[c][ch] = Succ(tx[c][ch]) /\ ~Done(c, ch)

\* After the exchange each has the halves of the other, of the same run.
ReceiversInStep == slice = 38 => \A c \in C, ch \in Channels : Received(c, ch)

\* The inductive invariant.
IInv == SpduTypeOK /\ RunOK /\ SendersInStep /\ ReceiversInStep /\ HalvesMatch

-----------------------------------------------------------------------------

\* The DUI tells a message from the next one (Dui, Succ).
LEMMA DuiTellsNext ==
  ASSUME NEW m \in Messages
  PROVE  Succ(m) \in Messages /\ Dui(Succ(m)) # Dui(m) /\ Dui(m) \in Messages
  BY WrapAssumption DEF Messages, Succ, Dui

\* A run generates at most one message of each connection (Runs).
LEMMA RunsAreShort ==
  ASSUME NEW w \in Runs
  PROVE  /\ Len(w) \in 0 .. 2
         /\ \A i \in 1 .. Len(w) : w[i] \in Channels
         /\ \A i, j \in 1 .. Len(w) : w[i] = w[j] => i = j
  BY DEF Runs, Channels

\* It holds at the start.
LEMMA InitInv == Init => IInv
<1> SUFFICES ASSUME Init PROVE IInv
  OBVIOUS
<1>1. SpduTypeOK
  BY WrapAssumption
  DEF Init, SpduTypeOK, Messages, Parts, Default, Channels, C
<1>2. RunOK
  BY DEF Init, RunOK, Runs, C
<1>3. SendersInStep
  BY DEF Init, SendersInStep, Ahead, Done, C
<1>4. ReceiversInStep
  BY DEF Init, ReceiversInStep
<1>5. HalvesMatch
  BY DEF Init, HalvesMatch, Default
<1> QED
  BY <1>1, <1>2, <1>3, <1>4, <1>5 DEF IInv

\* The background tasks begin a run: nothing of it is generated yet.
LEMMA TriggerKeeps == IInv /\ SAPL_BkgdTaskTrigger => IInv'
<1> SUFFICES ASSUME IInv, SAPL_BkgdTaskTrigger PROVE IInv'
  OBVIOUS
<1> USE DEF IInv
<1>1. work' \in Runs /\ Len(work') \in 0 .. 2
  BY RunsAreShort DEF SAPL_BkgdTaskTrigger
<1>2. age' \in [Channels -> 0 .. 2]
  <2>1. \A n \in 0 .. 2 : 0 \in 0 .. 2 /\ (IF n < 2 THEN n + 1 ELSE 2) \in 0 .. 2
    OBVIOUS
  <2>2. \A ch \in Channels : age[ch] \in 0 .. 2
    BY DEF SpduTypeOK
  <2> QED
    BY <2>1, <2>2 DEF SAPL_BkgdTaskTrigger
<1>3. SpduTypeOK'
  BY <1>1, <1>2 DEF SAPL_BkgdTaskTrigger, SpduTypeOK
<1>4. RunOK'
  BY <1>1 DEF SAPL_BkgdTaskTrigger, RunOK
<1>5. \A c \in C, ch \in Channels : ~Done(c, ch)'
  BY DEF SAPL_BkgdTaskTrigger, Done
<1>6. \A ch \in Channels : Done(C1, ch) <=> Done(C2, ch)
  BY DEF SAPL_BkgdTaskTrigger, RunOK, Done, C
<1>7. SendersInStep'
  BY <1>5, <1>6 DEF SAPL_BkgdTaskTrigger, SendersInStep, Ahead, C
<1>8. ReceiversInStep' /\ HalvesMatch'
  BY DEF SAPL_BkgdTaskTrigger, ReceiversInStep, HalvesMatch
<1> QED
  BY <1>3, <1>4, <1>7, <1>8

\* A controller generates its half of the next message.
LEMMA PrepKeeps == ASSUME NEW c \in C PROVE IInv /\ spduIn_PrepIpc(c) => IInv'
<1> SUFFICES ASSUME IInv, spduIn_PrepIpc(c) PROVE IInv'
  OBVIOUS
<1> USE DEF IInv
<1>1. /\ work \in Runs /\ pos[c] \in 0 .. Len(work) /\ pos[c] + 1 \in 1 .. Len(work)
      /\ work[pos[c] + 1] \in Channels
  BY RunsAreShort DEF spduIn_PrepIpc, RunOK, SpduTypeOK
<1>2. PICK i \in 1 .. Len(work), ch \in Channels : i = pos[c] + 1 /\ ch = work[i]
  BY <1>1
<1>3. ~Done(c, ch)
  BY <1>1, <1>2, RunsAreShort DEF Done
<1>4. Done(c, ch)'
  <2>1. pos'[c] = i /\ work' = work /\ i \in 1 .. i
    BY <1>1, <1>2, RunsAreShort DEF spduIn_PrepIpc, SpduTypeOK
  <2>2. work'[i] = ch
    BY <2>1, <1>2
  <2> QED
    BY <2>1, <2>2 DEF Done
<1>5. \A d \in C, k \in Channels : d # c \/ k # ch => (Done(d, k)' <=> Done(d, k))
  BY <1>1, <1>2, RunsAreShort DEF spduIn_PrepIpc, Done, SpduTypeOK
<1>6. /\ tx[c][ch] \in Messages
      /\ tx'[c][ch] = Succ(tx[c][ch])
      /\ \A d \in C, k \in Channels : d # c \/ k # ch => tx'[d][k] = tx[d][k]
  BY <1>2 DEF spduIn_PrepIpc, SpduTypeOK
<1>7. SpduTypeOK'
  <2>1. tx' \in [C -> [Channels -> Messages]]
    BY <1>2, <1>6, DuiTellsNext DEF spduIn_PrepIpc, SpduTypeOK
  <2>2. pos' \in [C -> 0 .. Len(work')]
    BY <1>1, RunsAreShort DEF spduIn_PrepIpc, SpduTypeOK
  <2> QED
    BY <2>1, <2>2 DEF spduIn_PrepIpc, SpduTypeOK
<1>8. RunOK'
  <2>1. pos' \in [C -> 0 .. Len(work')]
    BY <1>7 DEF SpduTypeOK
  <2>2. slice' \notin {6, 39}
    BY <1>1, RunsAreShort DEF spduIn_PrepIpc, RunOK, SpduTypeOK
  <2> QED
    BY <2>1, <2>2, <1>1 DEF spduIn_PrepIpc, RunOK
<1>9. SendersInStep'
  <2> SUFFICES ASSUME NEW k \in Channels
               PROVE  Ahead(tx'[C1][k], tx'[C2][k], Done(C1, k)', Done(C2, k)')
    BY DEF SendersInStep, Ahead
  <2>1. Ahead(tx[C1][k], tx[C2][k], Done(C1, k), Done(C2, k))
    BY DEF SendersInStep
  <2>2. CASE k # ch
    BY <2>1, <2>2, <1>5, <1>6 DEF Ahead, C
  <2>3. CASE k = ch /\ c = C1
    <3>1. /\ tx'[C1][k] = Succ(tx[C1][k]) /\ tx'[C2][k] = tx[C2][k]
          /\ ~Done(C1, k) /\ Done(C1, k)' /\ (Done(C2, k)' <=> Done(C2, k))
      BY <2>3, <1>3, <1>4, <1>5, <1>6, TwoControllers DEF C
    <3> QED
      BY <3>1, <2>1 DEF Ahead
  <2>4. CASE k = ch /\ c = C2
    <3>1. /\ tx'[C2][k] = Succ(tx[C2][k]) /\ tx'[C1][k] = tx[C1][k]
          /\ ~Done(C2, k) /\ Done(C2, k)' /\ (Done(C1, k)' <=> Done(C1, k))
      BY <2>4, <1>3, <1>4, <1>5, <1>6, TwoControllers DEF C
    <3> QED
      BY <3>1, <2>1 DEF Ahead
  <2> QED
    BY <2>2, <2>3, <2>4 DEF C
<1>10. ReceiversInStep'
  <2> SUFFICES ASSUME slice' = 38, NEW d \in C, NEW k \in Channels
               PROVE  Received(d, k)'
    BY DEF ReceiversInStep
  <2>1. Received(d, k) /\ rx' = rx
    BY DEF spduIn_PrepIpc, ReceiversInStep
  <2>2. CASE d # c \/ k # ch
    BY <2>1, <2>2, <1>5, <1>6 DEF Received
  <2>3. CASE d = c /\ k = ch
    <3>1. tx'[d][k] = Succ(tx[d][k]) /\ ~Done(d, k) /\ Done(d, k)' /\ rx'[d][k] = rx[d][k]
      BY <2>1, <2>3, <1>3, <1>4, <1>6
    <3> QED
      BY <3>1, <2>1 DEF Received
  <2> QED
    BY <2>2, <2>3
<1>11. HalvesMatch'
  BY DEF spduIn_PrepIpc, HalvesMatch
<1> QED
  BY <1>7, <1>8, <1>9, <1>10, <1>11

\* Slices 34 and 35: each controller gets what the other one has by then.
LEMMA ExchangeKeeps == IInv /\ spduIn_ExchangeSafeTgm => IInv'
<1> SUFFICES ASSUME IInv, spduIn_ExchangeSafeTgm PROVE IInv'
  OBVIOUS
<1> USE DEF IInv
<1>1. \A c \in C : Peer(c) \in C
  BY DEF Peer, C
<1>2. SpduTypeOK'
  BY <1>1 DEF spduIn_ExchangeSafeTgm, SpduTypeOK
<1>3. RunOK' /\ HalvesMatch'
  BY DEF spduIn_ExchangeSafeTgm, RunOK, HalvesMatch
<1>4. SendersInStep'
  BY DEF spduIn_ExchangeSafeTgm, SendersInStep, Ahead, Done
<1>5. ReceiversInStep'
  <2> SUFFICES ASSUME NEW c \in C, NEW ch \in Channels PROVE Received(c, ch)'
    BY DEF ReceiversInStep
  <2>1. /\ rx'[c][ch] = tx[Peer(c)][ch] /\ tx'[c][ch] = tx[c][ch]
        /\ Done(c, ch)' <=> Done(c, ch)
    BY DEF spduIn_ExchangeSafeTgm, Done
  <2>2. Ahead(tx[C1][ch], tx[C2][ch], Done(C1, ch), Done(C2, ch))
    BY DEF SendersInStep
  <2> QED
    BY <2>1, <2>2, TwoControllers DEF Received, Ahead, Peer, C
<1> QED
  BY <1>2, <1>3, <1>4, <1>5

\* Slice 38: both controllers have done all of the run, so a half that is not
\* of the same message is of the one before, and its DUI differs.
LEMMA BuildKeeps == IInv /\ aicMgrTx_BuildAsmTgm => IInv'
<1> SUFFICES ASSUME IInv, aicMgrTx_BuildAsmTgm PROVE IInv'
  OBVIOUS
<1> USE DEF IInv
<1>1. ASSUME NEW c \in C, NEW ch \in Channels, BothHave(c, ch)
      PROVE  tx[c][ch] = rx[c][ch]
  <2>1. Received(c, ch)
    BY DEF aicMgrTx_BuildAsmTgm, ReceiversInStep
  <2>2. tx[c][ch] \in Messages /\ rx[c][ch] \in Messages
    BY DEF SpduTypeOK
  <2>3. Dui(tx[c][ch]) = Dui(rx[c][ch])
    BY <1>1 DEF BothHave
  <2> QED
    BY <2>1, <2>2, <2>3, DuiTellsNext DEF Received
<1>2. \A c \in C, ch \in Channels :
        /\ packet'[c][ch] \in Parts
        /\ packet'[c][ch].own = packet'[c][ch].peer
  <2>1. CASE executing = {}
    BY <2>1 DEF aicMgrTx_BuildAsmTgm, spduIn_BuildTgmDummy, Default, Parts
  <2>2. CASE executing # {}
    <3> SUFFICES ASSUME NEW c \in C, NEW ch \in Channels
                 PROVE  /\ packet'[c][ch] \in Parts
                        /\ packet'[c][ch].own = packet'[c][ch].peer
      OBVIOUS
    <3>1. packet'[c][ch] = SetTgm(c, ch)
      BY <2>2 DEF aicMgrTx_BuildAsmTgm, spduIn_BuildTgm
    <3>2. CASE BothHave(c, ch)
      BY <3>1, <3>2, <1>1 DEF SetTgm, SpduTypeOK, Parts
    <3>3. CASE ~BothHave(c, ch)
      BY <3>1, <3>3 DEF SetTgm, SpduTypeOK, HalvesMatch
    <3> QED
      BY <3>2, <3>3
  <2> QED
    BY <2>1, <2>2
<1>3. SpduTypeOK'
  <2>1. packet' \in [C -> [Channels -> Parts]]
    BY <1>2 DEF aicMgrTx_BuildAsmTgm, spduIn_BuildTgm, spduIn_BuildTgmDummy
  <2>2. lastSent' \in [C -> [Channels -> Messages]]
    <3>1. CASE executing = {}
      BY <3>1 DEF aicMgrTx_BuildAsmTgm, spduIn_BuildTgmDummy, SpduTypeOK
    <3>2. CASE executing # {}
      <4>1. lastSent' = [c \in C |-> [ch \in Channels |->
                           IF BothHave(c, ch) THEN tx[c][ch] ELSE lastSent[c][ch]]]
        BY <3>2 DEF aicMgrTx_BuildAsmTgm, spduIn_BuildTgm
      <4>2. \A c \in C, ch \in Channels : tx[c][ch] \in Messages /\ lastSent[c][ch] \in Messages
        BY DEF SpduTypeOK
      <4> QED
        BY <4>1, <4>2
    <3> QED
      BY <3>1, <3>2
  <2> QED
    BY <2>1, <2>2 DEF aicMgrTx_BuildAsmTgm, SpduTypeOK
<1>4. RunOK'
  BY DEF aicMgrTx_BuildAsmTgm, RunOK
<1>5. SendersInStep' /\ ReceiversInStep'
  BY DEF aicMgrTx_BuildAsmTgm, SendersInStep, ReceiversInStep, Ahead, Done
<1>6. HalvesMatch'
  BY <1>2 DEF HalvesMatch
<1> QED
  BY <1>3, <1>4, <1>5, <1>6

\* Slice 39 resets parts to their default.
LEMMA StatemachineKeeps == IInv /\ aicSm_Statemachine => IInv'
<1> SUFFICES ASSUME IInv, aicSm_Statemachine PROVE IInv'
  OBVIOUS
<1> USE DEF IInv
<1>1. SpduTypeOK'
  BY DEF aicSm_Statemachine, SpduTypeOK, Parts
<1>2. RunOK'
  BY DEF aicSm_Statemachine, RunOK
<1>3. SendersInStep' /\ ReceiversInStep'
  BY DEF aicSm_Statemachine, SendersInStep, ReceiversInStep, Ahead, Done
<1>4. HalvesMatch'
  BY DEF aicSm_Statemachine, HalvesMatch, Default
<1> QED
  BY <1>1, <1>2, <1>3, <1>4

\* Every step keeps it.
LEMMA NextKeeps == IInv /\ [Next]_vars => IInv'
<1> SUFFICES ASSUME IInv, [Next]_vars PROVE IInv'
  OBVIOUS
<1>1. CASE UNCHANGED vars
  <2>1. SpduTypeOK'
    BY <1>1 DEF vars, IInv, SpduTypeOK
  <2>2. RunOK' /\ SendersInStep' /\ ReceiversInStep' /\ HalvesMatch'
    BY <1>1 DEF vars, IInv, RunOK, SendersInStep, Ahead, Done, ReceiversInStep, Received,
                HalvesMatch
  <2> QED
    BY <2>1, <2>2 DEF IInv
<1>2. CASE Next
  BY <1>2, TriggerKeeps, PrepKeeps, ExchangeKeeps, BuildKeeps, StatemachineKeeps DEF Next
<1> QED
  BY <1>1, <1>2

-----------------------------------------------------------------------------
(* Messages are in the packet in time. *)

\* Controller c still generates the message of this run.
Pending(c, ch) == (\E i \in 1 .. Len(work) : work[i] = ch) /\ ~Done(c, ch)

\* A controller is never so far ahead of the packet that a DUI comes again.
DuiUnique ==
  \A c \in C, ch \in Channels :
    Distance(tx[c][ch], lastSent[c][ch]) <= Wrap - IF Pending(c, ch) THEN 2 ELSE 1

\* A message counts as sent only when it is in the packet.
SentIsInPacket ==
  \A c \in C, ch \in executing :
    age[ch] <= 1 /\ ~Pending(c, ch) /\ lastSent[c][ch] = tx[c][ch] =>
      packet[c][ch] = [own |-> tx[c][ch], peer |-> tx[c][ch]]

\* A message of the cycle before, of an open connection and none in this cycle.
Fresh(ch) == age[ch] = 1
\* What the age of a message says about the run and about the exchange.
AgeTellsRun ==
  /\ \A ch \in Channels : age[ch] <= 1 => ch \in executing
  /\ slice # 6 => \A ch \in Channels : Fresh(ch) => ~\E i \in 1 .. Len(work) : work[i] = ch
  /\ slice = 38 => \A c \in C, ch \in Channels : Fresh(ch) => rx[c][ch] = tx[c][ch]
  /\ slice = 39 => \A c \in C, ch \in Channels : Fresh(ch) => lastSent[c][ch] = tx[c][ch]

\* What makes a message current, in addition to the invariant above.
TimeInv == DuiUnique /\ SentIsInPacket /\ AgeTellsRun

\* The next message is one further from an older one, and the DUI tells
\* messages apart that are closer than its range.
LEMMA Distances ==
  ASSUME NEW m \in Messages, NEW n \in Messages
  PROVE  /\ Distance(m, n) \in Nat
         /\ Distance(m, m) = 0
         /\ Distance(m, n) < Wrap => Distance(Succ(m), n) = Distance(m, n) + 1
         /\ Distance(m, n) < Wrap /\ Dui(m) = Dui(n) => m = n
  BY WrapAssumption DEF Messages, Distance, Succ, Dui

\* It holds at the start.
LEMMA TimeInitially == Init => TimeInv
<1> SUFFICES ASSUME Init PROVE TimeInv
  OBVIOUS
<1>1. DuiUnique
  <2> SUFFICES ASSUME NEW c \in C, NEW ch \in Channels
               PROVE  Distance(tx[c][ch], lastSent[c][ch]) <=
                        Wrap - IF Pending(c, ch) THEN 2 ELSE 1
    BY DEF DuiUnique
  <2>1. ~Pending(c, ch)
    BY DEF Init, Pending
  <2>2. tx[c][ch] = 0 /\ lastSent[c][ch] = 0
    BY DEF Init
  <2> QED
    BY <2>1, <2>2, WrapAssumption DEF Distance
<1>2. SentIsInPacket
  BY DEF Init, SentIsInPacket
<1>3. AgeTellsRun
  BY DEF Init, AgeTellsRun, Fresh
<1> QED
  BY <1>1, <1>2, <1>3 DEF TimeInv

\* A trigger of the background task keeps it.
LEMMA TriggerKeepsTime ==
  IInv /\ TimeInv /\ SAPL_BkgdTaskTrigger => TimeInv'
<1> SUFFICES ASSUME IInv, TimeInv, SAPL_BkgdTaskTrigger PROVE TimeInv'
  OBVIOUS
<1> DEFINE Chosen(ch) == \E i \in 1 .. Len(work') : work'[i] = ch
<1>1. /\ UNCHANGED <<executing, tx, lastSent, packet>>
      /\ slice = 6 /\ slice' = 34
      /\ work' \in Runs /\ DOMAIN work' = 1 .. Len(work')
      /\ \A i \in 1 .. Len(work') : MayGenerate(work'[i])
  BY DEF SAPL_BkgdTaskTrigger, Runs
<1>2. \A ch \in Channels :
        age'[ch] = IF Chosen(ch) THEN 0
                   ELSE IF age[ch] < 2 THEN age[ch] + 1 ELSE 2
  BY <1>1 DEF SAPL_BkgdTaskTrigger
<1>3. \A c \in C, ch \in Channels : ~Pending(c, ch)
  BY <1>1 DEF IInv, RunOK, Pending, Done
<1>4. \A c \in C, ch \in Channels : Pending(c, ch)' <=> Chosen(ch)
  BY <1>1 DEF SAPL_BkgdTaskTrigger, Pending, Done
<1>5. \A ch \in Channels : Chosen(ch) => MayGenerate(ch)
  BY <1>1
<1>6. \A ch \in Channels : age[ch] \in 0 .. 2
  BY DEF IInv, SpduTypeOK
<1> HIDE DEF Chosen
<1>7. DuiUnique'
  <2> SUFFICES ASSUME NEW c \in C, NEW ch \in Channels
               PROVE  Distance(tx[c][ch], lastSent[c][ch]) <=
                        Wrap - IF Chosen(ch) THEN 2 ELSE 1
    BY <1>1, <1>4 DEF DuiUnique
  <2>1. Distance(tx[c][ch], lastSent[c][ch]) <= Wrap - 1
    BY <1>3 DEF TimeInv, DuiUnique
  <2>2. Chosen(ch) => Distance(tx[c][ch], lastSent[c][ch]) < Wrap - 1
    BY <1>5 DEF MayGenerate
  <2>3. Distance(tx[c][ch], lastSent[c][ch]) \in Nat
    BY Distances DEF IInv, SpduTypeOK
  <2> QED
    BY <2>1, <2>2, <2>3, WrapAssumption
<1>8. SentIsInPacket'
  <2> SUFFICES ASSUME NEW c \in C, NEW ch \in executing,
                      age'[ch] <= 1, ~Chosen(ch), lastSent[c][ch] = tx[c][ch]
               PROVE  packet[c][ch] = [own |-> tx[c][ch], peer |-> tx[c][ch]]
    BY <1>1, <1>4 DEF SentIsInPacket, IInv, SpduTypeOK
  <2>1. ch \in Channels
    BY DEF IInv, SpduTypeOK
  <2>2. age[ch] <= 1
    BY <2>1, <1>2, <1>6
  <2> QED
    BY <2>1, <2>2, <1>3 DEF TimeInv, SentIsInPacket
<1>9. AgeTellsRun'
  <2>1. ASSUME NEW ch \in Channels, age'[ch] <= 1 PROVE ch \in executing
    <3>1. CASE Chosen(ch)
      BY <3>1, <1>5 DEF MayGenerate
    <3>2. CASE ~Chosen(ch)
      <4>1. age[ch] <= 1
        BY <2>1, <3>2, <1>2, <1>6
      <4> QED
        BY <4>1 DEF TimeInv, AgeTellsRun
    <3> QED
      BY <3>1, <3>2
  <2>2. ASSUME NEW ch \in Channels, age'[ch] = 1 PROVE ~Chosen(ch)
    BY <2>2, <1>2
  <2> QED
    BY <1>1, <2>1, <2>2 DEF AgeTellsRun, Fresh, Chosen
<1> QED
  BY <1>7, <1>8, <1>9 DEF TimeInv

\* So does a part prepared by the task,
LEMMA PrepKeepsTime ==
  ASSUME NEW c \in C
  PROVE  IInv /\ TimeInv /\ spduIn_PrepIpc(c) => TimeInv'
<1> SUFFICES ASSUME IInv, TimeInv, spduIn_PrepIpc(c) PROVE TimeInv'
  OBVIOUS
<1>1. /\ work \in Runs /\ pos[c] \in 0 .. Len(work) /\ pos[c] + 1 \in 1 .. Len(work)
      /\ work[pos[c] + 1] \in Channels
  BY RunsAreShort DEF spduIn_PrepIpc, IInv, RunOK, SpduTypeOK
<1>2. PICK i \in 1 .. Len(work), ch \in Channels : i = pos[c] + 1 /\ ch = work[i]
  BY <1>1
<1>3. Pending(c, ch)
  BY <1>1, <1>2, RunsAreShort DEF Pending, Done
<1>4. ~Pending(c, ch)'
  <2>1. pos'[c] = i /\ work' = work /\ i \in 1 .. i
    BY <1>1, <1>2, RunsAreShort DEF spduIn_PrepIpc, IInv, SpduTypeOK
  <2> QED
    BY <2>1, <1>2 DEF Pending, Done
<1>5. \A d \in C, k \in Channels : d # c \/ k # ch => (Pending(d, k)' <=> Pending(d, k))
  BY <1>1, <1>2, RunsAreShort DEF spduIn_PrepIpc, Pending, Done, IInv, SpduTypeOK
<1>6. /\ tx[c][ch] \in Messages
      /\ tx'[c][ch] = Succ(tx[c][ch])
      /\ \A d \in C, k \in Channels : d # c \/ k # ch => tx'[d][k] = tx[d][k]
  BY <1>2 DEF spduIn_PrepIpc, IInv, SpduTypeOK
<1>7. UNCHANGED <<slice, executing, work, rx, lastSent, packet, age>>
  BY DEF spduIn_PrepIpc
<1>8. /\ Distance(tx'[c][ch], lastSent'[c][ch]) <= Wrap - 1
      /\ Distance(tx'[c][ch], lastSent'[c][ch]) > 0
  <2>1. Distance(tx[c][ch], lastSent[c][ch]) <= Wrap - 2
    BY <1>3 DEF TimeInv, DuiUnique
  <2>2. lastSent[c][ch] \in Messages
    BY DEF IInv, SpduTypeOK
  <2> QED
    BY <2>1, <2>2, <1>6, <1>7, Distances, WrapAssumption
<1>9. DuiUnique'
  <2> SUFFICES ASSUME NEW d \in C, NEW k \in Channels
               PROVE  Distance(tx'[d][k], lastSent'[d][k]) <=
                        Wrap - IF Pending(d, k)' THEN 2 ELSE 1
    BY DEF DuiUnique
  <2>1. CASE d = c /\ k = ch
    BY <2>1, <1>4, <1>8
  <2>2. CASE d # c \/ k # ch
    BY <2>2, <1>5, <1>6, <1>7 DEF TimeInv, DuiUnique
  <2> QED
    BY <2>1, <2>2
<1>10. SentIsInPacket'
  <2> SUFFICES ASSUME NEW d \in C, NEW k \in executing,
                      age[k] <= 1, ~Pending(d, k)', lastSent[d][k] = tx'[d][k]
               PROVE  packet[d][k] = [own |-> tx'[d][k], peer |-> tx'[d][k]]
    BY <1>7 DEF SentIsInPacket
  <2>1. k \in Channels
    BY DEF IInv, SpduTypeOK
  <2>2. CASE d = c /\ k = ch
    <3>1. tx'[d][k] \in Messages
      BY <2>2, <1>6, DuiTellsNext
    <3>2. Distance(tx'[d][k], lastSent'[d][k]) = 0
      BY <3>1, <1>7, Distances
    <3> QED
      BY <3>2, <2>2, <1>8
  <2>3. CASE d # c \/ k # ch
    BY <2>1, <2>3, <1>5, <1>6 DEF TimeInv, SentIsInPacket
  <2> QED
    BY <2>2, <2>3
<1>11. slice # 6
  BY DEF spduIn_PrepIpc
<1>12. ~Fresh(ch)
  BY <1>2, <1>11 DEF TimeInv, AgeTellsRun
<1>13. AgeTellsRun'
  BY <1>6, <1>7, <1>12 DEF TimeInv, AgeTellsRun, Fresh
<1> QED
  BY <1>9, <1>10, <1>13 DEF TimeInv

\* the exchange of the parts,
LEMMA ExchangeKeepsTime == IInv /\ TimeInv /\ spduIn_ExchangeSafeTgm => TimeInv'
<1> SUFFICES ASSUME IInv, TimeInv, spduIn_ExchangeSafeTgm PROVE TimeInv'
  OBVIOUS
<1>1. UNCHANGED <<executing, work, pos, tx, lastSent, packet, age>> /\ slice = 34 /\ slice' = 38
  BY DEF spduIn_ExchangeSafeTgm
<1>2. \A c \in C, ch \in Channels : Pending(c, ch)' <=> Pending(c, ch)
  BY <1>1 DEF Pending, Done
<1>3. DuiUnique'
  BY <1>1, <1>2 DEF TimeInv, DuiUnique
<1>4. SentIsInPacket'
  BY <1>1, <1>2 DEF TimeInv, SentIsInPacket, IInv, SpduTypeOK
<1>5. ASSUME NEW c \in C, NEW ch \in Channels, Fresh(ch) PROVE rx'[c][ch] = tx'[c][ch]
  <2>1. \A i \in 1 .. Len(work) : work[i] # ch
    BY <1>1, <1>5 DEF TimeInv, AgeTellsRun
  <2>2. \A d \in C : ~Done(d, ch)
    BY <2>1, RunsAreShort DEF Done, IInv, RunOK
  <2>3. tx[C1][ch] = tx[C2][ch]
    BY <2>2 DEF IInv, SendersInStep, Ahead, C
  <2>4. rx'[c][ch] = tx[Peer(c)][ch]
    BY DEF spduIn_ExchangeSafeTgm
  <2> QED
    BY <1>1, <2>3, <2>4 DEF Peer, C
<1>6. AgeTellsRun'
  BY <1>1, <1>5 DEF TimeInv, AgeTellsRun, Fresh
<1> QED
  BY <1>3, <1>4, <1>6 DEF TimeInv

\* the telegram built from them,
LEMMA BuildKeepsTime == IInv /\ TimeInv /\ aicMgrTx_BuildAsmTgm => TimeInv'
<1> SUFFICES ASSUME IInv, TimeInv, aicMgrTx_BuildAsmTgm PROVE TimeInv'
  OBVIOUS
<1>1. /\ UNCHANGED <<executing, work, pos, tx, rx, age>>
      /\ slice = 38 /\ slice' = 39
      /\ \/ executing = {} /\ spduIn_BuildTgmDummy
         \/ executing # {} /\ spduIn_BuildTgm
  BY DEF aicMgrTx_BuildAsmTgm
<1>2. \A c \in C, ch \in Channels : (Pending(c, ch)' <=> Pending(c, ch)) /\ ~Pending(c, ch)
  BY RunsAreShort DEF aicMgrTx_BuildAsmTgm, Pending, Done, IInv, RunOK
<1>3. \A c \in C, ch \in Channels : tx[c][ch] \in Messages /\ lastSent[c][ch] \in Messages
                                       /\ rx[c][ch] \in Messages
  BY DEF IInv, SpduTypeOK
<1>4. executing \subseteq Channels
  BY DEF IInv, SpduTypeOK
<1>5. ASSUME NEW c \in C, NEW ch \in Channels, BothHave(c, ch) PROVE tx[c][ch] = rx[c][ch]
  <2>1. Received(c, ch)
    BY <1>1 DEF IInv, ReceiversInStep
  <2> QED
    BY <1>3, <1>5, <2>1, DuiTellsNext DEF BothHave, Received
<1>6. ASSUME NEW c \in C, NEW ch \in Channels
      PROVE  \/ executing = {} /\ lastSent'[c][ch] = lastSent[c][ch]
             \/ /\ executing # {} /\ BothHave(c, ch)
                /\ lastSent'[c][ch] = tx[c][ch]
                /\ packet'[c][ch] = [own |-> tx[c][ch], peer |-> tx[c][ch]]
             \/ /\ executing # {} /\ ~BothHave(c, ch)
                /\ lastSent'[c][ch] = lastSent[c][ch]
                /\ packet'[c][ch] = packet[c][ch]
  BY <1>1, <1>5 DEF spduIn_BuildTgm, spduIn_BuildTgmDummy, SetTgm
<1>7. DuiUnique'
  <2> SUFFICES ASSUME NEW c \in C, NEW ch \in Channels
               PROVE  Distance(tx[c][ch], lastSent'[c][ch]) <= Wrap - 1
    BY <1>1, <1>2 DEF DuiUnique
  <2>1. Distance(tx[c][ch], lastSent[c][ch]) <= Wrap - 1
    BY <1>2 DEF TimeInv, DuiUnique
  <2>2. lastSent'[c][ch] = tx[c][ch] \/ lastSent'[c][ch] = lastSent[c][ch]
    BY <1>6
  <2>3. Distance(tx[c][ch], tx[c][ch]) = 0
    BY <1>3, Distances
  <2> QED
    BY <2>1, <2>2, <2>3, WrapAssumption
<1>8. SentIsInPacket'
  <2> SUFFICES ASSUME NEW c \in C, NEW ch \in executing,
                      age[ch] <= 1, lastSent'[c][ch] = tx[c][ch]
               PROVE  packet'[c][ch] = [own |-> tx[c][ch], peer |-> tx[c][ch]]
    BY <1>1 DEF SentIsInPacket
  <2>1. ch \in Channels /\ executing # {}
    BY <1>4
  <2>2. CASE BothHave(c, ch)
    BY <1>6, <2>1, <2>2
  <2>3. CASE ~BothHave(c, ch)
    <3>1. lastSent[c][ch] = tx[c][ch] /\ packet'[c][ch] = packet[c][ch]
      BY <1>6, <2>1, <2>3
    <3> QED
      BY <1>2, <2>1, <3>1 DEF TimeInv, SentIsInPacket
  <2> QED
    BY <2>2, <2>3
<1>9. ASSUME NEW c \in C, NEW ch \in Channels, Fresh(ch)
      PROVE  lastSent'[c][ch] = tx[c][ch]
  <2>1. ch \in executing
    BY <1>9 DEF TimeInv, AgeTellsRun, Fresh
  <2>2. rx[c][ch] = tx[c][ch]
    BY <1>1, <1>9 DEF TimeInv, AgeTellsRun
  <2>3. Distance(tx[c][ch], lastSent[c][ch]) < Wrap
    <3>1. Distance(tx[c][ch], lastSent[c][ch]) <= Wrap - 1
      BY <1>2 DEF TimeInv, DuiUnique
    <3> QED
      BY <1>3, <3>1, Distances, WrapAssumption
  <2>4. BothHave(c, ch) \/ lastSent[c][ch] = tx[c][ch]
    BY <1>3, <2>2, <2>3, Distances DEF BothHave
  <2> QED
    BY <1>6, <2>1, <2>4
<1>10. AgeTellsRun'
  BY <1>1, <1>9 DEF TimeInv, AgeTellsRun, Fresh
<1> QED
  BY <1>7, <1>8, <1>10 DEF TimeInv

\* the state machine at the end of the cycle,
LEMMA StatemachineKeepsTime ==
  IInv /\ TimeInv /\ aicSm_Statemachine => TimeInv'
<1> SUFFICES ASSUME IInv, TimeInv, aicSm_Statemachine PROVE TimeInv'
  OBVIOUS
<1>1. /\ UNCHANGED <<work, pos, tx, rx, lastSent>> /\ slice' = 6 /\ slice = 39
      /\ executing' = (executing \ dropped) \cup opened
      /\ \A c \in C, ch \in Channels :
           packet'[c][ch] = IF ch \in dropped THEN Default ELSE packet[c][ch]
      /\ \A ch \in Channels : age'[ch] = IF ch \in dropped THEN 2 ELSE age[ch]
  BY DEF aicSm_Statemachine
<1>2. \A c \in C, ch \in Channels : Pending(c, ch)' <=> Pending(c, ch)
  BY <1>1 DEF Pending, Done
<1>3. DuiUnique'
  BY <1>1, <1>2 DEF TimeInv, DuiUnique
<1>4. ASSUME NEW ch \in Channels, age'[ch] <= 1
      PROVE  ch \notin dropped /\ age[ch] <= 1 /\ ch \in executing
  BY <1>1, <1>4 DEF TimeInv, AgeTellsRun
<1>5. SentIsInPacket'
  <2> SUFFICES ASSUME NEW c \in C, NEW ch \in executing',
                      age'[ch] <= 1, ~Pending(c, ch)', lastSent[c][ch] = tx[c][ch]
               PROVE  packet'[c][ch] = [own |-> tx[c][ch], peer |-> tx[c][ch]]
    BY <1>1 DEF SentIsInPacket
  <2>1. ch \in Channels
    BY <1>1 DEF IInv, SpduTypeOK
  <2> QED
    BY <1>1, <1>2, <1>4, <2>1 DEF TimeInv, SentIsInPacket
<1>6. AgeTellsRun'
  BY <1>1, <1>4 DEF AgeTellsRun
<1> QED
  BY <1>3, <1>5, <1>6 DEF TimeInv

\* and thus every step.
LEMMA TimeKept == IInv /\ TimeInv /\ [Next]_vars => TimeInv'
<1> SUFFICES ASSUME IInv, TimeInv, [Next]_vars PROVE TimeInv'
  OBVIOUS
<1>1. CASE UNCHANGED vars
  BY <1>1 DEF vars, TimeInv, DuiUnique, SentIsInPacket, AgeTellsRun, Fresh, Pending, Done
<1>2. CASE Next
  BY <1>2, TriggerKeepsTime, PrepKeepsTime, ExchangeKeepsTime, BuildKeepsTime,
     StatemachineKeepsTime DEF Next
<1> QED
  BY <1>1, <1>2

\* The packet is never made of halves of different messages, however the
\* background tasks and the exchange interleave (spduIn_BuildTgm).
THEOREM HalvesAlwaysMatch == Spec => []HalvesMatch
<1>1. IInv => HalvesMatch
  BY DEF IInv
<1> QED
  BY InitInv, NextKeeps, <1>1, PTL DEF Spec

\* Every variable stays in its type, for every range of the DUI.
THEOREM SpduTypeCorrect == Spec => []SpduTypeOK
<1>1. IInv => SpduTypeOK
  BY DEF IInv
<1> QED
  BY InitInv, NextKeeps, <1>1, PTL DEF Spec

\* A message that is not followed by another one in the next cycle is in the
\* packets of both controllers at the end of that cycle at the latest, even if the
\* connection has generated one in every cycle before: less than Wrap - 1 of them
\* have not been sent (MayGenerate), so its DUI is not that of the one sent last.
THEOREM MessagesAreSentInTime == Spec => []SentInTime
<1>1. Init => IInv /\ TimeInv
  BY InitInv, TimeInitially
<1>2. IInv /\ TimeInv /\ [Next]_vars => (IInv /\ TimeInv)'
  BY NextKeeps, TimeKept
<1>3. IInv /\ TimeInv => SentInTime
  <2> SUFFICES ASSUME IInv, TimeInv, slice = 39, NEW c \in C, NEW ch \in executing, age[ch] = 1
               PROVE  packet[c][ch] = [own |-> tx[c][ch], peer |-> tx[c][ch]]
    BY DEF SentInTime
  <2>1. ch \in Channels
    BY DEF IInv, SpduTypeOK
  <2>2. lastSent[c][ch] = tx[c][ch]
    BY <2>1 DEF TimeInv, AgeTellsRun, Fresh
  <2>3. ~Pending(c, ch)
    BY DEF Pending, Done, IInv, RunOK
  <2> QED
    BY <2>1, <2>2, <2>3 DEF TimeInv, SentIsInPacket
<1> QED
  BY <1>1, <1>2, <1>3, PTL DEF Spec

=============================================================================
