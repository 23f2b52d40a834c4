--------------------------------- MODULE Spdu ---------------------------------
(***************************************************************************)
(* The packet of safe data in the telegram to the host (src/pkgSpdu/       *)
(* spduIn.c).  Each controller generates half of the bytes of a message of *)
(* the producing connection ("io") and of the time coordination message of *)
(* the consuming connection ("tcoo"), sends it to the other controller and *)
(* builds the packet when both have a half with the same DUI.              *)
(*                                                                         *)
(* The background task of a cycle (SAPL_BkgdTaskExecuting) is triggered in *)
(* slice 6 and complete before slice 38; both controllers do the same work *)
(* in it, each at its own pace, while the scheduler goes through the       *)
(* slices in step: halves are exchanged in slices 34 and 35, the packet is *)
(* built in slice 38, and the AIC state machine resets parts of it in      *)
(* slice 39.                                                               *)
(***************************************************************************)
EXTENDS Integers, Sequences

CONSTANTS C1, C2,
          Wrap      \* range of the DUI, an UINT8

ASSUME TwoControllers == C1 # C2
ASSUME WrapAssumption == Wrap \in Nat /\ Wrap > 1

C == {C1, C2}
Peer(c) == IF c = C1 THEN C2 ELSE C1

Channels == {"io", "tcoo"}

\* Messages are numbered over twice the range of the DUI, which tells more of
\* them apart than the DUI does.
Messages == 0 .. 2 * Wrap - 1

\* Mutant: the DUI does not wrap.
Succ_Unlimited(m) == m + 1

Succ(m) == IF m = 2 * Wrap - 1 THEN 0 ELSE m + 1
Distance(m, n) == IF m >= n THEN m - n ELSE m - n + 2 * Wrap
Dui(m) == IF m < Wrap THEN m ELSE m - Wrap

\* A part of the packet: halves of two messages, or the default of
\* spduIn_BuildTgmDummy and the resets.
None == 2 * Wrap
Default == [own |-> None, peer |-> None]
Parts == [own : Messages, peer : Messages] \cup {Default}

VARIABLES
  slice,      \* the next slice: 6, 34, 38 or 39
  executing,  \* open connections, as the AIC state machine knows them
  dropped,    \* connections closed or faulted in the run of this cycle
  opened,     \* connections opened in it, at its end
  work,       \* messages the background task of this cycle generates
  pos,        \* how many of them a controller has generated
  tx,         \* s_SafeTgmIpcTx, and the subframe DUIs
  rx,         \* s_SafeTgmIpcRx
  lastSent,   \* message of u8_LastSentIoDui, u8_LastSentTccoDui
  packet,     \* spduIn_s_Paket
  age         \* cycles since the last message of the connection, 2 for more

vars == <<slice, executing, dropped, opened, work, pos, tx, rx, lastSent, packet, age>>

-----------------------------------------------------------------------------
(* The background task *)

\* An open connection may generate a message in every cycle: its EPI can be less
\* than the cycle.  Bound: messages that come too late for the exchange and are
\* followed by another one or dropped with their connection are not sent; less
\* than Wrap - 1 in a row, of 255.
MayGenerate(ch) ==
  /\ ch \in executing
  /\ \A c \in C : Distance(tx[c][ch], lastSent[c][ch]) < Wrap - 1

\* The time coordination, an answer to a frame of the host, precedes the
\* production; a message of the host, which may open a connection and before
\* that close all others, is processed last.
Runs == {<<>>, <<"tcoo">>, <<"io">>, <<"tcoo", "io">>}

\* Slice 6: what the run will do is chosen at its start.
SAPL_BkgdTaskTrigger ==
  /\ slice = 6
  /\ work' \in {w \in Runs : \A i \in DOMAIN w : MayGenerate(w[i])}
  /\ dropped' \in SUBSET executing
  /\ opened' \in {{}} \cup {{ch} : ch \in (Channels \ executing) \cup dropped'}
  /\ pos' = [c \in C |-> 0]
  /\ age' = [ch \in Channels |->
               IF \E i \in DOMAIN work' : work'[i] = ch THEN 0
               ELSE IF age[ch] < 2 THEN age[ch] + 1 ELSE 2]
  /\ slice' = 34
  /\ UNCHANGED <<executing, tx, rx, lastSent, packet>>

\* spduIn_PrepIpcIo, spduIn_PrepIpcTcoo by way of HALCS_TxDataPutMix
spduIn_PrepIpc(c) ==
  /\ pos[c] < Len(work)
  /\ slice # 6
  /\ LET ch == work[pos[c] + 1]
     IN  tx' = [tx EXCEPT ![c][ch] = Succ(@)]
  /\ pos' = [pos EXCEPT ![c] = @ + 1]
  /\ UNCHANGED <<slice, executing, dropped, opened, work, rx, lastSent, packet, age>>

-----------------------------------------------------------------------------
(* The scheduler *)

\* Slices 34 and 35: spduIn_SendSafeTgm, spduIn_RecvSafeTgm
spduIn_ExchangeSafeTgm ==
  /\ slice = 34
  /\ rx' = [c \in C |-> tx[Peer(c)]]
  /\ slice' = 38
  /\ UNCHANGED <<executing, dropped, opened, work, pos, tx, lastSent, packet, age>>

\* Mutant: the DUI of the other controller's half is not looked at.
BothHave_Unchecked(c, ch) == Dui(tx[c][ch]) # Dui(lastSent[c][ch])

BothHave(c, ch) == Dui(tx[c][ch]) # Dui(lastSent[c][ch]) /\ Dui(tx[c][ch]) = Dui(rx[c][ch])

\* setTgmIo, setTgmTcoo
SetTgm(c, ch) ==
  IF BothHave(c, ch) THEN [own |-> tx[c][ch], peer |-> rx[c][ch]] ELSE packet[c][ch]

\* Mutant: a message counts as sent though the other half is missing.
spduIn_BuildTgm_MarkAll ==
  /\ packet' = [c \in C |-> [ch \in Channels |-> SetTgm(c, ch)]]
  /\ lastSent' = tx

spduIn_BuildTgm ==
  /\ packet' = [c \in C |-> [ch \in Channels |-> SetTgm(c, ch)]]
  /\ lastSent' = [c \in C |-> [ch \in Channels |->
                    IF BothHave(c, ch) THEN tx[c][ch] ELSE lastSent[c][ch]]]

spduIn_BuildTgmDummy ==
  /\ packet' = [c \in C |-> [ch \in Channels |-> Default]]
  /\ UNCHANGED lastSent

\* Slice 38: SAPL_BkgdTaskCheck, aicMgrTx_BuildAsmTgm
aicMgrTx_BuildAsmTgm ==
  /\ slice = 38
  /\ \A c \in C : pos[c] = Len(work)
  /\ \/ executing = {} /\ spduIn_BuildTgmDummy
     \/ executing # {} /\ spduIn_BuildTgm
  /\ slice' = 39
  /\ UNCHANGED <<executing, dropped, opened, work, pos, tx, rx, age>>

\* Slice 39: the events of the run; spduIn_ResetTgmIo and spduIn_ResetTgmTcco
\* when a connection is closed or faulted.
aicSm_Statemachine ==
  /\ slice = 39
  /\ executing' = (executing \ dropped) \cup opened
  /\ packet' = [c \in C |-> [ch \in Channels |->
                  IF ch \in dropped THEN Default ELSE packet[c][ch]]]
  /\ age' = [ch \in Channels |-> IF ch \in dropped THEN 2 ELSE age[ch]]
  /\ slice' = 6
  /\ dropped' = {} /\ opened' = {}
  /\ UNCHANGED <<work, pos, tx, rx, lastSent>>

-----------------------------------------------------------------------------

\* spduIn_Init
Init ==
  /\ slice = 6
  /\ executing = {} /\ dropped = {} /\ opened = {}
  /\ work = <<>>
  /\ pos = [c \in C |-> 0]
  /\ tx = [c \in C |-> [ch \in Channels |-> 0]]
  /\ rx = tx
  /\ lastSent = tx
  /\ packet = [c \in C |-> [ch \in Channels |-> Default]]
  /\ age = [ch \in Channels |-> 2]

Next ==
  \/ SAPL_BkgdTaskTrigger
  \/ \E c \in C : spduIn_PrepIpc(c)
  \/ spduIn_ExchangeSafeTgm
  \/ aicMgrTx_BuildAsmTgm
  \/ aicSm_Statemachine

Spec == Init /\ [][Next]_vars

-----------------------------------------------------------------------------

SpduTypeOK ==
  /\ slice \in {6, 34, 38, 39}
  /\ {executing, dropped, opened} \subseteq SUBSET Channels
  /\ pos \in [C -> 0 .. Len(work)]
  /\ tx \in [C -> [Channels -> Messages]] /\ rx \in [C -> [Channels -> Messages]]
  /\ lastSent \in [C -> [Channels -> Messages]]
  /\ packet \in [C -> [Channels -> Parts]]
  /\ age \in [Channels -> 0 .. 2]

\* A part of the packet is made of the two halves of one message, wherever the
\* background tasks are when the halves are exchanged (spduIn_BuildTgm: "a
\* safety packet is never build by only one controller").
HalvesMatch == \A c \in C, ch \in Channels : packet[c][ch].own = packet[c][ch].peer

\* A message is in the packets of both controllers at the end of the next cycle
\* at the latest, if the connection does not generate another one before.
SentInTime ==
  slice = 39 =>
    \A c \in C, ch \in executing :
      age[ch] = 1 => packet[c][ch] = [own |-> tx[c][ch], peer |-> tx[c][ch]]

=============================================================================
