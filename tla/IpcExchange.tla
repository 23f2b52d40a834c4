----------------------------- MODULE IpcExchange -----------------------------
(***************************************************************************)
(* Telegrams between the two controllers,                                  *)
(* src/pkgCommunication/ipcx_ExchangeData-sys.c, on top of the pin         *)
(* synchronisation of IpcSync.  A sender restarts its own receive DMA,     *)
(* synchronises, and transmits the telegram twice with a CRC each; the     *)
(* receiver polls the DMA counter, takes the first copy whose CRC is right *)
(* and checks the controller identity and the telegram identity.  Each     *)
(* controller executes a program of calls, the one the startup code and    *)
(* the scheduler's time slices make.  Bytes are abstracted to the copies   *)
(* they form, and both controllers' calls of one telegram identity have    *)
(* the same length.                                                        *)
(***************************************************************************)
EXTENDS IpcSync, Sequences, FiniteSets

CONSTANTS Progs,     \* the programs the controllers may have: for each of
                     \* them the calls that it makes
          IpcIds,    \* identities of telegrams (IPCXSYS_IPC_ID_*)
          MaxFaults  \* bound: copies damaged, lost or replaced on the line

ASSUME MaxFaultsIsNat == MaxFaults \in Nat
ASSUME ProgsAreCalls ==
  Progs \subseteq [Ctrl -> Seq([op : {"sync", "send", "get"}, id : IpcIds])]

\* Each telegram is read before the next one is sent, and none is read before
\* the first one is sent.
Exchanges(calls) ==
  /\ \A i \in 1 .. Len(calls) : calls[i].op = "get" => \E j \in 1 .. i - 1 : calls[j].op = "send"
  /\ \A i, j \in 1 .. Len(calls) :
       i < j /\ calls[i].op = "send" /\ calls[j].op = "send" =>
         \E k \in i + 1 .. j - 1 : calls[k].op = "get"

\* Waits that a controller has begun before its i-th call, SyncStartup's among
\* them.
WaitsBefore(calls, i) == 1 + Cardinality({j \in 1 .. i - 1 : calls[j].op # "get"})

\* Programs p that differ from call k on: at its call g, controller x waits for a
\* telegram of this part before the other one can send any.
WaitsInVain(p, k, x, g) ==
  /\ p[x][g].op = "get"
  /\ \E i \in k .. g - 1 : p[x][i].op = "send"
  /\ \A j \in k .. Len(p[Peer(x)]) : p[Peer(x)][j].op = "send" =>
       WaitsBefore(p[x], g) <= WaitsBefore(p[Peer(x)], j)

\* The controllers make the same calls before call k, and then none or different
\* ones, which end at a call of x; what the other one reads it has sent before.
Forks(p, k, x) ==
  /\ \A i \in 1 .. k - 1 :
       /\ i <= Len(p[C1]) <=> i <= Len(p[C2])
       /\ i <= Len(p[C1]) => p[C1][i] = p[C2][i]
  /\ \/ \A c \in Ctrl : Len(p[c]) + 1 < k
     \/ \E g \in k .. Len(p[x]) : WaitsInVain(p, k, x, g)
  /\ \A i \in k .. Len(p[Peer(x)]) :
       p[Peer(x)][i].op = "get" => \E j \in k .. i - 1 : p[Peer(x)][j].op = "send"

\* Programs are equal or fork.
ASSUME ProgsExchange ==
  \A p \in Progs :
    /\ \A c \in Ctrl : Exchanges(p[c])
    /\ p[C1] = p[C2] \/ \E k \in 1 .. Len(p[C1]) + 1, x \in Ctrl : Forks(p, k, x)

VARIABLES
  prog,    \* prog[c]: the calls of c, chosen once
  step,    \* step[c]: index in prog[c] of the call c is executing
  phase,   \* how far c is inside that call
  rx,      \* receive DMA: copies still to come (CNDTR), copies in the buffer,
           \* and (history) the step that armed it
  line,    \* line[c]: copies on their way to c
  faults,  \* faults that happened on the two lines
  reason,  \* fail code that took c to the safety handler
  got      \* history: the copy last handed to the caller, and what for

exVars == <<prog, step, phase, rx, line, faults, reason, got>>
ipcVars == <<syncVars, exVars>>

Copy(c) == [id |-> prog[c][step[c]].id, from |-> c, at |-> step[c], ok |-> TRUE]
\* GetBuffer zeroes the buffer; the CRC-8 of zeros is not zero.
Cleared == [id |-> "none", from |-> "none", at |-> 0, ok |-> FALSE]
Nothing == [copy |-> Cleared, armedAt |-> 0]

\* ipcxSYS_Init arms for the longest telegram: two copies do not complete it.
InitialNeed == 3

IpcExchangeInit ==
  /\ IpcSyncInit
  /\ prog \in Progs
  /\ step = [c \in Ctrl |-> 1]
  /\ phase = [c \in Ctrl |-> "entry"]
  /\ rx = [c \in Ctrl |-> [need |-> InitialNeed, buf |-> <<>>, armedAt |-> 0]]
  /\ line = [c \in Ctrl |-> <<>>]
  /\ faults = 0
  /\ reason = [c \in Ctrl |-> "none"]
  /\ got = [c \in Ctrl |-> Nothing]

\* c executes a call of kind op and has got as far as ph.
At(c, op, ph) ==
  /\ pc[c] = "run"
  /\ step[c] <= Len(prog[c])
  /\ prog[c][step[c]].op = op
  /\ phase[c] = ph

NextCall(c) ==
  /\ step' = [step EXCEPT ![c] = @ + 1]
  /\ phase' = [phase EXCEPT ![c] = "entry"]

Fail(c, why) ==
  /\ pc' = [pc EXCEPT ![c] = "failSafe"]
  /\ reason' = [reason EXCEPT ![c] = why]
  /\ UNCHANGED <<pin, ePinExpectedState, begun, ended, prompt>>

-----------------------------------------------------------------------------
(* Synchronisation, alone and inside ipcxSYS_SendBuffer *)

Startup(c) ==
  /\ SyncStartup(c) \/ SyncStartupPass(c) \/ SyncStartupMiss(c)
  /\ UNCHANGED exVars

CallSync(c) ==
  /\ At(c, "sync", "entry") \/ At(c, "send", "armed")
  /\ Sync(c)
  /\ UNCHANGED exVars

PollSync(c) == SyncMiss(c) /\ UNCHANGED exVars

ReturnFromSync(c) ==
  /\ SyncPass(c)
  /\ IF phase[c] = "armed"
     THEN phase' = [phase EXCEPT ![c] = "transmit"] /\ UNCHANGED step
     ELSE NextCall(c)
  /\ UNCHANGED <<prog, rx, line, faults, reason, got>>

FailInSync(c) ==
  /\ SyncTimeout(c)
  /\ reason' = [reason EXCEPT ![c] = "syncTimeout"]
  /\ UNCHANGED <<prog, step, phase, rx, line, faults, got>>

FailElsewhere(c) ==
  /\ SafetyHandler(c)
  /\ phase[c] = "entry"
  /\ reason' = [reason EXCEPT ![c] = "other"]
  /\ UNCHANGED <<prog, step, phase, rx, line, faults, got>>

-----------------------------------------------------------------------------
(* ipcxSYS_SendBuffer and Send *)

ArmRxDma(c) ==
  /\ At(c, "send", "entry")
  /\ rx' = [rx EXCEPT ![c] = [need |-> 2, buf |-> <<>>, armedAt |-> step[c]]]
  /\ phase' = [phase EXCEPT ![c] = "armed"]
  /\ UNCHANGED <<prog, syncVars, step, line, faults, reason, got>>

Transmit(c) ==
  /\ At(c, "send", "transmit")
  /\ line' = [line EXCEPT ![Peer(c)] = @ \o <<Copy(c), Copy(c)>>]
  /\ NextCall(c)
  /\ UNCHANGED <<prog, syncVars, rx, faults, reason, got>>

-----------------------------------------------------------------------------
(* The serial line and the receive DMA *)

\* What may reach c instead of copy: damaged bytes, or c's own transmission.
Damaged(c, copy) == {[copy EXCEPT !.ok = FALSE], [copy EXCEPT !.from = c]}

\* A DMA channel whose counter is zero takes no more bytes.
DmaTakes(c, copy) ==
  rx' = IF rx[c].need = 0 THEN rx
        ELSE [rx EXCEPT ![c].need = @ - 1, ![c].buf = Append(@, copy)]

CopyArrives(c) ==
  /\ line[c] # <<>>
  /\ line' = [line EXCEPT ![c] = Tail(@)]
  /\ DmaTakes(c, Head(line[c]))
  /\ UNCHANGED <<prog, syncVars, step, phase, faults, reason, got>>

CopyFails(c) ==
  /\ line[c] # <<>>
  /\ faults < MaxFaults
  /\ faults' = faults + 1
  /\ line' = [line EXCEPT ![c] = Tail(@)]
  /\ \/ \E copy \in Damaged(c, Head(line[c])) : DmaTakes(c, copy)
     \/ UNCHANGED rx
  /\ UNCHANGED <<prog, syncVars, step, phase, reason, got>>

-----------------------------------------------------------------------------
(* ipcxSYS_GetBufferinclWait, the receive loop of                          *)
(* ipcxSYS_ExChangeUINT32Data, GetBuffer and CheckCrcAnd_uC_ID_Rx          *)

Reading(c) == At(c, "get", "entry") \/ At(c, "get", "await")

\* Mutant: the first copy is used whatever its CRC says.
Chosen_FirstCopy(c) == rx[c].buf[1]

\* The copy that CheckCrcAnd_uC_ID_Rx selects.
Chosen(c) == IF rx[c].buf[1].ok THEN rx[c].buf[1] ELSE rx[c].buf[2]

CrcRight(c) == rx[c].buf[1].ok \/ rx[c].buf[2].ok

ClearRx(c) == rx' = [rx EXCEPT ![c].buf = <<Cleared, Cleared>>]

Busy(c) ==
  /\ At(c, "get", "entry")
  /\ rx[c].need # 0
  /\ phase' = [phase EXCEPT ![c] = "await"]
  /\ UNCHANGED <<prog, syncVars, step, rx, line, faults, reason, got>>

\* The timeout is checked before GetBuffer is called again.
ReceiveTimeout(c) ==
  /\ At(c, "get", "await")
  /\ Fail(c, "ipcxTimeout")
  /\ UNCHANGED <<prog, step, phase, rx, line, faults, got>>

GetBuffer(c) ==
  /\ Reading(c)
  /\ rx[c].need = 0
  /\ CrcRight(c)
  /\ Chosen(c).from # c
  /\ Chosen(c).id = prog[c][step[c]].id
  /\ got' = [got EXCEPT ![c] = [copy |-> Chosen(c), armedAt |-> rx[c].armedAt]]
  /\ ClearRx(c)
  /\ NextCall(c)
  /\ UNCHANGED <<prog, syncVars, line, faults, reason>>

RejectTelegram(c) ==
  /\ Reading(c)
  /\ rx[c].need = 0
  /\ \/ ~CrcRight(c) /\ Fail(c, "crc")
     \/ CrcRight(c) /\ Chosen(c).from = c /\ Fail(c, "controllerId")
     \/ /\ CrcRight(c)
        /\ Chosen(c).from # c
        /\ Chosen(c).id # prog[c][step[c]].id
        /\ Fail(c, "ipcId")
  /\ ClearRx(c)
  /\ UNCHANGED <<prog, step, phase, line, faults, got>>

-----------------------------------------------------------------------------

Software(c) ==
  \/ Startup(c) \/ CallSync(c) \/ PollSync(c) \/ ReturnFromSync(c)
  \/ FailInSync(c) \/ FailElsewhere(c)
  \/ ArmRxDma(c) \/ Transmit(c)
  \/ Busy(c) \/ ReceiveTimeout(c) \/ GetBuffer(c) \/ RejectTelegram(c)

IpcExchangeNext ==
  \E c \in Ctrl : Software(c) \/ CopyArrives(c) \/ CopyFails(c)

IpcExchangeSpec == IpcExchangeInit /\ [][IpcExchangeNext]_ipcVars

\* Controllers keep executing (see IpcSyncFairness) and hardware keeps
\* shifting; neither FailElsewhere nor CopyFails is ever forced.
IpcExchangeFairness ==
  \A c \in Ctrl :
    /\ WF_ipcVars(Startup(c) \/ CallSync(c) \/ PollSync(c) \/ ArmRxDma(c)
                  \/ Transmit(c) \/ Busy(c))
    /\ WF_ipcVars(ReturnFromSync(c) \/ FailInSync(c) \/ GetBuffer(c)
                  \/ RejectTelegram(c) \/ ReceiveTimeout(c))
    /\ WF_ipcVars(CopyArrives(c))

IpcExchangeFairSpec == IpcExchangeSpec /\ IpcExchangeFairness

-----------------------------------------------------------------------------
(* Properties *)

\* d has armed its receive DMA for the telegram of call s and not yet
\* received anything of it.
ArmedFor(d, s) == rx[d] = [need |-> 2, buf |-> <<>>, armedAt |-> s]

\* No controller sends before the other has restarted its receive DMA, from the
\* second telegram of equal programs on: the call of ipcsSYS_Sync inside
\* ipcxSYS_SendBuffer keeps each telegram out of a receive DMA not yet armed
\* for it, and the previous telegram has left the transmit buffer.
LaterSendsToArmedReceiver ==
  [][\A c \in Ctrl :
       Transmit(c) /\ begun[c] > 2 /\ prog[C1] = prog[C2] =>
         ArmedFor(Peer(c), step[c]) /\ line[Peer(c)] = <<>>]_ipcVars

\* Whatever is damaged, lost or reflected on the line, the data handed to a
\* caller are undamaged, the peer's, and of the very exchange for which the
\* receiver armed its DMA: never an older telegram, never its own.
ConsumesCurrentPeerData ==
  \A c \in Ctrl : got[c] # Nothing =>
    /\ got[c].copy.ok
    /\ got[c].copy.from = Peer(c)
    /\ got[c].copy.at = got[c].armedAt

\* When one controller stops, the other follows: it stops in a wait or a
\* telegram timeout unless its program ends first.  Controllers whose programs
\* have diverged (one runs the time slices of another module state) do not go
\* on side by side: both stop.
StopSpreads ==
  /\ \A c \in Ctrl :
       pc[c] = "failSafe"
         ~> (pc[Peer(c)] = "failSafe" \/ step[Peer(c)] > Len(prog[Peer(c)]))
  /\ prog[C1] # prog[C2] => <>(\A c \in Ctrl : pc[c] = "failSafe")

=============================================================================
