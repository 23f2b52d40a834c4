-------------------------------- MODULE NvMemory -------------------------------
(***************************************************************************)
(* The NV memory of the two controllers: the flash blocks and their        *)
(* handler (src/CIPsafety/SAPL/SAPLnvLow.c), the write buffer of the stack *)
(* (SAPLnvHigh.c), the exchange of the CRC of a block before it is written *)
(* (SAPLipc.c) and the reset task (SAPLbkgd/SAPLbkgdReset.c), under power  *)
(* loss between and within any two accesses to the flash.                  *)
(*                                                                         *)
(* Data are numbered by the store that issued them; 0 is the default data. *)
(* The CRC of a block covers its index and its data, and stands for both.  *)
(* A cycle is slice 6 (the handler), slices 14 and 15 (the exchange) and   *)
(* the background task; the handshake between the controllers keeps them   *)
(* in the same slice.                                                      *)
(***************************************************************************)
EXTENDS Naturals, FiniteSets

CONSTANTS C1, C2,
          MaxBlk,      \* k_PARAM_CONF_FLSH_BLK_MAX_CNT
          PerPage,     \* blocks in a page that is erased at once
          WrCycles,    \* k_PARAM_CONF_FLSH_BLK_WR_CYCLES
          MaxStores,   \* bound on the stores
          MaxFaults    \* bound on power losses, flash errors, RAM faults

ASSUME TwoControllers == C1 # C2
ASSUME BlocksFillPages ==
  /\ {MaxBlk, PerPage} \subseteq Nat \ {0}
  /\ MaxBlk % PerPage = 0
  /\ MaxBlk > 1
ASSUME WrCyclesAssumption == WrCycles \in Nat /\ WrCycles > 1
ASSUME StoresAssumption == MaxStores \in Nat

C == {C1, C2}
Peer(c) == IF c = C1 THEN C2 ELSE C1
Blocks == 0 .. MaxBlk - 1
Pages == MaxBlk \div PerPage
Thresh == (MaxBlk * 80) \div 100

Default == 0
\* Changed data; a change is not the same in both controllers.
Corrupt(c) == MaxStores + (IF c = C1 THEN 1 ELSE 2)
Data == 0 .. MaxStores + 2

\* What a block is read as that was not written completely.
Torn == MaxStores + 3

VARIABLES
  flash,     \* as_flshBlk: status, half-words programmed, data
  pc,        \* e_FlshFsmState, or the place in the start-up
  rd,        \* u16_RdFlshBlkIdx
  n,         \* u16_WrHalfWordIdx, or the page that is erased next
  buf,       \* s_WrFlshBlk or s_flshBlk: the data of the block being written
  ram,       \* s_WrBufBgrd
  pending,   \* u32_PendingBlkData # 0
  peerCrc,   \* s_VarRemote.u16_nvCrc
  reset,     \* e_ResetState of SAPLbkgdReset.c, or "none" before it is called
  phase,     \* the part of the cycle
  done,      \* the controllers that have executed slice 6 of this cycle
  last, base, faults   \* history: stores, newest store shown, faults so far

ctrlVars == <<flash, pc, rd, n, buf, ram, pending, peerCrc, reset>>
nvmVars == <<ctrlVars, phase, done, last, base, faults>>

Free == [sts |-> "FREE", n |-> 0, data |-> Default]

Operating == {"IDLE", "EXCH_CRC_COMP", "WRITE_BLK", "INVLD_OLD_BLK"}

Set(f, c, v) == f' = [f EXCEPT ![c] = v]

-----------------------------------------------------------------------------
(* The flash *)

Block(c, i) == flash[c][i]
ValidBlks(c) == {i \in Blocks : Block(c, i).sts = "VALID"}
Crc(i, d) == <<i, d>>
CrcOk(c, i) == Block(c, i).n = WrCycles

\* Mutant: the CRC of a valid block is not looked at.
Corrupted_NoCrc(c) ==
  \/ \E i \in Blocks : Block(c, i).sts = "GARBAGE"
  \/ Cardinality(ValidBlks(c)) > 1

\* A block that can only come from a power loss or a fault.
Corrupted(c) ==
  \/ \E i \in Blocks : Block(c, i).sts = "GARBAGE"
  \/ \E i \in ValidBlks(c) : ~CrcOk(c, i)
  \/ Cardinality(ValidBlks(c)) > 1

\* Half-word k of block i; half-word 0 is the status, the last one the CRC.
Programmed(c, i, k, d) ==
  [flash EXCEPT ![c][i] =
    [sts |-> IF k = 0 THEN "VALID" ELSE @.sts, n |-> k + 1, data |-> d]]

WithStatus(c, i, s) == [flash EXCEPT ![c][i].sts = s]

\* What the next start finds, were the power lost now.
Readable(c) ==
  IF Corrupted(c) \/ ValidBlks(c) = {} THEN Default
  ELSE LET i == CHOOSE i \in ValidBlks(c) : TRUE
       IN  IF CrcOk(c, i) THEN Block(c, i).data ELSE Torn

Content == IF Readable(C1) = Readable(C2) THEN Readable(C1) ELSE Default

-----------------------------------------------------------------------------
(* Start-up *)

\* Mutant: a corrupted section is left as it is.
StartFirstBlkWrite_NoErase(c, d, state) ==
  /\ Set(buf, c, d)
  /\ Set(pc, c, IF state = "ERASE_FAIL" THEN "FAIL" ELSE state)
  /\ Set(n, c, 0)

\* FirstBlkWrite: erase the section, then write block 0 at once.  The fsm is
\* "ERASE" or "ERASE_FAIL"; the latter ends in the safety handler.
StartFirstBlkWrite(c, d, state) ==
  /\ Set(buf, c, d)
  /\ Set(pc, c, state)
  /\ Set(n, c, 0)

SAPL_NvLowInit(c) ==
  /\ pc[c] = "INIT"
  /\ LET i == CHOOSE i \in ValidBlks(c) : TRUE
     IN  CASE Corrupted(c) ->
                StartFirstBlkWrite(c, Default, "ERASE_FAIL") /\ UNCHANGED rd
           [] ~Corrupted(c) /\ ValidBlks(c) = {} ->
                StartFirstBlkWrite(c, Default, "ERASE") /\ UNCHANGED rd
           [] ~Corrupted(c) /\ ValidBlks(c) # {} /\ i > Thresh ->
                /\ StartFirstBlkWrite(c, Block(c, i).data, "ERASE")
                /\ UNCHANGED rd
           [] OTHER ->
                Set(rd, c, i) /\ Set(pc, c, "SYNC") /\ UNCHANGED <<buf, n>>
  /\ UNCHANGED <<flash, ram, pending, peerCrc, reset, phase, done, last, faults>>

Erasing(c) == pc[c] \in {"ERASE", "ERASE_FAIL"}

NvParamConfSectionErase(c) ==
  /\ Erasing(c)
  /\ n[c] < Pages
  /\ flash' = [flash EXCEPT ![c] =
       [i \in Blocks |-> IF i \div PerPage = n[c] THEN Free ELSE @[i]]]
  /\ Set(n, c, n[c] + 1)
  /\ UNCHANGED <<pc, rd, buf, ram, pending, peerCrc, reset, phase, done, last, faults>>

FirstBlkWrite(c) ==
  /\ Erasing(c)
  /\ n[c] >= Pages
  /\ flash' = Programmed(c, 0, n[c] - Pages, buf[c])
  /\ IF n[c] - Pages + 1 < WrCycles
     THEN Set(n, c, n[c] + 1) /\ UNCHANGED <<pc, rd>>
     ELSE /\ Set(n, c, 0)
          /\ Set(rd, c, 0)
          /\ Set(pc, c, IF pc[c] = "ERASE" THEN "SYNC" ELSE "FAIL")
  /\ UNCHANGED <<buf, ram, pending, peerCrc, reset, phase, done, last, faults>>

\* Mutant: the blocks found at the start are not compared.
BlocksAgree_Unchecked == TRUE

BlocksAgree == Crc(rd[C1], Block(C1, rd[C1]).data) = Crc(rd[C2], Block(C2, rd[C2]).data)

\* SAPL_NvLowCrcSync; SAPL_NvHighInit has filled the write buffer before it.
SAPL_NvLowCrcSync ==
  /\ \A c \in C : pc[c] = "SYNC"
  /\ IF BlocksAgree
     THEN /\ pc' = [c \in C |-> "IDLE"]
          /\ ram' = [c \in C |-> Block(c, rd[c]).data]
          /\ UNCHANGED <<buf, n>>
     ELSE /\ pc' = [c \in C |-> "ERASE_FAIL"]
          /\ buf' = [c \in C |-> Default]
          /\ n' = [c \in C |-> 0]
          /\ UNCHANGED ram
  /\ phase' = "handler"
  /\ done' = {}
  /\ UNCHANGED <<flash, rd, pending, peerCrc, reset, last, faults>>

-----------------------------------------------------------------------------
(* Slice 6: SAPL_NvLowHandler *)

InHandler(c, state) ==
  /\ phase = "handler"
  /\ c \notin done
  /\ pc[c] = state
  /\ done' = done \cup {c}
  /\ UNCHANGED <<phase, last, faults, ram, peerCrc, reset>>

NextBlk(c) == rd[c] + 1

HandlerIdle(c) ==
  /\ InHandler(c, "IDLE")
  /\ UNCHANGED <<flash, rd>>
  /\ IF ~pending[c] THEN UNCHANGED <<pc, n, buf, pending>>
     ELSE IF NextBlk(c) >= MaxBlk \/ Block(c, NextBlk(c)).sts # "FREE"
     THEN Set(pc, c, "FAIL") /\ UNCHANGED <<n, buf, pending>>
     ELSE /\ Set(buf, c, ram[c])
          /\ Set(pending, c, FALSE)
          /\ Set(n, c, 0)
          /\ Set(pc, c, "EXCH_CRC_COMP")

CrcsEqual(c) == peerCrc[c] = Crc(NextBlk(c), buf[c])

\* SAPLipc_CheckNvCrc
HandlerExchCrcComp(c) ==
  /\ InHandler(c, "EXCH_CRC_COMP")
  /\ Set(pc, c, IF CrcsEqual(c) THEN "WRITE_BLK" ELSE "FAIL")
  /\ UNCHANGED <<flash, rd, n, buf, pending>>

HandlerWriteBlk(c) ==
  /\ InHandler(c, "WRITE_BLK")
  /\ flash' = Programmed(c, NextBlk(c), n[c], buf[c])
  /\ Set(n, c, n[c] + 1)
  /\ Set(pc, c, IF n[c] + 1 = WrCycles THEN "INVLD_OLD_BLK" ELSE "WRITE_BLK")
  /\ UNCHANGED <<rd, buf, pending>>

HandlerInvldOldBlk(c) ==
  /\ InHandler(c, "INVLD_OLD_BLK")
  /\ flash' = WithStatus(c, rd[c], "INVALID")
  /\ Set(rd, c, NextBlk(c))
  /\ Set(pc, c, "IDLE")
  /\ UNCHANGED <<n, buf, pending>>

SAPL_NvLowHandler(c) ==
  \/ HandlerIdle(c)
  \/ HandlerExchCrcComp(c)
  \/ HandlerWriteBlk(c)
  \/ HandlerInvldOldBlk(c)

-----------------------------------------------------------------------------
(* Slices 14 and 15, then the background task *)

BothOperate == \A c \in C : pc[c] \in Operating

\* SAPLipc_SendVar, SAPLipc_RecvAndCheckVar: the CRC is that of the block
\* prepared last, and only read in the slice 6 after that.
ExchangeVar ==
  /\ phase = "handler"
  /\ done = C
  /\ BothOperate
  /\ peerCrc' = [c \in C |-> Crc(NextBlk(Peer(c)), buf[Peer(c)])]
  /\ phase' = "task"
  /\ done' = {}
  /\ UNCHANGED <<flash, pc, rd, n, buf, ram, pending, reset, last, faults>>

InTask ==
  /\ phase = "task"
  /\ BothOperate
  /\ phase' = "handler"
  /\ UNCHANGED <<flash, rd, n, buf, peerCrc, done, faults>>

NoStore ==
  /\ InTask
  /\ \A c \in C : reset[c] \in {"none", "ENDLESS_LOOP"}
  /\ UNCHANGED <<pc, ram, pending, reset, last>>

BufferIntact(c) == ram[c] # Corrupt(c)

\* SAPL_IxssoNvAttribStoreClbk and SAPL_NvHighConfigStore: the stores of one
\* task make one store, since the handler does not run between them.
Store ==
  /\ InTask
  /\ last < MaxStores
  /\ \A c \in C : reset[c] = "none"
  /\ last' = last + 1
  /\ pc' = [c \in C |-> IF BufferIntact(c) THEN pc[c] ELSE "FAIL"]
  /\ ram' = [c \in C |-> IF BufferIntact(c) THEN last + 1 ELSE ram[c]]
  /\ pending' = [c \in C |-> BufferIntact(c) \/ pending[c]]
  /\ UNCHANGED reset

SAPL_NvLowIsBusy(c) == pc[c] # "IDLE" \/ pending[c]

\* BkgdTaskResetHandler in k_CHECK_RESET: a reset of type 0 keeps the data,
\* type 1 stores the defaults; type 2, which keeps some, is a store like any
\* other before the reset of type 0.
CheckReset(type) ==
  /\ InTask
  /\ \A c \in C : reset[c] = "none"
  /\ IF type = 0
     THEN /\ reset' = [c \in C |-> IF SAPL_NvLowIsBusy(c) THEN "WRITE_BUSY"
                                                     ELSE "TRIGGER_REQUEST"]
          /\ UNCHANGED <<ram, pending>>
     ELSE /\ reset' = [c \in C |-> "WRITE_BUSY"]
          /\ ram' = [c \in C |-> Default]
          /\ pending' = [c \in C |-> TRUE]
  /\ UNCHANGED <<pc, last>>

ResetStep ==
  /\ InTask
  /\ \A c \in C : reset[c] \in {"WRITE_BUSY", "TRIGGER_REQUEST"}
  /\ reset' = [c \in C |->
       CASE reset[c] = "TRIGGER_REQUEST"                      -> "ENDLESS_LOOP"
         [] reset[c] = "WRITE_BUSY" /\ ~SAPL_NvLowIsBusy(c) -> "TRIGGER_REQUEST"
         [] OTHER                                             -> reset[c]]
  /\ UNCHANGED <<pc, ram, pending, last>>

-----------------------------------------------------------------------------
(* Failures *)

\* A controller whose peer is in the safety handler finds out in the next
\* handshake.
SyncTimeout(c) ==
  /\ pc[Peer(c)] = "FAIL"
  /\ pc[c] \in Operating \cup {"SYNC"}
  /\ Set(pc, c, "FAIL")
  /\ UNCHANGED <<flash, rd, n, buf, ram, pending, peerCrc, reset, phase, done, last,
                 faults>>

\* Power is lost: all but the flash is gone.
Off(f) ==
  /\ flash' = f
  /\ pc' = [c \in C |-> "INIT"]
  /\ rd' = [c \in C |-> 0]
  /\ n' = [c \in C |-> 0]
  /\ buf' = [c \in C |-> Default]
  /\ ram' = [c \in C |-> Default]
  /\ pending' = [c \in C |-> FALSE]
  /\ peerCrc' = [c \in C |-> Crc(0, Default)]
  /\ reset' = [c \in C |-> "none"]
  /\ phase' = "handler"
  /\ done' = {}
  /\ UNCHANGED last

\* The power is cycled because the device is in the fail-safe state or has
\* asked for its reset.
PowerCycle ==
  /\ \/ \A c \in C : pc[c] = "FAIL"
     \/ \A c \in C : reset[c] = "ENDLESS_LOOP"
  /\ Off(flash)
  /\ UNCHANGED faults

Fault == faults < MaxFaults /\ faults' = faults + 1

PowerLoss == Fault /\ Off(flash)

\* The power is lost while a status half-word is programmed.
TornStatus(c) ==
  /\ Fault
  /\ \/ pc[c] = "WRITE_BLK" /\ n[c] = 0 /\ Off(WithStatus(c, NextBlk(c), "GARBAGE"))
     \/ pc[c] = "INVLD_OLD_BLK" /\ Off(WithStatus(c, rd[c], "GARBAGE"))
     \/ Erasing(c) /\ n[c] = Pages /\ Off(WithStatus(c, 0, "GARBAGE"))

\* flashHAL_ProgramHalfWord or flashHAL_ErasePage fails.
FlashError(c) ==
  /\ Fault
  /\ Erasing(c) \/ pc[c] \in {"WRITE_BLK", "INVLD_OLD_BLK"}
  /\ Set(pc, c, "FAIL")
  /\ UNCHANGED <<flash, rd, n, buf, ram, pending, peerCrc, reset, phase, done, last>>

\* A bit of the write buffer changes.
BufferFault(c) ==
  /\ Fault
  /\ pc[c] \in Operating
  /\ Set(ram, c, Corrupt(c))
  /\ UNCHANGED <<flash, pc, rd, n, buf, pending, peerCrc, reset, phase, done, last>>

-----------------------------------------------------------------------------

NvmInit ==
  /\ flash = [c \in C |-> [i \in Blocks |-> Free]]
  /\ pc = [c \in C |-> "INIT"]
  /\ rd = [c \in C |-> 0]
  /\ n = [c \in C |-> 0]
  /\ buf = [c \in C |-> Default]
  /\ ram = [c \in C |-> Default]
  /\ pending = [c \in C |-> FALSE]
  /\ peerCrc = [c \in C |-> Crc(0, Default)]
  /\ reset = [c \in C |-> "none"]
  /\ phase = "handler"
  /\ done = {}
  /\ last = 0
  /\ base = 0
  /\ faults = 0

Start ==
  \/ \E c \in C : SAPL_NvLowInit(c) \/ NvParamConfSectionErase(c) \/ FirstBlkWrite(c)
  \/ SAPL_NvLowCrcSync

Cycle ==
  \/ \E c \in C : SAPL_NvLowHandler(c)
  \/ ExchangeVar
  \/ NoStore
  \/ Store
  \/ \E type \in 0 .. 1 : CheckReset(type)
  \/ ResetStep

Faults ==
  \/ PowerLoss
  \/ \E c \in C : TornStatus(c) \/ FlashError(c) \/ BufferFault(c)

Progress == Start \/ Cycle \/ PowerCycle \/ \E c \in C : SyncTimeout(c)

NvmNext ==
  /\ Progress \/ Faults
  /\ base' = IF Content' > base THEN Content' ELSE base

\* The timer drives the cycle, and somebody cycles the power of a device in
\* the fail-safe state; nothing forces a fault.
NvmSpec == NvmInit /\ [][NvmNext]_nvmVars /\ WF_nvmVars(Progress /\ NvmNext)

-----------------------------------------------------------------------------

\* Whatever the power does, a start finds the defaults or all of the data of
\* one store, and never older data than a start could have found before.
Store_ == INSTANCE NvStore WITH content <- Content
StoreImplemented == Store_!StoreSpec

\* The controllers that operate have read, and will read again, the same data,
\* unless one of them is about to find out about the other's failure
\* (SAPL_NvLowCrcSync, SAPLipc_CheckNvCrc).
ControllersAgree ==
  phase = "task" /\ BothOperate => Readable(C1) = Readable(C2) /\ rd[C1] = rd[C2]

\* Data that a RAM fault has changed in one controller are never programmed
\* (u16_WrBufCrc of SAPLnvHigh.c, the CRC exchange of SAPLipc.c).
NoCorruptDataStored ==
  \A c \in C : \A i \in Blocks : Block(c, i).n > 0 => Block(c, i).data # Corrupt(c)

\* The reset is requested from the host only when nothing waits to be written:
\* a reset to defaults finds them in the flash (BkgdTaskResetHandler).
ResetAfterWrite ==
  \A c \in C : pc[c] \in Operating /\ reset[c] \in {"TRIGGER_REQUEST", "ENDLESS_LOOP"} =>
    Readable(c) = ram[c] \/ ram[c] = Corrupt(c)

\* What the two controllers store, write by write and up to a reset, is the same
\* undamaged data.
SameDataStored == ControllersAgree /\ NoCorruptDataStored /\ ResetAfterWrite

\* However the flash was left, the device comes to operation again: neither the
\* fail-safe state nor a mismatch of the controllers repeats for ever.
OperatesAgain == []<>BothOperate

=============================================================================
