---------------------------- MODULE NvMemory_proofs ----------------------------
(***************************************************************************)
(* Proofs about the NV memory (NvMemory.tla), for every number of blocks    *)
(* and pages, every length of a block and every number of stores and        *)
(* faults: the controllers store the same undamaged data (SameDataStored),  *)
(* and the memory implements the abstract store (StoreImplemented).         *)
(***************************************************************************)
EXTENDS NvMemory, Integers, FiniteSetTheorems, TLAPS

\* The status of a block, what it holds, and the places of a controller:
\* while it starts, and while it writes.
Statuses == {"FREE", "VALID", "INVALID", "GARBAGE"}
FlashBlks == [sts : Statuses, n : 0 .. WrCycles, data : Data]
Places == {"INIT", "ERASE", "ERASE_FAIL", "SYNC", "FAIL"} \cup Operating
Starting == {"INIT", "ERASE", "ERASE_FAIL", "SYNC"}
Writing == {"WRITE_BLK", "INVLD_OLD_BLK"}

\* The type invariant.
NvmTypeOK ==
  /\ flash \in [C -> [Blocks -> FlashBlks]]
  /\ pc \in [C -> Places]
  /\ rd \in [C -> Blocks]
  /\ n \in [C -> Nat]
  /\ buf \in [C -> Data]
  /\ ram \in [C -> Data]
  /\ pending \in [C -> BOOLEAN]
  /\ peerCrc \in [C -> Nat \X Data]
  /\ reset \in [C -> {"none", "WRITE_BUSY", "TRIGGER_REQUEST", "ENDLESS_LOOP"}]
  /\ phase \in {"handler", "task"}
  /\ done \in SUBSET C
  /\ last \in 0 .. MaxStores

\* A block that says nothing about the others.
Dead(c, i) == Block(c, i).sts \in {"FREE", "INVALID"}
\* Written with its CRC.
Complete(c, i) == Block(c, i).sts = "VALID" /\ CrcOk(c, i)

\* Block i is the only one with data.
Alone(c, i) == Complete(c, i) /\ \A j \in Blocks \ {i} : Dead(c, j)

\* The old block and the one being written are those that are not dead.
Half(c) ==
  /\ NextBlk(c) \in Blocks
  /\ IF n[c] = 0 THEN Alone(c, rd[c])
     ELSE /\ Complete(c, rd[c])
          /\ Block(c, NextBlk(c)) = [sts |-> "VALID", n |-> n[c], data |-> buf[c]]
          /\ \A j \in Blocks \ {rd[c], NextBlk(c)} : Dead(c, j)

\* The flash at the places of a controller.
FlashInStep(c) ==
  /\ pc[c] \in {"SYNC", "IDLE", "EXCH_CRC_COMP"} => Alone(c, rd[c])
  /\ pc[c] = "EXCH_CRC_COMP" => n[c] = 0 /\ NextBlk(c) \in Blocks
  /\ pc[c] = "WRITE_BLK" => n[c] < WrCycles /\ Half(c)
  /\ pc[c] = "INVLD_OLD_BLK" => n[c] = WrCycles /\ Half(c)
  /\ Erasing(c) =>
       /\ n[c] < Pages + WrCycles
       /\ \A i \in Blocks : i \div PerPage < n[c] /\ (i # 0 \/ n[c] <= Pages) =>
            Block(c, i) = Free
       /\ n[c] > Pages =>
            Block(c, 0) = [sts |-> "VALID", n |-> n[c] - Pages, data |-> buf[c]]

\* The block that is found when those before it are gone.
Top(c, i) ==
  /\ Complete(c, i)
  /\ \A j \in Blocks : j > i => Dead(c, j)

\* Data of a store since b, or defaults.
Since(b, d) == d = Default \/ d \in b .. last
\* The data of the block that is read.
DataOf(c) == Block(c, rd[c]).data

\* What c may come to store is not older than b.
DataSince(b, c) ==
  /\ \A i \in Blocks : Top(c, i) => Since(b, Block(c, i).data)
  /\ Erasing(c) =>
       /\ Since(b, buf[c])
       /\ \A i \in Blocks : Top(c, i) => buf[c] \in {Default, Block(c, i).data}
  /\ pc[c] \in Operating => ram[c] = Corrupt(c) \/ (Since(b, ram[c]) /\ Since(DataOf(c), ram[c]))
  /\ pc[c] = "EXCH_CRC_COMP" => buf[c] = Corrupt(c) \/ (Since(b, buf[c]) /\ Since(DataOf(c), buf[c]))
  /\ pc[c] \in Writing => Since(b, buf[c]) /\ Since(DataOf(c), buf[c])
  /\ pc[c] \in Writing \cup {"EXCH_CRC_COMP"} =>
       Corrupt(c) \in {buf[c], ram[c]} \/ Since(buf[c], ram[c])
  /\ pc[c] \in Operating => Since(0, DataOf(c))

\* The write buffer is in the flash, or waits to be, and a reset waits for it.
BufferStored(c) ==
  /\ pc[c] \in Starting => ~pending[c] /\ reset[c] = "none"
  /\ pc[c] = "IDLE" /\ ~pending[c] => ram[c] \in {DataOf(c), Corrupt(c)}
  /\ pc[c] \in Writing \cup {"EXCH_CRC_COMP"} /\ ~pending[c] => ram[c] \in {buf[c], Corrupt(c)}
  /\ pc[c] \in Operating /\ reset[c] \in {"TRIGGER_REQUEST", "ENDLESS_LOOP"} =>
       pc[c] = "IDLE" /\ ~pending[c]

\* Data of one controller that are changed never meet the CRC of the other.
ChangedIsFound(c) ==
  /\ buf[c] \in 0 .. MaxStores \cup {Corrupt(c)}
  /\ peerCrc[c][2] \in 0 .. MaxStores \cup {Corrupt(Peer(c))}
  /\ Erasing(c) \/ pc[c] \in Writing => buf[c] # Corrupt(c)
  /\ \A i \in Blocks : Block(c, i).n > 0 => Block(c, i).data # Corrupt(c)

\* Both have executed the same handlers.
Same(c, p) ==
  /\ pc[c] = pc[p] /\ rd[c] = rd[p] /\ (pending[c] <=> pending[p])
  /\ DataOf(c) = DataOf(p)
  /\ pc[c] \in Writing => n[c] = n[p] /\ buf[c] = buf[p]

\* c has executed one more than p.
Ahead(c, p) ==
  /\ pc[p] # "INVLD_OLD_BLK" => rd[c] = rd[p] /\ DataOf(c) = DataOf(p)
  /\ ~(pc[p] = "IDLE" /\ pending[p]) => (pending[c] <=> pending[p])
  /\ pc[p] = "IDLE" => pc[c] = IF pending[p] THEN "EXCH_CRC_COMP" ELSE "IDLE"
  /\ pc[p] = "IDLE" => ~pending[c]
  /\ pc[p] = "EXCH_CRC_COMP" => pc[c] = "WRITE_BLK" /\ n[c] = 0 /\ buf[c] = buf[p]
  /\ pc[p] = "WRITE_BLK" =>
       /\ n[c] = n[p] + 1 /\ buf[c] = buf[p]
       /\ pc[c] = IF n[c] = WrCycles THEN "INVLD_OLD_BLK" ELSE "WRITE_BLK"
  /\ pc[p] = "INVLD_OLD_BLK" =>
       pc[c] = "IDLE" /\ rd[c] = rd[p] + 1 /\ DataOf(c) = buf[p]

\* Compared are the blocks that both have prepared.
CrcInStep(c) ==
  pc[c] = "EXCH_CRC_COMP" /\ (phase = "task" \/ c \notin done) =>
    peerCrc[c] = Crc(NextBlk(Peer(c)), buf[Peer(c)])

\* Slice 6 apart, the two controllers that operate are at the same place.
Lockstep ==
  BothOperate =>
    /\ phase = "task" => done = {}
    /\ done \in {{}, C} => Same(C1, C2)
    /\ \A c \in C : done = {c} => Ahead(c, Peer(c))
    /\ \A c \in C : CrcInStep(c)

\* They leave the start-up together (SAPL_NvLowCrcSync).
OperateTogether ==
  \/ \A c \in C : pc[c] \in Starting \cup {"FAIL"}
  \/ \A c \in C : pc[c] \in Operating \cup {"FAIL"}

\* All but the types and the age of the data.
CtrlInv ==
  /\ \A c \in C : FlashInStep(c) /\ BufferStored(c) /\ ChangedIsFound(c)
  /\ OperateTogether
  /\ Lockstep

\* With the data since store b.
InvSince(b) == NvmTypeOK /\ CtrlInv /\ \A c \in C : DataSince(b, c)

\* The inductive invariant: nothing older than base comes back.
IInv ==
  /\ InvSince(base)
  /\ base \in 0 .. last
  /\ Content <= base

-----------------------------------------------------------------------------
(* Facts about the constants and the flash *)

\* What the assumptions say of the sizes.
LEMMA Sizes ==
  /\ MaxBlk \in Nat /\ MaxBlk > 1 /\ PerPage \in Nat /\ PerPage > 0
  /\ WrCycles \in Nat /\ WrCycles > 1 /\ MaxStores \in Nat
  /\ 0 \in Blocks /\ IsFiniteSet(Blocks) /\ Blocks \subseteq Nat
<1>1. /\ MaxBlk \in Nat /\ MaxBlk > 1 /\ PerPage \in Nat /\ PerPage > 0
  BY BlocksFillPages
<1> QED
  BY <1>1, WrCyclesAssumption, StoresAssumption, FS_Interval DEF Blocks

\* The pages hold all blocks.
LEMMA PagesHoldBlocks ==
  /\ Pages \in Nat /\ Pages > 0
  /\ \A i \in Blocks : i \div PerPage \in Nat /\ i \div PerPage < Pages
<1>1. /\ MaxBlk \in Nat /\ PerPage \in Nat /\ PerPage > 0 /\ MaxBlk > 1
      /\ MaxBlk % PerPage = 0
  BY BlocksFillPages
<1>2. /\ Pages \in Int
      /\ MaxBlk = PerPage * Pages
  BY <1>1 DEF Pages
<1>3. Pages > 0
  BY <1>1, <1>2
<1>4. ASSUME NEW i \in Blocks
      PROVE  i \div PerPage \in Nat /\ i \div PerPage < Pages
  <2>1. i \in Nat /\ i < MaxBlk
    BY <1>1, <1>4 DEF Blocks
  <2> DEFINE q == i \div PerPage
  <2>2. q \in Int /\ PerPage * q <= i /\ i < PerPage * q + PerPage
    BY <1>1, <2>1
  <2> HIDE DEF q
  <2>3. q < Pages
    BY <1>1, <1>2, <2>1, <2>2
  <2>4. q >= 0
    BY <1>1, <2>1, <2>2
  <2> QED
    BY <2>2, <2>3, <2>4 DEF q
<1> QED
  BY <1>2, <1>3, <1>4

\* The two controllers, and what only one of them can hold.
LEMMA TheControllers ==
  /\ C1 \in C /\ C2 \in C
  /\ \A c \in C : /\ Peer(c) \in C /\ Peer(c) # c /\ Peer(Peer(c)) = c
                  /\ C = {c, Peer(c)}
                  /\ Corrupt(c) \in Data \ 0 .. MaxStores
                  /\ Corrupt(c) # Corrupt(Peer(c))
                  /\ Corrupt(c) > MaxStores
  /\ 0 .. MaxStores \subseteq Data /\ Default \in Data /\ Data \subseteq Nat
  /\ Default \in 0 .. MaxStores
BY TwoControllers, Sizes DEF C, Peer, Corrupt, Data, Default

\* Two valid blocks are one too many.
LEMMA TwoValid ==
  ASSUME NEW c \in C, NEW i \in Blocks, NEW j \in Blocks, i # j,
         Block(c, i).sts = "VALID", Block(c, j).sts = "VALID"
  PROVE  Corrupted(c)
<1>1. IsFiniteSet(ValidBlks(c)) /\ {i, j} \in SUBSET ValidBlks(c)
  <2>1. ValidBlks(c) \in SUBSET Blocks
    BY DEF ValidBlks
  <2> QED
    BY <2>1, Sizes, FS_Subset DEF ValidBlks
<1>2. Cardinality({i, j}) = 2
  <2>1. {i, j} = {i} \cup {j} /\ j \notin {i}
    OBVIOUS
  <2>2. IsFiniteSet({i}) /\ Cardinality({i}) = 1
    BY FS_Singleton
  <2>3. Cardinality({i} \cup {j}) = IF j \in {i} THEN Cardinality({i})
                                                 ELSE Cardinality({i}) + 1
    BY <2>2, FS_AddElement
  <2> QED
    BY <2>1, <2>2, <2>3
<1>3. Cardinality({i, j}) <= Cardinality(ValidBlks(c)) /\ Cardinality(ValidBlks(c)) \in Nat
  BY <1>1, FS_Subset, FS_CardinalityType
<1> QED
  BY <1>2, <1>3 DEF Corrupted

\* A block with data is alone just in a memory that is not corrupted.
LEMMA AloneIsSound ==
  ASSUME NEW c \in C, NEW i \in Blocks, Alone(c, i)
  PROVE  ~Corrupted(c) /\ ValidBlks(c) = {i} /\ Readable(c) = Block(c, i).data
<1>1. ValidBlks(c) = {i}
  BY DEF ValidBlks, Alone, Complete, Dead
<1>2. Cardinality(ValidBlks(c)) = 1
  BY <1>1, FS_Singleton
<1>3. ~Corrupted(c)
  BY <1>1, <1>2 DEF Corrupted, Alone, Complete, Dead
<1>4. (CHOOSE j \in ValidBlks(c) : TRUE) = i
  BY <1>1
<1> QED
  BY <1>1, <1>3, <1>4 DEF Readable, Alone, Complete

\* A sound section with a valid block has data in that block only.
LEMMA SoundIsAlone ==
  ASSUME NEW c \in C, flash \in [C -> [Blocks -> FlashBlks]], ~Corrupted(c),
         ValidBlks(c) # {}
  PROVE  /\ (CHOOSE j \in ValidBlks(c) : TRUE) \in Blocks
         /\ Alone(c, CHOOSE j \in ValidBlks(c) : TRUE)
<1> DEFINE i == CHOOSE j \in ValidBlks(c) : TRUE
<1>1. i \in ValidBlks(c) /\ i \in Blocks
  BY DEF ValidBlks
<1>2. Complete(c, i)
  BY <1>1 DEF Corrupted, Complete, ValidBlks
<1>3. ASSUME NEW j \in Blocks \ {i}
      PROVE  Dead(c, j)
  <2>1. Block(c, j).sts # "VALID"
    BY <1>1, TwoValid DEF ValidBlks
  <2>2. Block(c, j).sts \in Statuses
    BY DEF Block, FlashBlks
  <2> QED
    BY <2>1, <2>2 DEF Dead, Statuses, Corrupted
<1> QED
  BY <1>1, <1>2, <1>3 DEF Alone

\* What can be read is the default or the data of the block that is alone.
ReadableIs(c) ==
  Readable(c) = Default \/ \E i \in Blocks : Alone(c, i) /\ Readable(c) = Block(c, i).data

\* A start reads the block that is alone.
LEMMA ReadsOneBlock ==
  ASSUME NEW c \in C, flash \in [C -> [Blocks -> FlashBlks]]
  PROVE  ReadableIs(c)
<1>1. CASE Corrupted(c) \/ ValidBlks(c) = {}
  BY <1>1 DEF Readable, ReadableIs
<1>2. CASE ~Corrupted(c) /\ ValidBlks(c) # {}
  BY <1>2, SoundIsAlone, AloneIsSound DEF ReadableIs
<1> QED
  BY <1>1, <1>2

\* The block that is alone is the one on top.
LEMMA AloneIsTop ==
  ASSUME NEW c \in C, NEW i \in Blocks, Alone(c, i)
  PROVE  /\ Top(c, i)
         /\ \A j \in Blocks : Top(c, j) => j = i
BY Sizes DEF Alone, Top, Complete, Dead

-----------------------------------------------------------------------------
(* What the steps have in common *)

\* All that the invariant says of one controller.
CtrlOK(b, d) == FlashInStep(d) /\ BufferStored(d) /\ ChangedIsFound(d) /\ DataSince(b, d)

\* Nothing of controller d changes.
SameCtrl(d) ==
  /\ flash'[d] = flash[d] /\ pc'[d] = pc[d] /\ rd'[d] = rd[d] /\ n'[d] = n[d]
  /\ buf'[d] = buf[d] /\ ram'[d] = ram[d] /\ (pending'[d] <=> pending[d])
  /\ peerCrc'[d] = peerCrc[d] /\ reset'[d] = reset[d] /\ last' = last

\* A controller that does nothing stays as it is.
LEMMA Frame ==
  ASSUME NEW d \in C, NEW b, CtrlOK(b, d), SameCtrl(d)
  PROVE  CtrlOK(b, d)'
<1>1. FlashInStep(d)'
  BY DEF CtrlOK, SameCtrl, FlashInStep, Alone, Complete, Dead, CrcOk, Block, Half, NextBlk,
         Erasing
<1>2. BufferStored(d)'
  BY DEF CtrlOK, SameCtrl, BufferStored, DataOf, Block
<1>3. ChangedIsFound(d)'
  BY DEF CtrlOK, SameCtrl, ChangedIsFound, Block, Erasing
<1>4. \A i \in Blocks : Top(d, i)' <=> Top(d, i)
  BY DEF SameCtrl, Top, Complete, Dead, CrcOk, Block
<1>5. \A x, y : Since(x, y)' <=> Since(x, y)
  BY DEF SameCtrl, Since
<1>6. DataSince(b, d)'
  BY <1>4, <1>5 DEF CtrlOK, SameCtrl, DataSince, DataOf, Block, Erasing, Since
<1> QED
  BY <1>1, <1>2, <1>3, <1>6 DEF CtrlOK

\* The invariant, for one controller at a time.
LEMMA InvByControllers ==
  ASSUME NEW b, NEW c \in C
  PROVE  /\ InvSince(b) <=> /\ NvmTypeOK /\ OperateTogether /\ Lockstep
                            /\ CtrlOK(b, c) /\ CtrlOK(b, Peer(c))
         /\ InvSince(b)' <=> /\ NvmTypeOK' /\ OperateTogether' /\ Lockstep'
                             /\ CtrlOK(b, c)' /\ CtrlOK(b, Peer(c))'
BY TheControllers DEF InvSince, CtrlInv, CtrlOK

\* Without two operating controllers there is no lockstep to keep.
LEMMA NotBoth ==
  ASSUME NEW c \in C, pc[c] \notin Operating
  PROVE  Lockstep
BY DEF Lockstep, BothOperate

\* The same after a step.
LEMMA NotBothAfter == \A c \in C : pc'[c] \notin Operating => Lockstep'
BY DEF Lockstep, BothOperate

\* Power is lost when the flash is like f: the flash is what counts.
LEMMA OffKeeps ==
  ASSUME NEW b, InvSince(b), NEW f \in [C -> [Blocks -> FlashBlks]], Off(f),
         \A c \in C : \A i \in Blocks :
           /\ f[c][i].n > 0 => f[c][i].data # Corrupt(c)
           /\ f[c][i].sts = "VALID" /\ f[c][i].n = WrCycles
              /\ (\A j \in Blocks : j > i => f[c][j].sts \in {"FREE", "INVALID"})
                => Since(b, f[c][i].data)
  PROVE  InvSince(b)'
<1>1. NvmTypeOK'
  BY TheControllers, Sizes DEF Off, InvSince, NvmTypeOK, Places, Crc
<1>2. ASSUME NEW c \in C
      PROVE  CtrlOK(b, c)'
  <2>1. /\ flash' = f /\ pc'[c] = "INIT" /\ rd'[c] = 0 /\ n'[c] = 0 /\ buf'[c] = Default
        /\ ram'[c] = Default /\ peerCrc'[c] = Crc(0, Default) /\ reset'[c] = "none"
        /\ last' = last
    BY <1>2 DEF Off
  <2>2. ~pending'[c]
    BY <1>2, Zenon DEF Off
  <2>3. FlashInStep(c)' /\ BufferStored(c)'
    BY <2>1, <2>2 DEF FlashInStep, BufferStored, Erasing, Operating, Starting, Writing
  <2>4. ChangedIsFound(c)'
    BY <1>2, <2>1, TheControllers DEF ChangedIsFound, Block, Crc, Erasing, Writing
  <2>5. \A i \in Blocks : Top(c, i)' => Since(b, flash'[c][i].data)
    BY <1>2, <2>1 DEF Top, Complete, Dead, CrcOk, Block
  <2>6. DataSince(b, c)'
    BY <2>1, <2>5 DEF DataSince, Since, Block, Erasing, Operating, Writing
  <2> QED
    BY <2>3, <2>4, <2>6 DEF CtrlOK
<1>3. OperateTogether' /\ Lockstep'
  <2>1. \A c \in C : pc'[c] = "INIT"
    BY DEF Off
  <2> QED
    BY <2>1, TheControllers, NotBothAfter DEF OperateTogether, Starting, Operating
<1> QED
  BY <1>1, <1>2, <1>3, InvByControllers, TheControllers

\* A flash that is as it was.
LEMMA OffAsItIs ==
  ASSUME NEW b, InvSince(b), Off(flash)
  PROVE  InvSince(b)'
<1>1. flash \in [C -> [Blocks -> FlashBlks]]
  BY DEF InvSince, NvmTypeOK
<1>2. \A c \in C : \A i \in Blocks :
        /\ flash[c][i].n > 0 => flash[c][i].data # Corrupt(c)
        /\ flash[c][i].sts = "VALID" /\ flash[c][i].n = WrCycles
           /\ (\A j \in Blocks : j > i => flash[c][j].sts \in {"FREE", "INVALID"})
             => Since(b, flash[c][i].data)
  BY DEF InvSince, CtrlInv, ChangedIsFound, DataSince, Top, Complete, Dead, CrcOk, Block
<1> QED
  BY <1>1, <1>2, OffKeeps

\* A status that was not programmed completely makes the section unsound.
LEMMA TornStatusKeeps ==
  ASSUME NEW b, InvSince(b), NEW c \in C, TornStatus(c)
  PROVE  InvSince(b)'
<1>1. PICK k \in Blocks : Off(WithStatus(c, k, "GARBAGE"))
  <2>1. CASE pc[c] = "WRITE_BLK" /\ Off(WithStatus(c, NextBlk(c), "GARBAGE"))
    BY <2>1 DEF InvSince, CtrlInv, FlashInStep, Half
  <2>2. CASE pc[c] = "INVLD_OLD_BLK" /\ Off(WithStatus(c, rd[c], "GARBAGE"))
    BY <2>2 DEF InvSince, NvmTypeOK
  <2>3. CASE Off(WithStatus(c, 0, "GARBAGE"))
    BY <2>3, Sizes
  <2> QED
    BY <2>1, <2>2, <2>3 DEF TornStatus
<1> DEFINE f == WithStatus(c, k, "GARBAGE")
<1>2. flash \in [C -> [Blocks -> FlashBlks]]
  BY DEF InvSince, NvmTypeOK
<1>3. f \in [C -> [Blocks -> FlashBlks]]
  BY <1>2 DEF WithStatus, FlashBlks, Statuses
<1>4. \A d \in C : \A i \in Blocks :
        /\ f[d][i].n = flash[d][i].n /\ f[d][i].data = flash[d][i].data
        /\ d # c \/ i # k => f[d][i].sts = flash[d][i].sts
        /\ d = c /\ i = k => f[d][i].sts = "GARBAGE"
  BY <1>2 DEF WithStatus, FlashBlks
<1> HIDE DEF f
<1>5. \A d \in C : \A i \in Blocks :
        /\ f[d][i].n > 0 => f[d][i].data # Corrupt(d)
        /\ f[d][i].sts = "VALID" /\ f[d][i].n = WrCycles
           /\ (\A j \in Blocks : j > i => f[d][j].sts \in {"FREE", "INVALID"})
             => Since(b, f[d][i].data)
  <2> SUFFICES ASSUME NEW d \in C, NEW i \in Blocks
               PROVE  /\ f[d][i].n > 0 => f[d][i].data # Corrupt(d)
                      /\ f[d][i].sts = "VALID" /\ f[d][i].n = WrCycles
                         /\ (\A j \in Blocks : j > i => f[d][j].sts \in {"FREE", "INVALID"})
                           => Since(b, f[d][i].data)
    OBVIOUS
  <2>1. f[d][i].n > 0 => f[d][i].data # Corrupt(d)
    BY <1>4 DEF InvSince, CtrlInv, ChangedIsFound, Block
  <2>2. ASSUME f[d][i].sts = "VALID", f[d][i].n = WrCycles,
               \A j \in Blocks : j > i => f[d][j].sts \in {"FREE", "INVALID"}
        PROVE  Top(d, i)
    <3>1. \A j \in Blocks : j > i => f[d][j].sts = flash[d][j].sts
      BY <1>4, <2>2
    <3>2. f[d][i].sts = flash[d][i].sts
      BY <1>4, <2>2
    <3> QED
      BY <1>4, <2>2, <3>1, <3>2 DEF Top, Complete, Dead, CrcOk, Block
  <2> QED
    BY <1>4, <2>1, <2>2 DEF InvSince, DataSince, Block
<1>6. Off(f)
  BY <1>1 DEF f
<1> QED
  BY <1>3, <1>5, <1>6, OffKeeps

-----------------------------------------------------------------------------
(* Failures, and the start *)

\* In the safety handler the controller only keeps its flash.
LEMMA ToFail ==
  ASSUME NEW b, InvSince(b), NEW c \in C, Set(pc, c, "FAIL"),
         UNCHANGED <<flash, rd, n, buf, ram, pending, peerCrc, reset, phase, done, last>>
  PROVE  InvSince(b)'
<1>1. NvmTypeOK
  BY DEF InvSince
<1>2. pc'[c] = "FAIL" /\ pc'[Peer(c)] = pc[Peer(c)] /\ pc' \in [C -> Places]
  BY <1>1, TheControllers DEF Set, NvmTypeOK, Places
<1>3. NvmTypeOK'
  BY <1>1, <1>2 DEF NvmTypeOK
<1>4. CtrlOK(b, Peer(c))'
  BY <1>2, TheControllers, InvByControllers, Frame DEF SameCtrl
<1>5. CtrlOK(b, c)'
  <2>1. CtrlOK(b, c)
    BY InvByControllers
  <2>2. FlashInStep(c)' /\ BufferStored(c)'
    BY <1>2 DEF FlashInStep, BufferStored, Erasing, Operating, Starting, Writing
  <2>3. ChangedIsFound(c)'
    BY <1>2, <2>1 DEF CtrlOK, ChangedIsFound, Block, Erasing, Writing
  <2>4. \A i \in Blocks : Top(c, i)' <=> Top(c, i)
    BY DEF Top, Complete, Dead, CrcOk, Block
  <2>5. DataSince(b, c)'
    BY <1>2, <2>1, <2>4 DEF CtrlOK, DataSince, Since, Block, Erasing, Operating, Writing
  <2> QED
    BY <2>2, <2>3, <2>5 DEF CtrlOK
<1>6. OperateTogether'
  BY <1>2, TheControllers DEF InvSince, CtrlInv, OperateTogether
<1>7. Lockstep'
  BY <1>2, NotBothAfter DEF Operating
<1> QED
  BY <1>3, <1>4, <1>5, <1>6, <1>7, InvByControllers

\* Another controller's failure, and errors of the flash.
LEMMA FailuresKeep ==
  ASSUME NEW b, InvSince(b), NEW c \in C, SyncTimeout(c) \/ FlashError(c)
  PROVE  InvSince(b)'
BY ToFail DEF SyncTimeout, FlashError

\* A fault of the RAM is found later.
LEMMA BufferFaultKeeps ==
  ASSUME NEW b, InvSince(b), NEW c \in C, BufferFault(c)
  PROVE  InvSince(b)'
<1>1. NvmTypeOK /\ CtrlOK(b, c) /\ CtrlOK(b, Peer(c))
  BY InvByControllers
<1>2. /\ pc[c] \in Operating
      /\ UNCHANGED <<flash, pc, rd, n, buf, pending, peerCrc, reset, phase, done, last>>
  BY DEF BufferFault
<1>3. ram'[c] = Corrupt(c) /\ ram'[Peer(c)] = ram[Peer(c)] /\ ram' \in [C -> Data]
  BY <1>1, TheControllers, TheControllers DEF BufferFault, Set, NvmTypeOK
<1>4. NvmTypeOK'
  BY <1>1, <1>2, <1>3 DEF NvmTypeOK
<1>5. CtrlOK(b, Peer(c))'
  BY <1>1, <1>2, <1>3, TheControllers, Frame DEF SameCtrl
<1>6. CtrlOK(b, c)'
  <2>1. FlashInStep(c)'
    BY <1>1, <1>2 DEF CtrlOK, FlashInStep, Alone, Complete, Dead, CrcOk, Block, Half,
       NextBlk, Erasing
  <2>2. BufferStored(c)' /\ ChangedIsFound(c)'
    BY <1>1, <1>2, <1>3 DEF CtrlOK, BufferStored, ChangedIsFound, Block, Erasing
  <2>3. \A i \in Blocks : Top(c, i)' <=> Top(c, i)
    BY <1>2 DEF Top, Complete, Dead, CrcOk, Block
  <2>4. DataSince(b, c)'
    BY <1>1, <1>2, <1>3, <2>3
       DEF CtrlOK, DataSince, Since, DataOf, Block, Erasing, Operating, Writing
  <2> QED
    BY <2>1, <2>2, <2>4 DEF CtrlOK
<1>7. OperateTogether'
  BY <1>2 DEF InvSince, CtrlInv, OperateTogether
<1>8. Lockstep'
  BY <1>2 DEF InvSince, CtrlInv, Lockstep, BothOperate, Same, Ahead, CrcInStep, DataOf,
     Block, NextBlk
<1> QED
  BY <1>4, <1>5, <1>6, <1>7, <1>8, InvByControllers

\* A step of one controller that starts.
StartsAlone(c) ==
  /\ pc[c] \in Starting /\ pc'[c] \in Starting \cup {"FAIL"}
  /\ SameCtrl(Peer(c))
  /\ NvmTypeOK'

\* A start step of one controller is about that controller only.
LEMMA StartAloneKeeps ==
  ASSUME NEW b, InvSince(b), NEW c \in C, StartsAlone(c), CtrlOK(b, c)'
  PROVE  InvSince(b)'
<1>1. CtrlOK(b, Peer(c))'
  BY TheControllers, InvByControllers, Frame DEF StartsAlone
<1>2. OperateTogether'
  BY TheControllers DEF StartsAlone, InvSince, CtrlInv, OperateTogether, SameCtrl, Starting,
     Operating
<1>3. Lockstep'
  BY NotBothAfter DEF StartsAlone, Starting, Operating
<1> QED
  BY <1>1, <1>2, <1>3, InvByControllers DEF StartsAlone

\* What is erased is written again with data that are not older.
LEMMA StartEraseKeeps ==
  ASSUME NEW b, InvSince(b), NEW c \in C, NEW d, NEW s \in {"ERASE", "ERASE_FAIL"},
         pc[c] = "INIT", StartFirstBlkWrite(c, d, s),
         d = Default \/ \E i \in Blocks : Alone(c, i) /\ d = Block(c, i).data,
         UNCHANGED <<flash, rd, ram, pending, peerCrc, reset, phase, done, last>>
  PROVE  InvSince(b)'
<1>1. NvmTypeOK /\ CtrlOK(b, c)
  BY InvByControllers
<1>2. d \in 0 .. MaxStores \cup {Corrupt(c)} /\ d # Corrupt(c) /\ Since(b, d)
  <2>1. CASE d = Default
    BY <2>1, TheControllers DEF Since
  <2>2. ASSUME NEW i \in Blocks, Alone(c, i), d = Block(c, i).data
        PROVE  d \in 0 .. MaxStores \cup {Corrupt(c)} /\ d # Corrupt(c) /\ Since(b, d)
    <3>1. Since(b, d)
      BY <1>1, <2>2, AloneIsTop DEF CtrlOK, DataSince
    <3>2. d \in Data /\ last \in 0 .. MaxStores
      BY <1>1, <2>2 DEF NvmTypeOK, Block, FlashBlks
    <3>3. Block(c, i).n > 0
      BY <2>2, Sizes DEF Alone, Complete, CrcOk
    <3>4. d # Corrupt(c)
      BY <1>1, <2>2, <3>3 DEF CtrlOK, ChangedIsFound
    <3>5. d \in 0 .. MaxStores
      BY <3>1, <3>2, Sizes, TheControllers DEF Since, Default
    <3> QED
      BY <3>1, <3>4, <3>5
  <2> QED
    BY <2>1, <2>2
<1>3. /\ pc'[c] = s /\ pc' \in [C -> Places] /\ pc'[Peer(c)] = pc[Peer(c)]
      /\ n'[c] = 0 /\ n' \in [C -> Nat] /\ n'[Peer(c)] = n[Peer(c)]
      /\ buf'[c] = d /\ buf' \in [C -> Data] /\ buf'[Peer(c)] = buf[Peer(c)]
  <2>1. d \in Data /\ s \in Places
    BY <1>2, TheControllers DEF Places
  <2> QED
    BY <1>1, <2>1, TheControllers DEF StartFirstBlkWrite, Set, NvmTypeOK
<1>4. StartsAlone(c)
  <2>1. NvmTypeOK'
    BY <1>1, <1>3 DEF NvmTypeOK
  <2> QED
    BY <1>3, <2>1 DEF StartsAlone, Starting, SameCtrl
<1>5. FlashInStep(c)'
  BY <1>3, PagesHoldBlocks, Sizes DEF FlashInStep, Erasing, Operating
<1>6. BufferStored(c)'
  BY <1>1, <1>3 DEF CtrlOK, BufferStored, Starting, Writing, Operating
<1>7. ChangedIsFound(c)'
  BY <1>1, <1>2, <1>3 DEF CtrlOK, ChangedIsFound, Block
<1>8. DataSince(b, c)'
  <2>1. \A i \in Blocks : Top(c, i)' <=> Top(c, i)
    BY DEF Top, Complete, Dead, CrcOk, Block
  <2>2. \A i \in Blocks : Top(c, i) => d \in {Default, Block(c, i).data}
    BY AloneIsTop
  <2>3. Since(b, d)' /\ \A i \in Blocks : Top(c, i) => Since(b, Block(c, i).data)'
    BY <1>1, <1>2 DEF CtrlOK, DataSince, Since, Block
  <2> QED
    BY <1>3, <2>1, <2>2, <2>3 DEF DataSince, Operating, Writing, Block
<1> QED
  BY <1>4, <1>5, <1>6, <1>7, <1>8, StartAloneKeeps DEF CtrlOK

\* SAPL_NvLowInit erases, keeping the data or not, or finds the block to read.
LEMMA InitKeeps ==
  ASSUME NEW b, InvSince(b), NEW c \in C, SAPL_NvLowInit(c)
  PROVE  InvSince(b)'
<1> DEFINE i == CHOOSE i \in ValidBlks(c) : TRUE
<1>1. NvmTypeOK /\ CtrlOK(b, c) /\ flash \in [C -> [Blocks -> FlashBlks]]
  BY InvByControllers DEF NvmTypeOK
<1>2. /\ pc[c] = "INIT"
      /\ UNCHANGED <<flash, ram, pending, peerCrc, reset, phase, done, last>>
  BY DEF SAPL_NvLowInit
<1>3. CASE Corrupted(c)
  BY <1>2, <1>3, StartEraseKeeps DEF SAPL_NvLowInit
<1>4. CASE ~Corrupted(c) /\ ValidBlks(c) = {}
  BY <1>2, <1>4, StartEraseKeeps DEF SAPL_NvLowInit
<1>5. CASE ~Corrupted(c) /\ ValidBlks(c) # {}
  <2>1. i \in Blocks /\ Alone(c, i)
    BY <1>1, <1>5, SoundIsAlone
  <2>2. CASE i > Thresh
    <3>1. StartFirstBlkWrite(c, Block(c, i).data, "ERASE") /\ UNCHANGED rd
      BY <1>5, <2>2 DEF SAPL_NvLowInit
    <3> PICK d : d = Block(c, i).data
      OBVIOUS
    <3>2. \E j \in Blocks : Alone(c, j) /\ d = Block(c, j).data
      BY <2>1
    <3>3. StartFirstBlkWrite(c, d, "ERASE")
      BY <3>1 DEF StartFirstBlkWrite, Set
    <3> HIDE DEF i
    <3> QED
      BY <1>2, <3>1, <3>2, <3>3, StartEraseKeeps
  <2>3. CASE ~(i > Thresh)
    <3>1. Set(rd, c, i) /\ Set(pc, c, "SYNC") /\ UNCHANGED <<buf, n>>
      BY <1>5, <2>3 DEF SAPL_NvLowInit
    <3> HIDE DEF i
    <3>2. /\ pc'[c] = "SYNC" /\ pc' \in [C -> Places] /\ pc'[Peer(c)] = pc[Peer(c)]
          /\ rd'[c] = i /\ rd' \in [C -> Blocks] /\ rd'[Peer(c)] = rd[Peer(c)]
      BY <1>1, <2>1, <3>1, TheControllers DEF Set, NvmTypeOK, Places
    <3>3. StartsAlone(c)
      <4>1. NvmTypeOK'
        BY <1>1, <1>2, <3>1, <3>2 DEF NvmTypeOK
      <4> QED
        BY <1>2, <3>1, <3>2, <4>1 DEF StartsAlone, Starting, SameCtrl
    <3>4. FlashInStep(c)'
      BY <1>2, <2>1, <3>2 DEF FlashInStep, Alone, Complete, Dead, CrcOk, Block, Erasing
    <3>5. BufferStored(c)' /\ ChangedIsFound(c)'
      BY <1>1, <1>2, <3>1, <3>2 DEF CtrlOK, BufferStored, ChangedIsFound, Block, Starting,
         Writing, Operating, Erasing
    <3>6. DataSince(b, c)'
      <4>1. \A j \in Blocks : Top(c, j)' <=> Top(c, j)
        BY <1>2 DEF Top, Complete, Dead, CrcOk, Block
      <4> QED
        BY <1>1, <1>2, <3>2, <4>1 DEF CtrlOK, DataSince, Since, Block, Operating, Writing,
           Erasing
    <3> QED
      BY <3>3, <3>4, <3>5, <3>6, StartAloneKeeps DEF CtrlOK
  <2> QED
    BY <2>2, <2>3
<1> QED
  BY <1>3, <1>4, <1>5

\* A higher block is in the same page or in a higher one.
LEMMA PagesInOrder ==
  ASSUME NEW i \in Blocks, NEW j \in Blocks, i < j
  PROVE  i \div PerPage <= j \div PerPage
<1>1. PerPage \in Nat /\ PerPage > 0 /\ i \in Nat /\ j \in Nat
  BY Sizes
<1> DEFINE q == i \div PerPage
           r == j \div PerPage
<1>2. /\ q \in Int /\ PerPage * q <= i
      /\ r \in Int /\ j < PerPage * r + PerPage
  BY <1>1
<1> HIDE DEF q, r
<1>3. PerPage * q < PerPage * (r + 1)
  BY <1>1, <1>2
<1>4. q < r + 1
  BY <1>1, <1>2, <1>3
<1> QED
  BY <1>2, <1>4 DEF q, r

\* A page more is erased.
LEMMA EraseKeeps ==
  ASSUME NEW b, InvSince(b), NEW c \in C, NvParamConfSectionErase(c)
  PROVE  InvSince(b)'
<1>1. NvmTypeOK /\ CtrlOK(b, c)
  BY InvByControllers
<1>2. /\ Erasing(c) /\ n[c] < Pages
      /\ UNCHANGED <<pc, rd, buf, ram, pending, peerCrc, reset, phase, done, last>>
  BY DEF NvParamConfSectionErase
<1>3. /\ flash' \in [C -> [Blocks -> FlashBlks]]
      /\ \A i \in Blocks : flash'[c][i] = IF i \div PerPage = n[c] THEN Free ELSE flash[c][i]
      /\ flash'[Peer(c)] = flash[Peer(c)]
  <2>1. Free \in FlashBlks
    BY TheControllers, Sizes DEF Free, FlashBlks, Statuses
  <2> QED
    BY <1>1, <2>1, TheControllers DEF NvParamConfSectionErase, NvmTypeOK
<1>4. n' \in [C -> Nat] /\ n'[c] = n[c] + 1 /\ n'[Peer(c)] = n[Peer(c)]
  BY <1>1, TheControllers DEF NvParamConfSectionErase, Set, NvmTypeOK
<1>5. StartsAlone(c)
  <2>1. NvmTypeOK'
    BY <1>1, <1>2, <1>3, <1>4 DEF NvmTypeOK
  <2> QED
    BY <1>2, <1>3, <1>4, <2>1 DEF StartsAlone, Starting, SameCtrl, Erasing
<1>6. n[c] \in Nat /\ \A i \in Blocks : i \div PerPage < n[c] => Block(c, i) = Free
  BY <1>1, <1>2, PagesHoldBlocks DEF CtrlOK, FlashInStep, NvmTypeOK
<1>7. FlashInStep(c)'
  <2>1. n'[c] < Pages + WrCycles /\ n'[c] <= Pages
    BY <1>2, <1>4, <1>6, PagesHoldBlocks, Sizes
  <2>2. ASSUME NEW i \in Blocks, i \div PerPage < n'[c]
        PROVE  Block(c, i)' = Free
    <3>1. i \div PerPage < n[c] \/ i \div PerPage = n[c]
      BY <1>4, <1>6, <2>2, PagesHoldBlocks
    <3> QED
      BY <1>3, <1>6, <3>1 DEF Block
  <2>3. ~(n'[c] > Pages)
    BY <1>4, <1>6, <2>1, PagesHoldBlocks
  <2> QED
    BY <1>2, <2>1, <2>2, <2>3 DEF FlashInStep, Erasing, Operating
<1>8. BufferStored(c)'
  BY <1>1, <1>2 DEF CtrlOK, BufferStored, Starting, Writing, Operating, Erasing
<1>9. ChangedIsFound(c)'
  BY <1>1, <1>2, <1>3 DEF CtrlOK, ChangedIsFound, Block, Erasing, Writing, Free
<1>10. DataSince(b, c)'
  <2>1. ASSUME NEW i \in Blocks, Top(c, i)'
        PROVE  Top(c, i) /\ Block(c, i)' = Block(c, i)
    <3>1. i \div PerPage # n[c] /\ Block(c, i)' = Block(c, i)
      BY <1>3, <2>1 DEF Top, Complete, Block, Free
    <3>2. Complete(c, i) /\ ~(i \div PerPage < n[c])
      <4>1. Complete(c, i)
        BY <2>1, <3>1 DEF Top, Complete, CrcOk
      <4> QED
        BY <1>6, <4>1 DEF Complete, Free
    <3>3. ASSUME NEW j \in Blocks, j > i
          PROVE  Dead(c, j)
      <4>1. i \div PerPage <= j \div PerPage
        BY <3>3, PagesInOrder, Sizes
      <4>2. j \div PerPage # n[c]
        BY <1>6, <3>1, <3>2, <4>1, PagesHoldBlocks
      <4>3. Block(c, j)' = Block(c, j)
        BY <1>3, <4>2 DEF Block
      <4> QED
        BY <2>1, <3>3, <4>3 DEF Top, Dead
    <3> QED
      BY <3>1, <3>2, <3>3 DEF Top
  <2>2. \A i \in Blocks : Top(c, i)' =>
          Since(b, Block(c, i).data)' /\ buf'[c] \in {Default, Block(c, i)' .data}
    BY <1>1, <1>2, <2>1 DEF CtrlOK, DataSince, Since
  <2>3. Since(b, buf[c])'
    BY <1>1, <1>2 DEF CtrlOK, DataSince, Since
  <2> QED
    BY <1>2, <2>2, <2>3 DEF DataSince, Since, Erasing, Operating, Writing
<1> QED
  BY <1>5, <1>7, <1>8, <1>9, <1>10, StartAloneKeeps DEF CtrlOK

\* Another half-word of the first block is written.
LEMMA FirstBlkWriteKeeps ==
  ASSUME NEW b, InvSince(b), NEW c \in C, FirstBlkWrite(c)
  PROVE  InvSince(b)'
<1> DEFINE k == n[c] - Pages
<1>1. NvmTypeOK /\ CtrlOK(b, c) /\ 0 \in Blocks
  BY InvByControllers, Sizes
<1>2. /\ Erasing(c) /\ n[c] >= Pages /\ n[c] \in Nat
      /\ UNCHANGED <<buf, ram, pending, peerCrc, reset, phase, done, last>>
  BY <1>1 DEF FirstBlkWrite, NvmTypeOK
<1>3. /\ k \in Nat /\ k + 1 \in 0 .. WrCycles /\ n[c] = k + Pages
      /\ \A i \in Blocks \ {0} : Block(c, i) = Free
      /\ k > 0 => Block(c, 0).sts = "VALID"
  <2>1. k \in Nat /\ k < WrCycles /\ n[c] = k + Pages
    <3>1. n[c] < Pages + WrCycles
      BY <1>1, <1>2 DEF CtrlOK, FlashInStep
    <3>2. Pages \in Nat /\ WrCycles \in Nat
      BY PagesHoldBlocks, Sizes
    <3> QED
      BY <1>2, <3>1, <3>2
  <2>2. \A i \in Blocks \ {0} : Block(c, i) = Free
    <3>1. \A i \in Blocks \ {0} : i \div PerPage < n[c]
      BY <1>2, PagesHoldBlocks
    <3> QED
      BY <1>1, <1>2, <3>1 DEF CtrlOK, FlashInStep
  <2>3. k > 0 => Block(c, 0).sts = "VALID"
    <3>1. k > 0 => n[c] > Pages
      BY <2>1, PagesHoldBlocks
    <3> QED
      BY <1>1, <1>2, <3>1 DEF CtrlOK, FlashInStep
  <2> HIDE DEF k
  <2> QED
    BY <2>1, <2>2, <2>3, Sizes
<1>4. /\ flash' = Programmed(c, 0, k, buf[c])
      /\ IF k + 1 < WrCycles
         THEN n' = [n EXCEPT ![c] = n[c] + 1] /\ pc' = pc /\ rd' = rd
         ELSE /\ n' = [n EXCEPT ![c] = 0]
              /\ rd' = [rd EXCEPT ![c] = 0]
              /\ pc' = [pc EXCEPT ![c] = IF pc[c] = "ERASE" THEN "SYNC" ELSE "FAIL"]
  BY DEF FirstBlkWrite, Set
<1> HIDE DEF k
<1>5. /\ flash' \in [C -> [Blocks -> FlashBlks]]
      /\ flash'[c][0] = [sts |-> "VALID", n |-> k + 1, data |-> buf[c]]
      /\ \A i \in Blocks \ {0} : flash'[c][i] = Free
      /\ flash'[Peer(c)] = flash[Peer(c)]
  <2>1. [sts |-> IF k = 0 THEN "VALID" ELSE flash[c][0].sts, n |-> k + 1, data |-> buf[c]]
          = [sts |-> "VALID", n |-> k + 1, data |-> buf[c]]
    BY <1>3 DEF Block
  <2>2. [sts |-> "VALID", n |-> k + 1, data |-> buf[c]] \in FlashBlks
    BY <1>1, <1>3 DEF FlashBlks, Statuses, NvmTypeOK
  <2>3. flash' = [flash EXCEPT ![c][0] = [sts |-> "VALID", n |-> k + 1, data |-> buf[c]]]
    BY <1>1, <1>4, <2>1 DEF Programmed, NvmTypeOK
  <2> QED
    BY <1>1, <1>3, <2>2, <2>3, TheControllers DEF NvmTypeOK, Block
<1>6. \A i \in Blocks \ {0} : Block(c, i)' = Free
  BY <1>5 DEF Block
<1>7. ChangedIsFound(c)'
  <2>1. \A i \in Blocks : Block(c, i)' .n > 0 => Block(c, i)' .data # Corrupt(c)
    BY <1>1, <1>2, <1>5, <1>6 DEF CtrlOK, ChangedIsFound, Block, Free
  <2> QED
    BY <1>1, <1>2, <2>1 DEF CtrlOK, ChangedIsFound, Block
<1>8. Since(b, buf[c])'
  BY <1>1, <1>2 DEF CtrlOK, DataSince, Since
<1>9. \A i \in Blocks : Top(c, i)' => i = 0 /\ Block(c, i)' .data = buf[c]
  BY <1>5, <1>6 DEF Top, Complete, Block, Free
<1>10. CASE k + 1 < WrCycles
  <2>1. n' \in [C -> Nat] /\ n'[c] = n[c] + 1 /\ n'[Peer(c)] = n[Peer(c)] /\ UNCHANGED <<pc, rd>>
    BY <1>1, <1>4, <1>10, TheControllers DEF NvmTypeOK
  <2>2. StartsAlone(c)
    <3>1. NvmTypeOK'
      BY <1>1, <1>2, <1>5, <2>1 DEF NvmTypeOK
    <3> QED
      BY <1>2, <1>5, <2>1, <3>1 DEF StartsAlone, Starting, SameCtrl, Erasing
  <2>3. FlashInStep(c)'
    <3>1. n'[c] < Pages + WrCycles /\ n'[c] > Pages /\ n'[c] - Pages = k + 1
      BY <1>3, <1>10, <2>1, PagesHoldBlocks, Sizes
    <3>2. Block(c, 0)' = [sts |-> "VALID", n |-> n'[c] - Pages, data |-> buf'[c]]
      BY <1>2, <1>5, <3>1 DEF Block
    <3>3. ~(n'[c] <= Pages)
      BY <2>1, <3>1, <1>2, PagesHoldBlocks
    <3> QED
      BY <1>2, <1>6, <2>1, <3>1, <3>2, <3>3 DEF FlashInStep, Erasing, Operating
  <2>4. BufferStored(c)'
    BY <1>1, <1>2, <2>1 DEF CtrlOK, BufferStored, Starting, Writing, Operating, Erasing
  <2>5. DataSince(b, c)'
    BY <1>2, <1>8, <1>9, <2>1 DEF DataSince, Since, Erasing, Operating, Writing
  <2> QED
    BY <1>7, <2>2, <2>3, <2>4, <2>5, StartAloneKeeps DEF CtrlOK
<1>11. CASE ~(k + 1 < WrCycles)
  <2>1. /\ n' \in [C -> Nat] /\ n'[Peer(c)] = n[Peer(c)]
        /\ rd' \in [C -> Blocks] /\ rd'[c] = 0 /\ rd'[Peer(c)] = rd[Peer(c)]
        /\ pc' \in [C -> Places] /\ pc'[c] \in {"SYNC", "FAIL"} /\ pc'[Peer(c)] = pc[Peer(c)]
    <3>1. pc' = [pc EXCEPT ![c] = "SYNC"] \/ pc' = [pc EXCEPT ![c] = "FAIL"]
      BY <1>4, <1>11
    <3>2. n' = [n EXCEPT ![c] = 0] /\ rd' = [rd EXCEPT ![c] = 0]
      BY <1>4, <1>11
    <3> QED
      BY <1>1, <3>1, <3>2, TheControllers DEF NvmTypeOK, Places
  <2>2. StartsAlone(c)
    <3>1. NvmTypeOK'
      BY <1>1, <1>2, <1>5, <2>1 DEF NvmTypeOK
    <3> QED
      BY <1>2, <1>5, <2>1, <3>1 DEF StartsAlone, Starting, SameCtrl, Erasing
  <2>3. FlashInStep(c)'
    <3>1. Alone(c, 0)'
      <4>1. k + 1 = WrCycles
        BY <1>3, <1>11, Sizes
      <4> QED
        BY <1>5, <1>6, <4>1 DEF Alone, Complete, CrcOk, Dead, Block, Free
    <3> QED
      BY <2>1, <3>1 DEF FlashInStep, Erasing, Alone, Complete, CrcOk, Dead, Block
  <2>4. BufferStored(c)'
    BY <1>1, <1>2, <2>1 DEF CtrlOK, BufferStored, Starting, Writing, Operating, Erasing
  <2>5. DataSince(b, c)'
    BY <1>2, <1>8, <1>9, <2>1 DEF DataSince, Since, Erasing, Operating, Writing
  <2> QED
    BY <1>7, <2>2, <2>3, <2>4, <2>5, StartAloneKeeps DEF CtrlOK
<1> QED
  BY <1>10, <1>11

\* The controllers compare what they have found.
LEMMA CrcSyncKeeps ==
  ASSUME NEW b, InvSince(b), SAPL_NvLowCrcSync
  PROVE  InvSince(b)'
<1>1. /\ NvmTypeOK /\ \A c \in C : CtrlOK(b, c) /\ pc[c] = "SYNC"
      /\ phase' = "handler" /\ done' = {}
      /\ UNCHANGED <<flash, rd, pending, peerCrc, reset, last>>
  <2>1. NvmTypeOK /\ \A c \in C : CtrlOK(b, c)
    BY TheControllers, InvByControllers
  <2> QED
    BY <2>1 DEF SAPL_NvLowCrcSync
<1>2. \A c \in C : \A i \in Blocks : Top(c, i)' <=> Top(c, i)
  BY <1>1 DEF Top, Complete, Dead, CrcOk, Block
<1>3. CASE BlocksAgree
  <2>1. /\ pc' = [c \in C |-> "IDLE"]
        /\ ram' = [c \in C |-> DataOf(c)]
        /\ UNCHANGED <<buf, n>>
    BY <1>3 DEF SAPL_NvLowCrcSync, DataOf
  <2>2. NvmTypeOK'
    <3>1. \A c \in C : DataOf(c) \in Data
      BY <1>1 DEF NvmTypeOK, DataOf, Block, FlashBlks
    <3> QED
      BY <1>1, <2>1, <3>1 DEF NvmTypeOK, Places, Operating
  <2>3. ASSUME NEW c \in C
        PROVE  CtrlOK(b, c)'
    <3>1. Alone(c, rd[c]) /\ rd[c] \in Blocks
      BY <1>1 DEF CtrlOK, FlashInStep, NvmTypeOK
    <3>2. FlashInStep(c)'
      BY <1>1, <2>1, <3>1 DEF FlashInStep, Alone, Complete, Dead, CrcOk, Block, Erasing
    <3>3. BufferStored(c)'
      BY <1>1, <2>1 DEF CtrlOK, BufferStored, Starting, Operating, Writing, DataOf, Block
    <3>4. ChangedIsFound(c)'
      BY <1>1, <2>1 DEF CtrlOK, ChangedIsFound, Block, Erasing, Writing
    <3>5. Since(b, DataOf(c))
      BY <1>1, <3>1, AloneIsTop DEF CtrlOK, DataSince, DataOf
    <3>6. Since(DataOf(c), DataOf(c)) /\ Since(0, DataOf(c))
      <4>1. DataOf(c) \in Nat /\ last \in Nat
        <5>1. Block(c, rd[c]) \in FlashBlks /\ last \in 0 .. MaxStores
          BY <1>1, <3>1 DEF NvmTypeOK, Block
        <5> QED
          BY <5>1, TheControllers, Sizes DEF DataOf, FlashBlks
      <4> QED
        BY <3>5, <4>1 DEF Since
    <3>7. DataSince(b, c)'
      BY <1>1, <1>2, <2>1, <3>5, <3>6
         DEF CtrlOK, DataSince, Since, DataOf, Block, Erasing, Writing, Operating
    <3> QED
      BY <3>2, <3>3, <3>4, <3>7 DEF CtrlOK
  <2>4. OperateTogether'
    BY <2>1 DEF OperateTogether, Operating
  <2>5. Lockstep'
    <3>1. Same(C1, C2)'
      <4>1. rd[C1] = rd[C2] /\ DataOf(C1) = DataOf(C2)
        BY <1>3 DEF BlocksAgree, Crc, DataOf
      <4>2. ~pending[C1] /\ ~pending[C2]
        BY <1>1, TheControllers DEF CtrlOK, BufferStored, Starting
      <4> QED
        BY <1>1, <2>1, <4>1, <4>2, TheControllers DEF Same, DataOf, Block, Writing
    <3>2. \A c \in C : done' # {c}
      BY <1>1
    <3>3. \A c \in C : CrcInStep(c)'
      BY <2>1 DEF CrcInStep
    <3> QED
      BY <1>1, <3>1, <3>2, <3>3 DEF Lockstep
  <2> QED
    BY <2>2, <2>3, <2>4, <2>5, InvByControllers, TheControllers
<1>4. CASE ~BlocksAgree
  <2>1. /\ pc' = [c \in C |-> "ERASE_FAIL"]
        /\ buf' = [c \in C |-> Default]
        /\ n' = [c \in C |-> 0]
        /\ UNCHANGED ram
    BY <1>4 DEF SAPL_NvLowCrcSync
  <2>2. NvmTypeOK'
    BY <1>1, <2>1, TheControllers DEF NvmTypeOK, Places
  <2>3. ASSUME NEW c \in C
        PROVE  CtrlOK(b, c)'
    <3>1. FlashInStep(c)'
      BY <1>1, <2>1, PagesHoldBlocks, Sizes DEF FlashInStep, Erasing, Operating
    <3>2. BufferStored(c)'
      BY <1>1, <2>1 DEF CtrlOK, BufferStored, Starting, Operating, Writing
    <3>3. ChangedIsFound(c)'
      BY <1>1, <2>1, TheControllers DEF CtrlOK, ChangedIsFound, Block
    <3>4. DataSince(b, c)'
      BY <1>1, <1>2, <2>1 DEF CtrlOK, DataSince, Since, Block, Writing, Operating
    <3> QED
      BY <3>1, <3>2, <3>3, <3>4 DEF CtrlOK
  <2>4. OperateTogether' /\ Lockstep'
    BY <2>1, TheControllers, NotBothAfter DEF OperateTogether, Starting, Operating
  <2> QED
    BY <2>2, <2>3, <2>4, InvByControllers, TheControllers
<1> QED
  BY <1>3, <1>4

-----------------------------------------------------------------------------
(* The handler *)

\* A controller that has failed keeps what it has.
LEMMA FailedIsOK ==
  ASSUME NEW b, NEW c \in C, CtrlOK(b, c), pc'[c] = "FAIL",
         flash'[c] = flash[c], buf'[c] = buf[c], peerCrc'[c] = peerCrc[c], last' = last
  PROVE  CtrlOK(b, c)'
<1>1. FlashInStep(c)' /\ BufferStored(c)'
  BY DEF FlashInStep, BufferStored, Erasing, Operating, Starting, Writing
<1>2. ChangedIsFound(c)'
  BY DEF CtrlOK, ChangedIsFound, Block, Erasing, Writing
<1>3. \A i \in Blocks : Top(c, i)' <=> Top(c, i)
  BY DEF Top, Complete, Dead, CrcOk, Block
<1>4. DataSince(b, c)'
  BY <1>3 DEF CtrlOK, DataSince, Since, Block, Erasing, Operating, Writing
<1> QED
  BY <1>1, <1>2, <1>4 DEF CtrlOK

\* Both controllers are the same to each other.
LEMMA SameBothWays ==
  ASSUME NEW c \in C
  PROVE  /\ Same(C1, C2) <=> Same(c, Peer(c))
         /\ Same(C1, C2)' <=> Same(c, Peer(c))'
<1>1. CASE c = C1
  <2>1. Peer(c) = C2
    BY <1>1 DEF Peer
  <2> QED
    BY <1>1, <2>1
<1>2. CASE c = C2
  <2>1. Peer(c) = C1
    BY <1>2, TwoControllers DEF Peer
  <2> QED
    BY <1>2, <2>1 DEF Same
<1> QED
  BY <1>1, <1>2 DEF C

\* A step of the handler of c takes it from the same place to the place ahead,
\* or from the place behind to the same.
Steps(c) ==
  /\ phase = "handler" /\ c \notin done /\ done' = done \cup {c} /\ phase' = phase
  /\ pc[c] \in Operating /\ pc'[c] \in Operating \cup {"FAIL"}
  /\ SameCtrl(Peer(c))
  /\ pc'[c] # "FAIL" =>
       /\ Same(c, Peer(c)) /\ CrcInStep(c) => Ahead(c, Peer(c))'
       /\ Ahead(Peer(c), c) => Same(c, Peer(c))'
       /\ pc[c] = "EXCH_CRC_COMP" => rd'[c] = rd[c] /\ buf'[c] = buf[c]

\* Such a step keeps the two controllers in lockstep.
LEMMA StepKeepsInv ==
  ASSUME NEW b, InvSince(b), NEW c \in C, Steps(c), NvmTypeOK', CtrlOK(b, c)'
  PROVE  InvSince(b)'
<1>1. CtrlOK(b, Peer(c))'
  BY TheControllers, InvByControllers, Frame DEF Steps
<1>2. OperateTogether'
  BY TheControllers DEF Steps, InvSince, CtrlInv, OperateTogether, SameCtrl, Starting,
     Operating
<1>3. Lockstep'
  <2> SUFFICES ASSUME BothOperate'
               PROVE  Lockstep'
    BY DEF Lockstep
  <2>1. pc'[c] # "FAIL" /\ BothOperate
    <3>1. pc'[c] \in Operating /\ pc'[Peer(c)] \in Operating
      BY TheControllers DEF BothOperate
    <3>2. pc[c] \in Operating /\ pc[Peer(c)] \in Operating
      BY <3>1 DEF Steps, SameCtrl
    <3>3. \A d \in C : d = c \/ d = Peer(c)
      BY TheControllers
    <3> QED
      BY <3>1, <3>2, <3>3 DEF BothOperate, Operating
  <2>2. Lockstep
    BY InvByControllers
  <2>3. done = {} \/ done = {Peer(c)}
    <3>1. done \in SUBSET C
      BY DEF InvSince, NvmTypeOK
    <3> QED
      BY <3>1, TheControllers DEF Steps
  <2>4. CrcInStep(c)'
    BY DEF Steps, CrcInStep
  <2>5. CASE done = {}
    <3>1. done' = {c} /\ phase' = "handler"
      BY <2>5 DEF Steps
    <3>2. Same(c, Peer(c)) /\ CrcInStep(c) /\ CrcInStep(Peer(c))
      BY <2>1, <2>2, <2>5, SameBothWays, TheControllers DEF Lockstep
    <3>3. Ahead(c, Peer(c))'
      BY <2>1, <3>2 DEF Steps
    <3>4. CrcInStep(Peer(c))'
      <4> SUFFICES ASSUME pc'[Peer(c)] = "EXCH_CRC_COMP"
                   PROVE  peerCrc'[Peer(c)] = Crc(NextBlk(c), buf[c])'
        BY TheControllers DEF CrcInStep
      <4>1. pc[Peer(c)] = "EXCH_CRC_COMP" /\ pc[c] = "EXCH_CRC_COMP"
        BY <3>2 DEF Steps, SameCtrl, Same
      <4>2. peerCrc[Peer(c)] = Crc(NextBlk(c), buf[c])
        BY <2>5, <3>2, <4>1, TheControllers DEF CrcInStep
      <4> QED
        BY <2>1, <4>1, <4>2 DEF Steps, SameCtrl, Crc, NextBlk
    <3>5. ~(done' \in {{}, C}) /\ done' # {Peer(c)}
      BY <3>1, TheControllers
    <3>6. \A d \in C : d = c \/ d = Peer(c)
      BY TheControllers
    <3> QED
      BY <2>4, <3>1, <3>3, <3>4, <3>5, <3>6 DEF Lockstep
  <2>6. CASE done = {Peer(c)}
    <3>1. done' = C /\ phase' = "handler"
      BY <2>6, TheControllers DEF Steps
    <3>2. Ahead(Peer(c), c)
      BY <2>1, <2>2, <2>6, TheControllers DEF Lockstep
    <3>3. Same(C1, C2)'
      BY <2>1, <3>2, SameBothWays DEF Steps
    <3>4. \A d \in C : done' # {d}
      BY <3>1, TheControllers
    <3>5. \A d \in C : CrcInStep(d)'
      BY <3>1 DEF CrcInStep
    <3> QED
      BY <3>1, <3>3, <3>4, <3>5 DEF Lockstep
  <2> QED
    BY <2>3, <2>5, <2>6
<1> QED
  BY <1>1, <1>2, <1>3, InvByControllers

\* The write buffer is taken over, if there is something to write.
LEMMA IdleKeeps ==
  ASSUME NEW b, InvSince(b), NEW c \in C, HandlerIdle(c)
  PROVE  InvSince(b)'
<1>1. NvmTypeOK /\ CtrlOK(b, c)
  BY InvByControllers
<1>2. /\ phase = "handler" /\ c \notin done /\ done' = done \cup {c} /\ phase' = phase
      /\ pc[c] = "IDLE"
      /\ UNCHANGED <<phase, last, ram, peerCrc, reset, flash, rd>>
  BY DEF HandlerIdle, InHandler
<1>3. done' \in SUBSET C
  BY <1>1, <1>2 DEF NvmTypeOK
<1>4. CASE ~pending[c]
  <2>1. UNCHANGED <<pc, n, buf, pending>>
    BY <1>4 DEF HandlerIdle
  <2>2. NvmTypeOK'
    BY <1>1, <1>2, <1>3, <2>1 DEF NvmTypeOK
  <2>3. SameCtrl(c) /\ SameCtrl(Peer(c))
    BY <1>2, <2>1 DEF SameCtrl
  <2>4. Steps(c)
    <3>1. Same(c, Peer(c)) => Ahead(c, Peer(c))'
      BY <1>2, <1>4, <2>1 DEF Same, Ahead, DataOf, Block
    <3>2. Ahead(Peer(c), c) => Same(c, Peer(c))'
      BY <1>2, <1>4, <2>1 DEF Same, Ahead, DataOf, Block, Writing
    <3> QED
      BY <1>2, <2>1, <2>3, <3>1, <3>2 DEF Steps, Operating
  <2> QED
    BY <1>1, <2>2, <2>3, <2>4, Frame, StepKeepsInv
<1>5. CASE pending[c] /\ (NextBlk(c) >= MaxBlk \/ Block(c, NextBlk(c)).sts # "FREE")
  <2>1. Set(pc, c, "FAIL") /\ UNCHANGED <<n, buf, pending>>
    BY <1>5 DEF HandlerIdle
  <2>2. pc' \in [C -> Places] /\ pc'[c] = "FAIL" /\ pc'[Peer(c)] = pc[Peer(c)]
    BY <1>1, <2>1, TheControllers DEF Set, NvmTypeOK, Places
  <2>3. NvmTypeOK'
    BY <1>1, <1>2, <1>3, <2>1, <2>2 DEF NvmTypeOK
  <2>4. SameCtrl(Peer(c))
    BY <1>2, <2>1, <2>2 DEF SameCtrl
  <2>5. Steps(c)
    BY <1>2, <2>2, <2>4 DEF Steps, Operating
  <2> QED
    BY <1>1, <1>2, <2>1, <2>2, <2>3, <2>5, FailedIsOK, StepKeepsInv
<1>6. CASE pending[c] /\ ~(NextBlk(c) >= MaxBlk \/ Block(c, NextBlk(c)).sts # "FREE")
  <2>1. /\ Set(buf, c, ram[c]) /\ Set(pending, c, FALSE)
        /\ Set(n, c, 0) /\ Set(pc, c, "EXCH_CRC_COMP")
    BY <1>6 DEF HandlerIdle
  <2>2. /\ pc' \in [C -> Places] /\ pc'[c] = "EXCH_CRC_COMP" /\ pc'[Peer(c)] = pc[Peer(c)]
        /\ n' \in [C -> Nat] /\ n'[c] = 0 /\ n'[Peer(c)] = n[Peer(c)]
        /\ buf' \in [C -> Data] /\ buf'[c] = ram[c] /\ buf'[Peer(c)] = buf[Peer(c)]
    BY <1>1, <2>1, TheControllers DEF Set, NvmTypeOK, Places, Operating
  <2>3. /\ pending' \in [C -> BOOLEAN] /\ ~pending'[c]
        /\ pending'[Peer(c)] <=> pending[Peer(c)]
    <3>1. pending' = [pending EXCEPT ![c] = FALSE] /\ pending \in [C -> BOOLEAN]
      BY <1>1, <2>1 DEF Set, NvmTypeOK
    <3>2. c \in C /\ Peer(c) \in C /\ Peer(c) # c
      BY TheControllers
    <3> QED
      BY <3>1, <3>2, Zenon
  <2>4. NvmTypeOK'
    BY <1>1, <1>2, <1>3, <2>2, <2>3 DEF NvmTypeOK
  <2>5. SameCtrl(Peer(c))
    BY <1>2, <2>2, <2>3 DEF SameCtrl
  <2>6. Steps(c)
    <3>1. Same(c, Peer(c)) => Ahead(c, Peer(c))'
      BY <1>2, <1>6, <2>2, <2>3 DEF Same, Ahead, DataOf, Block
    <3>2. Ahead(Peer(c), c) => Same(c, Peer(c))'
      BY <1>2, <1>6, <2>2, <2>3, <2>5 DEF Same, Ahead, DataOf, Block, Writing, SameCtrl
    <3> QED
      BY <1>2, <2>2, <2>5, <3>1, <3>2 DEF Steps, Operating
  <2>7. FlashInStep(c)'
    <3>1. rd[c] \in Nat /\ NextBlk(c) \in Blocks
      BY <1>1, <1>6, Sizes DEF NvmTypeOK, NextBlk, Blocks
    <3> QED
      BY <1>1, <1>2, <2>2, <3>1
         DEF CtrlOK, FlashInStep, Alone, Complete, Dead, CrcOk, Block, NextBlk, Erasing
  <2>8. BufferStored(c)'
    BY <1>1, <1>2, <1>6, <2>2, <2>3
       DEF CtrlOK, BufferStored, Starting, Writing, Operating
  <2>9. ram[c] \in 0 .. MaxStores \cup {Corrupt(c)}
        /\ (ram[c] = Corrupt(c) \/ Since(ram[c], ram[c]))
    <3>1. ram[c] \in Nat /\ last \in Nat /\ last <= MaxStores
      <4>1. ram[c] \in Data /\ last \in 0 .. MaxStores
        BY <1>1 DEF NvmTypeOK
      <4>2. ram[c] \in Nat
        BY <4>1, TheControllers
      <4>3. last \in Nat /\ last <= MaxStores
        BY <4>1, StoresAssumption
      <4> QED
        BY <4>2, <4>3
    <3>2. ram[c] = Corrupt(c) \/ Since(b, ram[c])
      BY <1>1, <1>2 DEF CtrlOK, DataSince, Operating
    <3> QED
      BY <3>1, <3>2, Sizes DEF Since, Default
  <2>10. ChangedIsFound(c)'
    BY <1>1, <1>2, <2>2, <2>9 DEF CtrlOK, ChangedIsFound, Block, Erasing, Writing
  <2>11. \A i \in Blocks : Top(c, i)' <=> Top(c, i)
    BY <1>2 DEF Top, Complete, Dead, CrcOk, Block
  <2>12. DataSince(b, c)'
    BY <1>1, <1>2, <2>2, <2>9, <2>11
       DEF CtrlOK, DataSince, Since, DataOf, Block, Erasing, Writing, Operating
  <2> QED
    BY <2>4, <2>6, <2>7, <2>8, <2>10, <2>12, StepKeepsInv DEF CtrlOK
<1> QED
  BY <1>4, <1>5, <1>6

\* Only what both have prepared is written.
LEMMA ExchCrcKeeps ==
  ASSUME NEW b, InvSince(b), NEW c \in C, HandlerExchCrcComp(c)
  PROVE  InvSince(b)'
<1>1. NvmTypeOK /\ CtrlOK(b, c)
  BY InvByControllers
<1>2. /\ phase = "handler" /\ c \notin done /\ done' = done \cup {c} /\ phase' = phase
      /\ pc[c] = "EXCH_CRC_COMP"
      /\ UNCHANGED <<phase, last, ram, peerCrc, reset, flash, rd, n, buf, pending>>
      /\ pc' = [pc EXCEPT ![c] = IF CrcsEqual(c) THEN "WRITE_BLK" ELSE "FAIL"]
  BY DEF HandlerExchCrcComp, InHandler, Set
<1>3. /\ pc' \in [C -> Places] /\ pc'[Peer(c)] = pc[Peer(c)]
      /\ pc'[c] = IF CrcsEqual(c) THEN "WRITE_BLK" ELSE "FAIL"
  <2>1. pc' = [pc EXCEPT ![c] = "WRITE_BLK"] \/ pc' = [pc EXCEPT ![c] = "FAIL"]
    BY <1>2
  <2> QED
    BY <1>1, <1>2, <2>1, TheControllers DEF NvmTypeOK, Places, Operating
<1>4. NvmTypeOK'
  <2>1. done' \in SUBSET C
    BY <1>1, <1>2 DEF NvmTypeOK
  <2> QED
    BY <1>1, <1>2, <1>3, <2>1 DEF NvmTypeOK
<1>5. SameCtrl(Peer(c))
  BY <1>2, <1>3 DEF SameCtrl
<1>6. CASE CrcsEqual(c)
  <2>1. pc'[c] = "WRITE_BLK"
    BY <1>3, <1>6
  <2>2. Steps(c)
    <3>1. ASSUME Same(c, Peer(c)), CrcInStep(c)
          PROVE  Ahead(c, Peer(c))'
      <4>1. peerCrc[c] = Crc(NextBlk(Peer(c)), buf[Peer(c)])
        BY <1>2, <3>1 DEF CrcInStep
      <4>2. buf[c] = buf[Peer(c)]
        BY <1>6, <4>1 DEF CrcsEqual, Crc
      <4>3. n[c] = 0
        BY <1>1, <1>2 DEF CtrlOK, FlashInStep
      <4> QED
        BY <1>2, <1>3, <2>1, <3>1, <4>2, <4>3 DEF Same, Ahead, DataOf, Block
    <3>2. Ahead(Peer(c), c) => Same(c, Peer(c))'
      <4>1. n[c] = 0
        BY <1>1, <1>2 DEF CtrlOK, FlashInStep
      <4> QED
        BY <1>2, <1>3, <2>1, <4>1 DEF Same, Ahead, DataOf, Block
    <3> QED
      BY <1>2, <1>5, <2>1, <3>1, <3>2 DEF Steps, Operating
  <2>3. FlashInStep(c)'
    BY <1>1, <1>2, <2>1, Sizes
       DEF CtrlOK, FlashInStep, Half, Alone, Complete, Dead, CrcOk, Block, NextBlk, Erasing
  <2>4. BufferStored(c)'
    BY <1>1, <1>2, <2>1 DEF CtrlOK, BufferStored, Starting, Writing, Operating
  <2>5. buf[c] # Corrupt(c)
    <3>1. peerCrc[c] = <<NextBlk(c), buf[c]>>
      BY <1>6 DEF CrcsEqual, Crc
    <3>2. buf[c] = peerCrc[c][2]
      BY <3>1
    <3>3. peerCrc[c][2] \in 0 .. MaxStores \cup {Corrupt(Peer(c))}
      BY <1>1 DEF CtrlOK, ChangedIsFound
    <3> QED
      BY <3>2, <3>3, TheControllers
  <2>6. ChangedIsFound(c)'
    BY <1>1, <1>2, <2>5 DEF CtrlOK, ChangedIsFound, Block
  <2>7. \A i \in Blocks : Top(c, i)' <=> Top(c, i)
    BY <1>2 DEF Top, Complete, Dead, CrcOk, Block
  <2>8. DataSince(b, c)'
    BY <1>1, <1>2, <2>1, <2>5, <2>7
       DEF CtrlOK, DataSince, Since, DataOf, Block, Erasing, Writing, Operating
  <2> QED
    BY <1>4, <2>2, <2>3, <2>4, <2>6, <2>8, StepKeepsInv DEF CtrlOK
<1>7. CASE ~CrcsEqual(c)
  <2>1. pc'[c] = "FAIL"
    BY <1>3, <1>7
  <2>2. Steps(c)
    BY <1>2, <1>5, <2>1 DEF Steps, Operating
  <2> QED
    BY <1>1, <1>2, <1>4, <2>1, <2>2, FailedIsOK, StepKeepsInv
<1> QED
  BY <1>6, <1>7

\* The old block stays readable until the new one is complete.
LEMMA WriteBlkKeeps ==
  ASSUME NEW b, InvSince(b), NEW c \in C, HandlerWriteBlk(c)
  PROVE  InvSince(b)'
<1> DEFINE k == n[c]
           r == rd[c]
           new == [sts |-> "VALID", n |-> k + 1, data |-> buf[c]]
<1>1. NvmTypeOK /\ CtrlOK(b, c)
  BY InvByControllers
<1>2. /\ phase = "handler" /\ c \notin done /\ done' = done \cup {c} /\ phase' = phase
      /\ pc[c] = "WRITE_BLK"
      /\ UNCHANGED <<phase, last, ram, peerCrc, reset, rd, buf, pending>>
      /\ flash' = Programmed(c, NextBlk(c), k, buf[c])
      /\ n' = [n EXCEPT ![c] = k + 1]
      /\ pc' = [pc EXCEPT ![c] = IF k + 1 = WrCycles THEN "INVLD_OLD_BLK" ELSE "WRITE_BLK"]
  BY DEF HandlerWriteBlk, InHandler, Set
<1>3. /\ r \in Blocks /\ r \in Nat /\ NextBlk(c) = r + 1 /\ NextBlk(c) \in Blocks
      /\ r # NextBlk(c)
      /\ k \in Nat /\ k + 1 \in 0 .. WrCycles /\ k < WrCycles
      /\ Complete(c, r)
      /\ k > 0 => Block(c, NextBlk(c)).sts = "VALID"
      /\ \A j \in Blocks \ {r, NextBlk(c)} : Dead(c, j)
  <2>1. Half(c) /\ k < WrCycles
    BY <1>1, <1>2 DEF CtrlOK, FlashInStep
  <2>2. r \in Blocks /\ r \in Nat /\ k \in Nat
    BY <1>1, Sizes DEF NvmTypeOK
  <2>3. k + 1 \in 0 .. WrCycles
    BY <2>1, <2>2, Sizes
  <2>4. NextBlk(c) = r + 1 /\ r # NextBlk(c) /\ NextBlk(c) \in Blocks
    BY <2>1, <2>2 DEF NextBlk, Half
  <2>5. /\ Complete(c, r)
        /\ k > 0 => Block(c, NextBlk(c)).sts = "VALID"
        /\ \A j \in Blocks \ {r, NextBlk(c)} : Dead(c, j)
    BY <2>1, <2>2 DEF Half, Alone
  <2> QED
    BY <2>1, <2>2, <2>3, <2>4, <2>5
<1> HIDE DEF k, r
<1>4. /\ flash' \in [C -> [Blocks -> FlashBlks]]
      /\ flash'[c][NextBlk(c)] = new
      /\ \A j \in Blocks \ {NextBlk(c)} : flash'[c][j] = flash[c][j]
      /\ flash'[Peer(c)] = flash[Peer(c)]
  <2>1. [sts |-> IF k = 0 THEN "VALID" ELSE flash[c][NextBlk(c)].sts,
         n |-> k + 1, data |-> buf[c]] = new
    BY <1>3 DEF Block
  <2>2. new \in FlashBlks
    BY <1>1, <1>3 DEF FlashBlks, Statuses, NvmTypeOK
  <2>3. flash' = [flash EXCEPT ![c][NextBlk(c)] = new]
    BY <1>1, <1>2, <1>3, <2>1 DEF Programmed, NvmTypeOK
  <2> HIDE DEF new
  <2> QED
    BY <1>1, <1>3, <2>2, <2>3, TheControllers DEF NvmTypeOK
<1>5. /\ pc' \in [C -> Places] /\ pc'[Peer(c)] = pc[Peer(c)]
      /\ pc'[c] = IF n'[c] = WrCycles THEN "INVLD_OLD_BLK" ELSE "WRITE_BLK"
      /\ n' \in [C -> Nat] /\ n'[c] = k + 1 /\ n'[Peer(c)] = n[Peer(c)]
  <2>1. pc' = [pc EXCEPT ![c] = "WRITE_BLK"] \/ pc' = [pc EXCEPT ![c] = "INVLD_OLD_BLK"]
    BY <1>2
  <2> QED
    BY <1>1, <1>2, <1>3, <2>1, TheControllers DEF NvmTypeOK, Places, Operating
<1>6. NvmTypeOK'
  <2>1. done' \in SUBSET C
    BY <1>1, <1>2 DEF NvmTypeOK
  <2> QED
    BY <1>1, <1>2, <1>4, <1>5, <2>1 DEF NvmTypeOK
<1>7. SameCtrl(Peer(c))
  BY <1>2, <1>4, <1>5 DEF SameCtrl
<1>8. DataOf(c)' = DataOf(c) /\ rd'[c] = r
  BY <1>2, <1>3, <1>4 DEF DataOf, Block, r
<1>9. Steps(c)
  <2>1. DataOf(Peer(c))' = DataOf(Peer(c))
    BY <1>7 DEF SameCtrl, DataOf, Block
  <2>2. Same(c, Peer(c)) => Ahead(c, Peer(c))'
    BY <1>2, <1>5, <1>8, <2>1 DEF Same, Ahead, Writing, k
  <2>3. Ahead(Peer(c), c) => Same(c, Peer(c))'
    BY <1>2, <1>5, <1>8, <2>1 DEF Same, Ahead, k
  <2> QED
    BY <1>2, <1>5, <1>7, <2>2, <2>3 DEF Steps, Operating
<1>10. Half(c)' /\ (pc'[c] = "WRITE_BLK" => n'[c] < WrCycles)
  <2>1. Complete(c, rd[c])'
    BY <1>2, <1>3, <1>4 DEF Complete, CrcOk, Block, r
  <2>2. \A j \in Blocks \ {rd[c], NextBlk(c)} : Dead(c, j)'
    BY <1>3, <1>4 DEF Dead, Block, r
  <2>3. NextBlk(c)' = NextBlk(c) /\ rd' = rd
    BY <1>2 DEF NextBlk
  <2>4. Block(c, NextBlk(c))' = [sts |-> "VALID", n |-> n'[c], data |-> buf'[c]]
    BY <1>2, <1>4, <1>5, <2>3 DEF Block
  <2>5. n'[c] # 0 /\ (pc'[c] = "WRITE_BLK" => n'[c] < WrCycles)
    BY <1>3, <1>5, Sizes
  <2>6. \A j \in Blocks \ {rd'[c], NextBlk(c)'} : Dead(c, j)'
    BY <2>2, <2>3
  <2> QED
    BY <1>3, <2>1, <2>3, <2>4, <2>5, <2>6 DEF Half
<1>11. FlashInStep(c)'
  BY <1>5, <1>10 DEF FlashInStep, Erasing
<1>12. BufferStored(c)'
  BY <1>1, <1>2, <1>5 DEF CtrlOK, BufferStored, Starting, Writing, Operating
<1>13. ChangedIsFound(c)'
  <2>1. \A j \in Blocks : Block(c, j)' .n > 0 => Block(c, j)' .data # Corrupt(c)
    BY <1>1, <1>2, <1>4 DEF CtrlOK, ChangedIsFound, Block, Writing
  <2> QED
    BY <1>1, <1>2, <2>1 DEF CtrlOK, ChangedIsFound, Block, Writing
<1>14. DataSince(b, c)'
  <2>1. ASSUME NEW j \in Blocks, Top(c, j)'
        PROVE  j = NextBlk(c)
    <3>1. j = r \/ j = NextBlk(c)
      BY <1>3, <1>4, <2>1 DEF Top, Complete, Dead, Block
    <3>2. flash'[c][NextBlk(c)].sts = "VALID"
      BY <1>4
    <3>3. NextBlk(c) > r /\ NextBlk(c) \in Blocks
      BY <1>3
    <3>4. \A i \in Blocks : i > j => flash'[c][i].sts # "VALID"
      BY <2>1 DEF Top, Dead, Block
    <3> QED
      BY <3>1, <3>2, <3>3, <3>4
  <2>2. flash'[c][NextBlk(c)].data = buf[c]
    BY <1>4
  <2>3. Since(b, buf[c]) /\ Since(DataOf(c), buf[c])
    BY <1>1, <1>2 DEF CtrlOK, DataSince, Writing
  <2>4. \A x, y : Since(x, y)' <=> Since(x, y)
    BY <1>2 DEF Since
  <2>5. \A j \in Blocks : Top(c, j)' => Since(b, flash'[c][j].data)
    BY <2>1, <2>2, <2>3
  <2>6. ram[c] = Corrupt(c) \/ (Since(b, ram[c]) /\ Since(DataOf(c), ram[c]))
    BY <1>1, <1>2 DEF CtrlOK, DataSince, Operating
  <2>7. Corrupt(c) \in {buf[c], ram[c]} \/ Since(buf[c], ram[c])
    BY <1>1, <1>2 DEF CtrlOK, DataSince, Writing
  <2>8. Since(0, DataOf(c))
    BY <1>1, <1>2 DEF CtrlOK, DataSince, Operating
  <2> QED
    BY <1>2, <1>5, <1>8, <2>3, <2>5, <2>6, <2>7, <2>8
       DEF DataSince, Since, Block, Erasing, Writing
<1> QED
  BY <1>6, <1>9, <1>11, <1>12, <1>13, <1>14, StepKeepsInv DEF CtrlOK

\* The new block takes the place of the old one.
LEMMA InvldKeeps ==
  ASSUME NEW b, InvSince(b), NEW c \in C, HandlerInvldOldBlk(c)
  PROVE  InvSince(b)'
<1>0. PICK r : r = rd[c]
  OBVIOUS
<1>1. NvmTypeOK /\ CtrlOK(b, c)
  BY InvByControllers
<1>2. /\ phase = "handler" /\ c \notin done /\ done' = done \cup {c} /\ phase' = phase
      /\ pc[c] = "INVLD_OLD_BLK"
      /\ UNCHANGED <<phase, last, ram, peerCrc, reset, n, buf, pending>>
      /\ flash' = [flash EXCEPT ![c][r].sts = "INVALID"]
      /\ rd' = [rd EXCEPT ![c] = NextBlk(c)]
      /\ pc' = [pc EXCEPT ![c] = "IDLE"]
  BY <1>0 DEF HandlerInvldOldBlk, InHandler, Set, WithStatus
<1>3. /\ r \in Blocks /\ r \in Nat /\ NextBlk(c) = r + 1 /\ NextBlk(c) \in Blocks
      /\ r # NextBlk(c)
      /\ Complete(c, r)
      /\ Block(c, NextBlk(c)) = [sts |-> "VALID", n |-> WrCycles, data |-> buf[c]]
      /\ \A j \in Blocks \ {r, NextBlk(c)} : Dead(c, j)
  <2>1. Half(c) /\ n[c] = WrCycles
    BY <1>1, <1>2 DEF CtrlOK, FlashInStep
  <2>2. r \in Blocks /\ r \in Nat
    BY <1>0, <1>1, Sizes DEF NvmTypeOK
  <2>3. NextBlk(c) = r + 1 /\ r # NextBlk(c) /\ NextBlk(c) \in Blocks
    BY <1>0, <2>1, <2>2 DEF NextBlk, Half
  <2>4. n[c] # 0
    BY <2>1, Sizes
  <2>5. /\ Complete(c, r)
        /\ Block(c, NextBlk(c)) = [sts |-> "VALID", n |-> WrCycles, data |-> buf[c]]
        /\ \A j \in Blocks \ {r, NextBlk(c)} : Dead(c, j)
    BY <1>0, <2>1, <2>4 DEF Half
  <2> QED
    BY <2>2, <2>3, <2>5
<1>4. /\ flash' \in [C -> [Blocks -> FlashBlks]]
      /\ flash'[c][r] = [flash[c][r] EXCEPT !.sts = "INVALID"]
      /\ \A j \in Blocks \ {r} : flash'[c][j] = flash[c][j]
      /\ flash'[Peer(c)] = flash[Peer(c)]
  <2>1. flash[c][r] \in FlashBlks
    BY <1>1, <1>3 DEF NvmTypeOK
  <2>2. [flash[c][r] EXCEPT !.sts = "INVALID"] \in FlashBlks
    BY <2>1 DEF FlashBlks, Statuses
  <2>3. PICK new \in FlashBlks : new = [flash[c][r] EXCEPT !.sts = "INVALID"]
    BY <2>2
  <2>4. flash' = [flash EXCEPT ![c][r] = new]
    BY <1>2, <2>3
  <2>5. /\ flash' \in [C -> [Blocks -> FlashBlks]]
        /\ flash'[c][r] = new
        /\ \A j \in Blocks \ {r} : flash'[c][j] = flash[c][j]
        /\ flash'[Peer(c)] = flash[Peer(c)]
    BY <1>1, <1>3, <2>4, TheControllers DEF NvmTypeOK
  <2> QED
    BY <2>3, <2>5
<1>5. /\ pc' \in [C -> Places] /\ pc'[Peer(c)] = pc[Peer(c)] /\ pc'[c] = "IDLE"
      /\ rd' \in [C -> Blocks] /\ rd'[c] = NextBlk(c) /\ rd'[Peer(c)] = rd[Peer(c)]
  BY <1>1, <1>2, <1>3, TheControllers DEF NvmTypeOK, Places, Operating
<1>6. NvmTypeOK'
  <2>1. done' \in SUBSET C
    BY <1>1, <1>2 DEF NvmTypeOK
  <2> QED
    BY <1>1, <1>2, <1>4, <1>5, <2>1 DEF NvmTypeOK
<1>7. SameCtrl(Peer(c))
  BY <1>2, <1>4, <1>5 DEF SameCtrl
<1>8. DataOf(c)' = buf[c] /\ flash'[c][NextBlk(c)] = Block(c, NextBlk(c))
  BY <1>3, <1>4, <1>5 DEF DataOf, Block
<1>9. Steps(c)
  <2>1. DataOf(Peer(c))' = DataOf(Peer(c))
    BY <1>7 DEF SameCtrl, DataOf, Block
  <2>2. Same(c, Peer(c)) => Ahead(c, Peer(c))'
    BY <1>0, <1>2, <1>3, <1>5, <1>8, <2>1 DEF Same, Ahead, Writing
  <2>3. Ahead(Peer(c), c) => Same(c, Peer(c))'
    BY <1>0, <1>2, <1>3, <1>5, <1>8, <2>1 DEF Same, Ahead, Writing
  <2> QED
    BY <1>2, <1>5, <1>7, <2>2, <2>3 DEF Steps, Operating
<1>10. \A j \in Blocks :
        /\ j = rd'[c] => Complete(c, j)' /\ Block(c, j)' .data = buf[c]
        /\ j # rd'[c] => Dead(c, j)'
  <2>1. ASSUME NEW j \in Blocks, j = NextBlk(c)
        PROVE  Complete(c, j)' /\ Block(c, j)' .data = buf[c]
    BY <1>3, <1>8, <2>1 DEF Complete, CrcOk, Block
  <2>2. flash'[c][r].sts = "INVALID"
    <3>1. flash[c][r] \in FlashBlks
      BY <1>1, <1>3 DEF NvmTypeOK
    <3> QED
      BY <1>4, <3>1 DEF FlashBlks
  <2>3. \A j \in Blocks \ {r, NextBlk(c)} : Dead(c, j)'
    BY <1>3, <1>4 DEF Dead, Block
  <2> QED
    BY <1>5, <2>1, <2>2, <2>3 DEF Dead, Block
<1>11. FlashInStep(c)'
  <2>1. rd'[c] \in Blocks
    BY <1>3, <1>5
  <2>2. \A j \in Blocks : j = rd'[c] => Alone(c, j)'
    BY <1>10 DEF Alone, Complete, Dead, CrcOk, Block
  <2>3. Alone(c, rd[c])'
    BY <2>1, <2>2 DEF Alone, Complete, Dead, CrcOk, Block
  <2> QED
    BY <1>5, <2>3 DEF FlashInStep, Erasing
<1>12. BufferStored(c)'
  BY <1>1, <1>2, <1>5, <1>8 DEF CtrlOK, BufferStored, Starting, Writing, Operating
<1>13. ChangedIsFound(c)'
  <2>1. \A j \in Blocks : Block(c, j)' .n > 0 => Block(c, j)' .data # Corrupt(c)
    <3>1. \A j \in Blocks : flash'[c][j].n = flash[c][j].n /\ flash'[c][j].data = flash[c][j].data
      <4>1. flash[c][r] \in FlashBlks
        BY <1>1, <1>3 DEF NvmTypeOK
      <4> QED
        BY <1>3, <1>4, <4>1 DEF FlashBlks
    <3> QED
      BY <1>1, <3>1 DEF CtrlOK, ChangedIsFound, Block
  <2> QED
    BY <1>1, <1>2, <1>5, <2>1 DEF CtrlOK, ChangedIsFound, Block, Writing, Erasing
<1>14. DataSince(b, c)'
  <2>1. Since(b, buf[c])
    BY <1>1, <1>2 DEF CtrlOK, DataSince, Writing
  <2>2. ram[c] = Corrupt(c) \/ (Since(b, ram[c]) /\ Since(buf[c], ram[c]))
    <3>1. buf[c] # Corrupt(c)
      BY <1>1, <1>2 DEF CtrlOK, ChangedIsFound, Writing
    <3> QED
      BY <1>1, <1>2, <3>1 DEF CtrlOK, DataSince, Writing, Operating
  <2>4. Since(0, buf[c])
    <3>1. buf[c] \in Nat
      BY <1>1, TheControllers DEF NvmTypeOK
    <3> QED
      BY <2>1, <3>1 DEF Since
  <2>3. \A j \in Blocks : Top(c, j)' => Block(c, j)' .data = buf[c]
    BY <1>10 DEF Top, Complete, Dead, Block
  <2> QED
    BY <1>2, <1>5, <1>8, <2>1, <2>2, <2>3, <2>4
       DEF DataSince, Since, Block, Erasing, Writing
<1> QED
  BY <1>6, <1>9, <1>11, <1>12, <1>13, <1>14, StepKeepsInv DEF CtrlOK

-----------------------------------------------------------------------------
(* The exchange and the background task *)

\* The CRCs compared are those of the blocks prepared last.
LEMMA ExchangeKeeps ==
  ASSUME NEW b, InvSince(b), ExchangeVar
  PROVE  InvSince(b)'
<1>1. /\ NvmTypeOK /\ OperateTogether /\ Lockstep /\ \A c \in C : CtrlOK(b, c)
      /\ BothOperate /\ done = C /\ phase' = "task" /\ done' = {}
      /\ peerCrc' = [c \in C |-> Crc(NextBlk(Peer(c)), buf[Peer(c)])]
      /\ UNCHANGED <<flash, pc, rd, n, buf, ram, pending, reset, last>>
  <2>1. NvmTypeOK /\ OperateTogether /\ Lockstep /\ \A c \in C : CtrlOK(b, c)
    BY TheControllers, InvByControllers
  <2> QED
    BY <2>1 DEF ExchangeVar
<1>2. NvmTypeOK'
  <2>1. ASSUME NEW c \in C
        PROVE  NextBlk(Peer(c)) \in Nat /\ buf[Peer(c)] \in Data
    <3>1. rd[Peer(c)] \in Blocks /\ buf[Peer(c)] \in Data
      BY <1>1, TheControllers DEF NvmTypeOK
    <3>2. rd[Peer(c)] \in Nat
      BY <3>1, Sizes
    <3> QED
      BY <3>1, <3>2 DEF NextBlk
  <2> QED
    BY <1>1, <2>1 DEF NvmTypeOK, Crc
<1>3. ASSUME NEW c \in C
      PROVE  CtrlOK(b, c)'
  <2>1. FlashInStep(c)' /\ BufferStored(c)'
    BY <1>1 DEF CtrlOK, FlashInStep, BufferStored, Alone, Complete, Dead, CrcOk, Block, Half,
       NextBlk, Erasing, DataOf
  <2>2. peerCrc'[c][2] \in 0 .. MaxStores \cup {Corrupt(Peer(c))}
    <3>1. peerCrc'[c] = <<NextBlk(Peer(c)), buf[Peer(c)]>>
      BY <1>1 DEF Crc
    <3>2. peerCrc'[c][2] = buf[Peer(c)]
      BY <3>1
    <3> QED
      BY <1>1, <3>2, TheControllers DEF CtrlOK, ChangedIsFound
  <2>3. ChangedIsFound(c)'
    BY <1>1, <2>2 DEF CtrlOK, ChangedIsFound, Block, Erasing
  <2>4. \A i \in Blocks : Top(c, i)' <=> Top(c, i)
    BY <1>1 DEF Top, Complete, Dead, CrcOk, Block
  <2>5. DataSince(b, c)'
    BY <1>1, <2>4 DEF CtrlOK, DataSince, DataOf, Block, Erasing, Since
  <2> QED
    BY <2>1, <2>3, <2>5 DEF CtrlOK
<1>4. OperateTogether'
  BY <1>1 DEF OperateTogether
<1>5. Lockstep'
  <2>1. Same(C1, C2)'
    BY <1>1 DEF Lockstep, Same, DataOf, Block
  <2>2. \A c \in C : CrcInStep(c)'
    BY <1>1 DEF CrcInStep, Crc, NextBlk
  <2> QED
    BY <1>1, <2>1, <2>2 DEF Lockstep
<1> QED
  BY <1>2, <1>3, <1>4, <1>5, InvByControllers, TheControllers

\* A step of the background tasks, which leaves the flash and the handler alone.
TaskKeeps(c) ==
  /\ pc'[c] \in {pc[c], "FAIL"}
  /\ pc'[c] # "FAIL" =>
       /\ ram'[c] \in {ram[c], Default, last'}
       /\ (pending'[c] <=> pending[c]) \/ pending'[c]
       /\ ~pending'[c] => ram'[c] = ram[c]
       /\ reset'[c] \in {"TRIGGER_REQUEST", "ENDLESS_LOOP"} => pc[c] = "IDLE" /\ ~pending'[c]

\* A background task does the same in both controllers.
LEMMA TaskStepKeeps ==
  ASSUME NEW b \in 0 .. last, InvSince(b), InTask, last' \in 0 .. MaxStores, last <= last',
         pc' \in [C -> Places], ram' \in [C -> Data], pending' \in [C -> BOOLEAN],
         reset' \in [C -> {"none", "WRITE_BUSY", "TRIGGER_REQUEST", "ENDLESS_LOOP"}],
         \A c \in C : TaskKeeps(c),
         BothOperate' => (pending'[C1] <=> pending'[C2])
  PROVE  InvSince(b)'
<1>1. /\ NvmTypeOK /\ OperateTogether /\ Lockstep /\ \A c \in C : CtrlOK(b, c)
      /\ BothOperate /\ phase = "task" /\ phase' = "handler" /\ done' = done
      /\ UNCHANGED <<flash, rd, n, buf, peerCrc>>
  <2>1. NvmTypeOK /\ OperateTogether /\ Lockstep /\ \A c \in C : CtrlOK(b, c)
    BY TheControllers, InvByControllers
  <2> QED
    BY <2>1 DEF InTask
<1>2. NvmTypeOK'
  BY <1>1 DEF NvmTypeOK
<1>3. last \in Nat /\ last' \in Nat /\ b \in Nat
  BY <1>1, Sizes DEF NvmTypeOK
<1>4. \A x, y : Since(x, y) => Since(x, y)'
  BY <1>3 DEF Since
<1>5. ASSUME NEW c \in C
      PROVE  CtrlOK(b, c)'
  <2>1. /\ TaskKeeps(c) /\ CtrlOK(b, c) /\ pc[c] \in Operating
        /\ DataOf(c)' = DataOf(c) /\ DataOf(c) \in Nat
        /\ buf[c] \in Nat /\ ram[c] \in Nat
    <3>1. Block(c, rd[c]) \in FlashBlks /\ buf[c] \in Data /\ ram[c] \in Data
      BY <1>1 DEF NvmTypeOK, Block
    <3>2. DataOf(c) \in Nat /\ buf[c] \in Nat /\ ram[c] \in Nat
      BY <3>1, TheControllers DEF DataOf, FlashBlks
    <3> QED
      BY <1>1, <3>2 DEF BothOperate, DataOf, Block
  <2>2. \A i \in Blocks : Top(c, i)' <=> Top(c, i)
    BY <1>1 DEF Top, Complete, Dead, CrcOk, Block
  <2>3. CASE pc'[c] = "FAIL"
    <3>1. FlashInStep(c)' /\ BufferStored(c)'
      BY <2>3 DEF FlashInStep, BufferStored, Erasing, Operating, Starting, Writing
    <3>2. ChangedIsFound(c)'
      BY <1>1, <2>1, <2>3 DEF CtrlOK, ChangedIsFound, Block, Erasing, Writing
    <3>3. DataSince(b, c)'
      BY <1>1, <1>4, <2>1, <2>2, <2>3
         DEF CtrlOK, DataSince, Since, Block, Erasing, Operating, Writing
    <3> QED
      BY <3>1, <3>2, <3>3 DEF CtrlOK
  <2>4. CASE pc'[c] = pc[c] /\ pc[c] # "FAIL"
    <3>1. FlashInStep(c)'
      BY <1>1, <2>1, <2>4 DEF CtrlOK, FlashInStep, Alone, Complete, Dead, CrcOk, Block, Half,
         NextBlk, Erasing
    <3>2. BufferStored(c)'
      BY <1>1, <2>1, <2>4 DEF TaskKeeps, CtrlOK, BufferStored, Starting, Operating, Writing
    <3>3. ChangedIsFound(c)'
      BY <1>1, <2>1, <2>4 DEF CtrlOK, ChangedIsFound, Block, Erasing
    <3>4. ram'[c] = ram[c] \/ ram'[c] = Default \/ ram'[c] = last'
      BY <1>3, <2>1, <2>4 DEF TaskKeeps
    <3>5. ram'[c] = Corrupt(c) \/ (Since(b, ram[c])' /\ Since(DataOf(c), ram[c])')
      <4>1. Since(0, DataOf(c))
        BY <2>1 DEF CtrlOK, DataSince
      <4>2. DataOf(c) \in 0 .. last /\ b \in 0 .. last
        BY <1>3, <2>1, <4>1 DEF Since, Default
      <4>3. ram[c] = Corrupt(c) \/ (Since(b, ram[c]) /\ Since(DataOf(c), ram[c]))
        BY <2>1 DEF CtrlOK, DataSince
      <4>4. CASE ram'[c] = ram[c]
        BY <1>3, <2>1, <4>2, <4>3, <4>4 DEF Since
      <4>5. CASE ram'[c] = Default
        BY <4>5 DEF Since
      <4>6. CASE ram'[c] = last'
        <5>1. last' \in b .. last' /\ last' \in DataOf(c) .. last'
          BY <1>3, <4>2
        <5> QED
          BY <2>1, <4>6, <5>1 DEF Since
      <4> QED
        BY <3>4, <4>4, <4>5, <4>6
    <3>6. ASSUME pc[c] \in Writing \cup {"EXCH_CRC_COMP"}
          PROVE  Corrupt(c) \in {buf[c], ram'[c]} \/ Since(buf[c], ram[c])'
      <4>1. Corrupt(c) \in {buf[c], ram[c]} \/ Since(buf[c], ram[c])
        BY <2>1, <3>6 DEF CtrlOK, DataSince
      <4>2. buf[c] = Corrupt(c) \/ Since(b, buf[c])
        BY <2>1, <3>6 DEF CtrlOK, DataSince
      <4>3. buf[c] = Corrupt(c) \/ buf[c] \in 0 .. last
        BY <1>3, <2>1, <4>2 DEF Since, Default
      <4>4. CASE ram'[c] = ram[c]
        BY <1>1, <1>3, <2>1, <4>1, <4>4 DEF Since
      <4>5. CASE ram'[c] = Default
        BY <4>5 DEF Since
      <4>6. CASE ram'[c] = last' /\ buf[c] \in 0 .. last
        <5>1. last' \in buf[c] .. last'
          BY <1>3, <4>6
        <5> QED
          BY <1>1, <4>6, <5>1 DEF Since
      <4> QED
        BY <3>4, <4>3, <4>4, <4>5, <4>6
    <3>7. DataSince(b, c)'
      BY <1>1, <1>4, <2>1, <2>2, <2>4, <3>5, <3>6
         DEF CtrlOK, DataSince, Since, Block, Erasing, Operating, Writing
    <3> QED
      BY <3>1, <3>2, <3>3, <3>7 DEF CtrlOK
  <2> QED
    BY <2>1, <2>3, <2>4 DEF TaskKeeps, Operating
<1>6. OperateTogether'
  BY <1>1 DEF OperateTogether, BothOperate, TaskKeeps
<1>7. Lockstep'
  <2> SUFFICES ASSUME BothOperate'
               PROVE  Lockstep'
    BY DEF Lockstep
  <2>1. \A c \in C : pc'[c] = pc[c]
    BY DEF BothOperate, TaskKeeps, Operating
  <2>2. done = {} /\ Same(C1, C2) /\ \A c \in C : CrcInStep(c)
    BY <1>1 DEF Lockstep
  <2>3. Same(C1, C2)'
    BY <1>1, <2>1, <2>2, TheControllers DEF Same, DataOf, Block
  <2>4. \A c \in C : CrcInStep(c)'
    BY <1>1, <2>1, <2>2 DEF CrcInStep, NextBlk
  <2> QED
    BY <1>1, <2>2, <2>3, <2>4 DEF Lockstep
<1> QED
  BY <1>2, <1>5, <1>6, <1>7, InvByControllers, TheControllers

\* The steps of the task, one by one.
LEMMA NoStoreKeeps ==
  ASSUME NEW b \in 0 .. last, InvSince(b), NoStore
  PROVE  InvSince(b)'
<1>1. NvmTypeOK /\ BufferStored(C1) /\ BufferStored(C2) /\ BothOperate /\ Lockstep
      /\ \A c \in C : BufferStored(c)
  BY TheControllers DEF InvSince, CtrlInv, NoStore, InTask
<1>2. InTask /\ UNCHANGED <<pc, ram, pending, reset, last>>
  BY DEF NoStore
<1>3. \A c \in C : TaskKeeps(c)
  BY <1>1, <1>2 DEF TaskKeeps, BufferStored, BothOperate
<1>4. pending'[C1] <=> pending'[C2]
  BY <1>1, <1>2 DEF Lockstep, InTask, Same
<1>5. last' \in 0 .. MaxStores /\ last <= last'
  BY <1>1, <1>2, Sizes DEF NvmTypeOK
<1> QED
  BY <1>1, <1>2, <1>3, <1>4, <1>5, TaskStepKeeps DEF NvmTypeOK

\* A store fills both buffers with newer data.
LEMMA StoreKeeps ==
  ASSUME NEW b \in 0 .. last, InvSince(b), Store
  PROVE  InvSince(b)'
<1>1. NvmTypeOK /\ BothOperate
  BY DEF InvSince, Store, InTask
<1>2. /\ InTask /\ last < MaxStores /\ last' = last + 1 /\ reset' = reset
      /\ \A c \in C : reset[c] = "none"
      /\ pc' = [c \in C |-> IF BufferIntact(c) THEN pc[c] ELSE "FAIL"]
      /\ ram' = [c \in C |-> IF BufferIntact(c) THEN last + 1 ELSE ram[c]]
      /\ pending' = [c \in C |-> BufferIntact(c) \/ pending[c]]
  BY DEF Store
<1>3. last' \in 0 .. MaxStores /\ last <= last'
  BY <1>1, <1>2, Sizes DEF NvmTypeOK
<1>4. pc' \in [C -> Places] /\ ram' \in [C -> Data]
  <2>1. \A c \in C : pc[c] \in Places /\ ram[c] \in Data
    BY <1>1 DEF NvmTypeOK
  <2>2. last + 1 \in Data
    BY <1>2, <1>3, TheControllers
  <2>3. "FAIL" \in Places
    BY DEF Places
  <2> QED
    BY <1>2, <2>1, <2>2, <2>3
<1>5. /\ pending' \in [C -> BOOLEAN]
      /\ \A c \in C : pending'[c] <=> BufferIntact(c) \/ pending[c]
  BY <1>2, Zenon
<1>6. \A c \in C : TaskKeeps(c)
  <2> TAKE c \in C
  <2>1. CASE BufferIntact(c)
    <3>1. pc'[c] = pc[c] /\ ram'[c] = last' /\ pending'[c]
      BY <1>2, <1>5, <2>1
    <3> QED
      BY <1>2, <2>1, <3>1 DEF TaskKeeps, BufferIntact
  <2>2. CASE ~BufferIntact(c)
    BY <1>2, <2>2 DEF TaskKeeps
  <2> QED
    BY <2>1, <2>2
<1>7. BothOperate' => (pending'[C1] <=> pending'[C2])
  <2> SUFFICES ASSUME BothOperate'
               PROVE  pending'[C1] <=> pending'[C2]
    OBVIOUS
  <2>1. \A c \in C : BufferIntact(c)
    BY <1>2 DEF BothOperate, Operating
  <2> QED
    BY <1>5, <2>1, TheControllers
<1>8. reset' \in [C -> {"none", "WRITE_BUSY", "TRIGGER_REQUEST", "ENDLESS_LOOP"}]
  BY <1>1, <1>2 DEF NvmTypeOK
<1> QED
  BY <1>2, <1>3, <1>4, <1>5, <1>6, <1>7, <1>8, TaskStepKeeps

\* A reset waits for the data, or fills both buffers with the defaults.
LEMMA CheckResetKeeps ==
  ASSUME NEW b \in 0 .. last, InvSince(b), NEW type \in 0 .. 1, CheckReset(type)
  PROVE  InvSince(b)'
<1>1. NvmTypeOK /\ BothOperate /\ Lockstep /\ InTask /\ UNCHANGED <<pc, last>>
  BY DEF InvSince, CtrlInv, CheckReset, InTask
<1>2. last' \in 0 .. MaxStores /\ last <= last'
  BY <1>1, Sizes DEF NvmTypeOK
<1>3. pending[C1] <=> pending[C2]
  BY <1>1 DEF Lockstep, InTask, Same
<1>4. CASE type = 0
  <2>1. /\ reset' = [c \in C |-> IF SAPL_NvLowIsBusy(c) THEN "WRITE_BUSY" ELSE "TRIGGER_REQUEST"]
        /\ UNCHANGED <<ram, pending>>
    BY <1>4 DEF CheckReset
  <2>2. \A c \in C : TaskKeeps(c)
    BY <1>1, <2>1 DEF TaskKeeps, SAPL_NvLowIsBusy
  <2>3. reset' \in [C -> {"none", "WRITE_BUSY", "TRIGGER_REQUEST", "ENDLESS_LOOP"}]
    BY <2>1
  <2> QED
    BY <1>1, <1>2, <1>3, <2>1, <2>2, <2>3, TaskStepKeeps DEF NvmTypeOK
<1>5. CASE type # 0
  <2>1. /\ reset' = [c \in C |-> "WRITE_BUSY"]
        /\ ram' = [c \in C |-> Default]
        /\ pending' = [c \in C |-> TRUE]
        /\ \A c \in C : reset[c] = "none"
    BY <1>5 DEF CheckReset
  <2>2. pending' \in [C -> BOOLEAN] /\ \A c \in C : pending'[c]
    BY <2>1, Zenon
  <2>3. ram' \in [C -> Data]
    BY <2>1, TheControllers
  <2>4. \A c \in C : TaskKeeps(c)
    BY <1>1, <2>1, <2>2 DEF TaskKeeps
  <2>5. reset' \in [C -> {"none", "WRITE_BUSY", "TRIGGER_REQUEST", "ENDLESS_LOOP"}]
    BY <2>1
  <2> QED
    BY <1>1, <1>2, <2>2, <2>3, <2>4, <2>5, TaskStepKeeps, TheControllers DEF NvmTypeOK
<1> QED
  BY <1>4, <1>5

\* A reset is requested when the handler is idle and nothing waits.
LEMMA ResetStepKeeps ==
  ASSUME NEW b \in 0 .. last, InvSince(b), ResetStep
  PROVE  InvSince(b)'
<1>1. /\ NvmTypeOK /\ BothOperate /\ Lockstep /\ InTask /\ UNCHANGED <<pc, ram, pending, last>>
      /\ \A c \in C : BufferStored(c) /\ reset[c] \in {"WRITE_BUSY", "TRIGGER_REQUEST"}
      /\ reset' = [c \in C |->
           CASE reset[c] = "TRIGGER_REQUEST"                    -> "ENDLESS_LOOP"
             [] reset[c] = "WRITE_BUSY" /\ ~SAPL_NvLowIsBusy(c) -> "TRIGGER_REQUEST"
             [] OTHER                                           -> reset[c]]
  BY DEF InvSince, CtrlInv, ResetStep, InTask
<1>2. last' \in 0 .. MaxStores /\ last <= last'
  BY <1>1, Sizes DEF NvmTypeOK
<1>3. pending[C1] <=> pending[C2]
  BY <1>1 DEF Lockstep, InTask, Same
<1>4. ASSUME NEW c \in C
      PROVE  /\ reset'[c] \in {"WRITE_BUSY", "TRIGGER_REQUEST", "ENDLESS_LOOP"}
             /\ reset'[c] # "WRITE_BUSY" => pc[c] = "IDLE" /\ ~pending[c]
  <2>1. CASE reset[c] = "TRIGGER_REQUEST"
    <3>1. reset'[c] = "ENDLESS_LOOP"
      BY <1>1, <2>1
    <3>2. pc[c] = "IDLE" /\ ~pending[c]
      BY <1>1, <2>1 DEF BufferStored, BothOperate
    <3> QED
      BY <3>1, <3>2
  <2>2. CASE reset[c] = "WRITE_BUSY" /\ ~SAPL_NvLowIsBusy(c)
    BY <1>1, <2>2 DEF SAPL_NvLowIsBusy
  <2>3. CASE reset[c] = "WRITE_BUSY" /\ SAPL_NvLowIsBusy(c)
    BY <1>1, <2>3
  <2> QED
    BY <1>1, <2>1, <2>2, <2>3
<1>5. \A c \in C : TaskKeeps(c)
  BY <1>1, <1>4 DEF TaskKeeps
<1>6. reset' \in [C -> {"none", "WRITE_BUSY", "TRIGGER_REQUEST", "ENDLESS_LOOP"}]
  <2>1. \A c \in C : reset'[c] \in {"none", "WRITE_BUSY", "TRIGGER_REQUEST", "ENDLESS_LOOP"}
    BY <1>4
  <2> QED
    BY <1>1, <2>1
<1> QED
  BY <1>1, <1>2, <1>3, <1>5, <1>6, TaskStepKeeps DEF NvmTypeOK

-----------------------------------------------------------------------------
(* All steps *)

\* What can be stored does not get older, as long as base stays.
LEMMA NextSince ==
  ASSUME NEW b \in 0 .. last, InvSince(b), Progress \/ Faults
  PROVE  InvSince(b)' /\ last' \in {last, last + 1}
<1>1. CASE \E c \in C : SAPL_NvLowInit(c) \/ NvParamConfSectionErase(c) \/ FirstBlkWrite(c)
  BY <1>1, InitKeeps, EraseKeeps, FirstBlkWriteKeeps
     DEF SAPL_NvLowInit, NvParamConfSectionErase, FirstBlkWrite
<1>2. CASE SAPL_NvLowCrcSync
  BY <1>2, CrcSyncKeeps DEF SAPL_NvLowCrcSync
<1>3. CASE \E c \in C : SAPL_NvLowHandler(c)
  BY <1>3, IdleKeeps, ExchCrcKeeps, WriteBlkKeeps, InvldKeeps
     DEF SAPL_NvLowHandler, HandlerIdle, HandlerExchCrcComp, HandlerWriteBlk,
         HandlerInvldOldBlk, InHandler
<1>4. CASE ExchangeVar \/ NoStore \/ Store \/ ResetStep
  BY <1>4, ExchangeKeeps, NoStoreKeeps, StoreKeeps, ResetStepKeeps
     DEF ExchangeVar, NoStore, Store, ResetStep
<1>5. CASE \E type \in 0 .. 1 : CheckReset(type)
  BY <1>5, CheckResetKeeps DEF CheckReset
<1>6. CASE PowerCycle \/ PowerLoss
  BY <1>6, OffAsItIs DEF PowerCycle, PowerLoss, Off
<1>7. CASE \E c \in C : SyncTimeout(c) \/ TornStatus(c) \/ FlashError(c) \/ BufferFault(c)
  BY <1>7, FailuresKeep, TornStatusKeeps, BufferFaultKeeps
     DEF SyncTimeout, TornStatus, FlashError, BufferFault, Off
<1> QED
  BY <1>1, <1>2, <1>3, <1>4, <1>5, <1>6, <1>7 DEF Progress, Faults, Start, Cycle

\* A controller that operates reads the block of rd, except while it writes.
LEMMA OperatingReads ==
  ASSUME NvmTypeOK, NEW c \in C, FlashInStep(c), pc[c] \in Operating
  PROVE  /\ \A i \in Blocks : Alone(c, i) => i = rd[c]
         /\ Readable(c) = IF pc[c] \in Writing /\ n[c] # 0 THEN Default ELSE DataOf(c)
<1>1. rd[c] \in Blocks /\ flash \in [C -> [Blocks -> FlashBlks]]
  BY DEF NvmTypeOK
<1>2. CASE pc[c] \in Writing /\ n[c] # 0
  <2>1. Half(c)
    BY <1>2 DEF FlashInStep, Writing
  <2>2. /\ NextBlk(c) \in Blocks /\ NextBlk(c) # rd[c]
        /\ Block(c, rd[c]).sts = "VALID" /\ Block(c, NextBlk(c)).sts = "VALID"
    <3>1. rd[c] \in Nat
      BY <1>1, Sizes
    <3> QED
      BY <1>2, <2>1, <3>1 DEF Half, NextBlk, Complete
  <2>3. Corrupted(c)
    BY <1>1, <2>2, TwoValid
  <2>4. \A i \in Blocks : ~Alone(c, i)
    BY <2>3, AloneIsSound
  <2> QED
    BY <1>2, <2>3, <2>4 DEF Readable
<1>3. CASE ~(pc[c] \in Writing /\ n[c] # 0)
  <2>1. Alone(c, rd[c])
    BY <1>3, Sizes DEF FlashInStep, Half, Operating, Writing
  <2>2. Readable(c) = DataOf(c)
    BY <1>1, <2>1, AloneIsSound DEF DataOf
  <2>3. \A i \in Blocks : Alone(c, i) => i = rd[c]
    BY <1>1, <2>1 DEF Alone, Complete, Dead
  <2> QED
    BY <1>3, <2>2, <2>3
<1> QED
  BY <1>2, <1>3

\* The bound can be raised to what both can read.
LEMMA RaiseBase ==
  \A b, m : /\ InvSince(b) /\ b \in 0 .. last
            /\ m = IF Content > b THEN Content ELSE b
            => InvSince(m) /\ m \in 0 .. last /\ Content <= m
               /\ (Content = Default \/ Content = m)
<1> SUFFICES ASSUME NEW b, NEW m, InvSince(b), b \in 0 .. last,
                    m = IF Content > b THEN Content ELSE b
             PROVE  InvSince(m) /\ m \in 0 .. last /\ Content <= m
                    /\ (Content = Default \/ Content = m)
  OBVIOUS
<1>1. NvmTypeOK /\ CtrlInv /\ \A c \in C : DataSince(b, c) /\ FlashInStep(c)
  BY DEF InvSince, CtrlInv
<1>2. last \in Nat /\ b \in Nat /\ flash \in [C -> [Blocks -> FlashBlks]]
  BY <1>1, Sizes DEF NvmTypeOK
<1>3. ASSUME NEW c \in C
      PROVE  Since(b, Readable(c))
  BY <1>1, <1>2, <1>3, ReadsOneBlock, AloneIsTop DEF ReadableIs, DataSince, Since
<1>4. Content = Default \/ (Content = Readable(C1) /\ Content = Readable(C2) /\ Content \in b .. last)
  BY <1>3, TheControllers DEF Content, Since
<1>5. CASE Content > b
  <2>1. m = Content /\ m # Default /\ m \in b .. last
    BY <1>2, <1>4, <1>5 DEF Default
  <2>2. ASSUME NEW c \in C
        PROVE  DataSince(m, c)
    <3>1. Readable(c) = m
      BY <1>4, <2>1 DEF C
    <3>2. PICK i \in Blocks : Alone(c, i) /\ Block(c, i).data = m
      BY <1>2, <2>1, <3>1, ReadsOneBlock DEF ReadableIs
    <3>3. \A j \in Blocks : Top(c, j) => j = i
      BY <3>2, AloneIsTop
    <3>4. Top(c, i) /\ Since(m, m) /\ Since(m, Default)
      BY <2>1, <3>2, AloneIsTop DEF Since
    <3>5. pc[c] \in Operating => DataOf(c) = m
      BY <1>1, <3>2, OperatingReads DEF DataOf
    <3>6. Erasing(c) => buf[c] \in {Default, m}
      BY <1>1, <3>2, <3>4 DEF DataSince
    <3> QED
      BY <1>1, <3>2, <3>3, <3>4, <3>5, <3>6 DEF DataSince, Operating, Writing
  <2> QED
    BY <1>1, <1>2, <2>1, <2>2 DEF InvSince
<1>6. CASE ~(Content > b)
  BY <1>2, <1>4, <1>6 DEF Default
<1> QED
  BY <1>5, <1>6

\* The same after a step.
LEMMA RaiseBaseAfter ==
  (\A b, m : /\ InvSince(b) /\ b \in 0 .. last
             /\ m = IF Content > b THEN Content ELSE b
             => InvSince(m) /\ m \in 0 .. last /\ Content <= m
                /\ (Content = Default \/ Content = m))'
BY RaiseBase, PTL

\* Every step keeps the invariant, and raises base to what both can read.
LEMMA NextKeepsIInv ==
  ASSUME IInv, NvmNext
  PROVE  /\ IInv'
         /\ base \in Nat /\ base' \in base .. last' /\ last \in Nat /\ last' \in {last, last + 1}
         /\ base' # base => Content' = base'
         /\ Content' = Default \/ Content' = base'
<1>1. PICK b \in 0 .. last : b = base
  BY DEF IInv
<1>2. InvSince(b)
  BY <1>1 DEF IInv, InvSince, DataSince, Since
<1>3. InvSince(b)' /\ last' \in {last, last + 1}
  BY <1>2, NextSince DEF NvmNext
<1>4. last \in Nat
  BY <1>2, Sizes DEF InvSince, NvmTypeOK
<1>5. b \in 0 .. last'
  BY <1>3, <1>4
<1>6. PICK m : m = base'
  OBVIOUS
<1>7. m = IF Content' > b THEN Content' ELSE b
  BY <1>1, <1>6 DEF NvmNext
<1>8. InvSince(m)' /\ m \in 0 .. last' /\ Content' <= m /\ (Content' = Default \/ Content' = m)
  BY <1>3, <1>5, <1>7, RaiseBaseAfter
<1>9. InvSince(base)'
  BY <1>6, <1>8 DEF InvSince, DataSince, Since
<1>10. IInv'
  BY <1>6, <1>8, <1>9 DEF IInv
<1>11. b <= m /\ (m # b => m = Content')
  BY <1>1, <1>7, <1>8
<1> QED
  BY <1>1, <1>3, <1>4, <1>6, <1>8, <1>10, <1>11

\* The start: an empty flash.
LEMMA InitiallyIInv == NvmInit => IInv
<1> SUFFICES ASSUME NvmInit
             PROVE  IInv
  OBVIOUS
<1>1. NvmTypeOK
  BY TheControllers, Sizes DEF NvmInit, NvmTypeOK, FlashBlks, Statuses, Free, Places, Crc
<1>2. ASSUME NEW c \in C
      PROVE  /\ FlashInStep(c) /\ BufferStored(c) /\ ChangedIsFound(c) /\ DataSince(0, c)
             /\ Readable(c) = Default
  <2>1. \A i \in Blocks : Block(c, i) = Free
    BY DEF NvmInit, Block
  <2>2. /\ pc[c] = "INIT" /\ buf[c] = Default /\ reset[c] = "none"
        /\ peerCrc[c] = Crc(0, Default)
    BY DEF NvmInit
  <2>3. ~pending[c]
    BY Zenon DEF NvmInit
  <2>4. FlashInStep(c) /\ BufferStored(c)
    BY <2>2, <2>3 DEF FlashInStep, BufferStored, Erasing, Starting, Writing, Operating
  <2>5. peerCrc[c][2] = Default
    BY <2>2 DEF Crc
  <2>6. ChangedIsFound(c)
    BY <2>1, <2>2, <2>5, TheControllers DEF ChangedIsFound, Free, Erasing, Writing
  <2>7. DataSince(0, c)
    BY <2>1, <2>2 DEF DataSince, Top, Complete, Free, Erasing, Writing, Operating
  <2>8. ValidBlks(c) = {}
    BY <2>1 DEF ValidBlks, Free
  <2> QED
    BY <2>4, <2>6, <2>7, <2>8 DEF Readable
<1>3. OperateTogether /\ Lockstep
  BY TheControllers, NotBoth DEF NvmInit, OperateTogether, Starting, Operating
<1>4. InvSince(0) /\ Content = 0
  BY <1>1, <1>2, <1>3, TheControllers DEF InvSince, CtrlInv, Content, Default
<1>5. base = 0 /\ last = 0
  BY DEF NvmInit
<1> QED
  BY <1>4, <1>5 DEF IInv

\* So does stuttering.
LEMMA StutterKeepsIInv ==
  ASSUME IInv, UNCHANGED nvmVars
  PROVE  IInv'
<1>1. UNCHANGED <<flash, pc, rd, n, buf, ram, pending, peerCrc, reset, phase, done, last, base>>
  BY DEF nvmVars, ctrlVars
<1>2. PICK b \in 0 .. last : b = base
  BY DEF IInv
<1>3. InvSince(b)
  BY <1>2 DEF IInv, InvSince, DataSince, Since
<1>4. NvmTypeOK'
  BY <1>1, <1>3 DEF InvSince, NvmTypeOK
<1>5. ASSUME NEW c \in C
      PROVE  CtrlOK(b, c)'
  BY <1>1, <1>3, <1>5, InvByControllers, Frame DEF SameCtrl
<1>6. OperateTogether'
  BY <1>1, <1>3 DEF InvSince, CtrlInv, OperateTogether
<1>7. Lockstep'
  <2>1. /\ Same(C1, C2)' <=> Same(C1, C2)
        /\ \A c \in C : /\ Ahead(c, Peer(c))' <=> Ahead(c, Peer(c))
                        /\ CrcInStep(c)' <=> CrcInStep(c)
        /\ BothOperate' <=> BothOperate
    BY <1>1 DEF Same, Ahead, CrcInStep, BothOperate, DataOf, Block, NextBlk
  <2> QED
    BY <1>1, <1>3, <2>1 DEF InvSince, CtrlInv, Lockstep
<1>8. InvSince(b)'
  BY <1>4, <1>5, <1>6, <1>7, TheControllers, InvByControllers
<1>9. InvSince(base)'
  BY <1>1, <1>2, <1>8 DEF InvSince, DataSince, Since
<1>10. Content' = Content
  BY <1>1 DEF Content, Readable, Corrupted, ValidBlks, CrcOk, Block
<1> QED
  BY <1>1, <1>9, <1>10 DEF IInv

\* It always holds.
LEMMA AlwaysIInv == NvmSpec => []IInv
<1>1. IInv /\ [NvmNext]_nvmVars => IInv'
  BY NextKeepsIInv, StutterKeepsIInv
<1> QED
  BY <1>1, InitiallyIInv, PTL DEF NvmSpec

-----------------------------------------------------------------------------
(* The theorems *)

\* The controllers that operate store the same data, never data that a fault
\* has changed, and a reset is requested only when nothing waits to be stored
\* (SAPL_NvLowHandler, SAPLipc_CheckNvCrc, BkgdTaskResetHandler).
THEOREM SameDataIsStored == NvmSpec => []SameDataStored
<1>1. IInv => SameDataStored
  <2> SUFFICES ASSUME IInv
               PROVE  SameDataStored
    OBVIOUS
  <2>1. NvmTypeOK /\ Lockstep /\ \A c \in C : FlashInStep(c) /\ BufferStored(c) /\ ChangedIsFound(c)
    BY DEF IInv, InvSince, CtrlInv
  <2>2. ControllersAgree
    <3> SUFFICES ASSUME phase = "task", BothOperate
                 PROVE  Readable(C1) = Readable(C2) /\ rd[C1] = rd[C2]
      BY DEF ControllersAgree
    <3>1. Same(C1, C2)
      BY <2>1 DEF Lockstep
    <3>2. \A c \in C : Readable(c) = IF pc[c] \in Writing /\ n[c] # 0 THEN Default ELSE DataOf(c)
      BY <2>1, OperatingReads DEF BothOperate
    <3> QED
      BY <3>1, <3>2, TheControllers DEF Same
  <2>3. NoCorruptDataStored
    BY <2>1 DEF NoCorruptDataStored, ChangedIsFound
  <2>4. ASSUME NEW c \in C, pc[c] \in Operating, reset[c] \in {"TRIGGER_REQUEST", "ENDLESS_LOOP"}
        PROVE  Readable(c) = ram[c] \/ ram[c] = Corrupt(c)
    <3>1. pc[c] = "IDLE" /\ ~pending[c]
      BY <2>1, <2>4 DEF BufferStored
    <3>2. ram[c] \in {DataOf(c), Corrupt(c)}
      BY <2>1, <3>1 DEF BufferStored
    <3>3. Readable(c) = DataOf(c)
      BY <2>1, <2>4, <3>1, OperatingReads DEF Writing
    <3> QED
      BY <3>2, <3>3
  <2> QED
    BY <2>2, <2>3, <2>4 DEF SameDataStored, ResetAfterWrite
<1> QED
  BY <1>1, AlwaysIInv, PTL

\* A step that issues a store does not touch the flash.
LEMMA StoreWritesNothing ==
  ASSUME Progress \/ Faults
  PROVE  last' = last \/ (last' = last + 1 /\ flash' = flash)
BY DEF Progress, Faults, Start, Cycle, SAPL_NvLowInit, NvParamConfSectionErase, FirstBlkWrite,
       SAPL_NvLowCrcSync, SAPL_NvLowHandler, HandlerIdle, HandlerExchCrcComp, HandlerWriteBlk,
       HandlerInvldOldBlk, InHandler, ExchangeVar, NoStore, Store, CheckReset, ResetStep, InTask,
       PowerCycle, PowerLoss, SyncTimeout, TornStatus, FlashError, BufferFault, Off

\* A start finds the defaults or all of the data of one store, and never older
\* data than a start could have found before, wherever the power is lost
\* (SAPL_NvLowInit, NvParamConfSectionErase, SAPL_NvLowHandler).
THEOREM ImplementsStore == NvmSpec => StoreImplemented
<1>1. NvmInit => Store_!StoreInit
  <2> SUFFICES ASSUME NvmInit
               PROVE  Content = 0 /\ base = 0 /\ last = 0
    BY DEF Store_!StoreInit
  <2>1. ASSUME NEW c \in C
        PROVE  Readable(c) = Default
    <3>1. ValidBlks(c) = {}
      BY DEF NvmInit, ValidBlks, Block, Free
    <3> QED
      BY <3>1 DEF Readable
  <2> QED
    BY <2>1, TheControllers DEF NvmInit, Content, Default
<1>2. IInv /\ [NvmNext]_nvmVars => [Store_!StoreNext]_Store_!storeVars
  <2> SUFFICES ASSUME IInv, [NvmNext]_nvmVars
               PROVE  [Store_!StoreNext]_Store_!storeVars
    OBVIOUS
  <2>1. CASE NvmNext /\ last' = last
    <3>1. /\ base \in Nat /\ base' \in base .. last /\ last \in Nat
          /\ base' # base => Content' = base'
          /\ Content' = Default \/ Content' = base'
      BY <2>1, NextKeepsIInv
    <3>2. CASE Content' = base'
      BY <2>1, <3>1, <3>2 DEF Store_!StoreNext, Store_!Show
    <3>3. CASE Content' = 0 /\ base' = base
      BY <2>1, <3>3 DEF Store_!StoreNext, Store_!FallBack
    <3> QED
      BY <3>1, <3>2, <3>3 DEF Default
  <2>2. CASE NvmNext /\ last' # last
    <3>1. last' = last + 1 /\ flash' = flash
      BY <2>2, StoreWritesNothing DEF NvmNext
    <3>2. Content' = Content
      BY <3>1 DEF Content, Readable, Corrupted, ValidBlks, CrcOk, Block
    <3>3. base' = base
      <4>1. base \in Nat /\ Content <= base
        BY NextKeepsIInv, <2>2 DEF IInv
      <4>2. base' \in base .. last' /\ last' \in Nat /\ (base' # base => Content' = base')
        BY <2>2, <3>1, NextKeepsIInv
      <4> QED
        BY <3>2, <4>1, <4>2
    <3> QED
      BY <3>1, <3>2, <3>3 DEF Store_!StoreNext, Store_!Request
  <2>3. CASE UNCHANGED nvmVars
    <3>1. UNCHANGED <<flash, base, last>>
      BY <2>3 DEF nvmVars, ctrlVars
    <3>2. Content' = Content
      BY <3>1 DEF Content, Readable, Corrupted, ValidBlks, CrcOk, Block
    <3> QED
      BY <3>1, <3>2 DEF Store_!storeVars
  <2> QED
    BY <2>1, <2>2, <2>3
<1> QED
  BY <1>1, <1>2, AlwaysIInv, PTL DEF NvmSpec, StoreImplemented, Store_!StoreSpec

=============================================================================
