---------------------------- MODULE SelfTests_proofs ----------------------------
(***************************************************************************)
(* Proofs about the self tests (SelfTests.tla), for all sizes of the       *)
(* memories and of the portions, every literal for the limit of the calls, *)
(* every number of calls in a step and every fault: no round is taken as   *)
(* passed that leaves out what the signatures and the limit stand for      *)
(* (RoundIsSound), and the limit alone decides whether an intact           *)
(* controller goes on (LimitDecides).                                      *)
(*                                                                         *)
(* The invariant looks ahead from the variables that say what is next: a   *)
(* round can only still pass when its signatures are those before the      *)
(* present test, and then only calls of a test without a signature can be  *)
(* missing, as many as the calls made and left fall short of a round.      *)
(***************************************************************************)
EXTENDS SelfTests, SequenceTheorems, TLAPS

\* The tests of the CPU and of the RAM.
CpuTests == {"OPCODE", "SFR", "CORE"}
RamTests == {"STEP1", "STEP2"}

\* The type invariant.
SelfTestsTypeOK ==
  /\ limit \in Limits
  /\ task \in Tasks /\ cpu \in CpuTests /\ ram \in RamTests
  /\ pos \in [Tests -> Nat] /\ \A t \in Tests : pos[t] < Calls(t)
  /\ calls \in Nat /\ age \in Nat
  /\ sig \in Seq(Tests)
  /\ mcuCrc \in {"rom", "preset", "sfr", "safecon"}
  /\ bad \in SUBSET Tests
  /\ flow \in {"ok", "jumped", "uncalled"}
  /\ tested \in [Tests -> Nat] /\ \A t \in Tests : tested[t] <= Calls(t)

\* The signatures when a test, or the check, is next.
Places == Tests \cup {"CHECK_PFLOW"}
Before(p) ==
  CASE p = "SAFECON" -> 0 [] p = "ROM" -> 1 [] p = "STACK" -> 2 [] p = "OPCODE" -> 3
    [] p = "SFR" -> 4 [] p = "CORE" -> 5 [] p \in RamTests -> 6 [] OTHER -> 7
Signatures(p) == SubSeq(Expected, 1, Before(p))

\* The tests that the handler still executes before the check, if nothing
\* jumps, and the calls of a test and of all of them.
BeforeCpu == {"SAFECON", "ROM", "STACK"}
Ahead(t) ==
  CASE t = "SAFECON" -> task = "SAFECON"
    [] t = "ROM"     -> task \in {"SAFECON", "ROM"}
    [] t = "STACK"   -> task \in BeforeCpu
    [] t = "OPCODE"  -> task \in BeforeCpu \cup {"CPU"} /\ cpu = "OPCODE"
    [] t = "SFR"     -> task \in BeforeCpu \cup {"CPU"} /\ cpu \in {"OPCODE", "SFR"}
    [] t = "CORE"    -> task \in BeforeCpu \cup {"CPU"}
    [] t = "STEP1"   -> task # "CHECK_PFLOW" /\ ram = "STEP1"
    [] OTHER         -> task # "CHECK_PFLOW"
Left(t) == IF Ahead(t) THEN Calls(t) - pos[t] ELSE 0
CallsLeft ==
  Left("SAFECON") + Left("ROM") + Left("STACK") + Left("OPCODE") + Left("SFR")
    + Left("CORE") + Left("STEP1") + Left("STEP2")

\* The signatures are right so far.
InOrder ==
  /\ task \in BeforeCpu => cpu = "OPCODE"
  /\ sig = Signatures(Current)

\* Every test will have made all of its calls; only STEP1, which has no signature,
\* may miss as many as the round falls short of.
Complete ==
  \A t \in Tests :
    \/ tested[t] + Left(t) >= Calls(t)
    \/ t = "STEP1" /\ Calls(t) + calls + CallsLeft <= tested[t] + Left(t) + RoundCalls

\* No test is under way that is not the present one, but for those of the RAM.
NoneLeftBehind ==
  \A t \in Tests \ {"STEP1", Current} : pos[t] = 0 \/ (t = "STEP2" /\ task = "RAM")

\* A round that can still pass leaves out nothing else.
RoundInv == Running /\ InOrder => Complete /\ NoneLeftBehind

\* A handler whose variables nothing has changed.
OnTrack ==
  /\ InOrder
  /\ calls + CallsLeft = RoundCalls
  /\ task # "CPU" => cpu = "OPCODE"
  /\ task # "RAM" => ram = "STEP1"
  /\ \A t \in Tests \ {Current} : pos[t] = 0
  /\ task = "ROM" /\ pos["ROM"] > 0 => mcuCrc = "rom"
  /\ \/ task = "STACK"
     \/ task = "CPU" /\ cpu = "OPCODE"
     \/ task = "CPU" /\ cpu = "SFR" /\ pos["SFR"] = 0
     => mcuCrc = "preset"
  /\ age <= calls

\* Nothing but a jump takes the handler off its track.
TrackInv == Running /\ flow = "ok" => OnTrack

\* An intact controller has not read a wrong value, and runs or has a limit that
\* does not fit.
IntactInv ==
  fault = <<>> /\ flow = "ok" =>
    bad = {} /\ (Running \/ (~LimitFits /\ failSafe \notin Tests))

-----------------------------------------------------------------------------
(* The tests and their signatures *)

\* A number divided by one that is not greater.
LEMMA QuotientIsPositive ==
  \A a \in Nat, b \in Nat \ {0} : a >= b => a \div b \in Nat \ {0}
<1> SUFFICES ASSUME NEW a \in Nat, NEW b \in Nat \ {0}, a >= b
             PROVE  a \div b \in Nat \ {0}
  OBVIOUS
<1>1. PICK q : q = a \div b
  OBVIOUS
<1>2. q \in Int /\ a % b \in 0 .. b - 1 /\ a = b * q + (a % b)
  BY <1>1
<1>3. ~(q <= 0)
  <2>1. SUFFICES ASSUME q <= 0 PROVE FALSE
    OBVIOUS
  <2>2. b * q <= 0
    BY <1>2, <2>1
  <2> QED
    BY <1>2, <2>2
<1> QED
  BY <1>1, <1>2, <1>3

\* Every test has calls to make.
LEMMA CallsArePositive == \A t \in Tests : Calls(t) \in Nat \ {0}
<1>1. /\ RomSize \in Nat \ {0} /\ RomChunk \in Nat \ {0} /\ RamSize \in Nat \ {0}
      /\ Step1Bytes \in Nat \ {0} /\ OcBytes \in Nat \ {0} /\ SfrRegs \in Nat \ {0}
      /\ RegsPerCycle \in Nat \ {0}
      /\ RamSize % Step1Bytes = 0 /\ RamSize % OcBytes = 0
  BY SizesAssumption
<1>2. \A a, b \in Nat \ {0} : CeilDiv(a, b) \in Nat \ {0}
  <2> SUFFICES ASSUME NEW a \in Nat \ {0}, NEW b \in Nat \ {0}
               PROVE  CeilDiv(a, b) \in Nat \ {0}
    OBVIOUS
  <2>1. PICK s : s = a + b - 1
    OBVIOUS
  <2>2. s \in Nat /\ s >= b
    BY <2>1
  <2> QED
    BY <2>1, <2>2, QuotientIsPositive DEF CeilDiv
<1>3. \A b \in Nat \ {0} : RamSize % b = 0 => RamSize >= b
  <2> SUFFICES ASSUME NEW b \in Nat \ {0}, RamSize % b = 0
               PROVE  ~(RamSize < b)
    BY <1>1
  <2> QED
    BY <1>1
<1>4. RamSize \div Step1Bytes \in Nat \ {0} /\ RamSize \div OcBytes \in Nat \ {0}
  BY <1>1, <1>3, QuotientIsPositive
<1>5. (RamSize \div OcBytes) * RamSize \in Nat \ {0}
  <2>1. \A a, b \in Nat \ {0} : a * b \in Nat \ {0}
    OBVIOUS
  <2> QED
    BY <1>1, <1>4, <2>1
<1>6. CeilDiv(RomSize, RomChunk) \in Nat \ {0} /\ CeilDiv(SfrRegs, RegsPerCycle) \in Nat \ {0}
  BY <1>1, <1>2
<1> QED
  BY <1>4, <1>5, <1>6 DEF Calls, Tests

\* Facts about the signatures.
LEMMA SignaturesAre ==
  /\ Expected \in Seq(Tests) /\ Len(Expected) = 7
  /\ \A p \in Places : Before(p) \in 0 .. 7 /\ Len(Signatures(p)) = Before(p)
  /\ \A p \in Places : Signatures(p) \in Seq(Tests)
  /\ \A p \in Places, i \in 1 .. 7 : i <= Before(p) => Signatures(p)[i] = Expected[i]
  /\ \A t \in Tests \ {"STEP1"} : Expected[Before(t) + 1] = t
<1>1. Expected \in Seq(Tests) /\ Len(Expected) = 7
  BY DEF Expected, Tests
<1>2. \A p \in Places : Before(p) \in 0 .. 7
  BY DEF Before, Places, Tests, RamTests
<1>3. \A t \in Tests \ {"STEP1"} : Expected[Before(t) + 1] = t
  BY DEF Before, Expected, Tests, RamTests
<1>4. \A p \in Places : Len(Signatures(p)) = Before(p) /\ Signatures(p) \in Seq(Tests)
  <2> SUFFICES ASSUME NEW p \in Places
               PROVE  Len(Signatures(p)) = Before(p) /\ Signatures(p) \in Seq(Tests)
    OBVIOUS
  <2>1. PICK b \in 0 .. 7 : b = Before(p)
    BY <1>2
  <2>2. SubSeq(Expected, 1, b) \in Seq(Tests) /\ Len(SubSeq(Expected, 1, b)) = b
    <3>1. \A i \in 1 .. b : Expected[i] \in Tests
      BY <1>1
    <3> QED
      BY <3>1, SubSeqProperties
  <2> QED
    BY <2>1, <2>2 DEF Signatures
<1>5. \A p \in Places, i \in 1 .. 7 : i <= Before(p) => Signatures(p)[i] = Expected[i]
  BY <1>1, <1>2 DEF Signatures
<1> QED
  BY <1>1, <1>2, <1>3, <1>4, <1>5

\* A test adds its signature: those before it were right exactly when those of
\* the next test are.
LEMMA SignaturesGrow ==
  ASSUME NEW s \in Seq(Tests), NEW t \in Tests \ {"STEP1"}, NEW p \in Places
  PROVE  Append(s, t) = Signatures(p) <=> Before(p) = Before(t) + 1 /\ s = Signatures(t)
<1>1. t \in Places
  BY DEF Places
<1>2. PICK b \in 0 .. 7 : b = Before(t)
  BY <1>1, SignaturesAre
<1>3. PICK q \in 0 .. 7 : q = Before(p)
  BY SignaturesAre
<1>4. b < 7
  BY <1>2 DEF Before, Tests, RamTests
<1>5. Append(Signatures(t), t) \in Seq(Tests) /\ Len(Append(Signatures(t), t)) = b + 1
  BY <1>1, <1>2, SignaturesAre
<1>6. \A i \in 1 .. b + 1 : Append(Signatures(t), t)[i] = Expected[i]
  BY <1>1, <1>2, <1>4, SignaturesAre
<1>7. ASSUME q = b + 1 PROVE Append(Signatures(t), t) = Signatures(p)
  <2>1. Len(Signatures(p)) = b + 1 /\ Signatures(p) \in Seq(Tests)
    BY <1>3, <1>7, SignaturesAre
  <2>2. \A i \in 1 .. b + 1 : Signatures(p)[i] = Expected[i]
    <3> SUFFICES ASSUME NEW i \in 1 .. b + 1 PROVE Signatures(p)[i] = Expected[i]
      OBVIOUS
    <3>1. i \in 1 .. 7 /\ i <= Before(p)
      BY <1>3, <1>4, <1>7
    <3> QED
      BY <3>1, SignaturesAre
  <2>3. \A i \in 1 .. Len(Append(Signatures(t), t)) :
          Append(Signatures(t), t)[i] = Signatures(p)[i]
    BY <1>5, <1>6, <2>2
  <2> QED
    BY <1>5, <2>1, <2>3, SeqEqual
<1>8. ASSUME Append(s, t) = Signatures(p) PROVE q = b + 1
  <2>1. PICK l \in Nat : l = Len(s)
    OBVIOUS
  <2>2. q = l + 1 /\ Append(s, t)[l + 1] = t
    BY <1>3, <1>8, <2>1, SignaturesAre
  <2>3. Expected[q] = t
    <3>1. q \in 1 .. 7 /\ q <= Before(p)
      BY <1>3, <2>1, <2>2
    <3>2. Signatures(p)[q] = Expected[q]
      BY <3>1, SignaturesAre
    <3> QED
      BY <1>8, <2>1, <2>2, <3>2
  <2> QED
    BY <1>2, <1>4, <2>2, <2>3 DEF Before, Expected, Tests, RamTests
<1>9. s = Signatures(t) <=> Append(s, t) = Append(Signatures(t), t)
  BY <1>1, SignaturesAre, AppendInjective
<1> QED
  BY <1>2, <1>3, <1>7, <1>8, <1>9

\* Their number tells the tests apart, but for those of the RAM.
LEMMA SignaturesDiffer ==
  \A p, q \in Places : Signatures(p) = Signatures(q) => p = q \/ {p, q} \subseteq RamTests
<1>1. \A p, q \in Places : Before(p) = Before(q) => p = q \/ {p, q} \subseteq RamTests
  BY DEF Before, Places, Tests, RamTests
<1> QED
  BY <1>1, SignaturesAre

-----------------------------------------------------------------------------
(* The calls of a test *)

\* The calls of a test that do not fail.
Moves(t, k) ==
  /\ t = Current /\ task # "CHECK_PFLOW"
  /\ k \in Nat \ {0} /\ k <= Calls(t) - pos[t] /\ calls + k <= limit
  /\ UNCHANGED limit
  /\ calls' = calls + k /\ age' = Min2(age + k, Timeout)
  /\ ~TestFails(t, k)
  /\ Execute(t, k)

\* What it changes.
Moved(t, k) ==
  /\ pos' = [pos EXCEPT ![t] = IF Done(t, k) THEN 0 ELSE @ + k]
  /\ tested' = [tested EXCEPT ![t] = Min2(@ + k, Calls(t))]
  /\ mcuCrc' = CrcUnitAfter(t, k)
  /\ sig' = SignatureAfter(t, k)
  /\ task' = IF Done(t, k) THEN NextTask(t) ELSE task
  /\ cpu' = IF Done(t, k) THEN NextCpu(t) ELSE cpu
  /\ ram' = IF Done(t, k) THEN NextRam(t) ELSE ram
  /\ UNCHANGED <<fault, flow, failSafe>>

\* What a call that does not fail changes.
LEMMA MovesAre == \A t, k : Moves(t, k) => Moved(t, k)
BY DEF Moves, Moved, Execute

\* The current test has calls left.
LEMMA CurrentIs ==
  ASSUME SelfTestsTypeOK
  PROVE  /\ Current \in Places
         /\ task = "CHECK_PFLOW" <=> Current = "CHECK_PFLOW"
         /\ task # "CHECK_PFLOW" => Current \in Tests /\ Ahead(Current)
BY DEF SelfTestsTypeOK, Current, Places, Tests, Tasks, CpuTests, RamTests, Ahead, BeforeCpu

\* The numbers of the state, and those of the code.
LEMMA NumbersAre ==
  ASSUME SelfTestsTypeOK
  PROVE  /\ \A t \in Tests : Calls(t) \in Nat \ {0} /\ pos[t] \in Nat /\ pos[t] < Calls(t)
         /\ \A t \in Tests : tested[t] \in Nat /\ tested[t] <= Calls(t)
         /\ \A t \in Tests : Left(t) \in Nat /\ Left(t) <= Calls(t)
         /\ calls \in Nat /\ age \in Nat /\ Timeout \in Nat /\ limit \in Nat
         /\ Stride \in Nat \ {0}
<1>1. \A t \in Tests : Calls(t) \in Nat \ {0} /\ pos[t] \in Nat /\ pos[t] < Calls(t)
  BY CallsArePositive DEF SelfTestsTypeOK
<1>2. \A t \in Tests : Left(t) \in Nat /\ Left(t) <= Calls(t)
  BY <1>1 DEF Left
<1>3. Timeout \in Nat /\ limit \in Nat /\ Stride \in Nat \ {0}
  BY SizesAssumption DEF SelfTestsTypeOK
<1> QED
  BY <1>1, <1>2, <1>3 DEF SelfTestsTypeOK

\* A call of the handler that is not the check either stops the controller or
\* moves the current test.
LEMMA DoTestIs ==
  ASSUME SelfTestsTypeOK, Running, DoTest, UNCHANGED limit
  PROVE  \/ ~Running' /\ UNCHANGED <<sig, task, flow, fault>> /\ Fail(failSafe')
            /\ calls' \in Nat /\ age' \in Nat
            /\ LET t == Current
                   k == Min2(Stride, Calls(t) - pos[t])
               IN  TestFails(t, k) \/ calls + k > limit
         \/ \E t \in Tests, k \in Nat \ {0} : Moves(t, k)
<1> DEFINE k == Min2(Stride, Calls(Current) - pos[Current])
<1>1. task # "CHECK_PFLOW" /\ Current \in Tests
  BY CurrentIs DEF DoTest
<1>2. k \in Nat \ {0} /\ k <= Calls(Current) - pos[Current]
  BY <1>1, NumbersAre DEF Min2
<1>3. IF calls + k > limit
      THEN Fail("STHAN_TIMEOUT") /\ UNCHANGED <<calls, age>>
      ELSE calls' = calls + k /\ age' = Min2(age + k, Timeout) /\ Execute(Current, k)
  BY DEF DoTest
<1>4. "none" \notin Tests
  BY DEF Tests
<1> HIDE DEF k
<1>5. CASE calls + k > limit
  <2>1. Fail("STHAN_TIMEOUT") /\ UNCHANGED <<calls, age>>
    BY <1>3, <1>5
  <2> QED
    BY <1>5, <2>1, NumbersAre DEF Fail, Running, k
<1>6. CASE calls + k <= limit /\ TestFails(Current, k)
  <2>1. /\ Fail(Current) /\ calls' = calls + k /\ age' = Min2(age + k, Timeout)
    BY <1>2, <1>3, <1>6, NumbersAre DEF Execute
  <2>2. ~Running' /\ UNCHANGED <<sig, task, flow, fault>> /\ Fail(failSafe')
    BY <1>1, <1>4, <2>1 DEF Fail, Running
  <2>3. calls' \in Nat /\ age' \in Nat
    BY <1>2, <2>1, NumbersAre DEF Min2
  <2> QED
    BY <1>6, <2>2, <2>3 DEF k
<1>7. CASE calls + k <= limit /\ ~TestFails(Current, k)
  BY <1>1, <1>2, <1>3, <1>7, NumbersAre DEF Moves
<1> QED
  BY <1>2, <1>5, <1>6, <1>7, NumbersAre

\* A call keeps the types.
LEMMA MovesKeepType ==
  ASSUME SelfTestsTypeOK, NEW t \in Tests, NEW k \in Nat \ {0}, Moves(t, k)
  PROVE  SelfTestsTypeOK'
<1>1. Moved(t, k)
  BY MovesAre
<1>2. PICK c \in Nat, p \in Nat, d \in Nat :
        c = Calls(t) /\ p = pos[t] /\ d = tested[t] /\ p < c /\ d <= c
  BY NumbersAre
<1>3. k <= c - p
  BY <1>2 DEF Moves
<1>4. pos \in [Tests -> Nat] /\ tested \in [Tests -> Nat]
  BY DEF SelfTestsTypeOK
<1>5. PICK np : np = IF Done(t, k) THEN 0 ELSE p + k
  OBVIOUS
<1>6. np \in Nat /\ np < c
  BY <1>2, <1>3, <1>5 DEF Done
<1>7. pos' = [pos EXCEPT ![t] = np]
  BY <1>1, <1>2, <1>4, <1>5 DEF Moved
<1>8. pos' \in [Tests -> Nat] /\ \A u \in Tests : pos'[u] < Calls(u)
  BY <1>2, <1>4, <1>6, <1>7 DEF SelfTestsTypeOK
<1>9. PICK nd : nd = Min2(d + k, c)
  OBVIOUS
<1>10. nd \in Nat /\ nd <= c
  BY <1>2, <1>9 DEF Min2
<1>11. tested' = [tested EXCEPT ![t] = nd]
  BY <1>1, <1>2, <1>4, <1>9 DEF Moved
<1>12. tested' \in [Tests -> Nat] /\ \A u \in Tests : tested'[u] <= Calls(u)
  BY <1>2, <1>4, <1>10, <1>11 DEF SelfTestsTypeOK
<1>13. calls' \in Nat /\ age' \in Nat
  BY NumbersAre DEF Moves, Min2
<1>14. task' \in Tasks /\ cpu' \in CpuTests /\ ram' \in RamTests
  BY <1>1 DEF SelfTestsTypeOK, Moved, NextTask, NextCpu, NextRam, Tasks, CpuTests, RamTests
<1>15. sig' \in Seq(Tests)
  BY <1>1 DEF SelfTestsTypeOK, Moved, SignatureAfter
<1>16. mcuCrc' \in {"rom", "preset", "sfr", "safecon"}
  BY <1>1 DEF SelfTestsTypeOK, Moved, CrcUnitAfter
<1>17. bad' \in SUBSET Tests /\ limit' \in Limits
  BY DEF Moves, Execute, SelfTestsTypeOK
<1>18. flow' \in {"ok", "jumped", "uncalled"}
  BY <1>1 DEF SelfTestsTypeOK, Moved
<1> QED
  BY <1>8, <1>12, <1>13, <1>14, <1>15, <1>16, <1>17, <1>18 DEF SelfTestsTypeOK

\* A test that is not done yet stays, after the last call the next one follows.
LEMMA NextIs ==
  ASSUME SelfTestsTypeOK, NEW t \in Tests, NEW k \in Nat \ {0}, Moves(t, k)
  PROVE  /\ ~Done(t, k) => UNCHANGED <<task, cpu, ram, sig>> /\ Current' = t
         /\ Done(t, k) =>
              /\ t \notin {"STACK", "CORE"} =>
                   Before(Current') = Before(t) + (IF t = "STEP1" THEN 0 ELSE 1)
              /\ t = "STACK" => Current' = cpu
              /\ t = "CORE" => Current' = ram
              /\ t \notin {"OPCODE", "SFR", "CORE"} => cpu' = cpu
              /\ t = "OPCODE" => cpu' = "SFR"
              /\ t \notin {"STEP1", "STEP2"} => ram' = ram
              /\ sig' = IF t = "STEP1" THEN sig ELSE Append(sig, t)
         /\ \A u \in Tests \ {t} : Ahead(u)' <=> Ahead(u)
         /\ Done(t, k) => ~Ahead(t)'
         /\ ~Done(t, k) => Ahead(t)'
         /\ Ahead(t)
<1>1. Moved(t, k) /\ t = Current
  BY MovesAre DEF Moves
<1>2. /\ t = "SAFECON" <=> task = "SAFECON"
      /\ t = "ROM" <=> task = "ROM"
      /\ t = "STACK" <=> task = "STACK"
      /\ t \in CpuTests <=> task = "CPU"
      /\ t \in RamTests <=> task = "RAM"
      /\ task = "CPU" => t = cpu
      /\ task = "RAM" => t = ram
  BY <1>1 DEF Moves, Current, SelfTestsTypeOK, Tests, Tasks, CpuTests, RamTests
<1>3. cpu \in CpuTests /\ ram \in RamTests /\ task \in Tasks
  BY DEF SelfTestsTypeOK
<1>4. /\ ~Done(t, k) => UNCHANGED <<task, cpu, ram, sig>>
      /\ Done(t, k) => /\ task' = NextTask(t) /\ cpu' = NextCpu(t) /\ ram' = NextRam(t)
                       /\ sig' = IF t = "STEP1" THEN sig ELSE Append(sig, t)
  BY <1>1 DEF Moved, SignatureAfter
<1>5. ~Done(t, k) => Current' = t
  BY <1>1, <1>4 DEF Current
<1>6. Ahead(t)
  BY <1>1, <1>2, <1>3 DEF Ahead, BeforeCpu, Tests, CpuTests, RamTests
<1>7. ~Done(t, k) => \A u \in Tests : Ahead(u)' <=> Ahead(u)
  BY <1>4 DEF Ahead
<1>8. ASSUME Done(t, k)
      PROVE  /\ ~Ahead(t)'
             /\ \A u \in Tests \ {t} : Ahead(u)' <=> Ahead(u)
  BY <1>2, <1>3, <1>4, <1>8
     DEF Ahead, BeforeCpu, Tests, CpuTests, RamTests, NextTask, NextCpu, NextRam
<1>9. ASSUME Done(t, k)
      PROVE  /\ t \notin {"STACK", "CORE"} =>
                  Before(Current') = Before(t) + (IF t = "STEP1" THEN 0 ELSE 1)
             /\ t = "STACK" => Current' = cpu
             /\ t = "CORE" => Current' = ram
  BY <1>2, <1>3, <1>4, <1>9
     DEF Current, Before, Tests, CpuTests, RamTests, NextTask, NextCpu, NextRam
<1>10. ASSUME Done(t, k)
       PROVE  /\ t \notin {"OPCODE", "SFR", "CORE"} => cpu' = cpu
              /\ t = "OPCODE" => cpu' = "SFR"
              /\ t \notin {"STEP1", "STEP2"} => ram' = ram
  BY <1>4, <1>10 DEF NextCpu, NextRam
<1> QED
  BY <1>4, <1>5, <1>6, <1>7, <1>8, <1>9, <1>10

\* The calls of a test count.
LEMMA LeftAfter ==
  ASSUME SelfTestsTypeOK, NEW t \in Tests, NEW k \in Nat \ {0}, Moves(t, k)
  PROVE  /\ Left(t) - k \in Nat /\ Left(t)' = Left(t) - k
         /\ tested'[t] = Min2(tested[t] + k, Calls(t))
         /\ \A u \in Tests \ {t} : Left(u)' = Left(u) /\ tested'[u] = tested[u] /\ pos'[u] = pos[u]
<1>1. Moved(t, k) /\ pos \in [Tests -> Nat] /\ tested \in [Tests -> Nat]
  BY MovesAre DEF SelfTestsTypeOK
<1>2. PICK c \in Nat, p \in Nat : c = Calls(t) /\ p = pos[t] /\ p < c /\ k <= c - p
  BY NumbersAre DEF Moves
<1>3. pos'[t] = IF Done(t, k) THEN 0 ELSE p + k
  BY <1>1, <1>2 DEF Moved
<1>4. Left(t) = c - p
  BY <1>2, NextIs DEF Left
<1>5. CASE Done(t, k)
  <2>1. Left(t)' = 0 /\ p + k = c
    BY <1>2, <1>5, NextIs DEF Left, Done
  <2>2. Left(t) - k \in Nat /\ Left(t)' = Left(t) - k
    BY <1>2, <1>4, <2>1
  <2>3. /\ tested'[t] = Min2(tested[t] + k, Calls(t))
        /\ \A u \in Tests \ {t} : tested'[u] = tested[u] /\ pos'[u] = pos[u]
    BY <1>1 DEF Moved
  <2>4. \A u \in Tests \ {t} : Left(u)' = Left(u)
    BY <2>3, NextIs DEF Left
  <2> QED
    BY <2>2, <2>3, <2>4
<1>6. CASE ~Done(t, k)
  <2>1. Left(t)' = c - (p + k)
    BY <1>2, <1>3, <1>6, NextIs DEF Left
  <2>2. Left(t) - k \in Nat /\ Left(t)' = Left(t) - k
    BY <1>2, <1>4, <2>1
  <2>3. /\ tested'[t] = Min2(tested[t] + k, Calls(t))
        /\ \A u \in Tests \ {t} : tested'[u] = tested[u] /\ pos'[u] = pos[u]
    BY <1>1 DEF Moved
  <2>4. \A u \in Tests \ {t} : Left(u)' = Left(u)
    BY <2>3, NextIs DEF Left
  <2> QED
    BY <2>2, <2>3, <2>4
<1> QED
  BY <1>5, <1>6

\* The calls that are left, and those of a round.
LEMMA SumsAre ==
  ASSUME SelfTestsTypeOK
  PROVE  /\ CallsLeft \in Nat /\ RoundCalls \in Nat /\ CallsLeft <= RoundCalls
         /\ \A t \in Tests : Left(t) <= CallsLeft
<1>1. /\ \A t \in Tests : Left(t) \in Nat /\ Left(t) <= Calls(t) /\ Calls(t) \in Nat
  BY NumbersAre
<1> USE DEF CallsLeft, RoundCalls, Tests
<1>2. CallsLeft \in Nat /\ RoundCalls \in Nat
  BY <1>1
<1>3. CallsLeft <= RoundCalls
  BY <1>1
<1>4. \A t \in Tests : Left(t) <= CallsLeft
  BY <1>1
<1> QED
  BY <1>2, <1>3, <1>4

\* Calls made and left add up to the same.
LEMMA CallsLeftAfter ==
  ASSUME SelfTestsTypeOK, NEW t \in Tests, NEW k \in Nat \ {0}, Moves(t, k)
  PROVE  calls' + CallsLeft' = calls + CallsLeft
<1>1. \A u \in Tests : Left(u) \in Nat
  BY NumbersAre
<1>2. /\ Left(t)' = Left(t) - k
      /\ \A u \in Tests \ {t} : Left(u)' = Left(u)
  BY LeftAfter
<1>3. CallsLeft' = CallsLeft - k
  BY <1>1, <1>2 DEF CallsLeft, Tests
<1>4. CallsLeft \in Nat /\ calls \in Nat
  BY SumsAre, NumbersAre
<1> QED
  BY <1>3, <1>4 DEF Moves

\* No other call is missing after one that is made.
LEMMA CompleteAfter ==
  ASSUME SelfTestsTypeOK, NEW t \in Tests, NEW k \in Nat \ {0}, Moves(t, k), Complete
  PROVE  Complete'
<1>1. PICK c \in Nat, d \in Nat, l \in Nat : c = Calls(t) /\ d = tested[t] /\ l = Left(t)
  BY NumbersAre
<1>2. Left(t)' = l - k /\ l - k \in Nat /\ tested'[t] = Min2(d + k, c)
  BY <1>1, LeftAfter
<1>3. PICK n \in Nat : n = calls + CallsLeft /\ calls' + CallsLeft' = n
  BY SumsAre, NumbersAre, CallsLeftAfter
<1>4. RoundCalls \in Nat /\ calls \in Nat /\ CallsLeft \in Nat
  BY SumsAre, NumbersAre
<1>5. calls' \in Nat /\ CallsLeft' \in Nat
  <2>1. SelfTestsTypeOK'
    BY MovesKeepType
  <2>2. \A u \in Tests : Left(u)' \in Nat
    <3>1. \A u \in Tests : Calls(u) \in Nat /\ pos'[u] \in Nat /\ pos'[u] < Calls(u)
      BY <2>1, CallsArePositive DEF SelfTestsTypeOK
    <3> QED
      BY <3>1 DEF Left
  <2>3. CallsLeft' \in Nat
    BY <2>2 DEF CallsLeft, Tests
  <2> QED
    BY <2>1, <2>3 DEF SelfTestsTypeOK
<1>6. \/ tested'[t] + Left(t)' >= c
      \/ t = "STEP1" /\ c + calls' + CallsLeft' <= tested'[t] + Left(t)' + RoundCalls
  <2>1. CASE d + l >= c
    BY <1>2, <2>1 DEF Min2
  <2>2. CASE t = "STEP1" /\ c + n <= d + l + RoundCalls
    <3>1. CASE d + k > c
      BY <1>2, <3>1 DEF Min2
    <3>2. CASE d + k <= c
      <4>1. tested'[t] + Left(t)' = d + l
        BY <1>2, <3>2 DEF Min2
      <4>2. c + calls' + CallsLeft' = c + n
        BY <1>3, <1>5
      <4> QED
        BY <2>2, <4>1, <4>2
    <3> QED
      BY <3>1, <3>2
  <2> QED
    BY <1>1, <1>3, <1>4, <2>1, <2>2 DEF Complete
<1>7. ASSUME NEW u \in Tests \ {t}
      PROVE  \/ tested'[u] + Left(u)' >= Calls(u)
             \/ u = "STEP1" /\ Calls(u) + calls' + CallsLeft' <= tested'[u] + Left(u)' + RoundCalls
  <2>1. tested'[u] = tested[u] /\ Left(u)' = Left(u) /\ Calls(u) \in Nat
    BY LeftAfter, NumbersAre
  <2>2. Calls(u) + calls' + CallsLeft' = Calls(u) + calls + CallsLeft
    BY <1>3, <1>4, <1>5, <2>1
  <2> QED
    BY <2>1, <2>2 DEF Complete
<1> QED
  BY <1>1, <1>6, <1>7 DEF Complete

\* Nor is another test left behind.
LEMMA NoneLeftBehindAfter ==
  ASSUME SelfTestsTypeOK, NEW t \in Tests, NEW k \in Nat \ {0}, Moves(t, k), NoneLeftBehind
  PROVE  NoneLeftBehind'
<1>1. t = Current /\ Moved(t, k)
  BY MovesAre DEF Moves
<1>2. \A u \in Tests \ {t} : pos'[u] = pos[u]
  BY LeftAfter
<1>3. Done(t, k) => pos'[t] = 0
  BY <1>1 DEF Moved, SelfTestsTypeOK
<1>4. ~Done(t, k) => task' = task /\ Current' = t
  BY <1>1, NextIs
<1>5. t = "STEP1" => task = "RAM" /\ task' = "RAM"
  BY <1>1 DEF Moves, Moved, NextTask, Current, SelfTestsTypeOK, Tasks, CpuTests
<1>6. task = "RAM" => t \in RamTests
  BY <1>1 DEF Current, SelfTestsTypeOK
<1> QED
  BY <1>1, <1>2, <1>3, <1>4, <1>5, <1>6 DEF NoneLeftBehind, RamTests

\* The signatures of the next test are right only if those of this one were.
LEMMA InOrderBefore ==
  ASSUME SelfTestsTypeOK, NEW t \in Tests, NEW k \in Nat \ {0}, Moves(t, k), InOrder'
  PROVE  InOrder
<1>1. SelfTestsTypeOK' /\ t = Current /\ Moved(t, k)
  BY MovesKeepType, MovesAre DEF Moves
<1>2. sig' = Signatures(Current')
  BY DEF InOrder
<1>3. Current' \in Places /\ t \in Places /\ sig \in Seq(Tests)
  BY <1>1 DEF Current, Places, SelfTestsTypeOK, Tests, Tasks, CpuTests, RamTests
<1>4. CASE ~Done(t, k)
  BY <1>1, <1>2, <1>4, NextIs DEF InOrder
<1>5. CASE Done(t, k) /\ t = "STEP1"
  <2>1. sig = Signatures(Current') /\ Before(Current') = Before(t)
    BY <1>2, <1>5, NextIs, NumbersAre DEF Before, RamTests
  <2>2. sig = Signatures(t)
    BY <2>1 DEF Signatures
  <2>3. task \notin BeforeCpu
    BY <1>1, <1>5 DEF Current, BeforeCpu, SelfTestsTypeOK, CpuTests
  <2> QED
    BY <1>1, <2>2, <2>3 DEF InOrder
<1>6. CASE Done(t, k) /\ t # "STEP1"
  <2>1. Before(Current') = Before(t) + 1 /\ sig = Signatures(t)
    BY <1>2, <1>3, <1>6, NextIs, SignaturesGrow
  <2>2. task \in BeforeCpu => cpu = "OPCODE"
    <3>1. SUFFICES ASSUME task \in BeforeCpu PROVE cpu = "OPCODE"
      OBVIOUS
    <3>2. t = task
      BY <1>1, <3>1 DEF Current, BeforeCpu
    <3>3. CASE task = "STACK"
      <4>1. Before(cpu) = 3 /\ cpu \in CpuTests
        BY <1>6, <2>1, <3>2, <3>3, NextIs DEF Before, RamTests, SelfTestsTypeOK
      <4> QED
        BY <4>1 DEF Before, CpuTests, RamTests
    <3>4. CASE task # "STACK"
      BY <1>1, <1>6, <3>1, <3>2, <3>4 DEF InOrder, BeforeCpu, Moved, NextTask, NextCpu
    <3> QED
      BY <3>3, <3>4
  <2> QED
    BY <1>1, <2>1, <2>2 DEF InOrder
<1> QED
  BY <1>4, <1>5, <1>6

\* A test keeps the handler on its track.
LEMMA StaysOnTrack ==
  ASSUME SelfTestsTypeOK, NEW t \in Tests, NEW k \in Nat \ {0}, Moves(t, k), OnTrack
  PROVE  OnTrack'
<1>1. SelfTestsTypeOK' /\ t = Current /\ Moved(t, k)
  BY MovesKeepType, MovesAre DEF Moves
<1>2. /\ t = "SAFECON" <=> task = "SAFECON"
      /\ t = "ROM" <=> task = "ROM"
      /\ t = "STACK" <=> task = "STACK"
      /\ t \in CpuTests <=> task = "CPU"
      /\ t \in RamTests <=> task = "RAM"
      /\ task = "CPU" => t = cpu
      /\ task = "RAM" => t = ram
  BY <1>1 DEF Moves, Current, SelfTestsTypeOK, Tests, Tasks, CpuTests, RamTests
<1>3. cpu \in CpuTests /\ ram \in RamTests /\ task \in Tasks
  BY DEF SelfTestsTypeOK
<1>4. InOrder /\ (task # "CPU" => cpu = "OPCODE") /\ (task # "RAM" => ram = "STEP1")
  BY DEF OnTrack
<1>5. task' # "CPU" => cpu' = "OPCODE"
  BY <1>1, <1>2, <1>3, <1>4 DEF Moved, NextTask, NextCpu, CpuTests, RamTests
<1>6. task' # "RAM" => ram' = "STEP1"
  BY <1>1, <1>2, <1>3, <1>4 DEF Moved, NextTask, NextRam, CpuTests, RamTests
<1>7. /\ \A u \in Tests \ {t} : pos[u] = 0 /\ pos'[u] = 0
      /\ pos'[t] = IF Done(t, k) THEN 0 ELSE pos[t] + k
  BY <1>1, LeftAfter DEF OnTrack, Moved, SelfTestsTypeOK
<1>8. \A u \in Tests \ {Current'} : pos'[u] = 0
  BY <1>7, NextIs
<1>9. Done(t, k) => \A u \in Tests : pos'[u] = 0
  BY <1>7
<1>10. ~Done(t, k) => task' = task /\ cpu' = cpu /\ pos'[t] > 0
  BY <1>1, <1>7, NumbersAre DEF Moved
<1>11. age' <= calls'
  BY NumbersAre DEF OnTrack, Moves, Min2
<1>12. task' = "ROM" /\ pos'["ROM"] > 0 => mcuCrc' = "rom"
  <2>1. SUFFICES ASSUME task' = "ROM", pos'["ROM"] > 0 PROVE mcuCrc' = "rom"
    OBVIOUS
  <2>2. ~Done(t, k)
    BY <1>9, <2>1 DEF Tests
  <2>3. t = "ROM"
    BY <1>2, <1>10, <2>1, <2>2
  <2> QED
    BY <1>1, <2>2, <2>3 DEF Moved, CrcUnitAfter
<1>13. t \in {"STACK", "OPCODE"} => Done(t, k)
  BY NumbersAre DEF Moves, Done, Calls
<1>14. \/ task' = "STACK"
       \/ task' = "CPU" /\ cpu' = "OPCODE"
       \/ task' = "CPU" /\ cpu' = "SFR" /\ pos'["SFR"] = 0
       => mcuCrc' = "preset"
  <2>1. CASE t = "ROM"
    BY <1>1, <1>2, <1>10, <2>1 DEF Moved, CrcUnitAfter, NextTask
  <2>2. CASE t \in {"STACK", "OPCODE"}
    BY <1>1, <1>2, <1>3, <1>4, <2>2 DEF Moved, CrcUnitAfter, OnTrack
  <2>3. CASE t = "SFR"
    BY <1>1, <1>2, <1>10, <2>3 DEF Moved, CrcUnitAfter, NextTask, NextCpu
  <2>4. CASE t \in {"SAFECON", "CORE", "STEP1", "STEP2"}
    BY <1>1, <1>2, <1>3, <2>4 DEF Moved, NextTask, NextCpu, CpuTests, RamTests
  <2> QED
    BY <2>1, <2>2, <2>3, <2>4 DEF Tests
<1>15. sig' = Signatures(Current')
  <2>1. sig = Signatures(t)
    BY <1>1, <1>4 DEF InOrder
  <2>2. CASE ~Done(t, k)
    BY <2>1, <2>2, NextIs
  <2>3. CASE Done(t, k) /\ t = "STEP1"
    <3>1. sig' = sig /\ Before(Current') = Before(t)
      BY <2>3, NextIs DEF Before, RamTests
    <3> QED
      BY <2>1, <3>1 DEF Signatures
  <2>4. CASE Done(t, k) /\ t # "STEP1"
    <3>1. Before(Current') = Before(t) + 1
      BY <1>2, <1>3, <1>4, <2>4, NextIs DEF Before, CpuTests, RamTests
    <3>2. Current' \in Places /\ sig \in Seq(Tests)
      BY <1>1 DEF Current, Places, SelfTestsTypeOK, Tests, Tasks, CpuTests, RamTests
    <3> QED
      BY <2>1, <2>4, <3>1, <3>2, NextIs, SignaturesGrow
  <2> QED
    BY <2>2, <2>3, <2>4
<1>16. calls' + CallsLeft' = RoundCalls
  BY CallsLeftAfter DEF OnTrack
<1>17. InOrder'
  BY <1>5, <1>15 DEF InOrder, BeforeCpu
<1> QED
  BY <1>5, <1>6, <1>8, <1>11, <1>12, <1>14, <1>16, <1>17 DEF OnTrack

-----------------------------------------------------------------------------
(* The invariant *)

\* At the check, no calls are left.
LEMMA NothingLeft ==
  ASSUME SelfTestsTypeOK, task = "CHECK_PFLOW"
  PROVE  CallsLeft = 0 /\ \A t \in Tests : Left(t) = 0
<1>1. \A t \in Tests : Left(t) = 0
  BY DEF Left, Ahead, BeforeCpu, Tests
<1> QED
  BY <1>1 DEF CallsLeft, Tests

\* A round begins in which every test but STEP1 will make all of its calls.
LEMMA NewRound ==
  ASSUME SelfTestsTypeOK, NoneLeftBehind, task = "CHECK_PFLOW",
         calls' = 0, age' = 0, sig' = <<>>, task' = "SAFECON",
         tested' = [t \in Tests |-> 0],
         UNCHANGED <<limit, cpu, ram, pos, mcuCrc, bad, fault, flow, failSafe>>
  PROVE  SelfTestsTypeOK' /\ (InOrder' => Complete') /\ NoneLeftBehind'
<1>1. SelfTestsTypeOK'
  <2>1. calls' \in Nat /\ age' \in Nat
    OBVIOUS
  <2>2. tested' \in [Tests -> Nat] /\ \A t \in Tests : tested'[t] <= Calls(t)
    BY CallsArePositive
  <2>3. sig' \in Seq(Tests) /\ task' \in Tasks
    BY DEF Tasks
  <2> QED
    BY <2>1, <2>2, <2>3 DEF SelfTestsTypeOK
<1>2. \A t \in Tests \ {"STEP1"} : pos[t] = 0
  BY DEF NoneLeftBehind, Current, Tests
<1>3. ASSUME InOrder' PROVE Complete'
  <2>1. \A t \in Tests : Calls(t) \in Nat /\ pos'[t] \in Nat /\ pos'[t] < Calls(t)
    BY <1>1, CallsArePositive DEF SelfTestsTypeOK
  <2>2. \A t \in Tests \ {"STEP1"} : Ahead(t)'
    BY <1>3 DEF InOrder, Ahead, BeforeCpu, Tests
  <2>3. \A t \in Tests \ {"STEP1"} : Left(t)' = Calls(t)
    BY <1>2, <2>1, <2>2 DEF Left
  <2>4. Left("STEP1")' \in Nat
    BY <2>1 DEF Left, Tests
  <2>5. Calls("STEP1") + CallsLeft' = Left("STEP1")' + RoundCalls
    BY <2>1, <2>3, <2>4 DEF CallsLeft, RoundCalls, Tests
  <2>6. CallsLeft' \in Nat /\ RoundCalls \in Nat
    <3>1. \A t \in Tests : Left(t)' \in Nat
      BY <2>1, <2>3, <2>4
    <3>2. CallsLeft' \in Nat
      BY <3>1 DEF CallsLeft, Tests
    <3> QED
      BY <3>2, SumsAre
  <2>7. Calls("STEP1") + calls' + CallsLeft' <= tested'["STEP1"] + Left("STEP1")' + RoundCalls
    <3>1. tested'["STEP1"] = 0 /\ Calls("STEP1") \in Nat
      BY <2>1 DEF Tests
    <3> QED
      BY <2>4, <2>5, <2>6, <3>1
  <2> QED
    BY <2>1, <2>3, <2>7 DEF Complete
<1>4. NoneLeftBehind'
  BY <1>2 DEF NoneLeftBehind
<1> QED
  BY <1>1, <1>3, <1>4

\* A round that begins on the track.
LEMMA NewRoundOnTrack ==
  ASSUME SelfTestsTypeOK, OnTrack, task = "CHECK_PFLOW",
         calls' = 0, age' = 0, sig' = <<>>, task' = "SAFECON",
         UNCHANGED <<cpu, ram, pos, mcuCrc, bad, fault, flow, failSafe>>
  PROVE  OnTrack'
<1>1. \A t \in Tests : pos[t] = 0 /\ pos'[t] = 0
  BY DEF OnTrack, Current, Tests
<1>2. cpu' = "OPCODE" /\ ram' = "STEP1"
  BY DEF OnTrack
<1>3. \A t \in Tests : Ahead(t)'
  BY <1>2 DEF Ahead, BeforeCpu, Tests
<1>4. \A t \in Tests : Calls(t) \in Nat
  BY CallsArePositive
<1>5. \A t \in Tests : Left(t)' = Calls(t)
  BY <1>1, <1>3, <1>4 DEF Left
<1>6. CallsLeft' = RoundCalls /\ RoundCalls \in Nat
  BY <1>4, <1>5 DEF CallsLeft, RoundCalls, Tests
<1>7. sig' = Signatures(Current')
  <2>1. Current' = "SAFECON" /\ Before("SAFECON") = 0
    BY DEF Current, Before, RamTests
  <2>2. SubSeq(Expected, 1, 0) = <<>>
    BY SignaturesAre
  <2> QED
    BY <2>1, <2>2 DEF Signatures
<1>8. InOrder' /\ calls' + CallsLeft' = RoundCalls
  BY <1>2, <1>6, <1>7 DEF InOrder
<1> QED
  BY <1>1, <1>2, <1>8 DEF OnTrack

\* Once one of the variables of the flow has changed, the round is only taken as
\* passed if the change does not matter or leaves out calls of STEP1 alone.
LEMMA JumpIs ==
  ASSUME SelfTestsTypeOK, OnTrack, RoundInv, TaskJumps, UNCHANGED limit
  PROVE  SelfTestsTypeOK' /\ (InOrder' => Complete' /\ NoneLeftBehind')
<1>1. /\ UNCHANGED <<pos, calls, age, sig, mcuCrc, bad, fault, tested, failSafe>>
      /\ flow' = "jumped" /\ Running
  BY DEF TaskJumps, Intact
<1>2. \/ task' \in Tasks \ {task} /\ UNCHANGED <<cpu, ram>>
      \/ cpu' \in CpuTests \ {cpu} /\ UNCHANGED <<task, ram>>
      \/ ram' \in RamTests \ {ram} /\ UNCHANGED <<task, cpu>>
  BY DEF TaskJumps, CpuTests, RamTests
<1>3. SelfTestsTypeOK'
  BY <1>1, <1>2 DEF SelfTestsTypeOK
<1>4. /\ InOrder /\ Complete /\ NoneLeftBehind
      /\ calls + CallsLeft = RoundCalls
      /\ \A t \in Tests \ {Current} : pos[t] = 0
  BY <1>1 DEF OnTrack, RoundInv
<1>5. Current \in Places /\ Current' \in Places
  BY <1>3 DEF Current, Places, SelfTestsTypeOK, Tests, Tasks, CpuTests, RamTests
<1>6. InOrder' => Current = Current' \/ {Current, Current'} \subseteq RamTests
  BY <1>1, <1>4, <1>5, SignaturesDiffer DEF InOrder
<1>7. CASE task' # task
  BY <1>2, <1>3, <1>6, <1>7
     DEF Current, SelfTestsTypeOK, Tasks, CpuTests, RamTests
<1>8. CASE cpu' # cpu /\ UNCHANGED <<task, ram>>
  <2>1. SUFFICES ASSUME InOrder' PROVE Complete' /\ NoneLeftBehind'
    BY <1>3
  <2>2. task # "CPU"
    BY <1>3, <1>6, <1>8, <2>1 DEF Current, SelfTestsTypeOK, CpuTests, RamTests
  <2>3. task \notin BeforeCpu
    BY <1>4, <1>8, <2>1 DEF InOrder
  <2>4. \A t \in Tests : Ahead(t)' <=> Ahead(t)
    BY <1>8, <2>2, <2>3 DEF Ahead, Tests
  <2>5. \A t \in Tests : Left(t)' = Left(t)
    BY <1>1, <2>4 DEF Left
  <2>6. CallsLeft' = CallsLeft
    BY <2>5 DEF CallsLeft, Tests
  <2>7. Current' = Current
    BY <1>8, <2>2 DEF Current
  <2> QED
    BY <1>1, <1>4, <1>8, <2>5, <2>6, <2>7 DEF Complete, NoneLeftBehind
<1>9. CASE ram' # ram /\ UNCHANGED <<task, cpu>>
  <2>1. NoneLeftBehind'
    BY <1>1, <1>2, <1>4, <1>9
       DEF NoneLeftBehind, Current, SelfTestsTypeOK, CpuTests, RamTests
  <2>2. \A t \in Tests \ {"STEP1"} : Ahead(t)' <=> Ahead(t)
    BY <1>9 DEF Ahead, Tests
  <2>3. \A t \in Tests \ {"STEP1"} : Left(t)' = Left(t)
    BY <1>1, <2>2 DEF Left
  <2>4. /\ \A t \in Tests : Left(t) \in Nat /\ Calls(t) \in Nat /\ tested[t] \in Nat
        /\ calls \in Nat /\ CallsLeft \in Nat /\ RoundCalls \in Nat
    BY NumbersAre, SumsAre
  <2>5. PICK c \in Nat, d \in Nat, l \in Nat :
          c = Calls("STEP1") /\ d = tested["STEP1"] /\ l = Left("STEP1")
    BY <2>4 DEF Tests
  <2>6. d + l >= c
    BY <1>4, <2>4, <2>5 DEF Complete, Tests
  <2>7. Left("STEP1")' \in Nat /\ (Left("STEP1")' >= l \/ Left("STEP1")' = 0)
    BY <1>1, <1>2, <1>9, <2>5, NumbersAre DEF Left, Ahead, Tests, RamTests
  <2>8. PICK m \in Nat : m = Left("STEP1")' /\ (m >= l \/ m = 0)
    BY <2>7
  <2>9. CallsLeft' = CallsLeft - l + m
    BY <2>3, <2>4, <2>5, <2>8 DEF CallsLeft, Tests
  <2>10. d + m >= c \/ c + calls + (CallsLeft - l + m) <= d + m + RoundCalls
    BY <1>4, <2>4, <2>6, <2>8
  <2>11. /\ \A t \in Tests \ {"STEP1"} : tested'[t] + Left(t)' >= Calls(t)
         /\ \/ tested'["STEP1"] + Left("STEP1")' >= Calls("STEP1")
            \/ Calls("STEP1") + calls' + CallsLeft'
                 <= tested'["STEP1"] + Left("STEP1")' + RoundCalls
    BY <1>1, <1>4, <2>3, <2>5, <2>8, <2>9, <2>10 DEF Complete
  <2>12. Complete'
    BY <2>11 DEF Complete
  <2> QED
    BY <1>3, <2>1, <2>12
<1> QED
  BY <1>2, <1>7, <1>8, <1>9

\* The inductive invariant.
IInv == SelfTestsTypeOK /\ RoundInv /\ TrackInv

\* The initial state satisfies the invariant.
LEMMA InitiallyIInv == TestInit => IInv
<1> SUFFICES ASSUME TestInit PROVE IInv
  OBVIOUS
<1>1. \A t \in Tests : Calls(t) \in Nat \ {0} /\ pos[t] = 0 /\ tested[t] = 0
  BY CallsArePositive DEF TestInit
<1>2. SelfTestsTypeOK
  <2>1. pos \in [Tests -> Nat] /\ tested \in [Tests -> Nat]
    BY DEF TestInit
  <2>2. task \in Tasks /\ cpu \in CpuTests /\ ram \in RamTests
    BY DEF TestInit, Tasks, CpuTests, RamTests
  <2>3. sig \in Seq(Tests)
    BY DEF TestInit
  <2> QED
    BY <1>1, <2>1, <2>2, <2>3 DEF TestInit, SelfTestsTypeOK
<1>3. \A t \in Tests : Left(t) = Calls(t)
  BY <1>1 DEF TestInit, Left, Ahead, BeforeCpu, Tests
<1>4. calls + CallsLeft = RoundCalls
  BY <1>1, <1>3 DEF TestInit, CallsLeft, RoundCalls, Tests
<1>5. sig = Signatures(Current)
  <2>1. Current = "SAFECON" /\ Before("SAFECON") = 0
    BY DEF TestInit, Current, Before, RamTests
  <2>2. SubSeq(Expected, 1, 0) = <<>>
    BY SignaturesAre
  <2> QED
    BY <2>1, <2>2 DEF TestInit, Signatures
<1>6. InOrder
  BY <1>5 DEF TestInit, InOrder
<1>7. OnTrack
  BY <1>1, <1>4, <1>6 DEF TestInit, OnTrack
<1>8. Complete /\ NoneLeftBehind
  BY <1>1, <1>3 DEF Complete, NoneLeftBehind
<1> QED
  BY <1>2, <1>7, <1>8 DEF IInv, RoundInv, TrackInv

\* A step that leaves these variables alone.
LEMMA OthersKeepIInv ==
  ASSUME IInv, UNCHANGED <<limit, task, cpu, ram, pos, calls, sig, mcuCrc, bad, tested>>,
         flow' \in {"ok", "jumped", "uncalled"}, age' \in Nat,
         Running' => Running,
         flow' = "ok" /\ Running' => flow = "ok" /\ age' = age
  PROVE  IInv'
<1>1. SelfTestsTypeOK'
  BY DEF IInv, SelfTestsTypeOK
<1>2. (InOrder' <=> InOrder) /\ (Complete' <=> Complete) /\ (NoneLeftBehind' <=> NoneLeftBehind)
  BY DEF InOrder, Complete, NoneLeftBehind, CallsLeft, Left, Ahead, Current
<1>3. RoundInv'
  BY <1>2 DEF IInv, RoundInv
<1>4. TrackInv'
  <2>1. SUFFICES ASSUME Running', flow' = "ok" PROVE OnTrack'
    BY DEF TrackInv
  <2>2. OnTrack /\ age' = age
    BY <2>1 DEF IInv, TrackInv
  <2>3. CallsLeft' = CallsLeft
    BY DEF CallsLeft, Left, Ahead
  <2> QED
    BY <1>2, <2>2, <2>3 DEF OnTrack, Current
<1> QED
  BY <1>1, <1>3, <1>4 DEF IInv

\* A step that stops the controller.
LEMMA StoppedKeepsIInv ==
  ASSUME IInv, ~Running',
         UNCHANGED <<limit, task, cpu, ram, pos, sig, mcuCrc, bad, flow, tested>>,
         calls' \in Nat, age' \in Nat
  PROVE  IInv'
BY DEF IInv, SelfTestsTypeOK, RoundInv, TrackInv

\* A call of a test.
LEMMA MovesKeepIInv ==
  ASSUME IInv, Running, NEW t \in Tests, NEW k \in Nat \ {0}, Moves(t, k)
  PROVE  IInv'
<1>1. SelfTestsTypeOK /\ SelfTestsTypeOK' /\ flow' = flow
  BY MovesKeepType, MovesAre DEF IInv, Moved
<1>2. RoundInv'
  BY <1>1, InOrderBefore, CompleteAfter, NoneLeftBehindAfter DEF IInv, RoundInv
<1>3. TrackInv'
  BY <1>1, StaysOnTrack DEF IInv, TrackInv
<1> QED
  BY <1>1, <1>2, <1>3 DEF IInv

\* At a check that finds all signatures, they are those of a round in order.
LEMMA CheckInOrder ==
  ASSUME SelfTestsTypeOK, task = "CHECK_PFLOW"
  PROVE  sig = Expected <=> InOrder
<1>1. Current = "CHECK_PFLOW" /\ Before("CHECK_PFLOW") = 7
  BY DEF Current, Before, RamTests
<1>2. SubSeq(Expected, 1, 7) = Expected
  BY SignaturesAre, SeqEqual
<1> QED
  BY <1>1, <1>2 DEF InOrder, Signatures, BeforeCpu

\* The check of the flow.
LEMMA CheckKeepsIInv ==
  ASSUME IInv, Running, CheckPflow, UNCHANGED limit
  PROVE  IInv'
<1>1. SelfTestsTypeOK
  BY DEF IInv
<1>2. CASE FlowIsRight /\ calls + 1 <= limit
  <2>1. /\ task = "CHECK_PFLOW"
        /\ calls' = 0 /\ age' = 0 /\ sig' = <<>> /\ task' = "SAFECON"
        /\ tested' = [t \in Tests |-> 0]
        /\ UNCHANGED <<cpu, ram, pos, mcuCrc, bad, fault, flow, failSafe>>
    BY <1>1, <1>2, NumbersAre DEF CheckPflow
  <2>2. NoneLeftBehind
    BY <1>1, <1>2, <2>1, CheckInOrder DEF IInv, RoundInv, FlowIsRight
  <2>3. SelfTestsTypeOK' /\ (InOrder' => Complete') /\ NoneLeftBehind'
    BY <1>1, <2>1, <2>2, NewRound
  <2>4. OnTrack => OnTrack'
    BY <1>1, <2>1, NewRoundOnTrack
  <2> QED
    BY <2>1, <2>3, <2>4 DEF IInv, RoundInv, TrackInv, Running
<1>3. CASE ~(FlowIsRight /\ calls + 1 <= limit)
  <2>1. Fail("PFLOW_SIGNATURE") /\ UNCHANGED <<calls, age>>
    BY <1>1, <1>3, NumbersAre DEF CheckPflow
  <2> QED
    BY <1>1, <2>1, NumbersAre, StoppedKeepsIInv DEF Fail, Running
<1> QED
  BY <1>2, <1>3

\* Every step keeps the invariant.
LEMMA NextKeepsIInv ==
  ASSUME IInv, [TestNext]_testVars
  PROVE  IInv'
<1>1. SelfTestsTypeOK /\ age \in Nat /\ calls \in Nat
  BY DEF IInv, SelfTestsTypeOK
<1> UNCHANGED limit
  BY DEF TestNext, testVars
<1>2. CASE DoSelfTests
  <2>1. CASE DoTest
    BY <1>1, <1>2, <2>1, DoTestIs, MovesKeepIInv, StoppedKeepsIInv DEF DoSelfTests, Fail
  <2>2. CASE CheckPflow
    BY <1>2, <2>2, CheckKeepsIInv DEF DoSelfTests
  <2> QED
    BY <1>2, <2>1, <2>2 DEF DoSelfTests
<1>3. CASE CheckSelfTestTimeout
  BY <1>1, <1>3, StoppedKeepsIInv DEF CheckSelfTestTimeout, Fail, Running
<1>4. ASSUME NEW t \in Tests, HardwareFault(t) PROVE IInv'
  BY <1>1, <1>4, OthersKeepIInv DEF HardwareFault, Running, SelfTestsTypeOK
<1>5. CASE TaskJumps
  <2>1. Running /\ flow = "ok" /\ flow' = "jumped"
    BY <1>5 DEF TaskJumps, Intact
  <2>2. OnTrack /\ RoundInv
    BY <2>1 DEF IInv, TrackInv
  <2>3. SelfTestsTypeOK' /\ (InOrder' => Complete' /\ NoneLeftBehind')
    BY <1>1, <1>5, <2>2, JumpIs
  <2> QED
    BY <2>1, <2>3 DEF IInv, RoundInv, TrackInv
<1>6. CASE CallsStop
  BY <1>1, <1>6, OthersKeepIInv DEF CallsStop, Running
<1>7. CASE TimePasses
  BY <1>1, <1>7, OthersKeepIInv DEF TimePasses, Running
<1>8. CASE UNCHANGED testVars
  BY <1>1, <1>8, OthersKeepIInv DEF testVars, progressVars, Running, SelfTestsTypeOK
<1> QED
  BY <1>2, <1>3, <1>4, <1>5, <1>6, <1>7, <1>8 DEF TestNext

\* The invariant holds always.
LEMMA AlwaysIInv == TestSpec => []IInv
<1> QED
  BY InitiallyIInv, NextKeepsIInv, PTL DEF TestSpec

-----------------------------------------------------------------------------
(* Rounds *)

\* At a check that passes, the tests have made their calls.
LEMMA CheckMeansComplete ==
  ASSUME IInv, Running, task = "CHECK_PFLOW", FlowIsRight, NEW t \in Tests
  PROVE  \/ tested[t] = Calls(t)
         \/ t = "STEP1" /\ Calls(t) - tested[t] <= RoundCalls + 1 - limit
<1>1. SelfTestsTypeOK /\ RoundInv
  BY DEF IInv
<1>2. CallsLeft = 0 /\ Left(t) = 0
  BY <1>1, NothingLeft
<1>3. PICK c \in Nat, d \in Nat, n \in Nat, r \in Nat :
        c = Calls(t) /\ d = tested[t] /\ n = calls /\ r = RoundCalls /\ d <= c
  BY <1>1, NumbersAre, SumsAre
<1>4. limit = n + 1
  BY <1>3 DEF FlowIsRight
<1>5. Complete
  BY <1>1, CheckInOrder DEF RoundInv, FlowIsRight
<1>6. d + 0 >= c \/ (t = "STEP1" /\ c + n + 0 <= d + 0 + r)
  BY <1>2, <1>3, <1>5 DEF Complete
<1> QED
  BY <1>3, <1>4, <1>6

\* The signatures are only cleared by the check.
LEMMA CheckClears ==
  ASSUME IInv, [TestNext]_testVars, RoundPasses
  PROVE  Running /\ CheckPflow /\ FlowIsRight /\ task = "CHECK_PFLOW"
<1>1. SelfTestsTypeOK
  BY DEF IInv
<1>2. sig # <<>> /\ sig' = <<>> /\ sig' # sig
  BY DEF RoundPasses
<1>3. DoSelfTests /\ UNCHANGED limit
  BY <1>2 DEF TestNext, testVars, progressVars, CheckSelfTestTimeout, Fail, HardwareFault,
     TaskJumps, CallsStop, TimePasses
<1>4. ~DoTest
  <2>1. SUFFICES ASSUME DoTest PROVE FALSE
    OBVIOUS
  <2>2. PICK t \in Tests, k \in Nat \ {0} : Moves(t, k)
    BY <1>1, <1>2, <1>3, <2>1, DoTestIs DEF DoSelfTests
  <2>3. sig' = Append(sig, t)
    BY <1>2, <2>2, MovesAre DEF Moved, SignatureAfter
  <2>4. sig \in Seq(Tests)
    BY <1>1 DEF SelfTestsTypeOK
  <2> QED
    BY <1>2, <2>3, <2>4
<1>5. Running /\ CheckPflow
  BY <1>3, <1>4 DEF DoSelfTests
<1> QED
  BY <1>2, <1>5 DEF CheckPflow, Fail

\* Whatever the limit of the calls and whichever variable of the flow has jumped, a
\* round that is taken as passed has made all calls of every test but STEP1, of
\* which as many can be missing as the limit is too low, and the register test has
\* found a fresh CRC unit (pflow_CheckSignature and the counter of
\* stHan_DoSelfTests).
THEOREM RoundsAreSound == TestSpec => RoundIsSound
<1>1. IInv => SfrStartsFresh
  BY DEF IInv, TrackInv, OnTrack, SfrStartsFresh
<1>2. IInv /\ [TestNext]_testVars =>
        [RoundPasses =>
           \A t \in Tests :
             \/ tested[t] = Calls(t)
             \/ t = "STEP1" /\ Calls(t) - tested[t] <= RoundCalls + 1 - limit]_testVars
  BY CheckClears, CheckMeansComplete
<1> QED
  BY <1>1, <1>2, AlwaysIInv, PTL DEF TestSpec, RoundIsSound, NoTestSkipped

-----------------------------------------------------------------------------
(* The limit of the calls *)

\* Nothing that is intact fails a test.
LEMMA IntactPasses ==
  ASSUME IInv, bad = {}, Running, fault = <<>>, flow = "ok",
         task # "CHECK_PFLOW", NEW k \in Nat \ {0}
  PROVE  ~TestFails(Current, k) /\ ~Touched(Current, k)
<1>1. OnTrack
  BY DEF IInv, TrackInv
<1>2. ~Touched(Current, k)
  <2>1. \A t, i : <<t, i>> # <<>>
    OBVIOUS
  <2> QED
    BY <2>1 DEF Touched
<1>3. Current = "ROM" => task = "ROM"
  BY DEF IInv, SelfTestsTypeOK, Current, CpuTests, RamTests
<1> QED
  BY <1>1, <1>2, <1>3 DEF TestFails, OnTrack

\* At the check of an intact round, all of its calls have been made.
LEMMA CheckOnTrack ==
  ASSUME IInv, Running, flow = "ok", task = "CHECK_PFLOW"
  PROVE  FlowIsRight <=> LimitFits
<1>1. SelfTestsTypeOK /\ OnTrack
  BY DEF IInv, TrackInv
<1>2. sig = Expected
  BY <1>1, CheckInOrder DEF OnTrack
<1>3. calls = RoundCalls
  BY <1>1, NothingLeft, NumbersAre, SumsAre DEF OnTrack
<1> QED
  BY <1>2, <1>3 DEF FlowIsRight, LimitFits

\* A test of an intact controller is stopped by too low a limit only.
LEMMA IntactTest ==
  ASSUME IInv, bad = {}, Running, fault = <<>>, flow = "ok", DoTest
  PROVE  bad' = {} /\ (Running' \/ (~LimitFits /\ failSafe' = "STHAN_TIMEOUT"))
<1>1. SelfTestsTypeOK /\ OnTrack
  BY DEF IInv, TrackInv
<1>2. Current \in Tests /\ task # "CHECK_PFLOW"
  BY <1>1, CurrentIs DEF DoTest
<1> DEFINE k == Min2(Stride, Calls(Current) - pos[Current])
<1>3. k \in Nat \ {0} /\ k <= Calls(Current) - pos[Current]
  BY <1>1, <1>2, NumbersAre DEF Min2
<1>4. Left(Current) = Calls(Current) - pos[Current]
  BY <1>1, <1>2, CurrentIs DEF Left
<1>5. IF calls + k > limit
      THEN Fail("STHAN_TIMEOUT") /\ UNCHANGED <<calls, age>>
      ELSE calls' = calls + k /\ age' = Min2(age + k, Timeout) /\ Execute(Current, k)
  BY DEF DoTest
<1>6. ~TestFails(Current, k) /\ ~Touched(Current, k)
  BY <1>2, <1>3, IntactPasses
<1> HIDE DEF k
<1>7. CASE calls + k > limit
  <2>1. Left(Current) <= CallsLeft /\ Left(Current) \in Nat /\ limit \in Nat
        /\ calls \in Nat /\ CallsLeft \in Nat /\ RoundCalls \in Nat
        /\ calls + CallsLeft = RoundCalls
    BY <1>1, <1>2, SumsAre, NumbersAre DEF OnTrack
  <2>2. ~LimitFits
    BY <1>3, <1>4, <1>7, <2>1 DEF LimitFits
  <2> QED
    BY <1>5, <1>7, <2>2 DEF Fail
<1>8. CASE ~(calls + k > limit)
  <2>1. Execute(Current, k)
    BY <1>5, <1>8
  <2> QED
    BY <1>6, <2>1 DEF Execute, Running
<1> QED
  BY <1>7, <1>8

\* Every step keeps the invariant of an intact controller.
LEMMA IntactStep ==
  ASSUME IInv, IntactInv, [TestNext]_testVars
  PROVE  IntactInv'
<1> SUFFICES ASSUME fault' = <<>>, flow' = "ok"
             PROVE  bad' = {} /\ (Running' \/ (~LimitFits /\ failSafe' \notin Tests))
  <2>1. LimitFits' <=> LimitFits
    BY DEF TestNext, testVars, LimitFits
  <2> QED
    BY <2>1 DEF IntactInv
<1>1. SelfTestsTypeOK
  BY DEF IInv
<1>2. fault = <<>> /\ flow = "ok"
  BY <1>1 DEF TestNext, testVars, progressVars, DoSelfTests, DoTest, CheckPflow, Execute,
     Fail, CheckSelfTestTimeout, HardwareFault, TaskJumps, CallsStop, TimePasses
<1>3. bad = {} /\ (Running \/ (~LimitFits /\ failSafe \notin Tests))
  BY <1>2 DEF IntactInv
<1>4. "STHAN_TIMEOUT" \notin Tests /\ "PFLOW_SIGNATURE" \notin Tests
  BY DEF Tests
<1>5. CASE DoSelfTests /\ DoTest
  BY <1>2, <1>3, <1>4, <1>5, IntactTest DEF DoSelfTests
<1>6. CASE DoSelfTests /\ CheckPflow
  <2>1. Running /\ task = "CHECK_PFLOW" /\ calls \in Nat
    BY <1>1, <1>6, NumbersAre DEF DoSelfTests, CheckPflow
  <2>2. FlowIsRight <=> LimitFits
    BY <1>2, <2>1, CheckOnTrack
  <2>3. FlowIsRight => ~(calls + 1 > limit)
    BY <2>1 DEF FlowIsRight
  <2> QED
    BY <1>3, <1>4, <1>6, <2>1, <2>2, <2>3 DEF CheckPflow, Fail, Running
<1>7. ~CheckSelfTestTimeout
  <2>1. SUFFICES ASSUME CheckSelfTestTimeout PROVE FALSE
    OBVIOUS
  <2>2. OnTrack /\ age >= Timeout
    BY <1>2, <2>1 DEF CheckSelfTestTimeout, IInv, TrackInv
  <2>3. age <= calls /\ calls + CallsLeft = RoundCalls
    BY <2>2 DEF OnTrack
  <2>4. age \in Nat /\ Timeout \in Nat /\ calls \in Nat /\ CallsLeft \in Nat
    BY <1>1, NumbersAre, SumsAre
  <2> QED
    BY <2>2, <2>3, <2>4, TimeoutAssumption
<1>8. CASE \/ \E t \in Tests : HardwareFault(t)
           \/ TaskJumps \/ CallsStop \/ TimePasses \/ UNCHANGED testVars
  <2>1. UNCHANGED <<bad, failSafe>>
    BY <1>8 DEF HardwareFault, TaskJumps, CallsStop, TimePasses, testVars, progressVars
  <2> QED
    BY <1>3, <2>1 DEF Running
<1> QED
  BY <1>5, <1>6, <1>7, <1>8 DEF TestNext, DoSelfTests

\* A step that stops an intact controller.
LEMMA IntactStopsByMisfit ==
  ASSUME IInv, IntactInv, [TestNext]_testVars, IntactStops
  PROVE  ~LimitFits /\ failSafe' \notin Tests
<1>1. IntactInv'
  BY IntactStep
<1>2. failSafe' # failSafe /\ ~Running' /\ fault = <<>> /\ flow = "ok"
  BY DEF IntactStops, Running
<1>3. fault' = fault /\ flow' = flow
  BY <1>2 DEF TestNext, testVars, progressVars, DoSelfTests, DoTest, CheckPflow, Execute,
     Fail, CheckSelfTestTimeout, HardwareFault, TaskJumps, CallsStop, TimePasses
<1>4. LimitFits' <=> LimitFits
  BY DEF TestNext, testVars, LimitFits
<1> QED
  BY <1>1, <1>2, <1>3, <1>4 DEF IntactInv

\* Whatever literal is written for STHANLOC_NUMBER_OF_TESTCYCLES, it decides what
\* becomes of an intact controller: one that fits the tests lets it go from round
\* to round, with any other it passes no round, and nothing else stops it.
THEOREM LimitsDecide == TestSpec => LimitDecides
<1>1. TestInit => IntactInv
  BY DEF TestInit, IntactInv, Running
<1>2. IInv /\ IntactInv /\ [TestNext]_testVars => IntactInv'
  BY IntactStep
<1>3. IInv /\ IntactInv /\ [TestNext]_testVars =>
        [/\ IntactStops => ~LimitFits /\ failSafe' \notin Tests
         /\ RoundPasses /\ flow = "ok" => LimitFits]_testVars
  BY IntactStopsByMisfit, CheckClears, CheckOnTrack
<1> QED
  BY <1>1, <1>2, <1>3, AlwaysIInv, PTL DEF TestSpec, LimitDecides

=============================================================================
