------------------------------- MODULE SelfTests -------------------------------
(***************************************************************************)
(* The cyclic self tests of a controller (src/pkgTest/pkgSelfTest): the    *)
(* handler that executes a portion of one test in each call, the tests it  *)
(* takes turns in, the program flow signature and the two counters that    *)
(* supervise it, and the CRC unit of the microcontroller the tests share.  *)
(*                                                                         *)
(* A test is the number of its calls; a hardware fault is the call that    *)
(* touches it.  What the march and the opcode tests compute is left out.   *)
(***************************************************************************)
EXTENDS Integers, Sequences

CONSTANTS RomSize, RomChunk,             \* ROMTST_ROM_*, ROMTST_SIZE
          RamSize, Step1Bytes, OcBytes,  \* RAMTST_SIZE and the portions
          SfrRegs, RegsPerCycle,         \* registers in all blocks
          Limits,                        \* literals for STHANLOC_NUMBER_OF_TESTCYCLES
          Timeout,                       \* STHANLOC_TIMEOUT, in calls
          CrcCheckAlwaysTrue,            \* SFRTEST_SET_SFRCRCCHECK_ALWAYS_TRUE
          Kinds,                         \* kinds of faults that may happen
          Stride                         \* bound: calls of a test in one step

ASSUME SizesAssumption ==
  /\ {RomSize, RomChunk, RamSize, Step1Bytes, OcBytes, SfrRegs, RegsPerCycle,
      Timeout, Stride} \cup Limits \subseteq Nat \ {0}
  /\ RamSize % Step1Bytes = 0 /\ RamSize % OcBytes = 0
ASSUME SwitchAssumption == CrcCheckAlwaysTrue \in BOOLEAN

Tests == {"SAFECON", "ROM", "STACK", "OPCODE", "SFR", "CORE", "STEP1", "STEP2"}
Tasks == {"SAFECON", "ROM", "STACK", "CPU", "RAM", "CHECK_PFLOW"}

VARIABLES
  limit,     \* the literal of this build
  task,      \* stHan_eSelfTestTask
  cpu,       \* cputst_eCpuTask
  ram,       \* ramtst_eTestStep
  pos,       \* calls of each test that is under way
  calls,     \* stHan_u32RdsFktCallsSelfTest
  age,       \* since stHan_u32RdsSelfTestTriggerTime
  sig,       \* signatures in pflow_u16PflowCtrl1Crc
  mcuCrc,    \* what the CRC unit has been fed with since its reset
  bad,       \* the ROM and SFR tests that have read a wrong value
  fault,     \* what is broken: <<>> or <<test, call>>
  flow,      \* the handler's flow: "ok", "jumped" or "uncalled"
  tested,    \* history: calls of each test since the last check
  failSafe

progressVars == <<task, cpu, ram, pos, calls, age, sig, mcuCrc, bad, fault, flow, tested,
                  failSafe>>
testVars == <<limit, progressVars>>

CeilDiv(a, b) == (a + b - 1) \div b

Calls(t) ==
  CASE t = "ROM"   -> CeilDiv(RomSize, RomChunk)
    [] t = "SFR"   -> CeilDiv(SfrRegs, RegsPerCycle)
    [] t = "CORE"  -> 2
    [] t = "STEP1" -> RamSize \div Step1Bytes
    [] t = "STEP2" -> (RamSize \div OcBytes) * RamSize
    [] OTHER       -> 1

\* Calls of a round in which every test makes all of its calls; the check of the
\* flow is one more.
RoundCalls ==
  Calls("SAFECON") + Calls("ROM") + Calls("STACK") + Calls("OPCODE") + Calls("SFR")
    + Calls("CORE") + Calls("STEP1") + Calls("STEP2")
LimitFits == limit = RoundCalls + 1

\* A round of this build takes a quarter of the hour of STHANLOC_TIMEOUT.
ASSUME TimeoutAssumption == RoundCalls < Timeout

Current == CASE task = "CPU" -> cpu [] task = "RAM" -> ram [] OTHER -> task

Running == failSafe = "none"
Min2(a, b) == IF a < b THEN a ELSE b

\* PFLOW_SIGNATURE_SELFTEST
Expected == <<"SAFECON", "ROM", "STACK", "OPCODE", "SFR", "CORE", "STEP2">>

-----------------------------------------------------------------------------
(* One test *)

Done(t, k) == pos[t] + k = Calls(t)

Touched(t, k) == fault \in {<<t, i>> : i \in pos[t] .. pos[t] + k - 1}

\* The ROM test resets the unit at its end; sfrTest_Reset does after SFR; the
\* safety container resets it before, and leaves its CRC in it.
CrcUnitAfter(t, k) ==
  CASE t = "ROM"     -> IF Done(t, k) THEN "preset" ELSE "rom"
    [] t = "SFR"     -> IF Done(t, k) THEN "preset" ELSE "sfr"
    [] t = "SAFECON" -> "safecon"
    [] OTHER         -> mcuCrc

Checksummed == {"ROM", "SFR"}

\* Mutant: the CRC is that of the last portion alone.
TestFails_LastPortion(t, k) ==
  \/ t \notin Checksummed /\ Touched(t, k)
  \/ t = "ROM" /\ Done(t, k) /\ Touched(t, k)

\* The RAM test, the safety container and the stack fail at once, the ROM and
\* the register test when they compare their CRC at the end.
TestFails(t, k) ==
  \/ t \notin Checksummed /\ Touched(t, k)
  \/ t = "ROM" /\ pos[t] > 0 /\ mcuCrc # "rom"
  \/ t = "ROM" /\ Done(t, k) /\ (t \in bad \/ Touched(t, k))
  \/ t = "SFR" /\ Done(t, k) /\ (t \in bad \/ Touched(t, k)) /\ ~CrcCheckAlwaysTrue

\* pflow_AddSignature, at the end of a test; the RAM test has one signature.
SignatureAfter(t, k) ==
  IF Done(t, k) /\ t # "STEP1" THEN Append(sig, t) ELSE sig

NextTask(t) ==
  CASE t = "SAFECON" -> "ROM"
    [] t = "ROM"     -> "STACK"
    [] t = "STACK"   -> "CPU"
    [] t = "CORE"    -> "RAM"
    [] t = "STEP2"   -> "CHECK_PFLOW"
    [] OTHER         -> task

NextCpu(t) ==
  CASE t = "OPCODE" -> "SFR" [] t = "SFR" -> "CORE" [] t = "CORE" -> "OPCODE" [] OTHER -> cpu

NextRam(t) == CASE t = "STEP1" -> "STEP2" [] t = "STEP2" -> "STEP1" [] OTHER -> ram

Fail(code) ==
  /\ failSafe' = code
  /\ UNCHANGED <<task, cpu, ram, pos, sig, mcuCrc, bad, fault, flow, tested>>

\* romtst_DoRomTest, ramtst_DoStackTest, cputst_DoCpuTests, ramtst_DoRamTest,
\* safcon_CheckCrc: k calls of test t.
Execute(t, k) ==
  IF TestFails(t, k) THEN Fail(t)
  ELSE
    /\ pos' = [pos EXCEPT ![t] = IF Done(t, k) THEN 0 ELSE @ + k]
    /\ mcuCrc' = CrcUnitAfter(t, k)
    /\ bad' = IF Done(t, k) THEN bad \ {t}
              ELSE IF t \in Checksummed /\ Touched(t, k) THEN bad \cup {t} ELSE bad
    /\ sig' = SignatureAfter(t, k)
    /\ task' = IF Done(t, k) THEN NextTask(t) ELSE task
    /\ cpu' = IF Done(t, k) THEN NextCpu(t) ELSE cpu
    /\ ram' = IF Done(t, k) THEN NextRam(t) ELSE ram
    /\ tested' = [tested EXCEPT ![t] = Min2(@ + k, Calls(t))]
    /\ UNCHANGED <<fault, flow, failSafe>>

-----------------------------------------------------------------------------
(* The handler *)

\* Mutant: the call of the check itself is not counted.
FlowIsRight_BeforeCheck == sig = Expected /\ calls = limit

\* Mutant: the check of the calls is dropped.
FlowIsRight_Uncounted == sig = Expected

FlowIsRight == sig = Expected /\ calls + 1 = limit

\* STHAN_CHECK_PFLOW_ENUM
CheckPflow ==
  /\ task = "CHECK_PFLOW"
  /\ IF calls + 1 > limit \/ ~FlowIsRight
     THEN Fail("PFLOW_SIGNATURE") /\ UNCHANGED <<calls, age>>
     ELSE /\ calls' = 0
          /\ age' = 0
          /\ sig' = <<>>
          /\ task' = "SAFECON"
          /\ tested' = [t \in Tests |-> 0]
          /\ UNCHANGED <<cpu, ram, pos, mcuCrc, bad, fault, flow, failSafe>>

DoTest ==
  /\ task # "CHECK_PFLOW"
  /\ LET k == Min2(Stride, Calls(Current) - pos[Current])
     IN  IF calls + k > limit
         THEN Fail("STHAN_TIMEOUT") /\ UNCHANGED <<calls, age>>
         ELSE calls' = calls + k /\ age' = Min2(age + k, Timeout) /\ Execute(Current, k)

\* stHan_DoSelfTests
DoSelfTests == Running /\ flow # "uncalled" /\ (DoTest \/ CheckPflow)

\* stHan_CheckSelfTestTimeout, in the main loop
CheckSelfTestTimeout ==
  /\ Running
  /\ age >= Timeout
  /\ Fail("STHAN_TIMEOUT")
  /\ UNCHANGED <<calls, age>>

-----------------------------------------------------------------------------
(* Faults *)

Intact == Running /\ fault = <<>> /\ flow = "ok"

HardwareFault(t) ==
  /\ Intact
  /\ t \in Kinds
  /\ \E i \in 0 .. Calls(t) - 1 : fault' = <<t, i>>
  /\ UNCHANGED <<task, cpu, ram, pos, calls, age, sig, mcuCrc, bad, flow, tested, failSafe>>

\* One of the variables that say which test is next changes.
TaskJumps ==
  /\ Intact
  /\ "jump" \in Kinds
  /\ flow' = "jumped"
  /\ \/ task' \in Tasks \ {task} /\ UNCHANGED <<cpu, ram>>
     \/ cpu' \in {"OPCODE", "SFR", "CORE"} \ {cpu} /\ UNCHANGED <<task, ram>>
     \/ ram' \in {"STEP1", "STEP2"} \ {ram} /\ UNCHANGED <<task, cpu>>
  /\ UNCHANGED <<pos, calls, age, sig, mcuCrc, bad, fault, tested, failSafe>>

\* The scheduler does not call the handler any more.
CallsStop ==
  /\ Intact
  /\ "stop" \in Kinds
  /\ flow' = "uncalled"
  /\ UNCHANGED <<task, cpu, ram, pos, calls, age, sig, mcuCrc, bad, fault, tested, failSafe>>

TimePasses ==
  /\ Running
  /\ flow = "uncalled"
  /\ age < Timeout
  /\ age' = age + 1
  /\ UNCHANGED <<task, cpu, ram, pos, calls, sig, mcuCrc, bad, fault, flow, tested, failSafe>>

-----------------------------------------------------------------------------

\* stHan_InitSelfTests; the ROM test of the start-up leaves its CRC in the unit.
TestInit ==
  /\ limit \in Limits
  /\ task = "SAFECON"
  /\ cpu = "OPCODE"
  /\ ram = "STEP1"
  /\ pos = [t \in Tests |-> 0]
  /\ calls = 0
  /\ age = 0
  /\ sig = <<>>
  /\ mcuCrc = "rom"
  /\ bad = {}
  /\ fault = <<>>
  /\ flow = "ok"
  /\ tested = [t \in Tests |-> 0]
  /\ failSafe = "none"

TestNext ==
  /\ \/ DoSelfTests
     \/ CheckSelfTestTimeout
     \/ \E t \in Tests : HardwareFault(t)
     \/ TaskJumps
     \/ CallsStop
     \/ TimePasses
  /\ UNCHANGED limit

\* The interrupt calls the handler twice in a cycle and the main loop checks its
\* time; time passes.  Nothing forces a fault.
TestSpec ==
  TestInit /\ [][TestNext]_testVars
    /\ WF_progressVars(DoSelfTests) /\ WF_progressVars(CheckSelfTestTimeout)
    /\ WF_progressVars(TimePasses)

-----------------------------------------------------------------------------

\* The check of the flow begins a new round.
RoundPasses == sig # <<>> /\ sig' = <<>>

\* When a round is taken as passed, every test has made all of its calls in it,
\* whichever variable of the flow has changed in between. The first step of the
\* RAM test has no signature (PFLOW_SIGNATURE_SELFTEST): of it as many calls can
\* be missing as the limit of the calls is lower than it should be, and none
\* when the limit fits (pflow_CheckSignature and the counter of the calls).
NoTestSkipped ==
  [][RoundPasses =>
       \A t \in Tests :
         \/ tested[t] = Calls(t)
         \/ t = "STEP1" /\ Calls(t) - tested[t] <= RoundCalls + 1 - limit]_testVars

\* Every fault the tests are there for stops the controller, as does a handler
\* that is no longer called and a limit that does not fit the tests.
FaultIsNoticed == (fault # <<>> \/ flow = "uncalled" \/ ~LimitFits) ~> ~Running

IntactStops == fault = <<>> /\ flow = "ok" /\ Running /\ ~Running'

\* The literal for the calls decides whether an intact controller goes from round
\* to round or stops ("testcycles depend on which peripherals are used", but it is
\* written beside their sizes): with one that fits the sizes of the tests nothing
\* stops it, neither a test, because of what the others leave in the CRC unit, nor
\* the supervision of the handler; with any other a round is only taken as passed
\* after a variable of the flow has changed.
LimitDecides ==
  [][/\ IntactStops => ~LimitFits /\ failSafe' \notin Tests
     /\ RoundPasses /\ flow = "ok" => LimitFits]_testVars

\* The register test begins with a fresh CRC unit, which the tests before it
\* share with it: otherwise its CRC would depend on what they left there.
SfrStartsFresh ==
  Running /\ flow = "ok" /\ task = "CPU" /\ cpu = "SFR" /\ pos["SFR"] = 0 =>
    mcuCrc = "preset"

\* No round leaves out a call of a test or runs one on what another test left.
RoundIsSound == NoTestSkipped /\ []SfrStartsFresh

=============================================================================
