# S2L RFID T100 CS: specification and proofs

The firmware runs on two redundant safety controllers (STM32F103) behind an
Anybus host interface. Both execute the same program over the same data,
exchange intermediate results over a GPIO pair and a USART, and stop for good
(*safety handler*, an endless loop with interrupts off) when anything differs.
On top sits a CIP Safety target with one producing and one consuming
connection. All paths below are under `src/`.

## 1. Inventory

### Contexts of execution

| context | where | what runs there |
|---|---|---|
| start-up | `pkgOperation/main.c` `main`, `main_Config` | self tests, synchronization of the start, exchange of the configuration word |
| scheduler interrupt, every 100 µs | `pkgOperation/sch_Scheduler-app.c` `TIM1_UP_IRQHandler` | 40 time slices, a cycle of 4 ms; one table for the states with I/O, one for the others |
| background task, once per cycle | `CIPsafety/SAPL/SAPLbkgd` | triggered in slice 6 by a flag, must be done by slice 38 |
| DMA and USART | `pkgUtil/serial-hal.c` | reception of host telegrams and of the other controller's |

The interrupt preempts the background task; variables both use are single
words or guarded by `__disable_irq`.

### Components

| component | state it keeps | operations | talks to | what is hard | what makes it correct |
|---|---|---|---|---|---|
| `pkgCommunication/ipcs` | pin level, expected level | `SyncStartup`, `Sync` | the other controller's `ipcs` | two levels name all calls; missed pulses; one side stopping | it is a barrier; a missed level is fatal for both; no endless wait |
| `pkgCommunication/ipcx` | DMA counter, two copies of a telegram | `SendBuffer`, `GetBuffer…`, `ExChangeUINT32Data` | `ipcs`, USART, DMA | damage, loss, stale buffers, sending to a receiver not armed | the data consumed are the peer's of this exchange |
| `pkgAicSm` | AIC state, event queue, configuration owner | `SetEvent`, `Statemachine`, `CfgOwner…` | everything: it decides which task runs and whether outputs are on | events of five sources, two contexts, a queue of four | state follows the connections; every state can be aborted; queue never full |
| `pkgParam` | active and candidate parameters, check suspended or not | `setIParam`, `…CandidateIParam`, `CalcFiParamSafeConCrc` | `pkgAicSm`, `SAPLcbfk`, self test | candidate outliving its request | active parameters belong to the stored configuration, never change under the check |
| `SAPLbkgd` | semaphore, configuration step | one task per AIC state | CSS, NV memory, `pkgAicSm` | a job over many cycles | configuration applied is the one stored; ends |
| `SAPLcbfk` | – | callbacks of the stack | CSS → AIC events, run mode, parameters | called in the middle of a service of the stack | each callback's effect fits the caller's state |
| CSS supervisor (`IXSSO*`) | device status, SCID, CFUNID, TUNID | services, mode changes | validators, NV memory | connection events against service requests | executing iff a connection is established |
| CSS connections (`IXSCE*`, `IXSVO*`) | – , allocation | SafetyOpen type 1 and 2, FwdClose, drop all | supervisor, validators | checks before and effects after a mode change of the supervisor | never open without a SCID; reopen of a faulted connection |
| CSS validators (`IXSVS*`, `IXSVC*`) | state, time stamps, counters | first frame, data, faults, close | supervisor, callbacks | timeouts, time coordination | a fault always reaches both state machines |
| `SAPLnvLow/High` | flash blocks, write buffer, busy | store, restore, handler in slice 6 | flash, CSS attributes, the other controller | power loss in a block, block exhaustion, asynchronous writes | a start finds the defaults or one complete store; both controllers the same |
| `SAPLreset` | reset type | safety reset, reset task | NV memory, `pkgAicSm` | reset while writing | defaults stored before the reset |
| `pkgOperation` | slice, table, semaphore, time stamps | slices, trigger, check, main loop | everything | overrun, late or stopped interrupt, change of the table | the task owns its window; exchanges are paired |
| `pkgAicMgr`, `pkgAicMsg` | telegram buffers, fragments, toggle | receive, agree with the peer, process, respond | host, `ipcx`, `pkgAicSm` | fragments repeated or lost, controllers receiving in different slices | both controllers process the same telegram; every request is answered once |
| `pkgSpdu` | halves, DUIs, packet | prepare, exchange, build, reset | background task and interrupt of both controllers | halves of different messages, stale data after a close | a packet holds two halves of one message, soon |
| `pkgTIM`, `pkgTest/pkgDeviceTest` | system time, clock and temperature results | exchange, compare | `ipcx` | wrap around, one-sided failure | same conclusions; drift stops, tolerable drift does not |
| `GPIO/pkgDi`, `pkgDiDiag` | filters, states, positions of the tests, error counters | filter, switch pulses, evaluate, exchange | the other controller | tests against real changes, tests against each other, dual channels | copies agree; a change is seen in time; good inputs stay valid; faults are found |
| `GPIO/pkgDo`, `pkgDoDiag` | channel states, test states | switch, test pulses, read back | `ipcx`, safety handler | as above | an error state is kept until its cause is gone |
| `pkgTest/pkgSelfTest` | position of each cyclic test, signature | one step per call | safety handler, CRC unit | sharing of the CRC unit, skipped calls | every test is completed in time |
| `pkgGlobal` | error log, fail code | `globFail_SafetyHandler` | everything | being entered from every context | never returns, outputs off |

`PROJECT.json` lists every component with its files and whether it is
modelled; its `hazards` list names the places in the code where these
difficulties bite.

## 2. Modules

| module | models | state | actions |
|---|---|---|---|
| `IpcBarrier` | what the synchronization promises | waits begun and ended | `Enter`, `Leave`, `Stop` |
| `IpcSync` | `ipcs_IpcSync-sys.c`, both controllers | program counter, pin, expected level | one per poll result: pass, miss, timeout |
| `IpcExchange` | `ipcx_ExchangeData-sys.c` on top of `IpcSync` | program, call, phase, DMA, line | arm, synchronize, transmit, receive, reject, faults of the line |
| `MCIpcExchange` | the sequences of exchanges of `main_Config` and of slices 0 to 6 | – | – |
| `AicSm` | `aicSm.c`, and of `fiParam.c` what it changes | AIC state, queue, owners, active and candidate parameters | `HandleEvent`, operators for the handlers of the states and for `SetEvent` |
| `SafetyDevice` | one controller: `AicSm`, background tasks, supervisor, validators, NV memory, host telegrams | see the comments of its `VARIABLES` | one per telegram, task step, service, fault |
| `NvStore` | what the NV memory promises: an atomic store | content, oldest content a start may find | a store, a start |
| `NvMemory` | `SAPLnvLow.c`, `SAPLnvHigh.c`, the CRC exchange of `SAPLipc.c`, the reset task, both controllers | flash blocks, handler, write buffer, RAM data | start, handler, exchange, store, reset; power loss at and inside every write, flash errors, RAM faults |
| `Scheduler` | `sch_Scheduler-app.c`, main loop, semaphore | slice, table, pending exchange, time stamps | the interrupt, the main loop's steps, time, delays, a stopped timer |
| `TimeSupervision` | `TIM.c`, `clkCtrl.c`, `tm_TemperatureMonitor-srv.c`, both controllers | clocks, exchanged values, filter | the six slices, a change of the clocks' rates |
| `SelfTests` | `pkgSelfTest`: handler, order, signature, shared CRC unit | position of each test, calls, signature | a call, the supervision, faults of hardware and flow |
| `HostLink` | what the exchange of fragments promises | fragments offered and taken in both directions | offer, take |
| `HostTelegram` | `pkgAicMgr`, `pkgAicMsg`, the queues of `HALCSmsg.c`, both controllers and the host | DMA, telegrams, counts, message layer, queues, host | reception, comparison, processing, building, the host; damage and loss |
| `Spdu` | `spduIn.c`: safe data to the host, both controllers | messages generated, sent, received, packet | trigger, preparation, exchange, building, state machine |
| `DigitalInputs` | `pkgDi`, `pkgDiDiag`, both controllers | filters, states, tests, qualifiers, counters of all inputs | the two slices, changes of sensors, faults, resets |
| `Ipc_proofs`, `SafetyDevice_proofs`, `NvMemory_proofs`, `HostTelegram_proofs`, `Spdu_proofs`, `Slices_proofs`, `SelfTests_proofs`, `TimeSupervision_proofs` | – | – | theorems |

`SafetyDevice` takes a cycle as slice 6 (NV handler, control byte, one
telegram), background task (monitors and frames, the step of the state, one
HALC message), slice 39 (all events). The variable `phase` is the place in
that order. It can be sequential because the task reads `aicSm_eAicState`
once, which only slice 39 changes, and because `SAPL_BkgdTaskCheck` stops the
controller in slice 38 if the task is not done: `Scheduler` checks exactly this
(`CycleInOrder`) for main loops and interrupts of any delay.

Data are abstracted: a configuration is a member of `Configs` and stands for
its bytes, its CRC and its SCID alike; `NoConfig` is SCCRC zero, and in
`SetConfigString` a string that `BkgdTaskIoCfgVerify` refuses. A connection
is open when its validator is `INITIALIZING` or `ESTABLISHED`; the counters
of `IXSVOstat.c` are counts of these states. `T1Denied`, `T1Refused` and
`T1Accepted` are the three ways a SafetyOpen with configuration data leaves
the checks of `IXSCEsop2.c` after something has been changed; a refusal
before that changes nothing and is not an action. The safety handler is the
value of `failSafe`, after which nothing happens: it names the fail code. The
CSS calls fault and close events with the connections it finds, whatever
their time stamps, so `Fault` may happen whenever the background task looks
for one; the reasons for a fault are not modelled.

`NvMemory` numbers the data by the store that issued them; the CRC of a block
stands for both its index and its data. A block is a status and a number of
half-words, and power may be lost between any two writes, or in the write of
the status. The handshake of the controllers keeps them in the same slice.

`Scheduler` counts time in slices from the moment the code takes its time
stamp. Its variable `prompt` chooses between a main loop and an interrupt that
keep their times, which must never cause an alarm, and any.

`TimeSupervision` scales the timers: `Wrap` is the range of a timer, `Rates`
are counts per cycle. `disturbed` chooses whether clocks or temperatures
misbehave; both at once would only multiply the states, for the tests share
nothing.

`SelfTests` is about the flow, so a test is the number of its calls, and a
fault is in the call that touches it. The literal for the number of calls is a
variable that is chosen at the start (`limit`), so that one run shows what the
handler does with any of them; `LimitFits` says that it is the calls of all
tests and the one of the check.

`HostTelegram` runs a slice of both controllers as one step, for neither reads
there what the other writes. A telegram that ends while a slice is executed may
be there for one of them only; `MaxSplit` counts those damaged for one only. The
host follows the protocol of the flags and sends no telegram before the last
one is handled; what it sends is refused, incomplete or complete. Left out: the
abort of the state and the responses to telegrams of an invalid format.

`Spdu` numbers messages over twice the range of the DUI, so that the model can
tell a stale half from the one that has the same DUI; the packet shows which
messages its halves come from. A connection may generate a message in every
cycle, for the EPI may be less than that (`k_EPI_MIN_US` in `IXSVCinitInfo.c:71`
is 100 µs); `MayGenerate` bounds only how many of them are not sent in a row.

`DigitalInputs` has both copies of every state machine. A cycle of the inputs
is four slices, 400 µs: in the first slice the inputs are filtered, lines TO
tested and results sent, in the next one the other's results are received and all
inputs are processed. The waiting time between tests is `CycWait` cycles, of 2500;
the four kinds of test then follow each other more closely than they can in the
device. The values of the TO parameter that "shall not be used" are left out.

## 3. Runs

| run | bounds | what it shows |
|---|---|---|
| `ipcsync_free` | 7 waits | barrier (refinement of `IpcBarrier`), fatal missed levels, for controllers of arbitrary speed; no level is missed while polling is prompt |
| `ipcx_faults` | start-up of two and a half exchanges, the tables of start-up and run mode against each other, 2 faults | consumed data are current and the peer's; only armed receivers are sent to, after the first exchange; a stop spreads, and diverged controllers stop |
| `device_safety` | 2 configurations, 2 originators, queue of 4 as in the code | the safety, action and liveness properties of the device |
| `nvmem_crash` | 6 blocks in 2 pages, 2 stores, 2 faults | an atomic store (refinement of `NvStore`); same data in both controllers; the device operates again |
| `sched_faults` | tasks up to 30 slices, delays up to 4 slices, main-loop limit of 2 cycles | the task owns its window, exchanges are paired, no false alarm, a stopped timer is noticed |
| `selftest_faults` | 1 to 4 calls per test; literals: one that fits the round, three next to it, and the calls of the RAM test alone as in this build | the literal alone decides whether an intact controller goes on, no round leaves out a call or starts on another test's CRC, all faults and literals that do not fit stop the controller |
| `time_faults` | ticks per cycle 13 to 19, a change of the rates, a filter of 3 in 5 | same time and same conclusions, drift stops, no false alarm |
| `telegram_faults` | 2 open requests, 1 damaged or lost telegram, 1 telegram damaged for one controller | controllers in step, fragments once and in order (refinement of `HostLink`), every request answered |
| `spdu_cycles` | DUI of 3 values, up to one message of a connection per cycle | halves match, messages are in the packet in time |
| `di_faults` | 3 inputs per controller of which 2 used, one pair dual, lines TO, 3 changes of sensors, faults and resets | copies agree, reaction in at most 8 cycles, good inputs become and stay valid, faults are found |
| `di_short` (violated) | 3 inputs per controller, all active | a short between two of them is never reported |
| `device_orig` (violated) | as `device_safety` | a configuration stored but not activated |

Why the bounds are enough. `IpcSync` repeats with period two after the first
three waits (start-up, the degenerate first `Sync`, the first real one). The
code compares configurations only for equality, and the properties relate the
active one to the stored one; two originators distinguish the owner from any
other. The NV memory erases its section when the last page is reached, so two
pages and two stores, with a write cycle of two half-words, take it through
write, invalidation, exhaustion, erase and a fault in each. The scheduler's
variables return to the same values in every cycle. The DUI, the timers and the
flags of the telegrams wrap in the small ranges as they do in the large ones;
the messages of `Spdu` are proved for every range. The inputs' tests are
periodic; two used inputs per controller are enough for two tests to compete
and for a test to be asked for while another one runs.

`CHECK_DEADLOCK FALSE` is used where the safety handler stops a controller for
good, where the programs of `MCIpcExchange` end and where faults are used up.

**Fairness.** `IpcSync`, `IpcExchange`: a controller that is not in its safety
handler keeps executing (its loops end by the level or by the timer), and the
USART keeps shifting. Nothing forces a fault. `SafetyDevice`: weak fairness of
the steps of the cycle, since the timer interrupt drives the slices and slice
38 enforces the end of the task; strong fairness of the NV handler, which
slice 6 calls in every cycle and which ends a write after a fixed number of
half-words. No telegram, frame or message ever has to come. `NvMemory`: the
cycle goes on, and somebody cycles the power of a stopped device. `Scheduler`:
time goes on, an interrupt that is pending is served, the main loop gets the
processor between two interrupts; a poll of the main loop's limit is strongly
fair, since it runs in each of infinitely many turns. `TimeSupervision`,
`SelfTests`, `DigitalInputs`: the timer keeps calling the slices.
`HostTelegram`: the slices go on, the host keeps reading, and it sends again
and again while it may (strong fairness: it may not while the device has not
handled the last telegram).

## 4. Where the code does not do what it says

Two runs are violated on purpose, each by the scenario of its counterexample;
`PROJECT.json` quotes the comment.

* `di_short`: `diDiagShortCheck_End` clears the counter of the short check for
  the input that did not follow a pulse, right beside the one that did. With
  three inputs per controller the counter never reaches its limit.
* `device_orig`: a SafetyOpen with a configuration that is accepted while
  another connection is still initializing stores its configuration, and the
  connection runs with the old parameters.

The models show more of them; no run is kept for these.

* `SafetyDevice`: a SafetyOpen with the triad of a faulted connection
  (`IXSCEsopen.c:235` "can be overwritten with the received parameters") looks
  up the instance before all connections are dropped, clears one that is no
  longer allocated, and ends in the stack's fatal error (`CSS_FATAL`).
* `SafetyDevice`: five events in one cycle overflow the queue of four and stop
  the controller (`EVENT_CNT_ERR`); a candidate configuration left over from a
  denied SafetyOpen is used by a later request of the tool.
* `IpcExchange`: the synchronization in `ipcxSYS_SendBuffer` does not protect
  the very first exchange: the first `ipcsSYS_Sync` expects the level that
  `SyncStartup` has left, and the first telegram may go to a receiver that is
  not armed. That is why `LaterSendsToArmedReceiver` begins with the second.
* `SelfTests`: with the sizes of this build the two steps of the RAM test need
  240 + 460800 calls (`RAMTST_SIZE` 0x1E00), and the others 1172 more, but
  `STHANLOC_NUMBER_OF_TESTCYCLES` without the digital sensor is 0x708F0 =
  461040, the calls of the RAM test alone: the assertion of
  `stHan_SelftestHandler-srv.c:172` would stop an intact controller in its
  first round. "No false alarm" therefore cannot be said of this program, and
  `LimitDecides` says what is true of it for every literal: the one that fits
  keeps an intact controller running, any other stops it. The run has both
  kinds. `NoTestSkipped` allows for a literal that is too low: then a changed
  flow can make a round pass that leaves out calls of the first step of the RAM
  test, which has no signature. Also
  `SFRTEST_SET_SFRCRCCHECK_ALWAYS_TRUE` is `TRUE` in both branches of
  `SfrTest_cfg.h:55`: the CRC of the registers never fails.
* `HostTelegram`: the count of the telegrams says how many were received, not
  which. If telegram A is damaged for controller 2 only, and telegram B ends
  between slices 3 and 6, the comparison after the second look passes while
  controller 1 processes A and controller 2 processes B
  (`aicMgrRx.c:232` "uCs are working with different AIC-messages"). `InStep` is
  therefore stated for telegrams that are damaged for both or for neither.
* `HostTelegram`: `aicMsgCsal_CheckRes` cannot answer OUT_OF_RES, for the state
  it would need is left before. `aicMsgCsal_CalcNumOfFragsToSkip`
  (`aicMsgCsal.c:522`) gets the length with the six bytes of the HALC header
  from `aicMsgProc.c:276-282` but counts data only: for some lengths a refused
  request is answered one fragment late. The model skips the right number.
* `Spdu`: a half prepared after slice 34 in the run that closes its connection
  is exchanged in the next cycle, and put into the packet after the reset
  (`spduIn.c:328-341`) if the other connection is still open.
* `Spdu`: messages prepared after slice 34 in every cycle never come out in
  pairs, since the halves exchanged are one message older; nothing keeps an
  originator from an EPI of one cycle or less. `SentInTime` therefore promises
  something of a message only if no other one follows it in the next cycle. After
  as many unsent messages in a row as the DUI has values the next one would not
  be sent in time either, for its DUI is that of the last one sent; the model
  stops short of that (`MayGenerate`).
* `DigitalInputs`: the reset flag of an input is to be accepted with its
  rising edge only (`diState.c:681`), but its last value is only kept in the
  error state: a flag held since before the error resets it at once.
* `DigitalInputs`: nothing checks that the pulse of a line TO is shorter than
  the filter of the inputs (`PulseAssumption`); with a longer pulse every test of
  a line makes its inputs inactive.

## 5. Proofs

`Ipc_proofs`. About `IpcSync`, for every `MaxWaits`:

* `TypeCorrect`, from which `BarrierIsSafe` follows by an inductive invariant
  that relates the pin and the expected level of each controller to the parity
  of its waits and keeps the controllers at most one wait apart;
* `ImplementsBarrier`: initial states and steps map to those of `IpcBarrier`
  under the identity on the waits, a controller being stopped when it is in
  the safety handler;
* `PromptPollingMissesNothing`: `NoLevelMissed`. What has to be added to the
  property is that no level passes while the other side has not seen the one
  before (`PeerNotAhead`).

About `IpcExchange`, for every number of faults and all programs of
`ProgsExchange`: each telegram is read before the next one is sent, and both
controllers make the same calls, or the same up to a fork behind which one of
them waits for a telegram that the other cannot send before it has met it in a
later synchronization. The tables of the start-up and of the run mode are such a
pair; TLC checks it.

* `ExchangeSynchronises`: the exchange is an implementation of `IpcSync`, so that
  the results above hold for it.
* `NeverStaleOrForeign`: `ConsumesCurrentPeerData`. `WaitsOf` turns the number of
  waits into a place in the program, so that the barrier tells how far the peer
  is (`HasBegun`, `PeerHasBegun`); `ArmedOf` and `ReadOf` say which telegram the
  DMA is armed for and that what was read had been sent. `ChannelOf` describes
  the line and the buffer together: before the first telegram (`Unarmed`), before
  the peer sends (`Fresh`) and after (`Receives`): at most two copies, all those
  undamaged of the telegram armed for, and none left once it was read. Behind
  the fork (`ForkInv`) one controller waits in vain and the other one never sends.
* `SendsToArmedReceivers`: `LaterSendsToArmedReceiver`, from `SendsToArmed`: a
  sender other than of the first telegram finds its receiver armed for this very
  call.

`SafetyDevice_proofs`, for all configurations, originators and every queue
length:

* `DeviceTypeCorrect`: types and the bound of the queue. The lemmas about
  `Signal`, `QueueAfter` and `SvTransition` carry it: the queue is only
  extended when there is room.
* `RunModeIsSafe`: `RunModeNeedsConsumer` is inductive relative to the types;
  the case that needs an argument is T1_SOPEN, which may drop the consumer and
  open it again in one step.
* `ParametersAreGuarded`: the parameters change only in the states
  `Uncommitted`; the strengthening `SafConInv` says that the check is off in
  all of them, because it is resumed only on the way to IDLE and the only way
  back is CONFIG_RECEIVED in IDLE, which suspends it.
* `SupervisorFollowsConnections`: `SsoMatchesConnections` is not inductive,
  since a device may come to IDLE from CONFIGURING or from its start. `SsoInv`
  adds that these have no established connection either.

In its second part, in the same generality: slice 39 processes all events, so
what counts in the middle of a cycle is the state to which the queue leads:

* `MachineFollowsConnections`: `StatesInStep`. `TaskInStep` follows the machine
  along its events (`Leads`) and says that the queue has such a path, that the
  state at its end agrees with the validators, the supervisor, the NV memory and
  the owner (`Settles`), and that before slice 39 the background task still
  serves the state in which the cycle began (`Serves`). The lemmas follow the
  phases: a telegram, the task of each state, the HALC message, slice 39.
* `ConfigurationFollows`: `ConfigurationInStep`, which needs a device without
  SCID to have no connection (`ScidForOpen`), at most one owner who then
  configures (`OneOwner`), and parameters under their check to be those of the
  stored configuration (`ParamsInStep`).
* `AppliesTheStored`: the action property `AppliesWhatWasStored`, from the same.

`NvMemory_proofs`, for every number of blocks and pages, every length of a
block and every number of stores and faults:

* `SameDataIsStored`: `SameDataStored`. `FlashInStep` says what the flash holds
  at each place of a controller: one block with data (`Alone`), the old one and
  part of the new one (`Half`), or the pages erased so far and part of block 0.
  `Lockstep` relates the controllers: at the same place (`Same`), or one a
  handler further (`Ahead`), and the CRC that is compared is that of the block
  the other one has prepared (`CrcInStep`); so the data that pass are the
  same and, as a change is not the same in both, unchanged (`ChangedIsFound`).
  `BufferStored` says that the write buffer is in the flash or waits to be.
* `ImplementsStore`: `StoreImplemented`, a refinement of `NvStore`. A start must
  never find older data than one could have found before, that is than `base`.
  That both controllers show no older data now is not inductive: an erase goes
  from page to page, and may uncover a block that was written before. `DataSince`
  therefore speaks about all that a controller holds (buffers, the block it
  reads) and about each block that could be found if those before it were
  erased (`Top`). A step keeps this for the old base (`NextSince`); if both
  controllers then read newer data, base may be raised to them (`RaiseBase`),
  for data read are the only ones the controller holds.

`HostTelegram_proofs`, for every set of requests of the kinds of `Parts` and of
messages of the stack, all sizes of the queues, and every number of open
requests, damaged, lost and split telegrams. `Single` is an inductive invariant
of the host and controller 1, which needs no assumption about the other one:

* `LinkImplemented`: `LinkWorks`, a refinement of `HostLink`. `Flags` says which
  fragment has been taken according to the flags of both ends; `Fits` and `Acks`
  extend it to what is under way, that is the telegram a controller works with
  and the one in its buffer: each has what the host offers now, or a fragment
  that was taken before, and a flag of the controller that is confirmed in an
  older telegram is so in a newer one.
* `AnswersComeInOrder`: `AnswersInOrder`. It is not inductive, because it speaks
  only of the moment at which a response is on its way. `Conversation` follows a
  request through its whole life: the fragment offered continues what was taken
  (`InSequence`, with the number of fragments `Missing` or to skip), the open
  requests are that of the response under way, that in work and that offered
  (`OpenIs`), and the parts built, sent and received differ by the one under way
  (`PartsAgree`).
* `QueuesStayBounded`: `TypeOK`; the message of the host is gone before the next
  one can be complete (`QueuesInv`).
* `ControllersStayInStep`: `InStep`, relative to `Single`. `PairInv` says that
  both have received the same telegrams (`Even`), or one of them one more, which
  the other one has in its buffer (`OneAhead`) and takes in slice 6. That needs
  counts of a range of more than 2, as `CountsDiffer` shows.

`Spdu_proofs`, for every range of the DUI and every pace of the messages:

* `HalvesAlwaysMatch`: `HalvesMatch` is not inductive, for what is exchanged and
  what is built lie in different slices. `IInv` adds that the senders differ
  only by what the slower task of the run has still to do, that what was
  received is at most one message behind or the message itself, that nobody has
  sent more than `Wrap - 1` messages since the last one put into a packet, and
  that in slice 38 both tasks are done. In these ranges equal DUIs mean equal
  messages (`DuiTellsNext` and the arithmetic of `BuildKeeps`).
* `SpduTypeCorrect`, from the same invariant.
* `MessagesAreSentInTime`: `SentInTime`, without a condition on the time between
  two messages. `TimeInv` says that every DUI in use is
  that of one message, that what has been sent is what the packet shows, and
  what the age of a message tells about the run of its task.

`Slices_proofs`, about what the timer interrupt calls. Of `Scheduler`, for every
value of the times; lemmas first show that both tables make the calls that
matter in the same slices (`CallsAt`), so that the rest speaks of slice numbers:

* `CycleStaysInOrder`, whatever the delays: `CycleInOrder`, that is
  `TaskOwnsItsWindow`, `OneTaskPerCycle` and `ExchangesArePaired`. The
  strengthening `SemaInCycle` says that the semaphore is up only between
  trigger and check, and that without it the task of this cycle is done;
  `ExchangeInStep` says what is pending before each slice, which is the same
  under both tables, and nothing where the tables are changed.
* `PromptNeverAlarms`: `NoFalseAlarm` if the task ends within 31 slices, the
  delays are at most 4 slices and the main loop may miss one cycle
  (`PromptLimits`). `PromptInv` bounds each time stamp by the distance to the
  slice that reads it, plus the pending interrupt and the delays; the bounds of
  the theorem are the largest the code's own limits leave room for.

Of `DigitalInputs`, for every number of pairs, every configuration of them,
every filter and waiting time, and whatever sensors, faults and resets do:

* `CopiesInStep`: `CopiesAgree`. The invariant `InStep` holds in both slices:
  the copies agree in all states and tests (`SameTests`), the values are the same
  once they are exchanged, and a controller that has sent adopts its own results
  (`Sent`). The two sides are not symmetric: one sets a pulse, the other reads it
  back, and a test the other has not executed counts as passed. That the copies
  decide alike (`Alike`) therefore needs `Results`: an own input whose first test
  was read back has a result, because until then its error counter is at its
  limit, so that this test cannot end without one, and everything that sets the
  tests back (`ToInactive`, the reset of an error) sets the counter to its limit
  as well. `Together` and `ToTogether` carry this through each function of the
  code, in its order. The loops over the inputs are recursive functions
  (`InTurn`); `FilterInTurn` and its like unfold one into the states it passes
  through, and `Induction`, from the well-foundedness of the naturals, follows
  the loop to its end.

`SelfTests_proofs`, for all sizes of the memories and portions, every number of
calls in a step and every literal for the number of calls, whether it fits the
tests or, as in this build (section 4), does not:

* `RoundsAreSound`: `RoundIsSound`. `NoTestSkipped` speaks of the end of a round
  only. `RoundInv` looks ahead: from the variables of the flow it follows which
  calls are still to come (`Ahead`, `Left`), and a round can pass only if the
  signatures are those before the current test (`InOrder`); then no test but
  STEP1 misses a call, and STEP1 as many as the calls made and left fall short of
  a round (`Complete`). The signatures of the next test are right only if those
  of this one were (`InOrderBefore`), so a jump that spoils a round spoils it for
  good; `JumpIs` shows that the others leave the calls that are to come as they
  were, or change those of STEP1 and their sum alike. `NoneLeftBehind` is what
  the next round begins with.
* `LimitsDecide`: `LimitDecides`. A handler without a jump stays `OnTrack`: its
  calls made and left add up to those of a round, so at the check they are what
  the literal says exactly if it fits (`CheckOnTrack`), and a test exceeds it
  only if it is too low (`IntactTest`). `OnTrack` also says what the CRC unit
  holds before the ROM and the register test, so that neither fails.

`TimeSupervision_proofs`, for all rates, limits, ranges and filters:

* `SameConclusions`: `ConclusionsAgree`. `TimeInv` says who has which times at
  which slice; `HotInv` that the failures counted are the newest ones of the
  filter, and that no older ones meet the threshold, so that a new run in it is
  that of the newest results (`NewestRun`); `TempInv` that both compare before
  the next measurement.
* `TolerableClocksRun`: `NoFalseAlarm`. `InTimeInv` carries the time of a cycle
  over the overflow of a timer (`TimerGoesOn`). `ElapsedInv` says that the
  elapsed times never deviate, unless they are those of the start: a rate
  that is tolerable keeps one count in reserve, which makes up for
  controllers that start one after the other, and the tolerated deviation of a
  sum is at least the sum of the deviations (`DeviationAdds`, `CloseGoesOn`).
  As long as nothing is measured, a time is below two intervals
  (`CloseIsShort`), so that it does not overflow.

The assumptions are those of the modules: `C1 # C2`, `NoConfig \notin Configs`,
`MaxNumEvents > 0`, the owners' identifiers differ and
`Wrap > 1`; of `NvMemory` that the blocks fill their pages, that there are at
least two blocks and that a block is written in at least two steps; of
`HostTelegram` that the queue `as_Ucq` has an entry, that the count of
telegrams has a range of more than 2 and the numbers of fragments one of more
than 1; of `SelfTests` that sizes and limits are positive, the portions of
the RAM divide it and a round is shorter than `STHANLOC_TIMEOUT` (a quarter of an
hour against one hour); of `Scheduler` only that its times are natural numbers; of
`DigitalInputs` that its counts and parameters are; of `TimeSupervision` that
two intervals of the clock control and a cycle fit into a timer (60 s and 4 ms
in 32 bits of microseconds) and an interval is longer than one count.

Only model-checked: everything under fairness (`MissedLevelIsFatal`,
`StopSpreads`, `RequestsEnd`, `OperatesAgain`, `StoppedIrqIsNoticed`,
`FaultIsNoticed`, `DriftStops`, `RequestsAnswered`, `SteadyGetsValid`,
`FaultIsFound`), which the provers do not handle, and the modules without a
proofs module. Of `DigitalInputs`, `ReactsInTime` and `SteadyStaysValid` are
about how long the tests of several inputs follow each other: they depend on
the kinds of faults, `CycWait` and the filter against `MaxReaction`, and are
claimed for the numbers of the run only.

## 6. Plan

1. `DigitalOutput` and its diagnosis, which reads back through the inputs, and
   the half-hourly supervision of the tests of the inputs.
2. `ProcessData`: `spduOut`, `pkgAicIoRst` and the output path. Property:
   outputs are off in every state that does not consume.
3. `SafetyDevice` on top of `NvMemory`, with restarts.
4. Services of the supervisor (TUNID proposal, passwords, reset types) and the
   validators' time coordination.
5. An abstract life cycle of a device (unconfigured, configured, executing,
   aborted, stopped) that `SafetyDevice` implements, proved as a refinement.

## 7. Not modelled

Digital outputs and their diagnosis, the output path and the light-weight
objects around it (`pkgAicIoRst`, `SAPLfailCode`), and the stack's objects that
keep no connection state: see the plan. What will not be modelled:
instruction-level self tests, register access (`pkgUtil`), formatting of
responses and objects (`SAPLmr`), the vendor's message routing, the headers of
CMSIS and CSOS, and the RFID reader, which is compiled out of the variant with
digital inputs and is a driver of a chip without safety functions of its own.
