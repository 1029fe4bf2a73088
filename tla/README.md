# TP1, two interconnection networks, specified in TLA+

The repository holds the same packet-switched network twice:

- a **SystemC simulation** (`src/include/noc`, `src/src`): traffic generators,
  routers, FIFOs and arbiters under the SystemC kernel, and a packet tracer
  that measures latencies;
- a **VHDL design** (`src/vhdl`): FIFOs made of register stages, switches with
  four arbiters each, routers, and a network of 32 inputs and 4 outputs.

`src/rapport/*.tex` is the report that describes both. This directory
specifies both, with the part of the SystemC kernel the simulation runs on,
checks the specifications with TLC and proves most of their safety properties,
for instances of every size, with TLAPS.

## 1. The system

### 1.1 SystemC simulation

| Component | State | Operations | What makes it correct |
|---|---|---|---|
| arbiter (`arbiter.cpp`) | `_lru_index`, `_pushs_in_fifos`, `_last_used`, `_lfsr`, the place of `process()` | `process()` chooses a FIFO at a positive edge, waits a cycle, reads it and updates every register; one `pushed_in_fifo` thread per FIFO records arrivals | the choice is still there when it is read; every mode's register stays right under all modes; nobody starves |
| router (`router.cpp`) | the local packet, the place of `main()`/`read_packet()` | answers the four-phase handshake, waits for room, writes the FIFO | no packet lost, repeated or misrouted; no lost edge, no deadlock |
| generators (`traffic_generator.cpp`) | clock count, packets of the burst, address and its life | `clock_counter()`, `generate()` of stream and burst, `emit_random_package()`, `get_address()` | the schedule of packets, whatever the thread order and the router's delay |
| network (`noc.cpp`, `test/noc.cpp`) | the array of FIFOs | construction and binding | one FIFO per pair of input and output |
| tracer (`test/packet_tracer.cpp`) | the set of extras | `prepare_packet`, `prepare_packet_insertion_in_fifo`, `input_watcher` | each extra is freed once, after its dates are read |
| channels (SystemC 2.3.0) | current and next values | request/update, blocking read and write | third-party code, modelled as the network uses it |
| kernel (SystemC 2.3.0) | notifications and the lists of events, `m_delta_events`, the wait of each thread, run queues | `notify`, `cancel`, every `wait`, `trigger_static`/`trigger_dynamic`, suspend and resume, `crunch()` and `simulate()` | the earliest notification wins; no wait ends late, and none early but for one defect (section 4); no timeout is left over |

Everything runs in SystemC threads: within an evaluation phase they run in any
order, what one writes the others see one delta later, and an event that
happens before it is waited for is lost. A generator and its router share three
signals (packet, request, acknowledgement); a router and an arbiter share a
FIFO; the tracer hangs on callbacks of generators and routers and on the output
signals.

### 1.2 VHDL design

| Component | State | Operations | What makes it correct |
|---|---|---|---|
| FIFO (`fifo.vhd`, `fifo_stage.vhd`) | two toggles and a word per stage | each stage copies when the bus before it is full and the one after it free | the chain is one bounded queue with a known latency |
| arbiters (`arbiter_*.vhd`) | `lru`, `first`, a shift register | combinational choice, registers updated on `choice_used` | a waiting port is served; a register forgets nobody |
| switches (`sw_4x1.vhd`, `sw_8x1.vhd`) | FIFOs, `rd_ack`, output register | move one packet to the output bus when it is free | no packet lost, repeated, overwritten |
| router (`router_1x4.vhd`) | one request toggle per output | forwards to the output named by two address bits | the merged acknowledgement is not confused |
| network (`sw_8x4.vhd`, `noc.vhd`) | – | wiring: a switch per group and output, a last switch per output | end-to-end queues |
| generator, acceptor | toggles | offer a packet when the bus is free; take it | – |

All registers change together at a rising edge; what is hard is that each part
decides from the toggles its neighbours had *before* the edge, that the arbiter
mode is a wire that may change at any edge, and that a reset may come at any
edge, in the middle of every transfer.

## 2. The modules

SystemC side:

| Module | Models | Notes |
|---|---|---|
| `Channels` | `sc_fifo`, `sc_signal` | operators on one channel: blocking calls, update, the rule that writing an equal value is no change |
| `ArbiterPolicy` | `choose_*`, `update_*`, `init_*` | pure functions of registers and the set of available FIFOs |
| `Arbiter` | `process()`, `pushed_in_fifo()` | one action per interval between two `wait()`s: `Decide`, `AwaitTransfer`, `Transfer`, `PushedInFifo` |
| `ArbiterSystem` | the arbiters under the kernel with any routers | `Update` and `ClockEdge` are the kernel's loop; a router may write into each FIFO at every positive edge, more often than the real one can |
| `Link`, `Generator`, `Router` | the three signals, the two sides of the handshake | one action per interval between two `wait()`s |
| `Noc` | the whole network | composes the above with the kernel; refines `NocService` |
| `NocService` | abstract: one lossless bounded queue per input and output | no clock, handshake or arbiter |
| `TrafficGenerator`, `Traffic` | when packets are emitted and where to | the emission itself is an interval of any length; `Generator` is its detail |
| `Tracer` | extras, callbacks, watcher | with the signal's equality test, on which its defect rests |
| `Lfsr` | `init_rand`, `update_rand`, the byte read by `choose_rand` | signed 32-bit arithmetic as C++ computes it; functions only, and the cycle the register falls into |
| `SimKernel` | `sc_event`, the waits of `sc_thread_process`, the loops of `sc_simcontext` | one action per call of a thread, per thread that `trigger()` visits, and per part of the loops |
| `Kernel` | any program on the kernel | its threads do anything; histories say what the kernel owes them |
| `OperatorProofs`, `ArbiterProofs`, `NocProofs`, `TrafficProofs`, `KernelProofs` | proofs | see section 5; `OperatorProofs` has the lemmas about operators of both sides, `TrafficProofs` is about the generators and the tracer of their packets |

VHDL side:

| Module | Models | Notes |
|---|---|---|
| `HwFifo` | the chain of stages | operators that compute one edge; any number of stages, zero included |
| `HwFifoSystem` | with writer, reader, reset | refines `HwQueue` |
| `HwArbiters` | the arbiters, four and eight ports at once | a one-hot vector is a port |
| `HwSwitch`, `HwSwitchSystem` | a switch; with generators and acceptor | `HwSwitch` has operators only: the registers of a switch give its number of ports and of stages (`nb_ports`, `nb_stages` of the code), so that one module serves switches of several sizes; refines `HwService` |
| `HwRouter` | the router | a packet is a record of bit fields |
| `HwNoc` | routers, first and last switches, wiring | both kinds of switches by the operators of `HwSwitch`; refines `HwService`. The packets of an input are those with its five-bit id (`Id`, `PacketsOf`) |
| `HwQueue`, `HwService` | abstract queue; abstract set of queues | `Sendable` of `HwService` says which packets a port may send to an output: in the network those of that input with that address |
| `HwFifoProofs`, `HwSwitchProofs`, `HwNocProofs` | proofs | see section 5 |

`MCNoc`, `MCHwNoc` and `MCKernel` give TLC the packets, the ids or the threads
of an instance; `MCArbiter` joins the arbiters and their random register.

How state corresponds to code: a variable has the name of the field it models
where TLA+ allows it, or its comment says which (`lru` is `_lru_index`, `pushs`
the first `_in_fifos` entries of `_pushs_in_fifos`, `last` is `_last_used`).
`arbPc`, `rtPc`, `genPc` and `pc` are places where a thread waits, `arbRun`,
`rtRun`, `genRun` and `pushRun` say that the event it waits for has happened and
the thread has not run yet. Variables whose comment says *history* are of the
specification only: nothing of the code depends on them.

In `SimKernel` a thread stands for its `m_timeout_event_p`, too, so that
`dynamic[p]`, for a thread p, is the list of that event. Times are relative to
the current time and need no bound; the run queues are one set, so what holds,
holds for every order of the threads. `m_delta_events` keeps its memory while
the loop of `crunch()` goes over it, because `remove_delta_event()` shrinks the
vector under the loop, which reads on in the old positions. `ArbiterSystem` and
`Noc` do not use this detail: their threads wait for signals and clock edges
only, so the kernel is there the two actions `Update` and `ClockEdge`.

Data are abstracted: a packet is a model value, or an address with a datum; in
the VHDL network it is the bit fields the routers slice. The byte drawn from the
random register is any of `RandomNumbers` in the arbiter (`Lfsr` says which
bytes come), and any port in the hardware.

Definitions marked *Mutant* are plausible mistakes (a dropped guard, a missing
reset, an off-by-one). They are used by no specification: put in the place of
the definition that follows them, each makes a property of a run fail, so every
property is known to depend on the code it is about.

## 3. The runs

Each configuration checks what no other does. `Next` of every specification is
the code's own; only the environment (routers in `ArbiterSystem`, packets,
reader delays, resets, the programs of `Kernel`) is left open.

| Run | Instance | Shows |
|---|---|---|
| `Arbiter` | 1 arbiter, 3 one-place FIFOs, all modes, chosen anew at each decision | `NeverBlocks`, `LruIsPermutation`, `BoundedBypass` (LRU), `RegisterMatchesFifos`, `RegisterFits`, `OldestFirst`, `NoStarvation`, `RoundRobinServes`; with the cycle of the random register, `EveryFifoDrawn` |
| `Noc` | 2x2, one-place FIFOs, 3 kinds of packets | `ImplementsService`, `PacketStable`, `FourPhase`, `HandshakeCompletes`, `FlowDrains` |
| `Traffic` | a stream of period 5; bursts of 14 edges, packets 4 apart, every 18; emissions of 2..8 edges | `NotTooFast`, `NotTooSlow`, `ScheduleKept`, `BurstsRecur`, `LeftInTime` |
| `Kernel` | 2 threads, 2 events, delays 1 and 2, `wait(1)` and `wait(2)`, lists of no event and of both | `EarliestWins`, `WaitsEndInTime`, `TimeoutsOnTime`, `ListsAgree`, `TriggeredOnce` |
| `Tracer` | 2 inputs, contents not repeated while in use | `WatchedIsLive`, `NoExtraLost` |
| `HwFifo` | 3 stages, any writer and reader, resets | `ImplementsQueue`, `LatencyBound`, `WriterNotStuck` |
| `HwSwitch` | 3 ports, modes switched at any edge, resets | `ImplementsService`, `LruIsPermutation`, `RoundBypassBounded` |
| `HwNoc` | 2 groups of 1 input, outputs 0 and 2, one input to both | `ImplementsService`, `InputsServed` |
| `TracerAssert`, `HwSwitchLru`, `TrafficQuota`, `KernelCycles` | see section 4 | a disagreement each |

Why the bounds are enough:

- *Three FIFOs, three ports*: with two, every register order is a swap; three is
  the least number for which an LRU update that forgets to move entries, or a
  round-robin step that skips one, differs from a right one.
- *One-place FIFOs in `Arbiter`*: with deeper ones the arrival register can have
  several entries of one FIFO; that case is left to the theorems, which hold for
  every depth.
- *One-place FIFOs in `Noc`*: the shortest way to back-pressure; routers wait
  for room in most behaviours. Two outputs, since an address must be able to go
  wrong; two packets with the same address, since order must be able to.
- *Emissions up to `MaxStall` = 8 edges*: longer than the short period, the
  stream period, the rest of the burst and of the long period, so every test of
  `generate()` is met late as well as in time; and as the burst lasts 14 edges,
  it has packets left that are overdue when a stalled emission ends, which then
  follow each other faster than the short period. Life times of 0 to 3 include the
  zero that wraps.
- *Two threads and two events in `Kernel`*: one thread is statically sensitive to
  an event, the other is not; a wait can have an event, both or a timeout; two
  timeouts and two events in `m_delta_events` are what it takes to move one
  event into the slot of another. Delays 1 and 2 make a notification earlier,
  later and at the same time as another. The list of no event is there because
  `wait()` takes any list: an AND list without events is never complete, only a
  timeout ends it.
- *Three stages*: a first, a middle and a last one. In `HwSwitch` and `HwNoc`
  the FIFOs have no stage (`nb_stages` zero is the code's own case): chains are
  what `HwFifo` is about, and the switch sees only a bus at their end.
- *`HwNoc`*: competition takes place in the last switch, the router's two
  outputs are both in use. Packets are fixed to their inputs by the id of the
  generator (`PacketsOf`), so that a packet of the wrong flow is seen.
- *`EveryFifoDrawn`* is about the FIFOs that hold packets in a state, and about 1
  to 8 of them whatever the state. `Cycle` is what the register goes through
  after 2^14 steps, and the formula itself says that it does not leave it.

Counters are bounded where they would grow: `length` by `MaxStall`, `age` by
`MaxAge`, `bypass` of `HwSwitchSystem` by `NbPorts`. `MaxAge` = 10 lies above the
2N = 6 of `LatencyBound`, and `NbPorts` above the bound checked.

### Fairness

- SystemC (`ArbiterSystem`, `Noc`, `Traffic`): `WF_vars(Next)` only, that
  is, `sc_start()` keeps executing what is scheduled and the clock, which never
  stops, keeps ticking. No fairness is asked of one thread against another: each
  runnable thread runs once before the update phase, which is a guard of the
  model. In `Traffic` it includes that the router answers within `MaxStall`
  edges, which `HandshakeCompletes` shows of the network.
- `NoStarvation` and `RoundRobinServes` carry their own hypotheses about the
  modes, since FIXED starves by design.
- Hardware: `WF_vars(Tick)` is a running clock; `WF_vars(Tick /\ Read)`, and
  `[]<>(out0_req = out_ack)` in `HwNoc`, is a reader that does not leave a packet
  for ever. `traffic_acceptor.vhd` acknowledges at the next edge. Resets are
  allowed throughout.

## 4. Where code and documents disagree

Shown by a run:

- `TracerAssert`: two packets are equal when address and data are
  (`packet.h:38`), whatever their extra; a signal written with an equal packet
  keeps the old one, whose extra has been freed. The next insertion date goes to
  freed memory and the watcher meets an extra it does not know: the assertion
  `packet_tracer.cpp:281` fails. `Tracer` holds because its generators do not
  repeat a content that is in use; with 32-bit random data a repetition is rare.
- `HwSwitchLru`: `arbiter_lru.vhd:43` tests FIFO k and returns entry k. It can
  choose an empty FIFO, whose toggle then claims a packet that is not there.
  The report describes the choice of the first non-empty entry. `HwSwitch` leaves
  the mode out because `ImplementsService` would fail in it.
- `TrafficQuota`: `architecture.tex:57-60` calls the third parameter of
  `set_burst()` the quantity of packets of a burst. `traffic_generator.cpp:131`
  compares it with the clock count: it is a duration. With a short period of 4
  and a third parameter of 3 a burst has one packet, although the router never
  stalls and there is time for three. What the code does promise is
  `BurstBounded`, which `TrafficProofs` proves.
- `KernelCycles`: the comment at `sc_thread_process.h:367-368` counts the cycles
  of `wait(n)` in events, but one notification can end two of them. If
  `trigger()` cancels, in the loop of `crunch()`, a timeout that stands further
  down in `m_delta_events`, `remove_delta_event()` moves the last event into its
  slot; if that event has been triggered already, the loop triggers it again
  (`sc_simcontext.cpp:580`), and a `wait(2)` ends after one notification.
  `TriggeredOnce` of the run `Kernel` says that this is the only way.

Read in the code, without a run:

- `noc.cpp:46` gives arbiters as many FIFO ports as there are *outputs*, and
  `noc.cpp:86` binds one per *input*: the network is sound only when square.
  `SquareAssumption` of module `Noc` says so.
- `traffic_generator.cpp:81` can draw a life time of zero, which
  `get_address()` counts down to 255: the address lives for 256 packets whatever
  `max_life_time` is. `LeftInTime` shows that this is the worst.
- `sw_8x4` has address_base 36 by default, and `noc.vhd:186` does not override it,
  but `traffic_generator.vhd:43-44` puts the target in bits 38..37 and the id in
  bits 36..32. The routers route by the low bit of the target and the top bit of
  the id: only packets for target 0 from ids below 16 and for target 3 from ids
  16 and above arrive where they are addressed. `HwNoc` takes the address as the
  routers read it (`AddressBase`), so its flows end at the outputs that the
  hardware serves.
- `_lfsr` is signed: once negative, `%` yields -1 and the sum borrows, so it is
  not the linear shift register of `architecture.tex:156`. `EveryFifoDrawn`
  shows that it serves every FIFO all the same.
- A timeout that expires while its thread is disabled takes the thread off all
  lists without marking it ready (`sc_thread_process.cpp:675-681`); after
  `enable()` it waits for ever. Nothing in the repository disables a process.
- `sc_event_queue::cancel_all()` leaves a runnable `fire_event()` behind, which
  then takes a later notification from the queue: the assertion
  `sc_event_queue.cpp:90` fails, or, of two notifications for the current time,
  one has no trigger. Nothing in the repository uses an event queue.
- A round without a packet writes no default value (`arbiter.cpp:208`), against
  `architecture.tex:96-97`.
- Of fixed priorities the simulation prefers the lowest number and the hardware
  the highest.

## 5. Proofs

### 5.1 The arbiters

`ArbiterProofs` proves, of `ArbiterSystem`, for every number of FIFOs (1 to 128),
outputs, places, packets, set of modes and of random bytes:

| Theorem | Statement |
|---|---|
| `TypeCorrect` | `Spec => []TypeOK` |
| `RegisterCorrect` | `Spec => []RegisterMatchesFifos` |
| `RegisterFitsAlways` | `Spec => []RegisterFits` |
| `LruCorrect` | `Spec => []LruIsPermutation` |
| `ReadNeverBlocks` | `Spec => []NeverBlocks` |
| `LruBypassBounded` | `CountedMode = "LRU" => (Spec => []BoundedBypass)` |
| `FifoServesOldest` | `Spec => []OldestFirst` |

Assumptions: `NbFifosAssumption` (1..128, the FIFO numbers pass through a
`char`), `DepthAssumption` (at least one place), `ModesAssumption`,
`RandomAssumption` (bytes), `CountedModeAssumption`.

**The inductive invariant.** `NeverBlocks` is not inductive: the arbiter reads a
FIFO two clock edges after it chose it, so the invariant must say that the
chosen FIFO keeps its packet (`ChoiceWaits`). In FIFO mode the choice comes from
the arrival register, which therefore must agree with the FIFOs
(`RegisterMatchesFifos`); it does at the moment a packet is transferred only
because no arrival is pending while an arbiter runs (`Phases`) and because a FIFO
is written at most once between two updates (`OneWriter`), so that one
notification stands for one packet. In LRU mode the choice exists because the
register is a permutation (`LruIsPermutation`). With the types and the
arithmetic of the FIFO counters (`FifosBalanced`) the seven conjuncts are
inductive. `InitIInv`, one lemma per action (`ComputeIInv`, `RecordArrivalIInv`,
...), `NextIInv` and `Invariance` lay this out.

**The register bound.** `RegisterFits` follows from the invariant without another
step: the register has at most `Depth` entries of each FIFO, and the map from an
entry to its FIFO and the number of earlier entries of that FIFO is injective
(`RegisterLength`).

**The LRU bound.** `BypassInv` adds the place of a FIFO in the register to the
number of times LRU passed over it: the sum never exceeds `NbFifos - 1`. An LRU
decision that passes over FIFO i takes one that stands before it, whose transfer
moves it behind i; a transfer by any other mode can only move i forward; and
whoever fills the FIFOs has no say. Hence the bound holds whatever the other
modes do in between.

**The oldest arrival.** The register says nothing of time, so `OldestFirst` needs
a witness: there is a way to assign to each entry of the register the batch of
arrivals (one clock edge) it came in, never decreasing along the register, so
that each FIFO of each batch has exactly one entry, except for the notified
arrivals of the youngest batch that no thread has recorded yet (`Lists`). One
lemma for each operation on the register shows that the assignment survives:
`ListsAppend` (an arrival is recorded), `ListsBatch` (a new edge), `ListsServe`
(any mode takes the first entry of any FIFO out of the middle).

`OperatorProofs` has the facts about `choose_*` and `update_*` (a choice is
available, `UpdateLru` preserves permutations, `UpdateFifo` removes exactly one
entry, a register with at most d entries of each FIFO is at most `NbFifos * d`
long), those about `sc_fifo` (write, read and update preserve the balance of the
counters), and those about chains of register stages on which section 5.5 rests.

### 5.2 The network

`NocProofs` proves, of `Noc`, for every number of inputs, depth, set of modes and
of packets:

| Theorem | Statement |
|---|---|
| `NocTypeCorrect` | `Spec => []TypeOK` |
| `PacketStableCorrect` | `Spec => []PacketStable` |
| `FourPhaseCorrect` | `Spec => FourPhase` |
| `NetworkServes` | `Spec => ImplementsService`: `Noc` refines `NocService` |

Assumptions: those of the arbiters, `SquareAssumption` (see section 4) and
`AddressAssumption` (packets are addressed to outputs).

**The handshake.** The invariant lists the 14 places in which a generator, its
router and their two wires can be together (`Handshake`), with the pending
wake-ups; each step of either thread and each update leads from one place to
the next. It is what makes `FourPhase` hold, and it is why the packet keeps
(`Held`): a generator writes the packet only while its router is idle, and the
value is updated, one delta later, before the router can see the request.

**The refinement.** A flow is the buffer of one FIFO followed by the packet on
the wire, as long as the router has not stored it. `Offer` is `Accept` of the
service: the wire of a packet was free, which the handshake says. `Transfer` is
`Deliver`, and never blocks in `read()`. The router's `Store` appends to the
buffer what it takes off the wire: the flow stays as it was (`RouterServes`).
Every other step leaves flows and outputs alone. For this the arbiter must only
choose among the FIFOs (`ChoiceIsFifo`) and the counters must balance
(`FifosBalanced`): `HasRoom` is then what keeps the ring buffer from dropping.

### 5.3 The generators

`TrafficProofs` proves, of `Traffic`, for every period, burst length, range of
addresses, life time and length of an emission:

| Theorem | Statement |
|---|---|
| `NotTooSlowCorrect` | `Spec => []NotTooSlow` |
| `NotTooFastCorrect` | `Spec => NotTooFast` |
| `ScheduleCorrect` | `Spec => ScheduleKept` |
| `BurstBoundedCorrect` | `Spec => []BurstBounded` |
| `LifeTimeCorrect` | `Spec => []LeftInTime` |

Assumptions: `PeriodsAssumption`, `MaxStallAssumption`,
`RangeAssumption`, `LifeTimeAssumption`.

The invariant relates the code's count to the edges that have really passed
since the last reset (`CountFollows`): with the tick `clock_counter()` has not
yet seen, the count is right or one too many, according to which of the two
threads ran first at the edge of the reset.

`ScheduleKept` compares each decision of `generate()` with the schedule of the
burst, packet n at n short periods from its start: no packet is ahead of it, and
`generate()` does not rest while one is overdue. It does *not* say that packets
keep a distance: after a stall of the router the overdue ones follow each other
as fast as the handshake allows. `QuotientBound` and `QuotientBelow` turn the
quotient `generate()` compares with into a product, from either side.
`BurstBounded` says what stands in the code in place of the quota of section 4:
a burst of n packets needs a third parameter above (n - 1) short periods. No run
has it, for it says what the code does and the report does not.

### 5.4 The tracer

`TrafficProofs` also proves, of `Tracer` (whose specification is `TracerSpec`), for every number of inputs, places, contents
and addresses, from the one assumption `Fresh` that no content is used again
while a signal or a FIFO has it:

| Theorem | Statement |
|---|---|
| `WatcherCorrect` | `TracerSpec => []WatchedIsLive`: the assertions of the watcher hold |
| `ExtrasCorrect` | `TracerSpec => []NoExtraLost` |

Without `Fresh` the first is false: `TracerAssert` of section 4 is the
counterexample, so the assumption is not for convenience. The invariant numbers
the packets of an input from the head of the FIFO to the wire (`At`) and says
that no two of them, nor one of them and the packet at the output, share a
content or an extra (`Alone`), that the live extras are theirs (`Lives`), and
that those in a FIFO are dated (`Dated`). `Insert` then changes no number, and
`Deliver` takes the first packet and moves the others up by one. It is `Alone`
that makes the watcher run after each delivery, and keeps the extra it frees
from belonging to a packet still on its way.

### 5.5 The hardware

| Theorem | Statement |
|---|---|
| `FifoTypeCorrect` | `HwFifoSystem`: `Spec => []TypeOK` |
| `LatencyCorrect` | `Spec => []LatencyBound` |
| `ImplementsQueueCorrect` | `Spec => ImplementsQueue`: a chain refines `HwQueue` |
| `SwitchTypeCorrect` | `HwSwitchSystem`: `Spec => []TypeOK` |
| `SwitchLruCorrect` | `Spec => []LruIsPermutation` |
| `RoundBypassCorrect` | `Spec => []RoundBypassBounded` |
| `ServiceCorrect` | `"lru" \notin UsedModes` implies `Spec => ImplementsService`: a switch refines `HwService` |
| `HwNetworkServes` | `HwNoc`: `"lru" \notin UsedModes` implies `Spec => ImplementsService`: the network refines `HwService` |

All hold for every number of stages, zero included, and of ports, with modes and
resets at any edge, and the last one for every number of outputs, of groups and
of inputs per group, as long as five-bit ids tell the inputs apart
(`IdAssumption`): up to 32 inputs, all of which send, as in `noc.vhd`.
Assumptions: `StagesAssumption`, `NbPortsAssumption`,
`SizesAssumption` (the same for the two sizes of `HwNoc`), `UsedModesAssumption`,
`NoPacketAssumption` (the value of an unwritten register is no packet),
`AddressAssumption` (every packet is addressed to an output), `IdAssumption`, `MaxAgeAssumption`.

**The chain** (`OperatorProofs`). A chain has a packet on each full bus, and the
number of packets behind a bus, `Count`, says the place of its packet in the
queue (`BusIs`). `TickFollows` says what an edge does to the set of full buses
and `Flow` that it takes from the packets behind a bus exactly the one that
passes it and adds the one that is written; it is proved by a minimal
counterexample, since induction is not available. Hence each packet that stays
keeps its place in the order (`TickMoves`), and the whole edge is one of four
steps of a queue, according to the ends that toggle (`ChainQueue`). That a
packet is written only if the queue was not full follows from its bus being
free: the packets are on the other `Stages` buses.

**The latency.** The invariant, for each full bus k: the age of the youngest
packet plus twice the number of packets behind bus k is at most `Stages + k`
(`Ages`), that is, packets advance at one per two edges however they were
spread.

**The registers of the arbiters.** The number of times a waiting port was passed
over plus its distance from `first` stays below `NbPorts` (`BypassLeft`): a grant
that passes over a port moves `first` nearer to it by at least one
(`DistanceShrinks`). That `lru` stays a permutation is invariant as "every port
occurs in it" (`KeepsPorts`), from which a finite function is injective.

**The switch.** All ports change at one edge: each by `ChainQueue`, with a read
exactly at the port that is granted (`PortStep`). That this port has a packet
(`ChoiceIs`) holds of all arbiters but `arbiter_lru`, which is why the
theorem excludes its mode (section 4); that the word is not overwritten follows
from the toggles of the output bus (`SwitchOutput`). `SwitchPort`, `SwitchOutput`
and `SwitchAck` of `OperatorProofs` say this of the operators of `HwSwitch`,
whoever is around the switch, so that the network can use them twice.

**The network.** The queue from input x to output j is in three parts: the
packet x waits with (`Waits`), what the FIFO of x in the switch of its group has
(`Queued`), and those packets of x that its group's FIFO in the last switch has
(`Only(Merged, PacketsOf(x))`). An edge can move a packet between each two of
them, take one off the end and add one, all at once, and the theorem is that the
concatenation does what one queue does (`FlowStep`).

`ImplementsService` says nothing of the parts, so it needs an invariant that
does. `Handshake` says that at most one of the requests a router drives is
unanswered, the one its packet is addressed to, and only while its input waits:
the router acknowledges with the *parity* of all answers, which tells whether
that one has come only because no other can be open (`ParityTurns`, `InAckLow`).
Without it a packet could be counted as waiting and as queued, or as neither.
`Origins` says that each FIFO holds packets of the inputs before it only; hence
the part of `Merged` that an input owns is changed by nobody else's packets
(`OnlyStep`), and the three parts are sequences of that input's packets. With
the types these are inductive (`TickInvariant`), as TLC confirmed for the run's
instance and for one group of two inputs with FIFOs of one stage.

The steps between the parts are each a step of a queue: `QueuedStep` (a first
switch takes from the router, and gives to the last switch), `MergedStep` (the
last switch takes and shows). A packet goes from `Waits` to `Queued` at the edge
at which the router toggles its request, before the FIFO takes it: the bus of
the request is the first place of the FIFO. `EntryStep` treats `Queued \o Waits`
as one. `OnlyAppend` and `OnlyTail` say what filtering does to the two ends of a
sequence, and `Regroup` puts the parts together. As in the switch, `lru` has to
be excluded: it may claim a packet from an empty FIFO.

### 5.6 The kernel

`KernelProofs` proves, of `Kernel`, for all threads, events, sensitivities
and delays, all finite lists of events, and programs that do anything a thread
can do:

| Theorem | Statement |
|---|---|
| `KernelTypeCorrect` | `Spec => []TypeOK` |
| `EarliestWinsCorrect` | `Spec => []EarliestWins` |
| `WaitsInTimeCorrect` | `Spec => []WaitsEndInTime` |
| `TimeoutsCorrect` | `Spec => []TimeoutsOnTime` |
| `ListsAgreeCorrect` | `Spec => []ListsAgree` |
| `TriggeredOnceCorrect` | `Spec => TriggeredOnce` |

Assumptions: `NamesAssumption` (threads and events are different things, and
neither is one of the two that stand for nothing), `StaticAssumption`,
`DelaysAssumption` (zero is `wait(0)`, which the model has anyway),
`EventListsAssumption` (an event list is a finite set of events of the program:
a counter counts them).

**The inductive invariant.** What a thread waits for is in `goal`, a history
that knows of the notifications as they happen; what the kernel knows is in
`m_trigger_type`, the lists, the counter and the timeout event, and it learns
of a notification one thread at a time, as `trigger()` visits the list of the
event. Between the two the goal has seen the event that is `firing` and the
kernel has not, for the threads in `examined` that are still to be visited.
For `wait(n)` the goal counts two things: the notifications that are `missing`,
and the `repeats`, triggers of its event that no notification asked for; the
kernel's counter knows only their difference. `WaitsEndInTime` is thus no
stronger than the code: a wait that met no repeat ends with its n-th
notification, and one that met a repeat, of which `KernelCycles` is an example,
ends earlier by it. `AwaitsCycles` and `AwaitsEvents` say what the kernel has
not yet learnt: its counter is one behind for an examined thread, and the events seen are those whose list the
thread has left, plus the firing one if it is still in that list. `InLists`
adds that a thread is in the list of its own timeout event exactly while it
waits with a timeout, and in no other thread's; `Timeout` that the timeout is
notified just as long, for the time that is left.

Two facts about the loops carry this through. First, `trigger()` visits every
thread in the list of the firing event, and no thread is taken off a list it is
about to be visited in but by its own visit (`Triggering`); hence whoever is in
that list waits, and the branch of `trigger_dynamic()` that finds a thread with
nothing to wait for is not taken. Second, a timeout is only triggered for a
thread that awaits it, although a thread that an event wakes cancels its
timeout *during* the loop over `m_delta_events`, which shrinks the vector under
the loop (`Vector`). Outside the loop the vector holds each event with a delta
notification once (`Listed`). Inside, each such event is in a slot still to
come, and what else is in the old positions is `Spent` (`InLoop`): an event no
thread waits for dynamically any longer, or the timeout of a thread that waits
no longer. Triggering it again ends no wait for events and no timeout: all it
can do is to count for a `wait(n)`. This is the defect of section 4 seen from
inside, and the reason why it can shorten a `wait(n)` and nothing else.

`TriggeredOnce` follows: as long as the vector has not shrunk, its events are
distinct and those to come have their notifications, so the event the loop
triggers next is one that was asked for.

### 5.7 Only model-checked

- Liveness, which is out of the provers' reach: `NoStarvation`,
  `RoundRobinServes`, `HandshakeCompletes`, `FlowDrains`, `BurstsRecur`,
  `WriterNotStuck`, `InputsServed`.
- `EveryFifoDrawn`: TLC computes the cycle of the random register.
- What `arbiter_lru` does to a switch or a network: the refinement is false in
  that mode (`HwSwitchLru`).

## 6. Not modelled

- The rest of the SystemC library, which is nine tenths of the lines of the
  repository: data types and fixed-point arithmetic, TLM, waveform tracing,
  coroutines, elaboration. It is vendored third-party code without a part in the
  behaviour of the network, and most of it computes without state. This is why
  the definitions stand for a small share of all lines.
- Of the kernel: methods (`next_trigger()` repeats the code of `wait()`),
  `disable()`, `kill()` and `reset()`, `sc_pause()`, `sc_stop()`; event queues,
  mutexes and semaphores.
- `set_offset()`, `set_period()` while the simulation runs, `set_marker_callback()`,
  destructors, printing, waveforms, the tracer's histograms: called once before or
  after the simulation, or output only.
- The allocation and binding loops of `noc::noc()`: their result is the structure
  of `Noc`.
- `sw_3x1.vhd`, `mux_3x1.vhd`: instantiated nowhere. `arbiters.vhd`: declarations.
- Test benches and `src/src/test/{arbiter,router,traffic}.cpp`: stimuli that the
  open environments of the models contain.
- `src/scripts`: measurements and plots.
- The shift register of `arbiter_rand.vhd` (any port), `cycles_per_msg` and the
  packet counter of `traffic_generator.vhd` (any pause, any payload).

## 7. Plan

Done: arbiters, network, generators, tracer, kernel, hardware FIFO, switch and
network, checked; the safety of the arbiters, of the network with its
refinement, of the generators, of the tracer, of the hardware FIFO, switch and
network with their refinements, and of the kernel, proved.

Left, in the order of what it would add:

1. `disable()`, `enable()` and methods in `SimKernel`; event queues and semaphores
   on top of it.
2. `set_period()` and `set_offset()` during the simulation; the hardware random
   register and generator (`cycles_per_msg`).
