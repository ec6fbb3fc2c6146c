# Verification of the CMSC411 simulators

The repository holds three independent, sequential C++ simulators. Each one
models hardware that is concurrent, and that is where they can go wrong: the
order in which a cycle's events are applied decides whether the simulated
machine works.

* **Project3** simulates snooping cache coherence (MI, MSI, MESI, MOSI, MOESI)
  on an atomic bus.
* **Project2** simulates Tomasulo scheduling: reservation stations, register
  renaming, out-of-order completion.
* **Project1** simulates branch predictors: bimodal, gshare, local history,
  two-level adaptive.

All three are modelled, model-checked and proved about.
They share no code and no state, so their models are three separate families
of modules.

## Inventory

### Project3: the coherence simulator

| part | state it keeps | operations | modelled in |
|---|---|---|---|
| `protocols/*_protocol.cpp` | the state of one line in one cache | `do_cache_X` (LOAD, STORE from the processor), `do_snoop_X` (GETS, GETM, DATA from the bus) | `MI_protocol` ... `MOESI_protocol` |
| `protocols/protocol.cpp` | - | `send_GETS`, `send_GETM`, `send_DATA_on_bus`, `send_DATA_to_proc`, `set_shared_line`, `get_shared_line` | `Protocol` (what is called), `Hash_table!Perform` (what it does) |
| `sim/bus.cpp` | `current_request`, `pending_requests`, `data_reply`, `request_in_progress`, `shared_line` | `tick`, `bus_request`, `bus_snoop` | `Bus` |
| `sim/memory.cpp` | the lookup in progress and its time | `tick` | `Memory_controller` |
| `sim/hash_table.cpp` | the entries, `proc_request` | `tick`, `write_to_bus`, `write_to_proc` | `Hash_table` |
| `sim/processor.cpp` | `infile`, `end_of_trace`, `outstanding_request`, `inbound_request`, `inbound_request_buf` | `tick`, `tock`, `done` | `Processor` |
| `sim/sim.cpp`, `node.cpp` | the clock | `run` | `Simulator` |

How they interact. In each cycle `Simulator::run` ticks the bus, which puts at
most one message where every module can see it; then every cache, in order of
its node, which serves its processor's access first and the message on the bus
second; then every processor; then memory; and last it moves what the caches
sent to the processors on. Everything a protocol does goes through the helpers
of `Protocol`: a request goes to the back of the bus's queue, DATA to its one
reply slot, DATA for the processor to the processor's one buffer, and the shared
line is a wired-or.

What is hard. The loop is deterministic for given traces, but the traces decide
which requests overlap, and a request that waits in the queue is answered in a
world that others have changed since it was sent. A line in a transient state
(`IM`, `IS`, `ISE`, `SM`, `OM`) snoops other caches' requests before its own is
broadcast. Memory's lookup races the owner's DATA. One shared line serves all
transactions. One reply slot and one processor buffer must never be filled
twice. Memory is never told of stores, so an owner must not fall silent.

What makes it correct:

* protocols: at most one cache may write a line and then no other may read it;
  a store completes in M, a load with a copy; every handler's `fatal_error` is
  unreachable; a waiting line has exactly one request on its way;
* bus and memory: every request gets exactly one DATA, memory answers only for
  unowned lines, requests are served in order and none starves; the shared line
  tells of the line that is being served;
* processor: one access outstanding, each one completed, and nothing waited for
  that was not asked for.

### Project2: the Tomasulo scheduler

| part | state it keeps | operations | modelled in |
|---|---|---|---|
| `RAT` | register to station | `set_reg`, `get_reg` | `Scheduler!rat` |
| `REST` | reservation stations, one table for all units (`-u`) or one for each (`-a`, `-d`, `-m`) | `add_entry`, `complete_insts`, `update_sources`, `fire_ready` | `AddEntry`, `Refuse`, `ClearCompleted`, `StartReady` |
| `scheduler_*` | clock, statistics | `try_issue`, `step` (`clear_completed`, then `start_ready`), `completed`, `complete` | `TryIssue`, `ClearCompleted`, `StartReady`, `Drain`, `Complete` |
| `schedulersim_driver.cpp` | the trace | the loops that issue, retry and drain | `ReadTrace`, `EndOfTrace`, and the control of the above |

The driver offers one instruction to `scheduler_try_issue` and then calls
`scheduler_step`, again and again until the instruction has been taken; after
the trace it steps until the tables are empty. A station's number is the tag
under which its result is broadcast.

What is hard. Tags are reused: a station that has completed names another
instruction in the next cycle. Completion, wake-up and firing happen in one
cycle, in an order that only the code's call sequence fixes. `complete_insts`
clears an alias without looking at whose it is. Lower-numbered stations fire
first. An instruction completes only in the one cycle in which its time is
exactly up.

What makes it correct: an alias names the live station of the register's last
writer; an operand waits for the instruction that precedes it in program order
and writes its register, and is marked ready no earlier than that completes; a
functional unit is a pipeline; each cycle is charged once; the run ends.

### Project1: the branch predictors

| part | state it keeps | operations | modelled in |
|---|---|---|---|
| `branchsim.cpp` | counters `pht`, `ghr`, `hist_table`, statistics | `setup_predictor`, `get_index`, `predict_branch`, `update_predictor`, `complete_predictor` | `Init`, `get_index`, `Predict`, `Update`, `Complete` of `BranchSim` |
| `branchsim_driver.cpp` | the position in the trace | the loop over `fscanf` | `ReadBranch`, `ReadUnreadable`, `EndOfTrace` |

What is hard. The index of a counter is computed once to predict and again to
train, from histories that are shifted in between calls; index arithmetic must
keep apart what the predictor's definition keeps apart; counters saturate; and
the loop asks for the end of the input only.

What makes it correct: every counter is what replaying the branches that share
it defines; two branches share one exactly if the predictor says so; the
statistics are those of predicting each branch from what came before it.

## Modules

Project3:

| module | what it is |
|---|---|
| `Protocol` | the vocabulary of the handlers: an `Outcome` is the state a handler leaves the line in and the set of helpers it calls |
| `MI_protocol`, `MSI_protocol`, `MESI_protocol`, `MOSI_protocol`, `MOESI_protocol` | one operator per handler, a function of state and message to an outcome |
| `SimTypes` | constants, their assumptions, message types |
| `Bus`, `Memory_controller`, `Processor`, `Hash_table` | one module per class: its fields as variables, its initial state, its tick |
| `Simulator` | composes them: the loop with its program counter `phase`, `turn`; `Spec`, and `FairSpec` with fairness |
| `CoherentMemory` | the abstract specification: permissions and accesses only |
| `Coherence` | the properties, and the refinement mapping to `CoherentMemory` |
| `CoherenceInv` | the inductive invariants, in named parts |
| `SimulatorProofs`, `CoherenceProofs`, `RequestProofs`, `RefinementProofs` | the proofs, each extending the one before it |

Project2:

| module | what it is |
|---|---|
| `Scheduler` | tables, alias table, clock, statistics and driver |
| `SchedulerHistory` | the same with two history variables, the program order the code forgets when it renames; the properties; the mapping to `Dataflow` |
| `Dataflow` | the abstract specification: a window of instructions, each of which starts after its producers have completed |
| `SchedulerInv` | the inductive invariants |
| `MCScheduler` | the instruction sets of the runs |
| `SchedulerProofs`, `DataflowProofs` | the proofs |

Project1:

| module | what it is |
|---|---|
| `Bits` | `&` and `^` on unsigned integers, from the bits of their arguments |
| `BranchSim` | the code: set-up, index, prediction, training, completion, and the driver |
| `BranchHistory` | the same with the trace as a history variable; the predictors as functions of that trace alone; the properties |
| `BranchInv` | the inductive invariant |
| `MCBranch` | the traces of the runs |
| `BitsProofs`, `BranchProofs` | the proofs |

Variables have the names of the fields.

In Project3 `state[i][a]` is the state of line `a` in cache `i`, `"I"` also
while there is no entry (an entry is created in I and never evicted). Each
action is one call of a tick, except that `Hash_table::tick` is two actions, its
processor half and its bus half, in that order and with nothing between them;
each contains a whole protocol handler and all it calls. `phase` and `turn` are
the position in the loop. A failed assertion and a `fatal_error` both end the
process: `phase = "aborted"`.

In Project2 an action is one call that the driver or `scheduler_step` makes:
`TryIssue`, then `ClearCompleted` (the clock, completion of every table and the
broadcast to every table), then `StartReady`. `pc` is the driver's position. In
Project1 `Predict` and `Update` are the two calls per branch.

Abstractions. The traces of all three are nondeterministic: any access, any
instruction of a set, any branch of a set, or the end. Project3: memory and
caches carry no contents, for the code's have none; `data_time` counts down the
cycles left instead of being compared with the clock; DATA for a processor is
represented by its address; a message's unused fields, statistics and debugging
output are left out. The pointer `Hash_table::proc_request`, unset by its
constructor, is taken to be null at the start, for any other value would be
dereferenced; `outstanding_request` is not: `UninitOutstanding` says what it may
hold. Project2: the instructions per cycle, a quotient computed at the end, is
left out. Project1: the misprediction rate is its numerator and denominator;
history registers have `register_bits` bits instead of 64, wider than the part
that is used.

## Runs

| run | instance | shows |
|---|---|---|
| `coherent3` | 3 caches, 1 line, MI MSI MESI MOSI, fair | the safety, action and liveness properties of `Coherence` but `SharedLineMeansShared` and `TraceIsRead`, which have runs of their own, `WaitIsBounded` among them, the refinement of `CoherentMemory`, and `IInv` and `MemoryInv` |
| `two_lines2` | 2 caches, 2 lines, the same | `SharedLineMeansShared` |
| `moesi2` | 2 caches, 1 line, MOESI, fair | with two caches MOESI keeps `IInv`, of which `SingleWriter` and the absence of aborts are parts, is live and waits no longer than `WaitIsBounded` allows, loses no request, conserves ownership and implements `CoherentMemory` |
| `moesi3_writer` | 3 caches, 1 line, MOESI | violates `SingleWriter` |
| `moesi_shared` | 2 caches, 2 lines, MOESI | violates `SharedLineMeansShared` |
| `uninit` | 2 caches, MI, `outstanding_request` unset | violates `TraceIsRead` |
| `sched_units` | stations 2 ADD, 1 DIV, 2 MEM; 2 registers; 10 instructions, one of an unknown operation | tags, operands, pipelines, cycles, `NeverIdle`, `RunTimeIsBounded` and `RunEndsUnlessNoUnit` |
| `sched_unified` | 3 stations for all units, the same | the same of tags, operands, pipelines, `NeverIdle`, run time and the end for one table that all units compete for |
| `sched_dataflow` | 4 registers, 8 instructions, traces without overlapping writers | `ImplementsDataflow` |
| `sched_rename` | one station for each unit | violates `MarkedSourcesAreReady` |
| `branch_replay` | all four predictors, 4 entries, 2-bit counters, 2-bit histories, unreadable lines | tables, indices and statistics agree with the trace; `RunEndsUnlessUnreadable` |
| `branch_counter` | 3-bit counters | violates `CountersFitTheirBits` |

Bounds, all of them constants, nothing else is cut off:

* `num_nodes`: three caches are a reader, a writer and a bystander, all that a
  handler can tell apart (requester, owner, other), and three requests queued at
  once. Two are enough when the question is about two lines.
* `Lines`: lines interact only through the queue, the shared line and the one
  outstanding access of a processor, so one suffices but for
  `SharedLineMeansShared`, which needs two.
* `hit_time` is 5 instead of 100. It must be long enough for other processors to
  read, hit and issue while memory is looking up. Nothing depends on it
  otherwise: the only comparison with it is whether it has passed.
* The bus's queue needs no bound: a processor has one access outstanding.
* `MaxInsts` instructions are read, 4 (6 for the refinement): an alias that is
  superseded takes two writers and a reader, a tag that is reused one more.
  `MaxCycle` stops the clock of runs that do not end. It does not end any that
  would: `RunTimeIsBounded` says that those are over by cycle 21, and `MaxCycle`
  is 26. Latencies are 2, 3 and 4 instead of 2, 15 and 20: each differs from the
  others and is long enough for every station to be waiting on it.
* `MaxBranches` is 5 (6 for three-bit counters): enough to fill and shift a
  two-bit history and to saturate a two-bit counter in both directions.
  Addresses are two that share a table entry and one that does not.
* Integers are unbounded in the models. The parameters of Project1 are those for
  which this makes no difference, and TLC checks that the runs' are:
  `WidthAssumption` keeps `1 << history_bits` and the products in `pht_size`
  (`branchsim.cpp:39`, `66`, `80`, `93`, `163`) within `int`, and
  `BranchSimAssumption` allows counters of one to five bits, because with six the
  shift in the limit of a counter (`branchsim.cpp:244`) is undefined.

Fairness is `WF` of the whole next-state relation, in each of the three: a
sequential program that waits for nothing keeps running. It asks nothing of
which node is served, what is ready first or what the traces hold. In Project3
a processor whose trace never ends is a behaviour of the model, so what is
checked is that each access completes. Project2
and Project1 have finite traces (the bounds above), and there the end of the
run is checked itself. Their runs may stop, and say `CHECK_DEADLOCK FALSE`; the
liveness properties say where.

All runs of Project3 but `uninit` assume that `outstanding_request` is false at
the start. In `uninit` it may be anything, and a processor that finds it true
does not even read the first line of its trace (`TraceIsRead`).

## What the violations say

* **MOESI, three caches.** An owner in `O` stores and waits in `OM`. If another
  cache's GETS is ahead of its GETM in the queue, `do_snoop_OM`
  (`MOESI_protocol.cpp:410`) completes the store and goes to `M` at once, beside
  the copies in `S` of other caches (`moesi3_writer`). It does not answer the
  reader, which memory then does. Its own GETM is still queued, and the line it
  is answered for may by then be held again, where the handlers of DATA are
  `fatal_error`. MOSI's handler (`MOSI_protocol.cpp:354`) answers the reader and
  stays in `OM`, and is clean. With two caches the trouble needs the other cache
  to send a GETS while it holds the copy that made the owner's line `O`, which
  it has no reason to: `moesi2` passes, and `PairInv` is the proof that it never
  happens.
* **MOESI, two lines.** A read hit in `S` drives the shared line
  (`MOESI_protocol.cpp:94`) while a transaction for another line may be waiting
  for memory. The reader of that line becomes `S` instead of `E`. This costs an
  upgrade, not coherence.
* **Processor.** `outstanding_request` is not set by the constructor
  (`processor.cpp:13`); if it holds true, the processor never reads its trace.
* **Scheduler.** `complete_insts` (`schedulersim.cpp:205`) resets the alias of
  its destination even if a younger instruction has renamed the register. A
  later reader of the register then does not wait. `ReadyMeansProduced` says
  exactly how far this goes, and is proved: only behind two writers of one
  register that are in flight together. Without those the scheduler implements
  dataflow order (`SchedulerImplementsDataflow`).
* **Branch predictors.** The limit of a counter (`branchsim.cpp:244`) is
  2^(2^(bits-1)) - 1: right for one and two bits, 15 for three.

Noted on the way and not checked by a run: the history table of the two-level
adaptive predictor is not freed (`branchsim.cpp:280`).

## Proofs

### Coherence

`SimulatorProofs!TypeCorrect`: `Spec => []TypeOK` for every number of nodes, set
of lines, `hit_time` and set of the five protocols. `TypeOK` is inductive. The
proof has one step per action; the handlers enter it through two lemmas over all
five protocols, `AccessOutcomes` and `SnoopOutcomes`, and `PerformTyped` says
that the helpers preserve types.

The rest is about the protocols of `Sound`: MI, MSI, MESI and MOSI (`Clean`) for
every number of nodes, and MOESI too if there are at most two. Each theorem
assumes `Protocols \subseteq Sound` and the named assumptions of `SimTypes`, and
holds for every set of lines and latency. With a third cache MOESI violates what
is proved (`moesi3_writer`). Only `SharedLineMeansSharedHolds` assumes
`Protocols \subseteq Clean`, because MOESI violates it with two caches
(`moesi_shared`).

1. `CoherenceProofs` begins with what the handlers of these protocols have in
   common, as three contracts: `AccessContract` (an access at a line at rest
   hits, or queues one request and makes the line wait), `RequestContract` (the
   owner and only the owner answers, nobody gains anything, a waiting line goes
   on waiting for the same thing, and no copy survives another cache's GETM) and
   `FillContract` (DATA gives a waiting line what it waited for). MOESI keeps the
   second one except where a GETS meets a line in `O`, which does not drive the
   shared line, or in `OM` (`PastOwner`).
   `AccessHandlers`, `RequestHandlers` and `FillHandlers` prove them by cases on
   protocol, state and message. The rest of the proof knows the protocols by
   their contracts only.
2. `InvariantHolds`: `Spec => []IInv`. `SingleWriter` alone is not inductive:
   whether the DATA that arrives may make a line `M` depends on what the other
   caches did when the request was on the bus, many cycles ago. `IInv`
   (`CoherenceInv`) therefore says where every request is - with the processor
   (`ProcessorInv`), in the queue (`QueueInv`), on the bus, at memory or in the
   reply slot (`BusInv`, `TransactionInv`), at most one per node and one
   transaction at a time - and that the caches that have dealt with the
   transaction's request (`Served`) hold nothing its waiter's DATA will exclude
   (`CoherenceInvariant`). One lemma per action: `TickBusKeeps`,
   `CacheServeKeeps`, `SnoopRequestKeeps`, `SnoopDataKeeps`, `TickMemoryKeeps`
   and so on; those that touch neither bus nor lines share `QuietStep`.
   The last part of `IInv`, `PairInv`, is what excludes `PastOwner` when MOESI has
   two caches. A cache that finds its line in `O` or `OM` knows where the other
   one is: not in `I`, and not about to read, unless it has already snooped the
   message that let the other get there, whose transaction is still under way.
   `NeverPastOwner` draws from it that the bus never brings a GETS to an owner in
   `O` or `OM`; `OwnerAccess` and `OwnerRequest` say how a line comes to be owned,
   `JustServed` and `ReadingGoesOn` that the excuse lasts until the DATA is there,
   and `PairStep` that every step keeps `PairInv`. It uses that there is no third
   cache in one place, `TwoNodes`: who sent a request that one cache snoops, and
   is not that cache, is the other one.
3. From `IInv`: `SingleWriterHolds`; `NeverAbortsHolds`, because `IInv` excludes
   the phase a failed handler or assertion leads to, so that the lemmas of 2
   have to show that no step gets there.
4. `MemoryInvHolds`, and from it `MemoryAnswersUnownedHolds`: while a request
   is on the bus unanswered, the caches that have snooped it do not own the line,
   and while memory looks the line up no cache does. `MemoryInv` is inductive
   relative to `IInv`.
5. `RequestProofs`: `TransactionGoesOn` says that no step but the receiver's own
   tick ends a transaction, and `QueuedGoesOn` that a request leaves the queue by
   being broadcast only. With `WaiterInv` (a waiting line has a request) this
   gives `EveryWaiterHasOneRequestHolds`; that there is no second request is
   `QueueInv`. `SharedInv` (the shared line is set for a reader only if another
   cache has a copy) is inductive relative to both, because a new transaction
   starts with the line clear, and gives `SharedLineMeansSharedHolds`.
   `OwnershipConservedHolds` follows a modified line: an owner keeps it
   (`OwnerHandsOver`) or has sent it to a writer, and what is sent to a writer
   arrives (`DataForWriterKept`).
6. `RequestProofs`, last section: `WaitIsBoundedHolds`, that no node starves.
   `CyclesLeft` counts the cycles a waiting node has left at most: one turn of the
   bus (`Service`, `hit_time + 2` cycles) for each place in the queue up to its
   own, plus what the transaction in progress still takes (`DataLeft`). It never
   grows, and a `tock` takes one off. `QueueIsShort` (a queue of distinct nodes,
   none of them the one in progress: injections into `Nodes`) bounds it by one turn
   for each node, which is also what a node is charged whose access is not queued
   yet, so that `NoLaterOnceServed` holds wherever it is appended. In the bus's
   tick the place in the queue is exchanged for the transaction
   (`PlacesMoveUp`, `NoLaterByBusTick`); memory's lookup and a cache's answer only
   shorten what is left (`DataComesNoLater`). `CycleInv`, inductive relative to
   `IInv`, says that a lookup which is not answered has time left at the `tock`, so
   that the clock does take one off (`CycleEndsNearer`), and that an access waits
   in front of the cache for one cycle at most. `WaiterInv` is needed where nothing
   is in progress: a waiting line is then in the queue.
7. `RefinementProofs`: `AccessInv` ties the access a line waits for to the
   access its processor is on. `StepKinds` sorts the steps into those that handle
   a message for one line, the processors' and the rest;
   `CompletesWithPermissionHolds` and `SimulatorImplementsCoherentMemory` follow
   by cases. A handler that answers the processor is `Complete`, any other one
   `Repermit`, a fetch `Issue`, all else a stutter; that the new permissions are
   coherent is `SingleWriter` after the step.

### Scheduler

1. `SchedulerProofs`: `TypeCorrect` for every size of tables, number of
   registers, latency and set of instructions; then `InvHolds`, that `IInv` of
   `SchedulerInv` is inductive. What is checked (`AliasIsYoungest`,
   `SourceIsProducer`, `ReadyMeansProduced`) is not: one needs that instructions
   in flight have distinct numbers (`Numbered`), that `writer` is the last of
   each register (`WriterIsLast`), that overlapping writers are known to be so
   (`OverlapsRecorded`), and that a last writer without an overlap is still the
   alias (`YoungestIsAliased`), which is what `complete_insts` breaks otherwise.
2. `DataflowProofs`: on `SeparateSpec`, whose traces do not write a register
   while one of its writers is in flight, nothing overlaps (`NoOverlap`), so
   `SeparateWritersReady`: what the violated run `sched_rename` refutes in
   general holds there. `SchedulerImplementsDataflow` is the step simulation:
   issue, completion and firing are `Issue`, `Finish` and `Start` of `Dataflow`.
3. `PipelinesHold` and `CyclesHold`, also in `DataflowProofs`. The first needs that
   whatever executes started before the cycle that is about to fire; and that at
   most one instruction for each unit completes follows from distinct starts. The
   second follows the sum of the counters through the steps of a cycle.
4. The same module proves that the scheduler makes progress. `OldestIsReady`: the
   oldest instruction in the tables has its operands, for a producer is older than
   its reader (`SourceIsProducer`); so once `fire_ready` has been called something
   executes, in whatever order it looks at the stations (`StartLeavesNoneIdle`).
   `TimeInv` charges every instruction that has started with the longest latency
   and a cycle (`Span`): what executes completes within that, and the clock is no
   further. A cycle can only go beyond it if nothing executed before, which
   `NeverIdle`, a part of `TimeInv`, excludes unless the tables were empty
   (`ClearKeepsTime`, `StartKeepsTime`). `NeverIdleHolds` and `RunTimeHolds` follow.
   `NoUnitHangs`: a driver that has met an instruction no station takes retries it
   (`RetryInv`), and a table that holds an operation without a unit never drains
   (`NoUnitStays`).

### Branch predictors

What is proved compares tables that are updated in place with functions of the
whole trace that never look at a table (`BranchHistory`): the key of a branch is
made from its address and the outcomes of earlier ones, its counter is the
replay of the branches with the same key. `TypeCorrect` and
`UnreadableLineHangs` (the safety half of `RunEndsUnlessUnreadable`) assume only
`BranchSimAssumption`, whose limit of five bits for a counter is where the code's
limit is defined. Where `WidthAssumption` fails, `int` overflows and the theorems
say nothing of the code. The others assume what the README of Project1 says of the
parameters, as hypotheses of the theorem:

* `EntriesArePowerOfTwo`: the table is indexed by "the lower bits of an address"
  (`src/Project1/README.md:17`), which `num_entries - 1` masks for powers of two.
* `counter_bits \in 1 .. 2` where saturation matters (`CountersReplay`,
  `StatisticsReplay`, `SmallCountersFit`): for wider counters the code's limit is
  wrong and the properties are false, as `branch_counter` shows.
  `CountersSharedByKey` holds for counters of one to five bits.

1. `BitsProofs`: what `&` with a mask, `^` and a shift do to the bits of a number,
   for every width. The library's induction theorems take an operator and cannot
   be instantiated here, so `Induction` is derived, for sets of numbers, from the
   well-foundedness of finite sets under inclusion, which the library states
   without an operator (`LeastElement`). Powers of two are known to it as the sizes
   of sets of subsets (`FS_SUBSET`); `PowerNext` and what follows rest on that.
   `RecursionExists` and `RecursionUnique` say that a start and a step define a
   function on `0 .. N`, which is how the recursive function in `Counter` is known
   to exist.
2. Functions of traces: `KeyAgree`, `CounterAgree`, `GuessAgree` (they depend only
   on the branches before), `RecentNext` (a new outcome comes first and the others
   move back), `CounterAppend` (one branch more trains the counter of its key and
   no other), `GuessedAppend` (it is guessed, and the others as before).
3. Indices: `Slot` says where the counter of a key lies. `SlotInTable` and
   `SlotInjective` are arithmetic; `IndexIsSlot` is that `get_index` computes the
   slot of the branch's key, which needs that the registers hold the outcomes.
4. `BInv` (`BranchInv`), of which the properties are consequences and no part can
   be left out: `RegistersInv`, every bit of every register, the entries that no
   branch of the trace selects included, is an outcome; `CountersInv`, for *every*
   key and not only those of the addresses that are asked about, the counter in
   its slot is the replay; `StatisticsInv`, which between the two calls for a
   branch counts its prediction and remembers that it was the replay's guess;
   `DriverInv`, how far the counts may be. Each has a lemma for the initial states
   and one for the steps (`RegistersStep`, `CountersStep`, `StatisticsStep`); only
   `Predict` and `Update` are not immediate.

Every assumption is a named `ASSUME` of `SimTypes`, `Scheduler` or `BranchSim`, about the
constants only, and TLC evaluates it in the runs.

Only model-checked: the liveness properties (`EveryAccessCompletes`,
and the parts of `RunEndsUnlessNoUnit` and
`RunEndsUnlessUnreadable` that say a run ends), for liveness under fairness is
out of the prover's reach. What each of them rests on is a safety property, and
proved: that a node which waits gets nearer to its DATA with every cycle
(`WaitIsBoundedHolds`), that a scheduler with instructions it can execute is
never idle and has only so many cycles (`NeverIdleHolds`, `RunTimeHolds`), and
that the loops which do not end indeed do not (`NoUnitHangs`,
`UnreadableLineHangs`). What fairness adds is only that the loop goes on.

## Not modelled

* `MOESIF_protocol.cpp`: a stub whose every handler is `fatal_error`.
* `settings.cpp`, `settings.h`, both `main`s' option parsing, the parsing of
  traces and the printing of statistics: what they choose are constants of the
  models, and nothing they print is read again. A trace line that cannot be
  parsed is modelled where the code reacts to it (Project1).
* A trace of Project3 with an operation other than `r` and `w`, at which
  `Processor::tick` calls `fatal_error` (`processor.cpp:61-62`): `NeverAborts`
  speaks of well-formed traces.
* A predictor type other than the four: `main` passes any character of `-p` on,
  and the `default` of `get_index` (`branchsim.cpp:176-177`) then sends every
  branch to counter 0.
* `sharers.cpp`, `preq.cpp`, `sim_analysis.cpp`, `messages.cpp`: no code of the
  bus-based simulator calls them, or they only name things.
* Statistics of Project3 (misses, silent upgrades, transfers): nothing reads
  them during a run.

## Plan

The order was: coherence, its core proved; the scheduler, modelled and proved;
the branch predictors; then the rest of the coherence proofs, down to the
refinement; then the branch predictors proved; then MOESI with two
caches; then, as safety properties, that the scheduler and the bus make progress. What
is left are the protocols' counters, as history variables related to what the
abstract memory sees: one miss for each access that is not a hit, one silent
upgrade for each store that finds `E`, one transfer for each DATA of a cache.
