# mtdp in TLA+

mtdp is a C library for multithreaded data pipelines: a source thread, any
number of internal stage threads and a sink thread, connected by pipes in which
user buffers go round. This directory holds its TLA+ specification: modules
translated from `src/` and `examples/`, TLC configurations that check them on small
instances, and TLAPS proofs of what matters most for every size.

Paths below are relative to the repository; `pipeline.c` stands for
`src/pipeline.c` of the library.

## The system

| Component | State | Operations | Correct when |
|---|---|---|---|
| pipeline control (`pipeline.c`) | `enabled`, `active`, `destroying` | create, destroy, enable, disable, start, stop, wait | disable returns and leaves every buffer in its pool; a waiting thread resumes exactly when the stream is over |
| source, stages, sink (`source.c`, `stage.c`, `sink.c`) | context (`input`, `output`, `ready_to_push`, `ready_to_pull`), `done` | one routine per stage type, called in a loop; `mtdp_source_finished` | callbacks get their buffers; no item is lost, repeated or reordered |
| worker threads (`worker.c`) | `enabled`, `destroyed`, mutex, condition variable | create, enable, disable, destroy, join | a thread sleeps while disabled, leaves when destroyed, and misses no wake-up |
| pipe (`pipe.c`) | pool, FIFO, one mutex each, semaphore, `total_buffers` | resize, get_empty, push, get_full, put_back, clear | each buffer is in one place; the semaphore counts the full ones |
| buffer FIFO (`buffer.c`) | vector of block pointers, blocks, `size`, `first_element_offset` | init, push, pop, destroy | it is a FIFO whatever the allocator does, and owns each block once |
| buffer pool (`buffer.c`) | array, `size`, `capacity` | resize, push, pop | it holds what it was asked for, and has room for every buffer of the pipe |
| signalling (`bell.h`, `futex.h`, `sem.h`) | futex words, semaphore count | set/unset done, wait, timed acquire, release | no wake-up is lost between a store and the sleep it should prevent |
| instances (`memory.h`), `errno.c` | flag of the static instance, a code per thread | alloc, dealloc | an instance has one owner |
| examples (`src/examples`) | where `main` is, the buffers it allocated | start, pause, wait, disable, free | the program ends, and frees every buffer once, used by nobody |

**How they interact.** The user's thread calls `mtdp_pipeline_*`, which write
the flags of the workers one after the other: from the sink to the source when
enabling and starting, from the source to the sink when stopping and disabling.
A worker thread loops: sleep until enabled or destroyed, leave if destroyed,
else call its routine once. Routines of neighbouring workers meet in a pipe: the
producer takes an empty buffer, fills it in the user's callback, pushes it and
releases a token; the consumer acquires a token within a timeout, pops, runs the
callback and puts the buffer back. `done` is a futex per worker: set when a
worker found nothing to do, cleared when it got a token; `mtdp_pipeline_wait`
sleeps on all of them in turn.

**What is hard.** Pool, FIFO, semaphore, `done` and the worker flags are
protected separately, and every routine touches several. A stop or disable
reaches a thread between any two of its steps. Pushes can fail for lack of
memory, and are repeated. Timed acquisitions race the pushes they wait for.
`mtdp_pipeline_wait` reads several flags one after the other and decides from
them that everything is quiet. In the FIFO, growing, shifting and rotating
blocks interact, with two allocations that fail independently.

## Modules

### Pipeline: the run-time protocol

`Pipeline.tla` is the whole protocol between the user's thread, the workers and
the waiting threads. Worker 0 is the source, 1..NStages the internal stages,
NStages + 1 the sink; worker w writes pipe w and reads pipe w - 1.

*What is one step.* Every access to a pool or a FIFO is one critical section of
its mutex and so one step. The semaphore, the `done` words and the worker flags
are touched outside of those mutexes, and each access is a step of its own. The
code between two such accesses works on the worker's own context and is merged
with the step before it.

| Definition | Code |
|---|---|
| `Gate` | the loop of `mtdp_worker_routine`: sleep, leave or call the routine |
| `Entry`, `Continue` | the branches of the three routines |
| `PushBuffer`, `Post`, `SetDone` | push; release, `output = NULL`, `ready_to_push = false`; `mtdp_set_done` and early return |
| `TryAcquire`, `UnsetDone`, `GetFullBuffer` | timed acquisition, `mtdp_unset_done`, pop |
| `GetEmptyBuffer` | pop of the pool, or return and yield |
| `SourceProcess`, `StageProcess`, `SinkProcess` | the callbacks, any combination of flags they may set |
| `SourceFinished` | the second half of `mtdp_source_finished` |
| `SinkReturn` | the sink's put-back at the start of its next routine |
| `EnableCall`, `CreateThread`, `EnableReturn` | `mtdp_pipeline_enable` |
| `StartCall`..`StartReturn`, `StopCall`..`StopReturn` | start and stop, one step per worker |
| `DisableCall`, `DestroyFirst`, `DestroySecond`, `JoinAndClear`, `SetDoneAgain`, `MarkDisabled`, `DisableReturn` | `mtdp_pipeline_disable` |
| `WaitCall`, `AwaitNotDestroying`, `CheckEnabled`, `WaitDone`, `TestDone` | `mtdp_pipeline_wait` |

A callback is user code: `SourceActs`, `StageActs` and `SinkActs` say which
combinations of `ready_to_push`, `ready_to_pull` and `mtdp_source_finished` one
call may leave behind; by default all of them. The data is abstracted to the
number of the item a buffer carries (`item`), which is enough to see loss,
duplication and reordering. A push may fail only when the full buffers fill
whole blocks (`PushMayFail`): that is what `Queue` says of the FIFO and what
`BufferFifo` is shown to implement. A put-back cannot fail: that is `PutBackFits`
of `PipeBuffers`.

### Stream and PipelineStream: what the pipeline promises

`Stream.tla` is the abstract specification: items numbered in production order,
delivered once each and in order, discarded only by a disable.
`PipelineStream.tla` maps a pipeline to it: the items in flight are, from the
sink backwards, the input not yet processed, the FIFO, and the output not yet
pushed, pipe after pipe. `ImplementsStream` is the refinement.

### Queue, BufferFifo: the FIFO of full buffers

`Queue.tla` is what a pipe expects: FIFO order, pops fail on an empty queue only,
pushes fail only at whole blocks and then change nothing. `BufferFifo.tla` is the
heap-allocated block deque at the level of the code: the vector of block
pointers with its unused left part (stale pointers included, since the last
resort of a push reads them through the capacity it had read before the
`realloc`), the cells of every block, the offset and the size; `realloc` and the
block allocation may each fail. `Contents` is the refinement mapping and
`ImplementsQueue` the refinement. Freed memory loses its content. The right
shift is written as one assignment to all cells since each cell of the loop is
read before it is overwritten.

### PipeBuffers and PipeLocks: how many buffers a pipe has, and its two mutexes

`PipeBuffers.tla` counts: pool size and capacity, FIFO size, buffers held by the
producer and the consumer, `total_buffers`, in unsigned arithmetic modulo
`SizeLimit` with the casts to signed numbers a resize makes (`Signed`), under `mtdp_pipe_resize`, the four operations of the threads, and
the clear of a disable. The ways the user calls resize (shrinking, on a stopped
pipeline, with memory failing) are constants.

`PipeLocks.tla` adds what `PipeBuffers` takes for granted: the two mutexes, with
the read and the write of every critical section split (`Critical`), and in a
debug build `mtdp_lock2` (`Lock2`) around `mtdp_pipe_check_invariants`
(`CountBuffers`, `Assert`) before and after each operation. `seen` is the local
copy of a size, `checked` tells the assertion before from the one after. The
user's own calls (`User`) hold both mutexes all along and are one step.
`AtomicSections` is the refinement: `PipeLocks` implements `PipeBuffers!Spec`, on
the same variables.

### Worker, Bell, WorkerBell, Gate: a thread and its signals

`Worker.tla` is `worker.c`: the loop with its two reads of `destroyed` outside the
mutex, the wait on the condition variable with its release of the mutex in the
same step and its spurious wake-ups, and enable, disable and destroy as lock,
set, unlock, signal. The unlocked reads race with writes; a read gives the value
before or after, which the interleaving provides. `Bell.tla` is a `done` word:
`mtdp_set_done` stores (`Store`) and wakes (`Wake`) in two steps, `mtdp_futex_wait`
reads (`Read`) and asks the kernel to compare and sleep (`FutexWait`), and may be
interrupted. `WorkerBell.tla` composes the two for one thread of any kind: the
routine rings at most once per call (a source on a failed push or from
`mtdp_source_finished`, which then destroys its own worker; a stage or sink to
set or unset); the controlling thread starts, stops, destroys and joins in the order
of `mtdp_pipeline_disable`.

This is what justifies the coarser steps of `Pipeline`, whose action `Gate` is one step
for the test under the mutex and the second look at `destroyed`. `Gate.tla` is that
worker by itself: enable, disable and destroy are single steps, and so is the pass
into the routine or out of the loop. `ImplementsGate` maps `Worker` to it. The pass is the
moment of the thread's last look at `destroyed`; a disable between the test and that look
comes too late for one call (`OneLateCall`), which `Gate` says openly (`on` stays
TRUE until the pass). `Pipeline` needs no such variable: the thread does nothing else
in between, so that the late pass is one just before the disable. No signal is lost
(`NoLostSignal`), so that a `Gate` whose guard is true is taken (`EnabledRuns`,
`DestroyedExits`). Its futex waits are single steps because no ring is lost
(`NoLostRing`).

### PipelineCreate: what a pipeline holds

`PipelineCreate.tla` follows the resources of `mtdp_pipeline_create` and
`_destroy`: the pipeline (from the heap, or the one static instance), its vectors, the
mutexes, blocks, semaphore and pool array of every pipe, the condition variables
and mutexes of the workers. `ToAcquire` is the order of acquisition; each step may
`Fail`, and `Unwound` is the sequence of releases the code then goes through, as
`Destroyed` is that of a destroy. In between the pools get their arrays (`Resize`)
and the FIFOs grow (`Grow`), so that a destroy finds more than create acquired.

### Datastream: the example programs

`Datastream.tla` puts the main functions of `finite_datastream.c` and
`infinite_datastream.c` on top of `Pipeline`: `line` is where `main` is, and each call
of the library begins a call of `Pipeline` that `Library` completes. `FinitePayload`
and `InfinitePayload` restrict the source callback to what the examples do.

### MC modules

`MCPipeline`, `MCPipelineStream`, `MCBufferFifo` and `MCDatastream` define the callback
sets and the symmetry. Buffers, elements and waiting threads are interchangeable,
so their permutations are used in safety runs; runs that check liveness use none.

## Runs

| Run | Question | Result |
|---|---|---|
| `pipeline_stage` | 1 stage, 2 buffers per pipe, 2 items, 2 sessions, blocks of one buffer so that every push onto a non-empty FIFO may fail, all callbacks: `TypeOK`, `Ownership`, `TokensMatch`, `CallbackHasBuffers`, `DisabledIsClean`, `DisabledIsDone`, `NeverBackwards` | holds, 2.2M states |
| `pipeline_stream` | 1 one-to-one stage, 3 items: `ImplementsStream` | holds, 900k states |
| `pipeline_progress` | fair scheduling: `DisableTerminates`, `FilledIsConsumed`, `StopSleeps` | holds, 350k states |
| `buffer_fifo` | blocks of 3, up to 3 blocks (vector 1, 2, 4 slots): `TypeOK`, `OwnsBlocks`, `FrontInLastBlock`, `ImplementsQueue` | holds, 180k states |
| `pipe_locks` | up to 4 buffers, growing only and only while disabled, reallocs may fail, two threads: `TypeOK`, `Conserved`, `PutBackFits`, `AssertionsPass`, `SomebodyRuns`, `AtomicSections` | holds, 75k states |
| `worker_bell` | a source, stage or sink thread, 2 waiting threads, fair scheduling: `TypeOK`, `NoLostSignal`, `OneLateCall`, `NoLostRing`, `DestroyedExits`, `EnabledRuns`, `WaitersResume`, `ImplementsGate` | holds, 32k states |
| `pipeline_create` | 1 stage, 2 threads, heap or one static instance: `TypeOK`, `NothingLeaks`, `ReleasesWhatItHolds`, `ContainersLast`, `OneStaticInstance` | holds, 2.9M states |
| `datastream` | both programs, 1 stage, 2 buffers, 2 items, 1 waiting thread, interruptible futex calls: `NothingUsesFreed`, `EveryBufferFreed`, `ProgramEnds`, `FinishResumesWaiter`, `WaitReturnsAfterSource` | holds, 600k states |
| `wait_disable` | a waiting thread resumes when the pipeline is disabled | **violated** |
| `wait_early` | a wait returns only when nothing is being processed | **violated** |
| `reenable` | a pipeline enabled again has living threads | **violated** |
| `pipe_resize_stopped` | the assertion on a pipe's buffers holds when a stopped pipeline is resized | **violated** |

The violated runs state what the documentation or an assertion of the
repository says; `PROJECT.json` quotes it with each finding. In short:

* *`wait_disable`*: a sink that acquired a token runs `mtdp_unset_done` after the
  disable set its `done`; the disable sets the `done` of the internal stages once
  more, the sink's it does not. The waiting thread sleeps on.
* *`wait_early`*: `done` is left over from a previous timeout while a buffer
  is already in the pipe.
* *`reenable`*: `destroyed` is reset by `mtdp_worker_init` only.
* *`pipe_resize_stopped`*: `mtdp_buffer_pool_resize` takes the distance from the
  capacity for the distance from the size, which differ while buffers are in
  use. A pipe of two with one buffer in its FIFO, asked for three, still has two, and
  the assertion fails once each thread holds one; with both in the FIFO the size of the
  pool wraps below zero.

Further divergences, seen by changing one constant of a run that holds:

* `BlockSize = 1` and `MaxItems = 3` in `Datastream.cfg` (pushes may fail): the source sets
  `done` on a failed push and never clears it, and `WaitReturnsAfterSource` is violated.
  With the steps of a failed push left out (`PushesSucceed` below) the same instance
  satisfies it.
* A source act that sets `push` and `finish` at once, as in `MCDatastream`, in
  `PipelineProgress.cfg`: `mtdp_source_finished` destroys the worker before its next
  routine call, the one that would push, and `FilledIsConsumed` is violated.
  `finite_datastream.c:107-122` loses its last item in this way, against
  `include/mtdp/source.h:52-53`; the buffer itself is not lost (`EveryBufferFreed`).
* `ShiftPercent = 0` in `BufferFifo.cfg`: a new block is added while the only
  block, used up and empty, stays at the right end; the next pop indexes outside
  of it (`FrontInLastBlock`, `ImplementsQueue`). Three pushes, three pops and a
  push are enough with blocks of three.
* `Shrinks = TRUE` in `PipeLocks.cfg`: a pipe resized to 2, 1 and 2 buffers has
  1 (`Conserved`), the same confusion of capacity and size.
* A realloc that fails (`MemoryFails = TRUE`): `total_buffers` is updated although
  the resize failed, and the assertion at `pipe.c:117` fails. `AssertionsPass` is
  claimed for pipes that have what they were last asked for.

And some that the code shows without a model: `mtdp_pipeline_wait` never looks at
`active`, so on a pipeline stopped after its source finished it returns, against
`include/mtdp/pipeline.h:325-326`; a shrink with full buffers in the FIFO pops them
into a NULL pointer (`pipe.c:108`, the guard `Undefined`); with
`MTDP_BUFFER_FIFO_BLOCKS` set, `size` is never incremented by a push
(`buffer.c:326-328`) and no pop succeeds; with
`MTDP_BUFFER_POOL_STATIC_SIZE` set, the first resize adds the distance from the static
capacity to the size of the empty pool, zero at best (`buffer.c:134-136`);
`mtdp_pipeline_create` reports a pipeline it could not allocate as `MTDP_BAD_PTR`
(`pipeline.c:127`), which `include/mtdp/pipeline.h:144-145` does not list;
`total_buffers` has no value before the first resize (`pipe.c:148-172`), so a
pipe that was never resized fails the assertion of its first operation, or
not; the results of `mtdp_worker_init` are ignored, and the condition variables and mutexes
it makes are never destroyed (`Sync` in `NothingLeaks`).

**Bounds, and why they are enough.** One internal stage shows each of the three
routines and both kinds of pipe neighbours; the proofs cover any number. With
two buffers per pipe the producer and the consumer can hold one each, one can
wait while the other is full, and the pool and the FIFO both run empty and fill
up. Two items (three for the stream) tell order, loss and repetition apart. Two
sessions reach everything a first session leaves behind. `MaxItems` only stops
the callback from setting `ready_to_push`; a source without a next item keeps
being called, so no thread stops because of it. `MaxBlocks` is the memory of the
machine: the allocation fails when it is used up, which the code handles. With
three blocks of three cells the vector grows twice, a grown vector has unused
slots, shifts happen below and above the filling ratio, and rotations move a
block past zero, one and two others. In `pipeline_progress` and `datastream`
the callbacks always make progress and memory does not run out (`BlockSize` 8
with at most two full buffers): a callback that refuses for ever or a push that
fails for ever would rightly stop the stream.

In `pipe_locks` each resize from 1 to 4 buffers may follow any other, so that pools of every
smaller size grow and the FIFO may hold two buffers while both threads hold
one; `MinAllocCap` and `SizeLimit` keep their roles at small values. Two waiting
threads of `worker_bell` are enough to tell a wake of all from a wake of one.
In `pipeline_create` two pipes show an unwinding that has a pipe behind it, two blocks a
FIFO that grew, two threads the race for the static instance. `datastream` waits with one
thread instead of three: the waiting threads do not touch what the others read. Its one
pause stands for any number in the infinite program, which may resume for ever.

Deadlock is not checked where the system may stop: a disabled pipeline whose
sessions are used up and whose waiting threads returned, a program that exited, a
pipe whose assertion failed. The liveness properties and `SomebodyRuns` say what
must go on. In `buffer_fifo` and `pipeline_create` it is checked.

**Fairness.** Weak fairness of each worker, of the step in progress of the
controlling thread and of each waiting thread. The operating system schedules
runnable threads; a worker step is disabled only while the thread sleeps on its
condition variable, and the timed acquisition always returns. `JoinAndClear` and
the futex waits stay enabled once their condition holds (a join) or may be
disabled again (a `done` cleared by its worker), and weak fairness asks nothing
of the latter: that is why `wait_disable` can be refuted and `FinishResumesWaiter`
is only claimed for a pipeline left running. Nobody is obliged to call the API:
`MainCall` and `WaitCall` carry no fairness.
In `Datastream` the main function goes on from line to line (`Program`), the user's
keys (`InfiniteKey`) may never come.

In `WorkerBell` taking a mutex has strong fairness: the mutex is free again and
again, and the thread that shares it runs a whole routine between two acquisitions.
POSIX mutexes promise no order; what is assumed is that a thread is not passed over
for ever. For `mtdp_lock2` nothing of the kind is claimed: two threads that fail
their try-locks in lockstep may back off any number of times, and `SomebodyRuns`
says only that some thread can always go on.

## Proofs

Eight modules of proofs; the hypotheses of a theorem, beyond the assumptions on the
constants next to their declarations, are in the third column.

| Module | Theorems | Hypotheses |
|---|---|---|
| `PipelineProofs` | `TypeCorrect` (`TypeOK`), `CallbackBuffers` (`CallbackHasBuffers`), `SemaphoresCount` (`TokensMatch`) | |
| `PipelineOwnershipProofs` | `BuffersOwned` (`Ownership`), `DisableCleans` (`DisabledIsClean`), `DisableRings` (`DisabledIsDone`), `SinkInOrder` (`NeverBackwards`) | |
| | `WaitIsNotEarly` (`WaitReturnsAfterSource`) | `PushesSucceed` |
| `PipelineStreamProofs` | `PipelineStreams` (`ImplementsStream`) | `push = pull` for every stage act |
| `DatastreamProofs` | `ProgramsUsePipeline` (`DSpec => Spec`), `FreedIsUnused` (`NothingUsesFreed`), `AllAreFreed` (`EveryBufferFreed`) | |
| | `ProgramsWait` (`WaitReturnsAfterSource`) | `PushesSucceed` |
| `BufferFifoProofs` | `TypeCorrect` (`TypeOK`), `BlocksOwned` (`OwnsBlocks`), `FrontIsInLastBlock` (`FrontInLastBlock`), `FifoIsQueue` (`ImplementsQueue`) | `ShiftPercent > 0` |
| `PipeLocksProofs` | `LocksImplement` (`AtomicSections`), `NoDeadlock` | |
| | `TypeCorrect` (`TypeOK`), `BuffersConserved` (`Conserved`), `PoolHasRoom` (`PutBackFits`), `LockedConserved` (all three, of the locked pipe), `AssertionsHold` (`AssertionsPass`) | `~Shrinks`, `~ResizesPaused` |
| `WorkerBellProofs` | `TypeCorrect` (`TypeOK`), `SignalsArrive` (`NoLostSignal`), `DisabledStops` (`OneLateCall`), `RingsArrive` (`NoLostRing`), `GateIsAtomic` (`ImplementsGate`) | |
| `PipelineCreateProofs` | `TypeCorrect` (`TypeOK`), `AllIsReleased` (`NothingLeaks`), `OnlyHeldIsReleased` (`ReleasesWhatItHolds`), `ContainersOutlive` (`ContainersLast`), `InstanceHasOneOwner` (`OneStaticInstance`) | |

They hold for any number of stages, buffers, waiting threads, blocks and racing threads,
and any set of callbacks the assumptions allow.

**The pipeline.** `TypeOK` is not inductive: a push needs to know that `output` is
not NULL, and a step of the controlling thread that its index is a worker. `Ctl` says
for each program counter what is known of the context (for instance that a consumer
waiting for a token holds no input); `MainCtl` says how far the controlling thread has
got, in particular that no thread runs when `CreateThread` resets the contexts. `Inv` is
their conjunction with `TypeOK`. `TokensMatch` also needs `Destroyed`: `JoinAndClear`
empties the FIFOs without touching the semaphores, so that every worker must be destroyed
by then and stay so.

`OwnInv` adds where the buffers of each pipe are: `Shared(p)`, that pool, FIFO and the
two contexts divide them, and `Pushed(p)`. An output that was pushed but not yet posted is in
two places, and may become the consumer's only after the post: it is the newest of
the FIFO, and `TokensMatch` says that the consumer has no token for it. `DisabledIsClean`
also needs `Emptied`, that the FIFOs stay empty from the clear of a disable until there are
threads again.

`DisabledIsDone` rests on `DoneInv`: how far the controlling thread has got tells whose `done` is
set for good (`Rung`). A stage may clear its own once more after its destroyer has set it,
but not after it was joined, and the second round comes after all joins. The sink is not part of that
round; its `done` may stay clear, which is the divergence `wait_disable` shows.

`NeverBackwards` rests on `Ordered`: from the consumer of each pipe to its producer the
items never decrease, no pipe carries an item newer than one in a pipe before it, and all
lie between what the sink consumed and what the source produced.
`WaitReturnsAfterSource` rests on `DoneTells`: the `done` of a source that is not over is
clear, and a waiting thread that got past it knows. Only a failed push would set it. The
hypothesis `PushesSucceed` says that the source's never does, in a behaviour whose allocations
succeed when they are needed; without it the property is false, see the divergences above.
It restricts neither the buffers nor the blocks: `finite_datastream.c` has 32 buffers in
a pipe and the default block holds 16, so that its pushes do allocate. Where the buffers of a pipe
fit into one block, as in the run `datastream`, it holds by itself (`OneBlockIsEnough`).

For `ImplementsStream` the mapping concatenates what is in each pipe, from the sink
back. `FlightIsChain` shows this to be a chain of concatenations (`Chain`), and lemmas such
as `ChainMove` (what leaves a pipe for the next one keeps its place) and `ChainAppend` (what
enters the first pipe comes last) reduce each step to the one or two pipes it touches.
The invariant `StreamInv` adds to `OwnInv` and `Ordered` that an input the sink keeps is the one it
consumed last (`SinkHolds`) and that the items in flight rise strictly (`Rising`). A stage that drops or repeats items
does not implement the stream, which is what `push = pull` excludes;
`SinkInOrder` covers it.

**The programs.** Every step of `Datastream` is a step of `Pipeline` or leaves it alone,
so all theorems about `Spec` hold of the two example programs. `FreedInv` adds where `main`
is when buffers are freed.

**The FIFO.** `Fifo` says of a live FIFO that the used slots of the vector name
each block once (`GoodVec`), that the oldest element is in the last block unless the only
block was emptied by pops (`Live`), and that each element is in a cell that was written. `Reads`, `Writes`, `Shifts` and `Reserves` say where the element
at a position is before and after a write, a shift and a growth of the vector; `Located` and
`Apart` are the arithmetic of positions they need. The prover found that `FrontInLastBlock`
needs `ShiftPercent > 0`, and TLC the counterexample for 0 (see the divergences above).
`CeilPower` gives the least power of two by a set of powers since the provers do not know
exponentiation.

**The pipe's counts and locks.** `IInv`: the capacity of the pool is the number of
buffers of the pipe, and all of them are in the pool while the pipeline is disabled. This is
the one state in which the pool's resize, which mistakes capacity for size, is right.
The run `pipe_resize_stopped`, and `Shrinks = TRUE` in `PipeLocks.cfg`, show that both
hypotheses are needed. `LockInv` needs neither: a mutex has an owner exactly while a thread
is in its critical section (`Exclusive`), and the size the thread has read is still the
size when it writes (`Fresh`). From it each write implements a whole operation and
every other step a stutter. `NoDeadlock` says, of any use of the pipe, that the owner of a
mutex never waits for the other one: it is at a try-lock, counting, in its critical section or on
its way out. This is what `SomebodyRuns` rests on. `Counted` says that a thread that has counted under both mutexes
misses two buffers at most, those in the hands of the threads, also when the other
thread is between the pool and the FIFO.

**A worker and its signals.** `IInv` of `WorkerBellProofs` says who owns the mutex
(`MutexHeld`), that what the thread saw under the mutex is true until it sleeps
(`SleepsForCause`), and that after its one late call only a destroy lets it pass the test
(`LateCalls`). `NoLostSignal` and `NoLostRing` are then inductive. For `ImplementsGate`, a thread that is past the
test is still `at` the gate, and what `LateCalls` and `SleepsForCause` say of it is what
the pass of `Gate` asks for; every step but the assignments of the callers, the creation,
the pass and the return is a stutter.

**Creation and destruction.** `CInv` says for each place a thread is at what it holds and
what it has yet to do (`Kept`): while creating, exactly the first n resources in the order of
`ToAcquire` (`Creating`); ready, all that a destroy expects, and any number of buffer
arrays and blocks besides; failing or destroying, a sequence that releases what is held, once each,
and nothing before what it contains (`Releases`); and everywhere that what is held is
found in something held (`Closed`). `UnwoundReleases` and `PipelineReleased` are the two
lemmas that matter: the unwinding, whichever step failed, and the destroy, whatever the
pipeline has grown to, are such sequences. `ReleasesBoth` composes them from those of the pipes.

**Induction.** The induction theorems of the library take an operator, which the provers
cannot instantiate. Where a proof is by induction, over the pipes or over numbers, it is on
a set instead: a non-empty set of numbers has a least one (`Least`, `MinIsLeast`), so that a
set with 0 and the successor of each of its elements has them all (`UpTo`, `PipeInduction`).

**Model-checked only.** Liveness (`DisableTerminates`, `FilledIsConsumed`, `StopSleeps`,
`FinishResumesWaiter`, `ProgramEnds`, `DestroyedExits`, `EnabledRuns`, `WaitersResume`) and
`SomebodyRuns`: the prover has no rules for fairness and ENABLED. Every other property
of a passing run is a theorem.

## Not modelled

* Failing calls of the C11 thread functions. The result of thread creation is
  ignored, and a join of a thread that does not exist has no defined behaviour to model.
* Getters and parameter checks: they only read, or return an error without changing
  anything. Of the error codes only those of create, destroy and resize are followed.
* `memory.h` with several static instances: the lock-free variant uses an undeclared
  `i`, the others an undeclared `DEFINE_STATIC_INSTANCE_ARG`, and `once_flag`
  outside of C11 threads; they do not compile. Nor does the static block vector
  (`mtdp_buffer_fifo_blocks_init` subscripts a struct). Static instances of blocks
  would only make `Create` and a push of `BufferFifo` fail where the heap may already.
* The FIFO embedded in the pipe (`MTDP_BUFFER_FIFO_BLOCKS`) and the static pool: they
  never deliver an element, or never have a buffer (see above).
* Windows and non-Linux wrappers of futexes, threads and semaphores.
* The unit test of the FIFO: one sequence of calls among those of `BufferFifo`.

## State of the development

The protocol, the FIFO, the pipe with its counts and locks, the worker with its signals,
creation and destruction, and the example programs are modelled and checked. Every safety
property and every refinement of a passing run is also a theorem, except
`SomebodyRuns`, whose part without ENABLED is `NoDeadlock`.

The layers meet in these places: `BufferFifo` implements `Queue`, which says when a push of
`Pipeline` may fail; `PipeLocks` implements `PipeBuffers`, which shows that a put-back of `Pipeline`
cannot fail and that its accesses to pool and FIFO are single steps; `Worker` implements `Gate`, the step
with which a thread of `Pipeline` enters its routine; `Pipeline` implements `Stream`; and `Datastream`
uses `Pipeline` through its calls only. The first three are not composed by an INSTANCE in `Pipeline`, which
states their results as guards of its own (`PushMayFail`, `PutBack`, `Gate`): whoever changes one of these
has to look at the module behind it.
