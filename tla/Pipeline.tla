------------------------------ MODULE Pipeline ------------------------------
(***************************************************************************)
(* The run-time protocol of an mtdp pipeline: a source thread, n_stages    *)
(* internal stage threads and a sink thread connected by n_stages + 1      *)
(* pipes, one controlling thread that enables, starts, stops and disables  *)
(* the pipeline, and any number of threads blocked in mtdp_pipeline_wait.  *)
(*                                                                         *)
(* A pipe is a pool of empty buffers, a FIFO of full buffers and a         *)
(* counting semaphore.  The pool and the FIFO have a mutex each and every  *)
(* access is one critical section, so one access is one step here; the     *)
(* semaphore and the `done' futexes are touched outside the mutexes and    *)
(* are steps of their own.  That is the interleaving the code allows.      *)
(***************************************************************************)
EXTENDS Integers, Sequences, FiniteSets

CONSTANTS
  NStages,      \* number of internal stages (0 is valid)
  Buffer,       \* the buffers each pipe was resized to hold
  NULL,         \* the NULL buffer pointer
  Waiter,       \* threads that may call mtdp_pipeline_wait
  SourceActs,   \* what one call of the source callback may do
  StageActs,    \* what one call of a stage callback may do
  SinkActs,     \* what one call of the sink callback may do
  BlockSize,    \* MTDP_BUFFER_FIFO_BLOCK_SIZE: a push allocates only when the
                \* FIFO fills whole blocks
  Interrupts,   \* whether a signal may interrupt a futex system call
  MaxItems,     \* bound: items the source callback produces
  MaxSessions   \* bound: successful calls of mtdp_pipeline_enable

\* What a callback does to its context: set ready_to_push, set
\* ready_to_pull, call mtdp_source_finished.
SourceAct == [push : BOOLEAN, finish : BOOLEAN]
StageAct  == [push : BOOLEAN, pull : BOOLEAN]

ASSUME NStagesAssumption  == NStages \in Nat
ASSUME BufferAssumption   == IsFiniteSet(Buffer)
ASSUME NullAssumption     == NULL \notin Buffer
ASSUME ActsAssumption     == /\ SourceActs \subseteq SourceAct
                             /\ StageActs \subseteq StageAct
                             /\ SinkActs \subseteq BOOLEAN
ASSUME BlockAssumption    == BlockSize \in Nat \ {0}
ASSUME InterruptAssumption == Interrupts \in BOOLEAN
ASSUME BoundsAssumption   == MaxItems \in Nat /\ MaxSessions \in Nat

\* Workers are numbered along the stream; worker w writes pipe w and reads
\* pipe w - 1 (mtdp_pipeline_configure).
Source == 0
Sink   == NStages + 1
Worker == 0..NStages + 1
Stage  == 1..NStages
Pipe   == 0..NStages

VARIABLES
  pc,          \* program counter of each worker thread
  output,      \* context.output of each worker (unused by the sink)
  input,       \* context.input of each worker (unused by the source)
  readyPush,   \* context.ready_to_push
  readyPull,   \* context.ready_to_pull
  done,        \* the `done' futex of each worker
  wEnabled,    \* worker.enabled
  wDestroyed,  \* worker.destroyed
  pool,        \* empty buffers of each pipe (the order in the pool is abstracted)
  fifo,        \* full buffers of each pipe, oldest first
  sem,         \* semaphore of each pipe
  item,        \* item[p][b]: the item buffer b of pipe p carries, 0 for none
  mpc, mi,     \* control point and loop index of the controlling thread
  enabled, active, destroying,   \* the fields of mtdp_pipeline
  sessions,    \* successful enables so far (bounded)
  tpc, ti,     \* control point and loop index of each waiting thread
  produced,    \* items the source callback has handed over for pushing
  consumed     \* the last item the sink callback has been called with

context == <<output, input, readyPush, readyPull>>
flags   == <<wEnabled, wDestroyed>>
pipes   == <<pool, fifo, sem, item>>
main    == <<mpc, mi, enabled, active, destroying, sessions>>
waiting == <<tpc, ti>>
stream  == <<produced, consumed>>
vars    == <<pc, context, done, flags, pipes, main, waiting, stream>>

\* Control points.
WorkerPc == {"none", "gate", "push", "post", "acquire", "idle", "undone", "pull",
             "take", "process", "finish", "return", "exited"}
MainPc   == {"idle", "enable", "start", "stop", "kill", "ring", "join", "refix",
             "off", "release"}
WaiterPc == {"ready", "await", "check", "wait", "test", "ok", "notEnabled"}

\* The pipeline after mtdp_pipeline_create and mtdp_pipe_resize: configured,
\* not enabled, every buffer empty.
Init ==
  /\ pc = [w \in Worker |-> "none"]
  /\ output = [w \in Worker |-> NULL]
  /\ input = [w \in Worker |-> NULL]
  /\ readyPush = [w \in Worker |-> FALSE]
  /\ readyPull = [w \in Worker |-> FALSE]
  /\ done = [w \in Worker |-> 0]
  /\ wEnabled = [w \in Worker |-> FALSE]
  /\ wDestroyed = [w \in Worker |-> FALSE]
  /\ pool = [p \in Pipe |-> Buffer]
  /\ fifo = [p \in Pipe |-> <<>>]
  /\ sem = [p \in Pipe |-> 0]
  /\ item = [p \in Pipe |-> [b \in Buffer |-> 0]]
  /\ mpc = "idle" /\ mi = 0
  /\ enabled = FALSE /\ active = FALSE /\ destroying = 0
  /\ sessions = 0
  /\ tpc = [t \in Waiter |-> "ready"]
  /\ ti = [t \in Waiter |-> 0]
  /\ produced = 0 /\ consumed = 0

-----------------------------------------------------------------------------
(***************************************************************************)
(* Worker threads: the loop of mtdp_worker_routine around the source,      *)
(* stage or sink routine.                                                  *)
(***************************************************************************)
Goto(w, l) == pc' = [pc EXCEPT ![w] = l]

\* Where a routine continues once there is nothing (more) to push, with
\* out in context.output.
Continue(w, out) ==
  CASE w = Source                   -> IF out = NULL THEN "take" ELSE "process"
    [] w \in Stage /\ readyPull[w]  -> "acquire"
    [] w \in Stage /\ ~readyPull[w] -> IF input[w] # NULL /\ out = NULL THEN "take"
                                                                       ELSE "process"
    [] w = Sink /\ readyPull[w]     -> IF input[w] # NULL THEN "return" ELSE "acquire"
    [] w = Sink /\ ~readyPull[w]    -> "process"

Entry(w) == IF readyPush[w] THEN "push" ELSE Continue(w, output[w])

\* Mutant: the worker sleeps until enabled, a destroy does not wake it.
Gate_SleepsThroughDestroy(w) ==
  /\ pc[w] = "gate"
  /\ wEnabled[w]
  /\ Goto(w, IF wDestroyed[w] THEN "exited" ELSE Entry(w))
  /\ UNCHANGED <<context, done, flags, pipes, main, waiting, stream>>

\* Mutant: the worker does not sleep.
Gate_NeverSleeps(w) ==
  /\ pc[w] = "gate"
  /\ Goto(w, IF wDestroyed[w] THEN "exited" ELSE Entry(w))
  /\ UNCHANGED <<context, done, flags, pipes, main, waiting, stream>>

\* mtdp_worker_routine between two calls of the routine: sleep on the
\* condition variable until enabled or destroyed, leave the loop if destroyed.
Gate(w) ==
  /\ pc[w] = "gate"
  /\ wEnabled[w] \/ wDestroyed[w]
  /\ Goto(w, IF wDestroyed[w] THEN "exited" ELSE Entry(w))
  /\ UNCHANGED <<context, done, flags, pipes, main, waiting, stream>>

\* A push needs a fresh block, and so can fail for lack of memory, only
\* when the full buffers fill all the blocks there are.
PushMayFail(p) == Len(fifo[p]) > 0 /\ Len(fifo[p]) % BlockSize = 0

\* Mutant: the result of the push is ignored.
PushBuffer_IgnoresFailure(w) ==
  /\ pc[w] = "push"
  /\ Goto(w, "post")
  /\ \/ fifo' = [fifo EXCEPT ![w] = Append(@, output[w])]
     \/ PushMayFail(w) /\ UNCHANGED fifo
  /\ UNCHANGED <<context, done, flags, pool, sem, item, main, waiting, stream>>

\* mtdp_pipe_push_buffer, under the FIFO mutex.
PushBuffer(w) ==
  /\ pc[w] = "push"
  /\ \/ /\ fifo' = [fifo EXCEPT ![w] = Append(@, output[w])]
        /\ Goto(w, "post")
     \/ /\ PushMayFail(w)
        /\ Goto(w, "idle")
        /\ UNCHANGED fifo
  /\ UNCHANGED <<context, done, flags, pool, sem, item, main, waiting, stream>>

\* Mutant: output keeps pointing at the pushed buffer.
Post_KeepsOutput(w) ==
  /\ pc[w] = "post"
  /\ sem' = [sem EXCEPT ![w] = @ + 1]
  /\ readyPush' = [readyPush EXCEPT ![w] = FALSE]
  /\ Goto(w, Continue(w, output[w]))
  /\ UNCHANGED <<output, input, readyPull, done, flags, pool, fifo, item, main, waiting, stream>>

\* Mutant: the semaphore is not released.
Post_NoRelease(w) ==
  /\ pc[w] = "post"
  /\ output' = [output EXCEPT ![w] = NULL]
  /\ readyPush' = [readyPush EXCEPT ![w] = FALSE]
  /\ Goto(w, Continue(w, NULL))
  /\ UNCHANGED <<input, readyPull, done, flags, pipes, main, waiting, stream>>

\* The semaphore of the output pipe is released after the push, and only
\* then does the routine forget the buffer.
Post(w) ==
  /\ pc[w] = "post"
  /\ sem' = [sem EXCEPT ![w] = @ + 1]
  /\ output' = [output EXCEPT ![w] = NULL]
  /\ readyPush' = [readyPush EXCEPT ![w] = FALSE]
  /\ Goto(w, Continue(w, NULL))
  /\ UNCHANGED <<input, readyPull, done, flags, pool, fifo, item, main, waiting, stream>>

\* Mutant: a buffer that could not be pushed is not pushed again.
SetDone_GivesUp(w) ==
  /\ pc[w] = "idle"
  /\ done' = [done EXCEPT ![w] = 1]
  /\ readyPush' = [readyPush EXCEPT ![w] = FALSE]
  /\ Goto(w, "gate")
  /\ UNCHANGED <<output, input, readyPull, flags, pipes, main, waiting, stream>>

\* mtdp_set_done and early return, after a failed push or a time-out.
SetDone(w) ==
  /\ pc[w] = "idle"
  /\ done' = [done EXCEPT ![w] = 1]
  /\ Goto(w, "gate")
  /\ UNCHANGED <<context, flags, pipes, main, waiting, stream>>

\* Mutant: the result of the acquisition is ignored.
TryAcquire_IgnoresTimeout(w) ==
  /\ pc[w] = "acquire"
  /\ sem' = [sem EXCEPT ![w - 1] = @ - 1]
  /\ Goto(w, "undone")
  /\ UNCHANGED <<context, done, flags, pool, fifo, item, main, waiting, stream>>

\* Mutant: the acquisition has no time-out.
TryAcquire_Blocks(w) ==
  /\ pc[w] = "acquire"
  /\ sem[w - 1] > 0
  /\ sem' = [sem EXCEPT ![w - 1] = @ - 1]
  /\ Goto(w, "undone")
  /\ UNCHANGED <<context, done, flags, pool, fifo, item, main, waiting, stream>>

\* mtdp_semaphore_try_acquire_for on the input pipe: a token, or a time-out.
TryAcquire(w) ==
  /\ pc[w] = "acquire"
  /\ IF sem[w - 1] > 0
       THEN /\ sem' = [sem EXCEPT ![w - 1] = @ - 1]
            /\ Goto(w, "undone")
       ELSE /\ Goto(w, "idle")
            /\ UNCHANGED sem
  /\ UNCHANGED <<context, done, flags, pool, fifo, item, main, waiting, stream>>

\* mtdp_unset_done once a token was acquired.
UnsetDone(w) ==
  /\ pc[w] = "undone"
  /\ done' = [done EXCEPT ![w] = 0]
  /\ Goto(w, "pull")
  /\ UNCHANGED <<context, flags, pipes, main, waiting, stream>>

\* Mutant: the newest full buffer is taken.
GetFullBuffer_Newest(w) ==
  /\ pc[w] = "pull"
  /\ fifo[w - 1] # <<>>
  /\ input' = [input EXCEPT ![w] = fifo[w - 1][Len(fifo[w - 1])]]
  /\ fifo' = [fifo EXCEPT ![w - 1] = SubSeq(@, 1, Len(@) - 1)]
  /\ readyPull' = [readyPull EXCEPT ![w] = FALSE]
  /\ Goto(w, IF w \in Stage /\ output[w] = NULL THEN "take" ELSE "process")
  /\ UNCHANGED <<output, readyPush, done, flags, pool, sem, item, main, waiting, stream>>

\* mtdp_pipe_get_full_buffer; on an empty FIFO the token is given back.
GetFullBuffer(w) ==
  /\ pc[w] = "pull"
  /\ IF fifo[w - 1] = <<>>
       THEN /\ sem' = [sem EXCEPT ![w - 1] = @ + 1]
            /\ Goto(w, "gate")
            /\ UNCHANGED <<input, readyPull, fifo>>
       ELSE /\ input' = [input EXCEPT ![w] = Head(fifo[w - 1])]
            /\ fifo' = [fifo EXCEPT ![w - 1] = Tail(@)]
            /\ readyPull' = [readyPull EXCEPT ![w] = FALSE]
            /\ Goto(w, IF w \in Stage /\ output[w] = NULL THEN "take" ELSE "process")
            /\ UNCHANGED sem
  /\ UNCHANGED <<output, readyPush, done, flags, pool, item, main, waiting, stream>>

\* Mutant: the callback runs even when the pool was empty.
GetEmptyBuffer_NoCheck(w) ==
  /\ pc[w] = "take"
  /\ IF pool[w] = {}
       THEN UNCHANGED <<output, pool>>
       ELSE \E b \in pool[w] : /\ output' = [output EXCEPT ![w] = b]
                               /\ pool' = [pool EXCEPT ![w] = @ \ {b}]
  /\ Goto(w, "process")
  /\ UNCHANGED <<input, readyPush, readyPull, done, flags, fifo, sem, item, main,
                 waiting, stream>>

\* mtdp_pipe_get_empty_buffer; on an empty pool the routine yields.
GetEmptyBuffer(w) ==
  /\ pc[w] = "take"
  /\ IF pool[w] = {}
       THEN /\ Goto(w, "gate")
            /\ UNCHANGED <<output, pool>>
       ELSE /\ \E b \in pool[w] :
                 /\ output' = [output EXCEPT ![w] = b]
                 /\ pool' = [pool EXCEPT ![w] = @ \ {b}]
            /\ Goto(w, "process")
  /\ UNCHANGED <<input, readyPush, readyPull, done, flags, fifo, sem, item, main,
                 waiting, stream>>

\* The source callback.  It may set ready_to_push, having filled the
\* buffer with the next item, and may call mtdp_source_finished.
SourceProcess ==
  /\ pc[Source] = "process"
  /\ \E act \in SourceActs :
       /\ act.push => produced < MaxItems
       /\ readyPush' = [readyPush EXCEPT ![Source] = act.push]
       /\ IF act.push
            THEN /\ produced' = produced + 1
                 /\ item' = [item EXCEPT ![0][output[Source]] = produced + 1]
            ELSE UNCHANGED <<produced, item>>
       /\ IF act.finish
            THEN /\ done' = [done EXCEPT ![Source] = 1]
                 /\ Goto(Source, "finish")
            ELSE /\ Goto(Source, "gate")
                 /\ UNCHANGED done
  /\ UNCHANGED <<output, input, readyPull, flags, pool, fifo, sem, main, waiting, consumed>>

\* The second half of mtdp_source_finished: mtdp_worker_destroy.
SourceFinished ==
  /\ pc[Source] = "finish"
  /\ wDestroyed' = [wDestroyed EXCEPT ![Source] = TRUE]
  /\ Goto(Source, "gate")
  /\ UNCHANGED <<context, done, wEnabled, pipes, main, waiting, stream>>

\* The pipe gets buffer b back empty: mtdp_pipe_put_back.  It cannot fail:
\* the pool array has room for all the buffers of the pipe.
PutBack(p, b) == pool' = [pool EXCEPT ![p] = @ \cup {b}]

\* A stage callback, with the put-back of the input that follows it.  An
\* output made ready carries the item of the input it was computed from.
StageProcess(w) ==
  /\ w \in Stage /\ pc[w] = "process"
  /\ IF input[w] = NULL
       THEN /\ readyPull' = [readyPull EXCEPT ![w] = TRUE]
            /\ UNCHANGED <<input, readyPush, pool, item>>
       ELSE \E act \in StageActs :
              /\ readyPush' = [readyPush EXCEPT ![w] = act.push]
              /\ readyPull' = [readyPull EXCEPT ![w] = act.pull]
              /\ item' = [item EXCEPT
                   ![w][output[w]]    = IF act.push THEN item[w - 1][input[w]] ELSE @,
                   ![w - 1][input[w]] = IF act.pull THEN 0 ELSE @]
              /\ IF act.pull
                   THEN /\ PutBack(w - 1, input[w])
                        /\ input' = [input EXCEPT ![w] = NULL]
                   ELSE UNCHANGED <<input, pool>>
  /\ Goto(w, "gate")
  /\ UNCHANGED <<output, done, flags, fifo, sem, main, waiting, stream>>

\* The sink callback.  The input is put back by the next call of the routine.
SinkProcess ==
  /\ pc[Sink] = "process"
  /\ IF input[Sink] = NULL
       THEN /\ readyPull' = [readyPull EXCEPT ![Sink] = TRUE]
            /\ UNCHANGED consumed
       ELSE /\ \E ready \in SinkActs : readyPull' = [readyPull EXCEPT ![Sink] = ready]
            /\ consumed' = item[NStages][input[Sink]]
  /\ Goto(Sink, "gate")
  /\ UNCHANGED <<output, input, readyPush, done, flags, pipes, main, waiting, produced>>

SinkReturn ==
  /\ pc[Sink] = "return"
  /\ PutBack(NStages, input[Sink])
  /\ item' = [item EXCEPT ![NStages][input[Sink]] = 0]
  /\ input' = [input EXCEPT ![Sink] = NULL]
  /\ Goto(Sink, "acquire")
  /\ UNCHANGED <<output, readyPush, readyPull, done, flags, fifo, sem, main, waiting, stream>>

WorkerStep(w) ==
  \/ Gate(w)
  \/ PushBuffer(w)
  \/ Post(w)
  \/ SetDone(w)
  \/ TryAcquire(w)
  \/ UnsetDone(w)
  \/ GetFullBuffer(w)
  \/ GetEmptyBuffer(w)
  \/ w = Source /\ (SourceProcess \/ SourceFinished)
  \/ StageProcess(w)
  \/ w = Sink /\ (SinkProcess \/ SinkReturn)

-----------------------------------------------------------------------------
(***************************************************************************)
(* The controlling thread.  Each call is its guard (a call in the wrong    *)
(* state only reports an error), one step per worker, and its final        *)
(* assignments.                                                            *)
(***************************************************************************)

\* mtdp_pipeline_enable creates the threads from the sink to the source.
EnableCall ==
  /\ mpc = "idle" /\ ~enabled
  /\ sessions < MaxSessions
  /\ sessions' = sessions + 1
  /\ mpc' = "enable" /\ mi' = Sink
  /\ UNCHANGED <<pc, context, done, flags, pipes, enabled, active, destroying, waiting, stream>>

\* mtdp_{sink,stage,source}_create_thread: reset the context and `done',
\* create the thread.
CreateThread ==
  /\ mpc = "enable" /\ mi \in Worker
  /\ readyPush' = [readyPush EXCEPT ![mi] = FALSE]
  /\ readyPull' = [readyPull EXCEPT ![mi] = (mi # Source)]
  /\ input' = [input EXCEPT ![mi] = NULL]
  /\ output' = [output EXCEPT ![mi] = NULL]
  /\ done' = [done EXCEPT ![mi] = 0]
  /\ Goto(mi, "gate")
  /\ mi' = mi - 1
  /\ UNCHANGED <<flags, pipes, mpc, enabled, active, destroying, sessions, waiting, stream>>

EnableReturn ==
  /\ mpc = "enable" /\ mi = -1
  /\ enabled' = TRUE /\ active' = FALSE
  /\ mpc' = "idle" /\ mi' = 0
  /\ UNCHANGED <<pc, context, done, flags, pipes, destroying, sessions, waiting, stream>>

\* mtdp_pipeline_start enables the workers from the sink to the source.
StartCall ==
  /\ mpc = "idle" /\ enabled /\ ~active
  /\ mpc' = "start" /\ mi' = Sink
  /\ UNCHANGED <<pc, context, done, flags, pipes, enabled, active, destroying, sessions,
                 waiting, stream>>

EnableWorker ==
  /\ mpc = "start" /\ mi \in Worker
  /\ wEnabled' = [wEnabled EXCEPT ![mi] = TRUE]
  /\ mi' = mi - 1
  /\ UNCHANGED <<pc, context, done, wDestroyed, pipes, mpc, enabled, active, destroying,
                 sessions, waiting, stream>>

StartReturn ==
  /\ mpc = "start" /\ mi = -1
  /\ active' = TRUE
  /\ mpc' = "idle" /\ mi' = 0
  /\ UNCHANGED <<pc, context, done, flags, pipes, enabled, destroying, sessions, waiting, stream>>

\* mtdp_pipeline_stop disables the workers from the source to the sink.
StopCall ==
  /\ mpc = "idle" /\ enabled /\ active
  /\ mpc' = "stop" /\ mi' = Source
  /\ UNCHANGED <<pc, context, done, flags, pipes, enabled, active, destroying, sessions,
                 waiting, stream>>

DisableWorker ==
  /\ mpc = "stop" /\ mi \in Worker
  /\ wEnabled' = [wEnabled EXCEPT ![mi] = FALSE]
  /\ mi' = mi + 1
  /\ UNCHANGED <<pc, context, done, wDestroyed, pipes, mpc, enabled, active, destroying,
                 sessions, waiting, stream>>

StopReturn ==
  /\ mpc = "stop" /\ mi = Sink + 1
  /\ active' = FALSE
  /\ mpc' = "idle" /\ mi' = 0
  /\ UNCHANGED <<pc, context, done, flags, pipes, enabled, destroying, sessions, waiting, stream>>

\* mtdp_pipeline_disable destroys the workers from the source to the sink.
DisableCall ==
  /\ mpc = "idle" /\ enabled
  /\ destroying' = 1
  /\ mpc' = "kill" /\ mi' = Source
  /\ UNCHANGED <<pc, context, done, flags, pipes, enabled, active, sessions, waiting, stream>>

\* First half of mtdp_*_destroy.  mtdp_source_destroy sets `done' and then
\* destroys the worker; the stages and the sink do it the other way round.
DestroyFirst ==
  /\ mpc = "kill" /\ mi \in Worker
  /\ IF mi = Source
       THEN done' = [done EXCEPT ![mi] = 1] /\ UNCHANGED wDestroyed
       ELSE wDestroyed' = [wDestroyed EXCEPT ![mi] = TRUE] /\ UNCHANGED done
  /\ mpc' = "ring"
  /\ UNCHANGED <<pc, context, wEnabled, pipes, mi, enabled, active, destroying, sessions,
                 waiting, stream>>

DestroySecond ==
  /\ mpc = "ring"
  /\ IF mi = Source
       THEN wDestroyed' = [wDestroyed EXCEPT ![mi] = TRUE] /\ UNCHANGED done
       ELSE done' = [done EXCEPT ![mi] = 1] /\ UNCHANGED wDestroyed
  /\ IF mi = Sink THEN mpc' = "join" /\ mi' = 0
                  ELSE mpc' = "kill" /\ mi' = mi + 1
  /\ UNCHANGED <<pc, context, wEnabled, pipes, enabled, active, destroying, sessions,
                 waiting, stream>>

\* Mutant: the inputs of the consumers are forgotten.
Held_OutputOnly(p) == {output[p]} \ {NULL}

\* The buffers of pipe p that threads hold: the producer's output and the
\* consumer's input.
Held(p) == {output[p], input[p + 1]} \ {NULL}
FullSet(p) == {fifo[p][i] : i \in 1..Len(fifo[p])}

\* mtdp_pipeline_join, then mtdp_pipeline_clear: the threads are gone, every
\* buffer they held or had queued returns to its pool; the semaphores stay.
JoinAndClear ==
  /\ mpc = "join"
  /\ \A w \in Worker : pc[w] = "exited"
  /\ pc' = [w \in Worker |-> "none"]
  /\ pool' = [p \in Pipe |-> pool[p] \cup FullSet(p) \cup Held(p)]
  /\ fifo' = [p \in Pipe |-> <<>>]
  /\ item' = [p \in Pipe |-> [b \in Buffer |-> 0]]
  /\ output' = [w \in Worker |-> NULL]
  /\ input' = [w \in Worker |-> NULL]
  /\ mpc' = "refix" /\ mi' = 1
  /\ UNCHANGED <<readyPush, readyPull, done, flags, sem, enabled, active, destroying,
                 sessions, waiting, stream>>

\* Mutant: the first internal stage is left out.
SetDoneAgain_SkipsFirst ==
  /\ mpc = "refix"
  /\ IF mi + 1 \in Stage
       THEN /\ done' = [done EXCEPT ![mi + 1] = 1]
            /\ mi' = mi + 1
            /\ UNCHANGED mpc
       ELSE /\ mpc' = "off" /\ mi' = 0
            /\ UNCHANGED done
  /\ UNCHANGED <<pc, context, flags, pipes, enabled, active, destroying, sessions, waiting, stream>>

\* The `done' of every internal stage is set again, the sink's is not.
SetDoneAgain ==
  /\ mpc = "refix"
  /\ IF mi \in Stage
       THEN /\ done' = [done EXCEPT ![mi] = 1]
            /\ mi' = mi + 1
            /\ UNCHANGED mpc
       ELSE /\ mpc' = "off" /\ mi' = 0
            /\ UNCHANGED done
  /\ UNCHANGED <<pc, context, flags, pipes, enabled, active, destroying, sessions, waiting, stream>>

MarkDisabled ==
  /\ mpc = "off"
  /\ active' = FALSE /\ enabled' = FALSE
  /\ mpc' = "release"
  /\ UNCHANGED <<pc, context, done, flags, pipes, mi, destroying, sessions, waiting, stream>>

DisableReturn ==
  /\ mpc = "release"
  /\ destroying' = 0
  /\ mpc' = "idle"
  /\ UNCHANGED <<pc, context, done, flags, pipes, mi, enabled, active, sessions, waiting, stream>>

\* A call the user decides to make, and the progress of the call being made.
MainCall == EnableCall \/ StartCall \/ StopCall \/ DisableCall
MainStep ==
  \/ CreateThread \/ EnableReturn
  \/ EnableWorker \/ StartReturn
  \/ DisableWorker \/ StopReturn
  \/ DestroyFirst \/ DestroySecond \/ JoinAndClear
  \/ SetDoneAgain \/ MarkDisabled \/ DisableReturn

-----------------------------------------------------------------------------
(***************************************************************************)
(* mtdp_pipeline_wait.  A futex wait returns when the value differs from   *)
(* the expected one, or when the system call fails (EINTR).                *)
(***************************************************************************)
WaitCall(t) ==
  /\ tpc[t] = "ready"
  /\ tpc' = [tpc EXCEPT ![t] = "await"]
  /\ UNCHANGED <<pc, context, done, flags, pipes, main, ti, stream>>

AwaitNotDestroying(t) ==
  /\ tpc[t] = "await"
  /\ destroying # 1 \/ Interrupts
  /\ tpc' = [tpc EXCEPT ![t] = "check"]
  /\ UNCHANGED <<pc, context, done, flags, pipes, main, ti, stream>>

CheckEnabled(t) ==
  /\ tpc[t] = "check"
  /\ tpc' = [tpc EXCEPT ![t] = IF enabled THEN "wait" ELSE "notEnabled"]
  /\ ti' = [ti EXCEPT ![t] = 0]
  /\ UNCHANGED <<pc, context, done, flags, pipes, main, stream>>

\* Wait for the `done' of every worker, from the source to the sink.
WaitDone(t) ==
  /\ tpc[t] = "wait"
  /\ done[ti[t]] # 0 \/ Interrupts
  /\ IF ti[t] = Sink
       THEN /\ tpc' = [tpc EXCEPT ![t] = "test"]
            /\ ti' = [ti EXCEPT ![t] = 0]
       ELSE /\ ti' = [ti EXCEPT ![t] = @ + 1]
            /\ UNCHANGED tpc
  /\ UNCHANGED <<pc, context, done, flags, pipes, main, stream>>

\* Mutant: the second round of reads skips the source.
TestDone_SkipsSource(t) ==
  /\ tpc[t] = "test"
  /\ IF done[ti[t]] = 1 \/ ti[t] = Source
       THEN IF ti[t] = Sink
              THEN /\ tpc' = [tpc EXCEPT ![t] = "ok"]
                   /\ ti' = [ti EXCEPT ![t] = 0]
              ELSE /\ ti' = [ti EXCEPT ![t] = @ + 1]
                   /\ UNCHANGED tpc
       ELSE /\ tpc' = [tpc EXCEPT ![t] = "wait"]
            /\ ti' = [ti EXCEPT ![t] = 0]
  /\ UNCHANGED <<pc, context, done, flags, pipes, main, stream>>

\* Read them all again in the same order; start over if one is not set.
TestDone(t) ==
  /\ tpc[t] = "test"
  /\ IF done[ti[t]] = 1
       THEN IF ti[t] = Sink
              THEN /\ tpc' = [tpc EXCEPT ![t] = "ok"]
                   /\ ti' = [ti EXCEPT ![t] = 0]
              ELSE /\ ti' = [ti EXCEPT ![t] = @ + 1]
                   /\ UNCHANGED tpc
       ELSE /\ tpc' = [tpc EXCEPT ![t] = "wait"]
            /\ ti' = [ti EXCEPT ![t] = 0]
  /\ UNCHANGED <<pc, context, done, flags, pipes, main, stream>>

WaiterStep(t) ==
  AwaitNotDestroying(t) \/ CheckEnabled(t) \/ WaitDone(t) \/ TestDone(t)

-----------------------------------------------------------------------------
Next ==
  \/ \E w \in Worker : WorkerStep(w)
  \/ MainCall
  \/ MainStep
  \/ \E t \in Waiter : WaitCall(t) \/ WaiterStep(t)

Spec == Init /\ [][Next]_vars

\* Every thread that can run does: the scheduler is fair, a timed wait
\* expires, callbacks return.  Nobody is obliged to call the API.
Fairness ==
  /\ \A w \in Worker : WF_vars(WorkerStep(w))
  /\ WF_vars(MainStep)
  /\ \A t \in Waiter : WF_vars(WaiterStep(t))

FairSpec == Spec /\ Fairness

-----------------------------------------------------------------------------
(***************************************************************************)
(* Safety.                                                                 *)
(***************************************************************************)

\* Every variable keeps its type; a worker without an output pipe or an
\* input pipe never holds a buffer of it.
TypeOK ==
  /\ pc \in [Worker -> WorkerPc]
  /\ output \in [Worker -> Buffer \cup {NULL}]
  /\ input \in [Worker -> Buffer \cup {NULL}]
  /\ readyPush \in [Worker -> BOOLEAN]
  /\ readyPull \in [Worker -> BOOLEAN]
  /\ done \in [Worker -> {0, 1}]
  /\ wEnabled \in [Worker -> BOOLEAN]
  /\ wDestroyed \in [Worker -> BOOLEAN]
  /\ pool \in [Pipe -> SUBSET Buffer]
  /\ fifo \in [Pipe -> Seq(Buffer)]
  /\ sem \in [Pipe -> Nat]
  /\ item \in [Pipe -> [Buffer -> Nat]]
  /\ mpc \in MainPc
  /\ mi \in -1..NStages + 2
  /\ enabled \in BOOLEAN /\ active \in BOOLEAN /\ destroying \in {0, 1}
  /\ sessions \in Nat
  /\ tpc \in [Waiter -> WaiterPc]
  /\ ti \in [Waiter -> Worker]
  /\ produced \in Nat /\ consumed \in Nat

\* The two threads of a pipe share buffers without contention: a buffer is
\* in the pool, in the FIFO, in the producer's hands or in the consumer's,
\* and in one of these places only.  The one exception is the window of the
\* routines between the push and `output = NULL', where the producer still
\* points at the buffer it pushed last.
Ownership ==
  \A p \in Pipe :
    /\ pool[p] \cup FullSet(p) \cup Held(p) = Buffer
    /\ pool[p] \cap (FullSet(p) \cup Held(p)) = {}
    /\ \A i, j \in 1..Len(fifo[p]) : fifo[p][i] = fifo[p][j] => i = j
    /\ input[p + 1] # NULL => /\ input[p + 1] \notin FullSet(p)
                              /\ input[p + 1] # output[p]
    /\ pc[p] # "post" => output[p] \notin FullSet(p)

\* Every thread left its routine for good: nothing pushes or pulls anymore.
Flushed == \A w \in Worker : wDestroyed[w] /\ pc[w] \in {"none", "gate", "exited"}

\* The semaphore of a pipe counts its full buffers, but for the token being
\* released after a push and the token acquired before a pop.  (A disabled
\* pipeline empties the FIFOs and leaves the semaphores as they are.)
Tokens(p) ==
  Len(fifo[p]) = sem[p] + (IF pc[p] = "post" THEN 1 ELSE 0)
                        + (IF pc[p + 1] \in {"undone", "pull"} THEN 1 ELSE 0)
TokensMatch == Flushed \/ \A p \in Pipe : Tokens(p)

\* A callback finds the buffers its documentation promises ("no checks from
\* the user are required", stage.h): never a NULL input or output.
CallbackHasBuffers ==
  \A w \in Worker : pc[w] = "process" => /\ w # Sink => output[w] # NULL
                                         /\ w # Source => input[w] # NULL

\* A disabled pipeline runs no thread and has every buffer back in its pool.
DisabledIsClean ==
  mpc = "idle" /\ ~enabled =>
    /\ \A w \in Worker : pc[w] = "none" /\ input[w] = NULL /\ output[w] = NULL
    /\ \A p \in Pipe : pool[p] = Buffer /\ fifo[p] = <<>>

\* A disable leaves the `done' of the source and of every stage set, however
\* the threads it was destroying raced it to clear them, so that none of
\* these keeps a thread in mtdp_pipeline_wait.  (The sink's may stay clear:
\* see DisableResumesWaiter.)
DisabledIsDone ==
  mpc \in {"off", "release"} \/ (mpc = "idle" /\ ~enabled /\ sessions > 0) =>
    \A w \in Worker \ {Sink} : done[w] = 1

\* The sink never sees an older item after a newer one, whatever the
\* stages do with their inputs, the pauses in between included.
NeverBackwards == [][consumed' >= consumed]_consumed

\* mtdp_source_finished or mtdp_pipeline_disable has declared the source over.
SourceOver == wDestroyed[Source] \/ pc[Source] = "finish" \/ (mpc = "ring" /\ mi = Source)

\* mtdp_pipeline_wait reports the end of a stream only when the source was
\* declared over.  (While its pushes succeed: a failed push sets the source's
\* `done', and nothing but a new session clears it.)
WaitReturnsAfterSource ==
  [][\A t \in Waiter : tpc[t] = "test" /\ tpc'[t] = "ok" => SourceOver]_vars

(***************************************************************************)
(* Liveness.                                                               *)
(***************************************************************************)

\* The pipeline is active and nobody is changing its state.
Running == active /\ mpc = "idle"

\* mtdp_pipeline_disable returns, whatever the workers were doing.
DisableTerminates == mpc = "kill" ~> mpc = "idle"

\* Data the source filled reaches the sink while the pipeline is left
\* running, if the source does not call mtdp_source_finished in the call that
\* filled the buffer.
FilledIsConsumed == \A i \in 1..MaxItems : produced >= i ~> (consumed >= i \/ ~Running)

\* A thread waiting on a pipeline left running resumes once the source called
\* mtdp_source_finished.
FinishResumesWaiter ==
  \A t \in Waiter : tpc[t] = "wait" /\ wDestroyed[Source] ~> (tpc[t] = "ok" \/ ~Running)

\* After mtdp_pipeline_stop every thread ends up asleep (or has exited).
StopSleeps ==
  (mpc = "idle" /\ enabled /\ ~active) ~>
    (\/ \A w \in Worker : pc[w] \in {"gate", "exited"}
     \/ mpc # "idle")

(***************************************************************************)
(* Statements of the documentation the runs refute.                        *)
(***************************************************************************)

\* pipeline.h, mtdp_pipeline_disable: a thread waiting on a pipeline that is
\* disabled resumes.
DisableResumesWaiter ==
  \A t \in Waiter : (tpc[t] = "wait" /\ mpc = "kill") ~> tpc[t] = "ok"

\* pipeline.h, mtdp_pipeline_wait: on a running pipeline it returns when no
\* stage is processing data: no full buffer is left, no input is held.
WaitReturnsQuiescent ==
  [][\A t \in Waiter : tpc[t] = "test" /\ tpc'[t] = "ok" /\ Running =>
       \A p \in Pipe : fifo[p] = <<>> /\ input[p + 1] = NULL]_vars

\* pipeline.h, mtdp_pipeline_enable: the threads are idle after an enable,
\* and the pipeline can be started.
EnableMakesThreads ==
  [][mpc = "enable" /\ mpc' = "idle" =>
       \A w \in Worker : pc[w] = "gate" /\ ~wDestroyed[w]]_vars
=============================================================================
