----------------------------- MODULE Datastream -----------------------------
(***************************************************************************)
(* The two example programs on top of the pipeline.  finite_datastream     *)
(* starts a source that finishes by itself, pauses the pipeline once, and  *)
(* joins threads that wait for the end; infinite_datastream starts and     *)
(* stops an endless source until the user asks for the end.  Both disable  *)
(* the pipeline, free the buffers they find in the pools and destroy it.   *)
(* The sleeps are of any length.                                           *)
(***************************************************************************)
EXTENDS Pipeline

VARIABLES
  program,   \* the program that runs: "finite" or "infinite"
  line,      \* where its main function is
  started,   \* the threads of wait_on that were created
  freed      \* freed[p]: the buffers of pipe p that were given to free()

program_vars == <<program, line, started, freed>>
dvars == <<vars, program_vars>>

\* The pipeline was created, configured and given its buffers.
DInit ==
  /\ Init
  /\ program \in {"finite", "infinite"}
  /\ line = "enable"
  /\ started = {}
  /\ freed = [p \in Pipe |-> {}]

Line(from, to) == line = from /\ line' = to

-----------------------------------------------------------------------------
(* The callbacks.  Those of the stage and of the sink are the same in both *)
(* programs, and handle a buffer with each call.                           *)

\* The finite source fills a buffer with each call, and finishes when its
\* time is over, at the latest with item MaxItems.
FinitePayload ==
  /\ SourceProcess
  /\ readyPush'[Source]
  /\ produced' = MaxItems => pc'[Source] = "finish"

\* The infinite source fills a buffer with each call, up to the bound.
InfinitePayload ==
  /\ SourceProcess
  /\ pc'[Source] = "gate"
  /\ readyPush'[Source] = (produced < MaxItems)

SourcePayload == IF program = "finite" THEN FinitePayload ELSE InfinitePayload

Work(w) ==
  /\ WorkerStep(w)
  /\ w = Source /\ pc[w] = "process" => SourcePayload
  /\ UNCHANGED program_vars

-----------------------------------------------------------------------------
(* What the two main functions have in common.  A call of the library      *)
(* begins here and goes on with MainStep.                                  *)

Enable == Line("enable", "start") /\ EnableCall /\ UNCHANGED <<program, started, freed>>

\* Mutant: the buffers are freed while the pipeline is only stopped.
Disable_Forgotten ==
  Line("disable", "free") /\ mpc = "idle" /\ UNCHANGED <<vars, program, started, freed>>

Disable == Line("disable", "free") /\ DisableCall /\ UNCHANGED <<program, started, freed>>

\* The first N_BUFFERS entries of the array mtdp_pipe_buffers returns: the
\* empty buffers of the pipe, and nothing else if they are all empty.
FreeBuffers ==
  /\ Line("free", "destroy") /\ mpc = "idle"
  /\ freed' = pool
  /\ UNCHANGED <<vars, program, started>>

\* mtdp_pipeline_destroy, of a pipeline that is disabled.
Destroy ==
  /\ Line("destroy", "exit")
  /\ UNCHANGED <<vars, program, started, freed>>

(* finite_datastream: start, create the waiting threads, stop, start again, *)
(* join them.                                                              *)

Finite == program = "finite" /\ UNCHANGED <<program, freed>>

FiniteStart  == Finite /\ Line("start", "spawn") /\ StartCall /\ UNCHANGED started
FiniteSpawn ==
  /\ Finite /\ line = "spawn" /\ mpc = "idle"
  /\ IF started = Waiter
       THEN line' = "stop" /\ UNCHANGED started
       ELSE UNCHANGED line /\ \E t \in Waiter \ started : started' = started \cup {t}
  /\ UNCHANGED vars
FiniteStop    == Finite /\ Line("stop", "restart") /\ StopCall /\ UNCHANGED started

\* Mutant: the pipeline is not started again before the threads are joined.
FiniteRestart_Forgotten ==
  Finite /\ Line("restart", "join") /\ UNCHANGED <<vars, started>>

FiniteRestart == Finite /\ Line("restart", "join") /\ StartCall /\ UNCHANGED started

FiniteJoin ==
  /\ Finite /\ Line("join", "disable") /\ mpc = "idle"
  /\ \A t \in Waiter : tpc[t] \in {"ok", "notEnabled"}
  /\ UNCHANGED <<vars, started>>

(* infinite_datastream: start and stop as long as the user resumes.        *)

Infinite == program = "infinite" /\ UNCHANGED <<program, started, freed>>

InfiniteStart == Infinite /\ Line("start", "stop") /\ StartCall
InfiniteStop  == Infinite /\ Line("stop", "key") /\ StopCall
InfiniteLast  == Infinite /\ Line("last", "disable") /\ StartCall

\* The user's keys r, x, and d or q.
InfiniteKey ==
  /\ Infinite /\ mpc = "idle"
  /\ \/ Line("key", "start") \/ Line("key", "last") \/ Line("key", "disable")
  /\ UNCHANGED vars

Program ==
  \/ Enable \/ Disable \/ FreeBuffers \/ Destroy
  \/ FiniteStart \/ FiniteSpawn \/ FiniteStop \/ FiniteRestart \/ FiniteJoin
  \/ InfiniteStart \/ InfiniteStop \/ InfiniteLast

\* wait_on, in a thread that was created.
WaitOn(t) ==
  /\ t \in started
  /\ WaitCall(t) \/ WaiterStep(t)
  /\ UNCHANGED program_vars

Library == MainStep /\ UNCHANGED program_vars

DNext ==
  \/ \E w \in Worker : Work(w)
  \/ \E t \in Waiter : WaitOn(t)
  \/ Library \/ Program \/ InfiniteKey

\* Sleeps end and threads run; the user may leave the keyboard alone.
DSpec ==
  /\ DInit /\ [][DNext]_dvars
  /\ \A w \in Worker : WF_dvars(Work(w))
  /\ \A t \in Waiter : WF_dvars(WaitOn(t))
  /\ WF_dvars(Library) /\ WF_dvars(Program)

-----------------------------------------------------------------------------
\* The comment of infinite_datastream: "the pipeline shall not be operating
\* while we are deallocating buffers".  Once they are freed there is no thread
\* and no context that could use one.
NothingUsesFreed ==
  (\E p \in Pipe : freed[p] # {}) =>
    \A w \in Worker : pc[w] = "none" /\ output[w] = NULL /\ input[w] = NULL

\* Every buffer the program allocated is freed, and none of them twice: each
\* is back in the array mtdp_pipe_buffers returns, wherever the disable found it.
EveryBufferFreed == line \in {"destroy", "exit"} => \A p \in Pipe : freed[p] = Buffer

\* Both programs end, the infinite one when its user wants it to: the waiting
\* threads resume after the source finished, the pause included, and can be
\* joined, and so can the threads of the pipeline.
ProgramEnds == (program = "finite" \/ line = "disable") ~> line = "exit"

=============================================================================
