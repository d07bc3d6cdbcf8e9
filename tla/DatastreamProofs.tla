-------------------------- MODULE DatastreamProofs --------------------------
(***************************************************************************)
(* Theorems about the two example programs.  Each step of a program is a   *)
(* step of the library or leaves it alone, so that what is known of the    *)
(* pipeline holds under a program too.                                     *)
(***************************************************************************)
EXTENDS Datastream, PipelineOwnershipProofs

\* A program uses the pipeline through its interface only.
LEMMA ProgramSteps == [DNext]_dvars => [Next]_vars
<1> SUFFICES ASSUME [DNext]_dvars PROVE [Next]_vars
  OBVIOUS
<1>1. ASSUME NEW w \in Worker, Work(w) PROVE Next
  BY <1>1 DEF Work, Next
<1>2. ASSUME NEW t \in Waiter, WaitOn(t) PROVE Next
  BY <1>2 DEF WaitOn, Next
<1>3. CASE Library
  BY <1>3 DEF Library, Next
<1>4. CASE Program \/ InfiniteKey
  BY <1>4 DEF Program, InfiniteKey, Enable, Disable, FreeBuffers, Destroy, FiniteStart,
     FiniteSpawn, FiniteStop, FiniteRestart, FiniteJoin, InfiniteStart, InfiniteStop,
     InfiniteLast, MainCall, Next
<1>5. CASE UNCHANGED dvars
  BY <1>5 DEF dvars
<1> QED BY <1>1, <1>2, <1>3, <1>4, <1>5 DEF DNext

\* Whatever the run-time protocol promises, it promises to the two programs:
\* their behaviours are behaviours of the pipeline.
THEOREM ProgramsUsePipeline == DSpec => Spec
<1>1. DInit => Init
  BY DEF DInit
<1> QED BY <1>1, ProgramSteps, PTL DEF DSpec, Spec

\* From the call of mtdp_pipeline_disable on, the controlling thread is in
\* that call or has returned from it, and the pipeline is not enabled again.
\* The buffers are freed once the call has returned, and all of them are.
Disabling == mpc \in {"kill", "ring", "join", "refix", "off", "release"}
Disabled  == mpc = "idle" /\ ~enabled
FreedInv ==
  /\ line = "free" => (Disabling \/ mpc = "idle") /\ (mpc \in {"release", "idle"} => ~enabled)
  /\ line \in {"destroy", "exit"} => Disabled /\ freed = [p \in Pipe |-> Buffer]
  /\ line \notin {"destroy", "exit"} => freed = [p \in Pipe |-> {}]

\* The actions of the programs that free nothing.
LEMMA FreedFrame ==
  ASSUME NEW w \in Worker, FreedInv, Inv, Work(w) \/ \E t \in Waiter : WaitOn(t)
  PROVE  FreedInv'
<1>1. UNCHANGED <<main, program_vars>>
  BY DEF Work, WorkerStep, Gate, PushBuffer, Post, SetDone, TryAcquire, UnsetDone,
     GetFullBuffer, GetEmptyBuffer, SourceProcess, SourceFinished, StageProcess, SinkProcess,
     SinkReturn, WaitOn, WaitCall, WaiterStep, AwaitNotDestroying, CheckEnabled, WaitDone, TestDone
<1> QED BY <1>1 DEF FreedInv, Disabling, Disabled, main, program_vars

LEMMA NextFreedInv ==
  ASSUME Inv, DisabledIsClean, FreedInv, [DNext]_dvars
  PROVE  FreedInv'
<1> USE DEF FreedInv, Disabling, Disabled
<1>1. CASE (\E w \in Worker : Work(w)) \/ \E t \in Waiter : WaitOn(t)
  <2>1. Source \in Worker
    BY NStagesAssumption DEF Worker, Source
  <2> QED BY <1>1, <2>1, FreedFrame
<1>2. CASE Library
  BY <1>2 DEF Library, program_vars, MainStep, CreateThread, EnableReturn, EnableWorker,
     StartReturn, DisableWorker, StopReturn, DestroyFirst, DestroySecond, JoinAndClear,
     SetDoneAgain, MarkDisabled, DisableReturn
<1>3. CASE Program \/ InfiniteKey
  <2>1. CASE Disable
    BY <2>1 DEF Disable, Line, DisableCall
  <2>2. CASE FreeBuffers
    <3>1. line = "free" /\ line' = "destroy" /\ UNCHANGED main /\ freed' = pool /\ Disabled
      BY <2>2 DEF FreeBuffers, Line, vars
    <3>2. pool = [p \in Pipe |-> Buffer]
      BY <3>1 DEF DisabledIsClean, Inv, TypeOK
    <3> QED BY <3>1, <3>2 DEF main
  <2>3. CASE Destroy
    BY <2>3 DEF Destroy, Line, vars, main
  <2>4. CASE (Program /\ ~Disable /\ ~FreeBuffers /\ ~Destroy) \/ InfiniteKey
    <3>1. /\ line \notin {"free", "destroy", "exit"} /\ line' \notin {"free", "destroy", "exit"}
          /\ UNCHANGED freed
      BY <2>4 DEF Program, InfiniteKey, Enable, FiniteStart, FiniteSpawn, FiniteStop,
         FiniteRestart, FiniteJoin, InfiniteStart, InfiniteStop, InfiniteLast, Finite, Infinite, Line
    <3> QED BY <3>1
  <2> QED BY <1>3, <2>1, <2>2, <2>3, <2>4
<1>4. CASE UNCHANGED dvars
  BY <1>4 DEF dvars, vars, main, program_vars
<1> QED BY <1>1, <1>2, <1>3, <1>4 DEF DNext

\* Everything that is known of a pipeline and of the buffers freed.
DInv == OwnInv /\ Emptied /\ FreedInv

LEMMA InitDInv == DInit => DInv
BY InitOwnInv, InitEmptied DEF DInit, DInv, FreedInv

LEMMA NextDInv == DInv /\ [DNext]_dvars => DInv'
BY ProgramSteps, NextOwnInv, NextEmptied, CleanInv, NextFreedInv DEF DInv, OwnInv, TokenInv

\* The programs free the buffers when the disable has joined all threads and
\* cleared their contexts, and no call brings a thread back.
THEOREM FreedIsUnused == DSpec => []NothingUsesFreed
<1>1. DInv => NothingUsesFreed
  <2> SUFFICES ASSUME DInv, NEW p \in Pipe, freed[p] # {}
               PROVE  \A w \in Worker : pc[w] = "none" /\ output[w] = NULL /\ input[w] = NULL
    BY DEF NothingUsesFreed
  <2>1. mpc = "idle" /\ ~enabled
    BY DEF DInv, FreedInv, Disabled
  <2> QED BY <2>1, CleanInv DEF DInv, DisabledIsClean
<1> QED BY <1>1, InitDInv, NextDInv, PTL DEF DSpec

\* ... and it has put every buffer back where the programs look for them.
THEOREM AllAreFreed == DSpec => []EveryBufferFreed
<1>1. DInv => EveryBufferFreed
  BY DEF DInv, FreedInv, EveryBufferFreed
<1> QED BY <1>1, InitDInv, NextDInv, PTL DEF DSpec

\* The finite program has two blocks' worth of buffers in each pipe.  As long
\* as the allocator serves the source its waits, paused and resumed with the
\* pipeline, report the end of the stream only when it has come.
THEOREM ProgramsWait == DSpec /\ PushesSucceed => WaitReturnsAfterSource
BY ProgramsUsePipeline, WaitIsNotEarly, PTL
=============================================================================
