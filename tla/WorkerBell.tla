----------------------------- MODULE WorkerBell -----------------------------
(***************************************************************************)
(* One thread of a pipeline with its `done' word, from its creation to     *)
(* the end of mtdp_pipeline_disable: the routine sets and unsets the word, *)
(* the controlling thread enables, disables and at last destroys the       *)
(* worker and rings, and other threads wait for the ring.                  *)
(***************************************************************************)
EXTENDS Worker, FiniteSets

CONSTANT Waiter

VARIABLES
  done, waiting, waking,   \* of Bell
  kind,      \* what the thread runs: a source, a stage or a sink
  routine,   \* what the current call of the routine has done so far
  main       \* where the controlling thread is

B == INSTANCE Bell WITH Ringer <- Caller

bell == <<done, waiting, waking>>
vars == <<wvars, bell, kind, routine, main>>

Init ==
  /\ WorkerInit /\ B!BellInit
  /\ kind \in {"source", "stage", "sink"}
  /\ routine = "begun"
  /\ main = "create"

-----------------------------------------------------------------------------
(* The routine.  A source sets `done' when a push fails and in             *)
(* mtdp_source_finished; a stage and the sink set it when they time out or *)
(* when a push fails, and unset it when they get a token.                  *)

RoutineRings ==
  /\ pc = "run" /\ routine = "begun" /\ routine' = "rung"
  /\ \/ B!Store("worker", 1)
     \/ kind # "source" /\ B!Store("worker", 0)
  /\ UNCHANGED <<wvars, kind, main>>

\* mtdp_source_finished.
Finish ==
  /\ pc = "run" /\ routine = "begun" /\ routine' = "finishing"
  /\ kind = "source"
  /\ B!Store("worker", 1)
  /\ UNCHANGED <<wvars, kind, main>>

FinishDestroys ==
  /\ routine = "finishing" /\ ~waking["worker"] /\ routine' = "rung"
  /\ Call("worker", "destroy")
  /\ UNCHANGED <<bell, kind, main>>

RoutineReturns ==
  /\ routine # "finishing" /\ ~waking["worker"] /\ routine' = "begun"
  /\ Return
  /\ UNCHANGED <<bell, kind, main>>

Routine == RoutineRings \/ Finish \/ FinishDestroys \/ RoutineReturns

-----------------------------------------------------------------------------
(* The controlling thread. *)

Goto(from, to) == main = from /\ main' = to
MainFree == call["main"] = NoCall /\ ~waking["main"]

Create == Goto("create", "open") /\ CreateThread /\ UNCHANGED bell

\* mtdp_pipeline_start and mtdp_pipeline_stop.
StartOrStop ==
  /\ main = "open" /\ MainFree
  /\ Call("main", "enable") \/ Call("main", "disable")
  /\ UNCHANGED <<bell, main>>

\* mtdp_source_destroy rings and then destroys the worker;
\* mtdp_stage_destroy and mtdp_sink_destroy do it the other way round.
DestroyFirst ==
  /\ Goto("open", "destroying") /\ MainFree
  /\ IF kind = "source" THEN B!Store("main", 1) /\ UNCHANGED wvars
                        ELSE Call("main", "destroy") /\ UNCHANGED bell

DestroySecond ==
  /\ Goto("destroying", "join") /\ MainFree
  /\ IF kind = "source" THEN Call("main", "destroy") /\ UNCHANGED bell
                        ELSE B!Store("main", 1) /\ UNCHANGED wvars

\* Mutant: the internal stages are not rung again.
RingsAgain_Never == FALSE

\* mtdp_pipeline_disable sets `done' again after the join, of the internal
\* stages only.
RingsAgain == kind = "stage"

Join ==
  /\ Goto("join", "over") /\ MainFree /\ pc = "exited"
  /\ IF RingsAgain THEN B!Store("main", 1) ELSE UNCHANGED bell
  /\ UNCHANGED wvars

MainStep == Create \/ DestroySecond \/ Join

-----------------------------------------------------------------------------
\* The calls of a thread, up to the locks, and the second half of a ring.
Calling(c) ==
  /\ \/ CallStep(c) /\ UNCHANGED bell
     \/ B!Wake(c) /\ UNCHANGED wvars
  /\ UNCHANGED <<kind, routine, main>>

Looping == Loop /\ UNCHANGED <<bell, kind, routine, main>>

\* Taking the mutex, in the loop or in a call.
Locking(c) ==
  /\ (c = "worker" /\ LockMutex) \/ CallLock(c)
  /\ UNCHANGED <<bell, kind, routine, main>>

Controlling == MainStep /\ UNCHANGED <<kind, routine>>

Waiting(t) == B!WaitStep(t) /\ UNCHANGED <<wvars, kind, routine, main>>

\* What may happen and need not.
Choice ==
  \/ (StartOrStop \/ DestroyFirst) /\ UNCHANGED <<kind, routine>>
  \/ SpuriousWakeup /\ UNCHANGED <<bell, kind, routine, main>>
  \/ \E t \in Waiter : B!Interrupted(t) /\ UNCHANGED <<wvars, kind, routine, main>>

Next ==
  \/ Looping \/ Routine \/ Controlling \/ Choice
  \/ \E c \in Caller : Calling(c) \/ Locking(c)
  \/ \E t \in Waiter : Waiting(t)

\* Threads that can run do, and a thread that finds the mutex free again and
\* again takes it in the end: the other one runs a whole routine in between.
Fairness ==
  /\ WF_vars(Looping) /\ WF_vars(Routine) /\ WF_vars(Controlling)
  /\ \A c \in Caller : WF_vars(Calling(c)) /\ SF_vars(Locking(c))
  /\ \A t \in Waiter : WF_vars(Waiting(t))

Spec == Init /\ [][Next]_vars /\ Fairness

-----------------------------------------------------------------------------
TypeOK ==
  /\ enabled \in BOOLEAN /\ destroyed \in BOOLEAN
  /\ mutex \in Caller \cup {"free"}
  /\ pc \in {"none", "loop", "lock", "test", "wait", "asleep", "relock", "unlock",
            "recheck", "run", "exited"}
  /\ call \in [Caller -> Calls]
  /\ late \in {-1} \cup Nat
  /\ done \in {0, 1}
  /\ waiting \in [Waiter -> {"read", "syscall", "asleep", "through"}]
  /\ waking \in [Caller -> BOOLEAN]
  /\ kind \in {"source", "stage", "sink"}
  /\ routine \in {"begun", "rung", "finishing"}
  /\ main \in {"create", "open", "destroying", "join", "over"}

\* No wake-up of the condition variable is lost, though the signal is sent
\* without the mutex: while the thread sleeps with one of its flags set,
\* somebody is about to signal.
NoLostSignal ==
  pc = "asleep" /\ MayPass =>
    \E c \in Caller : call[c].at \in {"unlock", "signal"}

\* After mtdp_worker_disable returned, at most one more call of the routine
\* begins: the one the thread had let itself in for.
OneLateCall == late <= 1

\* No wake-up of a `done' word is lost, though the word is stored without
\* any mutex: while a thread sleeps on a set word, somebody is about to wake
\* every sleeper.
NoLostRing ==
  done = 1 /\ (\E t \in Waiter : waiting[t] = "asleep") =>
    \E r \in Caller : waking[r]

\* Pipeline's single step at the gate is what the loop does with its mutex,
\* its sleep and its two looks at `destroyed'.  The thread is at the gate
\* until the second look; a disable that came after the test under the mutex
\* has not had its effect yet.
At == CASE pc \in {"none", "run", "exited"} -> pc
        [] OTHER                            -> "gate"
On == enabled \/ (pc \in {"unlock", "recheck"} /\ ~destroyed)
G  == INSTANCE Gate WITH on <- On, at <- At

ImplementsGate == G!Spec

\* mtdp_pipeline_disable can join: a destroyed worker's thread exits.
DestroyedExits == main = "destroying" ~> main = "over"

\* A worker that stays enabled is called.
EnabledRuns ==
  (main = "open" /\ enabled /\ MainFree) ~>
    (pc \in {"run", "exited"} \/ main # "open" \/ ~MainFree)

\* After the disable nobody sleeps on the `done' of the source or of a
\* stage, whatever the routine did to it while it was being destroyed.  (The
\* sink's may stay 0.)
WaitersResume ==
  (main = "over" /\ kind # "sink") ~> \A t \in Waiter : waiting[t] = "through"
=============================================================================
