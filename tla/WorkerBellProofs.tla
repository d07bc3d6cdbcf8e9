-------------------------- MODULE WorkerBellProofs --------------------------
(***************************************************************************)
(* Theorems about WorkerBell, for any number of threads that wait for the  *)
(* `done' word and any interleaving of the calls with the worker's loop.   *)
(***************************************************************************)
EXTENDS WorkerBell, TLAPS

\* The mutex has an owner exactly while a thread is between its lock and its
\* unlock: the loop, or a call of one of the three functions.
MutexHeld ==
  /\ mutex = "main" <=> call["main"].at \in {"set", "unlock"}
  /\ mutex = "worker" <=> \/ pc \in {"test", "wait", "unlock"}
                          \/ call["worker"].at \in {"set", "unlock"}

\* The worker's own calls are made by its routine, and only destroy it.
OwnCalls ==
  /\ call["worker"] # NoCall => pc = "run"
  /\ call["worker"].op \in {"none", "destroy"}

\* What the thread learned under the mutex is still true as long as it has
\* the mutex: nothing set a flag before it goes to sleep.
SleepsForCause == pc = "wait" => ~MayPass

\* The worker is disabled from the moment a disable has set the flag, and
\* if it has had its late call, only a destroy lets it pass the test again.
LateCalls ==
  /\ call["main"].op = "disable" /\ call["main"].at \in {"unlock", "signal"} => ~enabled
  /\ late >= 0 => ~enabled
  /\ late <= 1
  /\ late = 1 /\ pc \in {"unlock", "recheck"} => destroyed

Inv ==
  /\ TypeOK /\ MutexHeld /\ OwnCalls /\ SleepsForCause
  /\ NoLostSignal /\ LateCalls

-----------------------------------------------------------------------------
\* The functions that enable, disable and destroy a worker, in the hands of
\* any caller, keep the types of a worker.
WorkerTyped ==
  /\ enabled \in BOOLEAN /\ destroyed \in BOOLEAN
  /\ mutex \in Caller \cup {"free"}
  /\ pc \in {"none", "loop", "lock", "test", "wait", "asleep", "relock", "unlock",
            "recheck", "run", "exited"}
  /\ call \in [Caller -> Calls]
  /\ late \in {-1} \cup Nat

WorkerInv ==
  /\ WorkerTyped /\ MutexHeld /\ OwnCalls /\ SleepsForCause
  /\ NoLostSignal /\ LateCalls

\* A call that moves on is still a call of the same function.
LEMMA AdvanceCall ==
  ASSUME WorkerTyped, NEW c \in Caller, NEW from \in {"lock", "set", "unlock"},
         NEW to \in {"set", "unlock", "signal"}, Advance(c, from, to)
  PROVE  /\ call' \in [Caller -> Calls]
         /\ call[c] # NoCall /\ call[c].at = from
         /\ call'[c].op = call[c].op /\ call'[c].at = to /\ call'[c] # NoCall
         /\ \A d \in Caller \ {c} : call'[d] = call[d]
<1>1. call[c].at = from /\ call' = [call EXCEPT ![c].at = to] /\ call[c] \in Calls
  BY DEF Advance, WorkerTyped
<1>2. call[c] # NoCall
  BY <1>1 DEF NoCall
<1>3. call[c] \in [op : {"enable", "disable", "destroy"}, at : {"lock", "set", "unlock", "signal"}]
  BY <1>1, <1>2 DEF Calls
<1>4. call'[c] = [call[c] EXCEPT !.at = to] /\ \A d \in Caller \ {c} : call'[d] = call[d]
  BY <1>1 DEF WorkerTyped
<1>5. call'[c] \in [op : {"enable", "disable", "destroy"}, at : {"lock", "set", "unlock", "signal"}]
      /\ call'[c].op = call[c].op /\ call'[c].at = to
  BY <1>3, <1>4
<1>6. call'[c] # NoCall
  BY <1>5 DEF NoCall
<1>7. call' \in [Caller -> Calls]
  BY <1>1, <1>5 DEF WorkerTyped, Calls
<1> QED BY <1>1, <1>2, <1>5, <1>4, <1>6, <1>7

\* The steps of the loop.
LEMMA LoopInv ==
  ASSUME WorkerInv, Loop \/ CreateThread \/ LockMutex \/ SpuriousWakeup
  PROVE  WorkerInv'
<1> USE DEF WorkerInv, WorkerTyped, MutexHeld, OwnCalls, SleepsForCause, NoLostSignal,
            LateCalls, MayPass, Caller, NoCall
<1>1. CASE ReadDestroyed
  BY <1>1 DEF ReadDestroyed
<1>2. CASE Test
  BY <1>2 DEF Test
<1>3. CASE Wait
  BY <1>3 DEF Wait
<1>4. CASE UnlockMutex
  BY <1>4 DEF UnlockMutex
<1>5. CASE Recheck
  BY <1>5 DEF Recheck
<1>6. CASE CreateThread
  BY <1>6 DEF CreateThread
<1>7. CASE LockMutex
  BY <1>7 DEF LockMutex
<1>8. CASE SpuriousWakeup
  BY <1>8 DEF SpuriousWakeup
<1> QED BY <1>1, <1>2, <1>3, <1>4, <1>5, <1>6, <1>7, <1>8 DEF Loop

\* The steps of the calls.
LEMMA CallInv ==
  ASSUME WorkerInv, NEW c \in Caller, CallStep(c) \/ CallLock(c)
  PROVE  WorkerInv'
<1> USE DEF WorkerInv, MutexHeld, OwnCalls, SleepsForCause, NoLostSignal, LateCalls, MayPass,
            Caller
<1>1. CASE CallLock(c)
  <2>1. WorkerTyped'
    BY <1>1, AdvanceCall DEF CallLock, WorkerTyped
  <2> QED BY <1>1, <2>1, AdvanceCall DEF CallLock
<1>2. CASE CallSet(c)
  <2>1. WorkerTyped'
    BY <1>2, AdvanceCall DEF CallSet, WorkerTyped
  <2>2. mutex = c /\ pc \notin {"test", "wait", "unlock"}
    BY <1>2, AdvanceCall DEF CallSet
  <2>3. c = "worker" => call[c].op = "destroy"
    BY <1>2, AdvanceCall DEF CallSet, WorkerTyped, Calls
  <2> QED BY <1>2, <2>1, <2>2, <2>3, AdvanceCall DEF CallSet, WorkerTyped
<1>3. CASE CallUnlock(c)
  <2>1. WorkerTyped'
    BY <1>3, AdvanceCall DEF CallUnlock, WorkerTyped
  <2> QED BY <1>3, <2>1, AdvanceCall DEF CallUnlock
<1>4. CASE CallSignal(c)
  <2>1. WorkerTyped'
    BY <1>4 DEF CallSignal, Signalled, WorkerTyped, Calls
  <2>2. call'[c] = NoCall /\ \A d \in Caller \ {c} : call'[d] = call[d]
    BY <1>4 DEF CallSignal, WorkerTyped
  <2> QED BY <1>4, <2>1, <2>2 DEF CallSignal, Signalled, WorkerTyped, NoCall
<1> QED BY <1>1, <1>2, <1>3, <1>4 DEF CallStep

\* A caller that is in no function begins a call; the worker's own thread
\* does so from its routine, to destroy its worker.
LEMMA BeginCall ==
  ASSUME WorkerInv, NEW c \in Caller, NEW o \in {"enable", "disable", "destroy"},
         Call(c, o), c = "worker" => pc = "run" /\ o = "destroy"
  PROVE  WorkerInv'
<1>1. /\ call[c] = NoCall /\ call'[c] = [op |-> o, at |-> "lock"]
      /\ \A d \in Caller \ {c} : call'[d] = call[d]
      /\ call' \in [Caller -> Calls]
  BY DEF Call, WorkerInv, WorkerTyped, Calls
<1> QED BY <1>1 DEF Call, WorkerInv, WorkerTyped, MutexHeld, OwnCalls, SleepsForCause,
          NoLostSignal, LateCalls, MayPass, Caller, NoCall

-----------------------------------------------------------------------------
\* The routine only does something while the thread is in it.
InRoutine == routine # "begun" => pc = "run"

\* Sleeping on the word, and the rest of the composition, typed.
BellTyped ==
  /\ done \in {0, 1}
  /\ waiting \in [Waiter -> {"read", "syscall", "asleep", "through"}]
  /\ waking \in [Caller -> BOOLEAN]
  /\ kind \in {"source", "stage", "sink"}
  /\ routine \in {"begun", "rung", "finishing"}
  /\ main \in {"create", "open", "destroying", "join", "over"}

IInv == WorkerInv /\ BellTyped /\ InRoutine /\ NoLostRing

\* A ring: the word is stored, and whoever stored it owes a wake-up.
LEMMA StoreKeeps ==
  ASSUME BellTyped, NEW c \in Caller, NEW v \in {0, 1}, B!Store(c, v)
  PROVE  /\ done' \in {0, 1} /\ waking' \in [Caller -> BOOLEAN] /\ waiting' = waiting
         /\ NoLostRing'
BY DEF B!Store, BellTyped, NoLostRing

LEMMA InitInv == Init => IInv
<1> SUFFICES ASSUME Init PROVE IInv
  OBVIOUS
<1>1. WorkerTyped
  BY DEF Init, WorkerInit, WorkerTyped, Calls
<1>2. WorkerInv
  BY <1>1 DEF Init, WorkerInit, WorkerInv, MutexHeld, OwnCalls, SleepsForCause, NoLostSignal,
              LateCalls, Caller, NoCall
<1>3. BellTyped /\ InRoutine /\ NoLostRing
  BY DEF Init, B!BellInit, BellTyped, InRoutine, NoLostRing
<1> QED BY <1>2, <1>3 DEF IInv

\* The worker's half of the invariant does not see the bell.
LEMMA WorkerFrame == WorkerInv /\ UNCHANGED wvars => WorkerInv'
BY DEF wvars, WorkerInv, WorkerTyped, MutexHeld, OwnCalls, SleepsForCause, NoLostSignal,
       LateCalls, MayPass

\* The threads that wait see only the word.
LEMMA WaitingInv ==
  ASSUME IInv, NEW t \in Waiter, B!WaitStep(t) \/ B!Interrupted(t),
         UNCHANGED <<wvars, kind, routine, main>>
  PROVE  IInv'
<1>1. waiting' \in [Waiter -> {"read", "syscall", "asleep", "through"}]
  BY DEF IInv, BellTyped, B!WaitStep, B!Read, B!FutexWait, B!Interrupted, B!Goes
<1>2. UNCHANGED <<done, waking>>
  BY DEF B!WaitStep, B!Read, B!FutexWait, B!Interrupted
<1>3. done = 1 => \A u \in Waiter : waiting'[u] = "asleep" => waiting[u] = "asleep"
  BY DEF IInv, BellTyped, B!WaitStep, B!Read, B!FutexWait, B!Interrupted, B!Goes
<1> QED BY <1>1, <1>2, <1>3, WorkerFrame DEF IInv, BellTyped, InRoutine, NoLostRing, wvars

\* What the thread does, in its loop and in its routine.
LEMMA ThreadInv ==
  ASSUME IInv, \/ Looping \/ Routine
               \/ SpuriousWakeup /\ UNCHANGED <<bell, kind, routine, main>>
  PROVE  IInv'
<1>1. CASE Looping
  <2>1. WorkerInv'
    BY <1>1, LoopInv DEF IInv, Looping
  <2>2. InRoutine'
    BY <1>1 DEF Looping, Loop, ReadDestroyed, Test, Wait, UnlockMutex, Recheck, IInv, InRoutine
  <2> QED BY <1>1, <2>1, <2>2 DEF Looping, bell, IInv, BellTyped, NoLostRing
<1>2. CASE RoutineRings
  BY <1>2, StoreKeeps, WorkerFrame DEF RoutineRings, IInv, BellTyped, InRoutine, wvars, Caller
<1>3. CASE Finish
  BY <1>3, StoreKeeps, WorkerFrame DEF Finish, IInv, BellTyped, InRoutine, wvars, Caller
<1>4. CASE FinishDestroys
  <2>1. WorkerInv'
    BY <1>4, BeginCall DEF FinishDestroys, IInv, InRoutine, Caller
  <2> QED BY <1>4, <2>1 DEF FinishDestroys, Call, bell, IInv, BellTyped, InRoutine, NoLostRing
<1>5. CASE RoutineReturns
  <2>1. WorkerInv'
    BY <1>5 DEF RoutineReturns, Return, IInv, WorkerInv, WorkerTyped, MutexHeld, OwnCalls,
                SleepsForCause, NoLostSignal, LateCalls, MayPass
  <2> QED BY <1>5, <2>1 DEF RoutineReturns, Return, bell, IInv, BellTyped, InRoutine, NoLostRing
<1>6. CASE SpuriousWakeup /\ UNCHANGED <<bell, kind, routine, main>>
  <2>1. WorkerInv'
    BY <1>6, LoopInv DEF IInv
  <2> QED BY <1>6, <2>1 DEF SpuriousWakeup, bell, IInv, BellTyped, InRoutine, NoLostRing
<1> QED BY <1>1, <1>2, <1>3, <1>4, <1>5, <1>6 DEF Routine

\* What the controlling thread does.
LEMMA ControlInv ==
  ASSUME IInv, \/ Controlling
               \/ (StartOrStop \/ DestroyFirst) /\ UNCHANGED <<kind, routine>>
  PROVE  IInv'
<1> USE DEF Caller
<1>1. UNCHANGED <<kind, routine>>
  BY DEF Controlling
<1>2. main' \in {"create", "open", "destroying", "join", "over"}
  BY DEF Controlling, MainStep, Create, DestroySecond, Join, StartOrStop, DestroyFirst, Goto,
         IInv, BellTyped
<1>3. CASE Create
  <2>1. WorkerInv'
    BY <1>3, LoopInv DEF Create, IInv
  <2> QED BY <1>1, <1>2, <1>3, <2>1 DEF Create, CreateThread, bell, IInv, BellTyped, InRoutine,
             NoLostRing
<1>4. ASSUME NEW o \in {"enable", "disable", "destroy"}, Call("main", o), UNCHANGED bell
      PROVE  IInv'
  <2>1. WorkerInv'
    BY <1>4, BeginCall DEF IInv
  <2> QED BY <1>1, <1>2, <1>4, <2>1 DEF Call, bell, IInv, BellTyped, InRoutine, NoLostRing
<1>5. ASSUME NEW v \in {0, 1}, B!Store("main", v), UNCHANGED wvars
      PROVE  IInv'
  BY <1>1, <1>2, <1>5, StoreKeeps, WorkerFrame DEF IInv, BellTyped, InRoutine, wvars
<1>6. ASSUME UNCHANGED <<wvars, bell>> PROVE IInv'
  BY <1>1, <1>2, <1>6, WorkerFrame DEF bell, wvars, IInv, BellTyped, InRoutine, NoLostRing
<1> QED BY <1>3, <1>4, <1>5, <1>6 DEF Controlling, MainStep, DestroySecond, Join, StartOrStop,
           DestroyFirst

\* A call that goes on, and the second half of a ring.
LEMMA CallingInv ==
  ASSUME IInv, NEW c \in Caller, Calling(c) \/ Locking(c)
  PROVE  IInv'
<1>1. CASE (CallStep(c) \/ CallLock(c)) /\ UNCHANGED <<bell, kind, routine, main>>
  <2>1. WorkerInv'
    BY <1>1, CallInv DEF IInv
  <2>2. pc = "run" => pc' = "run"
    BY <1>1 DEF CallStep, CallSet, CallUnlock, CallSignal, CallLock, Signalled
  <2> QED BY <1>1, <2>1, <2>2 DEF bell, IInv, BellTyped, InRoutine, NoLostRing
<1>2. CASE B!Wake(c) /\ UNCHANGED <<wvars, kind, routine, main>>
  <2>1. waiting' \in [Waiter -> {"read", "syscall", "asleep", "through"}]
        /\ waking' \in [Caller -> BOOLEAN] /\ done' = done
    BY <1>2 DEF B!Wake, B!Woken, IInv, BellTyped
  <2>2. \A t \in Waiter : waiting'[t] # "asleep"
    BY <1>2 DEF B!Wake, B!Woken
  <2> QED BY <1>2, <2>1, <2>2, WorkerFrame DEF IInv, BellTyped, InRoutine, NoLostRing, wvars
<1>3. CASE LockMutex /\ UNCHANGED <<bell, kind, routine, main>>
  <2>1. WorkerInv'
    BY <1>3, LoopInv DEF IInv
  <2> QED BY <1>3, <2>1 DEF LockMutex, bell, IInv, BellTyped, InRoutine, NoLostRing
<1> QED BY <1>1, <1>2, <1>3 DEF Calling, Locking

LEMMA NextInv == IInv /\ [Next]_vars => IInv'
<1> SUFFICES ASSUME IInv, [Next]_vars PROVE IInv'
  OBVIOUS
<1>1. CASE UNCHANGED vars
  BY <1>1, WorkerFrame DEF vars, wvars, bell, IInv, BellTyped, InRoutine, NoLostRing
<1> QED BY <1>1, ThreadInv, ControlInv, CallingInv, WaitingInv DEF Next, Choice, Waiting

\* Every variable keeps its type.
THEOREM TypeCorrect == Spec => []TypeOK
<1>1. IInv => TypeOK
  BY DEF IInv, WorkerInv, WorkerTyped, BellTyped, TypeOK
<1> QED BY <1>1, InitInv, NextInv, PTL DEF Spec

\* worker.c signals after it released the mutex, and still no wake-up of the
\* condition variable is lost.
THEOREM SignalsArrive == Spec => []NoLostSignal
<1>1. IInv => NoLostSignal
  BY DEF IInv, WorkerInv
<1> QED BY <1>1, InitInv, NextInv, PTL DEF Spec

\* The loop looks at `destroyed' twice and at `enabled' once, so that after
\* mtdp_worker_disable returned at most one call of the routine begins.
THEOREM DisabledStops == Spec => []OneLateCall
<1>1. IInv => OneLateCall
  BY DEF IInv, WorkerInv, LateCalls, OneLateCall
<1> QED BY <1>1, InitInv, NextInv, PTL DEF Spec

\* bell.h stores the word without any mutex, and still no thread sleeps on a
\* set word without somebody about to wake it, however many sleep.
THEOREM RingsArrive == Spec => []NoLostRing
<1>1. IInv => NoLostRing
  BY DEF IInv
<1> QED BY <1>1, InitInv, NextInv, PTL DEF Spec

-----------------------------------------------------------------------------
(***************************************************************************)
(* The gate.                                                               *)
(***************************************************************************)

\* Seen through its flags and the ends of its routine, the worker does
\* nothing.
GateStays == UNCHANGED <<enabled, On, destroyed, At>>

\* The loop passes the gate where it leaves it, and nowhere else.
LEMMA LoopPasses ==
  ASSUME IInv, Loop \/ CreateThread \/ LockMutex \/ SpuriousWakeup \/ Return
  PROVE  G!Next \/ GateStays
<1> USE DEF IInv, WorkerInv, WorkerTyped, At, On, GateStays
<1>1. CASE ReadDestroyed
  BY <1>1 DEF ReadDestroyed, G!Next, G!Pass
<1>2. CASE Test
  BY <1>2 DEF Test, MayPass
<1>3. CASE Wait
  BY <1>3 DEF Wait
<1>4. CASE UnlockMutex
  BY <1>4 DEF UnlockMutex
<1>5. CASE Recheck
  BY <1>5 DEF Recheck, G!Next, G!Pass
<1>6. CASE CreateThread
  BY <1>6 DEF CreateThread, G!Next, G!Create
<1>7. CASE LockMutex
  BY <1>7 DEF LockMutex
<1>8. CASE SpuriousWakeup
  BY <1>8 DEF SpuriousWakeup
<1>9. CASE Return
  BY <1>9 DEF Return, G!Next, G!Return
<1> QED BY <1>1, <1>2, <1>3, <1>4, <1>5, <1>6, <1>7, <1>8, <1>9 DEF Loop

\* The calls change a flag under the mutex, and in no other step.
LEMMA CallsPass ==
  ASSUME IInv, NEW c \in Caller, \/ CallStep(c) \/ CallLock(c)
                               \/ \E o \in {"enable", "disable", "destroy"} : Call(c, o)
  PROVE  G!Next \/ GateStays
<1> USE DEF IInv, WorkerInv, WorkerTyped, At, On, GateStays
<1>1. CASE CallSet(c)
  <2>1. call[c].op \in {"enable", "disable", "destroy"} /\ pc \notin {"test", "wait", "unlock"}
    <3>1. call[c] # NoCall /\ call[c].at = "set" /\ call[c] \in Calls
      BY <1>1, AdvanceCall DEF CallSet
    <3>2. mutex = c
      BY <3>1 DEF MutexHeld, Caller
    <3>3. pc \notin {"test", "wait", "unlock"}
      BY <3>1, <3>2 DEF MutexHeld, OwnCalls, Caller
    <3> QED BY <3>1, <3>3 DEF Calls
  <2>2. CASE call[c].op = "enable"
    BY <1>1, <2>2 DEF CallSet, G!Next, G!Enable
  <2>3. CASE call[c].op = "disable"
    BY <1>1, <2>3 DEF CallSet, G!Next, G!Disable
  <2>4. CASE call[c].op = "destroy"
    BY <1>1, <2>4 DEF CallSet, G!Next, G!Destroy
  <2> QED BY <2>1, <2>2, <2>3, <2>4
<1>2. CASE CallUnlock(c) \/ CallLock(c) \/ (\E o \in {"enable", "disable", "destroy"} : Call(c, o))
  BY <1>2 DEF CallUnlock, CallLock, Call
<1>3. CASE CallSignal(c)
  BY <1>3 DEF CallSignal, Signalled
<1> QED BY <1>1, <1>2, <1>3 DEF CallStep

LEMMA NextPasses == IInv /\ [Next]_vars => [G!Next]_(G!vars)
<1> SUFFICES ASSUME IInv, [Next]_vars PROVE G!Next \/ GateStays
  BY DEF GateStays, G!vars
<1>1. ASSUME UNCHANGED wvars PROVE GateStays
  BY <1>1 DEF wvars, GateStays, On, At
<1>2. CASE Looping \/ Routine
  BY <1>1, <1>2, LoopPasses, CallsPass DEF Looping, Routine, RoutineRings, Finish, FinishDestroys,
     RoutineReturns, Caller
<1>3. CASE Controlling \/ Choice
  BY <1>1, <1>3, LoopPasses, CallsPass DEF Controlling, MainStep, Create, DestroySecond, Join,
     Choice, StartOrStop, DestroyFirst, Caller
<1>4. CASE \E c \in Caller : Calling(c) \/ Locking(c)
  BY <1>1, <1>4, LoopPasses, CallsPass DEF Calling, Locking
<1>5. CASE \E t \in Waiter : Waiting(t)
  BY <1>1, <1>5 DEF Waiting
<1>6. CASE UNCHANGED vars
  BY <1>1, <1>6 DEF vars
<1> QED BY <1>2, <1>3, <1>4, <1>5, <1>6 DEF Next

\* The loop of mtdp_worker_routine, which tests its flags under the mutex,
\* sleeps, and looks at `destroyed' twice more without the mutex, is a gate
\* of one step: a destroyed worker never enters its routine again, an
\* enabled one only enters it by an enable, and a disable is late for the
\* one pass that was under way at most.
THEOREM GateIsAtomic == Spec => ImplementsGate
<1>1. Init => G!Init
  BY DEF Init, WorkerInit, G!Init, On, At
<1> QED BY <1>1, InitInv, NextInv, NextPasses, PTL DEF Spec, ImplementsGate, G!Spec
=============================================================================
