------------------------------- MODULE Worker -------------------------------
(***************************************************************************)
(* A worker of mtdp: a thread that sleeps on a condition variable until it *)
(* is enabled or destroyed, and calls its routine as long as it is enabled *)
(* and not destroyed.  The flags are plain booleans, written under the     *)
(* mutex and read by the thread with and without it; a read gives the      *)
(* value before or after a concurrent write.  A signal is sent after the   *)
(* mutex was released, and condition variables wake up spuriously.         *)
(***************************************************************************)
EXTENDS Integers

VARIABLES
  enabled, destroyed,   \* the flags of the worker
  mutex,                \* who holds the mutex, or "free"
  pc,                   \* where the worker's thread is
  call,                 \* call[c]: the function caller c is in, and where
  late                  \* history: calls of the routine begun since a disable
                        \* returned, -1 before that and after an enable

wvars == <<enabled, destroyed, mutex, pc, call, late>>

\* mtdp_source_finished calls mtdp_worker_destroy from the worker's thread.
Caller == {"main", "worker"}

NoCall == [op |-> "none", at |-> "idle"]
Calls  == {NoCall} \cup [op : {"enable", "disable", "destroy"},
                         at : {"lock", "set", "unlock", "signal"}]

\* mtdp_worker_init.
WorkerInit ==
  /\ enabled = FALSE /\ destroyed = FALSE
  /\ mutex = "free"
  /\ pc = "none"
  /\ call = [c \in Caller |-> NoCall]
  /\ late = -1

-----------------------------------------------------------------------------
(* mtdp_worker_routine. *)

CreateThread ==
  /\ pc = "none" /\ pc' = "loop"
  /\ UNCHANGED <<enabled, destroyed, mutex, call, late>>

\* while(!worker->destroyed), without the mutex.
ReadDestroyed ==
  /\ pc = "loop"
  /\ pc' = IF destroyed THEN "exited" ELSE "lock"
  /\ UNCHANGED <<enabled, destroyed, mutex, call, late>>

\* Mutant: the condition is not tested again after a wake-up.
LockMutex_NoRetest ==
  /\ pc \in {"lock", "relock"} /\ mutex = "free"
  /\ mutex' = "worker" /\ pc' = IF pc = "lock" THEN "test" ELSE "unlock"
  /\ UNCHANGED <<enabled, destroyed, call, late>>

\* mtx_lock, or the end of cnd_wait.
LockMutex ==
  /\ pc \in {"lock", "relock"} /\ mutex = "free"
  /\ mutex' = "worker" /\ pc' = "test"
  /\ UNCHANGED <<enabled, destroyed, call, late>>

\* Mutant: the thread sleeps until it is enabled.
MayPass_IfEnabled == enabled

\* What a sleeping thread waits for.
MayPass == enabled \/ destroyed

Test ==
  /\ pc = "test"
  /\ pc' = IF MayPass THEN "unlock" ELSE "wait"
  /\ UNCHANGED <<enabled, destroyed, mutex, call, late>>

\* cnd_wait releases the mutex and sleeps in one step.
Wait ==
  /\ pc = "wait"
  /\ pc' = "asleep" /\ mutex' = "free"
  /\ UNCHANGED <<enabled, destroyed, call, late>>

SpuriousWakeup ==
  /\ pc = "asleep" /\ pc' = "relock"
  /\ UNCHANGED <<enabled, destroyed, mutex, call, late>>

UnlockMutex ==
  /\ pc = "unlock"
  /\ mutex' = "free" /\ pc' = "recheck"
  /\ UNCHANGED <<enabled, destroyed, call, late>>

\* Mutant: there is no second look at `destroyed'.
Recheck_Missing ==
  /\ pc = "recheck"
  /\ pc' = "run"
  /\ late' = IF ~destroyed /\ late >= 0 THEN late + 1 ELSE late
  /\ UNCHANGED <<enabled, destroyed, mutex, call>>

\* The second look at `destroyed', again without the mutex.
Recheck ==
  /\ pc = "recheck"
  /\ pc' = IF destroyed THEN "exited" ELSE "run"
  /\ late' = IF ~destroyed /\ late >= 0 THEN late + 1 ELSE late
  /\ UNCHANGED <<enabled, destroyed, mutex, call>>

\* The routine returns, the calls it made having returned.
Return ==
  /\ pc = "run" /\ call["worker"] = NoCall
  /\ pc' = "loop"
  /\ UNCHANGED <<enabled, destroyed, mutex, call, late>>

Loop == ReadDestroyed \/ Test \/ Wait \/ UnlockMutex \/ Recheck

-----------------------------------------------------------------------------
(* mtdp_worker_enable, mtdp_worker_disable and mtdp_worker_destroy. *)

Call(c, o) ==
  /\ call[c] = NoCall
  /\ call' = [call EXCEPT ![c] = [op |-> o, at |-> "lock"]]
  /\ UNCHANGED <<enabled, destroyed, mutex, pc, late>>

Advance(c, from, to) ==
  call[c].at = from /\ call' = [call EXCEPT ![c].at = to]

\* Mutant: the flags are written without the mutex.
CallLock_Skipped(c) ==
  /\ Advance(c, "lock", "set")
  /\ UNCHANGED <<enabled, destroyed, mutex, pc, late>>

CallLock(c) ==
  /\ Advance(c, "lock", "set")
  /\ mutex = "free" /\ mutex' = c
  /\ UNCHANGED <<enabled, destroyed, pc, late>>

CallSet(c) ==
  /\ Advance(c, "set", "unlock")
  /\ enabled' = IF call[c].op = "destroy" THEN enabled ELSE call[c].op = "enable"
  /\ destroyed' = (destroyed \/ call[c].op = "destroy")
  /\ late' = IF call[c].op = "enable" THEN -1 ELSE late
  /\ UNCHANGED <<mutex, pc>>

CallUnlock(c) ==
  /\ Advance(c, "unlock", "signal")
  /\ mutex' = IF mutex = c THEN "free" ELSE mutex
  /\ UNCHANGED <<enabled, destroyed, pc, late>>

\* Mutant: nothing is signalled.
Signalled_Never == pc

\* cnd_signal wakes the thread if it sleeps, and is lost otherwise.
Signalled == IF pc = "asleep" THEN "relock" ELSE pc

CallSignal(c) ==
  /\ call[c].at = "signal"
  /\ call' = [call EXCEPT ![c] = NoCall]
  /\ pc' = Signalled
  /\ late' = IF call[c].op = "disable" THEN 0 ELSE late
  /\ UNCHANGED <<enabled, destroyed, mutex>>

CallStep(c) == CallSet(c) \/ CallUnlock(c) \/ CallSignal(c)
=============================================================================
