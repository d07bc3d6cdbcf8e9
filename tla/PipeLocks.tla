----------------------------- MODULE PipeLocks -----------------------------
(***************************************************************************)
(* The two mutexes of a pipe in a debug build.  Each operation of the two  *)
(* threads takes one of them for its critical section, and before and      *)
(* after it both, with mtdp_lock2, for mtdp_pipe_check_invariants.  The    *)
(* critical sections are split into the read and the write of a size: that *)
(* they are the single steps of PipeBuffers is something to show.          *)
(***************************************************************************)
EXTENDS PipeBuffers

VARIABLES
  owner,     \* owner[m]: the thread that holds the mutex m, or "free"
  pc, op,    \* where each thread is, in which operation
  checked,   \* whether the operation's critical section is over
  seen,      \* the thread's local copy of a size
  aborted    \* an assertion failed: the process is gone

thread == <<pc, op, checked, seen>>
lvars  == <<vars, owner, thread, aborted>>

Thread == {"producer", "consumer"}
Mutex  == {"pool", "fifo"}

LInit ==
  /\ Init
  /\ owner = [m \in Mutex |-> "free"]
  /\ pc = [t \in Thread |-> "idle"]
  /\ op = [t \in Thread |-> "none"]
  /\ checked = [t \in Thread |-> FALSE]
  /\ seen = [t \in Thread |-> 0]
  /\ aborted = FALSE

Goto(t, from, to) == pc[t] = from /\ pc' = [pc EXCEPT ![t] = to]

\* thread.h: mtx_lock waits, mtx_trylock does not.
Lock(t, m) == owner[m] = "free" /\ owner' = [owner EXCEPT ![m] = t]

\* Mutant: the result of mtx_trylock is not looked at.
TryLock_IgnoresResult(t, m, from, won, lost) ==
  /\ Goto(t, from, won)
  /\ owner' = [owner EXCEPT ![m] = IF @ = "free" THEN t ELSE @]

TryLock(t, m, from, won, lost) ==
  \/ Lock(t, m) /\ Goto(t, from, won)
  \/ owner[m] # "free" /\ Goto(t, from, lost) /\ UNCHANGED owner

\* Mutant: nothing is released.
Unlock_Keeps(m) == UNCHANGED owner

Unlock(m) == owner' = [owner EXCEPT ![m] = "free"]

\* mtdp_lock2: whoever fails to take the second mutex gives the first one
\* up, and waits for the second.
Lock2(t) ==
  /\ \/ Lock(t, "pool") /\ Goto(t, "lock pool", "try fifo")
     \/ TryLock(t, "fifo", "try fifo", "count fifo", "give up pool")
     \/ Unlock("pool") /\ Goto(t, "give up pool", "lock fifo")
     \/ Lock(t, "fifo") /\ Goto(t, "lock fifo", "try pool")
     \/ TryLock(t, "pool", "try pool", "count fifo", "give up fifo")
     \/ Unlock("fifo") /\ Goto(t, "give up fifo", "lock pool")
  /\ UNCHANGED <<vars, op, checked, seen, aborted>>

\* Mutant: the buffers the threads hold are not allowed for.
Missing_NotHeld(n) == n = 0

\* Buffers of a pipe that may be in neither of its containers.
Missing(n) == n \in 0..2

\* mtdp_pipe_check_invariants, with both mutexes.
CountBuffers(t) ==
  /\ \/ /\ Goto(t, "count fifo", "count pool")
        /\ seen' = [seen EXCEPT ![t] = fsize]
        /\ UNCHANGED owner
     \/ /\ Goto(t, "count pool", "unlock pool")
        /\ seen' = [seen EXCEPT ![t] = (total - (@ + psize)) % SizeLimit]
        /\ UNCHANGED owner
     \/ /\ Goto(t, "unlock pool", "unlock fifo")
        /\ Unlock("pool") /\ UNCHANGED seen
     \/ /\ Goto(t, "unlock fifo", "assert")
        /\ Unlock("fifo") /\ UNCHANGED seen
  /\ UNCHANGED <<vars, op, checked, aborted>>

\* The assertion before and after the critical section.
Assert(t) ==
  /\ Goto(t, "assert", IF checked[t] THEN "idle" ELSE "enter")
  /\ aborted' = ~Missing(seen[t])
  /\ seen' = [seen EXCEPT ![t] = 0]
  /\ checked' = [checked EXCEPT ![t] = FALSE]
  /\ op' = IF checked[t] THEN [op EXCEPT ![t] = "none"] ELSE op
  /\ UNCHANGED <<vars, owner>>

-----------------------------------------------------------------------------
(* The operations. *)

\* A routine takes a buffer when it has none; get_full_buffer comes after a
\* token, that is with a buffer in the FIFO.
MayCall(t, o) ==
  \/ t = "producer" /\ o = "get_empty_buffer" /\ out = 0
  \/ t = "producer" /\ o = "push_buffer" /\ out = 1
  \/ t = "consumer" /\ o = "get_full_buffer" /\ in = 0 /\ fsize > 0
  \/ t = "consumer" /\ o = "put_back" /\ in = 1

Call(t) ==
  /\ Running
  /\ Goto(t, "idle", "lock pool")
  /\ \E o \in {"get_empty_buffer", "push_buffer", "get_full_buffer", "put_back"} :
       MayCall(t, o) /\ op' = [op EXCEPT ![t] = o]
  /\ UNCHANGED <<vars, owner, checked, seen, aborted>>

UsesPool(o) == o \in {"get_empty_buffer", "put_back"}

\* Mutant: an empty buffer is taken under the other mutex.
MutexOf_PopsUnderFifo(o) == IF o = "put_back" THEN "pool" ELSE "fifo"

MutexOf(o) == IF UsesPool(o) THEN "pool" ELSE "fifo"

\* Mutant: the containers are popped without a look at their size.
Pops_Always(s) == TRUE

\* mtdp_buffer_pool_pop_back and mtdp_buffer_fifo_pop_front find something.
Pops(s) == s > 0

\* What the operation does with the size it read: a pop of an empty
\* container and a push without memory change nothing.
Write(t) ==
  LET s == seen[t]
      unchanged == UNCHANGED <<psize, capacity, fsize, held>>
  IN  CASE op[t] = "get_empty_buffer" ->
             IF Pops(s) THEN psize' = s - 1 /\ out' = 1 /\ UNCHANGED <<capacity, fsize, in>>
                        ELSE unchanged
        [] op[t] = "get_full_buffer" ->
             IF Pops(s) THEN fsize' = s - 1 /\ in' = 1 /\ UNCHANGED <<psize, capacity, out>>
                        ELSE unchanged
        [] op[t] = "push_buffer" ->
             \E ok \in Outcomes :
               IF ok THEN fsize' = s + 1 /\ out' = 0 /\ UNCHANGED <<psize, capacity, in>>
                     ELSE unchanged
        [] op[t] = "put_back" ->
             PoolPushFrom(s) /\ in' = 0 /\ UNCHANGED <<fsize, out>>

\* Lock the mutex, read the size, write it, unlock.
Critical(t) ==
  LET m == MutexOf(op[t])
  IN  /\ \/ /\ Goto(t, "enter", "read") /\ Lock(t, m)
            /\ UNCHANGED <<vars, checked, seen>>
         \/ /\ Goto(t, "read", "write")
            /\ seen' = [seen EXCEPT ![t] = IF UsesPool(op[t]) THEN psize ELSE fsize]
            /\ UNCHANGED <<vars, owner, checked>>
         \/ /\ Goto(t, "write", "leave") /\ Write(t)
            /\ seen' = [seen EXCEPT ![t] = 0]
            /\ UNCHANGED <<user, owner, checked>>
         \/ /\ Goto(t, "leave", "lock pool") /\ Unlock(m)
            /\ checked' = [checked EXCEPT ![t] = TRUE]
            /\ UNCHANGED <<vars, seen>>
      /\ UNCHANGED <<op, aborted>>

Step(t) == Lock2(t) \/ CountBuffers(t) \/ Assert(t) \/ Call(t) \/ Critical(t)

-----------------------------------------------------------------------------
(* The user's thread: mtdp_pipe_resize and mtdp_pipe_clear hold both       *)
(* mutexes and assert the same; the disable joins both threads.            *)

Joined == \A t \in Thread : pc[t] = "idle"

User ==
  /\ \/ /\ \A m \in Mutex : owner[m] = "free"
        /\ (\E n \in 1..MaxBuffers : Resize(n)) \/ ClearFifo
        /\ aborted' = ~Missing((total' - (psize' + fsize')) % SizeLimit)
     \/ (Control \/ ClearHeld) /\ (Close => Joined) /\ UNCHANGED aborted
  /\ UNCHANGED <<owner, thread>>

LNext == ~aborted /\ (User \/ \E t \in Thread : Step(t))

LSpec == LInit /\ [][LNext]_lvars

-----------------------------------------------------------------------------
\* With its two mutexes a pipe is as good as one whose operations are single
\* steps: PipeBuffers, the model of pipe.c without locks, is implemented.
AtomicSections == Spec

\* The assertion never fails while the pipe has the buffers it was last
\* asked for: mtdp_lock2 gives a consistent count in the middle of whatever
\* the other thread does, and no operation changes it by more than the one
\* buffer each thread may hold.
AssertionsPass == total = granted => ~aborted

\* Nobody waits for ever: as long as a thread is inside an operation, some
\* thread inside one can take its next step.
SomebodyRuns ==
  (\E t \in Thread : pc[t] # "idle") /\ ~aborted =>
    \E t \in Thread : pc[t] # "idle" /\ ENABLED Step(t)
=============================================================================
