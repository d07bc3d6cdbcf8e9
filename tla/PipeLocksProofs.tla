-------------------------- MODULE PipeLocksProofs --------------------------
(***************************************************************************)
(* Theorems about PipeBuffers and PipeLocks.                               *)
(*                                                                         *)
(* For a user who only grows pipes, and only while the pipeline is         *)
(* disabled, the sizes in PipeBuffers are right: nothing wraps, no buffer  *)
(* is lost, and the pool never has to grow to take one back.               *)
(*                                                                         *)
(* The mutexes of a pipe do what they are for: whatever the two threads    *)
(* and the user interleave, an operation is a single step of PipeBuffers,  *)
(* so that what holds of PipeBuffers holds of the code with its locks, and *)
(* the debug assertions count consistently.                                *)
(***************************************************************************)
EXTENDS PipeLocks, TLAPS

-----------------------------------------------------------------------------
(***************************************************************************)
(* The sizes.                                                              *)
(***************************************************************************)

\* While the pipe is at rest all its buffers are in the pool and fill it;
\* afterwards the pool's capacity stays their number.
AtRest == mode \in {"new", "disabled"} => fsize = 0 /\ out = 0 /\ in = 0

IInv ==
  /\ TypeOK
  /\ Conserved
  /\ granted = capacity
  /\ capacity <= MaxBuffers
  /\ AtRest

\* Unsigned arithmetic on numbers that fit is arithmetic.
LEMMA NoWrap ==
  ASSUME NEW n \in Nat, n < SizeLimit
  PROVE  n % SizeLimit = n
  BY LimitAssumption, SMT

\* A number the user may ask for is the same as a signed one.
LEMMA Small ==
  ASSUME NEW n \in Nat, n <= MaxBuffers
  PROVE  n < SizeLimit /\ n % SizeLimit = n /\ Signed(n) = n
  <1>1. n < SizeLimit \div 2 /\ n < SizeLimit
    BY LimitAssumption
  <1> QED BY <1>1, NoWrap DEF Signed

\* A buffer that returns to a pool with a free place takes it, without any
\* allocation.
LEMMA PushFits ==
  ASSUME IInv, PoolPush, psize < capacity
  PROVE  psize' = psize + 1 /\ capacity' = capacity
  <1>1. /\ capacity - psize \in Nat /\ capacity - psize <= MaxBuffers /\ capacity - psize >= 1
        /\ psize + 1 \in Nat /\ psize + 1 <= MaxBuffers
    BY LimitAssumption DEF IInv, TypeOK
  <1>2. (capacity - psize) % SizeLimit >= 1 /\ (psize + 1) % SizeLimit = psize + 1
    BY <1>1, Small
  <1> QED BY <1>2 DEF PoolPush, PoolPushFrom

\* A pipe that rests, all its buffers in a full pool, grows to the size asked
\* for, or stays as it is.
LEMMA GrowExact ==
  ASSUME ~Shrinks, ~ResizesPaused, IInv, NEW n \in 1..MaxBuffers, Resize(n)
  PROVE  IInv'
  <1>1. fsize = 0 /\ out = 0 /\ in = 0 /\ psize = capacity /\ granted = capacity
    BY DEF IInv, AtRest, Resize, Conserved, TypeOK
  <1>2. psize \in Nat /\ capacity \in Nat /\ n \in Nat /\ n <= MaxBuffers /\ capacity <= MaxBuffers
    BY LimitAssumption DEF IInv, TypeOK
  <1>3. n >= capacity
    BY <1>1, <1>2 DEF Resize
  <1>4. Delta(n) = n - capacity /\ (Resizes(n) <=> n > capacity)
    <2>1. Count = capacity
      BY <1>1, <1>2, Small DEF Count
    <2>2. Delta(n) = n - capacity
      BY <1>2, <2>1, Small DEF Delta
    <2> QED BY <1>2, <1>3, <2>2 DEF Resizes
  <1>5. psize' = capacity' /\ granted' = capacity' /\ capacity' \in {capacity, n}
    <2> DEFINE asked == (psize + Delta(n)) % SizeLimit
    <2>1. asked = n /\ (Grows(n) <=> n > capacity) /\ Signed(n) = n /\ Signed(capacity) = capacity
      <3>1. psize + Delta(n) = n
        BY <1>1, <1>2, <1>4
      <3> QED BY <1>2, <3>1, Small DEF Grows
    <2>2. PICK ok \in Outcomes :
            /\ IF Resizes(n) THEN PoolResize(asked, ok) ELSE UNCHANGED <<psize, capacity>>
            /\ granted' = IF Delta(n) > 0 /\ Grows(asked) /\ ~ok THEN granted ELSE n
      BY DEF Resize
    <2> HIDE DEF asked
    <2>3. Delta(n) > 0 <=> n > capacity
      BY <1>2, <1>4
    <2>4. CASE n > capacity /\ ok
      <3>1. psize' = (psize + n - capacity) % SizeLimit /\ capacity' = n /\ granted' = n
        BY <1>4, <2>1, <2>2, <2>3, <2>4 DEF PoolResize
      <3>2. psize + n - capacity = n
        BY <1>1, <1>2
      <3> QED BY <1>2, <3>1, <3>2, Small
    <2>5. CASE n > capacity /\ ~ok
      BY <1>1, <1>4, <2>1, <2>2, <2>3, <2>5 DEF PoolResize
    <2>6. CASE ~(n > capacity)
      <3>1. n = capacity
        BY <1>2, <1>3, <2>6
      <3> QED BY <1>1, <1>4, <2>2, <2>3, <2>6, <3>1
    <2> QED BY <2>4, <2>5, <2>6
  <1>6. UNCHANGED <<fsize, out, in>>
    BY DEF Resize, held
  <1>7. total' \in Nat /\ mode' \in Mode
    BY <1>2 DEF IInv, TypeOK, Resize, Mode
  <1>8. capacity' \in Nat /\ capacity' <= MaxBuffers /\ capacity' < SizeLimit
    BY <1>2, <1>5, Small DEF IInv
  <1>9. 0 = fsize' /\ 0 = out' /\ 0 = in'
    BY <1>1, <1>6
  <1>10. psize' \in 0..SizeLimit - 1
    BY <1>5, <1>8, LimitAssumption
  <1>11. Conserved'
    <2>1. psize' \in Nat /\ granted' = psize'
      BY <1>5, <1>8
    <2> QED BY <2>1, <1>9 DEF Conserved
  <1> QED
    BY <1>5, <1>7, <1>8, <1>9, <1>10, <1>11 DEF IInv, TypeOK, AtRest

\* The invariant holds at the start ...
LEMMA InitInv == Init => IInv
  <1> SUFFICES ASSUME Init PROVE IInv
    OBVIOUS
  <1>1. 0 \in 0..SizeLimit - 1 /\ total \in Nat /\ 0 <= MaxBuffers
    BY LimitAssumption DEF Init
  <1>2. mode \in Mode
    BY DEF Init, Mode
  <1>3. Conserved
    BY DEF Init, Conserved
  <1> QED
    BY <1>1, <1>2, <1>3 DEF Init, IInv, TypeOK, AtRest

\* ... and every step keeps it.
LEMMA NextInv ==
  ASSUME ~Shrinks, ~ResizesPaused, IInv, [Next]_vars
  PROVE  IInv'
  <1> USE LimitAssumption
  <1>1. CASE \E n \in 1..MaxBuffers : Resize(n)
    BY <1>1, GrowExact
  <1>2. CASE GetEmptyBuffer
    BY <1>2 DEF GetEmptyBuffer, Running, user, IInv, TypeOK, Conserved, AtRest
  <1>3. CASE PushBuffer
    BY <1>3 DEF PushBuffer, Running, user, IInv, TypeOK, Conserved, AtRest
  <1>4. CASE GetFullBuffer
    BY <1>4 DEF GetFullBuffer, Running, user, IInv, TypeOK, Conserved, AtRest
  <1>5. CASE PutBack
    <2>1. psize < capacity
      BY <1>5 DEF PutBack, IInv, TypeOK, Conserved
    <2>2. psize' = psize + 1 /\ capacity' = capacity
      BY <1>5, <2>1, PushFits DEF PutBack
    <2> QED BY <1>5, <2>1, <2>2 DEF PutBack, Running, user, IInv, TypeOK, Conserved, AtRest
  <1>6. CASE Control
    BY <1>6 DEF Control, Start, Stop, Close, Cleared, held, Mode, IInv, TypeOK, Conserved, AtRest
  <1>7. CASE ClearFifo
    <2>1. psize < capacity
      BY <1>7 DEF ClearFifo, IInv, TypeOK, Conserved
    <2>2. psize' = psize + 1 /\ capacity' = capacity
      BY <1>7, <2>1, PushFits DEF ClearFifo
    <2> QED BY <1>7, <2>1, <2>2 DEF ClearFifo, held, user, IInv, TypeOK, Conserved, AtRest
  <1>8. CASE ClearHeld
    <2>1. psize < capacity
      BY <1>8 DEF ClearHeld, IInv, TypeOK, Conserved
    <2>2. psize' = psize + 1 /\ capacity' = capacity
      BY <1>8, <2>1, PushFits DEF ClearHeld
    <2> QED BY <1>8, <2>1, <2>2 DEF ClearHeld, user, IInv, TypeOK, Conserved, AtRest
  <1>9. CASE UNCHANGED vars
    BY <1>9 DEF vars, held, user, IInv, TypeOK, Conserved, AtRest
  <1> QED BY <1>1, <1>2, <1>3, <1>4, <1>5, <1>6, <1>7, <1>8, <1>9 DEF Next

\* No size of the pipe ever wraps, and each keeps its type.
THEOREM TypeCorrect ==
  ASSUME ~Shrinks, ~ResizesPaused
  PROVE  Spec => []TypeOK
  <1>1. IInv /\ [Next]_vars => IInv'
    BY NextInv
  <1>2. IInv => TypeOK
    BY DEF IInv
  <1> QED BY InitInv, <1>1, <1>2, PTL DEF Spec

\* Growing a disabled pipeline's pipes gives exactly the buffers asked for,
\* and no operation of the threads or of the disable loses or gains one.
THEOREM BuffersConserved ==
  ASSUME ~Shrinks, ~ResizesPaused
  PROVE  Spec => []Conserved
  <1>1. IInv /\ [Next]_vars => IInv'
    BY NextInv
  <1>2. IInv => Conserved
    BY DEF IInv
  <1> QED BY InitInv, <1>1, <1>2, PTL DEF Spec

\* Under the same use the pool has room for every buffer of the pipe, so the
\* put-backs whose results the routines ignore cannot fail.
THEOREM PoolHasRoom ==
  ASSUME ~Shrinks, ~ResizesPaused
  PROVE  Spec => []PutBackFits
  <1>1. IInv /\ [Next]_vars => IInv'
    BY NextInv
  <1>2. IInv => PutBackFits
    BY DEF IInv, TypeOK, Conserved, PutBackFits
  <1> QED BY InitInv, <1>1, <1>2, PTL DEF Spec

-----------------------------------------------------------------------------
(***************************************************************************)
(* The locks.                                                              *)
(***************************************************************************)

Op == {"get_empty_buffer", "push_buffer", "get_full_buffer", "put_back"}

\* The control points of mtdp_lock2, of the count and of the critical section.
LockPc     == {"lock pool", "try fifo", "give up pool", "lock fifo", "try pool", "give up fifo"}
CountPc    == {"count fifo", "count pool", "unlock pool", "unlock fifo", "assert"}
CriticalPc == {"enter", "read", "write", "leave"}

LTypes ==
  /\ owner \in [Mutex -> Thread \cup {"free"}]
  /\ pc \in [Thread -> {"idle"} \cup LockPc \cup CountPc \cup CriticalPc]
  /\ op \in [Thread -> Op \cup {"none"}]
  /\ checked \in [Thread -> BOOLEAN]
  /\ seen = [t \in Thread |-> seen[t]]

\* The mutexes thread t holds, by where it is.
Holds(t, m) ==
  \/ pc[t] \in {"count fifo", "count pool", "unlock pool"}
  \/ m = "pool" /\ pc[t] \in {"try fifo", "give up pool"}
  \/ m = "fifo" /\ pc[t] \in {"try pool", "give up fifo", "unlock fifo"}
  \/ pc[t] \in {"read", "write", "leave"} /\ m = MutexOf(op[t])

Exclusive == \A t \in Thread, m \in Mutex : owner[m] = t <=> Holds(t, m)

\* A thread inside an operation it has not carried out found what it needs:
\* nobody else gives it a buffer, or takes the one it has.
Called(t) ==
  /\ pc[t] # "idle" => op[t] \in Op
  /\ pc[t] \in CriticalPc => ~checked[t]
  /\ op[t] = "get_empty_buffer" => t = "producer"
  /\ op[t] = "push_buffer" => t = "producer"
  /\ op[t] = "get_full_buffer" => t = "consumer"
  /\ op[t] = "put_back" => t = "consumer"
  /\ pc[t] \notin {"idle", "leave"} /\ ~checked[t] =>
       /\ op[t] = "get_empty_buffer" => out = 0
       /\ op[t] = "push_buffer" => out = 1
       /\ op[t] = "get_full_buffer" => in = 0
       /\ op[t] = "put_back" => in = 1

\* The size a thread has read is the size its container still has.
Fresh(t) ==
  /\ pc[t] = "write" => seen[t] = IF UsesPool(op[t]) THEN psize ELSE fsize
  /\ pc[t] = "count pool" => seen[t] = fsize

\* The pipeline is disabled around threads that have finished.
Quiet == ~Running => Joined

LockInv ==
  /\ LTypes
  /\ Exclusive
  /\ \A t \in Thread : Called(t) /\ Fresh(t)
  /\ Quiet

-----------------------------------------------------------------------------
(***************************************************************************)
(* Mutual exclusion.                                                       *)
(***************************************************************************)

\* One mutex is never held twice.
LEMMA OneHolder ==
  ASSUME LockInv, NEW t \in Thread, NEW u \in Thread, NEW m \in Mutex, Holds(t, m), Holds(u, m)
  PROVE  t = u
BY DEF LockInv, Exclusive

\* The steps of mtdp_lock2.
LEMMA Lock2Inv ==
  ASSUME LockInv, NEW t \in Thread, Lock2(t)
  PROVE  LockInv' /\ UNCHANGED vars
<1> USE DEF Goto
<1>t. LTypes /\ pc[t] \in LockPc
  BY DEF LockInv, Lock2, TryLock, LockPc
<1>1. /\ UNCHANGED <<vars, op, checked, seen>>
      /\ pc[t] \in LockPc /\ pc'[t] \in LockPc \cup {"count fifo"}
      /\ \A u \in Thread : u # t => pc'[u] = pc[u]
      /\ pc' \in [Thread -> {"idle"} \cup LockPc \cup CountPc \cup CriticalPc]
  <2>1. PICK l \in LockPc \cup {"count fifo"} : pc' = [pc EXCEPT ![t] = l]
    BY DEF Lock2, TryLock, LockPc
  <2> QED BY <1>t, <2>1 DEF Lock2, LTypes, CountPc
<1>2. owner' \in [Mutex -> Thread \cup {"free"}]
  BY DEF Lock2, TryLock, Lock, Unlock, LockInv, LTypes
<1>3. Exclusive'
  <2>1. ASSUME NEW u \in Thread, u # t, NEW m \in Mutex PROVE owner'[m] = u <=> Holds(u, m)'
    <3>1. Holds(u, m)' <=> Holds(u, m)
      BY <1>1, <2>1 DEF Holds
    <3>2. owner'[m] = u <=> owner[m] = u
      BY <2>1 DEF Lock2, TryLock, Lock, Unlock, LockInv, LTypes, Exclusive, Holds, Mutex, Thread
    <3> QED BY <3>1, <3>2 DEF LockInv, Exclusive
  <2>2. ASSUME NEW m \in Mutex PROVE owner'[m] = t <=> Holds(t, m)'
    <3>1. owner[m] = t <=> Holds(t, m)
      BY DEF LockInv, Exclusive
    <3>2. /\ \/ owner' = [owner EXCEPT !["pool"] = t] /\ pc[t] = "lock pool" /\ pc'[t] = "try fifo"
             \/ owner' = [owner EXCEPT !["fifo"] = t] /\ pc[t] = "try fifo" /\ pc'[t] = "count fifo"
             \/ owner' = owner /\ pc[t] = "try fifo" /\ pc'[t] = "give up pool"
             \/ owner' = [owner EXCEPT !["pool"] = "free"] /\ pc[t] = "give up pool" /\ pc'[t] = "lock fifo"
             \/ owner' = [owner EXCEPT !["fifo"] = t] /\ pc[t] = "lock fifo" /\ pc'[t] = "try pool"
             \/ owner' = [owner EXCEPT !["pool"] = t] /\ pc[t] = "try pool" /\ pc'[t] = "count fifo"
             \/ owner' = owner /\ pc[t] = "try pool" /\ pc'[t] = "give up fifo"
             \/ owner' = [owner EXCEPT !["fifo"] = "free"] /\ pc[t] = "give up fifo" /\ pc'[t] = "lock pool"
          /\ owner \in [Mutex -> Thread \cup {"free"}]
      BY <1>t DEF Lock2, TryLock, Lock, Unlock, LTypes
    <3> QED BY <3>1, <3>2 DEF Holds, Mutex, Thread
  <2> QED BY <2>1, <2>2 DEF Exclusive
<1>4. \A u \in Thread : Called(u)' /\ Fresh(u)'
  BY <1>1 DEF LockInv, Called, Fresh, LockPc, CriticalPc, vars, held
<1>5. Quiet'
  BY <1>1 DEF LockInv, Quiet, Joined, Running, LockPc, vars, user
<1> QED BY <1>1, <1>2, <1>3, <1>4, <1>5 DEF LockInv, LTypes

\* The count reads both sizes under both mutexes.
LEMMA CountInv ==
  ASSUME LockInv, NEW t \in Thread, CountBuffers(t)
  PROVE  LockInv' /\ UNCHANGED vars
<1> USE DEF Goto
<1>t. LTypes /\ Exclusive /\ Called(t) /\ Fresh(t)
  BY DEF LockInv
<1>1. /\ UNCHANGED <<vars, op, checked>>
      /\ \/ UNCHANGED owner /\ pc[t] = "count fifo" /\ pc'[t] = "count pool" /\ seen'[t] = fsize
         \/ UNCHANGED owner /\ pc[t] = "count pool" /\ pc'[t] = "unlock pool"
         \/ owner' = [owner EXCEPT !["pool"] = "free"] /\ pc[t] = "unlock pool" /\ pc'[t] = "unlock fifo"
         \/ owner' = [owner EXCEPT !["fifo"] = "free"] /\ pc[t] = "unlock fifo" /\ pc'[t] = "assert"
  BY <1>t DEF CountBuffers, LTypes, Unlock
<1>2. \A u \in Thread : u # t => pc'[u] = pc[u] /\ seen'[u] = seen[u]
  BY <1>t DEF CountBuffers, LTypes
<1>3. LTypes'
  <2>1. pc' \in [Thread -> {"idle"} \cup LockPc \cup CountPc \cup CriticalPc]
    BY <1>t DEF CountBuffers, LTypes, CountPc
  <2>2. owner' \in [Mutex -> Thread \cup {"free"}]
    BY <1>t, <1>1 DEF LTypes
  <2>3. seen' = [u \in Thread |-> seen'[u]]
    BY <1>t DEF CountBuffers, LTypes
  <2> QED BY <1>t, <1>1, <2>1, <2>2, <2>3 DEF LTypes
<1>4. Exclusive'
  <2>1. ASSUME NEW m \in Mutex PROVE owner'[m] = t <=> Holds(t, m)'
    <3>1. (owner[m] = t <=> Holds(t, m)) /\ owner \in [Mutex -> Thread \cup {"free"}]
      BY <1>t DEF Exclusive, LTypes
    <3> QED BY <1>1, <3>1 DEF Holds, Mutex, Thread
  <2>2. ASSUME NEW u \in Thread, u # t, NEW m \in Mutex PROVE owner'[m] = u <=> Holds(u, m)'
    <3>1. /\ owner[m] = u <=> Holds(u, m)
          /\ owner["pool"] = t \/ owner' = owner \/ owner' = [owner EXCEPT !["fifo"] = "free"]
          /\ owner["fifo"] = t \/ owner' = owner \/ owner' = [owner EXCEPT !["pool"] = "free"]
          /\ owner \in [Mutex -> Thread \cup {"free"}]
      BY <1>t, <1>1 DEF Exclusive, LTypes, Holds, Mutex
    <3>2. owner'[m] = u <=> owner[m] = u
      BY <1>1, <2>2, <3>1 DEF Mutex, Thread
    <3>3. Holds(u, m)' <=> Holds(u, m)
      BY <1>1, <1>2, <2>2 DEF Holds
    <3> QED BY <3>1, <3>2, <3>3
  <2> QED BY <2>1, <2>2 DEF Exclusive
<1>5. ASSUME NEW u \in Thread PROVE Called(u)' /\ Fresh(u)'
  <2>1. CASE u = t
    BY <1>t, <1>1, <2>1 DEF Called, Fresh, CriticalPc, vars, held
  <2>2. CASE u # t
    BY <1>1, <1>2, <2>2 DEF LockInv, Called, Fresh, vars, held
  <2> QED BY <2>1, <2>2
<1>6. Quiet'
  BY <1>1 DEF LockInv, Quiet, Joined, Running, vars, user
<1> QED BY <1>1, <1>3, <1>4, <1>5, <1>6 DEF LockInv

\* The assertion ends the operation, or lets it begin.
LEMMA AssertInv ==
  ASSUME LockInv, NEW t \in Thread, Assert(t)
  PROVE  LockInv' /\ UNCHANGED vars
<1> USE DEF Goto
<1>t. LTypes /\ Exclusive /\ Called(t) /\ Fresh(t)
  BY DEF LockInv
<1>1. /\ UNCHANGED <<vars, owner>>
      /\ pc[t] = "assert" /\ pc'[t] \in {"idle", "enter"}
      /\ pc'[t] = "enter" => ~checked[t] /\ op'[t] = op[t]
      /\ pc'[t] = "idle" => op'[t] = "none"
      /\ checked'[t] = FALSE
  BY <1>t DEF Assert, LTypes
<1>2. \A u \in Thread : u # t => /\ pc'[u] = pc[u] /\ seen'[u] = seen[u]
                                 /\ op'[u] = op[u] /\ checked'[u] = checked[u]
  BY <1>t DEF Assert, LTypes
<1>3. LTypes'
  <2>1. pc' \in [Thread -> {"idle"} \cup LockPc \cup CountPc \cup CriticalPc]
    BY <1>t DEF Assert, LTypes, CriticalPc
  <2>2. op' \in [Thread -> Op \cup {"none"}] /\ checked' \in [Thread -> BOOLEAN]
    BY <1>t DEF Assert, LTypes
  <2>3. seen' = [u \in Thread |-> seen'[u]]
    BY <1>t DEF Assert, LTypes
  <2> QED BY <1>t, <1>1, <2>1, <2>2, <2>3 DEF LTypes
<1>4. Exclusive'
  <2> SUFFICES ASSUME NEW u \in Thread, NEW m \in Mutex PROVE Holds(u, m)' <=> Holds(u, m)
    BY <1>t, <1>1 DEF Exclusive
  <2> QED BY <1>1, <1>2 DEF Holds
<1>5. ASSUME NEW u \in Thread PROVE Called(u)' /\ Fresh(u)'
  <2>1. CASE u = t
    BY <1>t, <1>1, <2>1 DEF Called, Fresh, CriticalPc, vars, held
  <2>2. CASE u # t
    BY <1>1, <1>2, <2>2 DEF LockInv, Called, Fresh, vars, held
  <2> QED BY <2>1, <2>2
<1>6. Quiet'
  BY <1>1 DEF LockInv, Quiet, Joined, Running, vars, user
<1> QED BY <1>1, <1>3, <1>4, <1>5, <1>6 DEF LockInv

\* An operation begins on a running pipeline, when the routine calls it.
LEMMA CallInv ==
  ASSUME LockInv, NEW t \in Thread, Call(t)
  PROVE  LockInv' /\ UNCHANGED vars
<1> USE DEF Goto
<1>t. LTypes /\ Exclusive /\ Called(t) /\ Fresh(t)
  BY DEF LockInv
<1>1. PICK o \in Op : MayCall(t, o) /\ op' = [op EXCEPT ![t] = o]
  BY DEF Call, Op
<1>2. /\ UNCHANGED <<vars, owner, checked, seen>> /\ Running
      /\ pc[t] = "idle" /\ pc'[t] = "lock pool" /\ op'[t] = o
  BY <1>t, <1>1 DEF Call, LTypes
<1>3. \A u \in Thread : u # t => pc'[u] = pc[u] /\ op'[u] = op[u]
  BY <1>t, <1>1 DEF Call, LTypes
<1>4. LTypes'
  <2>1. pc' \in [Thread -> {"idle"} \cup LockPc \cup CountPc \cup CriticalPc]
    BY <1>t DEF Call, LTypes, LockPc
  <2> QED BY <1>t, <1>1, <1>2, <2>1 DEF LTypes
<1>5. Exclusive'
  <2> SUFFICES ASSUME NEW u \in Thread, NEW m \in Mutex PROVE Holds(u, m)' <=> Holds(u, m)
    BY <1>t, <1>2 DEF Exclusive
  <2> QED BY <1>2, <1>3 DEF Holds
<1>6. ASSUME NEW u \in Thread PROVE Called(u)' /\ Fresh(u)'
  <2>1. CASE u = t
    BY <1>t, <1>1, <1>2, <2>1 DEF Called, Fresh, CriticalPc, MayCall, vars, held
  <2>2. CASE u # t
    BY <1>2, <1>3, <2>2 DEF LockInv, Called, Fresh, vars, held
  <2> QED BY <2>1, <2>2
<1>7. Quiet'
  BY <1>2 DEF Quiet, Running, vars, user
<1> QED BY <1>2, <1>4, <1>5, <1>6, <1>7 DEF LockInv

-----------------------------------------------------------------------------
(***************************************************************************)
(* The critical sections.                                                  *)
(***************************************************************************)

\* The write acts on the size the container has, so it is the whole
\* operation, or one that found nothing to do.
LEMMA WriteIsAtomic ==
  ASSUME LockInv, NEW t \in Thread, pc[t] = "write", Write(t), UNCHANGED user
  PROVE  GetEmptyBuffer \/ PushBuffer \/ GetFullBuffer \/ PutBack \/ UNCHANGED vars
<1>1. /\ op[t] \in Op /\ Running
      /\ op[t] = "get_empty_buffer" => out = 0
      /\ op[t] = "push_buffer" => out = 1
      /\ op[t] = "get_full_buffer" => in = 0
      /\ op[t] = "put_back" => in = 1
      /\ seen[t] = IF UsesPool(op[t]) THEN psize ELSE fsize
  BY DEF LockInv, Called, Fresh, CriticalPc, Quiet, Joined
<1>2. CASE op[t] = "get_empty_buffer"
  BY <1>1, <1>2 DEF Write, UsesPool, Pops, GetEmptyBuffer, vars, held
<1>3. CASE op[t] = "push_buffer"
  BY <1>1, <1>3 DEF Write, UsesPool, PushBuffer, vars, held
<1>4. CASE op[t] = "get_full_buffer"
  BY <1>1, <1>4 DEF Write, UsesPool, Pops, GetFullBuffer, vars, held
<1>5. CASE op[t] = "put_back"
  BY <1>1, <1>5 DEF Write, UsesPool, PoolPush, PutBack
<1> QED BY <1>1, <1>2, <1>3, <1>4, <1>5 DEF Op

\* What a write leaves alone: the size under the other mutex, and the hand
\* of the other thread.
LEMMA WriteFrame ==
  ASSUME LockInv, NEW t \in Thread, pc[t] = "write", Write(t)
  PROVE  /\ MutexOf(op[t]) = "pool" => fsize' = fsize
         /\ MutexOf(op[t]) = "fifo" => psize' = psize
         /\ t = "producer" => in' = in
         /\ t = "consumer" => out' = out
<1>1. op[t] \in Op /\ Called(t)
  BY DEF LockInv, Called
<1>2. CASE op[t] = "get_empty_buffer"
  BY <1>1, <1>2 DEF Write, MutexOf, UsesPool, held, Called
<1>3. CASE op[t] = "push_buffer"
  BY <1>1, <1>3 DEF Write, MutexOf, UsesPool, held, Called
<1>4. CASE op[t] = "get_full_buffer"
  BY <1>1, <1>4 DEF Write, MutexOf, UsesPool, held, Called
<1>5. CASE op[t] = "put_back"
  BY <1>1, <1>5 DEF Write, MutexOf, UsesPool, Called
<1> QED BY <1>1, <1>2, <1>3, <1>4, <1>5 DEF Op

LEMMA CriticalInv ==
  ASSUME LockInv, NEW t \in Thread, Critical(t)
  PROVE  /\ LockInv'
         /\ GetEmptyBuffer \/ PushBuffer \/ GetFullBuffer \/ PutBack \/ UNCHANGED vars
<1> USE DEF Goto
<1> DEFINE m == MutexOf(op[t])
<1>t. LTypes /\ Exclusive /\ Called(t) /\ Fresh(t) /\ m \in Mutex
  BY DEF LockInv, MutexOf, Mutex
<1>1. /\ UNCHANGED op
      /\ \/ /\ pc[t] = "enter" /\ pc'[t] = "read"
            /\ owner[m] = "free" /\ owner' = [owner EXCEPT ![m] = t]
            /\ UNCHANGED <<vars, checked, seen>>
         \/ /\ pc[t] = "read" /\ pc'[t] = "write"
            /\ seen'[t] = IF UsesPool(op[t]) THEN psize ELSE fsize
            /\ UNCHANGED <<vars, owner, checked>>
         \/ /\ pc[t] = "write" /\ pc'[t] = "leave" /\ Write(t)
            /\ UNCHANGED <<user, owner, checked>>
         \/ /\ pc[t] = "leave" /\ pc'[t] = "lock pool"
            /\ owner' = [owner EXCEPT ![m] = "free"]
            /\ checked'[t] = TRUE
            /\ UNCHANGED <<vars, seen>>
  BY <1>t DEF Critical, LTypes, Lock, Unlock
<1>2. \A u \in Thread : u # t => /\ pc'[u] = pc[u] /\ seen'[u] = seen[u]
                                 /\ checked'[u] = checked[u]
  BY <1>t DEF Critical, LTypes
<1>a. GetEmptyBuffer \/ PushBuffer \/ GetFullBuffer \/ PutBack \/ UNCHANGED vars
  BY <1>1, WriteIsAtomic
<1> HIDE DEF m
<1>3. LTypes'
  <2>1. pc' \in [Thread -> {"idle"} \cup LockPc \cup CountPc \cup CriticalPc]
    BY <1>t DEF Critical, LTypes, CriticalPc, LockPc
  <2>2. owner' \in [Mutex -> Thread \cup {"free"}]
    BY <1>t, <1>1 DEF LTypes
  <2>3. checked' \in [Thread -> BOOLEAN] /\ seen' = [u \in Thread |-> seen'[u]]
    BY <1>t DEF Critical, LTypes
  <2> QED BY <1>t, <1>1, <2>1, <2>2, <2>3 DEF LTypes
<1>4. Exclusive'
  <2>1. ASSUME NEW k \in Mutex PROVE owner'[k] = t <=> Holds(t, k)'
    <3>1. (owner[k] = t <=> Holds(t, k)) /\ owner \in [Mutex -> Thread \cup {"free"}]
      BY <1>t DEF Exclusive, LTypes
    <3> QED BY <1>t, <1>1, <3>1 DEF Holds, Thread, m
  <2>2. ASSUME NEW u \in Thread, u # t, NEW k \in Mutex PROVE owner'[k] = u <=> Holds(u, k)'
    <3>1. /\ owner[k] = u <=> Holds(u, k)
          /\ owner \in [Mutex -> Thread \cup {"free"}]
          /\ pc[t] = "leave" => owner[m] = t
      BY <1>t DEF Exclusive, LTypes, Holds, m
    <3>2. owner'[k] = u <=> owner[k] = u
      BY <1>t, <1>1, <2>2, <3>1 DEF Thread
    <3>3. Holds(u, k)' <=> Holds(u, k)
      BY <1>1, <1>2, <2>2 DEF Holds
    <3> QED BY <3>1, <3>2, <3>3
  <2> QED BY <2>1, <2>2 DEF Exclusive
<1>5. CASE UNCHANGED vars
  <2>1. ASSUME NEW u \in Thread PROVE Called(u)' /\ Fresh(u)'
    <3>1. CASE u = t
      BY <1>t, <1>1, <1>5, <3>1 DEF Called, Fresh, CriticalPc, vars, held
    <3>2. CASE u # t
      BY <1>1, <1>2, <1>5, <3>2 DEF LockInv, Called, Fresh, vars, held
    <3> QED BY <3>1, <3>2
  <2>2. Quiet'
    BY <1>1, <1>5 DEF LockInv, Quiet, Joined, Running, vars, user
  <2> QED BY <1>3, <1>4, <1>a, <2>1, <2>2 DEF LockInv
<1>6. CASE pc[t] = "write" /\ pc'[t] = "leave" /\ Write(t) /\ UNCHANGED <<user, owner, checked>>
  <2>1. ASSUME NEW u \in Thread PROVE Called(u)' /\ Fresh(u)'
    <3>1. CASE u = t
      BY <1>t, <1>1, <1>6, <3>1 DEF Called, Fresh, CriticalPc
    <3>2. CASE u # t
      <4>1. Called(u) /\ Fresh(u) /\ t \in {"producer", "consumer"} /\ u \in {"producer", "consumer"}
        BY DEF LockInv, Thread
      <4>2. Called(u)'
        BY <1>1, <1>2, <1>6, <3>2, <4>1, WriteFrame DEF Called
      <4>3. /\ pc[u] = "write" => MutexOf(op[u]) # m
            /\ pc[u] # "count pool"
        <5>1. Holds(t, m)
          BY <1>6 DEF Holds, m
        <5>2. ~Holds(u, m)
          BY <1>t, <3>2, <5>1, OneHolder
        <5> QED BY <5>2 DEF Holds
      <4>4. Fresh(u)'
        BY <1>1, <1>2, <1>6, <3>2, <4>1, <4>3, WriteFrame DEF Fresh, MutexOf, m
      <4> QED BY <4>2, <4>4
    <3> QED BY <3>1, <3>2
  <2>2. Quiet'
    BY <1>1, <1>6 DEF LockInv, Quiet, Joined, Running, user
  <2> QED BY <1>3, <1>4, <1>a, <2>1, <2>2 DEF LockInv
<1> QED BY <1>1, <1>5, <1>6

-----------------------------------------------------------------------------
(***************************************************************************)
(* The user's thread.                                                      *)
(***************************************************************************)

\* Resizing and clearing happen with both mutexes; the rest of what the user
\* does to a pipe with held buffers, when the threads are gone.
LEMMA UserInv ==
  ASSUME LockInv, User
  PROVE  LockInv' /\ Next
<1>t. LTypes /\ Exclusive /\ Quiet /\ \A t \in Thread : Called(t) /\ Fresh(t)
  BY DEF LockInv
<1>1. UNCHANGED <<owner, pc, op, checked, seen>>
  BY DEF User, thread
<1>2. Next
  BY DEF User, Next
<1>3. LTypes' /\ Exclusive'
  BY <1>t, <1>1 DEF LTypes, Exclusive, Holds
<1>4. CASE (\A m \in Mutex : owner[m] = "free") /\ ((\E n \in 1..MaxBuffers : Resize(n)) \/ ClearFifo)
  <2>1. ASSUME NEW t \in Thread PROVE pc[t] \notin {"write", "count pool"}
    <3>1. owner["fifo"] # t /\ owner[MutexOf(op[t])] # t
      BY <1>4 DEF Mutex, MutexOf, Thread
    <3> QED BY <1>t, <3>1 DEF Exclusive, Holds, Mutex, MutexOf
  <2>2. UNCHANGED held
    BY <1>4 DEF Resize, ClearFifo
  <2>3. Running <=> Running'
    BY <1>4 DEF Resize, ClearFifo, Running, user
  <2>4. \A t \in Thread : Called(t)' /\ Fresh(t)'
    BY <1>t, <1>1, <2>1, <2>2 DEF Called, Fresh, held
  <2> QED BY <1>t, <1>1, <1>2, <1>3, <2>3, <2>4 DEF LockInv, Quiet, Joined
<1>5. CASE Control /\ (Close => Joined)
  <2>1. UNCHANGED <<psize, fsize, held>>
    BY <1>5 DEF Control
  <2>2. ~Running' => Joined
    BY <1>t, <1>5 DEF Control, Start, Stop, Close, Cleared, Running, Quiet
  <2>3. \A t \in Thread : Called(t)' /\ Fresh(t)'
    BY <1>t, <1>1, <2>1 DEF Called, Fresh, held
  <2> QED BY <1>t, <1>1, <1>2, <1>3, <2>2, <2>3 DEF LockInv, Quiet, Joined
<1>6. CASE ClearHeld
  <2>1. Joined /\ Joined'
    BY <1>t, <1>1, <1>6 DEF ClearHeld, Quiet, Running, Joined
  <2>2. \A t \in Thread : Called(t)' /\ Fresh(t)'
    BY <1>t, <1>1, <2>1 DEF Called, Fresh, Joined, CriticalPc
  <2> QED BY <1>2, <1>3, <2>1, <2>2 DEF LockInv, Quiet
<1> QED BY <1>4, <1>5, <1>6 DEF User

-----------------------------------------------------------------------------
(***************************************************************************)
(* The theorems.                                                           *)
(***************************************************************************)

LEMMA InitLockInv == LInit => LockInv
<1> SUFFICES ASSUME LInit PROVE LockInv
  OBVIOUS
<1>1. LTypes
  BY DEF LInit, LTypes
<1>2. Exclusive
  BY DEF LInit, Exclusive, Holds, Thread, Mutex
<1>3. \A t \in Thread : Called(t) /\ Fresh(t)
  BY DEF LInit, Called, Fresh, CriticalPc
<1>4. Quiet
  BY DEF LInit, Quiet, Joined
<1> QED BY <1>1, <1>2, <1>3, <1>4 DEF LockInv

\* Each step of the code with its locks is a step of PipeBuffers, or one
\* that PipeBuffers does not see.
LEMMA NextLockInv == LockInv /\ [LNext]_lvars => LockInv' /\ [Next]_vars
<1> SUFFICES ASSUME LockInv, [LNext]_lvars PROVE LockInv' /\ [Next]_vars
  OBVIOUS
<1>1. CASE User
  BY <1>1, UserInv
<1>2. ASSUME NEW t \in Thread, Step(t) PROVE LockInv' /\ [Next]_vars
  BY <1>2, Lock2Inv, CountInv, AssertInv, CallInv, CriticalInv DEF Step, Next
<1>3. CASE UNCHANGED lvars
  <2>1. UNCHANGED <<vars, owner, pc, op, checked, seen>>
    BY <1>3 DEF lvars, thread
  <2>2. LTypes' /\ Exclusive'
    BY <2>1 DEF LockInv, LTypes, Exclusive, Holds
  <2>3. \A t \in Thread : Called(t)' /\ Fresh(t)'
    BY <2>1 DEF LockInv, Called, Fresh, vars, held
  <2>4. Quiet'
    BY <2>1 DEF LockInv, Quiet, Running, Joined, vars, user
  <2> QED BY <2>1, <2>2, <2>3, <2>4 DEF LockInv
<1> QED BY <1>1, <1>2, <1>3 DEF LNext

\* The critical sections of a pipe are atomic: with a mutex for the pool and
\* one for the FIFO, and the sizes read and written in separate steps, the
\* operations behave as the single steps of PipeBuffers.
THEOREM LocksImplement == LSpec => AtomicSections
<1>1. LInit => Init
  BY DEF LInit
<1> QED BY <1>1, InitLockInv, NextLockInv, PTL DEF LSpec, AtomicSections, Spec

\* The mutexes a thread may have to wait for, where it is: a try-lock never
\* waits.
WaitsFor(t) ==
  CASE pc[t] = "lock pool" -> {"pool"}
    [] pc[t] = "lock fifo" -> {"fifo"}
    [] pc[t] = "enter"     -> {MutexOf(op[t])}
    [] OTHER               -> {}

\* A thread waits with empty hands, and so never for one that waits too: if
\* anybody waits for a mutex that is taken, the owner does not wait.
OwnersDoNotWait ==
  \A m \in Mutex, t \in Thread : owner[m] = t => WaitsFor(t) = {}

\* The two threads of a pipe never wait for each other, whatever they and the
\* user do: mtdp_lock2 gives up the mutex it has before it waits for the
\* other one, and the critical sections are not nested.
THEOREM NoDeadlock == LSpec => []OwnersDoNotWait
<1>1. ASSUME LockInv, NEW m \in Mutex, NEW t \in Thread, owner[m] = t
      PROVE  pc[t] \notin {"lock pool", "lock fifo", "enter"}
  BY <1>1 DEF LockInv, Exclusive, Holds
<1>2. LockInv => OwnersDoNotWait
  BY <1>1 DEF OwnersDoNotWait, WaitsFor
<1>3. LockInv /\ [LNext]_lvars => LockInv'
  BY NextLockInv
<1> QED BY InitLockInv, <1>2, <1>3, PTL DEF LSpec

\* What a user who only grows disabled pipes can rely on holds of the code
\* with its locks too.
THEOREM LockedConserved ==
  ASSUME ~Shrinks, ~ResizesPaused
  PROVE  LSpec => [](TypeOK /\ Conserved /\ PutBackFits)
<1>1. (Spec => []TypeOK) /\ (Spec => []Conserved) /\ (Spec => []PutBackFits)
  BY TypeCorrect, BuffersConserved, PoolHasRoom
<1> QED BY <1>1, LocksImplement, PTL DEF AtomicSections

-----------------------------------------------------------------------------
(***************************************************************************)
(* The assertion.                                                          *)
(***************************************************************************)

\* What a thread that counts knows of the buffers it missed.
Counted ==
  \A t \in Thread :
    pc[t] \in {"unlock pool", "unlock fifo", "assert"} /\ total = granted => Missing(seen[t])

\* A consistent count misses the buffers the two threads hold at most.
LEMMA TwoMissing ==
  ASSUME NEW p \in Nat, NEW f \in Nat, NEW o \in {0, 1}, NEW i \in {0, 1}, NEW n \in Nat,
         p + f + o + i = n, n <= MaxBuffers
  PROVE  Missing((n - (f + p)) % SizeLimit) /\ Missing((n - (p + f)) % SizeLimit)
<1>1. n - (f + p) \in 0..2 /\ n - (p + f) = n - (f + p) /\ n - (f + p) <= MaxBuffers
  BY LimitAssumption
<1>2. (n - (f + p)) % SizeLimit = n - (f + p)
  BY <1>1, Small
<1> QED BY <1>1, <1>2 DEF Missing

LEMMA NextCounted ==
  ASSUME ~Shrinks, ~ResizesPaused, IInv, IInv', LockInv, Counted, AssertionsPass, [LNext]_lvars
  PROVE  Counted' /\ AssertionsPass'
<1> USE DEF Goto
<1>t. LTypes /\ Quiet /\ \A t \in Thread : Called(t) /\ Fresh(t)
  BY DEF LockInv
<1>c. total = granted => Missing((total - (fsize + psize)) % SizeLimit)
  <2>1. psize \in Nat /\ fsize \in Nat /\ out \in {0, 1} /\ in \in {0, 1}
        /\ psize + fsize + out + in = granted /\ granted \in Nat /\ granted <= MaxBuffers
    BY LimitAssumption DEF IInv, TypeOK, Conserved
  <2> QED BY <2>1, TwoMissing
<1>d. total' = granted' => Missing((total' - (psize' + fsize')) % SizeLimit)
  <2>1. psize' \in Nat /\ fsize' \in Nat /\ out' \in {0, 1} /\ in' \in {0, 1}
        /\ psize' + fsize' + out' + in' = granted'
        /\ granted' \in Nat /\ granted' <= MaxBuffers
    <3>1. TypeOK' /\ Conserved' /\ granted' = capacity' /\ capacity' <= MaxBuffers
      BY DEF IInv
    <3>2. psize' \in Nat /\ fsize' \in Nat /\ out' \in {0, 1} /\ in' \in {0, 1}
      BY <3>1, LimitAssumption DEF TypeOK
    <3>3. psize' + fsize' + out' + in' = granted'
      BY <3>1 DEF Conserved
    <3>4. granted' \in Nat /\ granted' <= MaxBuffers
      BY <3>1 DEF TypeOK
    <3> QED BY <3>2, <3>3, <3>4
  <2> QED BY <2>1, TwoMissing
<1>1. CASE LNext /\ User
  <2>1. UNCHANGED thread /\ ~aborted
    BY <1>1 DEF User, LNext
  <2>2. CASE (\E n \in 1..MaxBuffers : Resize(n)) /\ aborted' = ~Missing((total' - (psize' + fsize')) % SizeLimit)
    <3>1. Joined
      BY <1>t, <2>2 DEF Resize, Quiet, Running
    <3>2. \A t \in Thread : pc'[t] = "idle"
      BY <2>1, <3>1 DEF Joined, thread
    <3>3. Counted'
      BY <3>2 DEF Counted
    <3> QED BY <1>d, <2>2, <3>3 DEF AssertionsPass
  <2>3. CASE UNCHANGED <<total, granted>>
    <3>1. aborted' => ~Missing((total' - (psize' + fsize')) % SizeLimit)
      BY <1>1, <2>1 DEF User
    <3>2. Counted'
      BY <2>1, <2>3 DEF Counted, thread
    <3> QED BY <1>d, <3>1, <3>2 DEF AssertionsPass
  <2> QED BY <1>1, <2>2, <2>3 DEF User, ClearFifo, ClearHeld, Control, user
<1>2. ASSUME NEW t \in Thread, Step(t), ~aborted PROVE Counted' /\ AssertionsPass'
  <2>1. UNCHANGED <<total, granted>>
    BY <1>2 DEF Step, Lock2, CountBuffers, Assert, Call, Critical, vars, user
  <2>2. /\ \A u \in Thread : u # t => pc'[u] = pc[u] /\ seen'[u] = seen[u]
    BY <1>2, <1>t DEF LTypes, Step, Lock2, TryLock, CountBuffers, Assert, Call, Critical
  <2>3. CASE Lock2(t) \/ Call(t) \/ Critical(t)
    <3>1. pc'[t] \notin {"unlock pool", "unlock fifo", "assert"} /\ UNCHANGED aborted
      BY <2>3, <1>t DEF LTypes, Lock2, TryLock, Call, Critical
    <3> QED BY <1>2, <2>1, <2>2, <3>1 DEF Counted, AssertionsPass
  <2>4. CASE CountBuffers(t)
    <3>1. /\ UNCHANGED aborted
          /\ pc'[t] \in {"unlock pool", "unlock fifo", "assert"} =>
               \/ seen'[t] = (total - (fsize + psize)) % SizeLimit
               \/ seen'[t] = seen[t] /\ pc[t] \in {"unlock pool", "unlock fifo", "assert"}
      BY <2>4, <1>t DEF LTypes, CountBuffers, Fresh
    <3> QED BY <1>2, <1>c, <2>1, <2>2, <3>1 DEF Counted, AssertionsPass
  <2>5. CASE Assert(t)
    <3>1. pc[t] = "assert" /\ pc'[t] \notin {"unlock pool", "unlock fifo", "assert"}
          /\ aborted' = ~Missing(seen[t])
      BY <2>5, <1>t DEF LTypes, Assert
    <3> QED BY <2>1, <2>2, <3>1 DEF Counted, AssertionsPass
  <2> QED BY <1>2, <2>3, <2>4, <2>5 DEF Step
<1>3. CASE UNCHANGED lvars
  BY <1>3 DEF lvars, vars, user, thread, Counted, AssertionsPass
<1> QED BY <1>1, <1>2, <1>3 DEF LNext

\* mtdp_pipe_check_invariants, called by each thread before and after each
\* of its operations while the other thread is in the middle of one, never
\* fails on a pipe that has the buffers it was last asked for.
THEOREM AssertionsHold ==
  ASSUME ~Shrinks, ~ResizesPaused
  PROVE  LSpec => []AssertionsPass
<1>1. LInit => LockInv /\ IInv /\ Counted /\ AssertionsPass
  <2>1. LInit => Counted /\ AssertionsPass
    BY DEF LInit, Counted, AssertionsPass
  <2> QED BY <2>1, InitLockInv, InitInv DEF LInit
<1>2. LockInv /\ IInv /\ Counted /\ AssertionsPass /\ [LNext]_lvars =>
        LockInv' /\ IInv' /\ Counted' /\ AssertionsPass'
  BY NextLockInv, NextInv, NextCounted
<1> QED BY <1>1, <1>2, PTL DEF LSpec
=============================================================================
