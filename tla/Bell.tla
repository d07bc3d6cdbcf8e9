-------------------------------- MODULE Bell --------------------------------
(***************************************************************************)
(* A `done' word of mtdp and the futex calls around it.  mtdp_set_done and *)
(* mtdp_unset_done store the word and then wake every sleeping thread;     *)
(* mtdp_futex_wait reads the word, and asks the kernel to sleep if the     *)
(* word still is what it read.  A call that fails ends the wait.           *)
(***************************************************************************)
EXTENDS Integers

CONSTANTS
  Waiter,   \* threads that wait for the word to be set
  Ringer    \* threads that set it and unset it

VARIABLES
  done,      \* the word
  waiting,   \* where each waiting thread is
  waking     \* whether a ringer stored the word and has yet to wake the others

bvars == <<done, waiting, waking>>

BellInit ==
  /\ done = 0
  /\ waiting = [t \in Waiter |-> "read"]
  /\ waking = [r \in Ringer |-> FALSE]

\* Mutant: the word counts the rings.
Store_Counts(r, v) ==
  /\ ~waking[r]
  /\ done' = done + v /\ waking' = [waking EXCEPT ![r] = TRUE]
  /\ UNCHANGED waiting

\* atomic_store.
Store(r, v) ==
  /\ ~waking[r]
  /\ done' = v /\ waking' = [waking EXCEPT ![r] = TRUE]
  /\ UNCHANGED waiting

\* Mutant: FUTEX_WAKE wakes one thread (mtdp_futex_notify_one).
Woken_One ==
  IF \A t \in Waiter : waiting[t] # "asleep" THEN waiting
  ELSE [waiting EXCEPT ![CHOOSE t \in Waiter : waiting[t] = "asleep"] = "read"]

\* mtdp_futex_notify_all: whoever sleeps reads the word again.
Woken == [t \in Waiter |-> IF waiting[t] = "asleep" THEN "read" ELSE waiting[t]]

Wake(r) ==
  /\ waking[r]
  /\ waking' = [waking EXCEPT ![r] = FALSE]
  /\ waiting' = Woken
  /\ UNCHANGED done

Goes(t, to) == waiting' = [waiting EXCEPT ![t] = to]

\* atomic_load(ftx) == 0.
Read(t) ==
  /\ waiting[t] = "read"
  /\ Goes(t, IF done = 0 THEN "syscall" ELSE "through")
  /\ UNCHANGED <<done, waking>>

\* Mutant: the thread sleeps whatever the word is by now.
FutexWait_NoCompare(t) ==
  /\ waiting[t] = "syscall"
  /\ Goes(t, "asleep")
  /\ UNCHANGED <<done, waking>>

\* FUTEX_WAIT compares and sleeps in one step, or returns EAGAIN.
FutexWait(t) ==
  /\ waiting[t] = "syscall"
  /\ Goes(t, IF done = 0 THEN "asleep" ELSE "through")
  /\ UNCHANGED <<done, waking>>

\* A signal handler interrupts the sleep: EINTR.
Interrupted(t) ==
  /\ waiting[t] = "asleep"
  /\ Goes(t, "through")
  /\ UNCHANGED <<done, waking>>

WaitStep(t) == Read(t) \/ FutexWait(t)
=============================================================================
