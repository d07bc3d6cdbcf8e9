--------------------------- MODULE PipelineCreate ---------------------------
(***************************************************************************)
(* mtdp_pipeline_create and mtdp_pipeline_destroy: what is acquired, in    *)
(* which order, and what is released when one of the steps fails.  The     *)
(* pipeline comes from the heap, or is the one static instance of a build  *)
(* with MTDP_PIPELINE_STATIC_INSTANCES = -1, over which the threads race.  *)
(* A resource is a triple of its kind, the pipe or worker it belongs to    *)
(* and a number.                                                           *)
(***************************************************************************)
EXTENDS Integers, Sequences, SequencesExt

CONSTANTS
  NStages,    \* internal_stages
  Thread,     \* threads that create and destroy pipelines
  Builds,     \* where the pipeline comes from: "heap", "static"
  MaxBlocks   \* bound: blocks the FIFO of a pipe grows to

ASSUME CreateAssumption ==
  /\ NStages \in Nat
  /\ Builds \subseteq {"heap", "static"}
  /\ MaxBlocks \in Nat \ {0}

Pipe   == 0..NStages
Worker == 0..NStages + 1

Pipeline     == <<"pipeline", 0, 0>>
Stages       == <<"stages", 0, 0>>
Impls        == <<"stage_impls", 0, 0>>
Pipes        == <<"pipes", 0, 0>>
PoolMutex(p) == <<"pool_mutex", p, 0>>
FifoMutex(p) == <<"fifo_mutex", p, 0>>
Vector(p)    == <<"blocks", p, 0>>
Block(p, k)  == <<"block", p, k>>
Semaphore(p) == <<"semaphore", p, 0>>
Buffers(p)   == <<"buffers", p, 0>>
Sync(w)      == <<"cv and mutex", w, 0>>

Resource ==
  {Pipeline, Stages, Impls, Pipes}
    \cup (UNION {{PoolMutex(p), FifoMutex(p), Vector(p), Semaphore(p), Buffers(p)} : p \in Pipe})
    \cup {Block(p, k) : p \in Pipe, k \in 1..MaxBlocks}
    \cup {Sync(w) : w \in Worker}

VARIABLES
  build,   \* one of Builds
  owned,   \* the flag of the static instance
  at,      \* where each thread is
  held,    \* what each thread's pipeline holds
  todo,    \* what the thread has yet to acquire, or to release, in order
  errno    \* mtdp_errno of each thread

vars == <<build, owned, at, held, todo, errno>>

Init ==
  /\ build \in Builds
  /\ owned = FALSE
  /\ at = [c \in Thread |-> "none"]
  /\ held = [c \in Thread |-> {}]
  /\ todo = [c \in Thread |-> <<>>]
  /\ errno = [c \in Thread |-> "OK"]

-----------------------------------------------------------------------------
\* mtdp_pipe_init, and the whole of mtdp_pipeline_create after the pipeline.
PipeParts(p) == <<PoolMutex(p), FifoMutex(p), Vector(p), Block(p, 1), Semaphore(p)>>

ToAcquire ==
  <<Stages, Impls, Pipes>> \o FlattenSeq([i \in 1..NStages + 1 |-> PipeParts(i - 1)])

\* Mutant: the blocks of the FIFO are left.
FifoDestroyed_VectorOnly(h, p) == <<Vector(p)>>

\* mtdp_buffer_fifo_destroy, for a pipeline that holds h: the blocks, then
\* the vector of pointers to them.
FifoDestroyed(h, p) ==
  SetToSeq({r \in h : r[1] = "block" /\ r[2] = p}) \o <<Vector(p)>>

\* Mutant: the array of the pool is freed even if there is none.
PipeDestroyed_AnyPool(h, p) ==
  <<PoolMutex(p), FifoMutex(p), Buffers(p)>> \o FifoDestroyed(h, p) \o <<Semaphore(p)>>

\* mtdp_pipe_destroy; a pool that was never resized has no array.
PipeDestroyed(h, p) ==
  <<PoolMutex(p), FifoMutex(p)>>
    \o (IF Buffers(p) \in h THEN <<Buffers(p)>> ELSE <<>>)
    \o FifoDestroyed(h, p) \o <<Semaphore(p)>>

\* Mutant: one pipe too many.
PipesDestroyed_OneMore(h, n) == FlattenSeq([i \in 1..n + 1 |-> PipeDestroyed(h, i - 1)])

\* The pipes before pipe n.
PipesDestroyed(h, n) == FlattenSeq([i \in 1..n |-> PipeDestroyed(h, i - 1)])

Vectors == <<Pipes, Impls, Stages, Pipeline>>

\* What mtdp_pipe_init releases when it fails to acquire r.
PipeUnwound(h, r) ==
  LET p == r[2]
      mutexes == <<PoolMutex(p), FifoMutex(p)>>
  IN  CASE r = PoolMutex(p) -> <<>>
        [] r = FifoMutex(p) -> <<PoolMutex(p)>>
        [] r = Vector(p)    -> mutexes
        [] r = Block(p, 1)  -> <<Vector(p)>> \o mutexes
        [] r = Semaphore(p) -> mutexes \o FifoDestroyed(h, p)

\* Mutant: the pipes initialised before the one that failed are forgotten.
Unwound_ThisPipeOnly(h, r) ==
  CASE r = Stages -> <<Pipeline>>
    [] r = Impls  -> <<Stages, Pipeline>>
    [] r = Pipes  -> <<Impls, Stages, Pipeline>>
    [] OTHER      -> PipeUnwound(h, r) \o Vectors

\* What mtdp_pipeline_create releases when it fails to acquire r.
Unwound(h, r) ==
  CASE r = Stages -> <<Pipeline>>
    [] r = Impls  -> <<Stages, Pipeline>>
    [] r = Pipes  -> <<Impls, Stages, Pipeline>>
    [] OTHER      -> PipeUnwound(h, r) \o PipesDestroyed(h, r[2]) \o Vectors

Goto(c, from, to) == at[c] = from /\ at' = [at EXCEPT ![c] = to]
Set(c, e) == errno' = [errno EXCEPT ![c] = e]

\* Mutant: the flag is set without a look at its value.
Alloc_NoTest(ok) == IF build = "static" THEN owned' = TRUE ELSE UNCHANGED owned

\* mtdp_pipeline_alloc: atomic_flag_test_and_set, or malloc.
Alloc(ok) ==
  IF build = "static" THEN ok = ~owned /\ owned' = TRUE
                      ELSE UNCHANGED owned

Create(c) ==
  /\ at[c] = "none"
  /\ \E ok \in BOOLEAN :
       /\ Alloc(ok)
       /\ IF ok
            THEN /\ Goto(c, "none", "creating")
                 /\ held' = [held EXCEPT ![c] = {Pipeline}]
                 /\ todo' = [todo EXCEPT ![c] = ToAcquire]
                 /\ UNCHANGED errno
            ELSE Set(c, "BAD_PTR") /\ UNCHANGED <<at, held, todo>>
  /\ UNCHANGED build

Acquire(c) ==
  /\ at[c] = "creating" /\ todo[c] # <<>>
  /\ held' = [held EXCEPT ![c] = @ \cup {Head(todo[c])}]
  /\ todo' = [todo EXCEPT ![c] = Tail(@)]
  /\ UNCHANGED <<build, owned, at, errno>>

Fail(c) ==
  /\ todo[c] # <<>>
  /\ Goto(c, "creating", "failing")
  /\ todo' = [todo EXCEPT ![c] = Unwound(held[c], Head(@))]
  /\ UNCHANGED <<build, owned, held, errno>>

\* mtdp_pipeline_configure; the results of mtdp_worker_init are not looked at.
Configure(c) ==
  /\ todo[c] = <<>>
  /\ Goto(c, "creating", "ready")
  /\ \E ok \in SUBSET Worker : held' = [held EXCEPT ![c] = @ \cup {Sync(w) : w \in ok}]
  /\ Set(c, "OK")
  /\ UNCHANGED <<build, owned, todo>>

\* mtdp_pipe_resize allocates the array of the pool or enlarges it.
Resize(c, p) ==
  /\ at[c] = "ready"
  /\ \/ Set(c, "OK") /\ held' = [held EXCEPT ![c] = @ \cup {Buffers(p)}]
     \/ Set(c, "NO_MEM") /\ UNCHANGED held
  /\ UNCHANGED <<build, owned, at, todo>>

\* A push into a full FIFO, by a thread of the pipeline.
Grow(c, p) ==
  /\ at[c] = "ready"
  /\ \E k \in 2..MaxBlocks :
       /\ Block(p, k - 1) \in held[c] /\ Block(p, k) \notin held[c]
       /\ held' = [held EXCEPT ![c] = @ \cup {Block(p, k)}]
  /\ UNCHANGED <<build, owned, at, todo, errno>>

\* Mutant: the vectors are freed before their elements are destroyed.
Destroyed_VectorsFirst(h) == <<Pipes, Impls, Stages>> \o PipesDestroyed(h, NStages + 1)
                               \o <<Pipeline>>

Destroyed(h) == PipesDestroyed(h, NStages + 1) \o Vectors

\* mtdp_pipeline_destroy, of a pipeline that is not enabled (any more).
Destroy(c) ==
  /\ Goto(c, "ready", "destroying")
  /\ todo' = [todo EXCEPT ![c] = Destroyed(held[c])]
  /\ UNCHANGED <<build, owned, held, errno>>

\* mtdp_pipeline_dealloc of the static instance: atomic_flag_clear.
Dealloc(r) == owned' = (owned /\ r # Pipeline)

Release(c) ==
  /\ at[c] \in {"failing", "destroying"} /\ todo[c] # <<>>
  /\ Dealloc(Head(todo[c]))
  /\ held' = [held EXCEPT ![c] = @ \ {Head(todo[c])}]
  /\ todo' = [todo EXCEPT ![c] = Tail(@)]
  /\ UNCHANGED <<build, at, errno>>

Return(c) ==
  /\ todo[c] = <<>>
  /\ \/ Goto(c, "failing", "none") /\ Set(c, "NO_MEM")
     \/ Goto(c, "destroying", "none") /\ Set(c, "OK")
  /\ UNCHANGED <<build, owned, held, todo>>

Next ==
  \E c \in Thread :
    \/ Create(c) \/ Acquire(c) \/ Fail(c) \/ Configure(c)
    \/ \E p \in Pipe : Resize(c, p) \/ Grow(c, p)
    \/ Destroy(c) \/ Release(c) \/ Return(c)

Spec == Init /\ [][Next]_vars

-----------------------------------------------------------------------------
TypeOK ==
  /\ build \in Builds /\ owned \in BOOLEAN
  /\ at \in [Thread -> {"none", "creating", "failing", "ready", "destroying"}]
  /\ errno \in [Thread -> {"OK", "NO_MEM", "BAD_PTR"}]
  /\ held \in [Thread -> SUBSET Resource]
  /\ todo \in [Thread -> Seq(Resource)]

\* A thread whose pipeline_create failed, or whose pipeline_destroy returned,
\* holds nothing: every path of the unwinding releases what was acquired.
\* (The condition variables and mutexes of the workers are never destroyed.)
NothingLeaks == \A c \in Thread : at[c] = "none" => held[c] \subseteq {Sync(w) : w \in Worker}

\* Nothing is released that was not acquired, or is released twice.
ReleasesWhatItHolds ==
  \A c \in Thread : at[c] \in {"failing", "destroying"} /\ todo[c] # <<>> =>
                      Head(todo[c]) \in held[c]

\* What a resource is found in: a pointer in the pipeline, an element of the
\* vector of pipes, an element of the vector of blocks.
Container(r) ==
  CASE r[1] \in {"stages", "stage_impls", "pipes"} -> Pipeline
    [] r[1] = "block" -> Vector(r[2])
    [] OTHER -> Pipes

\* No container is released before what it contains, on any path.
ContainersLast ==
  \A c \in Thread : \A r \in held[c] :
    r = Pipeline \/ r[1] = "cv and mutex" \/ Container(r) \in held[c]

\* The static instance belongs to one thread at a time, and is free again
\* when nobody has a pipeline.
OneStaticInstance ==
  build = "static" =>
    /\ \A c, d \in Thread : Pipeline \in held[c] \cap held[d] => c = d
    /\ owned = \E c \in Thread : Pipeline \in held[c]
=============================================================================
