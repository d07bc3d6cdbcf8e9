---------------------- MODULE PipelineOwnershipProofs ----------------------
(***************************************************************************)
(* Theorems about Pipeline, continued: where the buffers of a pipe are,    *)
(* what that says of a disabled pipeline and of mtdp_pipeline_wait, and    *)
(* the order in which the sink sees the items they carry.                  *)
(***************************************************************************)
EXTENDS PipelineProofs, FiniteSetTheorems

-----------------------------------------------------------------------------
(***************************************************************************)
(* Sequences without repetitions.                                          *)
(***************************************************************************)
Elements(s) == {s[i] : i \in 1..Len(s)}
Distinct(s) == \A i, j \in 1..Len(s) : s[i] = s[j] => i = j

\* What a push at the end adds.
LEMMA AppendElements ==
  ASSUME NEW S, NEW s \in Seq(S), NEW x \in S
  PROVE  /\ Elements(Append(s, x)) = Elements(s) \cup {x}
         /\ Distinct(s) /\ x \notin Elements(s) => Distinct(Append(s, x))
         /\ Append(s, x) # <<>> /\ Append(s, x)[Len(Append(s, x))] = x
<1> DEFINE t == Append(s, x)
<1>1. /\ t \in Seq(S) /\ Len(t) = Len(s) + 1 /\ Len(s) \in Nat
      /\ t[Len(s) + 1] = x
      /\ \A i \in 1..Len(s) : t[i] = s[i]
  OBVIOUS
<1> HIDE DEF t
<1>2. Elements(t) = Elements(s) \cup {x}
  <2>1. 1..Len(t) = (1..Len(s)) \cup {Len(s) + 1}
    BY <1>1
  <2> QED BY <1>1, <2>1 DEF Elements
<1>3. Distinct(s) /\ x \notin Elements(s) => Distinct(t)
  BY <1>1 DEF Distinct, Elements
<1>4. t # <<>> /\ t[Len(t)] = x
  BY <1>1
<1> QED BY <1>2, <1>3, <1>4 DEF t

\* What a pop at the front takes away.
LEMMA TailElements ==
  ASSUME NEW S, NEW s \in Seq(S), s # <<>>
  PROVE  /\ Elements(s) = Elements(Tail(s)) \cup {Head(s)}
         /\ Head(s) \in S
         /\ Distinct(s) => Distinct(Tail(s)) /\ Head(s) \notin Elements(Tail(s))
         /\ Len(s) > 1 => Tail(s) # <<>> /\ Tail(s)[Len(Tail(s))] = s[Len(s)]
         /\ Len(s) > 1 /\ Distinct(s) => Head(s) # s[Len(s)]
<1> DEFINE t == Tail(s)
<1>1. /\ t \in Seq(S) /\ Len(s) \in Nat \ {0} /\ Len(t) = Len(s) - 1
      /\ Head(s) = s[1] /\ s[1] \in S
      /\ \A i \in 1..Len(t) : t[i] = s[i + 1]
  OBVIOUS
<1>2. Head(s) = s[1]
  BY <1>1
<1> HIDE DEF t
<1>3. Elements(s) = Elements(t) \cup {s[1]}
  <2>1. ASSUME NEW i \in 1..Len(s) PROVE s[i] \in Elements(t) \cup {s[1]}
    <3>1. CASE i = 1
      BY <3>1
    <3>2. CASE i # 1
      <4>1. i - 1 \in 1..Len(t) /\ t[i - 1] = s[i]
        BY <1>1, <3>2
      <4> QED BY <4>1 DEF Elements
    <3> QED BY <3>1, <3>2
  <2>2. Elements(t) \cup {s[1]} \subseteq Elements(s)
    <3>1. ASSUME NEW i \in 1..Len(t) PROVE t[i] \in Elements(s)
      <4>1. i + 1 \in 1..Len(s) /\ t[i] = s[i + 1]
        BY <1>1
      <4> QED BY <4>1 DEF Elements
    <3>2. s[1] \in Elements(s)
      BY <1>1 DEF Elements
    <3> QED BY <3>1, <3>2 DEF Elements
  <2> QED BY <2>1, <2>2 DEF Elements
<1>4. Distinct(s) => Distinct(t) /\ s[1] \notin Elements(t)
  BY <1>1 DEF Distinct, Elements
<1>5. Len(s) > 1 => t # <<>> /\ t[Len(t)] = s[Len(s)]
  BY <1>1
<1>6. Len(s) > 1 /\ Distinct(s) => s[1] # s[Len(s)]
  BY <1>1 DEF Distinct
<1> QED BY <1>1, <1>2, <1>3, <1>4, <1>5, <1>6 DEF t

-----------------------------------------------------------------------------
(***************************************************************************)
(* Ownership.                                                              *)
(***************************************************************************)

\* What Ownership says of pipe p.
Shared(p) ==
  /\ pool[p] \cup FullSet(p) \cup Held(p) = Buffer
  /\ pool[p] \cap (FullSet(p) \cup Held(p)) = {}
  /\ Distinct(fifo[p])
  /\ input[p + 1] # NULL => input[p + 1] \notin FullSet(p) /\ input[p + 1] # output[p]
  /\ pc[p] # "post" => output[p] \notin FullSet(p)

\* Between its push and its release, what the producer still points at is
\* the newest full buffer: the consumer has no token for it yet.
Pushed(p) == pc[p] = "post" => fifo[p] # <<>> /\ fifo[p][Len(fifo[p])] = output[p]

OwnInv == TokenInv /\ \A p \in Pipe : Shared(p) /\ Pushed(p)

\* The two workers of a pipe, and the types of what they share.
LEMMA PipeFacts ==
  ASSUME Inv, NEW p \in Pipe
  PROVE  /\ p \in Worker /\ p + 1 \in Worker /\ p \in Int /\ p # p + 1
         /\ p # Sink /\ p + 1 # Source
         /\ fifo[p] \in Seq(Buffer) /\ pool[p] \in SUBSET Buffer
         /\ output[p] \in Buffer \cup {NULL} /\ input[p + 1] \in Buffer \cup {NULL}
         /\ Ctl(p) /\ Ctl(p + 1)
<1>1. p \in Worker /\ p + 1 \in Worker /\ p \in Int /\ p # p + 1 /\ p # Sink /\ p + 1 # Source
  BY NStagesAssumption DEF Pipe, Worker, Sink, Source
<1> QED BY <1>1 DEF Inv, TypeOK, WorkerCtl

\* A pipe is left alone by a step that changes none of its parts.
SamePipe(p) ==
  /\ pool'[p] = pool[p] /\ fifo'[p] = fifo[p]
  /\ output'[p] = output[p] /\ input'[p + 1] = input[p + 1]
  /\ pc'[p] = "post" <=> pc[p] = "post"

LEMMA SharedFrame ==
  ASSUME NEW p \in Pipe, Shared(p), Pushed(p), SamePipe(p)
  PROVE  Shared(p)' /\ Pushed(p)'
BY DEF SamePipe, Shared, Pushed, FullSet, Held, Distinct

\* The moves of a buffer: pool to producer, producer to FIFO, FIFO to
\* consumer, consumer to pool.  Each step of a worker is one of these for
\* one of its pipes, or none.
LEMMA SharedWorker ==
  ASSUME OwnInv, NEW w \in Worker, WorkerStep(w), NEW p \in Pipe
  PROVE  Shared(p)' /\ Pushed(p)'
<1> USE DEF Goto, context, flags, pipes, main, waiting, stream
<1>p. /\ p \in Worker /\ p + 1 \in Worker /\ p \in Int /\ p # p + 1
      /\ p # Sink /\ p + 1 # Source
      /\ fifo[p] \in Seq(Buffer) /\ pool[p] \in SUBSET Buffer
      /\ output[p] \in Buffer \cup {NULL} /\ input[p + 1] \in Buffer \cup {NULL}
      /\ Ctl(p) /\ Ctl(p + 1) /\ Shared(p) /\ Pushed(p)
      /\ TypeOK /\ w \in Int
  BY PipeFacts DEF OwnInv, TokenInv, Inv, Worker
<1>n. NULL \notin Buffer
  BY NullAssumption
<1>f. FullSet(p) = Elements(fifo[p]) /\ FullSet(p)' = Elements(fifo'[p])
  BY DEF FullSet, Elements
<1>1. CASE Gate(w)
  <2>1. pc[w] = "gate" /\ pc'[w] # "post"
    BY <1>1, ContinueType DEF Gate, TypeOK
  <2> QED BY <1>1, <1>p, <2>1, SharedFrame DEF Gate, SamePipe, TypeOK
<1>2. CASE PushBuffer(w)
  <2>1. CASE w = p /\ pc'[p] = "post"
    <3>1. /\ fifo'[p] = Append(fifo[p], output[p]) /\ pc[p] = "push"
          /\ output' = output /\ input' = input /\ pool' = pool
      BY <1>2, <1>p, <2>1 DEF PushBuffer, TypeOK
    <3>2. output[p] \in Buffer /\ output[p] \notin FullSet(p)
      BY <1>p, <3>1 DEF Ctl, Shared
    <3>3. /\ FullSet(p)' = FullSet(p) \cup {output[p]}
          /\ Distinct(fifo'[p])
          /\ Pushed(p)'
      BY <1>p, <1>f, <3>1, <3>2, AppendElements DEF Shared, Pushed
    <3>4. /\ pool'[p] = pool[p] /\ Held(p)' = Held(p)
          /\ FullSet(p)' \cup Held(p)' = FullSet(p) \cup Held(p)
      BY <3>1, <3>2, <3>3, <1>n DEF Held
    <3> QED BY <1>p, <2>1, <3>1, <3>2, <3>3, <3>4 DEF Shared
  <2>2. CASE w # p \/ pc'[p] # "post"
    BY <1>2, <1>p, <2>2, SharedFrame DEF PushBuffer, SamePipe, TypeOK
  <2> QED BY <2>1, <2>2
<1>3. CASE Post(w)
  <2>1. CASE w = p
    <3>1. /\ pc[p] = "post" /\ pc'[p] # "post" /\ output'[p] = NULL
          /\ input' = input /\ pool' = pool /\ fifo' = fifo
      BY <1>3, <1>p, <2>1, ContinueType DEF Post, TypeOK
    <3>2. output[p] \in FullSet(p) /\ NULL \notin FullSet(p)
      BY <1>p, <1>n, <3>1 DEF Pushed, FullSet
    <3> QED BY <1>p, <3>1, <3>2 DEF Shared, Pushed, Held, FullSet
  <2>2. CASE w # p
    BY <1>3, <1>p, <2>2, SharedFrame DEF Post, SamePipe, TypeOK
  <2> QED BY <2>1, <2>2
<1>4. CASE SetDone(w)
  BY <1>4, <1>p, SharedFrame DEF SetDone, SamePipe, TypeOK
<1>5. CASE TryAcquire(w)
  BY <1>5, <1>p, SharedFrame DEF TryAcquire, SamePipe, TypeOK
<1>6. CASE UnsetDone(w)
  BY <1>6, <1>p, SharedFrame DEF UnsetDone, SamePipe, TypeOK
<1>7. CASE GetFullBuffer(w)
  <2>1. pc[w] = "pull" /\ pc'[w] # "post" /\ (\A v \in Worker : v # w => pc'[v] = pc[v])
        /\ pool' = pool /\ output' = output
    BY <1>p, <1>7 DEF GetFullBuffer, TypeOK
  <2>2. CASE w = p + 1 /\ fifo[p] # <<>>
    <3>1. /\ fifo'[p] = Tail(fifo[p]) /\ input'[p + 1] = Head(fifo[p])
          /\ input[p + 1] = NULL /\ pc'[p] = pc[p]
      BY <1>7, <1>p, <2>1, <2>2 DEF GetFullBuffer, TypeOK, Ctl
    <3>2. pc[p] = "post" => Len(fifo[p]) > 1
      <4>1. ~Flushed
        BY <2>1 DEF Flushed
      <4>2. Tokens(p) /\ sem[p] \in Nat
        BY <1>p, <4>1 DEF OwnInv, TokenInv, TokensMatch, TypeOK
      <4> QED BY <1>p, <2>1, <2>2, <4>2 DEF Tokens
    <3>3. /\ FullSet(p) = FullSet(p)' \cup {Head(fifo[p])} /\ Head(fifo[p]) \in Buffer
          /\ Distinct(fifo'[p]) /\ Head(fifo[p]) \notin FullSet(p)'
          /\ pc[p] = "post" => /\ fifo'[p] # <<>> /\ fifo'[p][Len(fifo'[p])] = output[p]
                               /\ Head(fifo[p]) # output[p]
      BY <1>p, <1>f, <2>2, <3>1, <3>2, TailElements DEF Shared, Pushed
    <3>4. Head(fifo[p]) # output[p]
      BY <1>p, <3>3 DEF Shared
    <3>5. Pushed(p)'
      BY <2>1, <3>1, <3>3 DEF Pushed
    <3>6. Held(p)' = Held(p) \cup {Head(fifo[p])}
      BY <1>n, <2>1, <3>1, <3>3 DEF Held
    <3> QED BY <1>p, <2>1, <3>1, <3>3, <3>4, <3>5, <3>6 DEF Shared
  <2>3. CASE w # p + 1 \/ fifo[p] = <<>>
    <3>1. fifo'[p] = fifo[p] /\ input'[p + 1] = input[p + 1]
      BY <1>7, <1>p, <2>3 DEF GetFullBuffer, TypeOK
    <3> QED BY <1>p, <2>1, <3>1, SharedFrame DEF SamePipe
  <2> QED BY <2>2, <2>3
<1>8. CASE GetEmptyBuffer(w)
  <2>1. /\ input' = input /\ fifo' = fifo /\ pc'[w] # "post" /\ pc[w] = "take"
        /\ \A v \in Worker : v # w => pc'[v] = pc[v] /\ output'[v] = output[v]
        /\ \A q \in Pipe : q # w => pool'[q] = pool[q]
    BY <1>p, <1>8 DEF GetEmptyBuffer, TypeOK
  <2>2. CASE w = p /\ pool[p] # {}
    <3>1. PICK b \in pool[p] : output'[p] = b /\ pool'[p] = pool[p] \ {b}
      BY <1>8, <1>p, <2>2 DEF GetEmptyBuffer, TypeOK
    <3>2. output[p] = NULL /\ b # NULL /\ b \in Buffer
      BY <1>p, <1>n, <2>1, <2>2 DEF Ctl
    <3>3. Held(p)' = Held(p) \cup {b} /\ FullSet(p)' = FullSet(p)
      BY <2>1, <3>1, <3>2 DEF Held, FullSet
    <3>4. b \notin FullSet(p) \cup Held(p)
      BY <1>p DEF Shared
    <3>5. input[p + 1] # b
      BY <1>n, <3>2, <3>4 DEF Held
    <3> QED BY <1>p, <2>1, <2>2, <3>1, <3>3, <3>4, <3>5 DEF Shared, Pushed
  <2>3. CASE w # p \/ pool[p] = {}
    <3>1. pool'[p] = pool[p] /\ output'[p] = output[p]
      BY <1>8, <1>p, <2>1, <2>3 DEF GetEmptyBuffer
    <3> QED BY <1>p, <2>1, <3>1, SharedFrame DEF SamePipe
  <2> QED BY <2>2, <2>3
<1>9. CASE w = Source /\ (SourceProcess \/ SourceFinished)
  <2>1. /\ UNCHANGED <<input, output, fifo>> /\ pc[w] # "post" /\ pc'[w] # "post"
        /\ \A v \in Worker : v # w => pc'[v] = pc[v]
        /\ pool' = pool
    BY <1>9, <1>p DEF SourceProcess, SourceFinished, TypeOK
  <2> QED BY <1>p, <2>1, SharedFrame DEF SamePipe
<1>10. ASSUME w = p + 1, pc[w] # "none", input[w] # NULL, input'[w] = NULL, UNCHANGED <<fifo, output>>,
              PutBack(p, input[w]), pc'[p] = pc[p]
       PROVE  Shared(p)' /\ Pushed(p)'
  <2>1. pool'[p] = pool[p] \cup {input[p + 1]} /\ input[p + 1] \in Buffer
    BY <1>10, <1>p DEF PutBack, TypeOK
  <2>2. Held(p) = Held(p)' \cup {input[p + 1]} /\ input[p + 1] \notin Held(p)'
    BY <1>10, <1>p DEF Held, Shared
  <2> QED BY <1>10, <1>p, <2>1, <2>2 DEF Shared, Pushed, FullSet
<1>11. CASE StageProcess(w)
  <2>1. /\ \A v \in Worker : v # w => pc'[v] = pc[v] /\ input'[v] = input[v]
        /\ pc[w] = "process" /\ pc'[w] = "gate" /\ UNCHANGED <<fifo, output>>
    BY <1>p, <1>11 DEF StageProcess, PutBack, TypeOK
  <2>2. CASE UNCHANGED <<input, pool>>
    BY <1>p, <2>1, <2>2, SharedFrame DEF SamePipe
  <2>3. CASE input[w] # NULL /\ PutBack(w - 1, input[w]) /\ input' = [input EXCEPT ![w] = NULL]
    <3>1. input'[w] = NULL
      BY <2>3, <1>p DEF TypeOK
    <3>2. CASE w = p + 1
      BY <1>10, <1>p, <2>1, <2>3, <3>1, <3>2
    <3>3. CASE w # p + 1
      <4>1. pool'[p] = pool[p] /\ input'[p + 1] = input[p + 1]
        BY <1>p, <2>1, <2>3, <3>3 DEF PutBack, TypeOK
      <4> QED BY <1>p, <2>1, <4>1, SharedFrame DEF SamePipe
    <3> QED BY <3>2, <3>3
  <2> QED BY <1>11, <2>2, <2>3 DEF StageProcess
<1>12. CASE w = Sink /\ SinkProcess
  BY <1>12, <1>p, SharedFrame DEF SinkProcess, SamePipe, TypeOK
<1>13. CASE w = Sink /\ SinkReturn
  <2>1. /\ \A v \in Worker : v # w => pc'[v] = pc[v] /\ input'[v] = input[v]
        /\ pc[w] = "return" /\ pc'[w] = "acquire" /\ input'[w] = NULL /\ UNCHANGED <<fifo, output>>
        /\ PutBack(NStages, input[w])
    BY <1>p, <1>13 DEF SinkReturn, TypeOK
  <2>2. CASE w = p + 1
    <3>1. p = NStages /\ input[w] # NULL
      BY <1>13, <1>p, <2>1, <2>2, NStagesAssumption DEF Sink, Ctl
    <3> QED BY <1>10, <1>p, <2>1, <2>2, <3>1
  <2>3. CASE w # p + 1
    <3>1. pool'[p] = pool[p] /\ input'[p + 1] = input[p + 1]
      BY <1>13, <1>p, <2>1, <2>3, NStagesAssumption DEF PutBack, TypeOK, Sink
    <3> QED BY <1>p, <2>1, <3>1, SharedFrame DEF SamePipe
  <2> QED BY <2>2, <2>3
<1> QED BY <1>1, <1>2, <1>3, <1>4, <1>5, <1>6, <1>7, <1>8, <1>9, <1>11, <1>12, <1>13
        DEF WorkerStep

\* The controlling thread moves buffers only when nobody else has any.
LEMMA SharedMain ==
  ASSUME OwnInv, MainCall \/ MainStep, NEW p \in Pipe
  PROVE  Shared(p)' /\ Pushed(p)'
<1> USE DEF Goto, context, flags, pipes, main, waiting, stream
<1>p. /\ p \in Worker /\ p + 1 \in Worker
      /\ fifo[p] \in Seq(Buffer) /\ pool[p] \in SUBSET Buffer
      /\ Ctl(p) /\ Ctl(p + 1) /\ Shared(p) /\ Pushed(p)
      /\ TypeOK /\ MainCtl
  BY PipeFacts DEF OwnInv, TokenInv, Inv
<1>1. CASE CreateThread
  <2>1. mi \in Worker /\ pc[mi] = "none" /\ input[mi] = NULL /\ output[mi] = NULL
    BY <1>1, <1>p DEF CreateThread, MainCtl, OwnInv, TokenInv, Inv, WorkerCtl, Ctl, Worker
  <2>2. UNCHANGED <<pool, fifo, input, output>> /\ pc' = [pc EXCEPT ![mi] = "gate"]
    BY <1>1, <1>p, <2>1 DEF CreateThread, TypeOK
  <2> QED BY <1>p, <2>1, <2>2, SharedFrame DEF SamePipe, TypeOK
<1>2. CASE JoinAndClear
  <2>1. /\ pool'[p] = pool[p] \cup FullSet(p) \cup Held(p)
        /\ fifo'[p] = <<>> /\ output'[p] = NULL /\ input'[p + 1] = NULL /\ pc'[p] = "none"
    BY <1>2, <1>p DEF JoinAndClear
  <2>2. FullSet(p)' = {} /\ Held(p)' = {} /\ Distinct(fifo'[p])
    BY <2>1 DEF FullSet, Held, Distinct
  <2> QED BY <1>p, <2>1, <2>2 DEF Shared, Pushed
<1>3. CASE UNCHANGED <<pc, input, output, pool, fifo>>
  BY <1>3, <1>p, SharedFrame DEF SamePipe
<1> QED BY <1>1, <1>2, <1>3 DEF MainCall, EnableCall, StartCall, StopCall, DisableCall, MainStep,
      EnableReturn, EnableWorker, StartReturn, DisableWorker, StopReturn, DestroyFirst,
      DestroySecond, SetDoneAgain, MarkDisabled, DisableReturn

LEMMA InitOwnInv == Init => OwnInv
<1> SUFFICES ASSUME Init, NEW p \in Pipe PROVE Shared(p) /\ Pushed(p)
  BY InitTokenInv DEF OwnInv
<1>1. p \in Worker /\ p + 1 \in Worker
  BY NStagesAssumption DEF Pipe, Worker
<1>2. /\ pool[p] = Buffer /\ fifo[p] = <<>> /\ pc[p] = "none"
      /\ output[p] = NULL /\ input[p + 1] = NULL
  BY <1>1 DEF Init
<1>3. FullSet(p) = {} /\ Held(p) = {} /\ Distinct(fifo[p])
  BY <1>2 DEF FullSet, Held, Distinct
<1> QED BY <1>2, <1>3 DEF Shared, Pushed

LEMMA NextOwnInv == OwnInv /\ [Next]_vars => OwnInv'
<1> SUFFICES ASSUME OwnInv, [Next]_vars, NEW p \in Pipe PROVE Shared(p)' /\ Pushed(p)'
  BY NextTokenInv DEF OwnInv
<1>1. CASE \E w \in Worker : WorkerStep(w)
  BY <1>1, SharedWorker
<1>2. CASE MainCall \/ MainStep
  BY <1>2, SharedMain
<1>3. CASE UNCHANGED <<pc, context, pipes>>
  BY <1>3, SharedFrame DEF SamePipe, context, pipes, OwnInv
<1> QED BY <1>1, <1>2, <1>3 DEF Next, WaitCall, WaiterStep, AwaitNotDestroying, CheckEnabled,
           WaitDone, TestDone, vars

\* However the routines, the failed pushes and the disables interleave, each
\* buffer of a pipe has one place.
THEOREM BuffersOwned == Spec => []Ownership
<1>1. OwnInv => Ownership
  BY DEF OwnInv, Shared, Distinct, Ownership
<1> QED BY <1>1, InitOwnInv, NextOwnInv, PTL DEF Spec

\* The FIFOs are empty from mtdp_pipeline_clear on, until threads exist again.
Emptied ==
  mpc \in {"refix", "off", "release"} \/ (mpc = "idle" /\ ~enabled) =>
    \A p \in Pipe : fifo[p] = <<>>

LEMMA NextEmptied == OwnInv /\ Emptied /\ [Next]_vars => Emptied'
<1> SUFFICES ASSUME OwnInv, Emptied, [Next]_vars PROVE Emptied'
  OBVIOUS
<1>i. TypeOK /\ MainCtl
  BY DEF OwnInv, TokenInv, Inv
<1> USE DEF main, pipes
<1>1. ASSUME NEW w \in Worker, WorkerStep(w) PROVE Emptied'
  <2>1. pc[w] # "none" /\ UNCHANGED main
    BY <1>1 DEF WorkerStep, Gate, PushBuffer, Post, SetDone, TryAcquire, UnsetDone, GetFullBuffer,
       GetEmptyBuffer, SourceProcess, SourceFinished, StageProcess, SinkProcess, SinkReturn
  <2> QED BY <1>i, <2>1 DEF Emptied, MainCtl
<1>2. CASE MainCall
  BY <1>2 DEF MainCall, EnableCall, StartCall, StopCall, DisableCall, Emptied
<1>3. CASE JoinAndClear
  BY <1>3 DEF JoinAndClear, Emptied
<1>4. CASE MainStep /\ ~JoinAndClear
  BY <1>4, <1>i DEF MainStep, CreateThread, EnableReturn, EnableWorker, StartReturn, DisableWorker,
     StopReturn, DestroyFirst, DestroySecond, SetDoneAgain, MarkDisabled, DisableReturn, Emptied,
     MainCtl
<1>5. CASE UNCHANGED <<main, pipes>>
  BY <1>5 DEF Emptied
<1> QED BY <1>1, <1>2, <1>3, <1>4, <1>5 DEF Next, WaitCall, WaiterStep, AwaitNotDestroying,
           CheckEnabled, WaitDone, TestDone, vars

\* What that leaves in the pools, the threads being gone.
LEMMA CleanInv == OwnInv /\ Emptied => DisabledIsClean
<1> SUFFICES ASSUME OwnInv, Emptied, mpc = "idle", ~enabled
             PROVE  /\ \A w \in Worker : pc[w] = "none" /\ input[w] = NULL /\ output[w] = NULL
                    /\ \A p \in Pipe : pool[p] = Buffer /\ fifo[p] = <<>>
  BY DEF DisabledIsClean
<1>1. \A w \in Worker : pc[w] = "none" /\ input[w] = NULL /\ output[w] = NULL
  BY DEF OwnInv, TokenInv, Inv, MainCtl, WorkerCtl, Ctl
<1>2. ASSUME NEW p \in Pipe PROVE pool[p] = Buffer /\ fifo[p] = <<>>
  <2>1. fifo[p] = <<>> /\ p \in Worker /\ p + 1 \in Worker
    BY PipeFacts DEF OwnInv, TokenInv, Emptied
  <2>2. FullSet(p) = {} /\ Held(p) = {}
    BY <1>1, <2>1 DEF FullSet, Held
  <2> QED BY <2>1, <2>2 DEF OwnInv, Shared
<1> QED BY <1>1, <1>2

LEMMA InitEmptied == Init => Emptied
BY DEF Init, Emptied

\* A disable joins every thread and loses no buffer: the pipeline it leaves
\* is as good as new, but for the semaphores and the `destroyed' flags.
THEOREM DisableCleans == Spec => []DisabledIsClean
BY InitEmptied, CleanInv, InitOwnInv, NextOwnInv, NextEmptied, PTL DEF Spec

-----------------------------------------------------------------------------
(***************************************************************************)
(* Waiting.                                                                *)
(***************************************************************************)

\* The remainder of a number smaller than the divisor.
LEMMA SmallRemainder ==
  ASSUME NEW n \in Nat, NEW d \in Nat, n < d
  PROVE  n % d = n
OBVIOUS

\* The full buffers of a pipe and the one about to be pushed fit into one
\* block, if all its buffers do: the push needs no memory.
LEMMA PushNeedsNoMemory ==
  ASSUME OwnInv, Cardinality(Buffer) <= BlockSize, NEW w \in Worker, pc[w] = "push"
  PROVE  ~PushMayFail(w)
<1>1. w \in Pipe /\ output[w] \in Buffer
  BY PipesOfWorker DEF OwnInv, TokenInv, Inv, WorkerCtl, Ctl, TypeOK
<1>2. /\ fifo[w] \in Seq(Buffer) /\ Distinct(fifo[w])
      /\ \A i \in 1..Len(fifo[w]) : fifo[w][i] # output[w]
  BY <1>1, PipeFacts DEF OwnInv, TokenInv, Shared, FullSet
<1> DEFINE n == Len(fifo[w])
           others == Buffer \ {output[w]}
           f == [i \in 1..n |-> fifo[w][i]]
<1>3. n \in Nat /\ f \in [1..n -> others] /\ \A i, j \in 1..n : f[i] = f[j] => i = j
  BY <1>2 DEF Distinct
<1>4. f \in Injection(1..n, others)
  BY <1>3 DEF Injection, IsInjective
<1>5. /\ IsFiniteSet(others) /\ Cardinality(others) = Cardinality(Buffer) - 1
      /\ Cardinality(Buffer) \in Nat
  BY <1>1, BufferAssumption, FS_RemoveElement, FS_CardinalityType
<1>6. Cardinality(1..n) = n
  BY <1>3, FS_Interval
<1>7. n <= Cardinality(others)
  BY <1>4, <1>5, <1>6, FS_Injection
<1>8. n < BlockSize
  BY <1>3, <1>5, <1>7, BlockAssumption
<1> HIDE DEF n
<1>9. n % BlockSize = n
  BY <1>3, <1>8, BlockAssumption, SmallRemainder
<1> QED BY <1>3, <1>9 DEF PushMayFail, n

\* A push of the source finds no memory for the block it needs, and the
\* routine goes to set `done'.
FailedPush == pc[Source] = "push" /\ pc'[Source] = "idle"

\* The allocator serves the source whenever it asks.
PushesSucceed == [][~FailedPush]_vars

\* A pipe whose buffers fit into one block never asks.
LEMMA OneBlockIsEnough ==
  ASSUME Cardinality(Buffer) <= BlockSize
  PROVE  Spec => PushesSucceed
<1>1. OwnInv /\ [Next]_vars => [~FailedPush]_vars
  <2> SUFFICES ASSUME OwnInv, Next, FailedPush PROVE FALSE
    OBVIOUS
  <2>i. TypeOK /\ MainCtl /\ Source \in Worker
    BY NStagesAssumption DEF OwnInv, TokenInv, Inv, Worker, Source
  <2>1. ~PushMayFail(Source)
    BY <2>i, PushNeedsNoMemory DEF FailedPush
  <2>2. ASSUME NEW w \in Worker, WorkerStep(w) PROVE FALSE
    <3>1. pc[Source] = "push" /\ pc'[Source] = "idle" /\ pc \in [Worker -> WorkerPc]
      BY <2>i DEF FailedPush, TypeOK
    <3>2. CASE w # Source
      <4>1. pc'[Source] = pc[Source]
        BY <2>2, <2>i, <3>1, <3>2 DEF Goto, WorkerStep, Gate, PushBuffer, Post, SetDone, TryAcquire,
           UnsetDone, GetFullBuffer, GetEmptyBuffer, StageProcess, SinkProcess, SinkReturn
      <4> QED BY <3>1, <4>1
    <3>3. CASE w = Source
      <4>1. PushBuffer(Source)
        BY <2>2, <3>1, <3>3 DEF WorkerStep, Gate, Post, SetDone, TryAcquire, UnsetDone,
           GetFullBuffer, GetEmptyBuffer, SourceProcess, SourceFinished, StageProcess, SinkProcess,
           SinkReturn, Goto
      <4> QED BY <2>i, <2>1, <3>1, <4>1 DEF PushBuffer, Goto
    <3> QED BY <3>2, <3>3
  <2>3. CASE MainCall \/ MainStep
    <3>1. CASE CreateThread
      BY <3>1, <2>i DEF FailedPush, CreateThread, Goto, TypeOK
    <3>2. CASE JoinAndClear
      BY <3>2, <2>i DEF FailedPush, JoinAndClear
    <3>3. CASE UNCHANGED pc
      BY <3>3 DEF FailedPush
    <3> QED BY <2>3, <3>1, <3>2, <3>3 DEF MainCall, EnableCall, StartCall, StopCall, DisableCall,
          MainStep, EnableReturn, EnableWorker, StartReturn, DisableWorker, StopReturn, DestroyFirst,
          DestroySecond, SetDoneAgain, MarkDisabled, DisableReturn
  <2>4. ASSUME NEW t \in Waiter, WaitCall(t) \/ WaiterStep(t) PROVE FALSE
    BY <2>4 DEF FailedPush, WaitCall, WaiterStep, AwaitNotDestroying, CheckEnabled, WaitDone, TestDone
  <2> QED BY <2>2, <2>3, <2>4 DEF Next
<1> QED BY <1>1, InitOwnInv, NextOwnInv, PTL DEF Spec, PushesSucceed

\* The `done' of the source tells that it is over, and a waiting thread that
\* passed it knows.
DoneTells ==
  /\ pc[Source] # "idle"
  /\ done[Source] = 1 => SourceOver
  /\ \A t \in Waiter : tpc[t] = "test" /\ ti[t] # Source => SourceOver

LEMMA NextDoneTells ==
  ASSUME OwnInv, DoneTells, [Next]_vars, [~FailedPush]_vars
  PROVE  DoneTells'
<1> USE NStagesAssumption DEF Goto, context, flags, pipes, main, waiting, stream, Source
<1>i. TypeOK /\ MainCtl /\ WorkerCtl /\ Destroyed /\ Source \in Worker /\ Sink # Source
  BY DEF OwnInv, TokenInv, Inv, Worker, Sink
<1>1. ASSUME NEW w \in Worker, WorkerStep(w) PROVE DoneTells'
  <2>1. UNCHANGED <<main, waiting>> /\ (wDestroyed[Source] => wDestroyed'[Source])
    BY <1>1, <1>i DEF WorkerStep, Gate, PushBuffer, Post, SetDone, TryAcquire, UnsetDone,
       GetFullBuffer, GetEmptyBuffer, SourceProcess, SourceFinished, StageProcess, SinkProcess,
       SinkReturn, TypeOK
  <2>2. CASE w # Source
    <3>1. pc'[Source] = pc[Source] /\ done'[Source] = done[Source]
      BY <1>1, <1>i, <2>2 DEF WorkerStep, Gate, PushBuffer, Post, SetDone, TryAcquire, UnsetDone,
         GetFullBuffer, GetEmptyBuffer, StageProcess, SinkProcess, SinkReturn, TypeOK
    <3> QED BY <2>1, <3>1 DEF DoneTells, SourceOver
  <2>3. CASE w = Source
    <3>1. /\ Ctl(Source) /\ Source \notin Stage
          /\ pc[Source] = "push" => pc'[Source] # "idle"
      BY <1>i DEF WorkerCtl, Stage, FailedPush, vars
    <3>2. pc'[Source] # "idle"
      BY <1>1, <1>i, <2>3, <3>1, ContinueType DEF DoneTells, Ctl, WorkerStep, Gate, PushBuffer, Post,
         SetDone, TryAcquire, UnsetDone, GetFullBuffer, GetEmptyBuffer, SourceProcess,
         SourceFinished, StageProcess, SinkProcess, SinkReturn, TypeOK
    <3>3. done'[Source] = 1 => done[Source] = 1 \/ SourceOver'
      BY <1>1, <1>i, <2>3, <3>1 DEF DoneTells, Ctl, WorkerStep, Gate, PushBuffer, Post, SetDone,
         TryAcquire, UnsetDone, GetFullBuffer, GetEmptyBuffer, SourceProcess, SourceFinished,
         StageProcess, SinkProcess, SinkReturn, TypeOK, SourceOver
    <3>4. pc[Source] = "finish" => wDestroyed'[Source]
      BY <1>1, <1>i, <2>3 DEF WorkerStep, Gate, PushBuffer, Post, SetDone, TryAcquire, UnsetDone,
         GetFullBuffer, GetEmptyBuffer, SourceProcess, SourceFinished, StageProcess, SinkProcess,
         SinkReturn, TypeOK
    <3>5. SourceOver => SourceOver'
      BY <2>1, <3>4 DEF SourceOver
    <3> QED BY <2>1, <3>2, <3>3, <3>5 DEF DoneTells
  <2> QED BY <2>2, <2>3
<1>2. CASE MainCall \/ MainStep
  <2>1. CASE CreateThread
    <3>1. mi \in Worker /\ pc[mi] = "none" /\ UNCHANGED <<waiting, mpc, wDestroyed>>
          /\ pc' = [pc EXCEPT ![mi] = "gate"] /\ done' = [done EXCEPT ![mi] = 0]
          /\ mpc = "enable"
      BY <1>i, <2>1 DEF CreateThread, MainCtl, Worker
    <3>2. SourceOver => SourceOver'
      BY <1>i, <3>1 DEF SourceOver, TypeOK
    <3> QED BY <1>i, <3>1, <3>2 DEF DoneTells, TypeOK
  <2>2. CASE JoinAndClear
    <3>1. wDestroyed'[Source] /\ pc'[Source] = "none"
      BY <1>i, <2>2 DEF JoinAndClear, Destroyed
    <3> QED BY <3>1 DEF DoneTells, SourceOver
  <2>3. CASE DestroyFirst
    <3>1. SourceOver => SourceOver'
      BY <1>i, <2>3 DEF DestroyFirst, SourceOver, TypeOK
    <3>2. done'[Source] = 1 => done[Source] = 1 \/ SourceOver'
      BY <1>i, <2>3 DEF DestroyFirst, SourceOver, TypeOK
    <3> QED BY <2>3, <3>1, <3>2 DEF DestroyFirst, DoneTells
  <2>4. CASE DestroySecond
    <3>1. SourceOver => SourceOver'
      BY <1>i, <2>4 DEF DestroySecond, SourceOver, TypeOK
    <3>2. done'[Source] = 1 => done[Source] = 1
      BY <1>i, <2>4 DEF DestroySecond, MainCtl, TypeOK
    <3> QED BY <2>4, <3>1, <3>2 DEF DestroySecond, DoneTells
  <2>5. CASE SetDoneAgain
    <3>1. SourceOver => SourceOver'
      BY <2>5 DEF SetDoneAgain, SourceOver
    <3>2. done'[Source] = done[Source]
      BY <1>i, <2>5 DEF SetDoneAgain, Stage, TypeOK
    <3> QED BY <2>5, <3>1, <3>2 DEF SetDoneAgain, DoneTells
  <2>6. CASE UNCHANGED <<pc, done, wDestroyed, waiting>> /\ mpc # "ring"
    BY <2>6 DEF DoneTells, SourceOver
  <2> QED BY <1>2, <2>1, <2>2, <2>3, <2>4, <2>5, <2>6 DEF MainCall, EnableCall, StartCall, StopCall,
        DisableCall, MainStep, EnableReturn, EnableWorker, StartReturn, DisableWorker, StopReturn,
        MarkDisabled, DisableReturn
<1>3. ASSUME NEW t \in Waiter, WaitCall(t) \/ WaiterStep(t) PROVE DoneTells'
  <2>1. UNCHANGED <<pc, done, flags, main>>
    BY <1>3 DEF WaitCall, WaiterStep, AwaitNotDestroying, CheckEnabled, WaitDone, TestDone
  <2>2. ASSUME NEW u \in Waiter, tpc'[u] = "test", ti'[u] # Source
        PROVE  done[Source] = 1 \/ (tpc[u] = "test" /\ ti[u] # Source)
    BY <1>3, <1>i, <2>2 DEF WaitCall, WaiterStep, AwaitNotDestroying, CheckEnabled, WaitDone,
       TestDone, TypeOK
  <2> QED BY <2>1, <2>2 DEF DoneTells, SourceOver
<1>4. CASE UNCHANGED vars
  BY <1>4 DEF vars, DoneTells, SourceOver
<1> QED BY <1>1, <1>2, <1>3, <1>4 DEF Next

\* mtdp_pipeline_wait, which reads the words of the workers one after the
\* other while they change, does not report the end of a stream before
\* mtdp_source_finished or mtdp_pipeline_disable, as long as no push of the
\* source fails; with any number of buffers, in any number of blocks.
THEOREM WaitIsNotEarly == Spec /\ PushesSucceed => WaitReturnsAfterSource
<1>1. Init => DoneTells
  BY NStagesAssumption DEF Init, DoneTells, Source, Worker
<1>2. OwnInv /\ DoneTells /\ [Next]_vars =>
        [\A t \in Waiter : tpc[t] = "test" /\ tpc'[t] = "ok" => SourceOver]_vars
  <2> SUFFICES ASSUME OwnInv, DoneTells, Next, NEW t \in Waiter, tpc[t] = "test", tpc'[t] = "ok"
               PROVE  SourceOver
    OBVIOUS
  <2>1. ti[t] = Sink
    <3>1. UNCHANGED tpc \/ \E u \in Waiter : WaitCall(u) \/ WaiterStep(u)
      BY DEF Next, WorkerStep, Gate, PushBuffer, Post, SetDone, TryAcquire, UnsetDone,
         GetFullBuffer, GetEmptyBuffer, SourceProcess, SourceFinished, StageProcess, SinkProcess,
         SinkReturn, MainCall, EnableCall, StartCall, StopCall, DisableCall, MainStep,
         CreateThread, EnableReturn, EnableWorker, StartReturn, DisableWorker, StopReturn,
         DestroyFirst, DestroySecond, JoinAndClear, SetDoneAgain, MarkDisabled, DisableReturn,
         waiting
    <3> QED BY <3>1 DEF WaitCall, WaiterStep, AwaitNotDestroying, CheckEnabled, WaitDone, TestDone,
               OwnInv, TokenInv, Inv, TypeOK
  <2> QED BY <2>1, PipesOfWorker, NStagesAssumption DEF DoneTells, Source, Sink
<1> QED BY <1>1, <1>2, InitOwnInv, NextOwnInv, NextDoneTells, PTL
       DEF Spec, PushesSucceed, WaitReturnsAfterSource

-----------------------------------------------------------------------------
(***************************************************************************)
(* What a disable leaves in the `done' words.                              *)
(***************************************************************************)

\* The source is rung before it is destroyed and never clears its word; the
\* stages, who may, are rung again when their threads are gone.
Rung ==
  /\ mpc \in {"ring", "join", "refix"} \/ (mpc = "kill" /\ mi # Source) => done[Source] = 1
  /\ mpc = "refix" => mi >= 1 /\ \A w \in Stage : w < mi => done[w] = 1

DoneInv == Inv /\ Rung /\ DisabledIsDone

LEMMA InitDoneInv == Init => DoneInv
<1> SUFFICES ASSUME Init PROVE Rung /\ DisabledIsDone
  BY InitInv DEF DoneInv
<1> QED BY DEF Init, Rung, DisabledIsDone

\* Only a thread with an input pipe clears its `done', and no worker runs
\* between the join of a disable and the next enable.
LEMMA WorkerRung ==
  ASSUME DoneInv, NEW w \in Worker, WorkerStep(w)
  PROVE  Rung' /\ DisabledIsDone'
<1> USE NStagesAssumption DEF Goto, context, flags, pipes, main, waiting, stream, Source
<1>i. TypeOK /\ MainCtl /\ Ctl(w) /\ Source \in Worker
  BY DEF DoneInv, Inv, WorkerCtl, Worker
<1>1. UNCHANGED main /\ pc[w] # "none"
  BY <1>i DEF WorkerStep, Gate, PushBuffer, Post, SetDone, TryAcquire, UnsetDone, GetFullBuffer,
     GetEmptyBuffer, SourceProcess, SourceFinished, StageProcess, SinkProcess, SinkReturn
<1>2. mpc \notin {"refix", "off", "release"} /\ ~(mpc = "idle" /\ ~enabled)
  BY <1>1, <1>i DEF MainCtl
<1>3. done[Source] = 1 => done'[Source] = 1
  BY <1>i DEF Ctl, TypeOK, WorkerStep, Gate, PushBuffer, Post, SetDone, TryAcquire, UnsetDone,
     GetFullBuffer, GetEmptyBuffer, SourceProcess, SourceFinished, StageProcess, SinkProcess,
     SinkReturn
<1> QED BY <1>1, <1>2, <1>3 DEF DoneInv, Rung, DisabledIsDone

LEMMA MainRung ==
  ASSUME DoneInv, MainCall \/ MainStep
  PROVE  Rung' /\ DisabledIsDone'
<1> USE NStagesAssumption DEF Goto, context, flags, pipes, main, waiting, stream, Source
<1>i. TypeOK /\ MainCtl /\ Rung /\ DisabledIsDone /\ Source \in Worker /\ Sink # Source
      /\ Stage \subseteq Worker /\ Source \notin Stage /\ Worker \ {Sink} = {Source} \cup Stage
  BY DEF DoneInv, Inv, Worker, Sink, Stage
<1>1. CASE MainCall
  BY <1>i, <1>1 DEF MainCall, EnableCall, StartCall, StopCall, DisableCall, Rung, DisabledIsDone
<1>2. CASE CreateThread
  BY <1>i, <1>2 DEF CreateThread, Rung, DisabledIsDone
<1>3. CASE EnableReturn \/ StartReturn \/ StopReturn \/ EnableWorker \/ DisableWorker
  BY <1>i, <1>3 DEF EnableReturn, StartReturn, StopReturn, EnableWorker, DisableWorker, MainCtl,
     Rung, DisabledIsDone
<1>4. CASE DestroyFirst
  BY <1>i, <1>4 DEF DestroyFirst, TypeOK, Rung, DisabledIsDone
<1>5. CASE DestroySecond
  BY <1>i, <1>5 DEF DestroySecond, TypeOK, Rung, DisabledIsDone
<1>6. CASE JoinAndClear
  BY <1>i, <1>6 DEF JoinAndClear, Stage, Rung, DisabledIsDone
<1>7. CASE SetDoneAgain
  <2>1. CASE mi \in Stage
    <3>1. /\ done' = [done EXCEPT ![mi] = 1] /\ mi' = mi + 1 /\ mpc = "refix" /\ mpc' = "refix"
          /\ \A w \in Stage : w < mi' => w < mi \/ w = mi
      BY <1>7, <2>1 DEF SetDoneAgain, Stage
    <3> QED BY <1>i, <2>1, <3>1 DEF TypeOK, Rung, DisabledIsDone, Stage
  <2>2. CASE mi \notin Stage
    <3>1. mpc = "refix" /\ mpc' = "off" /\ done' = done /\ \A w \in Stage : w < mi
      BY <1>i, <1>7, <2>2 DEF SetDoneAgain, Rung, Stage, TypeOK
    <3> QED BY <1>i, <3>1 DEF Rung, DisabledIsDone
  <2> QED BY <2>1, <2>2
<1>8. CASE MarkDisabled \/ DisableReturn
  BY <1>i, <1>8 DEF MarkDisabled, DisableReturn, Rung, DisabledIsDone
<1> QED BY <1>1, <1>2, <1>3, <1>4, <1>5, <1>6, <1>7, <1>8 DEF MainStep

LEMMA NextDoneInv == DoneInv /\ [Next]_vars => DoneInv'
<1> SUFFICES ASSUME DoneInv, [Next]_vars PROVE Rung' /\ DisabledIsDone'
  BY NextInv DEF DoneInv
<1>1. ASSUME UNCHANGED <<mpc, mi, enabled, sessions, done>> PROVE Rung' /\ DisabledIsDone'
  BY <1>1 DEF DoneInv, Rung, DisabledIsDone
<1>2. ASSUME NEW t \in Waiter, WaitCall(t) \/ WaiterStep(t) PROVE Rung' /\ DisabledIsDone'
  BY <1>1, <1>2 DEF WaitCall, WaiterStep, AwaitNotDestroying, CheckEnabled, WaitDone, TestDone, main
<1>3. CASE UNCHANGED vars
  BY <1>1, <1>3 DEF vars, main
<1> QED BY <1>2, <1>3, WorkerRung, MainRung DEF Next

\* A worker destroyed while it had a token clears its `done' after
\* mtdp_stage_destroy set it; mtdp_pipeline_disable sets it again after the
\* join, so that when it returns only the sink's can be clear.
THEOREM DisableRings == Spec => []DisabledIsDone
<1>1. DoneInv => DisabledIsDone
  BY DEF DoneInv
<1> QED BY <1>1, InitDoneInv, NextDoneInv, PTL DEF Spec

-----------------------------------------------------------------------------
(***************************************************************************)
(* The order of the items in flight.                                       *)
(***************************************************************************)

\* The buffers of pipe p that carry an item: what the consumer holds, the
\* FIFO, and what the producer is about to push.
Taken(p)    == {input[p + 1]} \ {NULL}
ToPush(p)   == IF readyPush[p] THEN {output[p]} \ {NULL} ELSE {}
Carrying(p) == Taken(p) \cup FullSet(p) \cup ToPush(p)

\* Along a pipe, from the consumer to the producer, items do not decrease.
SortedPipe(p) ==
  /\ \A i, j \in 1..Len(fifo[p]) : i <= j => item[p][fifo[p][i]] <= item[p][fifo[p][j]]
  /\ \A b \in Taken(p), c \in FullSet(p) \cup ToPush(p) : item[p][b] <= item[p][c]
  /\ \A b \in FullSet(p), c \in ToPush(p) : item[p][b] <= item[p][c]

\* What a pipe carries is not newer than what the pipes before it carry.
SortedPipes ==
  \A p, q \in Pipe : q < p =>
    \A b \in Carrying(p), c \in Carrying(q) : item[p][b] <= item[q][c]

\* The sink is behind, and the source ahead of, everything in flight.
Bounded ==
  /\ consumed <= produced
  /\ \A p \in Pipe : \A b \in Carrying(p) : consumed <= item[p][b] /\ item[p][b] <= produced

Ordered == (\A p \in Pipe : SortedPipe(p)) /\ SortedPipes /\ Bounded

-----------------------------------------------------------------------------
(***************************************************************************)
(* Steps that bring nothing new.                                           *)
(***************************************************************************)

\* What pipe p carries after a step it carried before, with the same item.
Keeps(p) == \A b \in Carrying(p)' : b \in Carrying(p) /\ item'[p][b] = item[p][b]

\* The places of pipe p change by losing buffers at most.
Rests(p) ==
  /\ fifo'[p] = fifo[p]
  /\ Taken(p)' \subseteq Taken(p) /\ ToPush(p)' \subseteq ToPush(p)
  /\ \A b \in Carrying(p)' : item'[p][b] = item[p][b]

LEMMA RestsKeeps ==
  ASSUME NEW p \in Pipe, Rests(p)
  PROVE  /\ Keeps(p)
         /\ SortedPipe(p) => SortedPipe(p)'
<1>1. FullSet(p)' = FullSet(p)
  BY DEF Rests, FullSet
<1>2. Keeps(p)
  BY <1>1 DEF Rests, Keeps, Carrying
<1>3. ASSUME SortedPipe(p) PROVE SortedPipe(p)'
  <2>1. \A i \in 1..Len(fifo[p]) : item'[p][fifo[p][i]] = item[p][fifo[p][i]]
    BY DEF Rests, Carrying, FullSet
  <2>2. \A b \in Taken(p)' \cup FullSet(p)' \cup ToPush(p)' : item'[p][b] = item[p][b]
    BY DEF Rests, Carrying
  <2>3. \A i, j \in 1..Len(fifo'[p]) : i <= j => item'[p][fifo'[p][i]] <= item'[p][fifo'[p][j]]
    BY <1>3, <2>1 DEF Rests, SortedPipe
  <2> QED BY <1>1, <1>3, <2>2, <2>3 DEF Rests, SortedPipe
<1> QED BY <1>2, <1>3

\* If no pipe brings anything new, nothing that relates the pipes changes.
LEMMA KeepsOrder ==
  ASSUME Ordered, \A p \in Pipe : SortedPipe(p)' /\ Keeps(p),
         consumed' = consumed, produced' = produced
  PROVE  Ordered'
<1>1. SortedPipes'
  BY DEF Ordered, SortedPipes, Keeps
<1>2. Bounded'
  BY DEF Ordered, Bounded, Keeps
<1> QED BY <1>1, <1>2 DEF Ordered

-----------------------------------------------------------------------------
(***************************************************************************)
(* The steps of the workers.                                               *)
(***************************************************************************)

\* What the order of a pipe rests on: its three places do not overlap, but
\* for the buffer just pushed.
LEMMA Places ==
  ASSUME OwnInv, NEW p \in Pipe
  PROVE  /\ Taken(p) \cup FullSet(p) \cup ToPush(p) \subseteq Buffer
         /\ Taken(p) \cap (FullSet(p) \cup ToPush(p)) = {}
         /\ pc[p] # "post" => FullSet(p) \cap ToPush(p) = {}
         /\ \A b \in Buffer : item[p][b] \in Nat
         /\ item[p] \in [Buffer -> Nat]
<1>1. /\ fifo[p] \in Seq(Buffer) /\ Shared(p) /\ item \in [Pipe -> [Buffer -> Nat]]
      /\ output[p] \in Buffer \cup {NULL} /\ input[p + 1] \in Buffer \cup {NULL}
  BY PipeFacts DEF OwnInv, TokenInv, Inv, TypeOK
<1>2. FullSet(p) \subseteq Buffer
  BY <1>1 DEF FullSet
<1> QED BY <1>1, <1>2, NullAssumption DEF Shared, Taken, ToPush

\* A step that moves no buffer and writes no item.
Still ==
  /\ UNCHANGED <<output, input, fifo, item>>
  /\ \A p \in Pipe : readyPush'[p] => readyPush[p]

LEMMA StillRests ==
  ASSUME Still, NEW p \in Pipe
  PROVE  Rests(p)
BY DEF Still, Rests, Taken, ToPush

\* The producer's output becomes the newest full buffer.
LEMMA OrderPush ==
  ASSUME OwnInv, Ordered, NEW w \in Worker, PushBuffer(w)
  PROVE  Ordered' /\ consumed' >= consumed
<1> USE DEF Goto, context, flags, pipes, main, waiting, stream
<1>i. TypeOK /\ w \in Pipe /\ output[w] \in Buffer /\ readyPush[w] /\ fifo[w] \in Seq(Buffer)
  BY PipesOfWorker, PipeFacts DEF OwnInv, TokenInv, Inv, WorkerCtl, Ctl, PushBuffer, TypeOK
<1>1. /\ UNCHANGED <<context, item, stream>>
      /\ fifo' = fifo \/ fifo' = [fifo EXCEPT ![w] = Append(@, output[w])]
  BY DEF PushBuffer
<1>2. CASE fifo' = fifo
  BY <1>1, <1>2, StillRests, RestsKeeps, KeepsOrder DEF Still, Ordered, OwnInv, TokenInv, Inv, TypeOK
<1>3. CASE fifo' = [fifo EXCEPT ![w] = Append(@, output[w])]
  <2>1. ASSUME NEW p \in Pipe, p # w PROVE Rests(p)
    BY <1>i, <1>1, <1>3, <2>1 DEF Rests, Taken, ToPush, TypeOK
  <2>2. /\ fifo'[w] = Append(fifo[w], output[w])
        /\ FullSet(w)' = FullSet(w) \cup {output[w]}
        /\ Len(fifo'[w]) = Len(fifo[w]) + 1
        /\ fifo'[w][Len(fifo[w]) + 1] = output[w]
        /\ \A i \in 1..Len(fifo[w]) : fifo'[w][i] = fifo[w][i] /\ fifo[w][i] \in FullSet(w)
    BY <1>i, <1>3, AppendElements DEF FullSet, Elements, TypeOK
  <2>3. ToPush(w) = {output[w]} /\ ToPush(w)' = {output[w]} /\ Taken(w)' = Taken(w)
    BY <1>i, <1>1, NullAssumption DEF ToPush, Taken
  <2>4. SortedPipe(w)'
    <3>1. SortedPipe(w) /\ item'[w] = item[w] /\ item[w][output[w]] \in Nat
      BY <1>i, <1>1 DEF Ordered, TypeOK
    <3>2. Len(fifo[w]) \in Nat
      BY <1>i
    <3>3. \A i, j \in 1..Len(fifo'[w]) : i <= j => item[w][fifo'[w][i]] <= item[w][fifo'[w][j]]
      BY <2>2, <2>3, <3>1, <3>2 DEF SortedPipe
    <3> QED BY <2>2, <2>3, <3>1, <3>3 DEF SortedPipe
  <2>5. Keeps(w)
    BY <1>1, <2>2, <2>3 DEF Keeps, Carrying
  <2> QED BY <1>1, <2>1, <2>4, <2>5, RestsKeeps, KeepsOrder, <1>i DEF Ordered, TypeOK
<1> QED BY <1>1, <1>2, <1>3

\* The oldest full buffer becomes the consumer's input.
LEMMA OrderPop ==
  ASSUME OwnInv, Ordered, NEW w \in Worker, GetFullBuffer(w)
  PROVE  Ordered' /\ consumed' >= consumed
<1> USE DEF Goto, context, flags, pipes, main, waiting, stream
<1> DEFINE q == w - 1
<1>i. TypeOK /\ q \in Pipe /\ w = q + 1 /\ fifo[q] \in Seq(Buffer) /\ consumed \in Nat
  <2>1. TypeOK /\ q \in Pipe
    BY PipesOfWorker DEF OwnInv, TokenInv, Inv, WorkerCtl, Ctl, GetFullBuffer
  <2>2. w = q + 1
    BY DEF Worker
  <2> QED BY <2>1, <2>2 DEF TypeOK
<1>1. UNCHANGED <<output, readyPush, item, stream>>
  BY DEF GetFullBuffer
<1>4. fifo[q] = <<>> => UNCHANGED <<input, fifo>>
  BY DEF GetFullBuffer
<1>5. fifo[q] # <<>> => /\ input' = [input EXCEPT ![w] = Head(fifo[q])]
                        /\ fifo' = [fifo EXCEPT ![q] = Tail(@)]
  BY DEF GetFullBuffer
<1> HIDE DEF q
<1>2. CASE fifo[q] = <<>>
  <2>1. UNCHANGED <<input, fifo>>
    BY <1>2, <1>4
  <2> QED BY <1>1, <1>i, <2>1, StillRests, RestsKeeps, KeepsOrder DEF Still, Ordered
<1>3. CASE fifo[q] # <<>>
  <2>1. /\ input' = [input EXCEPT ![w] = Head(fifo[q])] /\ fifo' = [fifo EXCEPT ![q] = Tail(@)]
    BY <1>3, <1>5
  <2>2. ASSUME NEW p \in Pipe, p # q PROVE Rests(p)
    <3>1. p + 1 \in Worker /\ p + 1 # w
      BY <1>i, <2>2, PipeFacts DEF OwnInv, TokenInv, Pipe
    <3> QED BY <1>i, <1>1, <2>1, <2>2, <3>1 DEF Rests, Taken, ToPush, TypeOK
  <2>3. /\ fifo'[q] = Tail(fifo[q]) /\ input'[q + 1] = Head(fifo[q])
    BY <1>i, <2>1 DEF TypeOK
  <2>4. /\ FullSet(q) = FullSet(q)' \cup {Head(fifo[q])}
        /\ Head(fifo[q]) = fifo[q][1] /\ 1 \in 1..Len(fifo[q])
        /\ Len(fifo'[q]) = Len(fifo[q]) - 1 /\ Len(fifo[q]) \in Nat
        /\ \A i \in 1..Len(fifo'[q]) : fifo'[q][i] = fifo[q][i + 1]
    <3>1. FullSet(q) = FullSet(q)' \cup {Head(fifo[q])}
      BY <1>i, <1>3, <2>3, TailElements DEF FullSet, Elements
    <3> QED BY <1>i, <1>3, <2>3, <3>1
  <2>5. /\ ToPush(q)' = ToPush(q)
        /\ Taken(q)' \subseteq {Head(fifo[q])}
    BY <1>1, <2>3 DEF ToPush, Taken
  <2>6. SortedPipe(q)'
    <3>1. SortedPipe(q) /\ item'[q] = item[q]
      BY <1>i, <1>1 DEF Ordered
    <3>2. ASSUME NEW i \in 1..Len(fifo'[q]), NEW j \in 1..Len(fifo'[q]), i <= j
          PROVE  item[q][fifo'[q][i]] <= item[q][fifo'[q][j]]
      <4>1. i + 1 \in 1..Len(fifo[q]) /\ j + 1 \in 1..Len(fifo[q]) /\ i + 1 <= j + 1
        BY <2>4, <3>2
      <4>2. item[q][fifo[q][i + 1]] <= item[q][fifo[q][j + 1]]
        BY <3>1, <4>1 DEF SortedPipe
      <4> QED BY <2>4, <4>2
    <3>3. \A c \in FullSet(q) : item[q][fifo[q][1]] <= item[q][c]
      BY <2>4, <3>1 DEF SortedPipe, FullSet
    <3> QED BY <2>4, <2>5, <3>1, <3>2, <3>3 DEF SortedPipe
  <2>7. Keeps(q)
    BY <1>1, <2>4, <2>5 DEF Keeps, Carrying
  <2> QED BY <1>1, <1>i, <2>2, <2>6, <2>7, RestsKeeps, KeepsOrder DEF Ordered
<1> QED BY <1>2, <1>3

\* The source fills its output with the newest item there is.
LEMMA OrderSource ==
  ASSUME OwnInv, Ordered, SourceProcess
  PROVE  Ordered' /\ consumed' >= consumed
<1> USE DEF Goto, context, flags, pipes, main, waiting, stream
<1> DEFINE b0 == output[0]
<1>i. /\ TypeOK /\ 0 \in Pipe /\ 0 \in Worker /\ b0 \in Buffer /\ ~readyPush[0]
      /\ consumed \in Nat /\ produced \in Nat /\ pc[0] # "post"
      /\ \A p \in Pipe : SortedPipe(p) /\ \A b \in Buffer : item[p][b] \in Nat
  <2>1. TypeOK /\ 0 \in Pipe /\ 0 \in Worker /\ Ctl(0) /\ pc[0] = "process" /\ 0 # Sink
    BY NStagesAssumption
       DEF OwnInv, TokenInv, Inv, WorkerCtl, SourceProcess, Source, Sink, Worker, Pipe
  <2>2. b0 \in Buffer /\ ~readyPush[0] /\ pc[0] # "post" /\ consumed \in Nat /\ produced \in Nat
    BY <2>1 DEF Ctl, TypeOK
  <2> QED BY <2>1, <2>2, Places DEF Ordered
<1>1. UNCHANGED <<output, input, fifo, consumed>>
  BY DEF SourceProcess
<1>2. PICK push \in BOOLEAN :
        /\ readyPush' = [readyPush EXCEPT ![0] = push]
        /\ IF push THEN /\ produced' = produced + 1
                        /\ item' = [item EXCEPT ![0][b0] = produced + 1]
                   ELSE UNCHANGED <<produced, item>>
  BY ActsAssumption DEF SourceProcess, SourceAct, Source
<1>3. CASE ~push
  BY <1>1, <1>2, <1>3, <1>i, StillRests, RestsKeeps, KeepsOrder DEF Still, Ordered, TypeOK, Pipe
<1>4. CASE push
  <2>1. /\ produced' = produced + 1 /\ item' = [item EXCEPT ![0][b0] = produced + 1]
        /\ readyPush' = [readyPush EXCEPT ![0] = TRUE]
    BY <1>2, <1>4
  <2>2. /\ item'[0][b0] = produced + 1
        /\ \A b \in Buffer : b # b0 => item'[0][b] = item[0][b]
        /\ \A p \in Pipe : p # 0 => item'[p] = item[p]
    BY <1>i, <2>1 DEF TypeOK
  <2>3. ToPush(0)' = {b0} /\ ToPush(0) = {} /\ Taken(0)' = Taken(0) /\ FullSet(0)' = FullSet(0)
    BY <1>i, <1>1, <2>1, NullAssumption DEF ToPush, Taken, FullSet, TypeOK
  <2>4. b0 \notin Taken(0) \cup FullSet(0) /\ Taken(0) \cup FullSet(0) \subseteq Buffer
    <3>1. Shared(0)
      BY <1>i DEF OwnInv
    <3>2. Taken(0) \cup FullSet(0) \subseteq Buffer
      BY <1>i, Places
    <3> QED BY <1>i, <3>1, <3>2 DEF Shared, Taken
  <2>5. ASSUME NEW p \in Pipe, p # 0 PROVE Rests(p)
    <3>1. p \in Worker
      BY PipeFacts DEF OwnInv, TokenInv
    <3> QED BY <1>i, <1>1, <2>1, <2>2, <2>5, <3>1 DEF Rests, ToPush, Taken, TypeOK
  <2>6. \A b \in Taken(0) \cup FullSet(0) : item'[0][b] = item[0][b] /\ item[0][b] <= produced
    BY <1>i, <2>2, <2>4 DEF Ordered, Bounded, Carrying
  <2>7. SortedPipe(0)'
    <3>1. \A i \in 1..Len(fifo[0]) : item'[0][fifo[0][i]] = item[0][fifo[0][i]]
      BY <2>6 DEF FullSet
    <3>2. \A i, j \in 1..Len(fifo[0]) : i <= j => item'[0][fifo[0][i]] <= item'[0][fifo[0][j]]
      BY <1>i, <3>1 DEF SortedPipe
    <3>3. \A b \in Taken(0), c \in FullSet(0) : item'[0][b] <= item'[0][c]
      BY <1>i, <2>6 DEF SortedPipe
    <3>4. \A b \in Taken(0) \cup FullSet(0) : item'[0][b] <= item'[0][b0]
      BY <1>i, <2>2, <2>4, <2>6
    <3> QED BY <1>1, <2>3, <3>2, <3>3, <3>4 DEF SortedPipe
  <2>8. Carrying(0)' = Taken(0) \cup FullSet(0) \cup {b0}
    BY <2>3 DEF Carrying
  <2>9. \A p \in Pipe : p # 0 => Keeps(p) /\ SortedPipe(p)'
    BY <1>i, <2>5, RestsKeeps
  <2>10. Bounded'
    <3>1. \A b \in Carrying(0)' : consumed <= item'[0][b] /\ item'[0][b] <= produced'
      <4>1. consumed <= produced /\ \A b \in Carrying(0) : consumed <= item[0][b]
        BY <1>i DEF Ordered, Bounded
      <4>2. \A b \in Taken(0) \cup FullSet(0) : consumed <= item[0][b] /\ item[0][b] \in Nat
        BY <1>i, <2>4, <4>1 DEF Carrying
      <4> QED BY <1>i, <2>1, <2>2, <2>6, <2>8, <4>1, <4>2
    <3>2. ASSUME NEW p \in Pipe, p # 0, NEW b \in Carrying(p)'
          PROVE  consumed <= item'[p][b] /\ item'[p][b] <= produced'
      <4>1. b \in Carrying(p) /\ item'[p][b] = item[p][b] /\ b \in Buffer
        BY <2>9, <3>2, Places DEF Keeps, Carrying
      <4> QED BY <1>i, <2>1, <4>1 DEF Ordered, Bounded
    <3> QED BY <1>i, <1>1, <2>1, <3>1, <3>2 DEF Ordered, Bounded
  <2>11. SortedPipes'
    <3> SUFFICES ASSUME NEW p \in Pipe, NEW r \in Pipe, r < p,
                        NEW b \in Carrying(p)', NEW c \in Carrying(r)'
                 PROVE  item'[p][b] <= item'[r][c]
      BY DEF SortedPipes
    <3>1. p # 0
      BY DEF Pipe
    <3>2. b \in Carrying(p) /\ item'[p][b] = item[p][b] /\ b \in Buffer
      BY <2>9, <3>1, Places DEF Keeps, Carrying
    <3>3. CASE r = 0 /\ c = b0
      BY <1>i, <2>2, <3>2, <3>3 DEF Ordered, Bounded
    <3>4. CASE ~(r = 0 /\ c = b0)
      <4>1. c \in Carrying(r) /\ item'[r][c] = item[r][c]
        BY <2>6, <2>8, <2>9, <3>4 DEF Keeps, Carrying
      <4> QED BY <3>2, <4>1 DEF Ordered, SortedPipes
    <3> QED BY <3>3, <3>4
  <2> QED BY <1>i, <1>1, <2>7, <2>9, <2>10, <2>11 DEF Ordered
<1> QED BY <1>2, <1>3, <1>4

\* A stage fills its output with the item of its input, the oldest of the
\* pipe before and not older than what the pipe after carries.
LEMMA OrderStage ==
  ASSUME OwnInv, Ordered, NEW w \in Worker, StageProcess(w)
  PROVE  Ordered' /\ consumed' >= consumed
<1> USE DEF Goto, context, flags, pipes, main, waiting, stream
<1> DEFINE q == w - 1  in == input[w]  out == output[w]  n == item[q][in]
<1>i. /\ TypeOK /\ w \in Pipe /\ q \in Pipe /\ q # w /\ w = q + 1 /\ q < w
      /\ \A p \in Pipe : p < w => p = q \/ p < q
      /\ Ctl(w) /\ pc[w] = "process" /\ w # Source /\ w # Sink
      /\ consumed \in Nat /\ produced \in Nat
      /\ \A p \in Pipe : SortedPipe(p) /\ \A b \in Buffer : item[p][b] \in Nat
  <2>1. /\ w \in Pipe /\ q \in Pipe /\ q # w /\ w = q + 1 /\ q < w /\ w # Source /\ w # Sink
        /\ \A p \in Pipe : p < w => p = q \/ p < q
    BY NStagesAssumption DEF StageProcess, Stage, Pipe, Source, Sink
  <2>2. TypeOK /\ Ctl(w) /\ pc[w] = "process"
    BY DEF OwnInv, TokenInv, Inv, WorkerCtl, StageProcess
  <2>3. consumed \in Nat /\ produced \in Nat
    BY <2>2 DEF TypeOK
  <2> QED BY <2>1, <2>2, <2>3, Places DEF Ordered
<1>1. UNCHANGED <<output, fifo, produced, consumed>>
  BY DEF StageProcess
<1>2. CASE in = NULL
  <2>1. UNCHANGED <<input, readyPush, item>>
    BY <1>2 DEF StageProcess
  <2> QED BY <1>1, <1>i, <2>1, StillRests, RestsKeeps, KeepsOrder DEF Still
<1>3. CASE in # NULL
  <2>1. in \in Buffer /\ out \in Buffer /\ ~readyPush[w] /\ in \in Taken(q)
    BY <1>3, <1>i DEF TypeOK, Ctl, Taken
  <2>2. PICK push \in BOOLEAN, pull \in BOOLEAN :
          /\ readyPush' = [readyPush EXCEPT ![w] = push]
          /\ item' = [item EXCEPT ![w][out] = IF push THEN n ELSE @,
                                  ![q][in]  = IF pull THEN 0 ELSE @]
          /\ input' = IF pull THEN [input EXCEPT ![w] = NULL] ELSE input
    BY <1>3, ActsAssumption DEF StageProcess, StageAct
  <2>3. /\ push => item'[w][out] = n
        /\ \A b \in Buffer : b # out => item'[w][b] = item[w][b]
        /\ \A b \in Buffer : b # in \/ ~pull => item'[q][b] = item[q][b]
        /\ \A p \in Pipe : p # w /\ p # q => item'[p] = item[p]
    <3> DEFINE it == [item EXCEPT ![w][out] = IF push THEN n ELSE @]
    <3>1. it \in [Pipe -> [Buffer -> Nat]] /\ item \in [Pipe -> [Buffer -> Nat]] /\ n \in Nat
      BY <1>i, <2>1 DEF TypeOK
    <3>2. /\ push => it[w][out] = n
          /\ \A b \in Buffer : b # out => it[w][b] = item[w][b]
          /\ \A p \in Pipe : p # w => it[p] = item[p]
      BY <1>i, <2>1, <3>1
    <3>3. item' = [it EXCEPT ![q][in] = IF pull THEN 0 ELSE @]
      BY <2>2
    <3> HIDE DEF it
    <3>4. /\ \A b \in Buffer : b # in \/ ~pull => item'[q][b] = it[q][b]
          /\ \A p \in Pipe : p # q => item'[p] = it[p]
      BY <1>i, <2>1, <3>1, <3>3
    <3> QED BY <1>i, <3>2, <3>4
  <2> HIDE DEF n, in, out
  <2>4. /\ ToPush(w)' \subseteq {out} /\ (ToPush(w)' # {} => push) /\ ToPush(w) = {}
        /\ Taken(w)' = Taken(w) /\ FullSet(w)' = FullSet(w)
        /\ out \notin Taken(w) \cup FullSet(w) /\ Taken(w) \cup FullSet(w) \subseteq Buffer
    <3>1. Shared(w) /\ pc[w] # "post" /\ Taken(w) \cup FullSet(w) \subseteq Buffer
      BY <1>i, Places DEF OwnInv
    <3>2. readyPush'[w] = push /\ input'[w + 1] = input[w + 1]
      BY <1>i, <2>2, PipeFacts DEF OwnInv, TokenInv, TypeOK
    <3>3. out \notin Taken(w) \cup FullSet(w)
      BY <3>1, <2>1 DEF Shared, Taken, out
    <3> QED BY <1>1, <2>1, <3>1, <3>2, <3>3 DEF ToPush, Taken, FullSet, out
  <2>5. Rests(q)
    <3>1. /\ Taken(q) = {in} /\ Taken(q)' = IF pull THEN {} ELSE {in}
          /\ ToPush(q)' = ToPush(q) /\ FullSet(q)' = FullSet(q)
      BY <1>i, <1>1, <1>3, <2>2, PipeFacts
         DEF Taken, ToPush, FullSet, OwnInv, TokenInv, TypeOK, in
    <3>2. Carrying(q) \subseteq Buffer /\ in \notin FullSet(q) \cup ToPush(q)
      BY <1>i, <3>1, Places DEF Carrying
    <3> QED BY <1>1, <2>3, <3>1, <3>2 DEF Rests, Carrying
  <2>6. ASSUME NEW p \in Pipe, p # w PROVE Rests(p)
    <3>1. CASE p # q
      <4>1. p \in Worker /\ p + 1 \in Worker /\ p + 1 # w
        BY <1>i, <3>1, PipeFacts DEF OwnInv, TokenInv, Pipe
      <4> QED BY <1>i, <1>1, <2>2, <2>3, <2>6, <3>1, <4>1 DEF Rests, ToPush, Taken, TypeOK
    <3> QED BY <2>5, <3>1
  <2>7. \A p \in Pipe : p # w => Keeps(p) /\ SortedPipe(p)'
    BY <1>i, <2>6, RestsKeeps
  \* The item of the input, between what is before and what is after.
  <2>8. n \in Nat /\ consumed <= n /\ n <= produced
    BY <1>i, <2>1 DEF Ordered, Bounded, Carrying, n
  <2>9. \A b \in Taken(w) \cup FullSet(w) : item'[w][b] = item[w][b] /\ item[w][b] <= n
    BY <1>i, <2>1, <2>3, <2>4 DEF Ordered, SortedPipes, Carrying, n
  <2>10. ASSUME NEW r \in Pipe, r < w, NEW c \in Carrying(r) PROVE n <= item[r][c]
    <3>1. CASE r = q
      <4>1. Taken(q) = {in}
        BY <2>1, <1>i DEF Taken
      <4>2. SortedPipe(q) /\ n = item[q][in]
        BY <1>i DEF n
      <4> QED BY <2>8, <2>10, <3>1, <4>1, <4>2 DEF SortedPipe, Carrying
    <3>2. CASE r < q
      BY <1>i, <2>1, <2>10, <3>2 DEF Ordered, SortedPipes, Carrying, n
    <3> QED BY <1>i, <2>10, <3>1, <3>2
  <2>11. ASSUME NEW p \in Pipe, p > w, NEW b \in Carrying(p) PROVE item[p][b] <= n
    <3>1. q < p
      BY <1>i, <2>11 DEF Pipe
    <3> QED BY <1>i, <2>1, <2>11, <3>1 DEF Ordered, SortedPipes, Carrying, n
  <2>12. SortedPipe(w)'
    <3>1. \A i \in 1..Len(fifo[w]) : item'[w][fifo[w][i]] = item[w][fifo[w][i]]
      BY <2>9 DEF FullSet
    <3>2. \A i, j \in 1..Len(fifo[w]) : i <= j => item'[w][fifo[w][i]] <= item'[w][fifo[w][j]]
      BY <1>i, <3>1 DEF SortedPipe
    <3>3. \A b \in Taken(w), c \in FullSet(w) : item'[w][b] <= item'[w][c]
      BY <1>i, <2>9 DEF SortedPipe
    <3>4. \A b \in Taken(w) \cup FullSet(w), c \in ToPush(w)' : item'[w][b] <= item'[w][c]
      BY <2>3, <2>4, <2>9
    <3> QED BY <1>1, <2>4, <3>2, <3>3, <3>4 DEF SortedPipe
  \* What pipe w carries now: what it carried, and the item of the input.
  <2>13. \A b \in Carrying(w)' : \/ b \in Carrying(w) /\ item'[w][b] = item[w][b]
                                 \/ item'[w][b] = n
    BY <2>3, <2>4, <2>9 DEF Carrying
  <2>14. SortedPipes'
    <3> SUFFICES ASSUME NEW p \in Pipe, NEW r \in Pipe, r < p,
                        NEW b \in Carrying(p)', NEW c \in Carrying(r)'
                 PROVE  item'[p][b] <= item'[r][c]
      BY DEF SortedPipes
    <3>1. CASE p # w /\ r # w
      BY <2>7, <3>1 DEF Keeps, Ordered, SortedPipes
    <3>2. CASE p = w
      <4>1. c \in Carrying(r) /\ item'[r][c] = item[r][c]
        BY <2>7, <3>2, <1>i DEF Keeps, Pipe
      <4> QED BY <2>10, <2>13, <3>2, <4>1 DEF Ordered, SortedPipes
    <3>3. CASE r = w
      <4>1. b \in Carrying(p) /\ item'[p][b] = item[p][b] /\ p > w
        BY <2>7, <3>3, <1>i DEF Keeps, Pipe
      <4> QED BY <2>11, <2>13, <3>3, <4>1 DEF Ordered, SortedPipes
    <3> QED BY <3>1, <3>2, <3>3
  <2>15. Bounded'
    <3> SUFFICES ASSUME NEW p \in Pipe, NEW b \in Carrying(p)'
                 PROVE  consumed <= item'[p][b] /\ item'[p][b] <= produced
      BY <1>1 DEF Ordered, Bounded
    <3>1. CASE p # w
      BY <2>7, <3>1 DEF Keeps, Ordered, Bounded
    <3>2. CASE p = w
      BY <2>8, <2>13, <3>2 DEF Ordered, Bounded
    <3> QED BY <3>1, <3>2
  <2> QED BY <1>i, <1>1, <2>7, <2>12, <2>14, <2>15 DEF Ordered
<1> QED BY <1>2, <1>3

\* The sink is called with the oldest item in flight.
LEMMA OrderSink ==
  ASSUME OwnInv, Ordered, SinkProcess
  PROVE  Ordered' /\ consumed' >= consumed
<1> USE DEF Goto, context, flags, pipes, main, waiting, stream
<1>i. /\ TypeOK /\ NStages \in Pipe /\ Sink = NStages + 1 /\ consumed \in Nat
      /\ \A p \in Pipe : p # NStages => p < NStages
      /\ \A p \in Pipe : Carrying(p) \subseteq Buffer /\ \A b \in Buffer : item[p][b] \in Nat
  BY NStagesAssumption, Places DEF OwnInv, TokenInv, Inv, TypeOK, Pipe, Sink, Carrying
<1>1. UNCHANGED <<output, input, readyPush, fifo, item, produced>>
  BY DEF SinkProcess
<1>2. \A p \in Pipe : SortedPipe(p)' /\ Keeps(p)
  BY <1>1, StillRests, RestsKeeps DEF Still, Ordered
<1>3. CASE input[Sink] = NULL
  <2>1. consumed' = consumed
    BY <1>3 DEF SinkProcess
  <2> QED BY <1>i, <1>1, <1>2, <2>1, KeepsOrder
<1>4. CASE input[Sink] # NULL
  <2> DEFINE in == input[Sink]
  <2>1. consumed' = item[NStages][in] /\ Taken(NStages) = {in} /\ in \in Carrying(NStages)
    BY <1>4, <1>i DEF SinkProcess, Taken, Carrying
  <2>2. consumed <= consumed' /\ consumed' <= produced
    BY <1>i, <2>1 DEF Ordered, Bounded
  <2>3. ASSUME NEW p \in Pipe, NEW b \in Carrying(p) PROVE consumed' <= item[p][b]
    <3>1. CASE p = NStages
      BY <1>i, <2>1, <2>3, <3>1 DEF Ordered, SortedPipe, Carrying
    <3>2. CASE p # NStages
      BY <1>i, <2>1, <2>3, <3>2 DEF Ordered, SortedPipes
    <3> QED BY <3>1, <3>2
  <2>4. Bounded'
    <3>1. \A p \in Pipe : \A b \in Carrying(p)' :
            b \in Carrying(p) /\ item'[p][b] = item[p][b] /\ item[p][b] <= produced
      BY <1>2 DEF Keeps, Ordered, Bounded
    <3> QED BY <1>1, <2>2, <2>3, <3>1 DEF Bounded
  <2>5. SortedPipes'
    BY <1>2 DEF Keeps, Ordered, SortedPipes
  <2> QED BY <1>i, <1>2, <2>2, <2>4, <2>5 DEF Ordered, TypeOK
<1> QED BY <1>3, <1>4

\* The other steps of the workers lose buffers at most.
LEMMA OrderWorker ==
  ASSUME OwnInv, Ordered, NEW w \in Worker, WorkerStep(w)
  PROVE  Ordered' /\ consumed' >= consumed
<1> USE DEF Goto, context, flags, pipes, main, waiting, stream
<1>i. /\ TypeOK /\ Ctl(w) /\ consumed \in Nat
      /\ w # Sink => w \in Pipe
  BY PipesOfWorker DEF OwnInv, TokenInv, Inv, WorkerCtl, TypeOK
<1>1. CASE /\ \A p \in Pipe : Rests(p)
           /\ consumed' = consumed /\ produced' = produced
  BY <1>1, <1>i, RestsKeeps, KeepsOrder DEF Ordered
<1>2. CASE Still /\ consumed' = consumed /\ produced' = produced
  BY <1>1, <1>2, StillRests
<1>3. CASE Post(w)
  <2>1. ASSUME NEW p \in Pipe PROVE Rests(p)
    <3>1. p \in Worker
      BY PipeFacts DEF OwnInv, TokenInv
    <3>2. /\ UNCHANGED <<fifo, input, item>> /\ readyPush'[w] = FALSE
          /\ p # w => output'[p] = output[p] /\ readyPush'[p] = readyPush[p]
      BY <1>3, <1>i, <3>1 DEF Post, TypeOK
    <3> QED BY <3>2 DEF Rests, Taken, ToPush
  <2> QED BY <1>1, <1>3, <2>1 DEF Post
<1>4. CASE GetEmptyBuffer(w)
  <2>1. ASSUME NEW p \in Pipe PROVE Rests(p)
    <3>1. p \in Worker
      BY PipeFacts DEF OwnInv, TokenInv
    <3>2. /\ UNCHANGED <<fifo, input, item, readyPush>> /\ ~readyPush[w]
          /\ p # w => output'[p] = output[p]
      BY <1>4, <1>i, <3>1 DEF GetEmptyBuffer, Ctl, TypeOK
    <3> QED BY <3>2 DEF Rests, Taken, ToPush
  <2> QED BY <1>1, <1>4, <2>1 DEF GetEmptyBuffer
<1>5. CASE w = Sink /\ SinkReturn
  <2>1. ASSUME NEW p \in Pipe PROVE Rests(p)
    <3>1. /\ p \in Worker /\ p + 1 \in Worker /\ NStages \in Pipe /\ Sink = NStages + 1
          /\ Taken(p) \cap (FullSet(p) \cup ToPush(p)) = {}
      BY <1>5, PipeFacts, Places, PipesOfWorker DEF OwnInv, TokenInv, Sink
    <3>2. /\ UNCHANGED <<fifo, output, readyPush>> /\ input[Sink] \in Buffer
          /\ input' = [input EXCEPT ![Sink] = NULL]
          /\ item' = [item EXCEPT ![NStages][input[Sink]] = 0]
      BY <1>5, <1>i DEF SinkReturn, Ctl, TypeOK
    <3>3. CASE p = NStages
      <4>1. Taken(p)' = {} /\ Taken(p) = {input[Sink]} /\ ToPush(p)' = ToPush(p) /\ FullSet(p)' = FullSet(p)
        BY <1>i, <3>1, <3>2, <3>3, NullAssumption DEF Taken, ToPush, FullSet, TypeOK
      <4>2. \A b \in Carrying(p)' : b # input[Sink] /\ b \in Buffer
        BY <3>1, <4>1, Places DEF Carrying
      <4>3. \A b \in Buffer : b # input[Sink] => item'[p][b] = item[p][b]
        BY <1>i, <3>1, <3>2, <3>3 DEF TypeOK
      <4> QED BY <3>2, <4>1, <4>2, <4>3 DEF Rests
    <3>4. CASE p # NStages
      <4>1. input'[p + 1] = input[p + 1] /\ item'[p] = item[p]
        BY <1>i, <3>1, <3>2, <3>4 DEF TypeOK, Pipe
      <4> QED BY <3>2, <4>1 DEF Rests, Taken, ToPush
    <3> QED BY <3>3, <3>4
  <2> QED BY <1>1, <1>5, <2>1 DEF SinkReturn
<1> QED BY <1>2, <1>3, <1>4, <1>5, OrderPush, OrderPop, OrderSource, OrderStage, OrderSink
        DEF WorkerStep, Gate, SetDone, TryAcquire, UnsetDone, SourceFinished, Still

\* The controlling thread moves no buffer of a running thread.
LEMMA OrderMain ==
  ASSUME OwnInv, Ordered, MainCall \/ MainStep
  PROVE  Ordered' /\ consumed' = consumed
<1> USE DEF Goto, context, flags, pipes, main, waiting, stream
<1>i. TypeOK /\ MainCtl
  BY DEF OwnInv, TokenInv, Inv
<1>1. CASE CreateThread
  <2>1. ASSUME NEW p \in Pipe PROVE Rests(p)
    <3>1. p \in Worker /\ p + 1 \in Worker
      BY PipeFacts DEF OwnInv, TokenInv
    <3>2. /\ UNCHANGED <<fifo, item>>
          /\ input'[p + 1] \in {NULL, input[p + 1]}
          /\ \/ output'[p] = NULL
             \/ output'[p] = output[p] /\ readyPush'[p] = readyPush[p]
      BY <1>1, <1>i, <3>1 DEF CreateThread, TypeOK
    <3> QED BY <3>2 DEF Rests, Taken, ToPush
  <2>2. consumed' = consumed /\ produced' = produced
    BY <1>1 DEF CreateThread
  <2> QED BY <2>1, <2>2, RestsKeeps, KeepsOrder DEF Ordered
<1>2. CASE JoinAndClear
  <2>1. ASSUME NEW p \in Pipe PROVE Carrying(p)' = {} /\ SortedPipe(p)'
    <3>1. p \in Worker /\ p + 1 \in Worker
      BY PipeFacts DEF OwnInv, TokenInv
    <3>2. fifo'[p] = <<>> /\ output'[p] = NULL /\ input'[p + 1] = NULL
      BY <1>2, <3>1 DEF JoinAndClear
    <3>3. Taken(p)' = {} /\ FullSet(p)' = {} /\ ToPush(p)' = {}
      BY <3>2 DEF Taken, FullSet, ToPush
    <3>4. Len(fifo'[p]) = 0
      BY <3>2
    <3> QED BY <3>3, <3>4 DEF Carrying, SortedPipe
  <2>2. consumed' = consumed /\ produced' = produced
    BY <1>2 DEF JoinAndClear
  <2> QED BY <2>1, <2>2, KeepsOrder DEF Ordered, Keeps
<1>3. CASE UNCHANGED <<input, output, readyPush, fifo, item, produced, consumed>>
  BY <1>3, StillRests, RestsKeeps, KeepsOrder DEF Still, Ordered
<1> QED BY <1>1, <1>2, <1>3 DEF MainCall, EnableCall, StartCall, StopCall, DisableCall, MainStep,
      EnableReturn, EnableWorker, StartReturn, DisableWorker, StopReturn, DestroyFirst,
      DestroySecond, SetDoneAgain, MarkDisabled, DisableReturn

LEMMA InitOrdered == Init => Ordered
<1> SUFFICES ASSUME Init PROVE Ordered
  OBVIOUS
<1>1. ASSUME NEW p \in Pipe PROVE Carrying(p) = {} /\ SortedPipe(p)
  <2>1. p \in Worker /\ p + 1 \in Worker
    BY NStagesAssumption DEF Pipe, Worker
  <2>2. fifo[p] = <<>> /\ output[p] = NULL /\ input[p + 1] = NULL
    BY <2>1 DEF Init
  <2>3. Taken(p) = {} /\ FullSet(p) = {} /\ ToPush(p) = {} /\ Len(fifo[p]) = 0
    BY <2>2 DEF Taken, FullSet, ToPush
  <2> QED BY <2>3 DEF Carrying, SortedPipe
<1> QED BY <1>1 DEF Ordered, SortedPipes, Bounded, Init

LEMMA NextOrdered == OwnInv /\ Ordered /\ [Next]_vars => Ordered' /\ consumed' >= consumed
<1> SUFFICES ASSUME OwnInv, Ordered, [Next]_vars PROVE Ordered' /\ consumed' >= consumed
  OBVIOUS
<1>i. consumed \in Nat
  BY DEF OwnInv, TokenInv, Inv, TypeOK
<1>1. CASE \E w \in Worker : WorkerStep(w)
  BY <1>1, OrderWorker
<1>2. CASE MainCall \/ MainStep
  BY <1>2, <1>i, OrderMain
<1>3. CASE UNCHANGED <<context, pipes, stream>>
  BY <1>3, <1>i, StillRests, RestsKeeps, KeepsOrder DEF Still, Ordered, context, pipes, stream
<1> QED BY <1>1, <1>2, <1>3 DEF Next, WaitCall, WaiterStep, AwaitNotDestroying, CheckEnabled,
           WaitDone, TestDone, vars

\* The sink is called with items in the order the source filled them,
\* whichever of them the stages drop, repeat or hold back, and across the
\* stops, the disables and the failed pushes in between.
THEOREM SinkInOrder == Spec => NeverBackwards
<1>1. OwnInv /\ Ordered /\ [Next]_vars => [consumed' >= consumed]_consumed
  BY NextOrdered
<1> QED BY <1>1, InitOwnInv, NextOwnInv, InitOrdered, NextOrdered, PTL DEF Spec, NeverBackwards
=============================================================================
