--------------------------- MODULE PipelineProofs ---------------------------
(***************************************************************************)
(* Theorems about Pipeline, for any number of stages, buffers and waiting  *)
(* threads and any behaviour of the callbacks.                             *)
(***************************************************************************)
EXTENDS Pipeline, TLAPS

\* What the program counter of worker w says about its context.
Ctl(w) ==
  /\ pc[w] = "none" => input[w] = NULL /\ output[w] = NULL
  /\ pc[w] # "none" /\ readyPush[w] => w # Sink /\ output[w] # NULL
  /\ pc[w] # "none" /\ w # Source =>
       /\ ~readyPull[w] => input[w] # NULL
       /\ readyPull[w] /\ w # Sink => input[w] = NULL
  /\ w = Source => input[w] = NULL
  /\ w = Sink => output[w] = NULL
  /\ pc[w] \in {"push", "post"} => w # Sink /\ readyPush[w]
  /\ pc[w] \in {"acquire", "undone", "pull"} =>
       w # Source /\ readyPull[w] /\ ~readyPush[w] /\ input[w] = NULL
  /\ pc[w] = "return" => w = Sink /\ readyPull[w] /\ input[w] # NULL
  /\ pc[w] = "finish" => w = Source
  /\ pc[w] = "take" => /\ w # Sink /\ output[w] = NULL
                       /\ w # Source => ~readyPull[w]
  /\ pc[w] = "process" => /\ w # Sink => output[w] # NULL /\ ~readyPush[w]
                          /\ w # Source => ~readyPull[w]
WorkerCtl == \A w \in Worker : Ctl(w)

\* How far the controlling thread has got.
MainCtl ==
  /\ mpc \in {"enable", "start"} => mi \in -1..Sink
  /\ mpc = "stop" => mi \in 0..Sink + 1
  /\ mpc \in {"kill", "ring"} => mi \in Worker
  /\ mpc = "enable" => ~enabled /\ \A w \in Worker : w <= mi => pc[w] = "none"
  /\ mpc \in {"start", "stop"} => enabled
  /\ mpc = "idle" /\ ~enabled => \A w \in Worker : pc[w] = "none"
  /\ mpc \in {"refix", "off", "release"} => \A w \in Worker : pc[w] = "none"
  /\ mpc \in {"off", "release", "join"} => mi = 0

\* Once destroyed, always destroyed: the kill loop and what follows it.
Destroyed ==
  /\ \A w \in Worker : pc[w] = "exited" => wDestroyed[w]
  /\ mpc \in {"kill", "ring"} => \A w \in Worker : w < mi => wDestroyed[w]
  /\ mpc = "ring" /\ mi # Source => wDestroyed[mi]
  /\ mpc \in {"join", "refix", "off", "release"} => \A w \in Worker : wDestroyed[w]

-----------------------------------------------------------------------------
(***************************************************************************)
(* Type correctness.                                                       *)
(***************************************************************************)

\* The pipes of a worker: it writes pipe w and reads pipe w - 1.
LEMMA PipesOfWorker ==
  ASSUME NEW w \in Worker
  PROVE  /\ w # Sink => w \in Pipe
         /\ w # Source => w - 1 \in Pipe
         /\ Source # Sink /\ Source \in Worker /\ Sink \in Worker /\ Stage \subseteq Worker
         /\ NStages \in Pipe /\ 0 \in Pipe
BY NStagesAssumption DEF Worker, Pipe, Source, Sink, Stage

\* Where the routines continue.
LEMMA ContinueType ==
  ASSUME NEW w \in Worker, NEW out
  PROVE  /\ Continue(w, out) \in {"take", "process", "acquire", "return"}
         /\ Entry(w) \in {"push", "take", "process", "acquire", "return"}
<1>1. ASSUME NEW o PROVE Continue(w, o) \in {"take", "process", "acquire", "return"}
  BY NStagesAssumption DEF Continue, Worker, Source, Sink, Stage
<1> QED BY <1>1 DEF Entry

\* The routines of a worker keep the types.
LEMMA TypeWorker ==
  ASSUME TypeOK, WorkerCtl, NEW w \in Worker, WorkerStep(w)
  PROVE  TypeOK'
<1> USE DEF Goto, context, flags, pipes, main, waiting, stream
<1> DEFINE Ptr == Buffer \cup {NULL}
<1>w. Ctl(w) /\ (w # Sink => w \in Pipe) /\ (w # Source => w - 1 \in Pipe)
  BY PipesOfWorker DEF WorkerCtl
<1>p. ASSUME NEW l \in WorkerPc, Goto(w, l) PROVE pc' \in [Worker -> WorkerPc]
  BY <1>p DEF TypeOK
<1>1. CASE Gate(w)
  <2>1. pc' \in [Worker -> WorkerPc]
    BY <1>1, <1>p, ContinueType DEF Gate, WorkerPc
  <2> QED BY <1>1, <2>1 DEF Gate, TypeOK
<1>2. CASE PushBuffer(w)
  <2>1. w \in Pipe /\ output[w] \in Buffer
    BY <1>2, <1>w DEF PushBuffer, Ctl, TypeOK
  <2>2. fifo' \in [Pipe -> Seq(Buffer)]
    <3>1. fifo \in [Pipe -> Seq(Buffer)] BY DEF TypeOK
    <3>2. fifo' = fifo \/ fifo' = [fifo EXCEPT ![w] = Append(@, output[w])]
      BY <1>2 DEF PushBuffer
    <3> QED BY <2>1, <3>1, <3>2
  <2>3. pc' \in [Worker -> WorkerPc]
    BY <1>2, <1>p DEF PushBuffer, WorkerPc
  <2> QED BY <1>2, <2>2, <2>3 DEF PushBuffer, TypeOK
<1>3. CASE Post(w)
  <2>1. w \in Pipe
    BY <1>3, <1>w DEF Post, Ctl
  <2>2. sem' \in [Pipe -> Nat]
    BY <1>3, <2>1 DEF Post, TypeOK
  <2>3. pc' \in [Worker -> WorkerPc]
    BY <1>3, <1>p, ContinueType DEF Post, WorkerPc
  <2>4. output' \in [Worker -> Ptr] /\ readyPush' \in [Worker -> BOOLEAN]
    BY <1>3 DEF Post, TypeOK
  <2> QED BY <1>3, <2>2, <2>3, <2>4 DEF Post, TypeOK
<1>4. CASE SetDone(w)
  BY <1>4, <1>p DEF SetDone, TypeOK, WorkerPc
<1>5. CASE TryAcquire(w)
  <2>1. w - 1 \in Pipe
    BY <1>5, <1>w DEF TryAcquire, Ctl
  <2>2. sem' \in [Pipe -> Nat]
    BY <1>5, <2>1 DEF TryAcquire, TypeOK
  <2>3. pc' \in [Worker -> WorkerPc]
    BY <1>5, <1>p DEF TryAcquire, WorkerPc
  <2> QED BY <1>5, <2>2, <2>3 DEF TryAcquire, TypeOK
<1>6. CASE UnsetDone(w)
  BY <1>6, <1>p DEF UnsetDone, TypeOK, WorkerPc
<1>7. CASE GetFullBuffer(w)
  <2>1. w - 1 \in Pipe
    BY <1>7, <1>w DEF GetFullBuffer, Ctl
  <2>2. pc' \in [Worker -> WorkerPc]
    BY <1>7, <1>p DEF GetFullBuffer, WorkerPc
  <2>3. CASE fifo[w - 1] = <<>>
    <3>1. sem' \in [Pipe -> Nat]
      BY <1>7, <2>1, <2>3 DEF GetFullBuffer, TypeOK
    <3> QED BY <1>7, <2>2, <2>3, <3>1 DEF GetFullBuffer, TypeOK
  <2>4. CASE fifo[w - 1] # <<>>
    <3>1. fifo[w - 1] \in Seq(Buffer)
      BY <2>1 DEF TypeOK
    <3>2. Head(fifo[w - 1]) \in Buffer /\ Tail(fifo[w - 1]) \in Seq(Buffer)
      BY <3>1, <2>4
    <3>3. fifo' \in [Pipe -> Seq(Buffer)] /\ input' \in [Worker -> Ptr]
      BY <1>7, <2>1, <2>4, <3>2 DEF GetFullBuffer, TypeOK
    <3>4. readyPull' \in [Worker -> BOOLEAN]
      BY <1>7, <2>4 DEF GetFullBuffer, TypeOK
    <3> QED BY <1>7, <2>2, <2>4, <3>3, <3>4 DEF GetFullBuffer, TypeOK
  <2> QED BY <2>3, <2>4
<1>8. CASE GetEmptyBuffer(w)
  <2>1. w \in Pipe
    BY <1>8, <1>w DEF GetEmptyBuffer, Ctl
  <2>2. pc' \in [Worker -> WorkerPc]
    BY <1>8, <1>p DEF GetEmptyBuffer, WorkerPc
  <2>3. CASE pool[w] = {}
    BY <1>8, <2>2, <2>3 DEF GetEmptyBuffer, TypeOK
  <2>4. CASE pool[w] # {}
    <3>1. PICK b \in pool[w] : /\ output' = [output EXCEPT ![w] = b]
                               /\ pool' = [pool EXCEPT ![w] = @ \ {b}]
      BY <1>8, <2>4 DEF GetEmptyBuffer
    <3>2. pool[w] \in SUBSET Buffer
      BY <2>1 DEF TypeOK
    <3>3. output' \in [Worker -> Ptr]
      BY <3>1, <3>2 DEF TypeOK
    <3>4. pool' \in [Pipe -> SUBSET Buffer]
      BY <3>1, <3>2 DEF TypeOK
    <3> QED BY <1>8, <2>2, <2>4, <3>3, <3>4 DEF GetEmptyBuffer, TypeOK
  <2> QED BY <2>3, <2>4
<1>9. CASE w = Source /\ SourceProcess
  <2>1. PICK act \in SourceActs :
          /\ readyPush' = [readyPush EXCEPT ![Source] = act.push]
          /\ IF act.push
               THEN /\ produced' = produced + 1
                    /\ item' = [item EXCEPT ![0][output[Source]] = produced + 1]
               ELSE UNCHANGED <<produced, item>>
          /\ IF act.finish
               THEN done' = [done EXCEPT ![Source] = 1] /\ Goto(Source, "finish")
               ELSE Goto(Source, "gate") /\ UNCHANGED done
    BY <1>9 DEF SourceProcess
  <2>2. act.push \in BOOLEAN /\ act.finish \in BOOLEAN
    BY ActsAssumption DEF SourceAct
  <2>3. readyPush' \in [Worker -> BOOLEAN]
    BY <2>1, <2>2 DEF TypeOK
  <2>4. produced' \in Nat /\ item' \in [Pipe -> [Buffer -> Nat]]
    <3>1. CASE act.push
      <4>1. produced' \in Nat /\ item \in [Pipe -> [Buffer -> Nat]]
        BY <2>1, <3>1 DEF TypeOK
      <4>2. item' = [item EXCEPT ![0][output[Source]] = produced']
        BY <2>1, <3>1
      <4> QED BY <4>1, <4>2
    <3>2. CASE ~act.push
      BY <2>1, <3>2 DEF TypeOK
    <3> QED BY <3>1, <3>2
  <2>5. done' \in [Worker -> {0, 1}]
    BY <2>1 DEF TypeOK
  <2>6. pc' \in [Worker -> WorkerPc]
    BY <1>9, <2>1, <1>p DEF WorkerPc
  <2> QED BY <1>9, <2>3, <2>4, <2>5, <2>6 DEF SourceProcess, TypeOK
<1>10. CASE w = Source /\ SourceFinished
  BY <1>10, <1>p DEF SourceFinished, TypeOK, WorkerPc
<1>11. CASE StageProcess(w)
  <2>1. w \in Pipe /\ w - 1 \in Pipe
    BY <1>11, NStagesAssumption DEF StageProcess, Stage, Pipe
  <2>2. pc' \in [Worker -> WorkerPc]
    BY <1>11, <1>p DEF StageProcess, WorkerPc
  <2>3. CASE input[w] = NULL
    BY <1>11, <2>2, <2>3 DEF StageProcess, TypeOK
  <2>4. CASE input[w] # NULL
    <3>1. PICK act \in StageActs :
            /\ readyPush' = [readyPush EXCEPT ![w] = act.push]
            /\ readyPull' = [readyPull EXCEPT ![w] = act.pull]
            /\ item' = [item EXCEPT
                 ![w][output[w]]    = IF act.push THEN item[w - 1][input[w]] ELSE @,
                 ![w - 1][input[w]] = IF act.pull THEN 0 ELSE @]
            /\ IF act.pull
                 THEN /\ PutBack(w - 1, input[w])
                      /\ input' = [input EXCEPT ![w] = NULL]
                 ELSE UNCHANGED <<input, pool>>
      BY <1>11, <2>4 DEF StageProcess
    <3>2. act.push \in BOOLEAN /\ act.pull \in BOOLEAN
      BY ActsAssumption DEF StageAct
    <3>3. input[w] \in Buffer
      BY <2>4 DEF TypeOK
    <3>4. item' \in [Pipe -> [Buffer -> Nat]]
      <4> DEFINE n == item[w - 1][input[w]]
                 it == [item EXCEPT ![w][output[w]] = IF act.push THEN n ELSE @]
      <4>1. n \in Nat
        BY <2>1, <3>3 DEF TypeOK
      <4>2. it \in [Pipe -> [Buffer -> Nat]]
        BY <2>1, <4>1 DEF TypeOK
      <4>3. item' = [it EXCEPT ![w - 1][input[w]] = IF act.pull THEN 0 ELSE @]
        BY <3>1
      <4>4. it[w - 1] \in [Buffer -> Nat]
        BY <2>1, <4>2
      <4>5. [it[w - 1] EXCEPT ![input[w]] = IF act.pull THEN 0 ELSE @] \in [Buffer -> Nat]
        BY <4>4
      <4> HIDE DEF it
      <4> QED BY <4>2, <4>3, <4>5
    <3>5. pool' \in [Pipe -> SUBSET Buffer]
      <4>1. pool \in [Pipe -> SUBSET Buffer] /\ pool[w - 1] \cup {input[w]} \in SUBSET Buffer
        BY <2>1, <3>3 DEF TypeOK
      <4>2. pool' = pool \/ pool' = [pool EXCEPT ![w - 1] = pool[w - 1] \cup {input[w]}]
        BY <3>1 DEF PutBack
      <4> QED BY <4>1, <4>2
    <3>6. input' \in [Worker -> Ptr]
      BY <3>1 DEF TypeOK
    <3>7. readyPush' \in [Worker -> BOOLEAN] /\ readyPull' \in [Worker -> BOOLEAN]
      BY <3>1, <3>2 DEF TypeOK
    <3> QED BY <1>11, <2>2, <3>4, <3>5, <3>6, <3>7 DEF StageProcess, TypeOK
  <2> QED BY <2>3, <2>4
<1>12. CASE w = Sink /\ SinkProcess
  <2>1. pc' \in [Worker -> WorkerPc]
    BY <1>12, <1>p DEF SinkProcess, WorkerPc
  <2>2. readyPull' \in [Worker -> BOOLEAN]
    BY <1>12, ActsAssumption DEF SinkProcess, TypeOK
  <2>3. consumed' \in Nat
    BY <1>12, PipesOfWorker DEF SinkProcess, TypeOK
  <2> QED BY <1>12, <2>1, <2>2, <2>3 DEF SinkProcess, TypeOK
<1>13. CASE w = Sink /\ SinkReturn
  <2>1. pc' \in [Worker -> WorkerPc]
    BY <1>13, <1>p DEF SinkReturn, WorkerPc
  <2>2. input[w] \in Buffer /\ NStages \in Pipe
    BY <1>13, <1>w, PipesOfWorker DEF SinkReturn, Ctl, TypeOK
  <2>3. pool' \in [Pipe -> SUBSET Buffer] /\ input' \in [Worker -> Ptr]
    BY <1>13, <2>2 DEF SinkReturn, PutBack, TypeOK
  <2>4. item' \in [Pipe -> [Buffer -> Nat]]
    BY <1>13, <2>2 DEF SinkReturn, TypeOK
  <2> QED BY <1>13, <2>1, <2>3, <2>4 DEF SinkReturn, TypeOK
<1> QED BY <1>1, <1>2, <1>3, <1>4, <1>5, <1>6, <1>7, <1>8, <1>9, <1>10, <1>11, <1>12, <1>13
        DEF WorkerStep

\* A worker keeps its control facts while nothing they mention changes.
SameContext(v) ==
  /\ pc'[v] = pc[v] /\ input'[v] = input[v] /\ output'[v] = output[v]
  /\ readyPush'[v] = readyPush[v] /\ readyPull'[v] = readyPull[v]

\* A worker whose counter and context did not change still satisfies Ctl.
LEMMA CtlFrame ==
  ASSUME WorkerCtl, NEW w \in Worker, Ctl(w)',
         \A v \in Worker : v # w => SameContext(v)
  PROVE  WorkerCtl'
BY DEF WorkerCtl, Ctl, SameContext

\* The routines of a worker keep what the program counters say.
LEMMA CtlWorker ==
  ASSUME TypeOK, WorkerCtl, NEW w \in Worker, WorkerStep(w)
  PROVE  WorkerCtl'
<1> USE DEF Goto, context, flags, pipes, main, waiting, stream
<1>t. TypeOK'
  BY TypeWorker
<1>w. Ctl(w) /\ Source # Sink /\ Source \in Worker /\ Sink \in Worker
  BY PipesOfWorker DEF WorkerCtl
<1>s. w # Source /\ w # Sink => w \in Stage
  BY NStagesAssumption DEF Worker, Source, Sink, Stage
<1>n. Source \notin Stage /\ Sink \notin Stage
  BY NStagesAssumption DEF Source, Sink, Stage
<1> SUFFICES /\ \A v \in Worker : v # w => SameContext(v)
             /\ Ctl(w)'
  BY CtlFrame
<1>1. CASE Gate(w)
  BY <1>1, <1>w, <1>s, <1>n DEF Gate, Entry, Continue, Ctl, SameContext, TypeOK
<1>2. CASE PushBuffer(w)
  BY <1>2, <1>w, <1>s, <1>n DEF PushBuffer, Ctl, SameContext, TypeOK
<1>3. CASE Post(w)
  BY <1>3, <1>w, <1>s, <1>n DEF Post, Continue, Ctl, SameContext, TypeOK
<1>4. CASE SetDone(w)
  BY <1>4, <1>w, <1>s, <1>n DEF SetDone, Ctl, SameContext, TypeOK
<1>5. CASE TryAcquire(w)
  BY <1>5, <1>w, <1>s, <1>n DEF TryAcquire, Ctl, SameContext, TypeOK
<1>6. CASE UnsetDone(w)
  BY <1>6, <1>w, <1>s, <1>n DEF UnsetDone, Ctl, SameContext, TypeOK
<1>7. CASE GetFullBuffer(w)
  <2>1. \A v \in Worker : v # w => SameContext(v)
    BY <1>7 DEF GetFullBuffer, SameContext, TypeOK
  <2>2. CASE fifo[w - 1] = <<>>
    BY <1>7, <1>w, <2>1, <2>2 DEF GetFullBuffer, Ctl, TypeOK
  <2>3. CASE fifo[w - 1] # <<>>
    <3>1. w - 1 \in Pipe
      BY <1>7, <1>w, PipesOfWorker DEF GetFullBuffer, Ctl
    <3>2. fifo[w - 1] \in Seq(Buffer)
      BY <3>1 DEF TypeOK
    <3>3. Head(fifo[w - 1]) # NULL
      BY <2>3, <3>2, NullAssumption
    <3> QED BY <1>7, <1>w, <1>s, <1>n, <2>1, <2>3, <3>3 DEF GetFullBuffer, Ctl, TypeOK
  <2> QED BY <2>2, <2>3
<1>8. CASE GetEmptyBuffer(w)
  <2>1. \A v \in Worker : v # w => SameContext(v)
    BY <1>8 DEF GetEmptyBuffer, SameContext, TypeOK
  <2>2. CASE pool[w] = {}
    BY <1>8, <1>w, <2>1, <2>2 DEF GetEmptyBuffer, Ctl, TypeOK
  <2>3. CASE pool[w] # {}
    <3>1. NULL \notin pool[w]
      BY <1>8, <1>w, NullAssumption, PipesOfWorker DEF GetEmptyBuffer, Ctl, TypeOK
    <3>2. PICK b \in pool[w] : output' = [output EXCEPT ![w] = b]
      BY <1>8, <2>3 DEF GetEmptyBuffer
    <3>3. output'[w] # NULL
      BY <3>1, <3>2 DEF TypeOK
    <3> QED BY <1>8, <1>w, <1>s, <1>n, <2>1, <2>3, <3>3 DEF GetEmptyBuffer, Ctl, TypeOK
  <2> QED BY <2>2, <2>3
<1>9. CASE w = Source /\ SourceProcess
  BY <1>9, <1>w, <1>s, <1>n DEF SourceProcess, Ctl, SameContext, TypeOK
<1>10. CASE w = Source /\ SourceFinished
  BY <1>10, <1>w, <1>s, <1>n DEF SourceFinished, Ctl, SameContext, TypeOK
<1>11. CASE StageProcess(w)
  BY <1>11, <1>w, <1>s, <1>n DEF StageProcess, Ctl, SameContext, TypeOK
<1>12. CASE w = Sink /\ SinkProcess
  BY <1>12, <1>w, <1>s, <1>n DEF SinkProcess, Ctl, SameContext, TypeOK
<1>13. CASE w = Sink /\ SinkReturn
  BY <1>13, <1>w, <1>s, <1>n DEF SinkReturn, Ctl, SameContext, TypeOK
<1> QED BY <1>1, <1>2, <1>3, <1>4, <1>5, <1>6, <1>7, <1>8, <1>9, <1>10, <1>11, <1>12, <1>13
        DEF WorkerStep

\* So do the calls of the controlling thread, which also keep its own part.
LEMMA MainStepInv ==
  ASSUME TypeOK, WorkerCtl, MainCtl, MainCall \/ MainStep
  PROVE  TypeOK' /\ WorkerCtl' /\ MainCtl'
<1> USE NStagesAssumption DEF Goto, context, flags, pipes, main, waiting, stream,
        Source, Sink, MainPc
<1>d. -1..NStages + 2 \subseteq Int /\ Worker = 0..NStages + 1
  BY DEF Worker
<1>z. 0 \in -1..NStages + 2
  OBVIOUS
<1>e. mpc \in {"start", "stop"} => enabled = TRUE
  BY DEF MainCtl, TypeOK
<1>f. ASSUME UNCHANGED <<pc, context>> PROVE WorkerCtl'
  BY <1>f DEF WorkerCtl, Ctl
<1>1. CASE EnableCall
  BY <1>1, <1>f, <1>d DEF EnableCall, TypeOK, MainCtl
<1>2. CASE CreateThread
  <2>1. TypeOK'
    BY <1>2, <1>d DEF CreateThread, TypeOK, WorkerPc
  <2>2. MainCtl'
    BY <1>2, <1>d DEF CreateThread, TypeOK, MainCtl
  <2>3. WorkerCtl'
    <3>1. mi \in Worker /\ (mi = Source => mi # Sink)
      BY <1>2, <1>d DEF CreateThread
    <3>2. \A v \in Worker : v # mi => SameContext(v)
      BY <1>2 DEF CreateThread, SameContext, TypeOK
    <3>3. /\ pc'[mi] = "gate" /\ readyPush'[mi] = FALSE /\ input'[mi] = NULL
          /\ output'[mi] = NULL /\ readyPull'[mi] = (mi # Source)
      BY <1>2, <3>1 DEF CreateThread, TypeOK
    <3>4. \A v \in Worker : v # mi => Ctl(v)'
      BY <3>2 DEF WorkerCtl, Ctl, SameContext
    <3>5. \A v \in Worker : v = mi => Ctl(v)'
      BY <3>1, <3>3 DEF Ctl
    <3> QED BY <3>4, <3>5 DEF WorkerCtl
  <2> QED BY <2>1, <2>2, <2>3
<1>3. CASE EnableReturn
  <2>1. TypeOK'
    BY <1>3, <1>z DEF EnableReturn, TypeOK
  <2>2. MainCtl'
    <3>1. mpc' = "idle" /\ enabled' = TRUE
      BY <1>3, <1>e DEF EnableReturn
    <3> QED BY <3>1 DEF MainCtl
  <2> QED BY <1>3, <1>f, <2>1, <2>2 DEF EnableReturn
<1>4. CASE StartCall
  BY <1>4, <1>f, <1>d DEF StartCall, TypeOK, MainCtl
<1>5. CASE EnableWorker
  BY <1>5, <1>f, <1>d DEF EnableWorker, TypeOK, MainCtl
<1>6. CASE StartReturn
  <2>1. TypeOK'
    BY <1>6, <1>z DEF StartReturn, TypeOK
  <2>2. MainCtl'
    <3>1. mpc' = "idle" /\ enabled' = TRUE
      BY <1>6, <1>e DEF StartReturn
    <3> QED BY <3>1 DEF MainCtl
  <2> QED BY <1>6, <1>f, <2>1, <2>2 DEF StartReturn
<1>7. CASE StopCall
  BY <1>7, <1>f, <1>d DEF StopCall, TypeOK, MainCtl
<1>8. CASE DisableWorker
  BY <1>8, <1>f, <1>d DEF DisableWorker, TypeOK, MainCtl
<1>9. CASE StopReturn
  <2>1. TypeOK'
    BY <1>9, <1>z DEF StopReturn, TypeOK
  <2>2. MainCtl'
    <3>1. mpc' = "idle" /\ enabled' = TRUE
      BY <1>9, <1>e DEF StopReturn
    <3> QED BY <3>1 DEF MainCtl
  <2> QED BY <1>9, <1>f, <2>1, <2>2 DEF StopReturn
<1>10. CASE DisableCall
  BY <1>10, <1>f, <1>d DEF DisableCall, TypeOK, MainCtl
<1>11. CASE DestroyFirst
  BY <1>11, <1>f, <1>d DEF DestroyFirst, TypeOK, MainCtl
<1>12. CASE DestroySecond
  <2>1. mi \in Worker
    BY <1>12 DEF DestroySecond, MainCtl
  <2>2. TypeOK'
    <3>1. done' \in [Worker -> {0, 1}] /\ wDestroyed' \in [Worker -> BOOLEAN]
      BY <1>12 DEF DestroySecond, TypeOK
    <3>2. mpc' \in MainPc /\ mi' \in -1..NStages + 2
      BY <1>12, <1>d, <2>1 DEF DestroySecond, TypeOK
    <3> QED BY <1>12, <3>1, <3>2 DEF DestroySecond, TypeOK
  <2>3. MainCtl'
    BY <1>12, <1>d, <2>1 DEF DestroySecond, MainCtl
  <2> QED BY <1>12, <1>f, <2>2, <2>3 DEF DestroySecond
<1>13. CASE JoinAndClear
  <2>1. TypeOK'
    <3>1. ASSUME NEW p \in Pipe
          PROVE  FullSet(p) \subseteq Buffer /\ Held(p) \subseteq Buffer
      <4>1. fifo[p] \in Seq(Buffer)
        BY DEF TypeOK
      <4>2. FullSet(p) \subseteq Buffer
        BY <4>1 DEF FullSet
      <4>3. p \in Worker /\ p + 1 \in Worker
        BY <1>d DEF Pipe
      <4>4. output[p] \in Buffer \cup {NULL} /\ input[p + 1] \in Buffer \cup {NULL}
        BY <4>3 DEF TypeOK
      <4> QED BY <4>2, <4>4 DEF Held
    <3>2. pool' \in [Pipe -> SUBSET Buffer]
      BY <1>13, <3>1 DEF JoinAndClear, TypeOK
    <3>3. fifo' \in [Pipe -> Seq(Buffer)] /\ item' \in [Pipe -> [Buffer -> Nat]]
      BY <1>13 DEF JoinAndClear
    <3>4. /\ pc' \in [Worker -> WorkerPc] /\ mi' \in -1..NStages + 2
          /\ output' \in [Worker -> Buffer \cup {NULL}]
          /\ input' \in [Worker -> Buffer \cup {NULL}]
      BY <1>13, <1>d DEF JoinAndClear, WorkerPc
    <3> QED BY <1>13, <3>2, <3>3, <3>4 DEF JoinAndClear, TypeOK
  <2>2. MainCtl'
    BY <1>13, <1>d DEF JoinAndClear, TypeOK, MainCtl
  <2>3. WorkerCtl'
    BY <1>13, <1>d DEF JoinAndClear, TypeOK, WorkerCtl, Ctl
  <2> QED BY <2>1, <2>2, <2>3
<1>14. CASE SetDoneAgain
  BY <1>14, <1>f, <1>d DEF SetDoneAgain, TypeOK, MainCtl, Stage
<1>15. CASE MarkDisabled
  BY <1>15, <1>f, <1>d DEF MarkDisabled, TypeOK, MainCtl
<1>16. CASE DisableReturn
  BY <1>16, <1>f, <1>d DEF DisableReturn, TypeOK, MainCtl
<1> QED BY <1>1, <1>2, <1>3, <1>4, <1>5, <1>6, <1>7, <1>8, <1>9, <1>10, <1>11, <1>12, <1>13,
           <1>14, <1>15, <1>16 DEF MainCall, MainStep

\* A worker does not disturb what is known of the controlling thread.
LEMMA WorkerMainCtl ==
  ASSUME TypeOK, MainCtl, NEW w \in Worker, WorkerStep(w)
  PROVE  MainCtl'
<1>1. UNCHANGED main /\ \A v \in Worker : pc[v] = "none" => pc'[v] = "none"
  BY DEF WorkerStep, TypeOK, Goto, Gate, PushBuffer, Post, SetDone, TryAcquire, UnsetDone,
         GetFullBuffer, GetEmptyBuffer, SourceProcess, SourceFinished, StageProcess,
         SinkProcess, SinkReturn
<1> QED BY <1>1 DEF MainCtl, main

\* A waiting thread changes nothing but its own counters.
LEMMA WaiterInv ==
  ASSUME TypeOK, WorkerCtl, MainCtl, NEW t \in Waiter, WaitCall(t) \/ WaiterStep(t)
  PROVE  TypeOK' /\ WorkerCtl' /\ MainCtl'
<1> USE NStagesAssumption DEF context, flags, pipes, main, waiting, stream
<1>1. WorkerCtl' /\ MainCtl'
  BY DEF WorkerStep, WaitCall, WaiterStep, AwaitNotDestroying, CheckEnabled, WaitDone,
         TestDone, WorkerCtl, Ctl, MainCtl
<1>2. TypeOK'
  <2>1. tpc' \in [Waiter -> WaiterPc]
    BY DEF WaitCall, WaiterStep, AwaitNotDestroying, CheckEnabled, WaitDone, TestDone,
           TypeOK, WaiterPc
  <2>2. ti' \in [Waiter -> Worker]
    BY DEF WaitCall, WaiterStep, AwaitNotDestroying, CheckEnabled, WaitDone, TestDone,
           TypeOK, Worker, Sink
  <2> QED BY <2>1, <2>2 DEF WaitCall, WaiterStep, AwaitNotDestroying, CheckEnabled,
             WaitDone, TestDone, TypeOK
<1> QED BY <1>1, <1>2

Inv == TypeOK /\ WorkerCtl /\ MainCtl

\* The invariant holds of a pipeline just created ...
LEMMA InitInv == Init => Inv
<1> SUFFICES ASSUME Init PROVE Inv
  OBVIOUS
<1>1. TypeOK
  <2>1. /\ pc \in [Worker -> WorkerPc] /\ done \in [Worker -> {0, 1}]
        /\ output \in [Worker -> Buffer \cup {NULL}]
        /\ input \in [Worker -> Buffer \cup {NULL}]
    BY DEF Init, WorkerPc
  <2>2. /\ readyPush \in [Worker -> BOOLEAN] /\ readyPull \in [Worker -> BOOLEAN]
        /\ wEnabled \in [Worker -> BOOLEAN] /\ wDestroyed \in [Worker -> BOOLEAN]
    BY DEF Init
  <2>3. /\ pool \in [Pipe -> SUBSET Buffer] /\ fifo \in [Pipe -> Seq(Buffer)]
        /\ sem \in [Pipe -> Nat] /\ item \in [Pipe -> [Buffer -> Nat]]
    BY DEF Init
  <2>4. tpc \in [Waiter -> WaiterPc] /\ ti \in [Waiter -> Worker]
    BY NStagesAssumption DEF Init, WaiterPc, Worker
  <2>5. mi \in -1..NStages + 2 /\ mpc \in MainPc
    BY NStagesAssumption DEF Init, MainPc
  <2> QED BY <2>1, <2>2, <2>3, <2>4, <2>5 DEF Init, TypeOK
<1>2. WorkerCtl /\ MainCtl
  BY DEF Init, WorkerCtl, Ctl, MainCtl
<1> QED BY <1>1, <1>2 DEF Inv

\* ... and every step keeps it.
LEMMA NextInv == Inv /\ [Next]_vars => Inv'
<1> SUFFICES ASSUME Inv, [Next]_vars PROVE Inv'
  OBVIOUS
<1> USE DEF Inv
<1>1. CASE \E w \in Worker : WorkerStep(w)
  BY <1>1, TypeWorker, CtlWorker, WorkerMainCtl
<1>2. CASE MainCall \/ MainStep
  BY <1>2, MainStepInv
<1>3. CASE \E t \in Waiter : WaitCall(t) \/ WaiterStep(t)
  BY <1>3, WaiterInv
<1>4. CASE UNCHANGED vars
  BY <1>4 DEF vars, context, flags, pipes, main, waiting, stream, TypeOK, WorkerCtl, Ctl, MainCtl
<1> QED BY <1>1, <1>2, <1>3, <1>4 DEF Next

\* In every reachable state every variable has its type.
THEOREM TypeCorrect == Spec => []TypeOK
<1>1. Inv => TypeOK
  BY DEF Inv
<1> QED BY <1>1, InitInv, NextInv, PTL DEF Spec

\* The callbacks never see a NULL buffer.
THEOREM CallbackBuffers == Spec => []CallbackHasBuffers
<1>1. Inv => CallbackHasBuffers
  BY DEF Inv, WorkerCtl, Ctl, CallbackHasBuffers
<1> QED BY <1>1, InitInv, NextInv, PTL DEF Spec

-----------------------------------------------------------------------------
(***************************************************************************)
(* The semaphores.                                                         *)
(***************************************************************************)
\* No worker that was destroyed comes back while a disable is under way.
LEMMA DestroyedInv ==
  ASSUME Inv, Destroyed, [Next]_vars
  PROVE  Destroyed'
<1> USE NStagesAssumption DEF Inv, Goto, context, flags, pipes, main, waiting, stream, Worker, Source, Sink
<1>1. ASSUME NEW w \in Worker, WorkerStep(w) PROVE Destroyed'
  <2>1. /\ UNCHANGED main
        /\ \A v \in Worker : wDestroyed[v] => wDestroyed'[v]
    BY <1>1 DEF WorkerStep, TypeOK, Gate, PushBuffer, Post, SetDone, TryAcquire, UnsetDone,
         GetFullBuffer, GetEmptyBuffer, SourceProcess, SourceFinished, StageProcess,
         SinkProcess, SinkReturn
  <2>2. \A v \in Worker : pc'[v] = "exited" => pc[v] = "exited" \/ wDestroyed[v]
    BY <1>1, ContinueType DEF WorkerStep, TypeOK, Gate, PushBuffer, Post, SetDone, TryAcquire,
         UnsetDone, GetFullBuffer, GetEmptyBuffer, SourceProcess, SourceFinished, StageProcess,
         SinkProcess, SinkReturn
  <2> QED BY <2>1, <2>2 DEF Destroyed, MainCtl
<1>2. CASE MainCall
  BY <1>2 DEF MainCall, EnableCall, StartCall, StopCall, DisableCall, Destroyed, MainCtl
<1>3. CASE MainStep
  BY <1>3 DEF MainStep, CreateThread, EnableReturn, EnableWorker, StartReturn, DisableWorker,
      StopReturn, DestroyFirst, DestroySecond, JoinAndClear, SetDoneAgain, MarkDisabled,
      DisableReturn, Destroyed, TypeOK, MainCtl
<1>4. ASSUME NEW t \in Waiter, WaitCall(t) \/ WaiterStep(t) PROVE Destroyed'
  BY <1>4 DEF WaitCall, WaiterStep, AwaitNotDestroying, CheckEnabled, WaitDone, TestDone, Destroyed
<1>5. CASE UNCHANGED vars
  BY <1>5 DEF vars, Destroyed
<1> QED BY <1>1, <1>2, <1>3, <1>4, <1>5 DEF Next

\* Pushes, pops, releases and acquisitions keep tokens and full buffers equal.
LEMMA TokensWorker ==
  ASSUME Inv, TokensMatch, NEW w \in Worker, WorkerStep(w)
  PROVE  TokensMatch'
<1> USE DEF Inv, Goto, context, flags, pipes, main, waiting, stream
<1>w. Ctl(w)
  BY DEF WorkerCtl
<1>1. CASE Flushed
  <2>1. pc[w] = "gate" /\ wDestroyed[w]
    BY <1>1 DEF Flushed, WorkerStep, Gate, PushBuffer, Post, SetDone, TryAcquire, UnsetDone,
       GetFullBuffer, GetEmptyBuffer, SourceProcess, SourceFinished, StageProcess,
       SinkProcess, SinkReturn
  <2>2. Gate(w)
    BY <2>1 DEF WorkerStep, Gate, PushBuffer, Post, SetDone, TryAcquire, UnsetDone,
       GetFullBuffer, GetEmptyBuffer, SourceProcess, SourceFinished, StageProcess,
       SinkProcess, SinkReturn
  <2> QED BY <1>1, <2>1, <2>2 DEF Gate, Flushed, TokensMatch, TypeOK
<1>2. CASE ~Flushed
  <2> SUFFICES ASSUME NEW p \in Pipe PROVE Tokens(p)'
    BY DEF TokensMatch
  <2>p. /\ Tokens(p) /\ fifo[p] \in Seq(Buffer) /\ sem[p] \in Nat
        /\ p \in Worker /\ p + 1 \in Worker /\ p # Sink /\ p + 1 # Source
        /\ p \in Int /\ w \in Int /\ p + 1 # p /\ (p # w - 1 <=> w # p + 1)
    BY <1>2, NStagesAssumption DEF TokensMatch, TypeOK, Pipe, Worker, Sink, Source
  <2>1. CASE Gate(w)
    <3>1. pc[w] = "gate" /\ pc'[w] \notin {"post", "undone", "pull"}
      BY <2>1, ContinueType DEF Gate, TypeOK
    <3>2. \A v \in Worker : v # w => pc'[v] = pc[v]
      BY <2>1 DEF Gate, TypeOK
    <3> QED BY <2>1, <2>p, <3>1, <3>2 DEF Gate, Tokens
  <2>2. CASE PushBuffer(w)
    <3>1. pc[w] = "push" /\ \A v \in Worker : v # w => pc'[v] = pc[v]
      BY <2>2 DEF PushBuffer, TypeOK
    <3>2. sem' = sem /\ \A q \in Pipe : q # w => fifo'[q] = fifo[q]
      BY <2>2 DEF PushBuffer, TypeOK
    <3>3. CASE w = p
      <4>1. CASE pc'[w] = "post"
        <5>1. fifo'[p] = Append(fifo[p], output[p])
          BY <2>2, <2>p, <3>3, <4>1 DEF PushBuffer, TypeOK
        <5>2. Len(fifo'[p]) = Len(fifo[p]) + 1
          BY <2>p, <5>1
        <5> QED BY <2>p, <3>1, <3>2, <3>3, <4>1, <5>2 DEF Tokens
      <4>2. CASE pc'[w] # "post"
        <5>1. fifo' = fifo /\ pc'[w] = "idle"
          BY <2>2, <4>2 DEF PushBuffer, TypeOK
        <5> QED BY <2>p, <3>1, <3>2, <3>3, <5>1 DEF Tokens
      <4> QED BY <4>1, <4>2
    <3>4. CASE w # p
      <4>1. pc'[w] \in {"post", "idle"}
        BY <2>2 DEF PushBuffer, TypeOK
      <4> QED BY <2>p, <3>1, <3>2, <3>4, <4>1 DEF Tokens
    <3> QED BY <3>3, <3>4
  <2>3. CASE Post(w)
    <3>1. pc[w] = "post" /\ pc'[w] \notin {"post", "undone", "pull"}
      BY <2>3, ContinueType DEF Post, TypeOK
    <3>2. \A v \in Worker : v # w => pc'[v] = pc[v]
      BY <2>3 DEF Post, TypeOK
    <3>3. \A q \in Pipe : sem'[q] = IF q = w THEN sem[q] + 1 ELSE sem[q]
      BY <2>3 DEF Post, TypeOK
    <3> QED BY <2>3, <2>p, <3>1, <3>2, <3>3 DEF Post, Tokens
  <2>4. CASE SetDone(w)
    BY <2>4, <2>p DEF SetDone, Tokens, TypeOK
  <2>5. CASE TryAcquire(w)
    BY <2>5, <2>p DEF TryAcquire, Tokens, TypeOK
  <2>6. CASE UnsetDone(w)
    BY <2>6, <2>p DEF UnsetDone, Tokens, TypeOK
  <2>7. CASE GetFullBuffer(w)
    <3>1. pc[w] = "pull" /\ pc'[w] \notin {"post", "undone", "pull"}
      BY <2>7 DEF GetFullBuffer, TypeOK
    <3>2. \A v \in Worker : v # w => pc'[v] = pc[v]
      BY <2>7 DEF GetFullBuffer, TypeOK
    <3>3. CASE w = p + 1
      <4>1. fifo[w - 1] # <<>> /\ w - 1 = p
        BY <2>p, <3>1, <3>3 DEF Tokens
      <4>2. Len(fifo'[p]) = Len(fifo[p]) - 1 /\ sem'[p] = sem[p]
        BY <2>7, <2>p, <4>1 DEF GetFullBuffer, TypeOK
      <4> QED BY <2>p, <3>1, <3>2, <3>3, <4>2 DEF Tokens
    <3>4. CASE w # p + 1
      <4>1. fifo'[p] = fifo[p] /\ sem'[p] = sem[p]
        BY <2>7, <2>p, <3>4 DEF GetFullBuffer, TypeOK
      <4> QED BY <2>p, <3>1, <3>2, <3>4, <4>1 DEF Tokens
    <3> QED BY <3>3, <3>4
  <2>8. CASE GetEmptyBuffer(w)
    BY <2>8, <2>p DEF GetEmptyBuffer, Tokens, TypeOK
  <2>9. CASE w = Source /\ SourceProcess
    BY <2>9, <2>p DEF SourceProcess, Tokens, TypeOK
  <2>10. CASE w = Source /\ SourceFinished
    BY <2>10, <2>p DEF SourceFinished, Tokens, TypeOK
  <2>11. CASE StageProcess(w)
    BY <2>11, <2>p DEF StageProcess, Tokens, TypeOK
  <2>12. CASE w = Sink /\ SinkProcess
    BY <2>12, <2>p DEF SinkProcess, Tokens, TypeOK
  <2>13. CASE w = Sink /\ SinkReturn
    BY <2>13, <2>p DEF SinkReturn, Tokens, TypeOK
  <2> QED BY <2>1, <2>2, <2>3, <2>4, <2>5, <2>6, <2>7, <2>8, <2>9, <2>10, <2>11, <2>12, <2>13
          DEF WorkerStep
<1> QED BY <1>1, <1>2

\* The controlling thread only disturbs the count of a flushed pipeline.
LEMMA TokensMain ==
  ASSUME Inv, Destroyed, TokensMatch, MainCall \/ MainStep
  PROVE  TokensMatch'
<1> USE NStagesAssumption DEF Inv, Goto, context, flags, pipes, main, waiting, stream,
        Source, Sink
<1>1. CASE CreateThread
  <2>1. mi \in Worker /\ pc[mi] = "none" /\ pc' = [pc EXCEPT ![mi] = "gate"]
    BY <1>1 DEF CreateThread, MainCtl, Worker
  <2>2. UNCHANGED <<wDestroyed, fifo, sem>>
    BY <1>1 DEF CreateThread
  <2>3. Flushed => Flushed'
    BY <2>1, <2>2 DEF Flushed, TypeOK
  <2>4. ASSUME NEW p \in Pipe, Tokens(p) PROVE Tokens(p)'
    <3>1. p \in Worker /\ p + 1 \in Worker
      BY DEF Pipe, Worker
    <3> QED BY <2>1, <2>2, <2>4, <3>1 DEF Tokens, TypeOK
  <2> QED BY <2>3, <2>4 DEF TokensMatch
<1>2. CASE JoinAndClear
  <2>1. \A w \in Worker : wDestroyed'[w] /\ pc'[w] = "none"
    BY <1>2 DEF JoinAndClear, Destroyed
  <2> QED BY <2>1 DEF TokensMatch, Flushed
<1>3. CASE UNCHANGED <<pc, fifo, sem>> /\ \A w \in Worker : wDestroyed[w] => wDestroyed'[w]
  BY <1>3 DEF TokensMatch, Flushed, Tokens
<1> QED BY <1>1, <1>2, <1>3 DEF MainCall, EnableCall, StartCall, StopCall, DisableCall, MainStep,
      EnableReturn, EnableWorker, StartReturn, DisableWorker, StopReturn, DestroyFirst,
      DestroySecond, SetDoneAgain, MarkDisabled, DisableReturn, TypeOK

TokenInv == Inv /\ Destroyed /\ TokensMatch

LEMMA InitTokenInv == Init => TokenInv
<1> SUFFICES ASSUME Init PROVE Destroyed /\ TokensMatch
  BY InitInv DEF TokenInv
<1>1. Destroyed
  BY DEF Init, Destroyed
<1>2. ASSUME NEW p \in Pipe PROVE Tokens(p)
  <2>1. p \in Worker /\ p + 1 \in Worker
    BY NStagesAssumption DEF Pipe, Worker
  <2> QED BY <2>1 DEF Init, Tokens
<1> QED BY <1>1, <1>2 DEF TokensMatch

LEMMA NextTokenInv == TokenInv /\ [Next]_vars => TokenInv'
<1> SUFFICES ASSUME TokenInv, [Next]_vars PROVE TokenInv'
  OBVIOUS
<1> USE DEF TokenInv
<1>1. Inv' /\ Destroyed'
  BY NextInv, DestroyedInv
<1>2. TokensMatch'
  <2>1. CASE \E w \in Worker : WorkerStep(w)
    BY <2>1, TokensWorker
  <2>2. CASE MainCall \/ MainStep
    BY <2>2, TokensMain
  <2>3. CASE UNCHANGED <<pc, flags, pipes>>
    BY <2>3 DEF flags, pipes, TokensMatch, Flushed, Tokens
  <2> QED BY <2>1, <2>2, <2>3 DEF Next, WaitCall, WaiterStep, AwaitNotDestroying,
             CheckEnabled, WaitDone, TestDone, vars
<1> QED BY <1>1, <1>2

\* Every token of a semaphore stands for one full buffer of its pipe.
THEOREM SemaphoresCount == Spec => []TokensMatch
<1>1. TokenInv => TokensMatch
  BY DEF TokenInv
<1> QED BY <1>1, InitTokenInv, NextTokenInv, PTL DEF Spec
=============================================================================
