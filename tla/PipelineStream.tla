--------------------------- MODULE PipelineStream ---------------------------
(***************************************************************************)
(* With stages that produce one item per item, a pipeline implements       *)
(* Stream: the items in flight are, from the sink to the source, the input *)
(* a consumer has not processed, the full buffers of the pipe, and the     *)
(* output the producer is about to push.                                   *)
(***************************************************************************)
EXTENDS Pipeline

\* The item worker w was given and has not processed yet.
Unprocessed(w) ==
  IF /\ input[w] # NULL
     /\ w \in Stage => ~readyPull[w]
     /\ w = Sink => item[w - 1][input[w]] > consumed
  THEN <<item[w - 1][input[w]]>> ELSE <<>>

\* The item worker w processed and has not pushed yet.
Ready(w) ==
  IF readyPush[w] /\ output[w] # NULL /\ pc[w] # "post"
  THEN <<item[w][output[w]]>> ELSE <<>>

\* The items between the producer and the consumer of pipe p.
InPipe(p) ==
  Unprocessed(p + 1) \o [i \in 1..Len(fifo[p]) |-> item[p][fifo[p][i]]] \o Ready(p)

Flight ==
  LET upTo[p \in Pipe] == IF p = 0 THEN InPipe(0) ELSE InPipe(p) \o upTo[p - 1]
  IN  upTo[NStages]

Channel == INSTANCE Stream WITH flight <- Flight, closing <- (mpc = "join")

\* Nothing is lost, duplicated or reordered between the callbacks, across
\* pauses and failed pushes too, until the pipeline is disabled.
ImplementsStream == Channel!Spec
=============================================================================
