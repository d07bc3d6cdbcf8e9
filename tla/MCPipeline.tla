----------------------------- MODULE MCPipeline -----------------------------
(* Instances of Pipeline for TLC: the callbacks and the symmetry. *)
EXTENDS Pipeline, TLC

\* Every behaviour of a callback.
AnySourceActs == SourceAct
AnyStageActs  == StageAct
AnySinkActs   == BOOLEAN

\* A source that pushes and later finishes, but not in the same call.
PoliteSourceActs == {a \in SourceAct : ~(a.push /\ a.finish)}
\* A source that never finishes.
EndlessSourceActs == {a \in SourceAct : ~a.finish}
\* A stage that produces one item per item.
OneToOneStageActs == {a \in StageAct : a.push = a.pull}
\* Callbacks that make progress with every call.
EagerStageActs == {[push |-> TRUE, pull |-> TRUE]}
EagerSinkActs  == {TRUE}

Symmetry == Permutations(Buffer) \cup Permutations(Waiter)
=============================================================================
