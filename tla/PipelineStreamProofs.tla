------------------------ MODULE PipelineStreamProofs ------------------------
(***************************************************************************)
(* With stages that hand on every item they take, a pipeline implements    *)
(* Stream, for any number of stages and buffers: nothing is lost,          *)
(* duplicated or reordered between the callbacks.                          *)
(***************************************************************************)
EXTENDS PipelineStream, PipelineOwnershipProofs, SequenceTheorems, WellFoundedInduction

-----------------------------------------------------------------------------
(***************************************************************************)
(* Sequences chained along the pipes.  Flight is such a chain, defined by  *)
(* recursion on the pipes; the provers know no induction, but the pipes    *)
(* are finitely many.                                                      *)
(***************************************************************************)

\* Induction along the pipes.
LEMMA PipeInduction ==
  ASSUME NEW S, 0 \in S, \A p \in Pipe : p # 0 /\ p - 1 \in S => p \in S
  PROVE  Pipe \subseteq S
<1> SUFFICES ASSUME NEW k \in Pipe, k \notin S PROVE FALSE
  OBVIOUS
<1> USE NStagesAssumption DEF Pipe
<1> DEFINE T == {0..p : p \in Pipe \ S}
<1>1. T \subseteq FiniteSubsetsOf(Int) /\ T # {}
  BY FS_Interval DEF FiniteSubsetsOf
<1>2. PICK x \in T : \A y \in T : <<y, x>> \notin StrictSubsetOrdering(Int)
  BY <1>1, WFMin, FS_StrictSubsetOrderingWellFounded
<1>3. PICK p \in Pipe \ S : x = 0..p
  BY <1>2
<1>4. p # 0 /\ p - 1 \in Pipe \ S
  BY <1>3
<1>5. <<0..p - 1, x>> \in StrictSubsetOrdering(Int)
  <2>1. 0..p - 1 \subseteq 0..p /\ p \in 0..p /\ p \notin 0..p - 1 /\ 0..p \subseteq Int
    BY <1>3
  <2> QED BY <1>3, <2>1 DEF StrictSubsetOrdering
<1> QED BY <1>2, <1>4, <1>5

LEMMA Associative == \A s, t, u \in Seq(Nat) : (s \o t) \o u = s \o (t \o u)
BY ConcatAssociative

\* c[p] is what pipe p holds according to e, followed by what the pipes before
\* it hold.
Chained(e, c) == c = [p \in Pipe |-> IF p = 0 THEN e[0] ELSE e[p] \o c[p - 1]]

LEMMA ChainExists ==
  ASSUME NEW e
  PROVE  \E c : Chained(e, c)
<1> USE NStagesAssumption DEF Pipe
<1> DEFINE upTo(n, c) == c = [p \in 0..n |-> IF p = 0 THEN e[0] ELSE e[p] \o c[p - 1]]
           S == {n \in Pipe : \E c : upTo(n, c)}
<1>1. 0 \in S
  <2> DEFINE c == [p \in 0..0 |-> e[0]]
  <2>1. c = [p \in 0..0 |-> IF p = 0 THEN e[0] ELSE e[p] \o c[p - 1]]
    OBVIOUS
  <2>2. \E d : upTo(0, d)
    <3> HIDE DEF c
    <3> QED BY <2>1
  <2> HIDE DEF upTo
  <2> QED BY <2>2
<1>2. ASSUME NEW n \in Pipe, n # 0, n - 1 \in S PROVE n \in S
  <2>1. PICK c : upTo(n - 1, c)
    BY <1>2
  <2> DEFINE d == [p \in 0..n |-> IF p = n THEN e[n] \o c[n - 1] ELSE c[p]]
  <2>2. ASSUME NEW p \in 0..n PROVE d[p] = IF p = 0 THEN e[0] ELSE e[p] \o d[p - 1]
    <3>1. CASE p = n
      BY <1>2, <3>1
    <3>2. CASE p # n
      BY <1>2, <2>1, <3>2
    <3> QED BY <3>1, <3>2
  <2>3. upTo(n, d)
    BY <2>2
  <2> QED BY <2>3
<1>3. NStages \in S
  <2> HIDE DEF S
  <2>1. Pipe \subseteq S
    BY <1>1, <1>2, PipeInduction
  <2> QED BY <2>1
<1> QED BY <1>3 DEF Chained

Chain(e) == CHOOSE c : Chained(e, c)

\* The equations of a chain of sequences of numbers, and its type.
LEMMA ChainType ==
  ASSUME NEW e \in [Pipe -> Seq(Nat)]
  PROVE  /\ Chain(e)[0] = e[0] /\ \A p \in Pipe : p # 0 => Chain(e)[p] = e[p] \o Chain(e)[p - 1]
         /\ \A p \in Pipe : Chain(e)[p] \in Seq(Nat)
<1>z. 0 \in Pipe
  BY NStagesAssumption DEF Pipe
<1>1. Chain(e)[0] = e[0] /\ \A p \in Pipe : p # 0 => Chain(e)[p] = e[p] \o Chain(e)[p - 1]
  <2> DEFINE c == Chain(e)
  <2>1. Chained(e, c)
    BY ChainExists DEF Chain
  <2> HIDE DEF c
  <2>2. c[0] = e[0] /\ \A p \in Pipe : p # 0 => c[p] = e[p] \o c[p - 1]
    BY <1>z, <2>1 DEF Chained
  <2> QED BY <2>2 DEF c
<1> DEFINE S == {p \in Pipe : Chain(e)[p] \in Seq(Nat)}
<1>2. 0 \in S
  BY <1>1, <1>z
<1>3. ASSUME NEW p \in Pipe, p # 0, p - 1 \in S PROVE p \in S
  <2>1. e[p] \in Seq(Nat) /\ Chain(e)[p - 1] \in Seq(Nat) /\ Chain(e)[p] = e[p] \o Chain(e)[p - 1]
    BY <1>1, <1>3
  <2>2. e[p] \o Chain(e)[p - 1] \in Seq(Nat)
    BY <2>1
  <2> QED BY <2>1, <2>2
<1>4. Pipe \subseteq S
  <2> HIDE DEF S
  <2> QED BY <1>2, <1>3, PipeInduction
<1> QED BY <1>1, <1>4

\* Up to pipe k a chain depends on the pipes up to k.
LEMMA ChainBelow ==
  ASSUME NEW e \in [Pipe -> Seq(Nat)],
         NEW f \in [Pipe -> Seq(Nat)],
         NEW k \in Pipe, \A p \in Pipe : p <= k => f[p] = e[p]
  PROVE  Chain(f)[k] = Chain(e)[k]
<1>z. 0 \in Pipe /\ \A p \in Pipe : 0 <= p /\ (p # 0 => p - 1 \in Pipe)
  BY NStagesAssumption DEF Pipe
<1> DEFINE S == {p \in Pipe : p <= k => Chain(f)[p] = Chain(e)[p]}
<1>1. 0 \in S
  <2>1. Chain(e)[0] = e[0] /\ Chain(f)[0] = f[0]
    BY ChainType
  <2> QED BY <1>z, <2>1
<1>2. ASSUME NEW p \in Pipe, p # 0, p - 1 \in S PROVE p \in S
  <2> SUFFICES ASSUME p <= k PROVE Chain(f)[p] = Chain(e)[p]
    OBVIOUS
  <2>1. Chain(f)[p - 1] = Chain(e)[p - 1]
    BY <1>2 DEF Pipe
  <2>2. Chain(e)[p] = e[p] \o Chain(e)[p - 1] /\ Chain(f)[p] = f[p] \o Chain(f)[p - 1]
    BY <1>2, ChainType
  <2> QED BY <2>1, <2>2
<1>3. Pipe \subseteq S
  <2> HIDE DEF S
  <2> QED BY <1>1, <1>2, PipeInduction
<1> QED BY <1>3 DEF Pipe

\* What comes last in pipe k comes last in all.
LEMMA ChainAbove ==
  ASSUME NEW e \in [Pipe -> Seq(Nat)],
         NEW f \in [Pipe -> Seq(Nat)],
         NEW k \in Pipe, \A p \in Pipe : p > k => f[p] = e[p],
         NEW x \in Seq(Nat), Chain(f)[k] = Chain(e)[k] \o x
  PROVE  Chain(f)[NStages] = Chain(e)[NStages] \o x
<1>z. NStages \in Pipe /\ NStages >= k /\ 0 \in Pipe /\ 0 <= k
  BY NStagesAssumption DEF Pipe
<1> DEFINE S == {p \in Pipe : p >= k => Chain(f)[p] = Chain(e)[p] \o x}
<1>1. ASSUME NEW p \in Pipe, p <= k PROVE p \in S
  <2>1. p >= k => p = k
    BY <1>1 DEF Pipe
  <2> QED BY <1>1, <2>1
<1>2. ASSUME NEW p \in Pipe, p # 0, p - 1 \in S PROVE p \in S
  <2>1. CASE p <= k
    BY <1>1, <2>1
  <2>2. CASE p > k
    <3>1. p - 1 \in Pipe /\ Chain(f)[p - 1] = Chain(e)[p - 1] \o x
      BY <1>2, <2>2 DEF Pipe
    <3>2. /\ Chain(e)[p] = e[p] \o Chain(e)[p - 1] /\ Chain(f)[p] = e[p] \o Chain(f)[p - 1]
          /\ e[p] \in Seq(Nat) /\ Chain(e)[p - 1] \in Seq(Nat)
      BY <1>2, <2>2, <3>1, ChainType
    <3>3. (e[p] \o Chain(e)[p - 1]) \o x = e[p] \o (Chain(e)[p - 1] \o x)
      BY <3>2, Associative
    <3> QED BY <3>1, <3>2, <3>3
  <2> QED BY <2>1, <2>2 DEF Pipe
<1>3. Pipe \subseteq S
  <2> HIDE DEF S
  <2>1. 0 \in S
    BY <1>1, <1>z
  <2> QED BY <1>2, <2>1, PipeInduction
<1> QED BY <1>3, <1>z

\* What enters the first pipe comes last.
LEMMA ChainAppend ==
  ASSUME NEW e \in [Pipe -> Seq(Nat)],
         NEW f \in [Pipe -> Seq(Nat)],
         NEW x \in Seq(Nat), f[0] = e[0] \o x, \A p \in Pipe : p # 0 => f[p] = e[p]
  PROVE  Chain(f)[NStages] = Chain(e)[NStages] \o x
<1>1. 0 \in Pipe /\ \A p \in Pipe : p > 0 => p # 0
  BY NStagesAssumption DEF Pipe
<1>2. Chain(f)[0] = Chain(e)[0] \o x
  <2>1. Chain(e)[0] = e[0] /\ Chain(f)[0] = f[0]
    BY ChainType
  <2> QED BY <2>1
<1> QED BY <1>1, <1>2, ChainAbove

\* What leaves a pipe for the next one keeps its place.
LEMMA ChainMove ==
  ASSUME NEW e \in [Pipe -> Seq(Nat)],
         NEW f \in [Pipe -> Seq(Nat)],
         NEW w \in Pipe, w # 0,
         f[w] \o f[w - 1] = e[w] \o e[w - 1],
         \A p \in Pipe : p # w /\ p # w - 1 => f[p] = e[p]
  PROVE  Chain(f)[NStages] = Chain(e)[NStages]
<1>q. w - 1 \in Pipe /\ \A p \in Pipe : p > w => p # w /\ p # w - 1
  BY NStagesAssumption DEF Pipe
<1>t. /\ Chain(e)[0] = e[0] /\ \A p \in Pipe : p # 0 => Chain(e)[p] = e[p] \o Chain(e)[p - 1]
      /\ Chain(f)[0] = f[0] /\ \A p \in Pipe : p # 0 => Chain(f)[p] = f[p] \o Chain(f)[p - 1]
      /\ \A p \in Pipe : Chain(e)[p] \in Seq(Nat) /\ Chain(f)[p] \in Seq(Nat)
  BY ChainType
<1>1. Chain(f)[w] = Chain(e)[w]
  <2>1. CASE w - 1 = 0
    BY <1>q, <1>t, <2>1
  <2>2. CASE w - 1 # 0
    <3>1. w - 1 - 1 \in Pipe /\ \A p \in Pipe : p <= w - 1 - 1 => p # w /\ p # w - 1
      BY <2>2, NStagesAssumption DEF Pipe
    <3> DEFINE t == Chain(e)[w - 1 - 1]
    <3>2. Chain(f)[w - 1 - 1] = t /\ t \in Seq(Nat)
      <4>1. \A p \in Pipe : p <= w - 1 - 1 => f[p] = e[p]
        BY <3>1
      <4> QED BY <1>t, <3>1, <4>1, ChainBelow
    <3>3. /\ Chain(e)[w] = e[w] \o (e[w - 1] \o t) /\ Chain(f)[w] = f[w] \o (f[w - 1] \o t)
          /\ e[w] \in Seq(Nat) /\ e[w - 1] \in Seq(Nat) /\ f[w] \in Seq(Nat) /\ f[w - 1] \in Seq(Nat)
      BY <1>q, <1>t, <2>2, <3>2
    <3> HIDE DEF t
    <3>4. /\ (e[w] \o e[w - 1]) \o t = e[w] \o (e[w - 1] \o t)
          /\ (f[w] \o f[w - 1]) \o t = f[w] \o (f[w - 1] \o t)
      BY <3>2, <3>3, Associative
    <3> QED BY <3>3, <3>4
  <2> QED BY <2>1, <2>2
<1>2. /\ Chain(f)[w] = Chain(e)[w] \o <<>>
      /\ Chain(e)[NStages] \o <<>> = Chain(e)[NStages]
      /\ <<>> \in Seq(Nat)
  <2>1. NStages \in Pipe
    BY NStagesAssumption DEF Pipe
  <2> QED BY <1>1, <1>t, <2>1, ConcatEmptySeq
<1>3. Chain(f)[NStages] = Chain(e)[NStages] \o <<>>
  <2>1. \A p \in Pipe : p > w => f[p] = e[p]
    BY <1>q
  <2> QED BY <1>2, <2>1, ChainAbove
<1> QED BY <1>2, <1>3

\* What is first in the last pipe is first in all.
LEMMA ChainHead ==
  ASSUME NEW e \in [Pipe -> Seq(Nat)],
         NEW f \in [Pipe -> Seq(Nat)],
         NEW x \in Seq(Nat), e[NStages] = x \o f[NStages],
         \A p \in Pipe : p # NStages => f[p] = e[p]
  PROVE  Chain(e)[NStages] = x \o Chain(f)[NStages]
<1>n. NStages \in Pipe /\ (NStages # 0 => NStages - 1 \in Pipe)
  BY NStagesAssumption DEF Pipe
<1>t. /\ Chain(e)[0] = e[0] /\ \A p \in Pipe : p # 0 => Chain(e)[p] = e[p] \o Chain(e)[p - 1]
      /\ Chain(f)[0] = f[0] /\ \A p \in Pipe : p # 0 => Chain(f)[p] = f[p] \o Chain(f)[p - 1]
      /\ \A p \in Pipe : Chain(e)[p] \in Seq(Nat) /\ Chain(f)[p] \in Seq(Nat)
  BY ChainType
<1>1. CASE NStages = 0
  BY <1>1, <1>t
<1>2. CASE NStages # 0
  <2>1. \A p \in Pipe : p <= NStages - 1 => p # NStages
    BY NStagesAssumption DEF Pipe
  <2>2. Chain(f)[NStages - 1] = Chain(e)[NStages - 1]
    <3>1. \A p \in Pipe : p <= NStages - 1 => f[p] = e[p]
      BY <2>1
    <3> QED BY <1>n, <1>2, <3>1, ChainBelow
  <2>3. /\ Chain(e)[NStages] = (x \o f[NStages]) \o Chain(e)[NStages - 1]
        /\ Chain(f)[NStages] = f[NStages] \o Chain(e)[NStages - 1]
        /\ f[NStages] \in Seq(Nat) /\ Chain(e)[NStages - 1] \in Seq(Nat)
    BY <1>n, <1>t, <1>2, <2>2
  <2> DEFINE t == Chain(e)[NStages - 1]
  <2>4. (x \o f[NStages]) \o t = x \o (f[NStages] \o t)
    BY <2>3, Associative
  <2> QED BY <2>3, <2>4
<1> QED BY <1>1, <1>2

\* Pipes that do not change, and empty pipes.
LEMMA ChainSame ==
  ASSUME NEW e \in [Pipe -> Seq(Nat)],
         NEW f \in [Pipe -> Seq(Nat)]
  PROVE  /\ (\A p \in Pipe : f[p] = e[p]) => Chain(f)[NStages] = Chain(e)[NStages]
         /\ (\A p \in Pipe : e[p] = <<>>) => Chain(e)[NStages] = <<>>
<1>n. NStages \in Pipe /\ 0 \in Pipe
  BY NStagesAssumption DEF Pipe
<1>1. ASSUME \A p \in Pipe : f[p] = e[p] PROVE Chain(f)[NStages] = Chain(e)[NStages]
  <2>1. \A p \in Pipe : p <= NStages => f[p] = e[p]
    BY <1>1
  <2> QED BY <1>n, <2>1, ChainBelow
<1>2. ASSUME \A p \in Pipe : e[p] = <<>> PROVE Chain(e)[NStages] = <<>>
  <2> DEFINE S == {p \in Pipe : Chain(e)[p] = <<>>}
  <2>1. 0 \in S
    BY <1>n, <1>2, ChainType
  <2>2. ASSUME NEW p \in Pipe, p # 0, p - 1 \in S PROVE p \in S
    <3>1. Chain(e)[p] = e[p] \o Chain(e)[p - 1] /\ e[p] = <<>> /\ Chain(e)[p - 1] = <<>>
      BY <1>2, <2>2, ChainType
    <3>2. <<>> \o <<>> = <<>>
      BY ConcatEmptySeq, EmptySeq
    <3> QED BY <3>1, <3>2
  <2>3. Pipe \subseteq S
    <3> HIDE DEF S
    <3> QED BY <2>1, <2>2, PipeInduction
  <2> QED BY <2>3, <1>n
<1> QED BY <1>1, <1>2

\* There is only one chain, and it begins with what the last pipe holds.
LEMMA ChainUnique ==
  ASSUME NEW e \in [Pipe -> Seq(Nat)]
  PROVE  /\ \A c : Chained(e, c) => c[NStages] = Chain(e)[NStages]
         /\ e[NStages] # <<>> => /\ Chain(e)[NStages] # <<>>
                                 /\ Chain(e)[NStages][1] = e[NStages][1]
<1>n. NStages \in Pipe /\ 0 \in Pipe /\ (NStages # 0 => NStages - 1 \in Pipe)
  BY NStagesAssumption DEF Pipe
<1>1. ASSUME NEW c, Chained(e, c) PROVE c[NStages] = Chain(e)[NStages]
  <2>1. c[0] = e[0] /\ \A p \in Pipe : p # 0 => c[p] = e[p] \o c[p - 1]
    BY <1>1, <1>n DEF Chained
  <2> DEFINE S == {p \in Pipe : c[p] = Chain(e)[p]}
  <2>2. 0 \in S
    BY <1>n, <2>1, ChainType
  <2>3. ASSUME NEW p \in Pipe, p # 0, p - 1 \in S PROVE p \in S
    <3>1. c[p] = e[p] \o c[p - 1] /\ Chain(e)[p] = e[p] \o Chain(e)[p - 1]
      BY <2>1, <2>3, ChainType
    <3> QED BY <2>3, <3>1
  <2>4. Pipe \subseteq S
    <3> HIDE DEF S
    <3> QED BY <2>2, <2>3, PipeInduction
  <2> QED BY <2>4, <1>n
<1>2. ASSUME e[NStages] # <<>>
      PROVE  Chain(e)[NStages] # <<>> /\ Chain(e)[NStages][1] = e[NStages][1]
  <2>1. CASE NStages = 0
    BY <1>2, <1>n, <2>1, ChainType
  <2>2. CASE NStages # 0
    <3> DEFINE s == e[NStages]  t == Chain(e)[NStages - 1]
    <3>1. s \in Seq(Nat) /\ t \in Seq(Nat) /\ s # <<>> /\ Chain(e)[NStages] = s \o t
      BY <1>2, <1>n, <2>2, ChainType
    <3> HIDE DEF s, t
    <3>2. s \o t # <<>> /\ (s \o t)[1] = s[1]
      <4>1. Len(s) \in Nat \ {0} /\ Len(t) \in Nat
        BY <3>1
      <4> QED BY <3>1, <4>1, ConcatProperties
    <3> QED BY <3>1, <3>2 DEF s
  <2> QED BY <2>1, <2>2
<1> QED BY <1>1, <1>2

-----------------------------------------------------------------------------
(***************************************************************************)
(* The items in flight.                                                    *)
(***************************************************************************)
InFlight == [p \in Pipe |-> InPipe(p)]

LEMMA FlightIsChain == InFlight \in [Pipe -> Seq(Nat)] => Flight = Chain(InFlight)[NStages]
<1> SUFFICES ASSUME InFlight \in [Pipe -> Seq(Nat)] PROVE Flight = Chain(InFlight)[NStages]
  OBVIOUS
<1> DEFINE Up(c) == c = [p \in Pipe |-> IF p = 0 THEN InPipe(0) ELSE InPipe(p) \o c[p - 1]]
<1>1. ASSUME NEW c PROVE Up(c) <=> Chained(InFlight, c)
  <2>1. 0 \in Pipe
    BY NStagesAssumption DEF Pipe
  <2>2. \A p \in Pipe : InFlight[p] = InPipe(p)
    BY DEF InFlight
  <2> HIDE DEF InFlight
  <2> QED BY <2>1, <2>2 DEF Chained
<1>2. PICK c : Up(c)
  BY <1>1, ChainExists
<1>3. Flight = (CHOOSE u : Up(u))[NStages]
  BY DEF Flight
<1>4. Up(CHOOSE u : Up(u))
  <2> HIDE DEF Up
  <2> QED BY <1>2
<1> HIDE DEF Up
<1> QED BY <1>1, <1>3, <1>4, ChainUnique

\* What g says of the elements of s.
Mapped(g, s) == [i \in 1..Len(s) |-> g[s[i]]]

LEMMA MappedType ==
  ASSUME NEW g \in [Buffer -> Nat], NEW s \in Seq(Buffer)
  PROVE  /\ Mapped(g, s) \in Seq(Nat) /\ Len(Mapped(g, s)) = Len(s)
         /\ \A i \in 1..Len(s) : Mapped(g, s)[i] = g[s[i]]
<1>1. Len(s) \in Nat /\ \A i \in 1..Len(s) : g[s[i]] \in Nat
  OBVIOUS
<1> QED BY <1>1 DEF Mapped

LEMMA MappedEnds ==
  ASSUME NEW g \in [Buffer -> Nat], NEW s \in Seq(Buffer)
  PROVE  /\ \A b \in Buffer : Mapped(g, Append(s, b)) = Append(Mapped(g, s), g[b])
         /\ s # <<>> => Mapped(g, s) = <<g[Head(s)]>> \o Mapped(g, Tail(s))
<1>1. ASSUME NEW b \in Buffer PROVE Mapped(g, Append(s, b)) = Append(Mapped(g, s), g[b])
  <2> DEFINE a == Append(s, b)  m == Mapped(g, s)  n == Mapped(g, a)  k == Append(m, g[b])
  <2>1. /\ a \in Seq(Buffer) /\ Len(a) = Len(s) + 1 /\ Len(s) \in Nat
        /\ a[Len(s) + 1] = b /\ \A i \in 1..Len(s) : a[i] = s[i]
    OBVIOUS
  <2>2. /\ m \in Seq(Nat) /\ Len(m) = Len(s) /\ \A i \in 1..Len(s) : m[i] = g[s[i]]
        /\ n \in Seq(Nat) /\ Len(n) = Len(a) /\ \A i \in 1..Len(a) : n[i] = g[a[i]]
    <3> HIDE DEF a
    <3> QED BY <2>1, MappedType
  <2> HIDE DEF a, m, n
  <2>3. /\ k \in Seq(Nat) /\ Len(k) = Len(s) + 1 /\ k[Len(s) + 1] = g[b]
        /\ \A i \in 1..Len(s) : k[i] = m[i]
    BY <2>2
  <2> HIDE DEF k
  <2>4. ASSUME NEW i \in 1..Len(n) PROVE n[i] = k[i]
    <3>1. CASE i = Len(s) + 1
      BY <2>1, <2>2, <2>3, <3>1
    <3>2. CASE i # Len(s) + 1
      <4>1. i \in 1..Len(s)
        BY <2>1, <2>2, <3>2
      <4> QED BY <2>1, <2>2, <2>3, <4>1
    <3> QED BY <3>1, <3>2
  <2>5. n = k
    BY <2>1, <2>2, <2>3, <2>4, SeqEqual
  <2> QED BY <2>5 DEF n, k, a, m
<1>2. ASSUME s # <<>> PROVE Mapped(g, s) = <<g[Head(s)]>> \o Mapped(g, Tail(s))
  <2> DEFINE a == Tail(s)  m == Mapped(g, s)  n == Mapped(g, a)  k == <<g[Head(s)]>> \o n
  <2>1. /\ a \in Seq(Buffer) /\ Len(a) = Len(s) - 1 /\ Len(s) \in Nat \ {0}
        /\ Head(s) = s[1] /\ s[1] \in Buffer /\ \A i \in 1..Len(a) : a[i] = s[i + 1]
    BY <1>2
  <2>2. /\ m \in Seq(Nat) /\ Len(m) = Len(s) /\ \A i \in 1..Len(s) : m[i] = g[s[i]]
        /\ n \in Seq(Nat) /\ Len(n) = Len(a) /\ \A i \in 1..Len(a) : n[i] = g[a[i]]
    <3> HIDE DEF a
    <3> QED BY <2>1, MappedType
  <2> HIDE DEF a, m, n
  <2>3. /\ k \in Seq(Nat) /\ Len(k) = Len(s) /\ k[1] = g[s[1]]
        /\ \A i \in 1..Len(a) : k[i + 1] = n[i]
    <3>1. <<g[Head(s)]>> \in Seq(Nat) /\ Len(<<g[Head(s)]>>) = 1
      BY <2>1
    <3> QED BY <2>1, <2>2, <3>1, ConcatProperties
  <2> HIDE DEF k
  <2>4. ASSUME NEW i \in 1..Len(m) PROVE m[i] = k[i]
    <3>1. CASE i = 1
      BY <2>1, <2>2, <2>3, <3>1
    <3>2. CASE i # 1
      <4>1. i - 1 \in 1..Len(a) /\ (i - 1) + 1 = i
        BY <2>1, <2>2, <3>2
      <4>2. k[(i - 1) + 1] = n[i - 1] /\ n[i - 1] = g[a[i - 1]] /\ a[i - 1] = s[(i - 1) + 1]
        BY <2>1, <2>2, <2>3, <4>1
      <4> QED BY <2>2, <4>1, <4>2
    <3> QED BY <3>1, <3>2
  <2>5. m = k
    BY <2>1, <2>2, <2>3, <2>4, SeqEqual
  <2> QED BY <2>5 DEF n, k, a, m
<1> QED BY <1>1, <1>2

LEMMA FlightPrimed == InFlight' \in [Pipe -> Seq(Nat)] => Flight' = Chain(InFlight')[NStages]
<1>1. (InFlight \in [Pipe -> Seq(Nat)] => Flight = Chain(InFlight)[NStages])'
  BY FlightIsChain, PTL
<1> QED BY <1>1 DEF Chain, Chained

\* The full buffers of pipe p as items.
Items(p) == Mapped(item[p], fifo[p])

LEMMA StreamTypes ==
  ASSUME OwnInv
  PROVE  /\ \A p \in Pipe : /\ Unprocessed(p + 1) \in Seq(Nat) /\ Items(p) \in Seq(Nat)
                            /\ Ready(p) \in Seq(Nat) /\ InPipe(p) \in Seq(Nat)
                            /\ InPipe(p) = (Unprocessed(p + 1) \o Items(p)) \o Ready(p)
         /\ InFlight \in [Pipe -> Seq(Nat)]
<1>1. ASSUME NEW p \in Pipe
      PROVE  /\ Unprocessed(p + 1) \in Seq(Nat) /\ Items(p) \in Seq(Nat)
             /\ Ready(p) \in Seq(Nat)
  <2>1. /\ fifo[p] \in Seq(Buffer) /\ item[p] \in [Buffer -> Nat] /\ (p + 1) - 1 = p
        /\ output[p] \in Buffer \cup {NULL} /\ input[p + 1] \in Buffer \cup {NULL}
    BY PipeFacts, Places DEF OwnInv, TokenInv
  <2>2. Unprocessed(p + 1) \in Seq(Nat) /\ Ready(p) \in Seq(Nat)
    BY <2>1 DEF Unprocessed, Ready
  <2>3. Items(p) \in Seq(Nat)
    BY <2>1, MappedType DEF Items
  <2> QED BY <2>2, <2>3
<1>2. ASSUME NEW p \in Pipe
      PROVE  InPipe(p) = (Unprocessed(p + 1) \o Items(p)) \o Ready(p)
  BY DEF InPipe, Items, Mapped
<1>3. ASSUME NEW p \in Pipe PROVE InPipe(p) \in Seq(Nat)
  <2>1. Unprocessed(p + 1) \o Items(p) \in Seq(Nat)
    BY <1>1, ConcatProperties
  <2>2. (Unprocessed(p + 1) \o Items(p)) \o Ready(p) \in Seq(Nat)
    BY <1>1, <2>1, ConcatProperties
  <2> QED BY <1>2, <2>2
<1>4. InFlight \in [Pipe -> Seq(Nat)]
  BY <1>3 DEF InFlight
<1> QED BY <1>1, <1>2, <1>3, <1>4

\* The items in flight before and after a step.
LEMMA TypedFlight == OwnInv => InFlight \in [Pipe -> Seq(Nat)]
BY StreamTypes

LEMMA TwoFlights ==
  ASSUME OwnInv, OwnInv'
  PROVE  /\ InFlight \in [Pipe -> Seq(Nat)] /\ InFlight' \in [Pipe -> Seq(Nat)]
         /\ Flight = Chain(InFlight)[NStages] /\ Flight' = Chain(InFlight')[NStages]
         /\ Flight \in Seq(Nat) /\ Flight' \in Seq(Nat)
         /\ \A p \in Pipe : InFlight[p] = InPipe(p) /\ InFlight'[p] = InPipe(p)'
<1>1. InFlight' \in [Pipe -> Seq(Nat)]
  <2>1. (OwnInv => InFlight \in [Pipe -> Seq(Nat)])'
    BY TypedFlight, PTL
  <2> QED BY <2>1
<1>2. InFlight \in [Pipe -> Seq(Nat)]
  BY TypedFlight
<1>3. Flight = Chain(InFlight)[NStages] /\ Flight' = Chain(InFlight')[NStages]
  BY <1>1, <1>2, FlightIsChain, FlightPrimed
<1>4. NStages \in Pipe
  BY NStagesAssumption DEF Pipe
<1>5. \A p \in Pipe : InFlight[p] = InPipe(p) /\ InFlight'[p] = InPipe(p)'
  BY DEF InFlight
<1> QED BY <1>1, <1>2, <1>3, <1>4, <1>5, ChainType

-----------------------------------------------------------------------------
(***************************************************************************)
(* The invariant.                                                          *)
(***************************************************************************)

\* The input the sink has finished with is the one it was called with last.
SinkHolds == readyPull[Sink] /\ input[Sink] # NULL => item[NStages][input[Sink]] = consumed

\* The items in flight are in order, newer than what the sink has seen and
\* not newer than what the source has filled.
Rising ==
  /\ \A i, j \in 1..Len(Flight) : i < j => Flight[i] < Flight[j]
  /\ \A i \in 1..Len(Flight) : consumed < Flight[i] /\ Flight[i] <= produced

StreamInv == OwnInv /\ Ordered /\ SinkHolds /\ Rising

\* A step of Stream, or one that Stream does not see.
StreamStep == [Channel!Next]_Channel!vars

\* Stream keeps its items in order.
LEMMA StreamRises ==
  ASSUME Rising, StreamStep, Flight \in Seq(Nat), produced \in Nat, consumed \in Nat,
         consumed <= produced
  PROVE  Rising'
<1>n. Len(Flight) \in Nat /\ \A i \in 1..Len(Flight) : Flight[i] \in Nat
  OBVIOUS
<1>1. CASE Channel!Produce
  <2> DEFINE g == Flight'
  <2>1. /\ g = Append(Flight, produced + 1) /\ produced' = produced + 1 /\ consumed' = consumed
    BY <1>1 DEF Channel!Produce
  <2>2. /\ Len(g) = Len(Flight) + 1 /\ g[Len(Flight) + 1] = produced + 1
        /\ \A i \in 1..Len(Flight) : g[i] = Flight[i]
    BY <2>1
  <2>3. consumed < produced + 1
    OBVIOUS
  <2> QED BY <1>n, <2>1, <2>2, <2>3 DEF Rising
<1>2. CASE Channel!Deliver
  <2> DEFINE g == Flight'
  <2>1. /\ Flight # <<>> /\ g = Tail(Flight) /\ produced' = produced /\ consumed' = Head(Flight)
    BY <1>2 DEF Channel!Deliver
  <2>2. /\ Len(g) = Len(Flight) - 1 /\ consumed' = Flight[1] /\ 1 \in 1..Len(Flight)
        /\ \A i \in 1..Len(g) : g[i] = Flight[i + 1]
    BY <2>1
  <2>3. \A i \in 1..Len(g) : i + 1 \in 1..Len(Flight) /\ 1 < i + 1
    BY <1>n, <2>2
  <2> HIDE DEF g
  <2>4. ASSUME NEW i \in 1..Len(g), NEW j \in 1..Len(g), i < j PROVE g[i] < g[j]
    <3>1. i + 1 < j + 1 /\ i + 1 \in 1..Len(Flight) /\ j + 1 \in 1..Len(Flight)
      BY <1>n, <2>2, <2>3, <2>4
    <3> QED BY <2>2, <3>1 DEF Rising
  <2>5. ASSUME NEW i \in 1..Len(g) PROVE consumed' < g[i] /\ g[i] <= produced'
    <3>1. i + 1 \in 1..Len(Flight) /\ 1 < i + 1 /\ g[i] = Flight[i + 1]
      BY <2>2, <2>3
    <3> QED BY <2>1, <2>2, <3>1 DEF Rising
  <2> QED BY <2>4, <2>5 DEF g, Rising
<1>3. CASE UNCHANGED <<produced, Flight, consumed>>
  BY <1>3 DEF Rising
<1>4. CASE Channel!Discard
  BY <1>4 DEF Channel!Discard, Rising
<1> QED BY <1>1, <1>2, <1>3, <1>4
        DEF StreamStep, Channel!Next, Channel!Close, Channel!vars

\* A pipe whose places and items stay the same holds the same items.
LEMMA SamePlaces ==
  ASSUME NEW p \in Pipe, fifo'[p] = fifo[p],
         \A b \in FullSet(p) : item'[p][b] = item[p][b],
         Unprocessed(p + 1)' = Unprocessed(p + 1), Ready(p)' = Ready(p)
  PROVE  InPipe(p)' = InPipe(p)
<1>1. \A i \in 1..Len(fifo[p]) : item'[p][fifo'[p][i]] = item[p][fifo[p][i]]
  BY DEF FullSet
<1>2. Items(p)' = Items(p)
  BY <1>1 DEF Items, Mapped
<1> QED BY <1>2 DEF InPipe, Items, Mapped

\* A step that changes nothing Stream knows of.
LEMMA UnseenStep ==
  ASSUME OwnInv, OwnInv', \A p \in Pipe : InPipe(p)' = InPipe(p),
         UNCHANGED stream, (mpc = "join")' = (mpc = "join")
  PROVE  StreamStep
<1>1. InFlight' = InFlight
  BY DEF InFlight
<1>2. Flight' = Flight
  BY <1>1, TwoFlights
<1> QED BY <1>2 DEF StreamStep, Channel!vars, stream

-----------------------------------------------------------------------------
(***************************************************************************)
(* The steps Stream does not see.                                          *)
(***************************************************************************)

\* Steps of the control alone.
LEMMA ControlStep ==
  ASSUME OwnInv, OwnInv', SinkHolds,
         UNCHANGED <<context, fifo, item, stream>>,
         \A p \in Pipe : pc'[p] = "post" <=> pc[p] = "post",
         (mpc = "join")' = (mpc = "join")
  PROVE  StreamStep /\ SinkHolds'
<1> USE DEF context, stream
<1>1. ASSUME NEW p \in Pipe PROVE InPipe(p)' = InPipe(p)
  <2>1. Unprocessed(p + 1)' = Unprocessed(p + 1)
    BY DEF Unprocessed
  <2>2. Ready(p)' = Ready(p)
    BY DEF Ready
  <2> QED BY <2>1, <2>2, SamePlaces
<1> QED BY <1>1, UnseenStep DEF SinkHolds

\* The full buffer that is pushed takes its item along.
LEMMA StreamPush ==
  ASSUME OwnInv, OwnInv', SinkHolds, NEW w \in Worker, PushBuffer(w)
  PROVE  StreamStep /\ SinkHolds'
<1> USE DEF Goto, context, flags, pipes, main, waiting, stream
<1>i. /\ TypeOK /\ w \in Pipe /\ output[w] \in Buffer /\ output[w] # NULL /\ readyPush[w]
      /\ fifo[w] \in Seq(Buffer) /\ pc[w] = "push" /\ item[w][output[w]] \in Nat
  BY PipesOfWorker, PipeFacts, NullAssumption, Places
     DEF OwnInv, TokenInv, Inv, WorkerCtl, Ctl, PushBuffer, TypeOK
<1>1. UNCHANGED <<context, item, stream, mpc>>
  BY DEF PushBuffer
<1>2. CASE fifo' = fifo /\ pc' = [pc EXCEPT ![w] = "idle"]
  <2>1. \A p \in Pipe : pc'[p] = "post" <=> pc[p] = "post"
    BY <1>i, <1>2 DEF TypeOK
  <2> QED BY <1>1, <1>2, <2>1, ControlStep
<1>3. CASE /\ fifo' = [fifo EXCEPT ![w] = Append(@, output[w])]
           /\ pc' = [pc EXCEPT ![w] = "post"]
  <2>1. ASSUME NEW p \in Pipe PROVE Unprocessed(p + 1)' = Unprocessed(p + 1)
    BY <1>1 DEF Unprocessed
  <2>2. ASSUME NEW p \in Pipe, p # w PROVE InPipe(p)' = InPipe(p)
    <3>1. fifo'[p] = fifo[p] /\ pc'[p] = pc[p]
      BY <1>i, <1>3, <2>2, PipeFacts DEF OwnInv, TokenInv, TypeOK
    <3>2. Ready(p)' = Ready(p)
      BY <1>1, <3>1 DEF Ready
    <3> QED BY <1>1, <2>1, <3>1, <3>2, SamePlaces
  <2>3. InPipe(w)' = InPipe(w)
    <3> DEFINE n == item[w][output[w]]
    <3>1. Ready(w) = <<n>> /\ Ready(w)' = <<>>
      BY <1>i, <1>1, <1>3 DEF Ready, TypeOK
    <3>2. Items(w)' = Append(Items(w), n)
      <4>1. fifo'[w] = Append(fifo[w], output[w]) /\ item' = item
        BY <1>i, <1>1, <1>3 DEF TypeOK
      <4>2. fifo[w] \in Seq(Buffer) /\ item[w] \in [Buffer -> Nat] /\ output[w] \in Buffer
        BY <1>i DEF TypeOK
      <4> QED BY <4>1, <4>2, MappedEnds DEF Items
    <3>3. /\ InPipe(w) = (Unprocessed(w + 1) \o Items(w)) \o <<n>>
          /\ InPipe(w)' = (Unprocessed(w + 1) \o Append(Items(w), n)) \o <<>>
          /\ Unprocessed(w + 1) \in Seq(Nat) /\ Items(w) \in Seq(Nat) /\ n \in Nat
      <4>1. InPipe(w) = (Unprocessed(w + 1) \o Items(w)) \o Ready(w)
        BY <1>i, StreamTypes
      <4>2. InPipe(w)' = (Unprocessed(w + 1)' \o Items(w)') \o Ready(w)'
        BY DEF InPipe, Items, Mapped
      <4> QED BY <1>i, <2>1, <3>1, <3>2, <4>1, <4>2, StreamTypes
    <3> HIDE DEF n
    <3>4. ASSUME NEW u \in Seq(Nat), NEW s \in Seq(Nat), NEW x \in Nat
          PROVE  (u \o Append(s, x)) \o <<>> = (u \o s) \o <<x>>
      <4>1. Append(s, x) = s \o <<x>> /\ Append(s, x) \in Seq(Nat) /\ <<x>> \in Seq(Nat)
        OBVIOUS
      <4>2. (u \o s) \o <<x>> = u \o (s \o <<x>>)
        BY <4>1, Associative
      <4>3. (u \o Append(s, x)) \o <<>> = u \o Append(s, x)
        BY <4>1, ConcatProperties, ConcatEmptySeq
      <4> QED BY <4>1, <4>2, <4>3
    <3> QED BY <3>3, <3>4
  <2>4. \A p \in Pipe : InPipe(p)' = InPipe(p)
    BY <2>2, <2>3
  <2> QED BY <1>1, <2>4, UnseenStep DEF SinkHolds
<1> QED BY <1>2, <1>3 DEF PushBuffer

\* The producer forgets a buffer it has pushed, or gets an empty one.
LEMMA StreamOutput ==
  ASSUME OwnInv, OwnInv', SinkHolds, NEW w \in Worker, Post(w) \/ GetEmptyBuffer(w)
  PROVE  StreamStep /\ SinkHolds'
<1> USE DEF Goto, context, flags, pipes, main, waiting, stream
<1>i. TypeOK /\ Ctl(w) /\ (w # Sink => w \in Pipe)
  BY PipesOfWorker DEF OwnInv, TokenInv, Inv, WorkerCtl
<1>1. /\ UNCHANGED <<input, readyPull, fifo, item, stream, mpc>>
      /\ w \in Pipe
  BY <1>i DEF Post, GetEmptyBuffer, Ctl
<1>2. /\ Ready(w) = <<>> /\ Ready(w)' = <<>>
      /\ \A p \in Pipe : p # w => /\ output'[p] = output[p] /\ readyPush'[p] = readyPush[p]
                                  /\ pc'[p] = pc[p]
  <2>0. \A p \in Pipe : p \in Worker
    BY PipeFacts DEF OwnInv, TokenInv
  <2>1. CASE Post(w)
    BY <1>i, <2>0, <2>1 DEF Post, Ready, TypeOK
  <2>2. CASE GetEmptyBuffer(w)
    BY <1>i, <2>0, <2>2 DEF GetEmptyBuffer, Ready, TypeOK, Ctl
  <2> QED BY <2>1, <2>2
<1>3. ASSUME NEW p \in Pipe PROVE InPipe(p)' = InPipe(p)
  <2>1. Unprocessed(p + 1)' = Unprocessed(p + 1)
    BY <1>1 DEF Unprocessed
  <2>2. Ready(p)' = Ready(p)
    BY <1>1, <1>2 DEF Ready
  <2> QED BY <1>1, <2>1, <2>2, SamePlaces
<1> QED BY <1>1, <1>3, UnseenStep DEF SinkHolds

\* What the consumer of pipe p holds stays the same.
LEMMA SameInput ==
  ASSUME OwnInv, NEW p \in Pipe,
         input'[p + 1] = input[p + 1], readyPull'[p + 1] = readyPull[p + 1],
         input[p + 1] # NULL => item'[p][input[p + 1]] = item[p][input[p + 1]],
         p + 1 = Sink => consumed' = consumed
  PROVE  Unprocessed(p + 1)' = Unprocessed(p + 1)
<1>1. (p + 1) - 1 = p
  BY PipeFacts DEF OwnInv, TokenInv
<1> QED BY <1>1 DEF Unprocessed

LEMMA PartsPrimed ==
  ASSUME NEW p \in Pipe
  PROVE  InPipe(p)' = (Unprocessed(p + 1)' \o Items(p)') \o Ready(p)'
BY DEF InPipe, Items, Mapped

\* Full buffers keep their items when another buffer is written.
LEMMA SameItems ==
  ASSUME NEW p \in Pipe, fifo'[p] = fifo[p],
         \A b \in FullSet(p) : item'[p][b] = item[p][b]
  PROVE  Items(p)' = Items(p)
<1>1. \A i \in 1..Len(fifo[p]) : item'[p][fifo'[p][i]] = item[p][fifo[p][i]]
  BY DEF FullSet
<1> QED BY <1>1 DEF Items, Mapped

LEMMA FrontOf ==
  ASSUME NEW x \in Nat, NEW s \in Seq(Nat), NEW t \in Seq(Nat)
  PROVE  /\ (<<>> \o (<<x>> \o s)) \o t = (<<x>> \o s) \o t
         /\ (<<x>> \o s) \o t = <<x>> \o ((<<>> \o s) \o t)
         /\ (<<x>> \o s) \o t # <<>> /\ ((<<x>> \o s) \o t)[1] = x
<1>1. <<x>> \in Seq(Nat) /\ <<x>> \o s \in Seq(Nat) /\ s \o t \in Seq(Nat)
      /\ Len(<<x>>) = 1 /\ <<x>>[1] = x
  BY ConcatProperties
<1>2. <<>> \o (<<x>> \o s) = <<x>> \o s /\ <<>> \o s = s
  BY <1>1, ConcatEmptySeq
<1>3. (<<x>> \o s) \o t = <<x>> \o (s \o t)
  BY <1>1, Associative
<1>4. <<x>> \o (s \o t) # <<>> /\ (<<x>> \o (s \o t))[1] = x
  <2> DEFINE u == s \o t
  <2>1. u \in Seq(Nat) /\ Len(u) \in Nat
    BY <1>1
  <2> HIDE DEF u
  <2>2. <<x>> \o u \in Seq(Nat) /\ Len(<<x>> \o u) = 1 + Len(u) /\ (<<x>> \o u)[1] = x
    BY <1>1, <2>1, ConcatProperties
  <2> QED BY <2>1, <2>2 DEF u
<1> QED BY <1>2, <1>3, <1>4

\* The oldest full buffer becomes the input of the consumer.
LEMMA StreamPop ==
  ASSUME StreamInv, OwnInv', NEW w \in Worker, GetFullBuffer(w)
  PROVE  StreamStep /\ SinkHolds'
<1> USE DEF Goto, context, flags, pipes, main, waiting, stream
<1> DEFINE q == w - 1  n == item[q][Head(fifo[q])]
<1>o. OwnInv /\ SinkHolds
  BY DEF StreamInv
<1>i. /\ TypeOK /\ q \in Pipe /\ w = q + 1 /\ q # w /\ fifo[q] \in Seq(Buffer)
      /\ pc[w] = "pull" /\ input[w] = NULL /\ readyPull[w] /\ item[q] \in [Buffer -> Nat]
      /\ \A p \in Pipe : p \in Worker /\ p + 1 \in Worker /\ (p + 1 = w <=> p = q)
  <2>1. TypeOK /\ q \in Pipe /\ pc[w] = "pull" /\ input[w] = NULL /\ readyPull[w]
    BY <1>o, PipesOfWorker DEF OwnInv, TokenInv, Inv, WorkerCtl, Ctl, GetFullBuffer
  <2>2. w = q + 1 /\ q # w
    BY DEF Worker
  <2>3. \A p \in Pipe : p \in Worker /\ p + 1 \in Worker /\ (p + 1 = w <=> p = q)
    BY <2>2, NStagesAssumption DEF Pipe, Worker
  <2> QED BY <2>1, <2>2, <2>3 DEF TypeOK
<1>1. /\ UNCHANGED <<output, readyPush, item, stream, mpc>>
      /\ \E l \in {"gate", "take", "process"} : pc' = [pc EXCEPT ![w] = l]
  BY DEF GetFullBuffer
<1>4. fifo[q] = <<>> => UNCHANGED <<input, readyPull, fifo>>
  BY DEF GetFullBuffer
<1>5. fifo[q] # <<>> => /\ input' = [input EXCEPT ![w] = Head(fifo[q])]
                        /\ readyPull' = [readyPull EXCEPT ![w] = FALSE]
                        /\ fifo' = [fifo EXCEPT ![q] = Tail(@)]
  BY DEF GetFullBuffer
<1>6. \A p \in Pipe : pc'[p] = "post" <=> pc[p] = "post"
  BY <1>1, <1>i DEF TypeOK
<1>7. ASSUME NEW p \in Pipe PROVE Ready(p)' = Ready(p)
  BY <1>1, <1>6 DEF Ready
<1> HIDE DEF q
<1>2. CASE fifo[q] = <<>>
  BY <1>o, <1>1, <1>2, <1>4, <1>6, ControlStep
<1>3. CASE fifo[q] # <<>>
  <2>1. /\ input' = [input EXCEPT ![w] = Head(fifo[q])] /\ fifo' = [fifo EXCEPT ![q] = Tail(@)]
        /\ readyPull' = [readyPull EXCEPT ![w] = FALSE]
    BY <1>3, <1>5
  <2>2. ASSUME NEW p \in Pipe, p # q PROVE InPipe(p)' = InPipe(p)
    <3>1. /\ p + 1 # w /\ fifo'[p] = fifo[p] /\ item' = item
          /\ input'[p + 1] = input[p + 1] /\ readyPull'[p + 1] = readyPull[p + 1]
      BY <1>i, <1>1, <2>1, <2>2 DEF TypeOK
    <3>2. Unprocessed(p + 1)' = Unprocessed(p + 1)
      BY <1>o, <1>1, <3>1, SameInput
    <3> QED BY <1>7, <3>1, <3>2, SamePlaces
  <2>3. /\ fifo'[q] = Tail(fifo[q]) /\ input'[w] = Head(fifo[q]) /\ ~readyPull'[w]
        /\ Head(fifo[q]) \in Buffer /\ Tail(fifo[q]) \in Seq(Buffer) /\ Head(fifo[q]) # NULL
    BY <1>i, <1>3, <2>1, NullAssumption DEF TypeOK
  <2>4. n \in Nat /\ Items(q) = <<n>> \o Items(q)' /\ Items(q)' \in Seq(Nat)
    <3>1. Items(q)' = Mapped(item[q], Tail(fifo[q]))
      BY <1>1, <2>3 DEF Items, Mapped
    <3> QED BY <1>i, <1>3, <2>3, <3>1, MappedEnds, MappedType DEF Items
  <2>5. /\ Unprocessed(w) = <<>> /\ Ready(q) \in Seq(Nat) /\ Ready(q)' = Ready(q)
        /\ InPipe(q) = (Unprocessed(w) \o Items(q)) \o Ready(q)
        /\ InPipe(q)' = (Unprocessed(w)' \o Items(q)') \o Ready(q)'
    <3>1. Unprocessed(w) = <<>>
      BY <1>i DEF Unprocessed
    <3> QED BY <1>o, <1>i, <1>7, <3>1, StreamTypes, PartsPrimed
  <2> HIDE DEF n
  <2>6. /\ InPipe(q) = (<<n>> \o Items(q)') \o Ready(q)
        /\ InPipe(q) # <<>> /\ InPipe(q)[1] = n
    BY <2>4, <2>5, FrontOf
  <2>7. w = Sink => n > consumed
    <3>0. SUFFICES ASSUME w = Sink PROVE n > consumed
      OBVIOUS
    <3>1. q = NStages /\ NStages \in Pipe /\ InFlight \in [Pipe -> Seq(Nat)]
      <4>1. q = NStages /\ NStages \in Pipe
        BY <1>i, <3>0, NStagesAssumption DEF Sink, Pipe
      <4> QED BY <1>o, <4>1, StreamTypes
    <3>2. InFlight[NStages] = InPipe(q)
      BY <3>1 DEF InFlight
    <3>3. Flight # <<>> /\ Flight[1] = n /\ Flight \in Seq(Nat)
      BY <2>6, <3>1, <3>2, FlightIsChain, ChainUnique, ChainType
    <3>4. 1 \in 1..Len(Flight)
      BY <3>3
    <3> QED BY <3>3, <3>4, <1>i, <2>4 DEF StreamInv, Rising, TypeOK
  <2>8. Unprocessed(w)' = <<n>>
    <3>1. item'[w - 1][input'[w]] = n /\ input'[w] # NULL /\ ~readyPull'[w] /\ consumed' = consumed
      BY <1>1, <2>3 DEF n, q
    <3> QED BY <2>7, <3>1 DEF Unprocessed
  <2>9. InPipe(q)' = InPipe(q)
    BY <2>5, <2>6, <2>8
  <2>10. SinkHolds'
    <3>1. CASE w = Sink
      BY <2>3, <3>1 DEF SinkHolds
    <3>2. CASE w # Sink
      <4>1. Sink \in Worker /\ input'[Sink] = input[Sink] /\ readyPull'[Sink] = readyPull[Sink]
        BY <1>i, <2>1, <3>2, PipesOfWorker DEF TypeOK
      <4> QED BY <1>o, <1>1, <4>1 DEF SinkHolds
    <3> QED BY <3>1, <3>2
  <2> QED BY <1>o, <1>1, <2>2, <2>9, <2>10, UnseenStep
<1> QED BY <1>2, <1>3

\* The source hands over a new item, or keeps its output.
LEMMA StreamSource ==
  ASSUME StreamInv, OwnInv', SourceProcess
  PROVE  StreamStep /\ SinkHolds'
<1> USE DEF Goto, context, flags, pipes, main, waiting, stream
<1> DEFINE b0 == output[0]
<1>o. OwnInv /\ SinkHolds
  BY DEF StreamInv
<1>i. /\ TypeOK /\ 0 \in Pipe /\ b0 \in Buffer /\ b0 # NULL /\ ~readyPush[0]
      /\ produced \in Nat /\ Shared(0) /\ pc[0] = "process" /\ 0 + 1 \in Worker
      /\ \A p \in Pipe : p \in Worker
  <2>1. TypeOK /\ 0 \in Pipe /\ 0 \in Worker /\ Ctl(0) /\ pc[0] = "process" /\ 0 # Sink
    BY <1>o, NStagesAssumption
       DEF OwnInv, TokenInv, Inv, WorkerCtl, SourceProcess, Source, Sink, Worker, Pipe
  <2>2. b0 \in Buffer /\ b0 # NULL /\ ~readyPush[0] /\ produced \in Nat
    BY <2>1 DEF Ctl, TypeOK
  <2> QED BY <1>o, <2>1, <2>2, PipeFacts DEF OwnInv, TokenInv
<1>1. /\ UNCHANGED <<output, input, readyPull, fifo, consumed, mpc>>
      /\ \E l \in {"gate", "finish"} : pc' = [pc EXCEPT ![0] = l]
  BY DEF SourceProcess, Source
<1>2. PICK push \in BOOLEAN :
        /\ readyPush' = [readyPush EXCEPT ![0] = push]
        /\ IF push THEN /\ produced' = produced + 1
                        /\ item' = [item EXCEPT ![0][b0] = produced + 1]
                   ELSE UNCHANGED <<produced, item>>
  BY ActsAssumption DEF SourceProcess, SourceAct, Source
<1>5. \A p \in Pipe : pc'[p] = "post" <=> pc[p] = "post"
  BY <1>1, <1>i DEF TypeOK
<1>3. CASE ~push
  <2>1. readyPush' = readyPush
    BY <1>2, <1>3, <1>i DEF TypeOK
  <2> QED BY <1>o, <1>1, <1>2, <1>3, <1>5, <2>1, ControlStep
<1>4. CASE push
  <2> DEFINE x == produced + 1
  <2>1. /\ produced' = x /\ item' = [item EXCEPT ![0][b0] = x]
        /\ readyPush' = [readyPush EXCEPT ![0] = TRUE]
    BY <1>2, <1>4
  <2>2. /\ item'[0][b0] = x /\ x \in Nat
        /\ \A b \in Buffer : b # b0 => item'[0][b] = item[0][b]
        /\ \A p \in Pipe : p # 0 => item'[p] = item[p]
        /\ readyPush'[0] /\ \A p \in Pipe : p # 0 => readyPush'[p] = readyPush[p]
    BY <1>i, <2>1 DEF TypeOK
  <2>3. /\ \A b \in FullSet(0) : item'[0][b] = item[0][b]
        /\ input[0 + 1] # NULL => item'[0][input[0 + 1]] = item[0][input[0 + 1]]
    <3>1. FullSet(0) \subseteq Buffer /\ b0 \notin FullSet(0)
      BY <1>o, <1>i, Places DEF Shared
    <3>2. input[0 + 1] # NULL => input[0 + 1] \in Buffer /\ input[0 + 1] # b0
      BY <1>i DEF Shared, TypeOK
    <3> QED BY <2>2, <3>1, <3>2
  <2> HIDE DEF x
  <2>4. ASSUME NEW p \in Pipe PROVE Unprocessed(p + 1)' = Unprocessed(p + 1)
    <3>1. input[p + 1] # NULL => item'[p][input[p + 1]] = item[p][input[p + 1]]
      BY <2>2, <2>3
    <3> QED BY <1>o, <1>1, <3>1, SameInput
  <2>5. ASSUME NEW p \in Pipe, p # 0 PROVE InPipe(p)' = InPipe(p)
    <3>1. Ready(p)' = Ready(p) /\ item'[p] = item[p]
      BY <1>1, <1>5, <2>2, <2>5 DEF Ready
    <3> QED BY <1>1, <2>4, <3>1, SamePlaces
  <2>6. InPipe(0)' = InPipe(0) \o <<x>>
    <3>1. Ready(0) = <<>> /\ Ready(0)' = <<x>>
      BY <1>i, <1>1, <1>5, <2>2 DEF Ready
    <3>2. Items(0)' = Items(0)
      BY <1>i, <1>1, <2>3, SameItems
    <3> DEFINE s == Unprocessed(0 + 1) \o Items(0)
    <3>3. s \in Seq(Nat) /\ InPipe(0) = s \o <<>> /\ InPipe(0)' = s \o <<x>>
      <4>1. Unprocessed(0 + 1) \in Seq(Nat) /\ Items(0) \in Seq(Nat)
            /\ InPipe(0) = (Unprocessed(0 + 1) \o Items(0)) \o Ready(0)
        BY <1>o, <1>i, StreamTypes
      <4>2. InPipe(0)' = (Unprocessed(0 + 1)' \o Items(0)') \o Ready(0)'
        BY <1>i, PartsPrimed
      <4> QED BY <1>i, <2>4, <3>1, <3>2, <4>1, <4>2, ConcatProperties
    <3> HIDE DEF s
    <3> QED BY <3>3, ConcatEmptySeq
  <2>7. Flight' = Append(Flight, x)
    <3> DEFINE e == InFlight  f == InFlight'
    <3>1. e \in [Pipe -> Seq(Nat)] /\ f \in [Pipe -> Seq(Nat)] /\ <<x>> \in Seq(Nat)
      BY <1>o, <2>2, TwoFlights
    <3>2. f[0] = e[0] \o <<x>> /\ \A p \in Pipe : p # 0 => f[p] = e[p]
      BY <1>o, <1>i, <2>5, <2>6, TwoFlights
    <3>3. Flight = Chain(e)[NStages] /\ Flight' = Chain(f)[NStages] /\ Flight \in Seq(Nat)
      BY <1>o, TwoFlights
    <3> HIDE DEF e, f
    <3>4. Chain(f)[NStages] = Chain(e)[NStages] \o <<x>>
      BY <3>1, <3>2, ChainAppend
    <3> QED BY <2>2, <3>3, <3>4
  <2>8. Channel!Produce
    BY <1>1, <2>1, <2>7 DEF Channel!Produce, x
  <2>9. SinkHolds'
    <3>1. NStages \in Pipe /\ Sink = NStages + 1
      BY NStagesAssumption DEF Pipe, Sink
    <3>2. input[Sink] # NULL => item'[NStages][input[Sink]] = item[NStages][input[Sink]]
      BY <2>2, <2>3, <3>1
    <3> QED BY <1>o, <1>1, <3>2 DEF SinkHolds
  <2> QED BY <2>8, <2>9 DEF StreamStep, Channel!Next
<1> QED BY <1>2, <1>3, <1>4

\* A stage hands its item on and gives its input back, or keeps both.
LEMMA StreamStage ==
  ASSUME \A act \in StageActs : act.push = act.pull,
         StreamInv, OwnInv', NEW w \in Worker, StageProcess(w)
  PROVE  StreamStep /\ SinkHolds'
<1> USE DEF Goto, context, flags, pipes, main, waiting, stream
<1> DEFINE q == w - 1  in == input[w]  out == output[w]  n == item[q][in]
<1>o. OwnInv /\ SinkHolds
  BY DEF StreamInv
<1>n. /\ w \in Pipe /\ q \in Pipe /\ w = q + 1 /\ q # w /\ w # 0 /\ w # Sink /\ w \in Stage
      /\ \A p \in Pipe : (p + 1 = w <=> p = q)
      /\ NStages \in Pipe /\ NStages # q /\ Sink = NStages + 1
  BY NStagesAssumption DEF StageProcess, Stage, Pipe, Sink
<1>i. /\ TypeOK /\ pc[w] = "process" /\ in \in Buffer /\ in # NULL /\ out \in Buffer /\ out # NULL
      /\ ~readyPush[w] /\ ~readyPull[w] /\ Shared(w) /\ Shared(q)
      /\ item[w] \in [Buffer -> Nat] /\ item[q] \in [Buffer -> Nat] /\ n \in Nat
      /\ \A p \in Pipe : p \in Worker /\ p + 1 \in Worker
  <2>1. TypeOK /\ Ctl(w) /\ pc[w] = "process" /\ Shared(w) /\ Shared(q)
    BY <1>o, <1>n DEF OwnInv, TokenInv, Inv, WorkerCtl, StageProcess
  <2>2. in \in Buffer /\ in # NULL /\ out \in Buffer /\ out # NULL
        /\ ~readyPush[w] /\ ~readyPull[w]
    BY <1>n, <2>1 DEF Ctl, TypeOK, Source
  <2>3. item[w] \in [Buffer -> Nat] /\ item[q] \in [Buffer -> Nat]
    BY <1>n, <2>1 DEF TypeOK
  <2>4. \A p \in Pipe : p \in Worker /\ p + 1 \in Worker
    BY <1>o, PipeFacts DEF OwnInv, TokenInv
  <2>5. n \in Nat
    BY <2>2, <2>3
  <2> QED BY <2>1, <2>2, <2>3, <2>4, <2>5
<1>1. /\ UNCHANGED <<output, fifo, stream, mpc>>
      /\ pc' = [pc EXCEPT ![w] = "gate"]
  BY DEF StageProcess
<1>2. PICK go \in BOOLEAN :
        /\ readyPush' = [readyPush EXCEPT ![w] = go]
        /\ readyPull' = [readyPull EXCEPT ![w] = go]
        /\ item' = [item EXCEPT ![w][out] = IF go THEN n ELSE @,
                                ![q][in]  = IF go THEN 0 ELSE @]
        /\ input' = IF go THEN [input EXCEPT ![w] = NULL] ELSE input
  <2>1. PICK act \in StageActs :
          /\ readyPush' = [readyPush EXCEPT ![w] = act.push]
          /\ readyPull' = [readyPull EXCEPT ![w] = act.pull]
          /\ item' = [item EXCEPT ![w][out] = IF act.push THEN n ELSE @,
                                  ![q][in]  = IF act.pull THEN 0 ELSE @]
          /\ input' = IF act.pull THEN [input EXCEPT ![w] = NULL] ELSE input
    BY <1>i DEF StageProcess
  <2>2. act.push \in BOOLEAN /\ act.pull = act.push
    BY ActsAssumption DEF StageAct
  <2> QED BY <2>1, <2>2
<1>3. \A p \in Pipe : pc'[p] = "post" <=> pc[p] = "post"
  BY <1>1, <1>i DEF TypeOK
<1>4. CASE ~go
  <2>1. readyPush' = readyPush /\ readyPull' = readyPull /\ input' = input
    BY <1>2, <1>4, <1>i DEF TypeOK
  <2>2. item' = item
    BY <1>2, <1>4, <1>i, <1>n DEF TypeOK
  <2> QED BY <1>o, <1>1, <1>3, <2>1, <2>2, ControlStep
<1>5. CASE go
  <2>1. /\ readyPush' = [readyPush EXCEPT ![w] = TRUE]
        /\ readyPull' = [readyPull EXCEPT ![w] = TRUE]
        /\ input' = [input EXCEPT ![w] = NULL]
        /\ item' = [item EXCEPT ![w][out] = n, ![q][in] = 0]
    BY <1>2, <1>5, <1>i, <1>n DEF TypeOK
  <2>2. /\ item'[w][out] = n /\ \A b \in Buffer : b # out => item'[w][b] = item[w][b]
        /\ \A b \in Buffer : b # in => item'[q][b] = item[q][b]
        /\ \A p \in Pipe : p # w /\ p # q => item'[p] = item[p]
        /\ readyPush'[w] /\ \A p \in Pipe : p # w => readyPush'[p] = readyPush[p]
        /\ input'[w] = NULL
        /\ \A v \in Worker : v # w => input'[v] = input[v] /\ readyPull'[v] = readyPull[v]
    BY <1>i, <1>n, <2>1 DEF TypeOK
  <2> HIDE DEF n, q, in, out
  <2>3. /\ \A p \in Pipe : \A b \in FullSet(p) : item'[p][b] = item[p][b]
        /\ input[w + 1] # NULL => item'[w][input[w + 1]] = item[w][input[w + 1]]
        /\ output[q] # NULL => item'[q][output[q]] = item[q][output[q]]
    <3>1. FullSet(w) \subseteq Buffer /\ out \notin FullSet(w) /\ FullSet(q) \subseteq Buffer
          /\ in \notin FullSet(q)
      BY <1>o, <1>i, <1>n, Places DEF Shared, in, out
    <3>2. input[w + 1] # NULL => input[w + 1] \in Buffer /\ input[w + 1] # out
      BY <1>i, <1>n DEF Shared, TypeOK, out
    <3>3. output[q] # NULL => output[q] \in Buffer /\ output[q] # in
      BY <1>i, <1>n DEF Shared, TypeOK, in
    <3> QED BY <2>2, <3>1, <3>2, <3>3
  <2>4. \A p \in Pipe : Items(p)' = Items(p)
    BY <1>1, <2>3, SameItems
  <2>5. ASSUME NEW p \in Pipe, p # q PROVE Unprocessed(p + 1)' = Unprocessed(p + 1)
    <3>1. p + 1 # w /\ p + 1 \in Worker
      BY <1>i, <1>n, <2>5
    <3>2. input[p + 1] # NULL => item'[p][input[p + 1]] = item[p][input[p + 1]]
      BY <2>2, <2>3, <2>5
    <3> QED BY <1>o, <1>1, <2>2, <3>1, <3>2, SameInput
  <2>6. ASSUME NEW p \in Pipe, p # w PROVE Ready(p)' = Ready(p)
    <3>1. output[p] # NULL => item'[p][output[p]] = item[p][output[p]]
      BY <2>2, <2>3, <2>6
    <3> QED BY <1>1, <1>3, <2>2, <2>6, <3>1 DEF Ready
  <2>7. \A p \in Pipe : p # w /\ p # q => InPipe(p)' = InPipe(p)
    BY <1>1, <2>3, <2>5, <2>6, SamePlaces
  <2>8. InPipe(w)' = InPipe(w) \o <<n>>
    <3>1. Ready(w) = <<>> /\ Ready(w)' = <<n>>
      BY <1>i, <1>1, <1>3, <1>n, <2>2 DEF Ready, out
    <3> DEFINE s == Unprocessed(w + 1) \o Items(w)
    <3>2. s \in Seq(Nat) /\ InPipe(w) = s \o <<>> /\ InPipe(w)' = s \o <<n>>
      <4>1. /\ Unprocessed(w + 1) \in Seq(Nat) /\ Items(w) \in Seq(Nat)
            /\ InPipe(w) = (Unprocessed(w + 1) \o Items(w)) \o Ready(w)
        BY <1>o, <1>n, StreamTypes
      <4>2. InPipe(w)' = (Unprocessed(w + 1)' \o Items(w)') \o Ready(w)'
        BY <1>n, PartsPrimed
      <4>3. Unprocessed(w + 1)' = Unprocessed(w + 1)
        BY <1>n, <2>5
      <4> QED BY <1>n, <2>4, <3>1, <4>1, <4>2, <4>3, ConcatProperties
    <3> HIDE DEF s
    <3> QED BY <3>2, ConcatEmptySeq
  <2>9. InPipe(q) = <<n>> \o InPipe(q)'
    <3>1. Unprocessed(w) = <<n>> /\ Unprocessed(w)' = <<>>
      BY <1>i, <1>n, <2>2 DEF Unprocessed, n, in, q
    <3>2. /\ Items(q) \in Seq(Nat) /\ Ready(q) \in Seq(Nat)
          /\ InPipe(q) = (Unprocessed(w) \o Items(q)) \o Ready(q)
          /\ InPipe(q)' = (Unprocessed(w)' \o Items(q)') \o Ready(q)'
      BY <1>o, <1>n, StreamTypes, PartsPrimed
    <3>3. Items(q)' = Items(q) /\ Ready(q)' = Ready(q) /\ n \in Nat
      BY <1>i, <1>n, <2>4, <2>6
    <3> QED BY <3>1, <3>2, <3>3, FrontOf
  <2>10. Flight' = Flight
    <3> DEFINE e == InFlight  f == InFlight'
    <3>1. /\ e \in [Pipe -> Seq(Nat)] /\ f \in [Pipe -> Seq(Nat)]
          /\ Flight = Chain(e)[NStages] /\ Flight' = Chain(f)[NStages]
      BY <1>o, TwoFlights
    <3>2. /\ f[w] = e[w] \o <<n>> /\ e[q] = <<n>> \o f[q]
          /\ \A p \in Pipe : p # w /\ p # q => f[p] = e[p]
      BY <1>o, <1>n, <2>7, <2>8, <2>9, TwoFlights
    <3>3. e[w] \in Seq(Nat) /\ f[q] \in Seq(Nat) /\ <<n>> \in Seq(Nat)
      BY <1>n, <1>i, <3>1
    <3> HIDE DEF e, f
    <3>4. f[w] \o f[q] = e[w] \o e[q]
      <4>1. (e[w] \o <<n>>) \o f[q] = e[w] \o (<<n>> \o f[q])
        BY <3>3, Associative
      <4> QED BY <3>2, <4>1
    <3>5. f[w] \o f[w - 1] = e[w] \o e[w - 1] /\ \A p \in Pipe : p # w /\ p # w - 1 => f[p] = e[p]
      BY <3>2, <3>4 DEF q
    <3>6. Chain(f)[NStages] = Chain(e)[NStages]
      BY <1>n, <3>1, <3>5, ChainMove
    <3> QED BY <3>1, <3>6
  <2>11. SinkHolds'
    <3>1. /\ Sink \in Worker /\ readyPull'[Sink] = readyPull[Sink] /\ input'[Sink] = input[Sink]
      BY <1>n, <2>2, PipesOfWorker
    <3>2. input[Sink] # NULL => item'[NStages][input[Sink]] = item[NStages][input[Sink]]
      BY <1>n, <2>2, <2>3
    <3> QED BY <1>o, <1>1, <3>1, <3>2 DEF SinkHolds
  <2> QED BY <1>1, <2>10, <2>11 DEF StreamStep, Channel!vars
<1> QED BY <1>4, <1>5

\* The sink is called with the first item in flight, or once more with the
\* one it has kept.
LEMMA StreamSink ==
  ASSUME StreamInv, OwnInv', SinkProcess
  PROVE  StreamStep /\ SinkHolds'
<1> USE DEF Goto, context, flags, pipes, main, waiting, stream
<1> DEFINE in == input[Sink]  n == item[NStages][in]
<1>o. OwnInv /\ SinkHolds
  BY DEF StreamInv
<1>n. /\ NStages \in Pipe /\ Sink = NStages + 1 /\ Sink \in Worker /\ Sink # Source
      /\ Sink - 1 = NStages /\ Sink \notin Stage
      /\ \A p \in Pipe : p # Sink /\ (p # NStages => p + 1 # Sink)
  BY NStagesAssumption DEF Pipe, Sink, Worker, Source, Stage
<1>i. /\ TypeOK /\ in # NULL /\ n \in Nat /\ consumed \in Nat /\ consumed <= n
      /\ \A p \in Pipe : p \in Worker
  <2>1. TypeOK /\ Ctl(Sink) /\ pc[Sink] = "process"
    BY <1>o, <1>n DEF OwnInv, TokenInv, Inv, WorkerCtl, SinkProcess
  <2>2. in # NULL /\ in \in Buffer
    BY <1>n, <2>1 DEF Ctl, TypeOK
  <2>3. n \in Nat /\ consumed \in Nat
    BY <1>n, <2>1, <2>2 DEF TypeOK
  <2>4. in \in Carrying(NStages)
    BY <1>n, <2>2 DEF Carrying, Taken
  <2>5. consumed <= n
    BY <1>n, <2>4 DEF StreamInv, Ordered, Bounded
  <2> QED BY <1>o, <2>1, <2>2, <2>3, <2>5, PipeFacts DEF OwnInv, TokenInv
<1>1. /\ UNCHANGED <<output, input, readyPush, fifo, item, produced, mpc>>
      /\ consumed' = n /\ pc' = [pc EXCEPT ![Sink] = "gate"]
      /\ \E ready \in SinkActs : readyPull' = [readyPull EXCEPT ![Sink] = ready]
  BY <1>i DEF SinkProcess
<1>2. ASSUME NEW p \in Pipe PROVE Ready(p)' = Ready(p)
  <2>1. pc'[p] = pc[p]
    BY <1>1, <1>i, <1>n DEF TypeOK
  <2> QED BY <1>1, <2>1 DEF Ready
<1> HIDE DEF in, n
<1>3. ASSUME NEW p \in Pipe, p # NStages PROVE InPipe(p)' = InPipe(p)
  <2>1. p + 1 \in Worker /\ p + 1 # Sink
    BY <1>n, <1>o, <1>3, PipeFacts DEF OwnInv, TokenInv
  <2>2. readyPull'[p + 1] = readyPull[p + 1]
    BY <1>1, <1>i, <2>1 DEF TypeOK
  <2>3. Unprocessed(p + 1)' = Unprocessed(p + 1)
    BY <1>o, <1>1, <2>1, <2>2, SameInput
  <2> QED BY <1>1, <1>2, <2>3, SamePlaces
<1>4. Unprocessed(Sink)' = <<>>
  <2>1. ~(item'[Sink - 1][input'[Sink]] > consumed')
    BY <1>1, <1>n, <1>i DEF in, n
  <2> QED BY <2>1 DEF Unprocessed
<1>5. SinkHolds'
  BY <1>1 DEF SinkHolds, in, n
<1>6. CASE n = consumed
  <2>1. Unprocessed(Sink) = <<>>
    <3>1. ~(item[Sink - 1][input[Sink]] > consumed)
      BY <1>6, <1>n, <1>i DEF in, n
    <3> QED BY <3>1 DEF Unprocessed
  <2>2. InPipe(NStages)' = InPipe(NStages)
    BY <1>1, <1>2, <1>4, <1>n, <2>1, SamePlaces
  <2>3. \A p \in Pipe : InPipe(p)' = InPipe(p)
    BY <1>3, <2>2
  <2> QED BY <1>o, <1>1, <1>5, <1>6, <2>3, UnseenStep
<1>7. CASE n > consumed
  <2>1. Unprocessed(Sink) = <<n>>
    <3>1. item[Sink - 1][input[Sink]] = n /\ input[Sink] # NULL
      BY <1>n, <1>i DEF in, n
    <3> QED BY <1>7, <1>n, <3>1 DEF Unprocessed
  <2>2. InPipe(NStages) = <<n>> \o InPipe(NStages)'
    <3>1. /\ Items(NStages) \in Seq(Nat) /\ Ready(NStages) \in Seq(Nat)
          /\ InPipe(NStages) = (Unprocessed(Sink) \o Items(NStages)) \o Ready(NStages)
          /\ InPipe(NStages)' = (Unprocessed(Sink)' \o Items(NStages)') \o Ready(NStages)'
      BY <1>o, <1>n, StreamTypes, PartsPrimed
    <3>2. Items(NStages)' = Items(NStages) /\ Ready(NStages)' = Ready(NStages)
      BY <1>1, <1>2, <1>n, SameItems
    <3> DEFINE s == Items(NStages)  u == Ready(NStages)
    <3>3. (<<n>> \o s) \o u = <<n>> \o ((<<>> \o s) \o u)
      BY <1>i, <3>1, FrontOf
    <3>4. InPipe(NStages) = (<<n>> \o s) \o u /\ InPipe(NStages)' = (<<>> \o s) \o u
      BY <1>4, <2>1, <3>1, <3>2
    <3> QED BY <3>3, <3>4
  <2>3. Flight = <<n>> \o Flight' /\ Flight' \in Seq(Nat)
    <3> DEFINE e == InFlight  f == InFlight'
    <3>1. /\ e \in [Pipe -> Seq(Nat)] /\ f \in [Pipe -> Seq(Nat)] /\ <<n>> \in Seq(Nat)
          /\ Flight = Chain(e)[NStages] /\ Flight' = Chain(f)[NStages] /\ Flight' \in Seq(Nat)
      BY <1>o, <1>i, TwoFlights
    <3>2. e[NStages] = <<n>> \o f[NStages] /\ \A p \in Pipe : p # NStages => f[p] = e[p]
      BY <1>o, <1>n, <1>3, <2>2, TwoFlights
    <3> HIDE DEF e, f
    <3>3. Chain(e)[NStages] = <<n>> \o Chain(f)[NStages]
      BY <3>1, <3>2, ChainHead
    <3> QED BY <3>1, <3>3
  <2>4. Flight # <<>> /\ Head(Flight) = n /\ Tail(Flight) = Flight'
    <3> DEFINE g == Flight'  h == <<n>> \o g
    <3>1. g \in Seq(Nat) /\ <<n>> \in Seq(Nat) /\ Len(<<n>>) = 1
      BY <1>i, <2>3
    <3> HIDE DEF g
    <3>2. /\ h \in Seq(Nat) /\ Len(h) = 1 + Len(g) /\ Len(g) \in Nat /\ h[1] = n
          /\ \A i \in 1..Len(g) : h[i + 1] = g[i]
      BY <3>1, ConcatProperties
    <3> HIDE DEF h
    <3>3. h # <<>> /\ Head(h) = n
      BY <3>2
    <3>4. Tail(h) \in Seq(Nat) /\ Len(Tail(h)) = Len(g) /\ \A i \in 1..Len(g) : Tail(h)[i] = g[i]
      BY <3>2, <3>3, HeadTailProperties
    <3>5. Tail(h) = g
      BY <3>1, <3>4, SeqEqual
    <3> QED BY <2>3, <3>3, <3>5 DEF g, h
  <2>5. Channel!Deliver
    BY <1>1, <2>4 DEF Channel!Deliver
  <2> QED BY <1>5, <2>5 DEF StreamStep, Channel!Next
<1> QED BY <1>6, <1>7, <1>i

\* What the sink returns to the pool it has seen.
LEMMA StreamReturn ==
  ASSUME StreamInv, OwnInv', SinkReturn
  PROVE  StreamStep /\ SinkHolds'
<1> USE DEF Goto, context, flags, pipes, main, waiting, stream
<1> DEFINE in == input[Sink]
<1>o. OwnInv /\ SinkHolds
  BY DEF StreamInv
<1>n. /\ NStages \in Pipe /\ Sink = NStages + 1 /\ Sink \in Worker /\ Sink - 1 = NStages
      /\ \A p \in Pipe : p # Sink /\ (p # NStages => p + 1 # Sink)
  BY NStagesAssumption DEF Pipe, Sink, Worker
<1>i. /\ TypeOK /\ in # NULL /\ in \in Buffer /\ readyPull[Sink] /\ consumed \in Nat
      /\ item[NStages][in] = consumed /\ Shared(NStages) /\ \A p \in Pipe : p \in Worker
  <2>1. TypeOK /\ Ctl(Sink) /\ pc[Sink] = "return"
    BY <1>o, <1>n DEF OwnInv, TokenInv, Inv, WorkerCtl, SinkReturn
  <2>2. in # NULL /\ in \in Buffer /\ readyPull[Sink] /\ consumed \in Nat
    BY <1>n, <2>1 DEF Ctl, TypeOK
  <2> QED BY <1>o, <1>n, <2>1, <2>2, PipeFacts DEF OwnInv, TokenInv, SinkHolds
<1>1. /\ UNCHANGED <<output, readyPush, readyPull, fifo, stream, mpc>>
      /\ input' = [input EXCEPT ![Sink] = NULL]
      /\ item' = [item EXCEPT ![NStages][in] = 0]
      /\ pc' = [pc EXCEPT ![Sink] = "acquire"]
  BY DEF SinkReturn
<1>2. /\ \A b \in Buffer : b # in => item'[NStages][b] = item[NStages][b]
      /\ \A p \in Pipe : p # NStages => item'[p] = item[p]
      /\ \A v \in Worker : v # Sink => input'[v] = input[v]
      /\ input'[Sink] = NULL
  BY <1>i, <1>n, <1>1 DEF TypeOK
<1>3. /\ \A b \in FullSet(NStages) : item'[NStages][b] = item[NStages][b]
      /\ output[NStages] # NULL => item'[NStages][output[NStages]] = item[NStages][output[NStages]]
  <2>1. FullSet(NStages) \subseteq Buffer /\ in \notin FullSet(NStages)
    BY <1>o, <1>i, <1>n, Places DEF Shared
  <2>2. output[NStages] # NULL => output[NStages] \in Buffer /\ output[NStages] # in
    BY <1>i, <1>n DEF Shared, TypeOK
  <2> QED BY <1>2, <2>1, <2>2
<1>4. ASSUME NEW p \in Pipe PROVE Ready(p)' = Ready(p)
  <2>1. pc'[p] = pc[p]
    BY <1>1, <1>i, <1>n DEF TypeOK
  <2>2. output[p] # NULL => item'[p][output[p]] = item[p][output[p]]
    BY <1>2, <1>3
  <2> QED BY <1>1, <2>1, <2>2 DEF Ready
<1>5. ASSUME NEW p \in Pipe PROVE Unprocessed(p + 1)' = Unprocessed(p + 1)
  <2>1. CASE p = NStages
    <3>1. ~(item[Sink - 1][input[Sink]] > consumed)
      BY <1>i, <1>n
    <3>2. Unprocessed(Sink) = <<>> /\ Unprocessed(Sink)' = <<>>
      BY <1>2, <3>1 DEF Unprocessed
    <3> QED BY <1>n, <2>1, <3>2
  <2>2. CASE p # NStages
    <3>1. p + 1 \in Worker /\ p + 1 # Sink
      BY <1>n, <1>o, <2>2, PipeFacts DEF OwnInv, TokenInv
    <3>2. input'[p + 1] = input[p + 1] /\ item'[p] = item[p]
      BY <1>2, <2>2, <3>1
    <3> QED BY <1>o, <1>1, <3>1, <3>2, SameInput
  <2> QED BY <2>1, <2>2
<1>6. \A p \in Pipe : InPipe(p)' = InPipe(p)
  BY <1>1, <1>2, <1>3, <1>4, <1>5, SamePlaces
<1>7. SinkHolds'
  BY <1>2 DEF SinkHolds
<1> QED BY <1>o, <1>1, <1>6, <1>7, UnseenStep

LEMMA StreamWorker ==
  ASSUME \A act \in StageActs : act.push = act.pull,
         StreamInv, OwnInv', NEW w \in Worker, WorkerStep(w)
  PROVE  StreamStep /\ SinkHolds'
<1> USE DEF Goto, context, flags, pipes, main, waiting, stream
<1>o. OwnInv /\ SinkHolds
  BY DEF StreamInv
<1>1. CASE \/ Gate(w) \/ SetDone(w) \/ TryAcquire(w) \/ UnsetDone(w)
           \/ w = Source /\ SourceFinished
  <2>1. UNCHANGED <<context, fifo, item, stream, mpc>>
    BY <1>1 DEF Gate, SetDone, TryAcquire, UnsetDone, SourceFinished
  <2>2. /\ pc[w] # "post" /\ pc \in [Worker -> WorkerPc]
        /\ \E l \in WorkerPc \ {"post"} : pc' = [pc EXCEPT ![w] = l]
    <3>1. pc \in [Worker -> WorkerPc]
      BY <1>o DEF OwnInv, TokenInv, Inv, TypeOK
    <3>2. Entry(w) \in WorkerPc \ {"post"}
      BY ContinueType DEF WorkerPc
    <3> QED BY <1>1, <3>1, <3>2
            DEF Gate, SetDone, TryAcquire, UnsetDone, SourceFinished, WorkerPc
  <2>3. \A p \in Pipe : pc'[p] = "post" <=> pc[p] = "post"
    <3>1. \A p \in Pipe : p \in Worker
      BY <1>o, PipeFacts DEF OwnInv, TokenInv
    <3> QED BY <2>2, <3>1
  <2> QED BY <1>o, <2>1, <2>3, ControlStep
<1> QED BY <1>o, <1>1, StreamPush, StreamOutput, StreamPop, StreamSource, StreamStage, StreamSink,
           StreamReturn DEF WorkerStep

\* The controlling thread closes the stream and, once the threads are gone,
\* discards what is in flight.
LEMMA StreamMain ==
  ASSUME StreamInv, OwnInv', MainCall \/ MainStep
  PROVE  StreamStep /\ SinkHolds'
<1> USE DEF Goto, context, flags, pipes, main, waiting, stream
<1>o. OwnInv /\ SinkHolds /\ TypeOK /\ MainCtl /\ WorkerCtl
  BY DEF StreamInv, OwnInv, TokenInv, Inv
<1>p. \A p \in Pipe : p \in Worker /\ p + 1 \in Worker
  BY <1>o, PipeFacts DEF OwnInv, TokenInv
<1>1. CASE CreateThread
  <2>1. /\ UNCHANGED <<fifo, item, stream, mpc>> /\ mi \in Worker /\ pc[mi] = "none"
        /\ input[mi] = NULL /\ output[mi] = NULL
    <3>1. /\ UNCHANGED <<fifo, item, stream, mpc>> /\ mi \in Worker /\ mpc = "enable"
      BY <1>1 DEF CreateThread
    <3>2. pc[mi] = "none"
      BY <1>o, <3>1 DEF MainCtl, Worker
    <3> QED BY <1>o, <3>1, <3>2 DEF WorkerCtl, Ctl
  <2>2. /\ input'[mi] = NULL /\ output'[mi] = NULL
        /\ \A v \in Worker : v # mi => /\ input'[v] = input[v] /\ output'[v] = output[v]
                                       /\ readyPush'[v] = readyPush[v] /\ pc'[v] = pc[v]
                                       /\ readyPull'[v] = readyPull[v]
    BY <1>1, <1>o, <2>1 DEF CreateThread, TypeOK
  <2>3. ASSUME NEW p \in Pipe PROVE InPipe(p)' = InPipe(p)
    <3>1. Unprocessed(p + 1)' = Unprocessed(p + 1)
      BY <1>o, <1>p, <2>1, <2>2, SameInput DEF Unprocessed
    <3>2. Ready(p)' = Ready(p)
      BY <1>p, <2>1, <2>2 DEF Ready
    <3> QED BY <2>1, <3>1, <3>2, SamePlaces
  <2>4. SinkHolds'
    <3>1. Sink \in Worker
      BY <2>1, PipesOfWorker
    <3> QED BY <1>o, <2>1, <2>2, <3>1 DEF SinkHolds
  <2> QED BY <1>o, <2>1, <2>3, <2>4, UnseenStep
<1>2. CASE JoinAndClear
  <2>1. /\ mpc = "join" /\ mpc' = "refix" /\ UNCHANGED stream
        /\ \A w \in Worker : input'[w] = NULL /\ output'[w] = NULL
        /\ \A p \in Pipe : fifo'[p] = <<>>
    BY <1>2 DEF JoinAndClear
  <2>2. ASSUME NEW p \in Pipe PROVE InPipe(p)' = <<>>
    <3>1. Unprocessed(p + 1)' = <<>> /\ Ready(p)' = <<>>
      BY <1>p, <2>1 DEF Unprocessed, Ready
    <3>2. Items(p)' = <<>>
      BY <2>1 DEF Items, Mapped
    <3>3. <<>> \o <<>> = <<>>
      BY ConcatEmptySeq, EmptySeq
    <3> QED BY <3>1, <3>2, <3>3, PartsPrimed
  <2>3. Flight' = <<>>
    <3> DEFINE f == InFlight'
    <3>1. f \in [Pipe -> Seq(Nat)] /\ Flight' = Chain(f)[NStages] /\ \A p \in Pipe : f[p] = <<>>
      BY <1>o, <2>2, TwoFlights
    <3> HIDE DEF f
    <3> QED BY <3>1, ChainSame
  <2>4. Channel!Discard
    BY <2>1, <2>3 DEF Channel!Discard
  <2>5. SinkHolds'
    BY <2>1, NStagesAssumption DEF SinkHolds, Sink, Worker
  <2> QED BY <2>4, <2>5 DEF StreamStep, Channel!Next
<1>3. CASE DestroySecond
  <2>1. UNCHANGED <<pc, context, pipes, stream>> /\ mpc = "ring"
    BY <1>3 DEF DestroySecond
  <2>2. CASE mpc' # "join"
    BY <1>o, <2>1, <2>2, ControlStep
  <2>3. CASE mpc' = "join"
    <3>1. \A p \in Pipe : InPipe(p)' = InPipe(p)
      BY <2>1 DEF InPipe, Unprocessed, Ready
    <3>2. InFlight' = InFlight
      BY <3>1 DEF InFlight
    <3>3. Flight' = Flight
      BY <1>o, <3>2, TwoFlights
    <3>4. Channel!Close
      BY <2>1, <2>3, <3>3 DEF Channel!Close
    <3> QED BY <1>o, <2>1, <3>4 DEF StreamStep, Channel!Next, SinkHolds
  <2> QED BY <2>2, <2>3
<1>4. CASE UNCHANGED <<pc, context, pipes, stream>> /\ mpc # "join" /\ mpc' # "join"
  BY <1>o, <1>4, ControlStep
<1> QED BY <1>1, <1>2, <1>3, <1>4
        DEF MainCall, EnableCall, StartCall, StopCall, DisableCall, MainStep, EnableReturn,
            EnableWorker, StartReturn, DisableWorker, StopReturn, DestroyFirst, SetDoneAgain,
            MarkDisabled, DisableReturn

LEMMA InitStream == Init => SinkHolds /\ Rising /\ Channel!Init
<1> SUFFICES ASSUME Init PROVE SinkHolds /\ Rising /\ Channel!Init
  OBVIOUS
<1>1. ASSUME NEW p \in Pipe PROVE InPipe(p) = <<>>
  <2>1. /\ p \in Worker /\ p + 1 \in Worker
    BY NStagesAssumption DEF Pipe, Worker
  <2>2. fifo[p] = <<>> /\ output[p] = NULL /\ input[p + 1] = NULL
    BY <2>1 DEF Init
  <2>3. Unprocessed(p + 1) = <<>> /\ Ready(p) = <<>>
    BY <2>2 DEF Unprocessed, Ready
  <2>4. Items(p) = <<>>
    BY <2>2 DEF Items, Mapped
  <2>5. <<>> \o <<>> = <<>>
    BY ConcatEmptySeq, EmptySeq
  <2> QED BY <2>3, <2>4, <2>5 DEF InPipe, Items, Mapped
<1>2. Flight = <<>>
  <2> DEFINE e == InFlight
  <2>1. e \in [Pipe -> Seq(Nat)] /\ \A p \in Pipe : e[p] = <<>>
    <3>1. <<>> \in Seq(Nat)
      BY EmptySeq
    <3> QED BY <1>1, <3>1 DEF InFlight
  <2>2. Flight = Chain(e)[NStages]
    BY <2>1, FlightIsChain
  <2> HIDE DEF e
  <2> QED BY <2>1, <2>2, ChainSame
<1>3. SinkHolds
  BY NStagesAssumption DEF Init, SinkHolds, Sink, Worker
<1>4. Rising
  BY <1>2 DEF Rising
<1> QED BY <1>2, <1>3, <1>4 DEF Init, Channel!Init

LEMMA NextStream ==
  ASSUME \A act \in StageActs : act.push = act.pull
  PROVE  StreamInv /\ [Next]_vars => StreamStep /\ StreamInv'
<1> SUFFICES ASSUME StreamInv, [Next]_vars PROVE StreamStep /\ StreamInv'
  OBVIOUS
<1>1. OwnInv' /\ Ordered' /\ OwnInv
  BY NextOwnInv, NextOrdered DEF StreamInv
<1>2. StreamStep /\ SinkHolds'
  <2>1. CASE \E w \in Worker : WorkerStep(w)
    BY <1>1, <2>1, StreamWorker
  <2>2. CASE MainCall \/ MainStep
    BY <1>1, <2>2, StreamMain
  <2>3. CASE UNCHANGED <<pc, context, pipes, main, stream>>
    BY <1>1, <2>3, ControlStep DEF StreamInv, pipes, main
  <2> QED BY <2>1, <2>2, <2>3 DEF Next, WaitCall, WaiterStep, AwaitNotDestroying, CheckEnabled,
             WaitDone, TestDone, vars
<1>3. Rising'
  <2>1. Flight \in Seq(Nat) /\ produced \in Nat /\ consumed \in Nat /\ consumed <= produced
    BY <1>1, TwoFlights DEF OwnInv, TokenInv, Inv, TypeOK, StreamInv, Ordered, Bounded
  <2> QED BY <1>2, <2>1, StreamRises DEF StreamInv
<1> QED BY <1>1, <1>2, <1>3 DEF StreamInv

\* If every call of a stage callback that fills its output also gives its
\* input back, and the other way round, the pipeline is a queue from the
\* source callback to the sink callback: across stops and starts, failed
\* pushes and calls of the sink with an input it has kept, each item is
\* delivered once and in order, and only a disable discards, then everything.
THEOREM PipelineStreams ==
  ASSUME \A act \in StageActs : act.push = act.pull
  PROVE  Spec => ImplementsStream
<1>1. Init => StreamInv /\ Channel!Init
  BY InitStream, InitOwnInv, InitOrdered DEF StreamInv
<1>2. StreamInv /\ [Next]_vars => StreamInv' /\ [Channel!Next]_Channel!vars
  BY NextStream DEF StreamStep
<1> QED BY <1>1, <1>2, PTL DEF Spec, ImplementsStream, Channel!Spec
=============================================================================
