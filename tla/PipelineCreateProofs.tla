------------------------ MODULE PipelineCreateProofs ------------------------
(***************************************************************************)
(* Theorems about PipelineCreate, for any number of stages and of threads, *)
(* and FIFOs of any size.  What is released is computed by FlattenSeq and  *)
(* SetToSeq, so the first lemmas say what these return.                    *)
(***************************************************************************)
EXTENDS PipelineCreate, SequenceTheorems, FiniteSetTheorems, WellFoundedInduction, TLAPS

\* A set of numbers has a least element.
LEMMA Least ==
  ASSUME NEW T \in SUBSET Nat, T # {}
  PROVE  \E m \in T : \A n \in T : m <= n
<1> DEFINE U == {0..n : n \in T}
<1>1. U \subseteq FiniteSubsetsOf(Int) /\ U # {}
  <2>1. ASSUME NEW n \in T PROVE 0..n \subseteq Int /\ IsFiniteSet(0..n)
    BY FS_Interval
  <2> QED BY <2>1 DEF FiniteSubsetsOf
<1>2. PICK x \in U : \A y \in U : <<y, x>> \notin StrictSubsetOrdering(Int)
  BY <1>1, WFMin, FS_StrictSubsetOrderingWellFounded
<1>3. PICK m \in T : x = 0..m
  BY <1>2
<1>4. ASSUME NEW n \in T, n < m PROVE FALSE
  <2>1. 0..n \subseteq 0..m /\ m \in 0..m /\ m \notin 0..n /\ 0..m \subseteq Int
    BY <1>3, <1>4
  <2>2. <<0..n, x>> \in StrictSubsetOrdering(Int)
    BY <1>3, <2>1 DEF StrictSubsetOrdering
  <2> QED BY <1>2, <2>2
<1> QED BY <1>3, <1>4

\* Induction on the numbers up to N, for a set instead of a predicate.
LEMMA UpTo ==
  ASSUME NEW N \in Nat, NEW T, 0 \in T, \A n \in 0..N - 1 : n \in T => n + 1 \in T
  PROVE  0..N \subseteq T
<1> SUFFICES ASSUME 0..N \ T # {} PROVE FALSE
  OBVIOUS
<1>1. PICK m \in 0..N \ T : \A n \in 0..N \ T : m <= n
  <2>1. 0..N \ T \in SUBSET Nat
    OBVIOUS
  <2> QED BY <2>1, Least
<1>2. m - 1 \in 0..N - 1 /\ m - 1 \in T /\ m = (m - 1) + 1
  BY <1>1
<1> QED BY <1>1, <1>2

-----------------------------------------------------------------------------
\* The function that FlattenSeq computes with, on the first n sequences.
Flattened(f, s, n) ==
  f = [i \in 1..n |-> IF i = 1 THEN s[i] ELSE f[i - 1] \o s[i]]

LEMMA FlattenedAt ==
  ASSUME NEW f, NEW s, NEW n \in Nat, Flattened(f, s, n), NEW k \in 1..n
  PROVE  f[k] = IF k = 1 THEN s[k] ELSE f[k - 1] \o s[k]
<1> DEFINE g == [i \in 1..n |-> IF i = 1 THEN s[i] ELSE f[i - 1] \o s[i]]
<1>1. f = g
  BY DEF Flattened
<1>2. g[k] = IF k = 1 THEN s[k] ELSE f[k - 1] \o s[k]
  OBVIOUS
<1> HIDE DEF g
<1>3. f[k] = g[k]
  BY <1>1
<1> QED BY <1>2, <1>3

LEMMA FlattenedExists ==
  ASSUME NEW N \in Nat, NEW s
  PROVE  \E f : Flattened(f, s, N)
<1> DEFINE T == {n \in 0..N : \E f : Flattened(f, s, n)}
<1>1. 0 \in T
  <2>1. Flattened([i \in 1..0 |-> 0], s, 0)
    BY DEF Flattened
  <2> QED BY <2>1
<1>2. ASSUME NEW n \in 0..N - 1, n \in T PROVE n + 1 \in T
  <2>1. PICK f : Flattened(f, s, n)
    BY <1>2
  <2> DEFINE last == IF n = 0 THEN s[1] ELSE f[n] \o s[n + 1]
             g == [i \in 1..n + 1 |-> IF i = n + 1 THEN last ELSE f[i]]
  <2>2. ASSUME NEW i \in 1..n + 1
        PROVE  g[i] = IF i = 1 THEN s[i] ELSE g[i - 1] \o s[i]
    <3>1. CASE i = n + 1
      BY <3>1
    <3>2. CASE i \in 1..n
      <4>1. f[i] = IF i = 1 THEN s[i] ELSE f[i - 1] \o s[i]
        BY <2>1, <3>2, FlattenedAt
      <4>2. g[i] = f[i] /\ (i # 1 => g[i - 1] = f[i - 1])
        BY <3>2
      <4> QED BY <4>1, <4>2
    <3> QED BY <3>1, <3>2
  <2>3. g = [i \in 1..n + 1 |-> IF i = 1 THEN s[i] ELSE g[i - 1] \o s[i]]
    <3>1. g = [i \in 1..n + 1 |-> g[i]]
      OBVIOUS
    <3> HIDE DEF g
    <3> QED BY <2>2, <3>1
  <2>4. Flattened(g, s, n + 1)
    BY <2>3 DEF Flattened
  <2> HIDE DEF g
  <2>5. \E f_1 : Flattened(f_1, s, n + 1)
    BY <2>4
  <2> QED BY <2>5
<1> HIDE DEF T
<1>3. 0..N \subseteq T
  BY <1>1, <1>2, UpTo
<1> QED BY <1>3 DEF T

LEMMA FlattenIs ==
  ASSUME NEW n \in Nat \ {0}, NEW s, DOMAIN s = 1..n, Len(s) = n
  PROVE  \E f : Flattened(f, s, n) /\ FlattenSeq(s) = f[n]
<1> DEFINE F == CHOOSE f : f = [i \in 1..n |-> IF i = 1 THEN s[i] ELSE f[i - 1] \o s[i]]
<1>1. Flattened(F, s, n)
  BY FlattenedExists DEF Flattened
<1>2. FlattenSeq(s) = F[n]
  BY DEF FlattenSeq
<1> HIDE DEF F
<1> QED BY <1>1, <1>2

\* Flattening n + 1 sequences appends the last one to the first n.
LEMMA FlattenLast ==
  ASSUME NEW n \in Nat, NEW m \in Nat, m = n + 1, NEW s \in [1..m -> Seq(Resource)],
         NEW t, t = [i \in 1..n |-> s[i]]
  PROVE  FlattenSeq(s) = FlattenSeq(t) \o s[m]
<1>1. s \in Seq(Seq(Resource)) /\ Len(s) = m /\ DOMAIN s = 1..m /\ m \in Nat \ {0}
      /\ t \in Seq(Seq(Resource)) /\ Len(t) = n /\ DOMAIN t = 1..n
      /\ \A i \in 1..n : t[i] = s[i]
  <2>1. t \in [1..n -> Seq(Resource)] /\ \A i \in 1..n : t[i] = s[i]
    OBVIOUS
  <2> QED BY <2>1
<1>2. PICK g : Flattened(g, s, m) /\ FlattenSeq(s) = g[m]
  BY <1>1, FlattenIs
<1>3. g[m] = IF n = 0 THEN s[m] ELSE g[n] \o s[m]
  <2>1. m \in 1..m /\ m - 1 = n /\ (m = 1 <=> n = 0)
    OBVIOUS
  <2>2. g[m] = IF m = 1 THEN s[m] ELSE g[m - 1] \o s[m]
    BY <1>2, <2>1, FlattenedAt
  <2> QED BY <2>1, <2>2
<1>4. CASE n = 0
  <2>1. FlattenSeq(t) = t /\ t = <<>>
    BY <1>1, <1>4 DEF FlattenSeq
  <2> QED BY <1>1, <1>2, <1>3, <1>4, <2>1
<1>5. CASE n # 0
  <2>1. PICK f : Flattened(f, t, n) /\ FlattenSeq(t) = f[n]
    BY <1>1, <1>5, FlattenIs
  <2>2. ASSUME NEW j \in 1..m PROVE g[j] = IF j = 1 THEN s[j] ELSE g[j - 1] \o s[j]
    <3>1. Flattened(g, s, m)
      BY <1>2
    <3> QED BY ONLY <3>1, m \in Nat, j \in 1..m, FlattenedAt
  <2>3. ASSUME NEW j \in 1..n PROVE f[j] = IF j = 1 THEN t[j] ELSE f[j - 1] \o t[j]
    <3>1. Flattened(f, t, n)
      BY <2>1
    <3> QED BY ONLY <3>1, n \in Nat, j \in 1..n, FlattenedAt
  <2> DEFINE T == {k \in 0..n : k = 0 \/ f[k] = g[k]}
  <2>4. 0 \in T
    OBVIOUS
  <2>5. ASSUME NEW k \in 0..n - 1, k \in T PROVE k + 1 \in T
    <3>1. k + 1 \in 1..n /\ k + 1 \in 1..m /\ k + 1 - 1 = k
      OBVIOUS
    <3>2. f[k + 1] = IF k + 1 = 1 THEN t[k + 1] ELSE f[k + 1 - 1] \o t[k + 1]
      BY <3>1, <2>3
    <3>3. g[k + 1] = IF k + 1 = 1 THEN s[k + 1] ELSE g[k + 1 - 1] \o s[k + 1]
      BY <3>1, <2>2
    <3>4. t[k + 1] = s[k + 1] /\ (k + 1 # 1 => f[k] = g[k])
      BY <1>1, <2>5, <3>1
    <3>5. f[k + 1] = g[k + 1]
      BY <3>1, <3>2, <3>3, <3>4
    <3> QED BY <3>1, <3>5
  <2> HIDE DEF T
  <2>6. n \in T
    <3>1. 0..n \subseteq T
      BY <2>4, <2>5, UpTo
    <3> QED BY <3>1
  <2>7. f[n] = g[n]
    BY <1>5, <2>6 DEF T
  <2> QED BY <1>2, <1>3, <1>5, <2>1, <2>7
<1> QED BY <1>4, <1>5

-----------------------------------------------------------------------------
\* The elements of a finite set, once each.
LEMMA SetToSeqIs ==
  ASSUME NEW S, IsFiniteSet(S)
  PROVE  /\ SetToSeq(S) \in Seq(S)
         /\ \A i, j \in 1..Len(SetToSeq(S)) : SetToSeq(S)[i] = SetToSeq(S)[j] => i = j
         /\ \A r \in S : \E i \in 1..Len(SetToSeq(S)) : SetToSeq(S)[i] = r
<1> DEFINE n == Cardinality(S)
           s == SetToSeq(S)
<1>1. n \in Nat /\ ExistsBijection(1..n, S)
  BY FS_CardinalityType
<1>2. \E f \in [1..n -> S] : IsInjective(f)
  BY <1>1 DEF ExistsBijection, Bijection, Injection
<1>3. s \in [1..n -> S] /\ IsInjective(s)
  BY <1>2 DEF SetToSeq
<1>4. s \in Injection(1..n, S)
  BY <1>3 DEF Injection
<1>5. Cardinality(1..n) = n
  <2>1. 1..n # {} => Cardinality(1..n) = n - 1 + 1
    BY <1>1, FS_Interval
  <2>2. 1..n = {} => n = 0 /\ Cardinality(1..n) = 0
    BY <1>1, FS_EmptySet
  <2> HIDE DEF n
  <2> QED BY <1>1, <2>1, <2>2
<1>6. s \in Surjection(1..n, S)
  BY <1>4, <1>5, FS_Injection
<1> HIDE DEF s
<1>7. s \in Seq(S) /\ Len(s) = n /\ DOMAIN s = 1..n
  BY <1>1, <1>3
<1> HIDE DEF n
<1>8. \A i, j \in 1..n : s[i] = s[j] => i = j
  BY <1>3, <1>7 DEF IsInjective
<1>9. \A r \in S : \E i \in 1..n : s[i] = r
  BY <1>6 DEF Surjection
<1> QED BY <1>7, <1>8, <1>9 DEF s

\* s releases what is in R, once each, and nothing before what it contains.
Releases(s, R) ==
  /\ s \in Seq(R)
  /\ \A r \in R : \E i \in 1..Len(s) : s[i] = r
  /\ \A i, j \in 1..Len(s) : s[i] = s[j] => i = j
  /\ \A i \in 1..Len(s) : s[i] # Pipeline /\ Container(s[i]) \in R =>
                            \E j \in i + 1..Len(s) : s[j] = Container(s[i])

\* One sequence of releases after another.
LEMMA ReleasesBoth ==
  ASSUME NEW A, NEW B, NEW s, NEW t, Releases(s, A), Releases(t, B), A \cap B = {},
         \A r \in B : r # Pipeline => Container(r) \notin A
  PROVE  Releases(s \o t, A \cup B)
<1> DEFINE u == s \o t
           m == Len(s)
           n == Len(t)
<1>1. /\ s \in Seq(A) /\ t \in Seq(B) /\ m \in Nat /\ n \in Nat
      /\ \A i \in 1..m : s[i] \in A
      /\ \A i \in 1..n : t[i] \in B
  BY DEF Releases
<1>2. /\ u \in Seq(A \cup B) /\ Len(u) = m + n
      /\ \A i \in 1..m : u[i] = s[i]
      /\ \A i \in m + 1..m + n : u[i] = t[i - m]
  <2>1. s \in Seq(A \cup B) /\ t \in Seq(A \cup B)
    BY <1>1
  <2> QED BY <2>1
<1>3. /\ \A r \in A : \E i \in 1..m : s[i] = r
      /\ \A i, j \in 1..m : s[i] = s[j] => i = j
      /\ \A i \in 1..m : s[i] # Pipeline /\ Container(s[i]) \in A =>
                           \E j \in i + 1..m : s[j] = Container(s[i])
  BY DEF Releases
<1>4. /\ \A r \in B : \E i \in 1..n : t[i] = r
      /\ \A i, j \in 1..n : t[i] = t[j] => i = j
      /\ \A i \in 1..n : t[i] # Pipeline /\ Container(t[i]) \in B =>
                           \E j \in i + 1..n : t[j] = Container(t[i])
  BY DEF Releases
<1> HIDE DEF u, m, n
<1>5. ASSUME NEW i \in 1..n PROVE m + i \in 1..m + n /\ u[m + i] = t[i]
  <2>1. PICK k \in m + 1..m + n : k = m + i /\ k - m = i /\ k \in 1..m + n
    BY <1>1
  <2>2. u[k] = t[k - m]
    BY <1>2, <2>1
  <2> QED BY <2>1, <2>2
<1>6. \A i \in m + 1..m + n : i - m \in 1..n /\ u[i] = t[i - m] /\ u[i] \in B
  <2>1. ASSUME NEW i \in m + 1..m + n PROVE i - m \in 1..n
    BY <1>1
  <2> QED BY <1>1, <1>2, <2>1
<1>7. \A i \in 1..m + n : i \in 1..m \/ i \in m + 1..m + n
  BY <1>1
<1>8. ASSUME NEW r \in A \cup B PROVE \E i \in 1..m + n : u[i] = r
  <2>1. CASE r \in A
    <3>1. PICK i \in 1..m : s[i] = r
      BY <1>3, <2>1
    <3>2. i \in 1..m + n
      BY <1>1
    <3> QED BY <1>2, <3>1, <3>2
  <2>2. CASE r \in B
    BY <1>4, <1>5, <2>2
  <2> QED BY <2>1, <2>2
<1>9. ASSUME NEW i \in 1..m + n, NEW j \in 1..m + n, u[i] = u[j] PROVE i = j
  <2>1. CASE i \in 1..m /\ j \in 1..m
    BY <1>2, <1>3, <1>9, <2>1
  <2>2. CASE i \in m + 1..m + n /\ j \in m + 1..m + n
    <3>1. i - m \in 1..n /\ j - m \in 1..n /\ t[i - m] = t[j - m]
      BY <1>6, <1>9, <2>2
    <3>2. i - m = j - m
      BY <1>4, <3>1
    <3> QED BY <1>1, <3>2
  <2>3. CASE \/ i \in 1..m /\ j \in m + 1..m + n
             \/ j \in 1..m /\ i \in m + 1..m + n
    BY <1>1, <1>2, <1>6, <1>9, <2>3
  <2> QED BY <1>7, <2>1, <2>2, <2>3
<1>10. ASSUME NEW i \in 1..m + n, u[i] # Pipeline, Container(u[i]) \in A \cup B
       PROVE  \E j \in i + 1..m + n : u[j] = Container(u[i])
  <2>1. CASE i \in 1..m /\ Container(u[i]) \in A
    <3>1. PICK j \in i + 1..m : s[j] = Container(s[i])
      BY <1>2, <1>3, <1>10, <2>1
    <3>2. j \in 1..m /\ j \in i + 1..m + n
      BY <1>1
    <3> QED BY <1>2, <2>1, <3>1, <3>2
  <2>2. CASE i \in 1..m /\ Container(u[i]) \in B
    <3>1. PICK j \in 1..n : t[j] = Container(u[i])
      BY <1>4, <2>2
    <3>2. m + j \in i + 1..m + n
      BY <1>1, <2>2
    <3> QED BY <1>5, <3>1, <3>2
  <2>3. CASE i \in m + 1..m + n
    <3>1. i - m \in 1..n /\ u[i] = t[i - m] /\ u[i] \in B
      BY <1>6, <2>3
    <3>2. Container(u[i]) \in B
      BY <1>10, <3>1
    <3>3. PICK j \in i - m + 1..n : t[j] = Container(t[i - m])
      BY <1>4, <1>10, <3>1, <3>2
    <3>4. j \in 1..n /\ m + j \in i + 1..m + n
      BY <1>1, <3>1
    <3> QED BY <1>5, <3>1, <3>3, <3>4
  <2> QED BY <1>7, <1>10, <2>1, <2>2, <2>3
<1>11. /\ u \in Seq(A \cup B)
       /\ \A r \in A \cup B : \E i \in 1..Len(u) : u[i] = r
       /\ \A i, j \in 1..Len(u) : u[i] = u[j] => i = j
       /\ \A i \in 1..Len(u) : u[i] # Pipeline /\ Container(u[i]) \in A \cup B =>
                                 \E j \in i + 1..Len(u) : u[j] = Container(u[i])
  BY <1>2, <1>8, <1>9, <1>10
<1> QED BY <1>11 DEF u, Releases

LEMMA ReleasesNone == Releases(<<>>, {})
BY DEF Releases

LEMMA ReleasesOne ==
  ASSUME NEW r, r = Pipeline \/ Container(r) # r
  PROVE  Releases(<<r>>, {r})
<1>1. <<r>> \in Seq({r}) /\ Len(<<r>>) = 1 /\ <<r>>[1] = r
  OBVIOUS
<1> QED BY <1>1 DEF Releases

\* The first of the sequence is released.
LEMMA ReleasesRest ==
  ASSUME NEW R, NEW s, Releases(s, R), s # <<>>
  PROVE  /\ Head(s) \in R
         /\ Releases(Tail(s), R \ {Head(s)})
         /\ \A r \in R : r # Pipeline => Container(r) # Head(s)
<1> DEFINE n == Len(s)
           t == Tail(s)
           Q == R \ {s[1]}
<1>1. /\ s \in Seq(R) /\ n \in Nat \ {0} /\ Head(s) = s[1] /\ s[1] \in R
      /\ \A i \in 1..n : s[i] \in R
  BY DEF Releases
<1>2. /\ \A r \in R : \E i \in 1..n : s[i] = r
      /\ \A i, j \in 1..n : s[i] = s[j] => i = j
      /\ \A i \in 1..n : s[i] # Pipeline /\ Container(s[i]) \in R =>
                           \E j \in i + 1..n : s[j] = Container(s[i])
  BY DEF Releases
<1>3. t \in Seq(R) /\ Len(t) = n - 1 /\ \A i \in 1..n - 1 : t[i] = s[i + 1]
  BY <1>1
<1> HIDE DEF n, t, Q
<1>4. ASSUME NEW i \in 1..n - 1
      PROVE  i + 1 \in 1..n /\ i + 1 # 1 /\ t[i] = s[i + 1] /\ t[i] \in Q
  <2>1. i + 1 \in 1..n /\ i + 1 # 1 /\ 1 \in 1..n
    BY <1>1
  <2>2. t[i] = s[i + 1]
    BY <1>3
  <2>3. s[i + 1] # s[1] /\ s[i + 1] \in R
    BY <1>1, <1>2, <2>1
  <2> QED BY <2>1, <2>2, <2>3 DEF Q
<1>5. ASSUME NEW i \in 2..n PROVE i - 1 \in 1..n - 1 /\ t[i - 1] = s[i]
  <2>1. i - 1 \in 1..n - 1 /\ i - 1 + 1 = i
    BY <1>1
  <2>2. t[i - 1] = s[i - 1 + 1]
    BY <1>3, <2>1
  <2> QED BY <2>1, <2>2
<1>6. t \in Seq(Q)
  <2>1. t \in [1..n - 1 -> R] /\ n - 1 \in Nat
    BY <1>1, <1>3
  <2>2. t \in [1..n - 1 -> Q]
    BY <1>4, <2>1
  <2> QED BY <2>1, <2>2
<1>7. ASSUME NEW r \in Q PROVE \E i \in 1..n - 1 : t[i] = r
  <2>1. PICK i \in 1..n : s[i] = r
    BY <1>2 DEF Q
  <2>2. i \in 2..n
    BY <1>1, <2>1 DEF Q
  <2> QED BY <1>5, <2>1, <2>2
<1>8. ASSUME NEW i \in 1..n - 1, NEW j \in 1..n - 1, t[i] = t[j] PROVE i = j
  <2>1. i + 1 = j + 1
    BY <1>2, <1>4, <1>8
  <2> QED BY <1>1, <2>1
<1>9. ASSUME NEW i \in 1..n - 1, t[i] # Pipeline, Container(t[i]) \in Q
      PROVE  \E j \in i + 1..n - 1 : t[j] = Container(t[i])
  <2>1. PICK j \in i + 1 + 1..n : s[j] = Container(s[i + 1])
    BY <1>2, <1>4, <1>9 DEF Q
  <2>2. j \in 2..n /\ j - 1 \in i + 1..n - 1
    BY <1>1
  <2> QED BY <1>4, <1>5, <2>1, <2>2
<1>10. Releases(t, Q)
  BY <1>3, <1>6, <1>7, <1>8, <1>9 DEF Releases
<1>11. ASSUME NEW r \in R, r # Pipeline, Container(r) = s[1] PROVE FALSE
  <2>1. PICK i \in 1..n : s[i] = r
    BY <1>2
  <2>2. PICK j \in i + 1..n : s[j] = s[1]
    BY <1>1, <1>2, <1>11, <2>1
  <2>3. 1 \in 1..n /\ j \in 1..n /\ j # 1
    BY <1>1
  <2> QED BY <1>2, <2>2, <2>3
<1> QED BY <1>1, <1>10, <1>11 DEF Q, t

-----------------------------------------------------------------------------
Syncs == {Sync(w) : w \in Worker}
Top   == {Pipeline, Stages, Impls, Pipes}

\* What belongs to pipe p, and what h has of it.
PartKind == {"pool_mutex", "fifo_mutex", "blocks", "block", "semaphore", "buffers"}
PipeHeld(h, p)  == {r \in h : r[1] \in PartKind /\ r[2] = p}
PipesHeld(h, n) == {r \in h : r[1] \in PartKind /\ r[2] < n}
BlocksHeld(h, p) == {r \in h : r[1] = "block" /\ r[2] = p}

\* Pipe p was initialised.
PipeWhole(h, p) == {PoolMutex(p), FifoMutex(p), Vector(p), Semaphore(p)} \subseteq h

LEMMA Kinds ==
  ASSUME NEW r \in Resource
  PROVE  \/ r \in Top
         \/ r \in Syncs
         \/ \E p \in Pipe : r \in {PoolMutex(p), FifoMutex(p), Vector(p), Semaphore(p), Buffers(p)}
         \/ \E p \in Pipe, k \in 1..MaxBlocks : r = Block(p, k)
<1> DEFINE Five(p) == {PoolMutex(p), FifoMutex(p), Vector(p), Semaphore(p), Buffers(p)}
<1>1. \/ r \in Top \/ r \in Syncs
      \/ r \in UNION {Five(p) : p \in Pipe}
      \/ r \in {Block(p, k) : p \in Pipe, k \in 1..MaxBlocks}
  BY DEF Resource, Top, Syncs
<1>2. r \in UNION {Five(p) : p \in Pipe} => \E p \in Pipe : r \in Five(p)
  <2> HIDE DEF Five
  <2> QED OBVIOUS
<1>3. r \in {Block(p, k) : p \in Pipe, k \in 1..MaxBlocks}
        => \E p \in Pipe, k \in 1..MaxBlocks : r = Block(p, k)
  OBVIOUS
<1> QED BY <1>1, <1>2, <1>3

LEMMA KindOf ==
  /\ \A r \in Top \cup Syncs : r[1] \notin PartKind
  /\ \A r \in Top : r \notin Syncs
  /\ \A p : /\ PoolMutex(p)[1] = "pool_mutex" /\ PoolMutex(p)[2] = p
            /\ FifoMutex(p)[1] = "fifo_mutex" /\ FifoMutex(p)[2] = p
            /\ Vector(p)[1] = "blocks" /\ Vector(p)[2] = p
            /\ Semaphore(p)[1] = "semaphore" /\ Semaphore(p)[2] = p
            /\ Buffers(p)[1] = "buffers" /\ Buffers(p)[2] = p
            /\ \A k : Block(p, k)[1] = "block" /\ Block(p, k)[2] = p
<1>1. Pipeline[1] = "pipeline" /\ Stages[1] = "stages" /\ Impls[1] = "stage_impls"
      /\ Pipes[1] = "pipes" /\ \A w : Sync(w)[1] = "cv and mutex"
  BY DEF Pipeline, Stages, Impls, Pipes, Sync
<1>2. ASSUME NEW r \in Syncs PROVE r[1] = "cv and mutex"
  <2>1. PICK w \in Worker : r = Sync(w)
    BY DEF Syncs
  <2> QED BY <1>1, <2>1
<1>3. ASSUME NEW r \in Top PROVE r[1] \in {"pipeline", "stages", "stage_impls", "pipes"}
  BY <1>1 DEF Top
<1>4. \A r \in Top \cup Syncs : r[1] \notin PartKind
  BY <1>2, <1>3 DEF PartKind
<1>5. ASSUME NEW p PROVE /\ PoolMutex(p)[1] = "pool_mutex" /\ PoolMutex(p)[2] = p
            /\ FifoMutex(p)[1] = "fifo_mutex" /\ FifoMutex(p)[2] = p
            /\ Vector(p)[1] = "blocks" /\ Vector(p)[2] = p
            /\ Semaphore(p)[1] = "semaphore" /\ Semaphore(p)[2] = p
            /\ Buffers(p)[1] = "buffers" /\ Buffers(p)[2] = p
            /\ \A k : Block(p, k)[1] = "block" /\ Block(p, k)[2] = p
  BY DEF PoolMutex, FifoMutex, Vector, Semaphore, Buffers, Block
<1> QED BY <1>2, <1>3, <1>4, <1>5

\* The parts of a pipe are found in its vector, or in its blocks.
LEMMA Parts ==
  ASSUME NEW p
  PROVE  /\ Container(PoolMutex(p)) = Pipes /\ Container(FifoMutex(p)) = Pipes
         /\ Container(Vector(p)) = Pipes /\ Container(Semaphore(p)) = Pipes
         /\ Container(Buffers(p)) = Pipes
         /\ \A k : Container(Block(p, k)) = Vector(p)
<1>1. PoolMutex(p)[1] = "pool_mutex" /\ FifoMutex(p)[1] = "fifo_mutex" /\ Vector(p)[1] = "blocks"
      /\ Semaphore(p)[1] = "semaphore" /\ Buffers(p)[1] = "buffers"
  BY DEF PoolMutex, FifoMutex, Vector, Semaphore, Buffers
<1>2. ASSUME NEW k PROVE Block(p, k)[1] = "block" /\ Block(p, k)[2] = p
  BY DEF Block
<1> QED BY <1>1, <1>2 DEF Container

LEMMA BlocksFinite ==
  ASSUME NEW h \in SUBSET Resource, NEW p
  PROVE  /\ IsFiniteSet(BlocksHeld(h, p))
         /\ \A r \in BlocksHeld(h, p) : \E k \in 1..MaxBlocks : r = Block(p, k)
<1> DEFINE f == [k \in 1..MaxBlocks |-> Block(p, k)]
           B == {Block(p, k) : k \in 1..MaxBlocks}
<1>1. f \in Surjection(1..MaxBlocks, B)
  BY DEF Surjection
<1>2. IsFiniteSet(1..MaxBlocks)
  BY FS_Interval, CreateAssumption
<1>3. IsFiniteSet(B)
  BY <1>1, <1>2, FS_Surjection
<1>4. ASSUME NEW r \in BlocksHeld(h, p) PROVE \E k \in 1..MaxBlocks : r = Block(p, k)
  <2>1. r \in Resource /\ r[1] = "block" /\ r[2] = p
    BY DEF BlocksHeld
  <2>2. PICK q \in Pipe, k \in 1..MaxBlocks : r = Block(q, k)
    <3>1. r \notin Top \cup Syncs
      BY <2>1, KindOf DEF PartKind
    <3>2. \A q \in Pipe : r \notin {PoolMutex(q), FifoMutex(q), Vector(q), Semaphore(q), Buffers(q)}
      BY <2>1, KindOf
    <3> QED BY <2>1, <3>1, <3>2, Kinds
  <2> QED BY <2>1, <2>2 DEF Block
<1>5. BlocksHeld(h, p) \in SUBSET B
  BY <1>4
<1> QED BY <1>3, <1>4, <1>5, FS_Subset

LEMMA ReleasesTwo ==
  ASSUME NEW a, NEW b, a # b, Container(a) \notin {a, b}, Container(b) \notin {a, b}
  PROVE  Releases(<<a, b>>, {a, b})
<1>1. <<a, b>> \in Seq({a, b}) /\ Len(<<a, b>>) = 2 /\ <<a, b>>[1] = a /\ <<a, b>>[2] = b
  OBVIOUS
<1> QED BY <1>1 DEF Releases

\* mtdp_buffer_fifo_destroy.
LEMMA FifoReleased ==
  ASSUME NEW h \in SUBSET Resource, NEW p
  PROVE  Releases(FifoDestroyed(h, p), BlocksHeld(h, p) \cup {Vector(p)})
<1> DEFINE B == BlocksHeld(h, p)
<1>1. IsFiniteSet(B) /\ \A r \in B : \E k \in 1..MaxBlocks : r = Block(p, k)
  BY BlocksFinite
<1>2. /\ \A r \in B : Container(r) = Vector(p)
      /\ Container(Vector(p)) = Pipes
  BY <1>1, Parts
<1>3. Vector(p) \notin B /\ Pipes \notin B /\ Pipes # Vector(p)
  BY <1>1 DEF Block, Vector, Pipes
<1> HIDE DEF B
<1>4. Releases(SetToSeq(B), B)
  <2>1. \A i \in 1..Len(SetToSeq(B)) : SetToSeq(B)[i] \in B
    BY <1>1, SetToSeqIs
  <2> QED BY <1>1, <1>2, <1>3, <2>1, SetToSeqIs DEF Releases
<1>5. Releases(<<Vector(p)>>, {Vector(p)})
  BY <1>2, <1>3, ReleasesOne
<1>6. Releases(SetToSeq(B) \o <<Vector(p)>>, B \cup {Vector(p)})
  BY <1>2, <1>3, <1>4, <1>5, ReleasesBoth
<1> QED BY <1>6 DEF B, BlocksHeld, FifoDestroyed

\* mtdp_pipe_destroy releases what the pipe has.
LEMMA PipeReleased ==
  ASSUME NEW h \in SUBSET Resource, NEW p \in Pipe, PipeWhole(h, p)
  PROVE  Releases(PipeDestroyed(h, p), PipeHeld(h, p))
<1> DEFINE B == BlocksHeld(h, p)
           M == {PoolMutex(p), FifoMutex(p)}
           P == IF Buffers(p) \in h THEN {Buffers(p)} ELSE {}
           pool == IF Buffers(p) \in h THEN <<Buffers(p)>> ELSE <<>>
           F == B \cup {Vector(p)}
           C == {Semaphore(p)}
<1>1. \A r \in B : Container(r) = Vector(p) /\ \E k \in 1..MaxBlocks : r = Block(p, k)
  BY BlocksFinite, Parts
<1>2. \A r \in M \cup P \cup C \cup {Vector(p)} : Container(r) = Pipes
  BY Parts
<1>3. M \cap P = {} /\ (M \cup P) \cap F = {} /\ (M \cup P \cup F) \cap C = {}
      /\ Pipes \notin M \cup P \cup F \cup C
  BY <1>1 DEF PoolMutex, FifoMutex, Vector, Semaphore, Buffers, Block, Pipes
<1>4. Vector(p) \notin M \cup P
  BY DEF PoolMutex, FifoMutex, Vector, Buffers
<1>5. Releases(<<PoolMutex(p), FifoMutex(p)>>, M)
  <2>1. PoolMutex(p) # FifoMutex(p)
    BY DEF PoolMutex, FifoMutex
  <2> QED BY <1>2, <1>3, <2>1, ReleasesTwo
<1>6. Releases(pool, P)
  <2>1. CASE Buffers(p) \in h
    BY <1>2, <1>3, <2>1, ReleasesOne
  <2>2. CASE Buffers(p) \notin h
    BY <2>2 DEF Releases
  <2> QED BY <2>1, <2>2
<1>7. Releases(FifoDestroyed(h, p), F)
  BY FifoReleased
<1>8. Releases(<<Semaphore(p)>>, C)
  BY <1>2, <1>3, ReleasesOne
<1>9. PipeHeld(h, p) = M \cup P \cup F \cup C
  <2>1. ASSUME NEW r \in PipeHeld(h, p) PROVE r \in M \cup P \cup F \cup C
    <3>1. r \in Resource /\ r \in h /\ r[1] \in PartKind /\ r[2] = p
      BY DEF PipeHeld
    <3>2. r \notin Top /\ r \notin Syncs
      BY <3>1, KindOf
    <3>3. CASE \E q \in Pipe : r \in {PoolMutex(q), FifoMutex(q), Vector(q), Semaphore(q), Buffers(q)}
      BY <3>1, <3>3 DEF PoolMutex, FifoMutex, Vector, Semaphore, Buffers
    <3>4. CASE \E q \in Pipe, k \in 1..MaxBlocks : r = Block(q, k)
      BY <3>1, <3>4 DEF BlocksHeld, Block
    <3> QED BY <3>1, <3>2, <3>3, <3>4, Kinds
  <2>2. ASSUME NEW r \in M \cup P \cup C \cup {Vector(p)} PROVE r \in PipeHeld(h, p)
    <3>1. r \in h
      BY DEF PipeWhole
    <3>2. r[1] \in PartKind /\ r[2] = p
      BY DEF PartKind, PoolMutex, FifoMutex, Vector, Semaphore, Buffers
    <3> QED BY <3>1, <3>2 DEF PipeHeld
  <2>3. B \subseteq PipeHeld(h, p)
    BY DEF BlocksHeld, PipeHeld, PartKind
  <2> QED BY <2>1, <2>2, <2>3
<1>10. PipeDestroyed(h, p) = <<PoolMutex(p), FifoMutex(p)>> \o pool \o FifoDestroyed(h, p) \o <<Semaphore(p)>>
  BY DEF PipeDestroyed
<1> HIDE DEF M, P, F, C, B, pool
<1>11. Releases(<<PoolMutex(p), FifoMutex(p)>> \o pool, M \cup P)
  BY <1>2, <1>3, <1>5, <1>6, ReleasesBoth
<1>12. Releases(<<PoolMutex(p), FifoMutex(p)>> \o pool \o FifoDestroyed(h, p), M \cup P \cup F)
  BY <1>1, <1>2, <1>3, <1>4, <1>7, <1>11, ReleasesBoth DEF F
<1>13. Releases(PipeDestroyed(h, p), M \cup P \cup F \cup C)
  BY <1>2, <1>3, <1>8, <1>10, <1>12, ReleasesBoth
<1> QED BY <1>9, <1>13

\* What a pipe has is found in the vector of pipes, or in its own blocks.
LEMMA PipeContainers ==
  ASSUME NEW r \in Resource, r[1] \in PartKind
  PROVE  /\ r[2] \in Pipe
         /\ Container(r) = Pipes \/ (r[1] = "block" /\ Container(r) = Vector(r[2]))
         /\ r # Pipeline
<1>1. r \notin Top \cup Syncs
  BY KindOf
<1>2. CASE \E p \in Pipe : r \in {PoolMutex(p), FifoMutex(p), Vector(p), Semaphore(p), Buffers(p)}
  BY <1>1, <1>2, KindOf, Parts DEF Top
<1>3. CASE \E p \in Pipe, k \in 1..MaxBlocks : r = Block(p, k)
  BY <1>1, <1>3, KindOf, Parts DEF Top
<1> QED BY <1>1, <1>2, <1>3, Kinds

\* The pipes before pipe N.
LEMMA PipesReleased ==
  ASSUME NEW h \in SUBSET Resource, NEW N \in 0..NStages + 1, \A p \in 0..N - 1 : PipeWhole(h, p)
  PROVE  Releases(PipesDestroyed(h, N), PipesHeld(h, N))
<1> DEFINE T == {n \in 0..N : Releases(PipesDestroyed(h, n), PipesHeld(h, n))}
<1>1. 0 \in T
  <2>1. PipesDestroyed(h, 0) = <<>>
    BY DEF PipesDestroyed, FlattenSeq
  <2>2. PipesHeld(h, 0) = {}
    BY PipeContainers DEF PipesHeld, Pipe
  <2>3. Releases(PipesDestroyed(h, 0), PipesHeld(h, 0))
    BY <2>1, <2>2, ReleasesNone
  <2> QED BY <2>3, CreateAssumption
<1>2. ASSUME NEW n \in 0..N - 1, n \in T PROVE n + 1 \in T
  <2> DEFINE m == n + 1
             s == [i \in 1..m |-> PipeDestroyed(h, i - 1)]
             t == [i \in 1..n |-> PipeDestroyed(h, i - 1)]
  <2>1. n \in Nat /\ m \in Nat /\ n \in Pipe /\ m \in 0..N /\ N \in Nat
    BY CreateAssumption DEF Pipe
  <2>2. ASSUME NEW i \in 1..m PROVE PipeDestroyed(h, i - 1) \in Seq(Resource)
    <3>1. i - 1 \in 0..N - 1 /\ i - 1 \in Pipe
      BY <2>1, CreateAssumption DEF Pipe
    <3>2. Releases(PipeDestroyed(h, i - 1), PipeHeld(h, i - 1))
      BY <3>1, PipeReleased
    <3>3. PipeDestroyed(h, i - 1) \in Seq(PipeHeld(h, i - 1)) /\ PipeHeld(h, i - 1) \subseteq Resource
      BY <3>2 DEF Releases, PipeHeld
    <3> QED BY <3>3
  <2>3. s \in [1..m -> Seq(Resource)] /\ t = [i \in 1..n |-> s[i]] /\ s[m] = PipeDestroyed(h, n)
    <3>1. 1..n \subseteq 1..m /\ m \in 1..m /\ m - 1 = n
      BY <2>1
    <3> HIDE DEF m
    <3> QED BY <2>2, <3>1
  <2>4. PipesDestroyed(h, m) = FlattenSeq(s) /\ PipesDestroyed(h, n) = FlattenSeq(t)
    BY DEF PipesDestroyed
  <2>5. m = n + 1
    OBVIOUS
  <2> HIDE DEF m, s, t
  <2>6. PipesDestroyed(h, m) = PipesDestroyed(h, n) \o PipeDestroyed(h, n)
    <3>1. FlattenSeq(s) = FlattenSeq(t) \o s[m]
      <4>1. /\ n \in Nat /\ m \in Nat /\ m = n + 1
            /\ s \in [1..m -> Seq(Resource)] /\ t = [i \in 1..n |-> s[i]]
        BY <2>1, <2>3, <2>5
      <4> QED BY ONLY <4>1, FlattenLast
    <3> QED BY <2>3, <2>4, <3>1
  <2>7. \A r \in h : r[1] \in PartKind => r[2] \in Nat
    BY PipeContainers DEF Pipe
  <2>8. PipesHeld(h, m) = PipesHeld(h, n) \cup PipeHeld(h, n) /\ PipesHeld(h, n) \cap PipeHeld(h, n) = {}
    BY <2>1, <2>5, <2>7 DEF PipesHeld, PipeHeld
  <2>9. ASSUME NEW r \in PipeHeld(h, n) PROVE Container(r) \notin PipesHeld(h, n)
    <3>1. Container(r) = Pipes \/ Container(r) = Vector(n)
      BY PipeContainers DEF PipeHeld
    <3>2. Pipes[1] \notin PartKind /\ Vector(n)[2] = n
      BY KindOf DEF Top
    <3> QED BY <2>1, <3>1, <3>2 DEF PipesHeld
  <2>10. Releases(PipeDestroyed(h, n), PipeHeld(h, n))
    BY <2>1, PipeReleased
  <2>11. Releases(PipesDestroyed(h, m), PipesHeld(h, m))
    BY <1>2, <2>6, <2>8, <2>9, <2>10, ReleasesBoth
  <2> QED BY <2>1, <2>5, <2>11
<1> HIDE DEF T
<1>3. N \in Nat
  BY CreateAssumption
<1>4. 0..N \subseteq T
  BY <1>1, <1>2, <1>3, UpTo
<1>5. N \in T
  BY <1>3, <1>4
<1> QED BY <1>5 DEF T

\* The vectors and the pipeline itself, after what was in the pipes.
LEMMA VectorsReleased ==
  ASSUME NEW h \in SUBSET Resource, Top \subseteq h, NEW s,
         Releases(s, PipesHeld(h, NStages + 1))
  PROVE  Releases(s \o Vectors, h \ Syncs)
<1> DEFINE A == PipesHeld(h, NStages + 1)
<1>1. /\ Container(Pipes) = Pipeline /\ Container(Impls) = Pipeline /\ Container(Stages) = Pipeline
      /\ Pipes # Impls /\ Pipes # Stages /\ Pipes # Pipeline /\ Impls # Stages
      /\ Impls # Pipeline /\ Stages # Pipeline
  BY DEF Container, Pipeline, Pipes, Impls, Stages
<1>2. Vectors \in Seq(Top) /\ Len(Vectors) = 4 /\ Vectors[1] = Pipes /\ Vectors[2] = Impls
      /\ Vectors[3] = Stages /\ Vectors[4] = Pipeline
  BY DEF Vectors, Top
<1>3. Releases(Vectors, Top)
  <2>1. \A r \in Top : \E i \in 1..4 : Vectors[i] = r
    BY <1>2 DEF Top
  <2>2. \A i, j \in 1..4 : Vectors[i] = Vectors[j] => i = j
    BY <1>1, <1>2
  <2>3. ASSUME NEW i \in 1..4, Vectors[i] # Pipeline
        PROVE  \E j \in i + 1..4 : Vectors[j] = Container(Vectors[i])
    <3>1. i < 4 /\ Container(Vectors[i]) = Pipeline /\ 4 \in i + 1..4
      BY <1>1, <1>2, <2>3
    <3> QED BY <1>2, <3>1
  <2> QED BY <1>2, <2>1, <2>2, <2>3 DEF Releases
<1>4. A \cap Top = {} /\ Pipeline \notin A
  BY KindOf DEF PipesHeld, Top
<1>5. \A r \in Top : r # Pipeline => Container(r) \notin A
  BY <1>1, <1>4 DEF Top
<1>6. A \cup Top = h \ Syncs
  <2>1. ASSUME NEW r \in h, r \notin Top, r \notin Syncs PROVE r \in A
    <3>1. r[1] \in PartKind /\ r[2] \in Pipe
      BY <2>1, Kinds, KindOf DEF PartKind
    <3> QED BY <3>1, CreateAssumption DEF PipesHeld, Pipe
  <2>2. \A r \in A : r \notin Syncs /\ r \in h
    BY KindOf DEF PipesHeld
  <2>3. \A r \in Top : r \notin Syncs
    BY KindOf
  <2> QED BY <2>1, <2>2, <2>3
<1> HIDE DEF A
<1>7. Releases(s \o Vectors, A \cup Top)
  BY <1>3, <1>4, <1>5, ReleasesBoth DEF A
<1> QED BY <1>6, <1>7

\* mtdp_pipeline_destroy.
LEMMA PipelineReleased ==
  ASSUME NEW h \in SUBSET Resource, Top \subseteq h, \A p \in Pipe : PipeWhole(h, p)
  PROVE  Releases(Destroyed(h), h \ Syncs)
<1> DEFINE N == NStages + 1
<1>1. N \in 0..NStages + 1 /\ \A p \in 0..N - 1 : p \in Pipe
  BY CreateAssumption DEF Pipe
<1> HIDE DEF N
<1>2. Releases(PipesDestroyed(h, N), PipesHeld(h, N))
  BY <1>1, PipesReleased
<1> USE DEF N
<1> QED BY <1>2, VectorsReleased DEF Destroyed

-----------------------------------------------------------------------------
\* The parts of the first n pipes, in the order of their acquisition.
PartsOf(n) == FlattenSeq([i \in 1..n |-> PipeParts(i - 1)])

LEMMA Concatenated ==
  ASSUME NEW s \in Seq(Resource), NEW t \in Seq(Resource)
  PROVE  /\ s \o t \in Seq(Resource) /\ Len(s \o t) = Len(s) + Len(t)
         /\ \A i \in 1..Len(s) : (s \o t)[i] = s[i]
         /\ \A i \in Len(s) + 1..Len(s) + Len(t) : (s \o t)[i] = t[i - Len(s)]
OBVIOUS

LEMMA PipePartsAre ==
  ASSUME NEW p \in Pipe
  PROVE  /\ PipeParts(p) \in Seq(Resource) /\ Len(PipeParts(p)) = 5
         /\ PipeParts(p)[1] = PoolMutex(p) /\ PipeParts(p)[2] = FifoMutex(p)
         /\ PipeParts(p)[3] = Vector(p) /\ PipeParts(p)[4] = Block(p, 1)
         /\ PipeParts(p)[5] = Semaphore(p)
         /\ \A k \in 1..5 : /\ PipeParts(p)[k] \in Resource /\ PipeParts(p)[k][1] \in PartKind
                            /\ PipeParts(p)[k][2] = p /\ PipeParts(p)[k] \notin Top
         /\ \A j, k \in 1..5 : PipeParts(p)[j] = PipeParts(p)[k] => j = k
<1> DEFINE s == PipeParts(p)
<1>1. {PoolMutex(p), FifoMutex(p), Vector(p), Semaphore(p)} \subseteq Resource
  <2>1. {PoolMutex(p), FifoMutex(p), Vector(p), Semaphore(p), Buffers(p)}
          \in {{PoolMutex(q), FifoMutex(q), Vector(q), Semaphore(q), Buffers(q)} : q \in Pipe}
    OBVIOUS
  <2> QED BY <2>1 DEF Resource
<1>2. Block(p, 1) \in Resource
  <2>1. 1 \in 1..MaxBlocks
    BY CreateAssumption
  <2> QED BY <2>1 DEF Resource
<1>3. /\ s \in Seq(Resource) /\ Len(s) = 5
      /\ s[1] = PoolMutex(p) /\ s[2] = FifoMutex(p)
      /\ s[3] = Vector(p) /\ s[4] = Block(p, 1) /\ s[5] = Semaphore(p)
  BY <1>1, <1>2 DEF PipeParts
<1> HIDE DEF s
<1>4. /\ s[1][1] = "pool_mutex" /\ s[2][1] = "fifo_mutex" /\ s[3][1] = "blocks"
      /\ s[4][1] = "block" /\ s[5][1] = "semaphore"
      /\ s[1][2] = p /\ s[2][2] = p /\ s[3][2] = p /\ s[4][2] = p /\ s[5][2] = p
  BY <1>3, KindOf
<1>5. \A k \in 1..5 : k = 1 \/ k = 2 \/ k = 3 \/ k = 4 \/ k = 5
  OBVIOUS
<1>6. ASSUME NEW k \in 1..5
      PROVE  s[k] \in Resource /\ s[k][1] \in PartKind /\ s[k][2] = p /\ s[k] \notin Top
  <2>1. s[k] \in Resource
    BY <1>3
  <2>2. s[k][1] \in PartKind /\ s[k][2] = p
    BY <1>4, <1>5 DEF PartKind
  <2> QED BY <2>1, <2>2, KindOf
<1>7. ASSUME NEW j \in 1..5, NEW k \in 1..5, s[j] = s[k] PROVE j = k
  <2>1. s[j][1] = s[k][1]
    BY <1>7
  <2> QED BY <1>4, <1>5, <2>1
<1> QED BY <1>3, <1>6, <1>7 DEF s

LEMMA PartsOfAre ==
  LET N == NStages + 1
  IN  /\ PartsOf(N) \in Seq(Resource) /\ Len(PartsOf(N)) = 5 * N
      /\ \A p \in Pipe, k \in 1..5 : PartsOf(N)[5 * p + k] = PipeParts(p)[k]
<1> DEFINE N == NStages + 1
           Good(n) == /\ PartsOf(n) \in Seq(Resource) /\ Len(PartsOf(n)) = 5 * n
                      /\ \A p \in 0..n - 1, k \in 1..5 : PartsOf(n)[5 * p + k] = PipeParts(p)[k]
           T == {n \in 0..N : Good(n)}
<1>1. N \in Nat /\ Pipe = 0..N - 1
  BY CreateAssumption DEF Pipe
<1> HIDE DEF N
<1>2. 0 \in T
  <2>1. PartsOf(0) = <<>>
    BY DEF PartsOf, FlattenSeq
  <2>2. PartsOf(0) \in Seq(Resource) /\ Len(PartsOf(0)) = 5 * 0
    <3>1. <<>> \in Seq(Resource) /\ Len(<<>>) = 0 /\ 5 * 0 = 0
      OBVIOUS
    <3> QED BY <2>1, <3>1
  <2>3. 0..0 - 1 = {} /\ 0 \in 0..N
    BY <1>1
  <2>4. Good(0)
    BY <2>2, <2>3
  <2> QED BY <2>3, <2>4
<1>3. ASSUME NEW n \in 0..N - 1, n \in T PROVE n + 1 \in T
  <2> DEFINE m == n + 1
             s == [i \in 1..m |-> PipeParts(i - 1)]
             t == [i \in 1..n |-> PipeParts(i - 1)]
  <2>1. n \in Nat /\ m \in Nat /\ m = n + 1 /\ n \in Pipe /\ m \in 0..N
    BY <1>1
  <2>2. ASSUME NEW i \in 1..m PROVE PipeParts(i - 1) \in Seq(Resource)
    <3>1. i - 1 \in Pipe
      BY <1>1, <2>1
    <3> QED BY <3>1, PipePartsAre
  <2>3. s \in [1..m -> Seq(Resource)] /\ t = [i \in 1..n |-> s[i]] /\ s[m] = PipeParts(n)
    <3>1. 1..n \subseteq 1..m /\ m \in 1..m /\ m - 1 = n
      BY <2>1
    <3> HIDE DEF m
    <3> QED BY <2>2, <3>1
  <2>4. PartsOf(m) = FlattenSeq(s) /\ PartsOf(n) = FlattenSeq(t)
    BY DEF PartsOf
  <2> HIDE DEF m, s, t
  <2>5. PartsOf(m) = PartsOf(n) \o PipeParts(n)
    <3>1. FlattenSeq(s) = FlattenSeq(t) \o s[m]
      <4>1. /\ n \in Nat /\ m \in Nat /\ m = n + 1
            /\ s \in [1..m -> Seq(Resource)] /\ t = [i \in 1..n |-> s[i]]
        BY <2>1, <2>3
      <4> QED BY ONLY <4>1, FlattenLast
    <3> QED BY <2>3, <2>4, <3>1
  <2> DEFINE a == PartsOf(n)
             b == PipeParts(n)
             c == PartsOf(m)
  <2>6. /\ a \in Seq(Resource) /\ Len(a) = 5 * n
        /\ \A p \in 0..n - 1, k \in 1..5 : a[5 * p + k] = PipeParts(p)[k]
    BY <1>3
  <2>7. b \in Seq(Resource) /\ Len(b) = 5
    BY <2>1, PipePartsAre
  <2>8. c = a \o b
    BY <2>5
  <2> HIDE DEF a, b, c
  <2>9. /\ c \in Seq(Resource) /\ Len(c) = 5 * n + 5
        /\ \A i \in 1..5 * n : c[i] = a[i]
        /\ \A i \in 5 * n + 1..5 * n + 5 : c[i] = b[i - 5 * n]
    <3> DEFINE l == 5 * n
    <3>1. l \in Nat /\ Len(a) = l /\ l = 5 * n
      BY <2>1, <2>6
    <3> HIDE DEF l
    <3>2. /\ c \in Seq(Resource) /\ Len(c) = l + 5
          /\ \A i \in 1..l : c[i] = a[i]
          /\ \A i \in l + 1..l + 5 : c[i] = b[i - l]
      <4>1. /\ a \o b \in Seq(Resource) /\ Len(a \o b) = Len(a) + Len(b)
            /\ \A i \in 1..Len(a) : (a \o b)[i] = a[i]
            /\ \A i \in Len(a) + 1..Len(a) + Len(b) : (a \o b)[i] = b[i - Len(a)]
        BY <2>6, <2>7, Concatenated
      <4> QED BY ONLY <2>7, <2>8, <3>1, <4>1
    <3> QED BY <3>1, <3>2
  <2>10. ASSUME NEW p \in 0..m - 1, NEW k \in 1..5 PROVE c[5 * p + k] = PipeParts(p)[k]
    <3>1. CASE p = n
      <4>1. PICK i \in 5 * n + 1..5 * n + 5 : i = 5 * p + k /\ i - 5 * n = k
        BY <2>1, <3>1
      <4> QED BY <2>9, <3>1, <4>1 DEF b
    <3>2. CASE p # n
      <4>1. PICK i \in 1..5 * n : i = 5 * p + k
        BY <2>1, <3>2
      <4>2. p \in 0..n - 1
        BY <2>1, <3>2
      <4> QED BY <2>6, <2>9, <4>1, <4>2
    <3> QED BY <3>1, <3>2
  <2>11. Len(c) = 5 * m
    BY <2>1, <2>9
  <2>12. Good(m)
    BY <2>9, <2>10, <2>11 DEF c
  <2> QED BY <2>1, <2>12
<1> HIDE DEF T
<1>4. 0..N \subseteq T
  BY <1>1, <1>2, <1>3, UpTo
<1>5. N \in T
  BY <1>1, <1>4
<1>6. Good(N)
  BY <1>5 DEF T
<1> QED BY <1>1, <1>6 DEF N

LEMMA AcquireOrder ==
  /\ ToAcquire \in Seq(Resource) /\ Len(ToAcquire) = 3 + 5 * (NStages + 1)
  /\ ToAcquire[1] = Stages /\ ToAcquire[2] = Impls /\ ToAcquire[3] = Pipes
  /\ \A p \in Pipe, k \in 1..5 : ToAcquire[3 + 5 * p + k] = PipeParts(p)[k]
<1> DEFINE N == NStages + 1
           v == <<Stages, Impls, Pipes>>
           c == PartsOf(N)
           u == ToAcquire
<1>1. N \in Nat /\ Pipe = 0..N - 1
  BY CreateAssumption DEF Pipe
<1>2. /\ c \in Seq(Resource) /\ Len(c) = 5 * N
      /\ \A p \in Pipe, k \in 1..5 : c[5 * p + k] = PipeParts(p)[k]
  BY PartsOfAre
<1>3. v \in Seq(Resource) /\ Len(v) = 3 /\ v[1] = Stages /\ v[2] = Impls /\ v[3] = Pipes
  BY DEF Resource
<1>4. u = v \o c
  BY DEF ToAcquire, PartsOf
<1> HIDE DEF N, v, c, u
<1>5. /\ u \in Seq(Resource) /\ Len(u) = 3 + 5 * N
      /\ u[1] = v[1] /\ u[2] = v[2] /\ u[3] = v[3]
      /\ \A i \in 4..3 + 5 * N : u[i] = c[i - 3]
  <2> DEFINE l == 5 * N
  <2>1. l \in Nat /\ Len(c) = l /\ l = 5 * N
    BY <1>1, <1>2
  <2> HIDE DEF l
  <2>2. /\ u \in Seq(Resource) /\ Len(u) = 3 + l
        /\ \A i \in 1..3 : u[i] = v[i]
        /\ \A i \in 3 + 1..3 + l : u[i] = c[i - 3]
    <3>1. /\ v \o c \in Seq(Resource) /\ Len(v \o c) = Len(v) + Len(c)
          /\ \A i \in 1..Len(v) : (v \o c)[i] = v[i]
          /\ \A i \in Len(v) + 1..Len(v) + Len(c) : (v \o c)[i] = c[i - Len(v)]
      BY <1>2, <1>3, Concatenated
    <3> QED BY ONLY <1>3, <1>4, <2>1, <3>1
  <2> QED BY <2>1, <2>2
<1>6. ASSUME NEW p \in Pipe, NEW k \in 1..5 PROVE u[3 + 5 * p + k] = PipeParts(p)[k]
  <2>1. PICK i \in 4..3 + 5 * N : i = 3 + 5 * p + k /\ i - 3 = 5 * p + k
    BY <1>1
  <2>2. u[i] = c[i - 3]
    BY <1>5
  <2> QED BY <1>2, <2>1, <2>2
<1> QED BY <1>3, <1>5, <1>6 DEF N, u

-----------------------------------------------------------------------------
\* The first n resources, after the pipeline itself.
Acquired(n) == {Pipeline} \cup {ToAcquire[i] : i \in 1..n}

\* mtdp_pipeline_create got so far: h is what it acquired, t what is left.
Creating(h, t) ==
  \E n \in 0..Len(ToAcquire) :
    /\ h = Acquired(n)
    /\ t = SubSeq(ToAcquire, n + 1, Len(ToAcquire))

\* h has all vectors and the parts that come before part k of pipe p.
HasUpTo(h, p, k) ==
  /\ Top \subseteq h /\ h \in SUBSET Resource
  /\ \A q \in Pipe, j \in 1..5 : PipeParts(q)[j] \in h <=> 5 * q + j < 5 * p + k
  /\ \A r \in h : r \in Top \/ \E q \in Pipe, j \in 1..5 : r = PipeParts(q)[j]

LEMMA UpToPart ==
  ASSUME NEW p \in Nat, NEW k \in 1..5, NEW n \in 0..Len(ToAcquire), n + 1 = 3 + 5 * p + k
  PROVE  HasUpTo(Acquired(n), p, k)
<1> DEFINE h == {Pipeline} \cup {ToAcquire[i] : i \in 1..n}
<1>1. n \in Nat /\ Pipe = 0..NStages /\ NStages \in Nat
  BY AcquireOrder, CreateAssumption DEF Pipe
<1>2. n >= 3 /\ n <= 3 + 5 * (NStages + 1)
  BY <1>1, AcquireOrder
<1>3. Top \subseteq h
  <2>1. {1, 2, 3} \subseteq 1..n
    BY <1>1, <1>2
  <2>2. {ToAcquire[1], ToAcquire[2], ToAcquire[3]} \subseteq h
    BY <2>1
  <2> QED BY <2>2, AcquireOrder DEF Top
<1>4. ASSUME NEW i \in 1..n
      PROVE  \/ ToAcquire[i] \in Top
             \/ \E q \in Pipe, j \in 1..5 : i = 3 + 5 * q + j /\ ToAcquire[i] = PipeParts(q)[j]
  <2>1. CASE i <= 3
    <3>1. i = 1 \/ i = 2 \/ i = 3
      BY <1>1, <2>1
    <3> QED BY <3>1, AcquireOrder DEF Top
  <2>2. CASE i > 3
    <3> DEFINE q == (i - 4) \div 5
               j == ((i - 4) % 5) + 1
    <3>1. q \in Nat /\ j \in 1..5 /\ i = 3 + 5 * q + j
      BY <1>1, <2>2
    <3> HIDE DEF q, j
    <3>2. q <= NStages
      BY <1>1, <1>2, <3>1
    <3>3. q \in Pipe
      BY <1>1, <3>1, <3>2
    <3>4. ToAcquire[3 + 5 * q + j] = PipeParts(q)[j]
      BY <3>1, <3>3, AcquireOrder
    <3>5. i = 3 + 5 * q + j /\ ToAcquire[i] = PipeParts(q)[j]
      BY <3>1, <3>4
    <3> QED BY <3>1, <3>3, <3>5
  <2> QED BY <1>1, <2>1, <2>2
<1>5. \A r \in h : r \in Top \/ \E i \in 1..n : r = ToAcquire[i]
  BY DEF Top
<1>6. \A r \in h : r \in Top \/ \E q \in Pipe, j \in 1..5 : r = PipeParts(q)[j]
  BY <1>4, <1>5
<1>7. ASSUME NEW q \in Pipe, NEW j \in 1..5, 5 * q + j < 5 * p + k PROVE PipeParts(q)[j] \in h
  <2>1. PICK i \in 1..n : i = 3 + 5 * q + j
    BY <1>1, <1>7
  <2>2. ToAcquire[i] \in h
    OBVIOUS
  <2> QED BY <2>1, <2>2, AcquireOrder
<1>8. ASSUME NEW q \in Pipe, NEW j \in 1..5, PipeParts(q)[j] \in h PROVE 5 * q + j < 5 * p + k
  <2>1. PipeParts(q)[j] \notin Top
    BY PipePartsAre
  <2>2. PICK i \in 1..n : PipeParts(q)[j] = ToAcquire[i]
    BY <1>5, <1>8, <2>1
  <2>3. PICK q2 \in Pipe, j2 \in 1..5 : i = 3 + 5 * q2 + j2 /\ ToAcquire[i] = PipeParts(q2)[j2]
    BY <1>4, <2>1, <2>2
  <2>4. q2 = q
    BY <2>2, <2>3, PipePartsAre
  <2>5. j2 = j
    BY <2>2, <2>3, <2>4, PipePartsAre
  <2> QED BY <1>1, <2>3, <2>4, <2>5
<1>9. h \in SUBSET Resource
  <2>1. \A r \in Top : r \in Resource
    BY DEF Top, Resource
  <2> QED BY <1>6, <2>1, PipePartsAre
<1> QED BY <1>3, <1>6, <1>7, <1>8, <1>9 DEF HasUpTo, Acquired

\* What mtdp_pipe_init releases of the pipe it was about to complete.
LEMMA PipeUnwoundReleases ==
  ASSUME NEW p \in Pipe, NEW k \in 1..5, NEW h \in SUBSET Resource,
         \A j \in 1..5 : PipeParts(p)[j] \in h <=> j < k,
         \A r \in h : r \in Top \/ \E q \in Pipe, j \in 1..5 : r = PipeParts(q)[j]
  PROVE  Releases(PipeUnwound(h, PipeParts(p)[k]), PipeHeld(h, p))
<1> DEFINE r == PipeParts(p)[k]
           M == {PoolMutex(p), FifoMutex(p)}
<1>1. PipeHeld(h, p) = {PipeParts(p)[j] : j \in 1..k - 1}
  <2>1. ASSUME NEW x \in PipeHeld(h, p) PROVE \E j \in 1..k - 1 : x = PipeParts(p)[j]
    <3>1. x \in h /\ x[2] = p /\ x \notin Top
      BY KindOf DEF PipeHeld
    <3>2. PICK q \in Pipe, j \in 1..5 : x = PipeParts(q)[j]
      BY <3>1
    <3>3. q = p
      BY <3>1, <3>2, PipePartsAre
    <3>4. j < k
      BY <3>1, <3>2, <3>3
    <3> QED BY <3>2, <3>3, <3>4
  <2>2. ASSUME NEW j \in 1..k - 1 PROVE PipeParts(p)[j] \in PipeHeld(h, p)
    <3>1. j \in 1..5 /\ j < k
      OBVIOUS
    <3> QED BY <3>1, PipePartsAre DEF PipeHeld
  <2> QED BY <2>1, <2>2
<1>2. /\ r[2] = p
      /\ PipeParts(p)[1] = PoolMutex(p) /\ PipeParts(p)[2] = FifoMutex(p)
      /\ PipeParts(p)[3] = Vector(p) /\ PipeParts(p)[4] = Block(p, 1)
      /\ PipeParts(p)[5] = Semaphore(p)
  BY PipePartsAre
<1>3. /\ PoolMutex(p) # FifoMutex(p) /\ PoolMutex(p) # Vector(p) /\ PoolMutex(p) # Block(p, 1)
      /\ PoolMutex(p) # Semaphore(p) /\ FifoMutex(p) # Vector(p) /\ FifoMutex(p) # Block(p, 1)
      /\ FifoMutex(p) # Semaphore(p) /\ Vector(p) # Block(p, 1) /\ Vector(p) # Semaphore(p)
      /\ Block(p, 1) # Semaphore(p)
  BY DEF PoolMutex, FifoMutex, Vector, Block, Semaphore
<1>4. /\ Container(PoolMutex(p)) = Pipes /\ Container(FifoMutex(p)) = Pipes
      /\ Container(Vector(p)) = Pipes /\ Container(Block(p, 1)) = Vector(p)
  BY Parts
<1>5. Pipes \notin {PoolMutex(p), FifoMutex(p), Vector(p), Block(p, 1)}
  BY DEF Pipes, PoolMutex, FifoMutex, Vector, Block
<1>6. Releases(<<PoolMutex(p), FifoMutex(p)>>, M)
  BY <1>3, <1>4, <1>5, ReleasesTwo
<1>7. CASE k = 1
  <2>1. PipeHeld(h, p) = {} /\ r = PoolMutex(p)
    BY <1>1, <1>2, <1>7
  <2>2. PipeUnwound(h, r) = <<>>
    BY <1>2, <1>3, <2>1 DEF PipeUnwound
  <2> QED BY <2>1, <2>2, ReleasesNone
<1>8. CASE k = 2
  <2>1. PipeHeld(h, p) = {PoolMutex(p)} /\ r = FifoMutex(p)
    <3>1. 1..k - 1 = {1}
      BY <1>8
    <3> QED BY <1>1, <1>2, <1>8, <3>1
  <2>2. PipeUnwound(h, r) = <<PoolMutex(p)>>
    BY <1>2, <1>3, <2>1 DEF PipeUnwound
  <2> QED BY <1>4, <1>5, <2>1, <2>2, ReleasesOne
<1>9. CASE k = 3
  <2>1. PipeHeld(h, p) = M /\ r = Vector(p)
    <3>1. 1..k - 1 = {1, 2}
      BY <1>9
    <3> QED BY <1>1, <1>2, <1>9, <3>1
  <2>2. PipeUnwound(h, r) = <<PoolMutex(p), FifoMutex(p)>>
    BY <1>2, <1>3, <2>1 DEF PipeUnwound
  <2> QED BY <1>6, <2>1, <2>2
<1>10. CASE k = 4
  <2>1. PipeHeld(h, p) = {Vector(p)} \cup M /\ r = Block(p, 1)
    <3>1. 1..k - 1 = {1, 2, 3}
      BY <1>10
    <3> QED BY <1>1, <1>2, <1>10, <3>1
  <2>2. PipeUnwound(h, r) = <<Vector(p)>> \o <<PoolMutex(p), FifoMutex(p)>>
    BY <1>2, <1>3, <2>1 DEF PipeUnwound
  <2>3. Releases(<<Vector(p)>>, {Vector(p)})
    BY <1>4, <1>5, ReleasesOne
  <2>4. {Vector(p)} \cap M = {} /\ \A x \in M : Container(x) \notin {Vector(p)}
    BY <1>3, <1>4, <1>5
  <2> HIDE DEF M
  <2>5. Releases(<<Vector(p)>> \o <<PoolMutex(p), FifoMutex(p)>>, {Vector(p)} \cup M)
    BY <1>6, <2>3, <2>4, ReleasesBoth
  <2> QED BY <2>1, <2>2, <2>5
<1>11. CASE k = 5
  <2> DEFINE F == BlocksHeld(h, p) \cup {Vector(p)}
  <2>1. PipeHeld(h, p) = M \cup {Vector(p), Block(p, 1)} /\ r = Semaphore(p)
    <3>1. 1..k - 1 = {1, 2, 3, 4}
      BY <1>11
    <3> QED BY <1>1, <1>2, <1>11, <3>1
  <2>2. BlocksHeld(h, p) = {Block(p, 1)}
    <3>1. BlocksHeld(h, p) = {x \in PipeHeld(h, p) : x[1] = "block"}
      BY DEF BlocksHeld, PipeHeld, PartKind
    <3> QED BY <2>1, <3>1, KindOf
  <2>3. PipeUnwound(h, r) = <<PoolMutex(p), FifoMutex(p)>> \o FifoDestroyed(h, p)
    BY <1>2, <1>3, <2>1 DEF PipeUnwound
  <2>4. Releases(FifoDestroyed(h, p), F)
    BY FifoReleased
  <2>5. M \cap F = {} /\ \A x \in F : Container(x) \notin M
    BY <1>3, <1>4, <1>5, <2>2
  <2>6. M \cup F = PipeHeld(h, p)
    BY <2>1, <2>2
  <2> HIDE DEF M, F
  <2>7. Releases(<<PoolMutex(p), FifoMutex(p)>> \o FifoDestroyed(h, p), M \cup F)
    BY <1>6, <2>4, <2>5, ReleasesBoth
  <2> QED BY <2>3, <2>6, <2>7
<1> QED BY <1>7, <1>8, <1>9, <1>10, <1>11

\* Whatever it was about to acquire, it has acquired all that came before.
LEMMA CreatingAt ==
  ASSUME NEW h, NEW t, Creating(h, t)
  PROVE  \E n \in 0..Len(ToAcquire) :
           /\ h = Acquired(n)
           /\ t \in Seq(Resource)
           /\ t = <<>> <=> n = Len(ToAcquire)
           /\ t # <<>> => Head(t) = ToAcquire[n + 1]
           /\ t # <<>> => Creating(h \cup {Head(t)}, Tail(t))
<1> DEFINE A == ToAcquire
           l == Len(A)
<1>1. PICK n \in 0..l : h = Acquired(n) /\ t = SubSeq(A, n + 1, l)
  BY DEF Creating
<1>2. A \in Seq(Resource) /\ l \in Nat
  BY AcquireOrder
<1> HIDE DEF A
<1>3. CASE n = l
  <2>1. n + 1 \in Int /\ l \in Int /\ l < n + 1
    BY <1>2, <1>3
  <2>2. t = <<>>
    BY <1>1, <2>1, SubSeqEmpty
  <2> QED BY <1>1, <1>3, <2>2 DEF A
<1>4. CASE n # l
  <2>1. n + 1 \in 1..l /\ l \in n + 1..l
    BY <1>2, <1>4
  <2>2. Head(t) = A[n + 1] /\ Tail(t) = SubSeq(A, n + 1 + 1, l)
    BY <1>1, <1>2, <2>1, HeadTailOfSubSeq
  <2>3. t \in Seq(Resource) /\ Len(t) = l - (n + 1) + 1
    <3>1. \A i \in n + 1..l : A[i] \in Resource
      BY <1>2
    <3>2. n + 1 \in Int /\ l \in Int /\ n + 1 <= l
      BY <1>2, <2>1
    <3> QED BY <1>1, <3>1, <3>2, SubSeqProperties
  <2>4. t # <<>>
    <3>1. Len(t) # 0
      BY <1>2, <2>1, <2>3
    <3> QED BY <3>1
  <2>5. n + 1 \in 0..l /\ 1..n + 1 = 1..n \cup {n + 1}
    BY <1>2, <2>1
  <2>6. h \cup {Head(t)} = Acquired(n + 1)
    BY <1>1, <2>2, <2>5 DEF Acquired, A
  <2>7. Creating(h \cup {Head(t)}, Tail(t))
    BY <2>2, <2>5, <2>6 DEF Creating, A
  <2> QED BY <1>1, <1>4, <2>2, <2>3, <2>4, <2>7 DEF A
<1> QED BY <1>3, <1>4

\* What was acquired is found in what was acquired before.
Closed(h) == \A r \in h : r = Pipeline \/ r \in Syncs \/ Container(r) \in h

\* The number of the part to acquire after n resources.
LEMMA PartAt ==
  ASSUME NEW n \in Nat, n >= 3
  PROVE  \E p \in Nat, k \in 1..5 : n + 1 = 3 + 5 * p + k
<1> DEFINE p == (n - 3) \div 5
           k == ((n - 3) % 5) + 1
<1>1. p \in Nat /\ k \in 1..5 /\ n + 1 = 3 + 5 * p + k
  OBVIOUS
<1> HIDE DEF p, k
<1> QED BY <1>1

LEMMA TopContainers ==
  /\ \A r \in Top : r # Pipeline => Container(r) = Pipeline
  /\ Pipes # Impls /\ Pipes # Stages /\ Pipes # Pipeline /\ Impls # Stages
  /\ Impls # Pipeline /\ Stages # Pipeline
BY DEF Container, Top, Pipeline, Pipes, Impls, Stages

LEMMA CreatingClosed ==
  ASSUME NEW h, NEW t, Creating(h, t)
  PROVE  /\ h \in SUBSET Resource /\ Pipeline \in h /\ Closed(h)
         /\ t = <<>> => Top \subseteq h /\ \A p \in Pipe : PipeWhole(h, p)
<1>1. PICK n \in 0..Len(ToAcquire) :
        /\ h = Acquired(n)
        /\ t = <<>> <=> n = Len(ToAcquire)
  BY CreatingAt
<1>2. n \in Nat /\ Len(ToAcquire) = 3 + 5 * (NStages + 1) /\ NStages \in Nat /\ Pipe = 0..NStages
  BY AcquireOrder, CreateAssumption DEF Pipe
<1>3. CASE n < 3
  <2>1. h \subseteq Top
    <3>1. \A i \in 1..n : i = 1 \/ i = 2
      BY <1>2, <1>3
    <3> QED BY <1>1, <3>1, AcquireOrder DEF Top, Acquired
  <2>2. Top \subseteq Resource
    BY DEF Top, Resource
  <2>3. Pipeline \in h
    BY <1>1 DEF Acquired
  <2>4. t # <<>>
    BY <1>1, <1>2, <1>3
  <2> QED BY <2>1, <2>2, <2>3, <2>4, TopContainers DEF Closed
<1>4. CASE n >= 3
  <2>1. PICK p \in Nat, k \in 1..5 : n + 1 = 3 + 5 * p + k
    BY <1>2, <1>4, PartAt
  <2>2. /\ Top \subseteq h /\ h \in SUBSET Resource
        /\ \A q \in Pipe, j \in 1..5 : PipeParts(q)[j] \in h <=> 5 * q + j < 5 * p + k
        /\ \A r \in h : r \in Top \/ \E q \in Pipe, j \in 1..5 : r = PipeParts(q)[j]
    BY <1>1, <2>1, UpToPart DEF HasUpTo
  <2>3. Pipes \in h /\ Pipeline \in h
    BY <2>2 DEF Top
  <2>4. ASSUME NEW q \in Pipe, NEW j \in 1..5, PipeParts(q)[j] \in h
        PROVE  Container(PipeParts(q)[j]) \in h
    <3>1. CASE j = 4
      <4>1. 5 * q + 3 < 5 * p + k
        BY <1>2, <2>1, <2>2, <2>4, <3>1
      <4>2. PipeParts(q)[3] \in h
        BY <2>2, <4>1
      <4> QED BY <3>1, <4>2, PipePartsAre, Parts
    <3>2. CASE j # 4
      <4>1. j = 1 \/ j = 2 \/ j = 3 \/ j = 5
        BY <3>2
      <4> QED BY <2>3, <4>1, PipePartsAre, Parts
    <3> QED BY <3>1, <3>2
  <2>5. Closed(h)
    BY <2>2, <2>3, <2>4, TopContainers DEF Closed
  <2>6. ASSUME t = <<>>, NEW q \in Pipe PROVE PipeWhole(h, q)
    <3>1. 5 * q + 5 < 5 * p + k
      BY <1>1, <1>2, <2>1, <2>6
    <3>2. \A j \in 1..5 : PipeParts(q)[j] \in h
      BY <1>2, <2>1, <2>2, <3>1
    <3> QED BY <3>2, PipePartsAre DEF PipeWhole
  <2> QED BY <2>2, <2>3, <2>5, <2>6
<1> QED BY <1>2, <1>3, <1>4

\* mtdp_pipeline_create, after a step that failed.
LEMMA UnwoundReleases ==
  ASSUME NEW h, NEW t, Creating(h, t), t # <<>>
  PROVE  Releases(Unwound(h, Head(t)), h \ Syncs)
<1> DEFINE r == Head(t)
<1>1. PICK n \in 0..Len(ToAcquire) :
        /\ h = Acquired(n)
        /\ n # Len(ToAcquire) /\ r = ToAcquire[n + 1]
  BY CreatingAt
<1>2. n \in Nat /\ n < 3 + 5 * (NStages + 1) /\ NStages \in Nat /\ Pipe = 0..NStages
  BY <1>1, AcquireOrder, CreateAssumption DEF Pipe
<1> HIDE DEF r
<1>3. Releases(<<Pipeline>>, {Pipeline})
  BY ReleasesOne
<1>4. Releases(<<Stages, Pipeline>>, {Stages, Pipeline})
  <2>1. <<Stages, Pipeline>> \in Seq({Stages, Pipeline}) /\ Len(<<Stages, Pipeline>>) = 2
        /\ <<Stages, Pipeline>>[1] = Stages /\ <<Stages, Pipeline>>[2] = Pipeline
    OBVIOUS
  <2> QED BY <2>1, TopContainers DEF Releases, Top
<1>5. Releases(<<Impls, Stages, Pipeline>>, {Impls, Stages, Pipeline})
  <2> DEFINE s == <<Impls, Stages, Pipeline>>
  <2>1. s \in Seq({Impls, Stages, Pipeline}) /\ Len(s) = 3
        /\ s[1] = Impls /\ s[2] = Stages /\ s[3] = Pipeline
    OBVIOUS
  <2> HIDE DEF s
  <2>2. Releases(s, {Impls, Stages, Pipeline})
    BY <2>1, TopContainers DEF Releases, Top
  <2> QED BY <2>2 DEF s
<1>6. \A x \in Top : x \notin Syncs
  BY KindOf
<1>7. CASE n = 0
  <2>1. r = Stages /\ h = {Pipeline}
    BY <1>1, <1>7, AcquireOrder DEF Acquired
  <2>2. h \ Syncs = {Pipeline} /\ Unwound(h, r) = <<Pipeline>>
    BY <1>6, <2>1, TopContainers DEF Unwound, Top
  <2> QED BY <1>3, <2>2 DEF r
<1>8. CASE n = 1
  <2>1. r = Impls /\ h = {Stages, Pipeline}
    BY <1>1, <1>8, AcquireOrder DEF Acquired
  <2>2. h \ Syncs = {Stages, Pipeline} /\ Unwound(h, r) = <<Stages, Pipeline>>
    BY <1>6, <2>1, TopContainers DEF Unwound, Top
  <2> QED BY <1>4, <2>2 DEF r
<1>9. CASE n = 2
  <2>1. r = Pipes /\ h = {Impls, Stages, Pipeline}
    <3>1. 1..n = {1, 2}
      BY <1>9
    <3> QED BY <1>1, <1>9, <3>1, AcquireOrder DEF Acquired
  <2>2. h \ Syncs = {Impls, Stages, Pipeline} /\ Unwound(h, r) = <<Impls, Stages, Pipeline>>
    BY <1>6, <2>1, TopContainers DEF Unwound, Top
  <2> QED BY <1>5, <2>2 DEF r
<1>10. CASE n >= 3
  <2>1. PICK p \in Nat, k \in 1..5 : n + 1 = 3 + 5 * p + k
    BY <1>2, <1>10, PartAt
  <2>2. p \in Pipe
    BY <1>2, <2>1
  <2>3. r = PipeParts(p)[k]
    BY <1>1, <2>1, <2>2, AcquireOrder
  <2>4. /\ Top \subseteq h /\ h \in SUBSET Resource
        /\ \A q \in Pipe, j \in 1..5 : PipeParts(q)[j] \in h <=> 5 * q + j < 5 * p + k
        /\ \A x \in h : x \in Top \/ \E q \in Pipe, j \in 1..5 : x = PipeParts(q)[j]
    BY <1>1, <2>1, UpToPart DEF HasUpTo
  <2>5. \A j \in 1..5 : PipeParts(p)[j] \in h <=> j < k
    BY <1>2, <2>1, <2>2, <2>4
  <2>6. Releases(PipeUnwound(h, r), PipeHeld(h, p))
    BY <2>2, <2>3, <2>4, <2>5, PipeUnwoundReleases
  <2>7. \A q \in 0..p - 1 : PipeWhole(h, q)
    <3>1. ASSUME NEW q \in 0..p - 1, NEW j \in 1..5 PROVE q \in Pipe /\ PipeParts(q)[j] \in h
      BY <1>2, <2>1, <2>2, <2>4
    <3> QED BY <3>1, PipePartsAre DEF PipeWhole
  <2>8. Releases(PipesDestroyed(h, p), PipesHeld(h, p))
    <3>1. p \in 0..NStages + 1
      BY <1>2, <2>2
    <3> QED BY <2>4, <2>7, <3>1, PipesReleased
  <2>9. PipeHeld(h, p) \cap PipesHeld(h, p) = {}
    BY DEF PipeHeld, PipesHeld
  <2>10. ASSUME NEW x \in PipesHeld(h, p) PROVE Container(x) \notin PipeHeld(h, p)
    <3>1. Container(x) = Pipes \/ Container(x) = Vector(x[2])
      BY <2>4, PipeContainers DEF PipesHeld
    <3>2. Pipes[1] \notin PartKind /\ Vector(x[2])[2] = x[2] /\ x[2] # p
      BY KindOf DEF Top, PipesHeld
    <3> QED BY <3>1, <3>2 DEF PipeHeld
  <2>11. PipeHeld(h, p) \cup PipesHeld(h, p) = PipesHeld(h, NStages + 1)
    <3>1. ASSUME NEW x \in h, x[1] \in PartKind PROVE x[2] \in Pipe /\ x[2] <= p
      <4>1. PICK q \in Pipe, j \in 1..5 : x = PipeParts(q)[j]
        BY <2>4, <3>1, KindOf
      <4>2. x[2] = q
        BY <4>1, PipePartsAre
      <4> QED BY <1>2, <2>1, <2>4, <4>1, <4>2
    <3> QED BY <1>2, <2>2, <3>1 DEF PipeHeld, PipesHeld
  <2>12. Releases(PipeUnwound(h, r) \o PipesDestroyed(h, p), PipesHeld(h, NStages + 1))
    <3>1. Releases(PipeUnwound(h, r) \o PipesDestroyed(h, p), PipeHeld(h, p) \cup PipesHeld(h, p))
      BY <2>6, <2>8, <2>9, <2>10, ReleasesBoth
    <3> QED BY <2>11, <3>1
  <2>13. Releases(PipeUnwound(h, r) \o PipesDestroyed(h, p) \o Vectors, h \ Syncs)
    BY <2>4, <2>12, VectorsReleased
  <2>14. r \notin Top /\ r[2] = p
    BY <2>2, <2>3, PipePartsAre
  <2>15. Unwound(h, r) = PipeUnwound(h, r) \o PipesDestroyed(h, p) \o Vectors
    BY <2>14 DEF Unwound, Top
  <2> QED BY <2>13, <2>15 DEF r
<1> QED BY <1>2, <1>7, <1>8, <1>9, <1>10
-----------------------------------------------------------------------------
Places == {"none", "creating", "failing", "ready", "destroying"}
Errors == {"OK", "NO_MEM", "BAD_PTR"}

\* What a thread that is at a has of its pipeline, h, and has to do with it, t.
Kept(a, h, t) ==
  /\ Closed(h)
  /\ a = "none" => h \subseteq Syncs /\ t = <<>>
  /\ a = "creating" => Creating(h, t)
  /\ a = "ready" => t = <<>> /\ Top \subseteq h /\ \A p \in Pipe : PipeWhole(h, p)
  /\ a \in {"failing", "destroying"} => Releases(t, h \ Syncs)

\* The inductive invariant.
CInv ==
  /\ TypeOK
  /\ \A c \in Thread : Kept(at[c], held[c], todo[c])
  /\ OneStaticInstance

\* What a step does to the flag of the static instance and to who has it.
FlagKept(c, h) ==
  build = "static" =>
    \/ owned' = owned /\ (Pipeline \in h <=> Pipeline \in held[c])
    \/ ~owned /\ owned' = TRUE /\ Pipeline \in h
    \/ owned' = FALSE /\ Pipeline \in held[c] /\ Pipeline \notin h

\* A step of one thread.
LEMMA Moved ==
  ASSUME CInv, NEW c \in Thread,
         NEW a \in Places, NEW h \in SUBSET Resource, NEW t \in Seq(Resource), NEW e \in Errors,
         Kept(a, h, t), FlagKept(c, h), owned' \in BOOLEAN, build' = build,
         at' = [at EXCEPT ![c] = a], held' = [held EXCEPT ![c] = h],
         todo' = [todo EXCEPT ![c] = t], errno' = [errno EXCEPT ![c] = e]
  PROVE  CInv'
<1>1. TypeOK'
  BY DEF CInv, TypeOK, Places, Errors
<1>2. /\ \A d \in Thread : d # c => at'[d] = at[d] /\ held'[d] = held[d] /\ todo'[d] = todo[d]
      /\ at'[c] = a /\ held'[c] = h /\ todo'[c] = t
  BY DEF CInv, TypeOK
<1>3. ASSUME NEW d \in Thread PROVE Kept(at'[d], held'[d], todo'[d])
  <2>1. Kept(at[d], held[d], todo[d])
    BY DEF CInv
  <2>2. CASE d = c
    BY <1>2, <2>2
  <2>3. CASE d # c
    <3>1. at'[d] = at[d] /\ held'[d] = held[d] /\ todo'[d] = todo[d]
      BY <1>2, <2>3
    <3> QED BY <2>1, <3>1
  <2> QED BY <2>2, <2>3
<1>4. OneStaticInstance'
  <2> SUFFICES ASSUME build = "static"
               PROVE  /\ \A x, y \in Thread : Pipeline \in held'[x] \cap held'[y] => x = y
                      /\ owned' = \E x \in Thread : Pipeline \in held'[x]
    BY DEF OneStaticInstance
  <2>1. /\ \A x, y \in Thread : Pipeline \in held[x] \cap held[y] => x = y
        /\ owned = \E x \in Thread : Pipeline \in held[x]
    BY DEF CInv, OneStaticInstance
  <2>2. CASE owned' = owned /\ (Pipeline \in h <=> Pipeline \in held[c])
    BY <1>2, <2>1, <2>2
  <2>3. CASE ~owned /\ owned' = TRUE /\ Pipeline \in h
    BY <1>2, <2>1, <2>3
  <2>4. CASE owned' = FALSE /\ Pipeline \in held[c] /\ Pipeline \notin h
    BY <1>2, <2>1, <2>4
  <2> QED BY <2>2, <2>3, <2>4 DEF FlagKept
<1> QED BY <1>1, <1>3, <1>4 DEF CInv

LEMMA InitCInv == Init => CInv
<1> SUFFICES ASSUME Init PROVE CInv
  OBVIOUS
<1>1. TypeOK
  <2>1. <<>> \in Seq(Resource) /\ {} \in SUBSET Resource
    OBVIOUS
  <2> QED BY <2>1 DEF Init, TypeOK
<1>2. ASSUME NEW c \in Thread PROVE Kept(at[c], held[c], todo[c])
  BY DEF Init, Kept, Closed
<1>3. OneStaticInstance
  BY DEF Init, OneStaticInstance
<1> QED BY <1>1, <1>2, <1>3 DEF CInv

\* What the thread has and has to do, in the types that the lemmas ask for.
LEMMA Has ==
  ASSUME CInv, NEW c \in Thread
  PROVE  /\ at[c] \in Places /\ held[c] \in SUBSET Resource /\ todo[c] \in Seq(Resource)
         /\ errno[c] \in Errors /\ owned \in BOOLEAN
         /\ at = [at EXCEPT ![c] = at[c]] /\ held = [held EXCEPT ![c] = held[c]]
         /\ todo = [todo EXCEPT ![c] = todo[c]] /\ errno = [errno EXCEPT ![c] = errno[c]]
         /\ Kept(at[c], held[c], todo[c])
<1>1. TypeOK /\ Kept(at[c], held[c], todo[c])
  BY DEF CInv
<1>2. /\ at[c] \in Places /\ held[c] \in SUBSET Resource /\ todo[c] \in Seq(Resource)
      /\ errno[c] \in Errors /\ owned \in BOOLEAN
  BY <1>1 DEF TypeOK, Places, Errors
<1>3. /\ at = [at EXCEPT ![c] = at[c]] /\ held = [held EXCEPT ![c] = held[c]]
      /\ todo = [todo EXCEPT ![c] = todo[c]] /\ errno = [errno EXCEPT ![c] = errno[c]]
  BY <1>1 DEF TypeOK
<1> QED BY <1>1, <1>2, <1>3

-----------------------------------------------------------------------------
\* More of a pipeline that is closed.
LEMMA ClosedMore ==
  ASSUME NEW h, Closed(h), NEW k, \A r \in k : r \in Syncs \/ Container(r) \in h
  PROVE  Closed(h \cup k)
BY DEF Closed

LEMMA CreateKeeps ==
  ASSUME CInv, NEW c \in Thread, Create(c)
  PROVE  CInv'
<1>1. PICK ok \in BOOLEAN :
        /\ Alloc(ok)
        /\ IF ok
             THEN /\ Goto(c, "none", "creating")
                  /\ held' = [held EXCEPT ![c] = {Pipeline}]
                  /\ todo' = [todo EXCEPT ![c] = ToAcquire]
                  /\ UNCHANGED errno
             ELSE Set(c, "BAD_PTR") /\ UNCHANGED <<at, held, todo>>
  BY DEF Create
<1>2. /\ build' = build /\ owned' \in BOOLEAN
      /\ build = "static" => ok = ~owned /\ owned' = TRUE
  <2>1. build' = build
    BY DEF Create
  <2>2. CASE build = "static"
    BY <1>1, <2>1, <2>2 DEF Alloc
  <2>3. CASE build # "static"
    BY <1>1, <2>1, <2>3, Has DEF Alloc
  <2> QED BY <2>1, <2>2, <2>3
<1>3. CASE ok
  <2>1. Creating({Pipeline}, ToAcquire)
    <3>1. ToAcquire \in Seq(Resource) /\ 0 \in 0..Len(ToAcquire)
      BY AcquireOrder, CreateAssumption
    <3>2. ToAcquire = SubSeq(ToAcquire, 0 + 1, Len(ToAcquire))
      BY <3>1, SubSeqFull
    <3>3. {Pipeline} = Acquired(0)
      BY DEF Acquired
    <3> QED BY <3>1, <3>2, <3>3 DEF Creating
  <2>2. {Pipeline} \in SUBSET Resource /\ Closed({Pipeline})
    BY DEF Resource, Closed
  <2>3. Kept("creating", {Pipeline}, ToAcquire)
    BY <2>1, <2>2 DEF Kept
  <2>4. FlagKept(c, {Pipeline})
    BY <1>2, <1>3 DEF FlagKept
  <2>5. at' = [at EXCEPT ![c] = "creating"] /\ errno' = [errno EXCEPT ![c] = errno[c]]
    BY <1>1, <1>3, Has DEF Goto
  <2>6. ToAcquire \in Seq(Resource) /\ "creating" \in Places /\ errno[c] \in Errors
    BY AcquireOrder, Has DEF Places
  <2> QED BY <1>1, <1>2, <1>3, <2>2, <2>3, <2>4, <2>5, <2>6, Moved
<1>4. CASE ~ok
  <2>1. FlagKept(c, held[c])
    BY <1>2, <1>4, Has DEF FlagKept
  <2>2. /\ at' = [at EXCEPT ![c] = at[c]] /\ held' = [held EXCEPT ![c] = held[c]]
        /\ todo' = [todo EXCEPT ![c] = todo[c]] /\ errno' = [errno EXCEPT ![c] = "BAD_PTR"]
    BY <1>1, <1>4, Has DEF Set
  <2>3. "BAD_PTR" \in Errors
    BY DEF Errors
  <2> QED BY <1>2, <2>1, <2>2, <2>3, Has, Moved
<1> QED BY <1>3, <1>4

LEMMA AcquireKeeps ==
  ASSUME CInv, NEW c \in Thread, Acquire(c)
  PROVE  CInv'
<1> DEFINE r == Head(todo[c])
           h == held[c] \cup {r}
           t == Tail(todo[c])
<1>1. /\ at[c] = "creating" /\ todo[c] # <<>> /\ build' = build /\ owned' = owned
      /\ held' = [held EXCEPT ![c] = h] /\ todo' = [todo EXCEPT ![c] = t]
      /\ at' = at /\ errno' = errno
  BY Has DEF Acquire, CInv, TypeOK
<1>2. Creating(held[c], todo[c])
  BY <1>1, Has DEF Kept
<1>3. Creating(h, t)
  BY <1>1, <1>2, CreatingAt
<1>4. h \in SUBSET Resource /\ Closed(h)
  BY <1>3, CreatingClosed
<1>5. t \in Seq(Resource)
  BY <1>3, CreatingAt
<1>6. Pipeline \in held[c]
  BY <1>2, CreatingClosed
<1> HIDE DEF h, t
<1>7. Kept("creating", h, t)
  BY <1>3, <1>4 DEF Kept
<1>8. FlagKept(c, h)
  BY <1>1, <1>6 DEF FlagKept, h
<1> QED BY <1>1, <1>4, <1>5, <1>7, <1>8, Has, Moved

LEMMA FailKeeps ==
  ASSUME CInv, NEW c \in Thread, Fail(c)
  PROVE  CInv'
<1> DEFINE t == Unwound(held[c], Head(todo[c]))
<1>1. /\ at[c] = "creating" /\ todo[c] # <<>> /\ build' = build /\ owned' = owned
      /\ todo' = [todo EXCEPT ![c] = t] /\ at' = [at EXCEPT ![c] = "failing"]
      /\ held' = held /\ errno' = errno
  BY Has DEF Fail, Goto, CInv, TypeOK
<1>2. Creating(held[c], todo[c])
  BY <1>1, Has DEF Kept
<1>3. Releases(t, held[c] \ Syncs)
  BY <1>1, <1>2, UnwoundReleases
<1> HIDE DEF t
<1>4. Kept("failing", held[c], t)
  BY <1>2, <1>3, CreatingClosed DEF Kept
<1>5. t \in Seq(Resource) /\ "failing" \in Places
  <2>1. t \in Seq(held[c] \ Syncs) /\ held[c] \in SUBSET Resource
    BY <1>3, Has DEF Releases
  <2> QED BY <2>1 DEF Places
<1>6. FlagKept(c, held[c])
  BY <1>1 DEF FlagKept
<1> QED BY <1>1, <1>4, <1>5, <1>6, Has, Moved

LEMMA ConfigureKeeps ==
  ASSUME CInv, NEW c \in Thread, Configure(c)
  PROVE  CInv'
<1>1. PICK ok \in SUBSET Worker : held' = [held EXCEPT ![c] = @ \cup {Sync(w) : w \in ok}]
  BY DEF Configure
<1> DEFINE k == {Sync(w) : w \in ok}
           h == held[c] \cup k
<1>2. /\ at[c] = "creating" /\ todo[c] = <<>> /\ build' = build /\ owned' = owned
      /\ held' = [held EXCEPT ![c] = h] /\ at' = [at EXCEPT ![c] = "ready"]
      /\ todo' = todo /\ errno' = [errno EXCEPT ![c] = "OK"]
  BY <1>1, Has DEF Configure, Goto, Set, CInv, TypeOK
<1>3. Creating(held[c], todo[c])
  BY <1>2, Has DEF Kept
<1>4. Closed(held[c]) /\ Top \subseteq held[c] /\ \A p \in Pipe : PipeWhole(held[c], p)
  BY <1>2, <1>3, CreatingClosed
<1>5. k \subseteq Syncs /\ Syncs \subseteq Resource
  BY DEF Syncs, Resource
<1> HIDE DEF k
<1>6. Closed(h) /\ h \in SUBSET Resource /\ (Pipeline \in h <=> Pipeline \in held[c])
  <2>1. Pipeline \notin Syncs
    BY KindOf DEF Top
  <2> QED BY <1>4, <1>5, <2>1, ClosedMore, Has
<1>7. Kept("ready", h, <<>>)
  BY <1>4, <1>6 DEF Kept, PipeWhole
<1>8. FlagKept(c, h)
  BY <1>2, <1>6 DEF FlagKept
<1> HIDE DEF h
<1>9. "ready" \in Places /\ "OK" \in Errors
  BY DEF Places, Errors
<1> QED BY <1>2, <1>6, <1>7, <1>8, <1>9, Has, Moved

\* One part more of a pipe, in a pipeline that is not destroyed.
LEMMA PartAdded ==
  ASSUME CInv, NEW c \in Thread, at[c] = "ready", NEW r \in Resource, NEW e \in Errors,
         r # Pipeline, Container(r) \in held[c], build' = build, owned' = owned, at' = at,
         held' = [held EXCEPT ![c] = held[c] \cup {r}], todo' = todo,
         errno' = [errno EXCEPT ![c] = e]
  PROVE  CInv'
<1> DEFINE h == held[c] \cup {r}
<1>1. /\ todo[c] = <<>> /\ Top \subseteq held[c] /\ \A p \in Pipe : PipeWhole(held[c], p)
      /\ Closed(held[c]) /\ held[c] \in SUBSET Resource
  BY Has DEF Kept
<1>2. Closed(h) /\ h \in SUBSET Resource /\ (Pipeline \in h <=> Pipeline \in held[c])
  BY <1>1, ClosedMore
<1>3. Kept("ready", h, <<>>)
  BY <1>1, <1>2 DEF Kept, PipeWhole
<1>4. FlagKept(c, h)
  BY <1>2 DEF FlagKept
<1>5. held' = [held EXCEPT ![c] = h]
  OBVIOUS
<1> HIDE DEF h
<1>6. /\ at' = [at EXCEPT ![c] = "ready"] /\ todo' = [todo EXCEPT ![c] = <<>>]
      /\ "ready" \in Places /\ <<>> \in Seq(Resource) /\ owned' \in BOOLEAN
  BY <1>1, Has DEF Places
<1> QED BY <1>2, <1>3, <1>4, <1>5, <1>6, Moved

LEMMA ResizeKeeps ==
  ASSUME CInv, NEW c \in Thread, NEW p \in Pipe, Resize(c, p)
  PROVE  CInv'
<1>1. /\ at[c] = "ready" /\ build' = build /\ owned' = owned /\ at' = at /\ todo' = todo
      /\ \/ /\ errno' = [errno EXCEPT ![c] = "OK"]
            /\ held' = [held EXCEPT ![c] = held[c] \cup {Buffers(p)}]
         \/ /\ errno' = [errno EXCEPT ![c] = "NO_MEM"]
            /\ held' = held
  BY Has DEF Resize, Set, CInv, TypeOK
<1>2. "OK" \in Errors /\ "NO_MEM" \in Errors
  BY DEF Errors
<1>3. CASE held' = held /\ errno' = [errno EXCEPT ![c] = "NO_MEM"]
  <2>1. FlagKept(c, held[c])
    BY <1>1 DEF FlagKept
  <2> QED BY <1>1, <1>2, <1>3, <2>1, Has, Moved
<1>4. CASE /\ errno' = [errno EXCEPT ![c] = "OK"]
           /\ held' = [held EXCEPT ![c] = held[c] \cup {Buffers(p)}]
  <2>1. Buffers(p) \in Resource
    <3>1. {PoolMutex(p), FifoMutex(p), Vector(p), Semaphore(p), Buffers(p)}
            \in {{PoolMutex(q), FifoMutex(q), Vector(q), Semaphore(q), Buffers(q)} : q \in Pipe}
      OBVIOUS
    <3> QED BY <3>1 DEF Resource
  <2>2. Container(Buffers(p)) \in held[c] /\ Buffers(p) # Pipeline
    <3>1. Pipes \in held[c]
      BY <1>1, Has DEF Kept, Top
    <3>2. Buffers(p)[1] = "buffers" /\ Pipeline[1] = "pipeline"
      BY DEF Buffers, Pipeline
    <3> QED BY <3>1, <3>2, Parts
  <2> QED BY <1>1, <1>2, <1>4, <2>1, <2>2, PartAdded
<1> QED BY <1>1, <1>3, <1>4

LEMMA GrowKeeps ==
  ASSUME CInv, NEW c \in Thread, NEW p \in Pipe, Grow(c, p)
  PROVE  CInv'
<1>1. PICK k \in 2..MaxBlocks : held' = [held EXCEPT ![c] = held[c] \cup {Block(p, k)}]
  BY Has DEF Grow, CInv, TypeOK
<1>2. /\ at[c] = "ready" /\ build' = build /\ owned' = owned /\ at' = at /\ todo' = todo
      /\ errno' = [errno EXCEPT ![c] = errno[c]] /\ errno[c] \in Errors
  BY Has DEF Grow
<1>3. Block(p, k) \in Resource
  <2>1. k \in 1..MaxBlocks
    BY CreateAssumption
  <2> QED BY <2>1 DEF Resource
<1>4. Container(Block(p, k)) \in held[c] /\ Block(p, k) # Pipeline
  <2>1. PipeWhole(held[c], p)
    BY <1>2, Has DEF Kept
  <2>2. Vector(p) \in held[c]
    BY <2>1 DEF PipeWhole
  <2>3. Block(p, k)[1] = "block" /\ Pipeline[1] = "pipeline"
    BY DEF Block, Pipeline
  <2> QED BY <2>2, <2>3, Parts
<1> QED BY <1>1, <1>2, <1>3, <1>4, PartAdded

LEMMA DestroyKeeps ==
  ASSUME CInv, NEW c \in Thread, Destroy(c)
  PROVE  CInv'
<1> DEFINE t == Destroyed(held[c])
<1>1. /\ at[c] = "ready" /\ build' = build /\ owned' = owned
      /\ todo' = [todo EXCEPT ![c] = t] /\ at' = [at EXCEPT ![c] = "destroying"]
      /\ held' = held /\ errno' = errno
  BY Has DEF Destroy, Goto, CInv, TypeOK
<1>2. /\ Top \subseteq held[c] /\ \A p \in Pipe : PipeWhole(held[c], p)
      /\ Closed(held[c]) /\ held[c] \in SUBSET Resource
  BY <1>1, Has DEF Kept
<1>3. Releases(t, held[c] \ Syncs)
  BY <1>2, PipelineReleased
<1> HIDE DEF t
<1>4. Kept("destroying", held[c], t)
  BY <1>2, <1>3 DEF Kept
<1>5. t \in Seq(Resource) /\ "destroying" \in Places
  <2>1. t \in Seq(held[c] \ Syncs) /\ held[c] \in SUBSET Resource
    BY <1>2, <1>3 DEF Releases
  <2> QED BY <2>1 DEF Places
<1>6. FlagKept(c, held[c])
  BY <1>1 DEF FlagKept
<1> QED BY <1>1, <1>4, <1>5, <1>6, Has, Moved

LEMMA ReleaseKeeps ==
  ASSUME CInv, NEW c \in Thread, Release(c)
  PROVE  CInv'
<1> DEFINE r == Head(todo[c])
           h == held[c] \ {r}
           t == Tail(todo[c])
<1>1. /\ at[c] \in {"failing", "destroying"} /\ todo[c] # <<>> /\ build' = build
      /\ owned' = (owned /\ r # Pipeline)
      /\ held' = [held EXCEPT ![c] = h] /\ todo' = [todo EXCEPT ![c] = t]
      /\ at' = at /\ errno' = errno
  BY Has DEF Release, Dealloc, CInv, TypeOK
<1>2. /\ Releases(todo[c], held[c] \ Syncs) /\ Closed(held[c])
      /\ held[c] \in SUBSET Resource /\ todo[c] \in Seq(Resource)
  BY <1>1, Has DEF Kept
<1>3. /\ r \in held[c] \ Syncs
      /\ Releases(t, (held[c] \ Syncs) \ {r})
      /\ \A x \in held[c] \ Syncs : x # Pipeline => Container(x) # r
  BY <1>1, <1>2, ReleasesRest
<1>4. t \in Seq(Resource)
  BY <1>1, <1>2
<1> HIDE DEF t, r
<1>5. Closed(h)
  BY <1>2, <1>3 DEF Closed
<1>6. h \ Syncs = (held[c] \ Syncs) \ {r} /\ h \in SUBSET Resource
  BY <1>2
<1>7. FlagKept(c, h)
  <2>1. CASE r = Pipeline
    BY <1>1, <1>3, <2>1 DEF FlagKept
  <2>2. CASE r # Pipeline
    <3>1. owned' = owned
      BY <1>1, <2>2, Has
    <3> QED BY <2>2, <3>1 DEF FlagKept
  <2> QED BY <2>1, <2>2
<1> HIDE DEF h
<1>8. Kept(at[c], h, t)
  BY <1>1, <1>3, <1>5, <1>6 DEF Kept
<1>9. owned' \in BOOLEAN
  BY <1>1, Has
<1> QED BY <1>1, <1>4, <1>6, <1>7, <1>8, <1>9, Has, Moved

LEMMA ReturnKeeps ==
  ASSUME CInv, NEW c \in Thread, Return(c)
  PROVE  CInv'
<1>1. PICK e \in Errors : errno' = [errno EXCEPT ![c] = e]
  BY DEF Return, Set, Errors
<1>2. /\ at[c] \in {"failing", "destroying"} /\ todo[c] = <<>> /\ build' = build /\ owned' = owned
      /\ at' = [at EXCEPT ![c] = "none"] /\ held' = held /\ todo' = todo
  BY DEF Return, Goto
<1>3. Releases(<<>>, held[c] \ Syncs) /\ Closed(held[c])
  BY <1>2, Has DEF Kept
<1>4. held[c] \subseteq Syncs
  BY <1>3 DEF Releases
<1>5. Kept("none", held[c], todo[c])
  BY <1>2, <1>3, <1>4 DEF Kept
<1>6. FlagKept(c, held[c]) /\ "none" \in Places
  BY <1>2 DEF FlagKept, Places
<1> QED BY <1>1, <1>2, <1>5, <1>6, Has, Moved

LEMMA NextCInv == CInv /\ [Next]_vars => CInv'
<1> SUFFICES ASSUME CInv, [Next]_vars PROVE CInv'
  OBVIOUS
<1>1. CASE Next
  <2>1. PICK c \in Thread :
          \/ Create(c) \/ Acquire(c) \/ Fail(c) \/ Configure(c)
          \/ \E p \in Pipe : Resize(c, p) \/ Grow(c, p)
          \/ Destroy(c) \/ Release(c) \/ Return(c)
    BY <1>1 DEF Next
  <2> QED BY <2>1, CreateKeeps, AcquireKeeps, FailKeeps, ConfigureKeeps, ResizeKeeps, GrowKeeps,
             DestroyKeeps, ReleaseKeeps, ReturnKeeps
<1>2. CASE UNCHANGED vars
  BY <1>2 DEF vars, CInv, TypeOK, OneStaticInstance
<1> QED BY <1>1, <1>2

LEMMA Invariant == Spec => []CInv
BY InitCInv, NextCInv, PTL DEF Spec

-----------------------------------------------------------------------------
\* Every variable keeps its type: what a thread holds or has yet to release are
\* resources of a pipeline, for any number of stages and of threads.
THEOREM TypeCorrect == Spec => []TypeOK
<1>1. CInv => TypeOK
  BY DEF CInv
<1> QED BY <1>1, Invariant, PTL

\* A mtdp_pipeline_create that failed at any of its steps, and a
\* mtdp_pipeline_destroy that returned, left nothing behind but the condition
\* variables and mutexes of the workers.
THEOREM AllIsReleased == Spec => []NothingLeaks
<1>1. CInv => NothingLeaks
  BY DEF CInv, Kept, NothingLeaks, Syncs
<1> QED BY <1>1, Invariant, PTL

\* The unwinding of mtdp_pipeline_create and mtdp_pipeline_destroy release
\* only what the pipeline has at that moment: nothing twice, and nothing that
\* was never acquired.
THEOREM OnlyHeldIsReleased == Spec => []ReleasesWhatItHolds
<1>1. ASSUME CInv, NEW c \in Thread, at[c] \in {"failing", "destroying"}, todo[c] # <<>>
      PROVE  Head(todo[c]) \in held[c]
  BY <1>1, ReleasesRest DEF CInv, Kept
<1>2. CInv => ReleasesWhatItHolds
  BY <1>1 DEF ReleasesWhatItHolds
<1> QED BY <1>2, Invariant, PTL

\* On every path the blocks of a FIFO outlive no vector, the parts of the pipes
\* not the vector of pipes, and the vectors not the pipeline they are found in.
THEOREM ContainersOutlive == Spec => []ContainersLast
<1>1. ASSUME CInv, NEW c \in Thread, NEW r \in held[c]
      PROVE  r = Pipeline \/ r[1] = "cv and mutex" \/ Container(r) \in held[c]
  <2>1. r = Pipeline \/ r \in Syncs \/ Container(r) \in held[c]
    BY <1>1 DEF CInv, Kept, Closed
  <2>2. ASSUME NEW w \in Worker PROVE Sync(w)[1] = "cv and mutex"
    BY DEF Sync
  <2>3. r \in Syncs => r[1] = "cv and mutex"
    BY <2>2 DEF Syncs
  <2> QED BY <2>1, <2>3
<1>2. CInv => ContainersLast
  BY <1>1 DEF ContainersLast
<1> QED BY <1>2, Invariant, PTL

\* The static instance is never in two hands, and its flag is set exactly while
\* somebody has it, also after a creation that failed.
THEOREM InstanceHasOneOwner == Spec => []OneStaticInstance
<1>1. CInv => OneStaticInstance
  BY DEF CInv
<1> QED BY <1>1, Invariant, PTL
=============================================================================
