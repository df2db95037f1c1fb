------------------------- MODULE EnrichmentProofs -------------------------
(***************************************************************************)
(* The properties of Enrichment, for any chain of sources, any periods,    *)
(* lifetimes and backoffs, any batches, and any replies.                   *)
(***************************************************************************)
EXTENDS Enrichment, FiniteSetTheorems, SequenceTheorems,
        NaturalsInduction, WellFoundedInduction, TLAPS

-----------------------------------------------------------------------------
(***************************************************************************)
(* The inductive invariant, in named parts.                                *)
(***************************************************************************)

Pairs == Sources \X Indicators
Lists == IdLists \cup {<<>>}
Rows == [source : Sources, indicator : Indicators, ids : Lists, at : Nat, told : Nat]
Indexes == FeedIndexes \cup {{}}

TypeOK ==
    /\ now \in Nat
    /\ batches \in Seq(Seq(Seq(Indicators))) /\ entries \in Seq(Seq(Indicators))
    /\ todo \in Seq(Indicators) /\ subject \in Indicators \cup {"none"}
    /\ chained \in BOOLEAN
    /\ lookups \in Seq(Pairs) /\ asked \in Seq(Pairs)
    /\ call \in [attempt : Nat, from : Nat]
    /\ found \in Seq(Rows) /\ cache \in SUBSET Rows
    /\ feed \in [Feeds -> [index : Indexes, at : Nat, told : Nat]]
    /\ bucket \in [Sources -> Nat \cup {Never}]
    /\ faults \in Nat

\* Where a lookup is: what is asked, and whether a request is under way,
\* belongs to the subject.
PlaceInv ==
    /\ subject = "none" => lookups = <<>> /\ asked = <<>> /\ found = <<>> /\ ~chained
    /\ lookups = <<>> => call = NoCall
    /\ chained => subject \in Packages
    /\ call # NoCall => call.attempt \in 1..Len(Backoffs) /\ call.from <= now

\* A token is dated when its request left, and not in the future.
BucketInv ==
    /\ sentAt = bucket
    /\ \A s \in Sources : bucket[s] <= now

\* How much older than its row a source's word may be: a feed's index is used
\* for its freshness window.
Stacked(s) == IF s \in Feeds THEN FeedFreshFor ELSE 0

AgeInv ==
    /\ \A row \in cache : row.at - row.told <= Stacked(row.source)
    /\ \A s \in Feeds : feed[s].at <= feed[s].told

\* How long a request may have taken before its n-th attempt begins.
Round(s) == Period[s] + Greatest(WireTimes)
HeldUp(s, n) == Backed[n - 1] + (n - 1) * Round(s) + (n - 1) * MaxRetryAfter

StallInv == call # NoCall => now - call.from <= HeldUp(Source, call.attempt)

\* What has been asked about the subject and what is still to ask are, taken
\* together, settled when it is taken up, and once more when it is chained.
Plan == asked \o lookups
OwnPairs == {<<s, subject>> : s \in Supporting(subject)}
Reported ==
    {id \in Advisories : \E k \in DOMAIN found :
        found[k].indicator = subject /\ Contains(found[k].ids, id)}
Pursues(ids) ==
    /\ ids \subseteq Reported
    /\ IsFiniteSet(ids)
    /\ Cardinality(ids) = (IF Cardinality(Reported) < MaxForward
                           THEN Cardinality(Reported) ELSE MaxForward)
    /\ ToSet(Plan) = OwnPairs \cup {<<s, id>> : s \in CveSources, id \in ids}

PlanInv ==
    /\ IsInjective(Plan)
    /\ ~chained => /\ subject # "none" => ToSet(Plan) = OwnPairs
                   /\ \A k \in DOMAIN found : found[k].indicator = subject
    /\ chained => /\ \E ids \in SUBSET Reported : Pursues(ids)
                  /\ \A k \in DOMAIN lookups : lookups[k][2] \in Advisories

IInv == TypeOK /\ PlaceInv /\ BucketInv /\ AgeInv /\ StallInv /\ PlanInv

-----------------------------------------------------------------------------
(***************************************************************************)
(* Induction on the natural numbers, in the form the provers can use, and  *)
(* the loops it shows to be well defined.                                  *)
(***************************************************************************)

\* A set with 0 that is closed under successor has every natural number.
LEMMA SetInduction ==
    ASSUME NEW T, 0 \in T, \A n \in Nat : n \in T => n + 1 \in T
    PROVE  Nat \subseteq T
<1> SUFFICES ASSUME Nat \ T # {} PROVE FALSE
  OBVIOUS
<1>1. PICK n \in Nat \ T : \A m \in Nat \ T : ~(<<m, n>> \in OpToRel(<, Nat))
  BY NatLessThanWellFounded, WFMin
<1>2. \A m \in Nat \ T : ~(m < n)
  BY <1>1 DEF OpToRel
<1>3. n - 1 \in Nat /\ n - 1 \in T
  BY <1>2
<1> QED
  BY <1>3

\* A loop from a to m that carries a value along, and what its steps need.
Looped(f, a, m, z, step) ==
    \A n \in a..m : f[n] = IF n = a THEN z ELSE step[<<f[n - 1], n>>]
Stepping(step, S, a, m) == \A s \in S, n \in a..m : step[<<s, n>>] \in S

\* There is a function that takes a loop through.
LEMMA Loop ==
    ASSUME NEW a \in Nat, NEW N \in Nat, a <= N, NEW S, NEW z \in S,
           NEW step, Stepping(step, S, a, N)
    PROVE  \E f \in [a..N -> S] : Looped(f, a, N, z, step)
<1> USE DEF Looped, Stepping
<1> DEFINE Through(f, m) == Looped(f, a, m, z, step)
           T == {k \in Nat : a + k <= N => \E f \in [a..(a + k) -> S] : Through(f, a + k)}
<1>1. 0 \in T
  <2>1. [n \in a..(a + 0) |-> z] \in [a..(a + 0) -> S] /\ Through([n \in a..(a + 0) |-> z], a + 0)
    OBVIOUS
  <2> QED
    BY <2>1
<1>2. ASSUME NEW k \in Nat, k \in T
      PROVE  k + 1 \in T
  <2> SUFFICES ASSUME a + (k + 1) <= N
               PROVE  \E f \in [a..(a + (k + 1)) -> S] : Through(f, a + (k + 1))
    OBVIOUS
  <2> DEFINE m == a + k
  <2>0. m \in Nat /\ m + 1 \in a..N /\ a + (k + 1) = m + 1 /\ a <= m
    OBVIOUS
  <2>1. PICK f \in [a..m -> S] : Through(f, m)
    BY <1>2
  <2> HIDE DEF m
  <2> DEFINE g == [n \in a..(m + 1) |-> IF n <= m THEN f[n] ELSE step[<<f[m], m + 1>>]]
  <2>2. f[m] \in S /\ step[<<f[m], m + 1>>] \in S
    BY <2>0
  <2>3. g \in [a..(m + 1) -> S]
    BY <2>0, <2>2
  <2>4. (\A n \in a..m : g[n] = f[n]) /\ g[m + 1] = step[<<f[m], m + 1>>]
    BY <2>0
  <2> HIDE DEF g
  <2>5. \A n \in a..m : g[n] = IF n = a THEN z ELSE step[<<g[n - 1], n>>]
    <3> TAKE n \in a..m
    <3>1. f[n] = IF n = a THEN z ELSE step[<<f[n - 1], n>>]
      BY <2>1
    <3>2. n # a => n - 1 \in a..m
      BY <2>0
    <3> QED
      BY <2>4, <3>1, <3>2
  <2>6. g[m + 1] = step[<<g[m], m + 1>>] /\ m + 1 # a /\ (m + 1) - 1 = m
    BY <2>0, <2>4
  <2>7. Through(g, m + 1)
    <3> TAKE n \in a..(m + 1)
    <3>1. n \in a..m \/ n = m + 1
      BY <2>0
    <3> QED
      BY <2>5, <2>6, <3>1
  <2> QED
    BY <2>0, <2>3, <2>7
<1> HIDE DEF T
<1>3. N - a \in T
  BY <1>1, <1>2, SetInduction
<1> QED
  BY <1>3 DEF T

-----------------------------------------------------------------------------
(***************************************************************************)
(* Sequences without repetition.                                           *)
(***************************************************************************)

\* What ToSet is of a typed sequence.
LEMMA Elements ==
    ASSUME NEW S, NEW s \in Seq(S)
    PROVE  /\ Len(s) \in Nat /\ DOMAIN s = 1..Len(s)
           /\ ToSet(s) = {s[k] : k \in 1..Len(s)}
           /\ ToSet(s) \subseteq S
           /\ s \in Seq(ToSet(s))
<1>1. Len(s) \in Nat /\ DOMAIN s = 1..Len(s) /\ s \in [1..Len(s) -> S]
  BY LenProperties
<1>2. ToSet(s) = {s[k] : k \in 1..Len(s)}
  BY <1>1 DEF ToSet
<1>3. s \in [1..Len(s) -> ToSet(s)]
  BY <1>1, <1>2
<1>4. s \in Seq(ToSet(s))
  BY <1>1, <1>3, SeqDef
<1> QED
  BY <1>1, <1>2, <1>4

\* What Contains is of a typed sequence.
LEMMA ContainsIsElement ==
    ASSUME NEW S, NEW s \in Seq(S), NEW e
    PROVE  Contains(s, e) <=> e \in ToSet(s)
<1>1. ToSet(s) = {s[k] : k \in 1..Len(s)}
  BY Elements
<1> QED
  BY <1>1 DEF Contains

\* One element more.
LEMMA AppendElement ==
    ASSUME NEW S, NEW s \in Seq(S), NEW e \in S
    PROVE  /\ Append(s, e) \in Seq(S)
           /\ ToSet(Append(s, e)) = ToSet(s) \cup {e}
           /\ IsInjective(s) /\ e \notin ToSet(s) => IsInjective(Append(s, e))
<1> DEFINE t == Append(s, e)
           N == Len(s)
<1>1. t \in Seq(S) /\ Len(t) = N + 1 /\ (\A k \in 1..N : t[k] = s[k]) /\ t[N + 1] = e
  BY AppendProperties
<1>2. N \in Nat /\ DOMAIN s = 1..N /\ ToSet(s) = {s[k] : k \in 1..N}
  BY Elements
<1>3. DOMAIN t = 1..(N + 1) /\ ToSet(t) = {t[k] : k \in 1..(N + 1)}
  BY <1>1, Elements
<1> HIDE DEF t, N
<1>4. \A k \in 1..(N + 1) : k \in 1..N \/ k = N + 1
  BY <1>2
<1>5. ToSet(t) = ToSet(s) \cup {e}
  <2>1. \A x \in ToSet(t) : x \in ToSet(s) \cup {e}
    BY <1>1, <1>2, <1>3, <1>4
  <2>2. N + 1 \in 1..(N + 1) /\ \A k \in 1..N : k \in 1..(N + 1)
    BY <1>2
  <2>3. \A x \in ToSet(s) \cup {e} : x \in ToSet(t)
    BY <1>1, <1>2, <1>3, <2>2
  <2> QED
    BY <2>1, <2>3
<1>6. ASSUME IsInjective(s), e \notin ToSet(s)
      PROVE  IsInjective(t)
  <2> SUFFICES ASSUME NEW j \in 1..(N + 1), NEW k \in 1..(N + 1), t[j] = t[k]
               PROVE  j = k
    BY <1>3 DEF IsInjective
  <2>1. \A m \in 1..N : s[m] # e
    BY <1>2, <1>6
  <2>2. \A m, n \in 1..N : s[m] = s[n] => m = n
    BY <1>2, <1>6 DEF IsInjective
  <2> QED
    BY <1>1, <1>4, <2>1, <2>2
<1> QED
  BY <1>1, <1>5, <1>6 DEF t

\* Two sequences in a row.
LEMMA ConcatElements ==
    ASSUME NEW S, NEW s \in Seq(S), NEW t \in Seq(S)
    PROVE  /\ s \o t \in Seq(S)
           /\ ToSet(s \o t) = ToSet(s) \cup ToSet(t)
           /\ IsInjective(s) /\ IsInjective(t) /\ ToSet(s) \cap ToSet(t) = {}
                => IsInjective(s \o t)
<1> DEFINE u == s \o t
           M == Len(s)
           N == Len(t)
<1>1. /\ u \in Seq(S) /\ Len(u) = M + N
      /\ \A k \in 1..(M + N) : u[k] = IF k <= M THEN s[k] ELSE t[k - M]
  BY ConcatProperties
<1>2. M \in Nat /\ DOMAIN s = 1..M /\ ToSet(s) = {s[k] : k \in 1..M}
  BY Elements
<1>3. N \in Nat /\ DOMAIN t = 1..N /\ ToSet(t) = {t[k] : k \in 1..N}
  BY Elements
<1>4. DOMAIN u = 1..(M + N) /\ ToSet(u) = {u[k] : k \in 1..(M + N)}
  BY <1>1, Elements
<1> HIDE DEF u, M, N
<1>5. \A k \in 1..(M + N) : (k \in 1..M /\ u[k] = s[k]) \/ (k - M \in 1..N /\ k > M /\ u[k] = t[k - M])
  BY <1>1, <1>2, <1>3
<1>6. ToSet(u) = ToSet(s) \cup ToSet(t)
  <2>1. \A x \in ToSet(u) : x \in ToSet(s) \cup ToSet(t)
    BY <1>2, <1>3, <1>4, <1>5
  <2>2. \A k \in 1..M : k \in 1..(M + N) /\ u[k] = s[k]
    BY <1>1, <1>2, <1>3
  <2>3. \A k \in 1..N : M + k \in 1..(M + N) /\ u[M + k] = t[k]
    <3> TAKE k \in 1..N
    <3>1. M + k \in 1..(M + N) /\ ~(M + k <= M) /\ (M + k) - M = k
      BY <1>2, <1>3
    <3> QED
      BY <1>1, <3>1
  <2>4. \A x \in ToSet(s) \cup ToSet(t) : x \in ToSet(u)
    BY <1>2, <1>3, <1>4, <2>2, <2>3
  <2> QED
    BY <2>1, <2>4
<1>7. ASSUME IsInjective(s), IsInjective(t), ToSet(s) \cap ToSet(t) = {}
      PROVE  IsInjective(u)
  <2> SUFFICES ASSUME NEW j \in 1..(M + N), NEW k \in 1..(M + N), u[j] = u[k]
               PROVE  j = k
    BY <1>4 DEF IsInjective
  <2>1. \A m, n \in 1..M : s[m] = s[n] => m = n
    BY <1>2, <1>7 DEF IsInjective
  <2>2. \A m, n \in 1..N : t[m] = t[n] => m = n
    BY <1>3, <1>7 DEF IsInjective
  <2>3. \A m \in 1..M, n \in 1..N : s[m] # t[n]
    BY <1>2, <1>3, <1>7
  <2>0. /\ j \in 1..M => u[j] = s[j]
        /\ j \notin 1..M => j - M \in 1..N /\ u[j] = t[j - M]
        /\ k \in 1..M => u[k] = s[k]
        /\ k \notin 1..M => k - M \in 1..N /\ u[k] = t[k - M]
    BY <1>2, <1>5
  <2>4. CASE j \in 1..M /\ k \in 1..M
    BY <2>0, <2>1, <2>4
  <2>5. CASE j \notin 1..M /\ k \notin 1..M
    <3>1. j - M = k - M
      BY <2>0, <2>2, <2>5
    <3> QED
      BY <1>2, <3>1
  <2>6. CASE j \in 1..M /\ k \notin 1..M
    BY <2>0, <2>3, <2>6
  <2>7. CASE j \notin 1..M /\ k \in 1..M
    BY <2>0, <2>3, <2>7
  <2> QED
    BY <2>4, <2>5, <2>6, <2>7
<1> QED
  BY <1>1, <1>6, <1>7 DEF u

\* A sequence of sequences made one.
LEMMA Flattened ==
    ASSUME NEW S, NEW N \in Nat, NEW seqs \in [1..N -> Seq(S)]
    PROVE  /\ FlattenSeq(seqs) \in Seq(S)
           /\ ToSet(FlattenSeq(seqs)) = UNION {ToSet(seqs[k]) : k \in 1..N}
           /\ /\ \A k \in 1..N : IsInjective(seqs[k])
              /\ \A j, k \in 1..N : j # k => ToSet(seqs[j]) \cap ToSet(seqs[k]) = {}
              => IsInjective(FlattenSeq(seqs))
<1> DEFINE Part(n) == UNION {ToSet(seqs[k]) : k \in 1..n}
           Apart(n) == /\ \A k \in 1..n : IsInjective(seqs[k])
                       /\ \A j, k \in 1..n : j # k => ToSet(seqs[j]) \cap ToSet(seqs[k]) = {}
           Good(s, n) == /\ s \in Seq(S) /\ ToSet(s) = Part(n)
                         /\ Apart(n) => IsInjective(s)
<1>0. seqs \in Seq(Seq(S)) /\ Len(seqs) = N
  BY SeqDef, LenProperties
<1>1. CASE N = 0
  <2>1. seqs = <<>> /\ FlattenSeq(seqs) = seqs
    BY <1>0, <1>1, EmptySeq DEF FlattenSeq
  <2>2. <<>> \in Seq(S) /\ DOMAIN <<>> = {}
    BY EmptySeq, LenProperties
  <2>3. ToSet(<<>>) = {} /\ IsInjective(<<>>) /\ 1..N = {}
    BY <1>1, <2>2 DEF ToSet, IsInjective
  <2> QED
    BY <2>1, <2>2, <2>3
<1>2. CASE N # 0
  <2> DEFINE step == [p \in Seq(S) \X (1..N) |-> p[1] \o seqs[p[2]]]
  <2>1. \A s \in Seq(S), n \in 1..N : s \o seqs[n] \in Seq(S)
    BY ConcatProperties
  <2>2. \A s \in Seq(S), n \in 1..N : step[<<s, n>>] = s \o seqs[n]
    OBVIOUS
  <2>3. Stepping(step, Seq(S), 1, N)
    BY <2>1, <2>2 DEF Stepping
  <2> HIDE DEF step
  <2>4. 1 \in Nat /\ 1 <= N /\ 1 \in 1..N /\ seqs[1] \in Seq(S)
    BY <1>2
  <2>5. PICK h \in [1..N -> Seq(S)] : Looped(h, 1, N, seqs[1], step)
    BY <2>3, <2>4, Loop
  <2>6. \A n \in 1..N : h[n] = IF n = 1 THEN seqs[n] ELSE h[n - 1] \o seqs[n]
    <3> TAKE n \in 1..N
    <3>1. n # 1 => n - 1 \in 1..N
      OBVIOUS
    <3> QED
      BY <2>2, <2>5, <3>1 DEF Looped
  <2>7. h = [n \in 1..N |-> IF n = 1 THEN seqs[n] ELSE h[n - 1] \o seqs[n]]
    BY <2>6
  <2>8. \E f : /\ f = [n \in 1..N |-> IF n = 1 THEN seqs[n] ELSE f[n - 1] \o seqs[n]]
               /\ FlattenSeq(seqs) = f[N]
    BY <1>0, <1>2, <2>7 DEF FlattenSeq
  <2>9. PICK f : /\ f = [n \in 1..N |-> IF n = 1 THEN seqs[n] ELSE f[n - 1] \o seqs[n]]
                 /\ FlattenSeq(seqs) = f[N]
    BY <2>8
  <2>10. \A n \in 1..N : f[n] = IF n = 1 THEN seqs[n] ELSE f[n - 1] \o seqs[n]
    BY <2>9
  <2> DEFINE T == {n \in Nat : n + 1 <= N => Good(f[n + 1], n + 1)}
  <2>11. 0 \in T
    <3>1. f[1] = seqs[1]
      BY <2>4, <2>10
    <3>2. Part(1) = ToSet(seqs[1]) /\ (Apart(1) => IsInjective(seqs[1]))
      OBVIOUS
    <3> QED
      BY <2>4, <3>1, <3>2
  <2> HIDE DEF Good
  <2>12. ASSUME NEW n \in Nat, n \in T
         PROVE  n + 1 \in T
    <3> SUFFICES ASSUME (n + 1) + 1 <= N PROVE Good(f[(n + 1) + 1], (n + 1) + 1)
      OBVIOUS
    <3> DEFINE m == n + 1
    <3>1. m \in Nat /\ m + 1 \in 1..N /\ m \in 1..N /\ m + 1 # 1 /\ (m + 1) - 1 = m
      OBVIOUS
    <3>2. Good(f[m], m)
      BY <2>12
    <3> HIDE DEF m
    <3>3. f[m + 1] = f[m] \o seqs[m + 1]
      BY <2>10, <3>1
    <3>4. seqs[m + 1] \in Seq(S)
      BY <3>1
    <3>5. \A k \in 1..(m + 1) : k \in 1..m \/ k = m + 1
      BY <3>1
    <3>6. m + 1 \in 1..(m + 1) /\ \A k \in 1..m : k \in 1..(m + 1) /\ k # m + 1
      BY <3>1
    <3>7. Part(m + 1) = Part(m) \cup ToSet(seqs[m + 1])
      BY <3>5, <3>6
    <3>8. ASSUME Apart(m + 1)
          PROVE  Apart(m) /\ IsInjective(seqs[m + 1]) /\ Part(m) \cap ToSet(seqs[m + 1]) = {}
      BY <3>6, <3>8
    <3> HIDE DEF Part, Apart
    <3>9. /\ f[m] \o seqs[m + 1] \in Seq(S)
          /\ ToSet(f[m] \o seqs[m + 1]) = ToSet(f[m]) \cup ToSet(seqs[m + 1])
          /\ IsInjective(f[m]) /\ IsInjective(seqs[m + 1]) /\ ToSet(f[m]) \cap ToSet(seqs[m + 1]) = {}
               => IsInjective(f[m] \o seqs[m + 1])
      BY <3>2, <3>4, ConcatElements DEF Good
    <3>10. Good(f[m + 1], m + 1)
      BY <3>2, <3>3, <3>7, <3>8, <3>9 DEF Good
    <3> QED
      BY <3>10 DEF m
  <2> HIDE DEF T
  <2>13. N - 1 \in T
    BY <1>2, <2>11, <2>12, SetInduction, SMTT(30)
  <2>14. Good(f[N], N)
    <3>1. (N - 1) + 1 = N
      OBVIOUS
    <3> QED
      BY <2>13, <3>1 DEF T
  <2> QED
    BY <2>9, <2>14 DEF Good
<1> QED
  BY <1>1, <1>2

-----------------------------------------------------------------------------
(***************************************************************************)
(* What the chain asks, and whom.                                          *)
(***************************************************************************)

\* Every source that supports an indicator is asked about it, once.
LEMMA AskingEach ==
    ASSUME NEW i \in Indicators
    PROVE  /\ Asking(i) \in Seq(Pairs)
           /\ ToSet(Asking(i)) = {<<s, i>> : s \in Supporting(i)}
           /\ IsInjective(Asking(i))
<1> DEFINE N == Len(Chain)
           Wants(n) == n \in 1..N /\ Chain[n] \in Supporting(i)
           Body(f, n) == IF n = 0 THEN <<>>
                         ELSE IF Chain[n] \in Supporting(i)
                              THEN Append(f[n - 1], <<Chain[n], i>>) ELSE f[n - 1]
           Upto(n) == {<<Chain[k], i>> : k \in {m \in 1..n : Chain[m] \in Supporting(i)}}
           Good(s, n) == s \in Seq(Pairs) /\ ToSet(s) = Upto(n) /\ IsInjective(s)
           step == [p \in Seq(Pairs) \X (0..N) |->
                      IF Wants(p[2]) THEN Append(p[1], <<Chain[p[2]], i>>) ELSE p[1]]
<1>1. N \in Nat /\ DOMAIN Chain = 1..N /\ Sources = {Chain[k] : k \in 1..N}
  BY WorldAssumption, Elements DEF Sources
<1>2. \A k, m \in 1..N : Chain[k] = Chain[m] => k = m
  BY <1>1, WorldAssumption DEF IsInjective
<1>3. Supporting(i) \subseteq Sources
  BY ConstantsAssumption DEF Supporting, Sources
<1>4. \A n \in 1..N : <<Chain[n], i>> \in Pairs
  BY <1>1 DEF Pairs
<1> HIDE DEF N
<1>5. \A s \in Seq(Pairs), n \in 0..N :
        (IF Wants(n) THEN Append(s, <<Chain[n], i>>) ELSE s) \in Seq(Pairs)
  BY <1>4, AppendProperties
<1>6. \A s \in Seq(Pairs), n \in 0..N :
        step[<<s, n>>] = IF Wants(n) THEN Append(s, <<Chain[n], i>>) ELSE s
  OBVIOUS
<1>7. Stepping(step, Seq(Pairs), 0, N)
  BY <1>5, <1>6 DEF Stepping
<1> HIDE DEF step
<1>8. <<>> \in Seq(Pairs) /\ 0 \in Nat /\ 0 <= N
  BY <1>1, EmptySeq
<1>9. PICK h \in [0..N -> Seq(Pairs)] : Looped(h, 0, N, <<>>, step)
  BY <1>1, <1>7, <1>8, Loop
<1>10. \A n \in 0..N : h[n] = Body(h, n)
  <2> TAKE n \in 0..N
  <2>1. n # 0 => n - 1 \in 0..N /\ n \in 1..N
    BY <1>1
  <2> QED
    BY <1>6, <1>9, <2>1 DEF Looped
<1>11. h = [n \in 0..N |-> Body(h, n)]
  BY <1>10
<1>12. \E f : f = [n \in 0..N |-> Body(f, n)] /\ Asking(i) = f[N]
  BY <1>11 DEF Asking, N
<1>13. PICK f : f = [n \in 0..N |-> Body(f, n)] /\ Asking(i) = f[N]
  BY <1>12
<1>14. \A n \in 0..N : f[n] = Body(f, n)
  BY <1>13
<1> DEFINE T == {n \in Nat : n <= N => Good(f[n], n)}
<1>15. 0 \in T
  <2>1. f[0] = <<>> /\ 1..0 = {} /\ Upto(0) = {}
    <3>1. 0 \in 0..N /\ 1..0 = {}
      BY <1>1
    <3>2. f[0] = Body(f, 0)
      BY <1>14, <3>1
    <3> QED
      BY <3>1, <3>2
  <2>2. DOMAIN <<>> = {}
    BY EmptySeq, LenProperties
  <2> QED
    BY <1>8, <2>1, <2>2 DEF ToSet, IsInjective
<1>16. ASSUME NEW n \in Nat, n \in T
       PROVE  n + 1 \in T
  <2> SUFFICES ASSUME n + 1 <= N PROVE Good(f[n + 1], n + 1)
    OBVIOUS
  <2>1. Good(f[n], n)
    BY <1>1, <1>16
  <2>2. /\ f[n + 1] = IF Chain[n + 1] \in Supporting(i)
                      THEN Append(f[n], <<Chain[n + 1], i>>) ELSE f[n]
        /\ n + 1 \in 1..N /\ \A k \in 1..n : k \in 1..N /\ k # n + 1
    <3>1. n + 1 \in 0..N /\ n + 1 # 0 /\ (n + 1) - 1 = n
      BY <1>1
    <3> QED
      BY <1>1, <1>14, <3>1
  <2>3. CASE Chain[n + 1] \notin Supporting(i)
    <3>1. {m \in 1..(n + 1) : Chain[m] \in Supporting(i)} = {m \in 1..n : Chain[m] \in Supporting(i)}
      BY <2>3
    <3>2. Upto(n + 1) = Upto(n)
      BY <3>1
    <3> HIDE DEF Upto
    <3> QED
      BY <2>1, <2>2, <2>3, <3>2
  <2>4. CASE Chain[n + 1] \in Supporting(i)
    <3>1. {m \in 1..(n + 1) : Chain[m] \in Supporting(i)}
            = {m \in 1..n : Chain[m] \in Supporting(i)} \cup {n + 1}
      BY <2>4
    <3>2. Upto(n + 1) = Upto(n) \cup {<<Chain[n + 1], i>>}
      BY <3>1
    <3>3. <<Chain[n + 1], i>> \notin Upto(n)
      BY <1>2, <2>2
    <3> HIDE DEF Upto
    <3>4. /\ Append(f[n], <<Chain[n + 1], i>>) \in Seq(Pairs)
          /\ ToSet(Append(f[n], <<Chain[n + 1], i>>)) = ToSet(f[n]) \cup {<<Chain[n + 1], i>>}
          /\ IsInjective(Append(f[n], <<Chain[n + 1], i>>))
      BY <1>4, <2>1, <2>2, <3>3, AppendElement
    <3> QED
      BY <2>1, <2>2, <2>4, <3>2, <3>4
  <2> QED
    BY <2>3, <2>4
<1> HIDE DEF T
<1>17. N \in T
  BY <1>1, <1>15, <1>16, SetInduction
<1> HIDE DEF Good, Upto
<1>18. Good(f[N], N)
  BY <1>1, <1>17 DEF T
<1>19. Upto(N) = {<<s, i>> : s \in Supporting(i)}
  BY <1>1, <1>3 DEF Upto
<1> QED
  BY <1>13, <1>18, <1>19 DEF Good

\* Of the ids reported the advisories are kept, each once.
LEMMA AdvisoriesKept ==
    ASSUME NEW S, NEW ids \in Seq(S)
    PROVE  /\ AdvisoryIds(ids) \in Seq(Advisories)
           /\ ToSet(AdvisoryIds(ids)) = ToSet(ids) \cap Advisories
           /\ IsInjective(AdvisoryIds(ids))
<1> DEFINE N == Len(ids)
           Body(f, n) == IF n = 0 THEN <<>>
                         ELSE IF ids[n] \in Advisories /\ ~Contains(f[n - 1], ids[n])
                              THEN Append(f[n - 1], ids[n]) ELSE f[n - 1]
           Upto(n) == {ids[k] : k \in 1..n} \cap Advisories
           Good(s, n) == s \in Seq(Advisories) /\ ToSet(s) = Upto(n) /\ IsInjective(s)
           step == [p \in Seq(Advisories) \X (0..N) |->
                      IF ids[p[2]] \in Advisories /\ ~Contains(p[1], ids[p[2]])
                      THEN Append(p[1], ids[p[2]]) ELSE p[1]]
<1>1. N \in Nat /\ ToSet(ids) = {ids[k] : k \in 1..N}
  BY Elements
<1> HIDE DEF N
<1>2. \A s \in Seq(Advisories), n \in 0..N :
        (IF ids[n] \in Advisories /\ ~Contains(s, ids[n]) THEN Append(s, ids[n]) ELSE s)
          \in Seq(Advisories)
  BY AppendProperties
<1>3. \A s \in Seq(Advisories), n \in 0..N :
        step[<<s, n>>] = IF ids[n] \in Advisories /\ ~Contains(s, ids[n])
                         THEN Append(s, ids[n]) ELSE s
  OBVIOUS
<1>4. Stepping(step, Seq(Advisories), 0, N)
  BY <1>2, <1>3 DEF Stepping
<1> HIDE DEF step
<1>5. <<>> \in Seq(Advisories) /\ 0 \in Nat /\ 0 <= N
  BY <1>1, EmptySeq
<1>6. PICK h \in [0..N -> Seq(Advisories)] : Looped(h, 0, N, <<>>, step)
  BY <1>1, <1>4, <1>5, Loop
<1>7. \A n \in 0..N : h[n] = Body(h, n)
  <2> TAKE n \in 0..N
  <2>1. n # 0 => n - 1 \in 0..N
    BY <1>1
  <2> QED
    BY <1>3, <1>6, <2>1 DEF Looped
<1>8. h = [n \in 0..N |-> Body(h, n)]
  BY <1>7
<1>9. \E f : f = [n \in 0..N |-> Body(f, n)] /\ AdvisoryIds(ids) = f[N]
  BY <1>8 DEF AdvisoryIds, N
<1>10. PICK f : f = [n \in 0..N |-> Body(f, n)] /\ AdvisoryIds(ids) = f[N]
  BY <1>9
<1>11. \A n \in 0..N : f[n] = Body(f, n)
  BY <1>10
<1> DEFINE T == {n \in Nat : n <= N => Good(f[n], n)}
<1>12. 0 \in T
  <2>1. f[0] = <<>> /\ Upto(0) = {}
    BY <1>5, <1>11
  <2>2. DOMAIN <<>> = {}
    BY EmptySeq, LenProperties
  <2> QED
    BY <1>5, <2>1, <2>2 DEF ToSet, IsInjective
<1>13. ASSUME NEW n \in Nat, n \in T
       PROVE  n + 1 \in T
  <2> SUFFICES ASSUME n + 1 <= N PROVE Good(f[n + 1], n + 1)
    OBVIOUS
  <2> DEFINE id == ids[n + 1]
  <2>1. Good(f[n], n)
    BY <1>1, <1>13
  <2>2. f[n + 1] = IF id \in Advisories /\ ~Contains(f[n], id) THEN Append(f[n], id) ELSE f[n]
    <3>1. n + 1 \in 0..N /\ n + 1 # 0 /\ (n + 1) - 1 = n
      BY <1>1
    <3> QED
      BY <1>11, <3>1
  <2>3. Contains(f[n], id) <=> id \in ToSet(f[n])
    BY <2>1, ContainsIsElement
  <2>4. {ids[k] : k \in 1..(n + 1)} = {ids[k] : k \in 1..n} \cup {id}
    <3>1. \A k \in 1..(n + 1) : k \in 1..n \/ k = n + 1
      OBVIOUS
    <3>2. n + 1 \in 1..(n + 1) /\ \A k \in 1..n : k \in 1..(n + 1)
      OBVIOUS
    <3> QED
      BY <3>1, <3>2
  <2>5. CASE id \notin Advisories \/ id \in ToSet(f[n])
    <3>1. Upto(n + 1) = Upto(n)
      BY <2>1, <2>4, <2>5
    <3>2. f[n + 1] = f[n]
      BY <2>2, <2>3, <2>5
    <3> HIDE DEF Upto
    <3> QED
      BY <2>1, <3>1, <3>2
  <2>6. CASE id \in Advisories /\ id \notin ToSet(f[n])
    <3>1. Upto(n + 1) = Upto(n) \cup {id}
      BY <2>4, <2>6
    <3>2. f[n + 1] = Append(f[n], id)
      BY <2>2, <2>3, <2>6
    <3> HIDE DEF Upto, id
    <3>3. /\ Append(f[n], id) \in Seq(Advisories)
          /\ ToSet(Append(f[n], id)) = ToSet(f[n]) \cup {id}
          /\ IsInjective(Append(f[n], id))
      BY <2>1, <2>6, AppendElement
    <3> QED
      BY <2>1, <3>1, <3>2, <3>3
  <2> QED
    BY <2>5, <2>6
<1> HIDE DEF T
<1>14. N \in T
  BY <1>1, <1>12, <1>13, SetInduction
<1> HIDE DEF Good
<1>15. Good(f[N], N)
  BY <1>1, <1>14 DEF T
<1> QED
  BY <1>1, <1>10, <1>15 DEF Good

-----------------------------------------------------------------------------
(***************************************************************************)
(* The steps of a lookup, by what they come to.                            *)
(***************************************************************************)

\* What the assumptions say of the constants, one by one.
LEMMA Constants ==
    /\ Feeds \subseteq Sources /\ PackageSources \subseteq Sources /\ CveSources \subseteq Sources
    /\ Period \in [Sources -> Nat] /\ Ttl \in [Sources -> Nat]
    /\ FeedFreshFor \in Nat /\ MaxRetryAfter \in Nat /\ MaxForward \in Nat
    /\ Len(Backoffs) \in Nat \ {0} /\ DOMAIN Backoffs = 1..Len(Backoffs)
    /\ \A n \in 1..Len(Backoffs) : Backoffs[n] \subseteq Nat
    /\ WireTimes \subseteq Nat /\ RetryAfters \subseteq Nat /\ RestTimes \subseteq Nat
    /\ Packages \cap Advisories = {} /\ "none" \notin Indicators
    /\ Never \notin Nat /\ Never < 0 /\ Never \in Int
<1>1. Backoffs \in Seq(SUBSET Nat) /\ Backoffs # <<>>
  BY ConstantsAssumption
<1>2. Len(Backoffs) \in Nat \ {0} /\ DOMAIN Backoffs = 1..Len(Backoffs)
  BY <1>1, EmptySeq, LenProperties
<1>3. \A n \in 1..Len(Backoffs) : Backoffs[n] \in SUBSET Nat
  BY <1>1, ElementOfSeq
<1>4. FeedFreshFor \in Nat /\ MaxRetryAfter \in Nat /\ MaxForward \in Nat
  BY ConstantsAssumption
<1>5. Period \in [Sources -> Nat] /\ Ttl \in [Sources -> Nat]
  BY ConstantsAssumption DEF Sources
<1> QED
  BY <1>2, <1>3, <1>4, <1>5, ConstantsAssumption DEF Sources, Indicators, Never

\* The lookup at the head of the list.
LEMMA HeadOfLookups ==
    ASSUME TypeOK, lookups # <<>>
    PROVE  /\ Head(lookups) \in Pairs /\ Tail(lookups) \in Seq(Pairs)
           /\ Source \in Sources /\ Asked \in Indicators /\ Head(lookups) = <<Source, Asked>>
<1>1. Head(lookups) \in Pairs /\ Tail(lookups) \in Seq(Pairs)
  BY HeadTailProperties DEF TypeOK
<1> QED
  BY <1>1 DEF Pairs, Source, Asked

\* When a request leaves: after its backoff, its host's period after the one
\* before it, and no later than that asks.
LEMMA AttemptTimes ==
    ASSUME TypeOK, PlaceInv, BucketInv, NEW after \in Nat, Attempt(after)
    PROVE  /\ call # NoCall /\ lookups # <<>> /\ call.attempt \in 1..Len(Backoffs)
           /\ \E backoff \in Backoffs[call.attempt], wire \in WireTimes, sent \in Nat :
                /\ backoff \in Nat /\ wire \in Nat
                /\ now + backoff <= sent /\ sent <= now + backoff + Period[Source]
                /\ bucket[Source] = Never \/ sent - bucket[Source] >= Period[Source]
                /\ bucket' = [bucket EXCEPT ![Source] = sent]
                /\ sentAt' = [sentAt EXCEPT ![Source] = sent]
                /\ now' = sent + wire + after
<1>1. call # NoCall /\ lookups # <<>> /\ call.attempt \in 1..Len(Backoffs)
  BY DEF Attempt, PlaceInv
<1>2. PICK backoff \in Backoffs[call.attempt], wire \in WireTimes :
         LET ready == now + backoff
             sent == SendTime(ready)
         IN  /\ Take(ready, sent)
             /\ sentAt' = [sentAt EXCEPT ![Source] = sent]
             /\ now' = sent + wire + after
  BY DEF Attempt
<1>3. backoff \in Nat /\ wire \in Nat
  BY <1>1, Constants
<1>4. Source \in Sources /\ Period[Source] \in Nat
  BY <1>1, HeadOfLookups, Constants
<1>5. now \in Nat /\ bucket[Source] \in Nat \cup {Never} /\ bucket[Source] <= now
  BY <1>4 DEF TypeOK, BucketInv
<1> DEFINE sent == SendTime(now + backoff)
           last == bucket[Source]
           period == Period[Source]
           ready == now + backoff
<1>6. /\ sent \in Nat /\ ready <= sent /\ sent <= ready + period
      /\ last = Never \/ sent - last >= period
  <2>1. sent = IF last = Never \/ last + period <= ready THEN ready ELSE last + period
    BY DEF SendTime
  <2>2. /\ last \in Nat \/ last = Never
        /\ last <= now /\ now \in Nat
    BY <1>5
  <2>3. period \in Nat /\ backoff \in Nat
    BY <1>3, <1>4
  <2>4. ready = now + backoff
    OBVIOUS
  <2> HIDE DEF sent, last, period, ready
  <2>5. ready \in Nat /\ now <= ready
    BY <2>2, <2>3, <2>4
  <2>6. CASE last = Never \/ last + period <= ready
    <3>1. sent = ready
      BY <2>1, <2>6
    <3> QED
      BY <3>1, <2>2, <2>3, <2>5, <2>6
  <2>7. CASE ~(last = Never \/ last + period <= ready)
    <3>1. sent = last + period /\ last \in Nat
      BY <2>1, <2>2, <2>7
    <3>2. ready < last + period
      BY <3>1, <2>3, <2>5, <2>7
    <3> QED
      BY <3>1, <3>2, <2>2, <2>3, <2>5
  <2> QED
    BY <2>6, <2>7
<1>7. /\ bucket' = [bucket EXCEPT ![Source] = sent]
      /\ sentAt' = [sentAt EXCEPT ![Source] = sent]
      /\ now' = sent + wire + after
  BY <1>2 DEF Take
<1> HIDE DEF sent
<1> QED
  BY <1>1, <1>3, <1>6, <1>7

\* The clock does not go back, and what it is when a step is over.
LEMMA AttemptClock ==
    ASSUME TypeOK, PlaceInv, BucketInv, NEW after \in Nat, Attempt(after)
    PROVE  now' \in Nat /\ now <= now'
<1>1. PICK backoff \in Backoffs[call.attempt], wire \in WireTimes, sent \in Nat :
        backoff \in Nat /\ wire \in Nat /\ now + backoff <= sent /\ now' = sent + wire + after
  BY AttemptTimes
<1> QED
  BY <1>1 DEF TypeOK

\* A lookup ends, with evidence that is recent or without.
Ends ==
    /\ lookups # <<>> /\ Concludes /\ UNCHANGED control
    /\ \/ found' = found
       \/ \E e \in Rows :
            /\ e.source = Source /\ e.indicator = Asked
            /\ e.at - e.told <= Stacked(Source) /\ now' - e.at <= Ttl[Source]
            /\ found' = Append(found, e)
    /\ \A row \in cache' : row \in Rows /\ row.at - row.told <= Stacked(row.source)

\* Or it is tried once more.
Retries ==
    /\ call # NoCall /\ ~LastAttempt
    /\ call' = [call EXCEPT !.attempt = @ + 1]
    /\ UNCHANGED <<control, lookups, found, cache, feed, asked>>

\* A reply that is no answer, and what was waited after it.
Tried(after) == Attempt(after) /\ (Retries \/ (after = 0 /\ SaysNothing))

\* Nothing found, nothing stored.
LEMMA SaysNothingEnds ==
    ASSUME TypeOK, AgeInv, lookups # <<>>, SaysNothing, UNCHANGED control
    PROVE  Ends
BY DEF TypeOK, AgeInv, SaysNothing, Ends

\* Evidence that was made at the end of the step, of a word no older than the
\* source's feed may be.
LEMMA SaysEnds ==
    ASSUME TypeOK, AgeInv, lookups # <<>>, UNCHANGED control, now' \in Nat,
           NEW ids \in Lists, NEW told \in Nat, now' - told <= Stacked(Source),
           Says(Evidence(Source, Asked, ids, now', told))
    PROVE  Ends
<1> DEFINE e == Evidence(Source, Asked, ids, now', told)
<1>1. /\ e \in Rows /\ e.source = Source /\ e.indicator = Asked
      /\ e.at = now' /\ e.told = told
  BY HeadOfLookups DEF Evidence, Rows
<1>2. Concludes /\ found' = Append(found, e) /\ Put(e)
  BY DEF Says
<1> HIDE DEF e
<1>3. Ttl[Source] \in Nat /\ now' - e.at <= Ttl[Source]
  <2>1. Ttl[Source] \in Nat
    BY HeadOfLookups, Constants
  <2> QED
    BY <1>1, <2>1
<1>4. \A row \in cache' : row \in cache \/ row = e
  BY <1>2 DEF Put
<1>5. \A row \in cache' : row \in Rows /\ row.at - row.told <= Stacked(row.source)
  BY <1>1, <1>4 DEF AgeInv, TypeOK
<1> QED
  BY <1>1, <1>2, <1>3, <1>5 DEF Ends

\* Every reply but an answer ends the lookup without a result, or has it
\* tried again, after a wait that is worth it.
LEMMA OtherReplies ==
    ASSUME TypeOK, PlaceInv, HasNothing \/ Refuses \/ Unavailable \/ RateLimited
    PROVE  /\ \E after \in 0..MaxRetryAfter : Tried(after)
           /\ UNCHANGED <<control, feed, beats>> /\ faults' \in Nat
<1>0. 0 \in 0..MaxRetryAfter /\ faults \in Nat
  BY Constants DEF TypeOK
<1>1. CASE HasNothing
  BY <1>0, <1>1 DEF HasNothing, Tried
<1>2. CASE Refuses
  BY <1>0, <1>2 DEF Refuses, Fault, Tried
<1>3. CASE Unavailable
  <2>1. UNCHANGED <<control, feed, beats>> /\ faults' \in Nat /\ Attempt(0)
    BY <1>0, <1>3 DEF Unavailable, Fault
  <2>2. call # NoCall
    BY <2>1 DEF Attempt
  <2>3. Tried(0)
    BY <1>3, <2>1, <2>2 DEF Unavailable, Retries, Tried
  <2> QED
    BY <1>0, <2>1, <2>3
<1>4. CASE RateLimited
  <2>1. UNCHANGED <<control, feed, beats>> /\ faults' \in Nat
    BY <1>0, <1>4 DEF RateLimited, Fault
  <2>2. PICK retryAfter \in RetryAfters :
         \/ /\ WorthWaiting(retryAfter) /\ ~LastAttempt
            /\ Attempt(retryAfter)
            /\ call' = [call EXCEPT !.attempt = @ + 1]
            /\ UNCHANGED <<lookups, found, cache, asked>>
         \/ /\ ~WorthWaiting(retryAfter) \/ LastAttempt
            /\ Attempt(0)
            /\ SaysNothing
    BY <1>4 DEF RateLimited
  <2>3. WorthWaiting(retryAfter) => retryAfter \in 0..MaxRetryAfter
    BY Constants DEF WorthWaiting
  <2>4. CASE /\ WorthWaiting(retryAfter) /\ ~LastAttempt
             /\ Attempt(retryAfter)
             /\ call' = [call EXCEPT !.attempt = @ + 1]
             /\ UNCHANGED <<lookups, found, cache, asked>>
    <3>1. call # NoCall
      BY <2>4 DEF Attempt
    <3>2. Retries
      BY <2>1, <2>4, <3>1 DEF Retries
    <3>3. retryAfter \in 0..MaxRetryAfter /\ Tried(retryAfter)
      BY <2>3, <2>4, <3>2 DEF Tried
    <3> QED
      BY <2>1, <3>3
  <2>5. CASE Attempt(0) /\ SaysNothing
    BY <1>0, <2>1, <2>5 DEF Tried
  <2> QED
    BY <2>2, <2>4, <2>5
<1> QED
  BY <1>1, <1>2, <1>3, <1>4

\* An answer ends the lookup, and a feed's index is no younger than its word.
LEMMA AnswersEnd ==
    ASSUME TypeOK, PlaceInv, BucketInv, AgeInv, Answers
    PROVE  /\ Attempt(0) /\ Ends /\ UNCHANGED <<beats, faults>>
           /\ feed' \in [Feeds -> [index : Indexes, at : Nat, told : Nat]]
           /\ \A s \in Feeds : feed'[s].at <= feed'[s].told
<1>1. Attempt(0) /\ UNCHANGED <<control, beats, faults>>
  BY DEF Answers
<1>2. now' \in Nat /\ now <= now' /\ lookups # <<>> /\ call # NoCall
  BY <1>1, AttemptClock, AttemptTimes
<1>3. feed \in [Feeds -> [index : Indexes, at : Nat, told : Nat]] /\ call.from \in Nat /\ call.from <= now
  BY <1>2 DEF TypeOK, PlaceInv
<1>4. now \in Nat /\ now' - now' <= Stacked(Source)
  <2>1. FeedFreshFor \in Nat
    BY Constants
  <2>2. \A n \in Nat : n - n = 0
    OBVIOUS
  <2> QED
    <3>1. now' - now' = 0
      BY <1>2, <2>2
    <3>2. 0 <= Stacked(Source)
      BY <2>1 DEF Stacked
    <3>3. now \in Nat
      BY DEF TypeOK
    <3> QED
      BY <3>1, <3>2, <3>3
<1>5. CASE /\ Source \in Feeds
           /\ \E index \in FeedIndexes :
                LET f == [index |-> index, at |-> call.from, told |-> now'] IN
                  feed' = [feed EXCEPT ![Source] = f] /\ FromIndex(f, now')
  <2>1. PICK index \in FeedIndexes :
                LET f == [index |-> index, at |-> call.from, told |-> now'] IN
                  feed' = [feed EXCEPT ![Source] = f] /\ FromIndex(f, now')
    BY <1>5
  <2> DEFINE f == [index |-> index, at |-> call.from, told |-> now']
  <2>2. f \in [index : Indexes, at : Nat, told : Nat] /\ f.at <= f.told /\ f.told = now'
    BY <1>2, <1>3, <1>4 DEF Indexes
  <2>3. feed' = [feed EXCEPT ![Source] = f] /\ FromIndex(f, now')
    BY <2>1
  <2> HIDE DEF f
  <2>4. /\ feed' \in [Feeds -> [index : Indexes, at : Nat, told : Nat]]
        /\ \A s \in Feeds : feed'[s].at <= feed'[s].told
    BY <1>3, <1>5, <2>2, <2>3 DEF AgeInv
  <2>5. SaysNothing \/ Says(Evidence(Source, Asked, <<>>, now', now'))
    BY <2>2, <2>3 DEF FromIndex
  <2>6. Ends
    BY <1>1, <1>2, <1>4, <2>5, SaysNothingEnds, SaysEnds DEF Lists
  <2> QED
    BY <1>1, <2>4, <2>6
<1>6. CASE /\ Source \notin Feeds
           /\ \E ids \in IdLists : Says(Evidence(Source, Asked, ids, now', now'))
           /\ UNCHANGED feed
  <2>1. Ends
    BY <1>1, <1>2, <1>4, <1>6, SaysEnds DEF Lists
  <2> QED
    BY <1>1, <1>3, <1>6, <2>1 DEF AgeInv
<1> QED
  BY <1>5, <1>6 DEF Answers

\* What the cache has is handed over while it is fresh.
LEMMA UseCachedEnds ==
    ASSUME TypeOK, AgeInv, UseCached
    PROVE  Ends /\ UNCHANGED <<now, feed, bucket, beats, faults, sentAt>>
<1>1. lookups # <<>> /\ Concludes /\ UNCHANGED <<now, control, cache, feed, bucket, beats, faults, sentAt>>
  BY DEF UseCached, Waiting
<1>2. PICK row \in FreshRows : found' = Append(found, row)
  BY DEF UseCached
<1>3. /\ row \in cache /\ row.source = Source /\ row.indicator = Asked
      /\ row.at >= now - Ttl[Source]
  BY <1>2 DEF FreshRows
<1>4. row \in Rows /\ row.at - row.told <= Stacked(Source) /\ row.at \in Nat
  BY <1>3 DEF TypeOK, AgeInv, Rows
<1>5. now' - row.at <= Ttl[Source]
  <2>1. Ttl[Source] \in Nat /\ now \in Nat /\ now' = now
    BY <1>1, HeadOfLookups, Constants DEF TypeOK
  <2> QED
    BY <1>3, <1>4, <2>1
<1>6. \A r \in cache' : r \in Rows /\ r.at - r.told <= Stacked(r.source)
  BY <1>1 DEF TypeOK, AgeInv
<1> QED
  BY <1>1, <1>2, <1>3, <1>4, <1>5, <1>6 DEF Ends

\* A feed answers from its index while that is fresh.
LEMMA UseFeedEnds ==
    ASSUME TypeOK, AgeInv, UseFeed
    PROVE  Ends /\ UNCHANGED <<now, feed, bucket, beats, faults, sentAt>>
<1>1. /\ lookups # <<>> /\ Source \in Feeds /\ FeedIsFresh(Source)
      /\ FromIndex(feed[Source], now)
      /\ UNCHANGED <<now, control, feed, bucket, beats, faults, sentAt>>
  BY DEF UseFeed, Waiting
<1>2. feed[Source].at \in Nat /\ feed[Source].told \in Nat /\ feed[Source].at <= feed[Source].told
  BY <1>1 DEF TypeOK, AgeInv
<1>3. now \in Nat /\ now' = now /\ now - feed[Source].told <= Stacked(Source)
  <2> DEFINE told == feed[Source].told
             at == feed[Source].at
  <2>1. now \in Nat /\ now' = now
    BY <1>1 DEF TypeOK
  <2>2. now - at < FeedFreshFor /\ Stacked(Source) = FeedFreshFor /\ FeedFreshFor \in Nat
    BY <1>1, Constants DEF FeedIsFresh, Stacked
  <2>3. told \in Nat /\ at \in Nat /\ at <= told
    BY <1>2
  <2> HIDE DEF told, at
  <2>4. now - told <= FeedFreshFor
    BY <2>1, <2>2, <2>3
  <2> QED
    BY <2>1, <2>2, <2>4 DEF told
<1>4. SaysNothing \/ Says(Evidence(Source, Asked, <<>>, now', feed[Source].told))
  BY <1>1, <1>3 DEF FromIndex
<1>5. Ends
  BY <1>1, <1>2, <1>3, <1>4, SaysNothingEnds, SaysEnds DEF Lists
<1> QED
  BY <1>1, <1>5

-----------------------------------------------------------------------------
(***************************************************************************)
(* Forward chaining.                                                       *)
(***************************************************************************)

\* A sequence without repetition is as long as it has elements.
LEMMA DistinctCardinality ==
    ASSUME NEW S, NEW s \in Seq(S), IsInjective(s)
    PROVE  IsFiniteSet(ToSet(s)) /\ Cardinality(ToSet(s)) = Len(s)
<1>1. Len(s) \in Nat /\ DOMAIN s = 1..Len(s) /\ ToSet(s) = {s[k] : k \in 1..Len(s)}
  BY Elements
<1>2. \A j, k \in 1..Len(s) : s[j] = s[k] => j = k
  BY <1>1 DEF IsInjective
<1> DEFINE N == Len(s)
           E == ToSet(s)
           f == [k \in 1..N |-> s[k]]
<1>3. f \in [1..N -> E] /\ \A x \in E : \E k \in 1..N : f[k] = x
  BY <1>1
<1>4. f \in Bijection(1..N, E)
  BY <1>2, <1>3 DEF Bijection, Injection, Surjection
<1>5. N \in Nat
  BY <1>1
<1> HIDE DEF N, E, f
<1>6. IsFiniteSet(1..N) /\ Cardinality(1..N) = N
  BY <1>5, FS_Interval
<1>7. ExistsBijection(1..N, E)
  BY <1>4 DEF ExistsBijection
<1>8. IsFiniteSet(E) /\ Cardinality(E) = N
  BY <1>6, <1>7, FS_Bijection
<1> QED
  BY <1>8 DEF N, E

\* The first of a sequence without repetition.
LEMMA FirstOfDistinct ==
    ASSUME NEW S, NEW s \in Seq(S), IsInjective(s), NEW n \in Nat
    PROVE  /\ FirstOf(n, s) \in Seq(S) /\ IsInjective(FirstOf(n, s))
           /\ Len(FirstOf(n, s)) = (IF Len(s) < n THEN Len(s) ELSE n)
           /\ ToSet(FirstOf(n, s)) \subseteq ToSet(s)
<1> DEFINE m == IF Len(s) < n THEN Len(s) ELSE n
           t == SubSeq(s, 1, m)
<1>1. Len(s) \in Nat /\ DOMAIN s = 1..Len(s) /\ ToSet(s) = {s[k] : k \in 1..Len(s)}
  BY Elements
<1>2. m \in Nat /\ m <= Len(s)
  BY <1>1
<1> HIDE DEF m
<1>3. \A k \in 1..m : k \in 1..Len(s) /\ s[k] \in S
  BY <1>1, <1>2, ElementOfSeq
<1>4. t \in Seq(S) /\ Len(t) = m /\ \A k \in 1..m : t[k] = s[k]
  <2>1. t \in Seq(S) /\ Len(t) = (IF 1 <= m THEN m - 1 + 1 ELSE 0) /\ \A k \in 1..(m - 1 + 1) : t[k] = s[1 + k - 1]
    BY <1>2, <1>3, SubSeqProperties
  <2> HIDE DEF t
  <2> QED
    BY <1>2, <2>1
<1> HIDE DEF t
<1>5. DOMAIN t = 1..m /\ ToSet(t) = {t[k] : k \in 1..m}
  BY <1>4, Elements
<1>6. IsInjective(t)
  BY <1>1, <1>3, <1>4, <1>5 DEF IsInjective
<1>7. ToSet(t) \subseteq ToSet(s)
  BY <1>1, <1>3, <1>4, <1>5
<1>8. FirstOf(n, s) = t
  BY DEF FirstOf, t, m
<1> QED
  BY <1>4, <1>6, <1>7, <1>8 DEF m

\* All that was reported, in one sequence.
AllReported == FlattenSeq([k \in DOMAIN found |-> found[k].ids])

\* They are advisory ids, and exactly the reported ones.
LEMMA ReportedIds ==
    ASSUME TypeOK, \A k \in DOMAIN found : found[k].indicator = subject
    PROVE  /\ AllReported \in Seq(UNION {ToSet(ids) : ids \in Lists})
           /\ ToSet(AllReported) \cap Advisories = Reported
<1> DEFINE Ids == UNION {ToSet(ids) : ids \in Lists}
           N == Len(found)
           seqs == [k \in 1..N |-> found[k].ids]
<1>1. N \in Nat /\ DOMAIN found = 1..N /\ \A k \in 1..N : found[k] \in Rows
  BY Elements, ElementOfSeq DEF TypeOK
<1>2. \A ids \in Lists : ids \in Seq(Ids)
  <2> TAKE ids \in Lists
  <2>1. ids \in Seq(ToSet(ids))
    BY WorldAssumption, EmptySeq DEF Lists
  <2>2. ToSet(ids) \subseteq Ids
    OBVIOUS
  <2> HIDE DEF Ids
  <2> QED
    BY <2>1, <2>2, SeqMonotonic
<1> HIDE DEF Ids, N
<1>3. seqs \in [1..N -> Seq(Ids)] /\ \A k \in 1..N : seqs[k] = found[k].ids
  BY <1>1, <1>2 DEF Rows
<1>4. AllReported = FlattenSeq(seqs)
  BY <1>1 DEF AllReported
<1> HIDE DEF seqs
<1>5. /\ FlattenSeq(seqs) \in Seq(Ids)
      /\ ToSet(FlattenSeq(seqs)) = UNION {ToSet(seqs[k]) : k \in 1..N}
  BY <1>1, <1>3, Flattened
<1>6. \A k \in 1..N, id \in Advisories : Contains(found[k].ids, id) <=> id \in ToSet(seqs[k])
  BY <1>3, ContainsIsElement
<1>7. Reported = {id \in Advisories : \E k \in 1..N : id \in ToSet(seqs[k])}
  BY <1>1, <1>6 DEF Reported
<1> QED
  BY <1>4, <1>5, <1>7 DEF Ids

\* What ForwardChain adds: each source for advisories once, about each of the
\* reported advisories or as many as the cap allows.
Chosen == FirstOf(MaxForward, AdvisoryIds(AllReported))
Forwarded == FlattenSeq([k \in DOMAIN Chosen |-> Asking(Chosen[k])])

\* Those lookups are distinct, and of as many of the reported advisories as the
\* cap allows.
LEMMA ForwardedLookups ==
    ASSUME TypeOK, \A k \in DOMAIN found : found[k].indicator = subject
    PROVE  /\ Forwarded \in Seq(Pairs) /\ IsInjective(Forwarded)
           /\ \E ids \in SUBSET Reported :
                /\ IsFiniteSet(ids)
                /\ Cardinality(ids) = (IF Cardinality(Reported) < MaxForward
                                       THEN Cardinality(Reported) ELSE MaxForward)
                /\ ToSet(Forwarded) = {<<s, id>> : s \in CveSources, id \in ids}
<1> DEFINE all == AdvisoryIds(AllReported)
           ids == ToSet(Chosen)
           M == Len(Chosen)
           seqs == [k \in 1..M |-> Asking(Chosen[k])]
<1>1. all \in Seq(Advisories) /\ ToSet(all) = Reported /\ IsInjective(all)
  BY ReportedIds, AdvisoriesKept
<1>2. Cardinality(Reported) = Len(all)
  BY <1>1, DistinctCardinality
<1>3. /\ Chosen \in Seq(Advisories) /\ IsInjective(Chosen)
      /\ M = (IF Len(all) < MaxForward THEN Len(all) ELSE MaxForward)
      /\ ids \subseteq Reported
  <2> HIDE DEF all
  <2> QED
    BY <1>1, FirstOfDistinct, Constants DEF Chosen, all
<1>4. IsFiniteSet(ids) /\ Cardinality(ids) = M
  BY <1>3, DistinctCardinality
<1>5. M \in Nat /\ DOMAIN Chosen = 1..M /\ ids = {Chosen[k] : k \in 1..M}
  BY <1>3, Elements
<1>6. \A j, k \in 1..M : Chosen[j] = Chosen[k] => j = k
  BY <1>3, <1>5 DEF IsInjective
<1>7. Forwarded = FlattenSeq(seqs)
  BY <1>5 DEF Forwarded
<1> HIDE DEF all, M, ids
<1>8. \A k \in 1..M : Chosen[k] \in Advisories /\ Chosen[k] \in Indicators /\ Supporting(Chosen[k]) = CveSources
  <2> TAKE k \in 1..M
  <2>1. Chosen[k] \in Advisories
    BY <1>3, ElementOfSeq DEF M
  <2> QED
    BY <2>1, Constants DEF Indicators, Supporting
<1>9. \A k \in 1..M : /\ seqs[k] \in Seq(Pairs) /\ IsInjective(seqs[k])
                      /\ ToSet(seqs[k]) = {<<s, Chosen[k]>> : s \in CveSources}
  <2> TAKE k \in 1..M
  <2>1. seqs[k] = Asking(Chosen[k])
    OBVIOUS
  <2> HIDE DEF seqs
  <2> QED
    BY <1>8, <2>1, AskingEach
<1>10. seqs \in [1..M -> Seq(Pairs)]
  BY <1>8, AskingEach
<1> HIDE DEF seqs
<1>11. \A j, k \in 1..M : j # k => ToSet(seqs[j]) \cap ToSet(seqs[k]) = {}
  BY <1>6, <1>9
<1>12. /\ FlattenSeq(seqs) \in Seq(Pairs) /\ IsInjective(FlattenSeq(seqs))
       /\ ToSet(FlattenSeq(seqs)) = UNION {ToSet(seqs[k]) : k \in 1..M}
  BY <1>5, <1>9, <1>10, <1>11, Flattened, SMTT(30)
<1>13. UNION {ToSet(seqs[k]) : k \in 1..M} = {<<s, id>> : s \in CveSources, id \in ids}
  BY <1>5, <1>9
<1> QED
  BY <1>2, <1>3, <1>4, <1>7, <1>12, <1>13

\* What is asked moves from the lookups to the asked.
LEMMA PlanIsKept ==
    ASSUME TypeOK, lookups # <<>>, Concludes
    PROVE  /\ Plan' = Plan /\ call' = NoCall
           /\ lookups' \in Seq(Pairs) /\ asked' \in Seq(Pairs)
           /\ \A k \in DOMAIN lookups' : \E j \in DOMAIN lookups : lookups'[k] = lookups[j]
           /\ Head(lookups) \in ToSet(Plan)
           /\ \E j \in DOMAIN lookups : Head(lookups) = lookups[j]
<1> DEFINE h == Head(lookups)
           t == Tail(lookups)
           a == Append(asked, h)
           M == Len(asked)
           N == Len(lookups)
<1>1. lookups' = t /\ asked' = a /\ call' = NoCall
  BY DEF Concludes
<1>2. lookups \in Seq(Pairs) /\ asked \in Seq(Pairs)
  BY DEF TypeOK
<1>3. h \in Pairs /\ t \in Seq(Pairs) /\ Len(t) = N - 1 /\ \A k \in 1..Len(t) : t[k] = lookups[k + 1]
  BY <1>2, HeadTailProperties
<1>4. h = lookups[1]
  BY <1>2
<1>5. M \in Nat /\ N \in Nat \ {0} /\ DOMAIN lookups = 1..N /\ DOMAIN t = 1..Len(t)
  BY <1>2, <1>3, LenProperties, EmptySeq
<1>6. a \in Seq(Pairs) /\ Len(a) = M + 1 /\ (\A k \in 1..M : a[k] = asked[k]) /\ a[M + 1] = h
  BY <1>2, <1>3, AppendProperties
<1> HIDE DEF h, t, a, M, N
<1>7. /\ a \o t \in Seq(Pairs) /\ Len(a \o t) = Len(a) + Len(t)
      /\ \A k \in 1..(Len(a) + Len(t)) : (a \o t)[k] = IF k <= Len(a) THEN a[k] ELSE t[k - Len(a)]
  BY <1>3, <1>6, ConcatProperties
<1>8. /\ asked \o lookups \in Seq(Pairs) /\ Len(asked \o lookups) = M + N
      /\ \A k \in 1..(M + N) : (asked \o lookups)[k] = IF k <= M THEN asked[k] ELSE lookups[k - M]
  BY <1>2, ConcatProperties DEF M, N
<1>9. Len(a \o t) = M + N
  BY <1>3, <1>5, <1>6, <1>7
<1>10. ASSUME NEW k \in 1..(M + N)
       PROVE  (a \o t)[k] = (asked \o lookups)[k]
  <2>1. (a \o t)[k] = IF k <= M + 1 THEN a[k] ELSE t[k - (M + 1)]
    BY <1>3, <1>5, <1>6, <1>7
  <2>2. (asked \o lookups)[k] = IF k <= M THEN asked[k] ELSE lookups[k - M]
    BY <1>8
  <2>3. CASE k <= M
    <3>1. k \in 1..M /\ k <= M + 1
      BY <1>5, <2>3
    <3> QED
      BY <1>6, <2>1, <2>2, <2>3, <3>1
  <2>4. CASE k = M + 1
    <3>1. k <= M + 1 /\ ~(k <= M) /\ k - M = 1
      BY <1>5, <2>4
    <3> QED
      BY <1>4, <1>6, <2>1, <2>2, <2>4, <3>1
  <2>5. CASE k > M + 1
    <3>1. ~(k <= M + 1) /\ ~(k <= M) /\ k - (M + 1) \in 1..(N - 1) /\ (k - (M + 1)) + 1 = k - M
      BY <1>5, <2>5
    <3>2. t[k - (M + 1)] = lookups[k - M]
      BY <1>3, <3>1
    <3> QED
      BY <2>1, <2>2, <3>1, <3>2
  <2>6. k <= M \/ k = M + 1 \/ k > M + 1
    BY <1>5
  <2> QED
    BY <2>3, <2>4, <2>5, <2>6
<1>11. a \o t = asked \o lookups
  BY <1>7, <1>8, <1>9, <1>10, SeqEqual
<1>12. Plan' = Plan
  BY <1>1, <1>11 DEF Plan
<1>13. 1 \in DOMAIN lookups /\ \A k \in DOMAIN t : k + 1 \in DOMAIN lookups /\ t[k] = lookups[k + 1]
  BY <1>3, <1>5
<1>14. h \in ToSet(Plan)
  <2>1. ToSet(Plan) = ToSet(asked) \cup ToSet(lookups)
    BY <1>2, ConcatElements DEF Plan
  <2> QED
    BY <1>4, <1>13, <2>1 DEF ToSet
<1> QED
  BY <1>1, <1>3, <1>4, <1>6, <1>12, <1>13, <1>14 DEF h

-----------------------------------------------------------------------------
(***************************************************************************)
(* Every step is one of the stage and the chain, ends a lookup on the      *)
(* spot, or is an attempt with its reply.                                  *)
(***************************************************************************)

StageStep ==
    NextBatch \/ NextEntry \/ NextIndicator \/ ForwardChain \/ AttachEvidence \/ StartCall

EndsAtOnce == Ends /\ UNCHANGED <<now, feed, bucket, faults, sentAt>>

Replied(after) ==
    /\ Attempt(after) /\ (Retries \/ (after = 0 /\ Ends))
    /\ feed' \in [Feeds -> [index : Indexes, at : Nat, told : Nat]]
    /\ \A s \in Feeds : feed'[s].at <= feed'[s].told
    /\ faults' \in Nat

\* No step is of another kind.
LEMMA Effects ==
    ASSUME TypeOK, PlaceInv, BucketInv, AgeInv, Next
    PROVE  StageStep \/ EndsAtOnce \/ \E after \in 0..MaxRetryAfter : Replied(after)
<1>1. CASE StageStep
  BY <1>1
<1>2. CASE UseCached \/ UseFeed
  BY <1>2, UseCachedEnds, UseFeedEnds DEF EndsAtOnce
<1>3. CASE Answers
  <2>1. /\ Attempt(0) /\ Ends /\ UNCHANGED <<beats, faults>>
        /\ feed' \in [Feeds -> [index : Indexes, at : Nat, told : Nat]]
        /\ \A s \in Feeds : feed'[s].at <= feed'[s].told
    BY <1>3, AnswersEnd
  <2>2. faults' \in Nat /\ 0 \in 0..MaxRetryAfter
    BY <2>1, Constants DEF TypeOK
  <2>3. Replied(0)
    BY <2>1, <2>2 DEF Replied
  <2> QED
    BY <2>2, <2>3
<1>4. CASE HasNothing \/ Refuses \/ Unavailable \/ RateLimited
  <2>1. PICK after \in 0..MaxRetryAfter : Tried(after)
    BY <1>4, OtherReplies
  <2>2. UNCHANGED control /\ feed' = feed /\ faults' \in Nat
    BY <1>4, OtherReplies
  <2>3. after \in Nat /\ Attempt(after)
    BY <2>1, Constants DEF Tried
  <2>4. lookups # <<>>
    BY <2>3, AttemptTimes
  <2>5. SaysNothing => Ends
    BY <2>2, <2>4, SaysNothingEnds
  <2>6. /\ feed' \in [Feeds -> [index : Indexes, at : Nat, told : Nat]]
        /\ \A s \in Feeds : feed'[s].at <= feed'[s].told
    BY <2>2 DEF TypeOK, AgeInv
  <2>7. Replied(after)
    BY <2>1, <2>2, <2>5, <2>6 DEF Replied, Tried
  <2> QED
    BY <2>7
<1> QED
  BY <1>1, <1>2, <1>3, <1>4 DEF Next, StageStep

\* An attempt takes the clock on, and the token with it.
LEMMA RepliedTimes ==
    ASSUME TypeOK, PlaceInv, BucketInv, NEW after \in 0..MaxRetryAfter, Replied(after)
    PROVE  after \in Nat /\ Attempt(after) /\ now' \in Nat /\ now <= now'
<1>1. after \in Nat /\ Attempt(after)
  BY Constants DEF Replied
<1> QED
  BY <1>1, AttemptClock

-----------------------------------------------------------------------------
(***************************************************************************)
(* The types.                                                              *)
(***************************************************************************)

\* The types hold at first.
LEMMA TypeInit == Init => TypeOK
<1> SUFFICES ASSUME Init PROVE TypeOK
  OBVIOUS
<1>1. <<>> \in Seq(Pairs) /\ <<>> \in Seq(Rows) /\ <<>> \in Seq(Indicators) /\ <<>> \in Seq(Seq(Indicators))
  BY EmptySeq
<1>2. NoCall \in [attempt : Nat, from : Nat] /\ NoFeed \in [index : Indexes, at : Nat, told : Nat]
  BY DEF NoCall, NoFeed, Indexes
<1>3. feed \in [Feeds -> [index : Indexes, at : Nat, told : Nat]]
  BY <1>2 DEF Init
<1>4. bucket \in [Sources -> Nat \cup {Never}]
  BY DEF Init
<1> QED
  BY <1>1, <1>2, <1>3, <1>4, WorldAssumption DEF Init, TypeOK

\* What an ended lookup leaves has its types.
LEMMA EndsType ==
    ASSUME TypeOK, Ends
    PROVE  /\ lookups' \in Seq(Pairs) /\ asked' \in Seq(Pairs)
           /\ call' \in [attempt : Nat, from : Nat]
           /\ found' \in Seq(Rows) /\ cache' \in SUBSET Rows
           /\ UNCHANGED control
<1>1. lookups' \in Seq(Pairs) /\ asked' \in Seq(Pairs) /\ call' = NoCall
  BY PlanIsKept DEF Ends
<1>2. found' \in Seq(Rows)
  <2>1. found \in Seq(Rows)
    BY DEF TypeOK
  <2>2. \A e \in Rows : Append(found, e) \in Seq(Rows)
    BY <2>1, AppendProperties
  <2> QED
    BY <2>1, <2>2 DEF Ends
<1> QED
  BY <1>1, <1>2 DEF Ends, NoCall

\* Every step keeps the types.
LEMMA TypeNext ==
    ASSUME TypeOK, PlaceInv, BucketInv, AgeInv, PlanInv, [Next]_vars
    PROVE  TypeOK'
<1>1. CASE NextBatch
  <2>1. Head(batches) \in Seq(Seq(Indicators)) /\ Tail(batches) \in Seq(Seq(Seq(Indicators)))
    BY <1>1, HeadTailProperties DEF NextBatch, TypeOK
  <2>2. now' \in Nat
    <3>1. PICK rest \in RestTimes : now' = now + rest
      BY <1>1 DEF NextBatch
    <3>2. rest \in Nat /\ now \in Nat
      BY Constants DEF TypeOK
    <3> QED
      BY <3>1, <3>2
  <2> QED
    BY <1>1, <2>1, <2>2 DEF NextBatch, TypeOK
<1>2. CASE NextEntry
  <2>1. Head(entries) \in Seq(Indicators) /\ Tail(entries) \in Seq(Seq(Indicators))
    BY <1>2, HeadTailProperties DEF NextEntry, TypeOK
  <2> QED
    BY <1>2, <2>1 DEF NextEntry, TypeOK
<1>3. CASE NextIndicator
  <2>1. Head(todo) \in Indicators /\ Tail(todo) \in Seq(Indicators)
    BY <1>3, HeadTailProperties DEF NextIndicator, TypeOK
  <2>2. subject' \in Indicators /\ lookups' = Asking(subject')
    BY <1>3, <2>1 DEF NextIndicator
  <2>3. lookups' \in Seq(Pairs)
    BY <2>2, AskingEach
  <2>4. <<>> \in Seq(Rows) /\ <<>> \in Seq(Pairs)
    BY EmptySeq
  <2> QED
    BY <1>3, <2>1, <2>2, <2>3, <2>4 DEF NextIndicator, TypeOK
<1>4. CASE ForwardChain
  <2>1. \A k \in DOMAIN found : found[k].indicator = subject
    BY <1>4 DEF ForwardChain, PlanInv
  <2>2. lookups' = Forwarded /\ chained' = TRUE
    BY <1>4 DEF ForwardChain, Forwarded, Chosen, AllReported
  <2>3. lookups' \in Seq(Pairs)
    BY <2>1, <2>2, ForwardedLookups
  <2> QED
    BY <1>4, <2>2, <2>3 DEF ForwardChain, TypeOK
<1>5. CASE AttachEvidence
  <2>1. <<>> \in Seq(Rows) /\ <<>> \in Seq(Pairs)
    BY EmptySeq
  <2> QED
    BY <1>5, <2>1 DEF AttachEvidence, TypeOK
<1>6. CASE StartCall
  BY <1>6 DEF StartCall, control, TypeOK
<1>7. CASE EndsAtOnce
  BY <1>7, EndsType DEF EndsAtOnce, control, TypeOK
<1>8. ASSUME NEW after \in 0..MaxRetryAfter, Replied(after)
      PROVE  TypeOK'
  <2>1. after \in Nat /\ Attempt(after) /\ now' \in Nat
    BY <1>8, RepliedTimes
  <2>2. bucket' \in [Sources -> Nat \cup {Never}]
    <3>1. PICK sent \in Nat : bucket' = [bucket EXCEPT ![Source] = sent]
      BY <2>1, AttemptTimes
    <3> QED
      BY <3>1 DEF TypeOK
  <2>3. feed' \in [Feeds -> [index : Indexes, at : Nat, told : Nat]] /\ faults' \in Nat
    BY <1>8 DEF Replied
  <2>4. CASE Ends
    BY <2>1, <2>2, <2>3, <2>4, EndsType DEF control, TypeOK
  <2>5. CASE Retries
    <3>1. call \in [attempt : Nat, from : Nat] /\ call.attempt + 1 \in Nat
      BY DEF TypeOK
    <3>2. call' = [call EXCEPT !.attempt = call.attempt + 1]
      BY <2>5 DEF Retries
    <3>3. call' \in [attempt : Nat, from : Nat]
      BY <3>1, <3>2
    <3> QED
      BY <2>1, <2>2, <2>3, <2>5, <3>3 DEF Retries, control, TypeOK
  <2> QED
    BY <1>8, <2>4, <2>5 DEF Replied
<1>9. CASE UNCHANGED vars
  BY <1>9 DEF vars, control, TypeOK
<1> QED
  BY <1>1, <1>2, <1>3, <1>4, <1>5, <1>6, <1>7, <1>8, <1>9, Effects DEF StageStep

-----------------------------------------------------------------------------
(***************************************************************************)
(* Where a lookup is, when its requests left, how old its answer is.       *)
(***************************************************************************)

\* A retry is one more attempt at the same request.
LEMMA RetryCounts ==
    ASSUME TypeOK, PlaceInv, Retries
    PROVE  /\ call.attempt \in 1..Len(Backoffs) /\ call.from \in Nat /\ call.from <= now
           /\ call'.attempt = call.attempt + 1 /\ call'.from = call.from
           /\ call'.attempt \in 1..Len(Backoffs)
           /\ lookups # <<>> /\ UNCHANGED <<control, lookups, found, cache, feed, asked>>
<1>1. /\ call # NoCall /\ call.attempt # Len(Backoffs)
      /\ call' = [call EXCEPT !.attempt = call.attempt + 1]
      /\ UNCHANGED <<control, lookups, found, cache, feed, asked>>
  BY DEF Retries, LastAttempt
<1>2. call.attempt \in 1..Len(Backoffs) /\ call.from <= now /\ lookups # <<>>
  BY <1>1 DEF PlaceInv
<1>3. call \in [attempt : Nat, from : Nat]
  BY DEF TypeOK
<1>4. call'.attempt = call.attempt + 1 /\ call'.from = call.from
  BY <1>1, <1>3
<1>5. call.attempt + 1 \in 1..Len(Backoffs)
  BY <1>1, <1>2, Constants
<1> QED
  BY <1>1, <1>2, <1>3, <1>4, <1>5

\* The clock never goes back.
LEMMA ClockGoesOn ==
    ASSUME TypeOK, PlaceInv, BucketInv, AgeInv, [Next]_vars
    PROVE  now' \in Nat /\ now <= now'
<1>0. now \in Nat
  BY DEF TypeOK
<1>1. CASE NextBatch
  <2>1. PICK rest \in RestTimes : now' = now + rest
    BY <1>1 DEF NextBatch
  <2>2. rest \in Nat
    BY Constants
  <2> QED
    BY <1>0, <2>1, <2>2
<1>2. CASE NextEntry \/ NextIndicator \/ ForwardChain \/ AttachEvidence \/ StartCall
  BY <1>0, <1>2 DEF NextEntry, NextIndicator, ForwardChain, AttachEvidence, StartCall
<1>3. CASE EndsAtOnce
  BY <1>0, <1>3 DEF EndsAtOnce
<1>4. ASSUME NEW after \in 0..MaxRetryAfter, Replied(after)
      PROVE  now' \in Nat /\ now <= now'
  BY <1>4, RepliedTimes
<1>5. CASE UNCHANGED vars
  BY <1>0, <1>5 DEF vars
<1> QED
  BY <1>1, <1>2, <1>3, <1>4, <1>5, Effects DEF StageStep

\* No lookup is under way at first.
LEMMA PlaceInit == Init => PlaceInv
BY DEF Init, PlaceInv

\* Every step keeps a lookup in its place.
LEMMA PlaceNext ==
    ASSUME TypeOK, PlaceInv, BucketInv, AgeInv, [Next]_vars
    PROVE  PlaceInv'
<1>0. now <= now'
  BY ClockGoesOn
<1>1. CASE NextBatch
  BY <1>1 DEF NextBatch, PlaceInv
<1>2. CASE NextEntry
  BY <1>2 DEF NextEntry, PlaceInv
<1>3. CASE NextIndicator
  <2>1. Head(todo) \in Indicators
    BY <1>3, HeadTailProperties DEF NextIndicator, TypeOK
  <2>2. subject' # "none"
    BY <1>3, <2>1, Constants DEF NextIndicator
  <2> QED
    BY <1>3, <2>2 DEF NextIndicator, PlaceInv
<1>4. CASE ForwardChain
  BY <1>4, Constants DEF ForwardChain, PlaceInv, Indicators
<1>5. CASE AttachEvidence
  BY <1>5 DEF AttachEvidence, Finished, PlaceInv
<1>6. CASE StartCall
  <2>1. call' = [attempt |-> 1, from |-> now] /\ lookups # <<>>
        /\ UNCHANGED <<now, control, lookups, found, asked>>
    BY <1>6 DEF StartCall, Waiting
  <2>2. call'.attempt = 1 /\ call'.from = now
    BY <2>1
  <2>3. 1 \in 1..Len(Backoffs) /\ now \in Nat
    BY Constants DEF TypeOK
  <2> QED
    BY <2>1, <2>2, <2>3 DEF PlaceInv, control
<1>7. CASE Ends
  <2>1. call' = NoCall /\ lookups # <<>> /\ UNCHANGED control
    BY <1>7, PlanIsKept DEF Ends
  <2> QED
    BY <2>1 DEF PlaceInv, control
<1>8. CASE Retries
  <2>1. call'.attempt \in 1..Len(Backoffs) /\ call'.from <= now' /\ lookups # <<>>
    <3>1. call.from \in Nat /\ call.from <= now /\ call'.from = call.from /\ call'.attempt \in 1..Len(Backoffs)
      BY <1>8, RetryCounts
    <3>2. now \in Nat /\ now' \in Nat
      BY ClockGoesOn DEF TypeOK
    <3> QED
      BY <1>0, <1>8, <3>1, <3>2, RetryCounts
  <2>2. UNCHANGED <<control, lookups, found, asked>>
    BY <1>8 DEF Retries
  <2> QED
    BY <2>1, <2>2 DEF PlaceInv, control
<1>9. CASE UNCHANGED vars
  BY <1>9 DEF vars, control, PlaceInv
<1> QED
  BY <1>1, <1>2, <1>3, <1>4, <1>5, <1>6, <1>7, <1>8, <1>9, Effects
     DEF StageStep, EndsAtOnce, Replied

\* No request has left at first.
LEMMA BucketInit == Init => BucketInv
<1> SUFFICES ASSUME Init PROVE BucketInv
  OBVIOUS
<1>1. \A s \in Sources : bucket[s] = Never
  BY DEF Init
<1> QED
  BY <1>1, Constants DEF Init, BucketInv

\* Every step dates the token with the request.
LEMMA BucketNext ==
    ASSUME TypeOK, PlaceInv, BucketInv, AgeInv, [Next]_vars
    PROVE  BucketInv'
<1>0. now <= now' /\ now \in Nat /\ \A s \in Sources : bucket[s] \in Nat \cup {Never}
  BY ClockGoesOn DEF TypeOK
<1>1. ASSUME UNCHANGED <<bucket, sentAt>>, now' \in Nat
      PROVE  BucketInv'
  BY <1>0, <1>1, Constants DEF BucketInv
<1>2. CASE NextBatch
  <2>1. PICK rest \in RestTimes : now' = now + rest
    BY <1>2 DEF NextBatch
  <2>2. now' \in Nat
    BY <1>0, <2>1, Constants
  <2> QED
    BY <1>1, <1>2, <2>2 DEF NextBatch
<1>3. CASE NextEntry \/ NextIndicator \/ ForwardChain \/ AttachEvidence \/ StartCall \/ EndsAtOnce
  BY <1>0, <1>1, <1>3 DEF NextEntry, NextIndicator, ForwardChain, AttachEvidence, StartCall, EndsAtOnce
<1>4. ASSUME NEW after \in 0..MaxRetryAfter, Replied(after)
      PROVE  BucketInv'
  <2>1. after \in Nat /\ Attempt(after) /\ now' \in Nat
    BY <1>4, RepliedTimes
  <2>2. PICK backoff \in Backoffs[call.attempt], wire \in WireTimes, sent \in Nat :
          /\ wire \in Nat
          /\ bucket' = [bucket EXCEPT ![Source] = sent]
          /\ sentAt' = [sentAt EXCEPT ![Source] = sent]
          /\ now' = sent + wire + after
    BY <2>1, AttemptTimes
  <2>3. sentAt' = bucket'
    BY <2>2 DEF BucketInv
  <2>4. bucket \in [Sources -> Nat \cup {Never}]
    BY DEF TypeOK
  <2>5. ASSUME NEW s \in Sources
        PROVE  bucket'[s] <= now'
    <3>1. CASE s = Source
      BY <2>1, <2>2, <2>4, <3>1
    <3>2. CASE s # Source
      <4>1. bucket'[s] = bucket[s] /\ bucket[s] <= now
        BY <2>2, <2>4, <3>2 DEF BucketInv
      <4> QED
        BY <1>0, <2>1, <4>1, Constants, SMTT(30)
    <3> QED
      BY <3>1, <3>2
  <2> QED
    BY <2>3, <2>5 DEF BucketInv
<1>5. CASE UNCHANGED vars
  BY <1>0, <1>1, <1>5 DEF vars
<1> QED
  BY <1>2, <1>3, <1>4, <1>5, Effects DEF StageStep

\* Nothing is stored at first.
LEMMA AgeInit == Init => AgeInv
<1> SUFFICES ASSUME Init PROVE AgeInv
  OBVIOUS
<1>1. \A s \in Feeds : feed[s].at = 0 /\ feed[s].told = 0
  BY DEF Init, NoFeed
<1> QED
  BY <1>1 DEF Init, AgeInv

\* Every step keeps what is stored as recent as its source's feed allows.
LEMMA AgeNext ==
    ASSUME TypeOK, PlaceInv, BucketInv, AgeInv, [Next]_vars
    PROVE  AgeInv'
<1>1. ASSUME \A row \in cache' : row.at - row.told <= Stacked(row.source),
             \A s \in Feeds : feed'[s].at <= feed'[s].told
      PROVE  AgeInv'
  BY <1>1 DEF AgeInv, Stacked
<1>2. CASE UNCHANGED <<cache, feed>>
  BY <1>1, <1>2 DEF AgeInv
<1>3. CASE StageStep
  BY <1>2, <1>3 DEF StageStep, NextBatch, NextEntry, NextIndicator, ForwardChain, AttachEvidence, StartCall
<1>4. CASE EndsAtOnce
  BY <1>1, <1>4 DEF EndsAtOnce, Ends, AgeInv
<1>5. ASSUME NEW after \in 0..MaxRetryAfter, Replied(after)
      PROVE  AgeInv'
  <2>1. CASE Ends
    BY <1>1, <1>5, <2>1 DEF Replied, Ends
  <2>2. CASE Retries
    BY <1>2, <2>2 DEF Retries
  <2> QED
    BY <1>5, <2>1, <2>2 DEF Replied
<1>6. CASE UNCHANGED vars
  BY <1>2, <1>6 DEF vars
<1> QED
  BY <1>3, <1>4, <1>5, <1>6, Effects

-----------------------------------------------------------------------------
(***************************************************************************)
(* How long a request can take.                                            *)
(***************************************************************************)

\* The greatest of a set that has one.
LEMMA GreatestIs ==
    ASSUME NEW S, \E longest \in S : \A time \in S : time <= longest
    PROVE  Greatest(S) \in S /\ \A time \in S : time <= Greatest(S)
BY DEF Greatest

\* What the client's waits add up to.
LEMMA Waits ==
    /\ Greatest(WireTimes) \in Nat /\ \A wire \in WireTimes : wire <= Greatest(WireTimes)
    /\ \A n \in 1..Len(Backoffs) :
         /\ Greatest(Backoffs[n]) \in Nat
         /\ \A backoff \in Backoffs[n] : backoff <= Greatest(Backoffs[n])
    /\ \A s \in Sources : Round(s) \in Nat /\ Round(s) = Period[s] + Greatest(WireTimes)
<1>1. \A times \in {WireTimes} \cup ToSet(Backoffs) :
        \E longest \in times : \A time \in times : time <= longest
  BY WorldAssumption
<1>2. Greatest(WireTimes) \in Nat /\ \A wire \in WireTimes : wire <= Greatest(WireTimes)
  <2>1. \E longest \in WireTimes : \A time \in WireTimes : time <= longest
    BY <1>1
  <2> QED
    BY <2>1, GreatestIs, Constants
<1>3. ASSUME NEW n \in 1..Len(Backoffs)
      PROVE  /\ Greatest(Backoffs[n]) \in Nat
             /\ \A backoff \in Backoffs[n] : backoff <= Greatest(Backoffs[n])
  <2>1. Backoffs[n] \in ToSet(Backoffs) /\ Backoffs[n] \subseteq Nat
    BY Constants DEF ToSet
  <2>2. \E longest \in Backoffs[n] : \A time \in Backoffs[n] : time <= longest
    BY <1>1, <2>1
  <2> QED
    BY <2>1, <2>2, GreatestIs
<1>4. \A s \in Sources : Period[s] \in Nat
  BY Constants
<1> QED
  BY <1>2, <1>3, <1>4 DEF Round

\* The backoffs before each attempt, added up.
LEMMA BackedFacts ==
    /\ Backed[0] = 0
    /\ \A n \in 0..Len(Backoffs) : Backed[n] \in Nat
    /\ \A n \in 1..Len(Backoffs) : Backed[n] = Backed[n - 1] + Greatest(Backoffs[n])
    /\ \A n \in 0..Len(Backoffs) : Backed[n] <= Backed[Len(Backoffs)]
<1> DEFINE N == Len(Backoffs)
           G(n) == Greatest(Backoffs[n])
           Body(f, n) == IF n = 0 THEN 0 ELSE f[n - 1] + Greatest(Backoffs[n])
           step == [p \in Nat \X (0..N) |-> IF p[2] = 0 THEN 0 ELSE p[1] + G(p[2])]
<1>1. N \in Nat \ {0}
  BY Constants
<1>2. \A n \in 1..N : G(n) \in Nat
  BY Waits
<1> HIDE DEF N, G
<1>3. \A s \in Nat, n \in 0..N : step[<<s, n>>] = IF n = 0 THEN 0 ELSE s + G(n)
  OBVIOUS
<1>4. Stepping(step, Nat, 0, N)
  <2>1. ASSUME NEW s \in Nat, NEW n \in 0..N
        PROVE  step[<<s, n>>] \in Nat
    <3>1. n # 0 => n \in 1..N
      BY <1>1
    <3>2. n # 0 => s + G(n) \in Nat
      BY <1>2, <3>1
    <3> QED
      BY <1>3, <3>2
  <2> HIDE DEF step
  <2> QED
    BY <2>1 DEF Stepping
<1> HIDE DEF step
<1>5. PICK h \in [0..N -> Nat] : Looped(h, 0, N, 0, step)
  <2>1. 0 \in Nat /\ N \in Nat /\ 0 <= N
    BY <1>1
  <2> QED
    BY <1>4, <2>1, Loop
<1>6. \A n \in 0..N : h[n] = Body(h, n)
  <2> TAKE n \in 0..N
  <2>1. n # 0 => n - 1 \in 0..N
    BY <1>1
  <2> QED
    BY <1>3, <1>5, <2>1 DEF Looped, G
<1>7. h = [n \in 0..N |-> Body(h, n)]
  BY <1>6
<1>8. \E f : f = [n \in 0..N |-> Body(f, n)]
  BY <1>7
<1>9. Backed = [n \in 0..N |-> Body(Backed, n)]
  BY <1>8 DEF Backed, N
<1>10. \A n \in 0..N : Backed[n] = Body(Backed, n)
  BY <1>9
<1>11. Backed[0] = 0 /\ \A n \in 1..N : Backed[n] = Backed[n - 1] + G(n)
  BY <1>1, <1>10 DEF G
<1> DEFINE T == {n \in Nat : n <= N => Backed[n] \in Nat}
<1>12. 0 \in T
  BY <1>11
<1>13. ASSUME NEW n \in Nat, n \in T
       PROVE  n + 1 \in T
  <2> SUFFICES ASSUME n + 1 <= N PROVE Backed[n + 1] \in Nat
    OBVIOUS
  <2>1. n + 1 \in 1..N /\ (n + 1) - 1 = n /\ n <= N
    BY <1>1
  <2>2. Backed[n + 1] = Backed[n] + G(n + 1)
    BY <1>11, <2>1
  <2> QED
    BY <1>2, <1>13, <2>1, <2>2
<1> HIDE DEF T
<1>14. Nat \subseteq T
  BY <1>12, <1>13, SetInduction
<1>15. \A n \in 0..N : Backed[n] \in Nat
  BY <1>14 DEF T
<1> DEFINE U == {n \in Nat : n <= N => Backed[N - n] <= Backed[N]}
<1>16. 0 \in U
  <2>1. N - 0 = N /\ Backed[N] \in Nat
    BY <1>1, <1>15
  <2> QED
    BY <2>1
<1>17. ASSUME NEW n \in Nat, n \in U
       PROVE  n + 1 \in U
  <2> SUFFICES ASSUME n + 1 <= N PROVE Backed[N - (n + 1)] <= Backed[N]
    OBVIOUS
  <2>1. N - n \in 1..N /\ (N - n) - 1 = N - (n + 1) /\ n <= N
    BY <1>1
  <2>2. Backed[N - n] = Backed[N - (n + 1)] + G(N - n) /\ Backed[N - n] <= Backed[N]
    BY <1>11, <1>17, <2>1
  <2>3. Backed[N - (n + 1)] \in Nat /\ Backed[N - n] \in Nat /\ Backed[N] \in Nat /\ G(N - n) \in Nat
    BY <1>1, <1>2, <1>15, <2>1
  <2> QED
    BY <2>2, <2>3
<1> HIDE DEF U
<1>18. Nat \subseteq U
  BY <1>16, <1>17, SetInduction
<1>19. ASSUME NEW n \in 0..N
       PROVE  Backed[n] <= Backed[N]
  <2>1. N - n \in Nat /\ N - n <= N /\ N - (N - n) = n
    BY <1>1
  <2>2. N - n \in U
    BY <1>18, <2>1
  <2>3. Backed[N - (N - n)] <= Backed[N]
    BY <2>1, <2>2 DEF U
  <2> QED
    BY <2>1, <2>3
<1> QED
  BY <1>11, <1>15, <1>19 DEF N, G

\* More of the same costs at least as much, and one more costs one more.
LEMMA Multiples ==
    ASSUME NEW c \in Nat
    PROVE  /\ 0 * c = 0
           /\ \A n \in Nat : n * c \in Nat /\ (n + 1) * c = n * c + c
           /\ \A m, n \in Nat : m <= n => m * c <= n * c
<1>1. \A n \in Nat : n * c \in Nat /\ (n + 1) * c = n * c + c
  OBVIOUS
<1>2. ASSUME NEW m \in Nat, NEW n \in Nat, m <= n
      PROVE  m * c <= n * c
  <2> DEFINE d == n - m
  <2>1. d \in Nat /\ n = m + d
    BY <1>2
  <2> HIDE DEF d
  <2>2. d * c \in Nat /\ m * c \in Nat
    BY <1>1, <2>1
  <2>3. (m + d) * c = m * c + d * c
    BY <2>1
  <2> QED
    BY <2>1, <2>2, <2>3
<1> QED
  BY <1>1, <1>2

\* The most a request can have been held up before its n-th attempt.
LEMMA HeldUpGrows ==
    ASSUME NEW s \in Sources, NEW n \in 1..Len(Backoffs)
    PROVE  /\ HeldUp(s, 1) = 0 /\ HeldUp(s, n) \in Nat
           /\ n < Len(Backoffs) =>
                HeldUp(s, n + 1) = HeldUp(s, n) + Greatest(Backoffs[n]) + Round(s) + MaxRetryAfter
           /\ HeldUp(s, n) + Greatest(Backoffs[n]) + Round(s)
                <= Backed[Len(Backoffs)] + Len(Backoffs) * Round(s)
                     + (Len(Backoffs) - 1) * MaxRetryAfter
<1> DEFINE N == Len(Backoffs)
           r == Round(s)
           w == MaxRetryAfter
<1>1. N \in Nat /\ n \in Nat \ {0} /\ n <= N /\ n - 1 \in Nat /\ n - 1 \in 0..N /\ n \in 0..N /\ N - 1 \in Nat
  BY Constants
<1>2. r \in Nat /\ w \in Nat /\ Greatest(Backoffs[n]) \in Nat
  BY Waits, Constants
<1>3. /\ Backed[0] = 0 /\ Backed[n - 1] \in Nat /\ Backed[n] \in Nat /\ Backed[N] \in Nat
      /\ Backed[n] = Backed[n - 1] + Greatest(Backoffs[n]) /\ Backed[n] <= Backed[N]
  BY <1>1, BackedFacts
<1> HIDE DEF N, r, w
<1>4. /\ 0 * r = 0 /\ (n - 1) * r \in Nat /\ n * r \in Nat /\ N * r \in Nat
      /\ n * r = (n - 1) * r + r /\ n * r <= N * r
  <2>1. (n - 1) + 1 = n
    BY <1>1
  <2> QED
    BY <1>1, <1>2, <2>1, Multiples
<1>5. /\ 0 * w = 0 /\ (n - 1) * w \in Nat /\ n * w \in Nat /\ (N - 1) * w \in Nat
      /\ n * w = (n - 1) * w + w /\ (n - 1) * w <= (N - 1) * w
  <2>1. (n - 1) + 1 = n /\ n - 1 <= N - 1
    BY <1>1
  <2> QED
    BY <1>1, <1>2, <2>1, Multiples
<1>6. HeldUp(s, 1) = 0
  <2>1. 1 - 1 = 0
    OBVIOUS
  <2> QED
    BY <1>3, <1>4, <1>5, <2>1 DEF HeldUp, r, w
<1>7. HeldUp(s, n) = Backed[n - 1] + (n - 1) * r + (n - 1) * w
  BY DEF HeldUp, r, w
<1>8. HeldUp(s, n + 1) = Backed[n] + n * r + n * w
  <2>1. (n + 1) - 1 = n
    BY <1>1
  <2> QED
    BY <2>1 DEF HeldUp, r, w
<1> DEFINE a == (n - 1) * r
           b == n * r
           c == N * r
           d == (n - 1) * w
           e == n * w
           f == (N - 1) * w
<1>9. a \in Nat /\ b \in Nat /\ c \in Nat /\ d \in Nat /\ e \in Nat /\ f \in Nat
      /\ b = a + r /\ b <= c /\ e = d + w /\ d <= f
  BY <1>4, <1>5
<1>10. HeldUp(s, n) = Backed[n - 1] + a + d /\ HeldUp(s, n + 1) = Backed[n] + b + e
  BY <1>7, <1>8
<1> HIDE DEF a, b, c, d, e, f
<1> DEFINE g == Greatest(Backoffs[n])
<1>11. /\ Backed[n] = Backed[n - 1] + g
       /\ g \in Nat /\ Backed[n - 1] \in Nat /\ Backed[N] \in Nat /\ Backed[n] <= Backed[N]
  BY <1>2, <1>3
<1> HIDE DEF g
<1> DEFINE p == Backed[n - 1]
           q == Backed[n]
           z == Backed[N]
<1>12. p \in Nat /\ q \in Nat /\ z \in Nat /\ q = p + g /\ q <= z
  BY <1>3, <1>11
<1>13. HeldUp(s, n) = p + a + d /\ HeldUp(s, n + 1) = q + b + e
  BY <1>10
<1> HIDE DEF p, q, z
<1>14. HeldUp(s, n) \in Nat
  BY <1>9, <1>12, <1>13
<1>15. HeldUp(s, n + 1) = HeldUp(s, n) + g + r + w
  <2>1. q + b + e = p + a + d + g + r + w
    BY <1>2, <1>9, <1>11, <1>12
  <2> QED
    BY <1>13, <2>1
<1>16. HeldUp(s, n) + g + r <= z + c + f
  <2>1. p + a + d + g + r <= z + c + f
    BY <1>2, <1>9, <1>11, <1>12
  <2> QED
    BY <1>13, <2>1
<1> QED
  BY <1>6, <1>14, <1>15, <1>16 DEF c, f, g, r, w, z, N

\* What one attempt adds.
LEMMA AttemptTakes ==
    ASSUME TypeOK, PlaceInv, BucketInv, StallInv, NEW after \in 0..MaxRetryAfter, Replied(after)
    PROVE  /\ Source \in Sources /\ call.attempt \in 1..Len(Backoffs)
           /\ call.from \in Nat /\ now' \in Nat /\ after \in Nat
           /\ now' - call.from <= HeldUp(Source, call.attempt)
                + Greatest(Backoffs[call.attempt]) + Round(Source) + after
<1>1. after \in Nat /\ Attempt(after) /\ now' \in Nat
  BY RepliedTimes
<1>2. call # NoCall /\ lookups # <<>> /\ call.attempt \in 1..Len(Backoffs)
  BY <1>1, AttemptTimes
<1>3. PICK backoff \in Backoffs[call.attempt], wire \in WireTimes, sent \in Nat :
        /\ backoff \in Nat /\ wire \in Nat
        /\ sent <= now + backoff + Period[Source]
        /\ now' = sent + wire + after
  BY <1>1, AttemptTimes
<1>4. Source \in Sources /\ Period[Source] \in Nat
  BY <1>2, HeadOfLookups, Constants
<1>5. /\ backoff <= Greatest(Backoffs[call.attempt]) /\ wire <= Greatest(WireTimes)
      /\ Greatest(Backoffs[call.attempt]) \in Nat /\ Greatest(WireTimes) \in Nat
      /\ Round(Source) = Period[Source] + Greatest(WireTimes)
  BY <1>2, <1>4, Waits
<1>6. HeldUp(Source, call.attempt) \in Nat
  BY <1>2, <1>4, HeldUpGrows
<1>7. call.from \in Nat /\ now \in Nat /\ now - call.from <= HeldUp(Source, call.attempt)
  BY <1>2 DEF TypeOK, StallInv
<1>8. now' - call.from <= HeldUp(Source, call.attempt)
                + Greatest(Backoffs[call.attempt]) + Round(Source) + after
  BY <1>1, <1>3, <1>4, <1>5, <1>6, <1>7
<1> QED
  BY <1>1, <1>2, <1>4, <1>7, <1>8

\* Nothing is held up at first.
LEMMA StallInit == Init => StallInv
BY DEF Init, StallInv

\* Every step keeps a request within what its attempts so far account for.
LEMMA StallNext ==
    ASSUME TypeOK, PlaceInv, BucketInv, AgeInv, StallInv, [Next]_vars
    PROVE  StallInv'
<1>1. CASE call' = NoCall
  BY <1>1 DEF StallInv, NoCall
<1>2. CASE UNCHANGED <<call, now, lookups>>
  BY <1>2 DEF StallInv, HeldUp, Round, Source
<1>3. CASE NextBatch \/ NextIndicator
  BY <1>1, <1>3 DEF NextBatch, NextIndicator, PlaceInv
<1>4. CASE ForwardChain \/ AttachEvidence
  BY <1>1, <1>4 DEF ForwardChain, AttachEvidence, Finished
<1>5. CASE NextEntry
  BY <1>2, <1>5 DEF NextEntry
<1>6. CASE StartCall
  <2>1. /\ call' = [attempt |-> 1, from |-> now] /\ lookups # <<>>
        /\ now' = now /\ lookups' = lookups
    BY <1>6 DEF StartCall, Waiting
  <2>2. call'.attempt = 1 /\ call'.from = now /\ Source' = Source
    BY <2>1 DEF Source
  <2>3. Source \in Sources /\ 1 \in 1..Len(Backoffs) /\ now \in Nat
    BY <2>1, HeadOfLookups, Constants DEF TypeOK
  <2>4. HeldUp(Source, 1) = 0 /\ now - now = 0
    <3>1. HeldUp(Source, 1) = 0
      BY <2>3, HeldUpGrows
    <3> QED
      BY <2>3, <3>1
  <2>5. now' - call'.from <= HeldUp(Source', call'.attempt)
    <3>1. now' - call'.from = 0 /\ HeldUp(Source', call'.attempt) = 0
      BY <2>1, <2>2, <2>4
    <3> QED
      BY <3>1
  <2> QED
    BY <2>5 DEF StallInv
<1>7. CASE Ends
  BY <1>1, <1>7, PlanIsKept DEF Ends
<1>8. ASSUME NEW after \in 0..MaxRetryAfter, Replied(after), Retries
      PROVE  StallInv'
  <2> DEFINE n == call.attempt
  <2>1. /\ Source \in Sources /\ n \in 1..Len(Backoffs)
        /\ call.from \in Nat /\ now' \in Nat /\ after \in Nat
        /\ now' - call.from <= HeldUp(Source, n) + Greatest(Backoffs[n]) + Round(Source) + after
    BY <1>8, AttemptTakes
  <2>2. call'.attempt = n + 1 /\ call'.from = call.from /\ n + 1 \in 1..Len(Backoffs) /\ lookups' = lookups
    BY <1>8, RetryCounts
  <2>3. Source' = Source
    BY <2>2 DEF Source
  <2> HIDE DEF n
  <2>4. n < Len(Backoffs) /\ after <= MaxRetryAfter /\ MaxRetryAfter \in Nat
    BY <1>8, <2>1, <2>2, Constants
  <2>5. /\ HeldUp(Source, n) \in Nat /\ Greatest(Backoffs[n]) \in Nat /\ Round(Source) \in Nat
        /\ HeldUp(Source, n + 1) = HeldUp(Source, n) + Greatest(Backoffs[n]) + Round(Source) + MaxRetryAfter
    BY <2>1, <2>4, HeldUpGrows, Waits
  <2>6. now' - call.from <= HeldUp(Source, n + 1)
    BY <2>1, <2>4, <2>5, SMTT(30)
  <2>7. now' - call'.from <= HeldUp(Source', call'.attempt)
    BY <2>2, <2>3, <2>6
  <2> QED
    BY <2>7 DEF StallInv
<1>9. CASE UNCHANGED vars
  BY <1>2, <1>9 DEF vars
<1> QED
  BY <1>3, <1>4, <1>5, <1>6, <1>7, <1>8, <1>9, Effects DEF StageStep, EndsAtOnce, Replied

-----------------------------------------------------------------------------
(***************************************************************************)
(* What is asked about a subject.                                          *)
(***************************************************************************)

\* What begins a sequence without repetition has none either.
LEMMA PrefixDistinct ==
    ASSUME NEW S, NEW s \in Seq(S), NEW t \in Seq(S), IsInjective(s \o t)
    PROVE  IsInjective(s)
<1> DEFINE u == s \o t
<1>1. /\ u \in Seq(S) /\ Len(u) = Len(s) + Len(t)
      /\ \A k \in 1..(Len(s) + Len(t)) : u[k] = IF k <= Len(s) THEN s[k] ELSE t[k - Len(s)]
  BY ConcatProperties
<1>2. IsInjective(u)
  OBVIOUS
<1> HIDE DEF u
<1>3. /\ Len(s) \in Nat /\ DOMAIN s = 1..Len(s) /\ Len(t) \in Nat
      /\ DOMAIN u = 1..(Len(s) + Len(t))
  BY <1>1, LenProperties
<1>4. \A k \in 1..Len(s) : k \in DOMAIN u /\ s[k] = u[k]
  BY <1>1, <1>3
<1> QED
  BY <1>2, <1>3, <1>4 DEF IsInjective

\* Nothing asked and nothing to ask.
LEMMA EmptyPlan ==
    /\ <<>> \o <<>> = <<>> /\ IsInjective(<<>>) /\ DOMAIN <<>> = {}
    /\ \A S : \A s \in Seq(S) : <<>> \o s = s /\ s \o <<>> = s
<1>1. DOMAIN <<>> = {}
  BY EmptySeq, LenProperties
<1>2. ASSUME NEW S, NEW s \in Seq(S)
      PROVE  <<>> \o s = s /\ s \o <<>> = s
  BY ConcatEmptySeq
<1>3. <<>> \o <<>> = <<>>
  BY <1>2, EmptySeq
<1> QED
  BY <1>1, <1>2, <1>3 DEF IsInjective

\* Nothing is asked at first.
LEMMA PlanInit == Init => PlanInv
<1> SUFFICES ASSUME Init PROVE PlanInv
  OBVIOUS
<1>1. Plan = <<>> \o <<>> /\ found = <<>> /\ ~chained /\ subject = "none"
  BY DEF Init, Plan
<1> QED
  BY <1>1, EmptyPlan DEF PlanInv

\* Every step keeps to the plan, or settles it anew.
LEMMA PlanNext ==
    ASSUME TypeOK, PlaceInv, BucketInv, AgeInv, PlanInv, [Next]_vars
    PROVE  PlanInv'
<1>1. CASE UNCHANGED <<subject, chained, found, lookups, asked>>
  <2>1. Plan' = Plan /\ OwnPairs' = OwnPairs /\ Reported' = Reported
    BY <1>1 DEF Plan, OwnPairs, Reported
  <2>2. \A ids : Pursues(ids)' <=> Pursues(ids)
    BY <1>1, <2>1 DEF Pursues
  <2> QED
    BY <1>1, <2>1, <2>2 DEF PlanInv
<1>2. CASE NextBatch \/ NextEntry \/ StartCall \/ Retries \/ UNCHANGED vars
  BY <1>1, <1>2 DEF NextBatch, NextEntry, StartCall, Retries, vars, control
<1>3. CASE NextIndicator
  <2>1. /\ subject' = Head(todo) /\ ~chained' /\ found' = <<>> /\ asked' = <<>>
        /\ lookups' = Asking(subject')
    BY <1>3 DEF NextIndicator
  <2>2. subject' \in Indicators
    BY <1>3, <2>1, HeadTailProperties DEF NextIndicator, TypeOK
  <2>3. /\ lookups' \in Seq(Pairs) /\ IsInjective(lookups')
        /\ ToSet(lookups') = {<<s, subject'>> : s \in Supporting(subject')}
    BY <2>1, <2>2, AskingEach
  <2>4. Plan' = lookups'
    BY <2>1, <2>3, EmptyPlan DEF Plan
  <2> QED
    BY <2>1, <2>3, <2>4, EmptyPlan DEF PlanInv, OwnPairs
<1>4. CASE AttachEvidence
  <2>1. /\ lookups' = <<>> /\ asked' = <<>> /\ found' = <<>> /\ ~chained' /\ subject' = "none"
    BY <1>4 DEF AttachEvidence, Finished
  <2>2. Plan' = <<>>
    BY <2>1, EmptyPlan DEF Plan
  <2> QED
    BY <2>1, <2>2, EmptyPlan DEF PlanInv
<1>5. CASE ForwardChain
  <2>1. /\ lookups = <<>> /\ subject \in Packages /\ ~chained
        /\ chained' /\ UNCHANGED <<subject, found, asked>>
    BY <1>5 DEF ForwardChain
  <2>2. lookups' = Forwarded
    BY <1>5 DEF ForwardChain, Forwarded, Chosen, AllReported
  <2>3. subject # "none" /\ subject \notin Advisories
    BY <2>1, Constants DEF Indicators
  <2>4. \A k \in DOMAIN found : found[k].indicator = subject
    BY <2>1 DEF PlanInv
  <2>5. asked \in Seq(Pairs) /\ Plan = asked
    BY <2>1, EmptyPlan DEF Plan, TypeOK
  <2>6. IsInjective(asked) /\ ToSet(asked) = OwnPairs
    BY <2>1, <2>3, <2>5 DEF PlanInv
  <2>7. PICK ids \in SUBSET Reported :
          /\ IsFiniteSet(ids)
          /\ Cardinality(ids) = (IF Cardinality(Reported) < MaxForward
                                 THEN Cardinality(Reported) ELSE MaxForward)
          /\ ToSet(Forwarded) = {<<s, id>> : s \in CveSources, id \in ids}
    BY <2>4, ForwardedLookups
  <2>8. Forwarded \in Seq(Pairs) /\ IsInjective(Forwarded)
    BY <2>4, ForwardedLookups
  <2>9. ids \subseteq Advisories
    BY DEF Reported
  <2>10. ToSet(asked) \cap ToSet(Forwarded) = {}
    BY <2>3, <2>6, <2>7, <2>9 DEF OwnPairs
  <2>11. Plan' = asked \o Forwarded
    BY <2>1, <2>2 DEF Plan
  <2>12. IsInjective(Plan') /\ ToSet(Plan') = ToSet(asked) \cup ToSet(Forwarded)
    BY <2>5, <2>6, <2>8, <2>10, <2>11, ConcatElements
  <2>13. Reported' = Reported /\ OwnPairs' = OwnPairs
    BY <2>1 DEF Reported, OwnPairs
  <2>14. Pursues(ids)' /\ ids \in SUBSET Reported'
    BY <2>6, <2>7, <2>12, <2>13 DEF Pursues
  <2>15. \A k \in DOMAIN lookups' : lookups'[k][2] \in Advisories
    <3> TAKE k \in DOMAIN lookups'
    <3>1. lookups'[k] \in ToSet(Forwarded)
      BY <2>2 DEF ToSet
    <3> QED
      BY <2>7, <2>9, <3>1
  <2> QED
    BY <2>1, <2>12, <2>14, <2>15 DEF PlanInv
<1>6. CASE Ends
  <2>1. /\ Plan' = Plan /\ Head(lookups) \in ToSet(Plan)
        /\ \A k \in DOMAIN lookups' : \E j \in DOMAIN lookups : lookups'[k] = lookups[j]
        /\ \E j \in DOMAIN lookups : Head(lookups) = lookups[j]
    BY <1>6, PlanIsKept DEF Ends
  <2>2. lookups # <<>> /\ UNCHANGED <<subject, chained>> /\ subject # "none"
    BY <1>6 DEF Ends, control, PlaceInv
  <2>3. Head(lookups) = <<Source, Asked>>
    BY <2>2, HeadOfLookups
  <2>4. found' = found \/ \E e \in Rows : e.indicator = Asked /\ found' = Append(found, e)
    BY <1>6 DEF Ends
  <2>5. /\ found \in Seq(Rows) /\ Len(found) \in Nat /\ DOMAIN found = 1..Len(found)
    BY LenProperties DEF TypeOK
  <2>6. \/ found' = found
        \/ /\ DOMAIN found' = 1..(Len(found) + 1)
           /\ \A k \in 1..Len(found) : found'[k] = found[k]
           /\ found'[Len(found) + 1].indicator = Asked
    <3>1. ASSUME NEW e \in Rows, e.indicator = Asked, found' = Append(found, e)
          PROVE  /\ DOMAIN found' = 1..(Len(found) + 1)
                 /\ \A k \in 1..Len(found) : found'[k] = found[k]
                 /\ found'[Len(found) + 1].indicator = Asked
      <4>1. /\ found' \in Seq(Rows) /\ Len(found') = Len(found) + 1
            /\ \A k \in 1..Len(found) : found'[k] = found[k]
            /\ found'[Len(found) + 1] = e
        BY <2>5, <3>1, AppendProperties
      <4> QED
        BY <3>1, <4>1, LenProperties
    <3> QED
      BY <2>4, <3>1
  <2>7. \A k \in 1..(Len(found) + 1) : k \in 1..Len(found) \/ k = Len(found) + 1
    BY <2>5
  <2>8. CASE ~chained
    <3>1. ToSet(Plan) = OwnPairs
      BY <2>2, <2>8 DEF PlanInv
    <3>2. Asked = subject
      BY <2>1, <2>3, <3>1 DEF OwnPairs
    <3>3. \A k \in DOMAIN found : found[k].indicator = subject
      BY <2>8 DEF PlanInv
    <3>4. \A k \in DOMAIN found' : found'[k].indicator = subject
      BY <2>5, <2>6, <2>7, <3>2, <3>3
    <3> QED
      BY <2>1, <2>2, <2>8, <3>1, <3>4 DEF PlanInv, OwnPairs
  <2>9. CASE chained
    <3>1. Asked \in Advisories
      BY <2>1, <2>3, <2>9 DEF PlanInv
    <3>2. Asked # subject
      BY <2>9, <3>1, Constants DEF PlaceInv
    <3>3. Reported' = Reported
      <4>1. \A id : (\E k \in DOMAIN found' : found'[k].indicator = subject /\ Contains(found'[k].ids, id))
                 <=> (\E k \in DOMAIN found : found[k].indicator = subject /\ Contains(found[k].ids, id))
        <5>1. CASE found' = found
          BY <5>1
        <5>2. CASE /\ DOMAIN found' = 1..(Len(found) + 1)
                   /\ \A k \in 1..Len(found) : found'[k] = found[k]
                   /\ found'[Len(found) + 1].indicator = Asked
          <6>1. \A k \in 1..Len(found) : k \in 1..(Len(found) + 1)
            BY <2>5
          <6> QED
            BY <2>5, <2>7, <3>2, <5>2, <6>1
        <5> QED
          BY <2>6, <5>1, <5>2
      <4> QED
        BY <2>2, <4>1 DEF Reported
    <3>4. OwnPairs' = OwnPairs
      BY <2>2 DEF OwnPairs
    <3>5. PICK ids \in SUBSET Reported : Pursues(ids)
      BY <2>9 DEF PlanInv
    <3>6. Pursues(ids)' /\ ids \in SUBSET Reported'
      BY <2>1, <3>3, <3>4, <3>5 DEF Pursues
    <3>7. \A k \in DOMAIN lookups' : lookups'[k][2] \in Advisories
      BY <2>1, <2>9 DEF PlanInv
    <3> QED
      BY <2>1, <2>2, <2>9, <3>6, <3>7 DEF PlanInv
  <2> QED
    BY <2>8, <2>9
<1> QED
  BY <1>2, <1>3, <1>4, <1>5, <1>6, Effects DEF StageStep, EndsAtOnce, Replied

-----------------------------------------------------------------------------
(***************************************************************************)
(* What follows.                                                           *)
(***************************************************************************)

\* The inductive invariant holds of every initial state.
LEMMA InitIInv == Init => IInv
BY TypeInit, PlaceInit, BucketInit, AgeInit, StallInit, PlanInit DEF IInv

\* The inductive invariant holds of every behaviour.
THEOREM Invariance == Spec => []IInv
<1>1. IInv /\ [Next]_vars => IInv'
  BY TypeNext, PlaceNext, BucketNext, AgeNext, StallNext, PlanNext DEF IInv
<1> QED
  BY InitIInv, <1>1, PTL DEF Spec

\* Whatever the services reply, lookups, evidence, feeds and tokens keep their
\* kinds: no more attempts are made than there are backoffs, and nothing but
\* what was asked of a source that supports it is stored.
THEOREM TypeCorrect == Spec => []TypeOK
  BY Invariance, PTL DEF IInv

\* About a subject nothing is asked twice, and when its evidence is attached
\* every source was asked about it, and every source for advisories about as
\* many of the reported advisories as the cap allows.
THEOREM AskedCorrect == Spec => []EachAskedOnce
<1>1. ASSUME IInv
      PROVE  EachAskedOnce
  <2> USE DEF IInv
  <2> DEFINE own == {k \in DOMAIN found : found[k].indicator = subject}
             reported == {id \in Advisories : \E k \in own : Contains(found[k].ids, id)}
             pursued == {id \in Advisories \ {subject} : \E s \in Sources : Contains(asked, <<s, id>>)}
             Wanted == {<<s, i>> : s \in Supporting(subject), i \in {subject}}
                         \cup {<<s, i>> : s \in CveSources, i \in pursued}
             Least == IF Cardinality(reported) < MaxForward
                      THEN Cardinality(reported) ELSE MaxForward
             Capped == /\ pursued \subseteq reported
                       /\ Cardinality(pursued) = Least
  <2>1. asked \in Seq(Pairs) /\ lookups \in Seq(Pairs)
    BY <1>1 DEF TypeOK
  <2>2. IsInjective(asked)
    BY <1>1, <2>1, PrefixDistinct DEF PlanInv, Plan
  <2>3. reported = Reported
    BY DEF Reported
  <2>4. pursued = {id \in Advisories \ {subject} : \E s \in Sources : <<s, id>> \in ToSet(asked)}
    BY <2>1, ContainsIsElement
  <2> HIDE DEF reported, pursued
  <2>5. ASSUME Finished
        PROVE  ToSet(asked) = Wanted /\ (subject \in Packages /\ CveSources # {} => Capped)
    <3>1. subject # "none" /\ lookups = <<>> /\ (subject \in Advisories \/ chained)
      BY <2>5 DEF Finished
    <3>2. Plan = asked
      BY <2>1, <3>1, EmptyPlan DEF Plan
    <3>3. OwnPairs = {<<s, i>> : s \in Supporting(subject), i \in {subject}}
      BY DEF OwnPairs
    <3>4. CASE ~chained
      <4>1. subject \in Advisories /\ subject \notin Packages
        BY <3>1, <3>4, Constants
      <4>2. ToSet(asked) = OwnPairs
        BY <1>1, <3>1, <3>2, <3>4 DEF PlanInv
      <4>3. pursued = {}
        BY <2>4, <4>2 DEF OwnPairs
      <4> QED
        BY <3>3, <4>1, <4>2, <4>3
    <3>5. CASE chained
      <4>1. subject \in Packages /\ subject \notin Advisories
        BY <1>1, <3>5, Constants DEF PlaceInv
      <4>2. PICK ids \in SUBSET Reported : Pursues(ids)
        BY <1>1, <3>5 DEF PlanInv
      <4>3. /\ ids \subseteq Advisories /\ ids \subseteq Reported
            /\ Cardinality(ids) = (IF Cardinality(Reported) < MaxForward
                                   THEN Cardinality(Reported) ELSE MaxForward)
            /\ ToSet(asked) = OwnPairs \cup {<<s, id>> : s \in CveSources, id \in ids}
        BY <3>2, <4>2 DEF Pursues, Reported
      <4>4. CveSources \subseteq Sources
        BY Constants
      <4>5. \A id \in pursued : id \in ids
        BY <2>4, <4>1, <4>3 DEF OwnPairs
      <4>6. CveSources # {} => pursued = ids
        <5>1. ASSUME NEW s \in CveSources, NEW id \in ids
              PROVE  id \in pursued
          BY <2>4, <4>1, <4>3, <4>4, <5>1
        <5> QED
          BY <4>5, <5>1
      <4>7. {<<s, i>> : s \in CveSources, i \in pursued} = {<<s, id>> : s \in CveSources, id \in ids}
        BY <4>6
      <4> QED
        BY <2>3, <3>3, <4>3, <4>6, <4>7
    <3> QED
      BY <3>4, <3>5
  <2> QED
    BY <2>2, <2>5 DEF EachAskedOnce, own, reported, pursued
<1> QED
  BY <1>1, Invariance, PTL

\* Two requests to one host leave at least its period apart.
THEOREM PacedCorrect == Spec => Paced
<1>1. ASSUME IInv, [Next]_vars, NEW s \in Sources, sentAt[s] # Never, sentAt'[s] # sentAt[s]
      PROVE  sentAt'[s] - sentAt[s] >= Period[s]
  <2> USE DEF IInv
  <2>1. PICK after \in 0..MaxRetryAfter : Replied(after)
    BY <1>1, Effects
       DEF StageStep, NextBatch, NextEntry, NextIndicator, ForwardChain, AttachEvidence,
           StartCall, EndsAtOnce, vars
  <2>2. after \in Nat /\ Attempt(after)
    BY <1>1, <2>1, RepliedTimes
  <2>3. PICK backoff \in Backoffs[call.attempt], wire \in WireTimes, sent \in Nat :
          /\ bucket[Source] = Never \/ sent - bucket[Source] >= Period[Source]
          /\ sentAt' = [sentAt EXCEPT ![Source] = sent]
    BY <1>1, <2>2, AttemptTimes
  <2>4. sentAt = bucket /\ sentAt \in [Sources -> Nat \cup {Never}]
    BY <1>1 DEF BucketInv, TypeOK
  <2>5. s = Source /\ sentAt'[s] = sent
    BY <1>1, <2>3, <2>4
  <2> QED
    BY <1>1, <2>3, <2>4, <2>5
<1>2. IInv /\ [Next]_vars =>
        [\A s \in Sources :
           sentAt[s] # Never /\ sentAt'[s] # sentAt[s] => sentAt'[s] - sentAt[s] >= Period[s]]_vars
  BY <1>1
<1> QED
  BY <1>2, Invariance, PTL DEF Spec, Paced

\* Evidence handed over was said by its source within its time to live, and
\* for a feed its freshness window on top.
THEOREM RecencyCorrect == Spec => EvidenceIsRecent
<1>1. ASSUME IInv, [Next]_vars, Len(found') > Len(found)
      PROVE  LET e == Last(found') IN
               now' - e.told <= Ttl[e.source] +
                                (IF e.source \in Feeds THEN FeedFreshFor ELSE 0)
  <2> USE DEF IInv
  <2>0. found \in Seq(Rows) /\ Len(found) \in Nat /\ ~(Len(found) > Len(found))
    <3>1. found \in Seq(Rows) /\ Len(found) \in Nat
      BY <1>1, LenProperties DEF TypeOK
    <3> QED
      BY <3>1
  <2>1. Len(<<>>) = 0 /\ found' # found /\ found' # <<>>
    <3>1. Len(<<>>) = 0
      BY EmptySeq
    <3> QED
      BY <1>1, <2>0, <3>1
  <2>2. Ends
    BY <1>1, <2>1, Effects
       DEF StageStep, NextBatch, NextEntry, NextIndicator, ForwardChain, AttachEvidence,
           StartCall, EndsAtOnce, Replied, Retries, vars
  <2>3. PICK e \in Rows :
          /\ e.source = Source
          /\ e.at - e.told <= Stacked(Source) /\ now' - e.at <= Ttl[Source]
          /\ found' = Append(found, e)
    BY <2>1, <2>2 DEF Ends
  <2>4. Last(found') = e
    <3>1. Len(found') = Len(found) + 1 /\ found'[Len(found) + 1] = e
      BY <2>0, <2>3, AppendProperties
    <3> QED
      BY <3>1 DEF Last
  <2>5. e.at \in Nat /\ e.told \in Nat /\ e.source \in Sources
    BY DEF Rows
  <2>6. now' \in Nat /\ Ttl[Source] \in Nat /\ Stacked(Source) \in Nat
    BY <1>1, <2>3, <2>5, ClockGoesOn, Constants DEF Stacked
  <2>7. now' - e.told <= Ttl[Source] + Stacked(Source)
    BY <2>3, <2>5, <2>6
  <2> QED
    BY <2>3, <2>4, <2>7 DEF Stacked
<1>2. IInv /\ [Next]_vars =>
        [Len(found') > Len(found) =>
           LET e == Last(found') IN
             now' - e.told <= Ttl[e.source] +
                              (IF e.source \in Feeds THEN FeedFreshFor ELSE 0)]_vars
  BY <1>1
<1> QED
  BY <1>2, Invariance, PTL DEF Spec, EvidenceIsRecent

\* A request holds the cycle up for no more than its timeouts, its backoffs,
\* its tokens, and MaxRetryAfter between two attempts.
THEOREM StallCorrect == Spec => StallIsBounded
<1> DEFINE Most == Backed[Len(Backoffs)] + Len(Backoffs) * (Period[Source] + Greatest(WireTimes))
                     + (Len(Backoffs) - 1) * MaxRetryAfter
<1>1. ASSUME IInv, [Next]_vars, call # NoCall
      PROVE  now' - call.from <= Most
  <2> USE DEF IInv
  <2> DEFINE n == call.attempt
             g == Greatest(Backoffs[n])
             h == HeldUp(Source, n)
             r == Round(Source)
             N == Len(Backoffs)
             M == N * r
             W == (N - 1) * MaxRetryAfter
             z == Backed[N]
  <2>1. n \in 1..N /\ call.from \in Nat /\ lookups # <<>> /\ now \in Nat
    BY <1>1 DEF PlaceInv, TypeOK
  <2>2. Source \in Sources
    BY <1>1, <2>1, HeadOfLookups
  <2>3. /\ h \in Nat /\ g \in Nat /\ r \in Nat /\ h + g + r <= z + M + W
        /\ r = Period[Source] + Greatest(WireTimes)
    BY <2>1, <2>2, HeldUpGrows, Waits
  <2>4. /\ n < N => h + g + r + MaxRetryAfter = HeldUp(Source, n + 1) /\ n + 1 \in 1..N
        /\ N \in Nat \ {0} /\ MaxRetryAfter \in Nat
    BY <2>1, <2>2, HeldUpGrows, Constants
  <2>5. z \in Nat /\ M \in Nat /\ W \in Nat
    <3>1. N \in Nat /\ N - 1 \in Nat /\ N \in 0..N
      BY <2>4
    <3>2. z \in Nat
      BY <3>1, BackedFacts
    <3> HIDE DEF N, r, z
    <3>3. N * r \in Nat /\ (N - 1) * MaxRetryAfter \in Nat
      BY <2>3, <2>4, <3>1, Multiples
    <3> QED
      BY <3>2, <3>3
  <2>6. \A m \in 1..N : HeldUp(Source, m) <= z + M + W
    <3> TAKE m \in 1..N
    <3>1. /\ HeldUp(Source, m) \in Nat /\ Greatest(Backoffs[m]) \in Nat
          /\ HeldUp(Source, m) + Greatest(Backoffs[m]) + r <= z + M + W
      BY <2>2, HeldUpGrows, Waits
    <3> DEFINE x == HeldUp(Source, m)
               y == Greatest(Backoffs[m])
    <3>2. x \in Nat /\ y \in Nat /\ x + y + r <= z + M + W
      BY <3>1
    <3> HIDE DEF x, y, r, z, M, W
    <3>3. x <= z + M + W
      BY <2>3, <2>5, <3>2
    <3> QED
      BY <3>3 DEF x
  <2>7. Most = z + M + W
    BY <2>3
  <2>8. now - call.from <= h
    BY <1>1 DEF StallInv
  <2>9. CASE now' = now
    <3>1. h <= z + M + W
      BY <2>1, <2>6
    <3> HIDE DEF n, g, h, r, N, M, W, z, Most
    <3>2. now - call.from <= z + M + W
      BY <2>1, <2>3, <2>5, <2>8, <3>1
    <3> QED
      BY <2>7, <2>9, <3>2
  <2>10. ASSUME NEW after \in 0..MaxRetryAfter, Replied(after)
         PROVE  now' - call.from <= Most
    <3>1. now' \in Nat /\ after \in Nat /\ now' - call.from <= h + g + r + after
      BY <1>1, <2>10, AttemptTakes
    <3>2. CASE after = 0
      <4> HIDE DEF n, g, h, r, N, M, W, z, Most
      <4> QED
        BY <2>1, <2>3, <2>5, <2>7, <3>1, <3>2
    <3>3. CASE Retries
      <4>1. n < N
        BY <1>1, <2>1, <2>4, <3>3 DEF Retries, LastAttempt
      <4>2. h + g + r + MaxRetryAfter <= z + M + W
        BY <2>4, <2>6, <4>1
      <4>3. after <= MaxRetryAfter
        BY <2>4, <3>1
      <4> HIDE DEF n, g, h, r, N, M, W, z, Most
      <4> QED
        BY <2>1, <2>3, <2>4, <2>5, <2>7, <3>1, <4>2, <4>3, SMTT(30)
    <3> QED
      BY <2>10, <3>2, <3>3 DEF Replied
  <2>11. CASE NextBatch
    BY <1>1, <2>1, <2>11 DEF NextBatch, PlaceInv
  <2> QED
    BY <1>1, <2>9, <2>10, <2>11, Effects
       DEF StageStep, NextEntry, NextIndicator, ForwardChain, AttachEvidence, StartCall,
           EndsAtOnce, vars
<1>2. IInv /\ [Next]_vars => [call # NoCall => now' - call.from <= Most]_vars
  BY <1>1
<1> QED
  BY <1>2, Invariance, PTL DEF Spec, StallIsBounded

=============================================================================
