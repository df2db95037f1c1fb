---------------------------- MODULE LaunchProofs ----------------------------
(***************************************************************************)
(* Of the bootstrap: that the recorded version is earned, that success     *)
(* means every revision is there, and that a bootstrap nobody overlaps     *)
(* leaves the whole schema, for any files earlier builds left, any         *)
(* deployment of the three commands, and any number of starts and crashes. *)
(* Of the hosts file: that the lines outside the managed block are kept,   *)
(* and that installing a name is idempotent and reversible, for any file   *)
(* of lines and any edits by the user and the commands.                    *)
(***************************************************************************)
EXTENDS Launch, NaturalsInduction, WellFoundedInduction,
        SequenceTheorems, TLAPS

-----------------------------------------------------------------------------
(***************************************************************************)
(* Induction on the natural numbers, in the form the provers can use, and  *)
(* the loops it shows to be well defined.                                  *)
(***************************************************************************)

\* A set with 0 that is closed under successor has every natural number.
LEMMA SetInduction ==
    ASSUME NEW T, 0 \in T, \A n \in Nat : n \in T => n + 1 \in T
    PROVE  Nat \subseteq T
<1> SUFFICES ASSUME Nat \ T # {} PROVE FALSE
  OBVIOUS
<1>1. PICK n \in Nat \ T : \A m \in Nat \ T : ~(<<m, n>> \in OpToRel(<, Nat))
  BY NatLessThanWellFounded, WFMin
<1>2. \A m \in Nat \ T : ~(m < n)
  BY <1>1 DEF OpToRel
<1>3. n - 1 \in Nat /\ n - 1 \in T
  BY <1>2
<1> QED
  BY <1>3

\* A loop from a to m that carries a value along, and what its steps need.
Looped(f, a, m, z, step) ==
    \A n \in a..m : f[n] = IF n = a THEN z ELSE step[<<f[n - 1], n>>]
Stepping(step, S, a, m) == \A s \in S, n \in a..m : step[<<s, n>>] \in S

\* There is a function that takes a loop through.
LEMMA Loop ==
    ASSUME NEW a \in Nat, NEW N \in Nat, a <= N, NEW S, NEW z \in S,
           NEW step, Stepping(step, S, a, N)
    PROVE  \E f \in [a..N -> S] : Looped(f, a, N, z, step)
<1> USE DEF Looped, Stepping
<1> DEFINE Through(f, m) == Looped(f, a, m, z, step)
           T == {k \in Nat : a + k <= N => \E f \in [a..(a + k) -> S] : Through(f, a + k)}
<1>1. 0 \in T
  <2>1. [n \in a..(a + 0) |-> z] \in [a..(a + 0) -> S] /\ Through([n \in a..(a + 0) |-> z], a + 0)
    OBVIOUS
  <2> QED
    BY <2>1
<1>2. ASSUME NEW k \in Nat, k \in T
      PROVE  k + 1 \in T
  <2> SUFFICES ASSUME a + (k + 1) <= N
               PROVE  \E f \in [a..(a + (k + 1)) -> S] : Through(f, a + (k + 1))
    BY SMTT(30)
  <2> DEFINE m == a + k
  <2>0. m \in Nat /\ m + 1 \in a..N /\ a + (k + 1) = m + 1 /\ a <= m
    OBVIOUS
  <2>1. PICK f \in [a..m -> S] : Through(f, m)
    BY <1>2
  <2> HIDE DEF m
  <2> DEFINE g == [n \in a..(m + 1) |-> IF n <= m THEN f[n] ELSE step[<<f[m], m + 1>>]]
  <2>2. f[m] \in S /\ step[<<f[m], m + 1>>] \in S
    BY <2>0
  <2>3. g \in [a..(m + 1) -> S]
    BY <2>0, <2>2
  <2>4. (\A n \in a..m : g[n] = f[n]) /\ g[m + 1] = step[<<f[m], m + 1>>]
    BY <2>0
  <2> HIDE DEF g
  <2>5. \A n \in a..m : g[n] = IF n = a THEN z ELSE step[<<g[n - 1], n>>]
    <3> TAKE n \in a..m
    <3>1. f[n] = IF n = a THEN z ELSE step[<<f[n - 1], n>>]
      BY <2>1
    <3>2. n # a => n - 1 \in a..m
      BY <2>0
    <3> QED
      BY <2>4, <3>1, <3>2
  <2>6. g[m + 1] = step[<<g[m], m + 1>>] /\ m + 1 # a /\ (m + 1) - 1 = m
    BY <2>0, <2>4, SMTT(30)
  <2>7. Through(g, m + 1)
    <3> TAKE n \in a..(m + 1)
    <3>1. n \in a..m \/ n = m + 1
      BY <2>0
    <3> QED
      BY <2>5, <2>6, <3>1
  <2> QED
    BY <2>0, <2>3, <2>7
<1> HIDE DEF T
<1>3. N - a \in T
  BY <1>1, <1>2, SetInduction
<1> QED
  BY <1>3 DEF T

-----------------------------------------------------------------------------
(***************************************************************************)
(* Sequences.                                                              *)
(***************************************************************************)

\* What ToSet is of a typed sequence.
LEMMA Elements ==
    ASSUME NEW S, NEW s \in Seq(S)
    PROVE  /\ Len(s) \in Nat /\ DOMAIN s = 1..Len(s)
           /\ ToSet(s) = {s[k] : k \in 1..Len(s)}
           /\ ToSet(s) \subseteq S
           /\ s \in Seq(ToSet(s))
<1>1. Len(s) \in Nat /\ DOMAIN s = 1..Len(s) /\ s \in [1..Len(s) -> S]
  BY LenProperties
<1>2. ToSet(s) = {s[k] : k \in 1..Len(s)}
  BY <1>1 DEF ToSet
<1>3. s \in [1..Len(s) -> ToSet(s)]
  BY <1>1, <1>2
<1>4. s \in Seq(ToSet(s))
  BY <1>1, <1>3, SeqDef
<1> QED
  BY <1>1, <1>2, <1>4

\* One element more.
LEMMA AppendElement ==
    ASSUME NEW S, NEW s \in Seq(S), NEW e \in S
    PROVE  /\ Append(s, e) \in Seq(S)
           /\ ToSet(Append(s, e)) = ToSet(s) \cup {e}
           /\ IsInjective(s) /\ e \notin ToSet(s) => IsInjective(Append(s, e))
<1> DEFINE t == Append(s, e)
           N == Len(s)
<1>1. t \in Seq(S) /\ Len(t) = N + 1 /\ (\A k \in 1..N : t[k] = s[k]) /\ t[N + 1] = e
  BY AppendProperties
<1>2. N \in Nat /\ DOMAIN s = 1..N /\ ToSet(s) = {s[k] : k \in 1..N}
  BY Elements
<1>3. DOMAIN t = 1..(N + 1) /\ ToSet(t) = {t[k] : k \in 1..(N + 1)}
  BY <1>1, Elements
<1> HIDE DEF t, N
<1>4. \A k \in 1..(N + 1) : k \in 1..N \/ k = N + 1
  BY <1>2
<1>5. ToSet(t) = ToSet(s) \cup {e}
  <2>1. \A x \in ToSet(t) : x \in ToSet(s) \cup {e}
    BY <1>1, <1>2, <1>3, <1>4
  <2>2. N + 1 \in 1..(N + 1) /\ \A k \in 1..N : k \in 1..(N + 1)
    BY <1>2
  <2>3. \A x \in ToSet(s) \cup {e} : x \in ToSet(t)
    BY <1>1, <1>2, <1>3, <2>2
  <2> QED
    BY <2>1, <2>3
<1>6. ASSUME IsInjective(s), e \notin ToSet(s)
      PROVE  IsInjective(t)
  <2> SUFFICES ASSUME NEW j \in 1..(N + 1), NEW k \in 1..(N + 1), t[j] = t[k]
               PROVE  j = k
    BY <1>3 DEF IsInjective
  <2>1. \A m \in 1..N : s[m] # e
    BY <1>2, <1>6
  <2>2. \A m, n \in 1..N : s[m] = s[n] => m = n
    BY <1>2, <1>6 DEF IsInjective
  <2> QED
    BY <1>1, <1>4, <2>1, <2>2
<1> QED
  BY <1>1, <1>5, <1>6 DEF t

\* Two sequences in a row.
LEMMA ConcatElements ==
    ASSUME NEW S, NEW s \in Seq(S), NEW t \in Seq(S)
    PROVE  /\ s \o t \in Seq(S)
           /\ ToSet(s \o t) = ToSet(s) \cup ToSet(t)
           /\ IsInjective(s) /\ IsInjective(t) /\ ToSet(s) \cap ToSet(t) = {}
                => IsInjective(s \o t)
<1> DEFINE u == s \o t
           M == Len(s)
           N == Len(t)
<1>1. /\ u \in Seq(S) /\ Len(u) = M + N
      /\ \A k \in 1..(M + N) : u[k] = IF k <= M THEN s[k] ELSE t[k - M]
  BY ConcatProperties
<1>2. M \in Nat /\ DOMAIN s = 1..M /\ ToSet(s) = {s[k] : k \in 1..M}
  BY Elements
<1>3. N \in Nat /\ DOMAIN t = 1..N /\ ToSet(t) = {t[k] : k \in 1..N}
  BY Elements
<1>4. DOMAIN u = 1..(M + N) /\ ToSet(u) = {u[k] : k \in 1..(M + N)}
  BY <1>1, Elements
<1> HIDE DEF u, M, N
<1>5. \A k \in 1..(M + N) : (k \in 1..M /\ u[k] = s[k]) \/ (k - M \in 1..N /\ k > M /\ u[k] = t[k - M])
  BY <1>1, <1>2, <1>3
<1>6. ToSet(u) = ToSet(s) \cup ToSet(t)
  <2>1. \A x \in ToSet(u) : x \in ToSet(s) \cup ToSet(t)
    BY <1>2, <1>3, <1>4, <1>5
  <2>2. \A k \in 1..M : k \in 1..(M + N) /\ u[k] = s[k]
    BY <1>1, <1>2, <1>3
  <2>3. \A k \in 1..N : M + k \in 1..(M + N) /\ u[M + k] = t[k]
    <3> TAKE k \in 1..N
    <3>1. M + k \in 1..(M + N) /\ ~(M + k <= M) /\ (M + k) - M = k
      BY <1>2, <1>3
    <3> QED
      BY <1>1, <3>1
  <2>4. \A x \in ToSet(s) \cup ToSet(t) : x \in ToSet(u)
    BY <1>2, <1>3, <1>4, <2>2, <2>3
  <2> QED
    BY <2>1, <2>4
<1>7. ASSUME IsInjective(s), IsInjective(t), ToSet(s) \cap ToSet(t) = {}
      PROVE  IsInjective(u)
  <2> SUFFICES ASSUME NEW j \in 1..(M + N), NEW k \in 1..(M + N), u[j] = u[k]
               PROVE  j = k
    BY <1>4 DEF IsInjective
  <2>1. \A m, n \in 1..M : s[m] = s[n] => m = n
    BY <1>2, <1>7 DEF IsInjective
  <2>2. \A m, n \in 1..N : t[m] = t[n] => m = n
    BY <1>3, <1>7 DEF IsInjective
  <2>3. \A m \in 1..M, n \in 1..N : s[m] # t[n]
    BY <1>2, <1>3, <1>7
  <2>0. /\ j \in 1..M => u[j] = s[j]
        /\ j \notin 1..M => j - M \in 1..N /\ u[j] = t[j - M]
        /\ k \in 1..M => u[k] = s[k]
        /\ k \notin 1..M => k - M \in 1..N /\ u[k] = t[k - M]
    BY <1>2, <1>5
  <2>4. CASE j \in 1..M /\ k \in 1..M
    BY <2>0, <2>1, <2>4
  <2>5. CASE j \notin 1..M /\ k \notin 1..M
    <3>1. j - M = k - M
      BY <2>0, <2>2, <2>5
    <3> QED
      BY <1>2, <3>1
  <2>6. CASE j \in 1..M /\ k \notin 1..M
    BY <2>0, <2>3, <2>6
  <2>7. CASE j \notin 1..M /\ k \in 1..M
    BY <2>0, <2>3, <2>7
  <2> QED
    BY <2>4, <2>5, <2>6, <2>7
<1> QED
  BY <1>1, <1>6, <1>7 DEF u

-----------------------------------------------------------------------------
\* It does not matter which of three sequences are put together first.
LEMMA InARow ==
    ASSUME NEW S, NEW s \in Seq(S), NEW t \in Seq(S), NEW u \in Seq(S)
    PROVE  s \o (t \o u) = (s \o t) \o u
BY ConcatAssociative, SMTT(30)

\* What each place of two sequences in a row holds.
IsJoined(u, s, t) ==
    /\ Len(s) \in Nat /\ Len(t) \in Nat /\ Len(u) = Len(s) + Len(t)
    /\ \A k \in 1..Len(s) : u[k] = s[k]
    /\ \A k \in 1..Len(t) : u[Len(s) + k] = t[k]

\* What is put together is a sequence of the same kind, and holds both.
LEMMA Joined ==
    ASSUME NEW S, NEW s \in Seq(S), NEW t \in Seq(S)
    PROVE  s \o t \in Seq(S) /\ IsJoined(s \o t, s, t)
<1> DEFINE u == s \o t
           M == Len(s)
           N == Len(t)
<1>1. /\ u \in Seq(S) /\ Len(u) = M + N
      /\ \A k \in 1..(M + N) : u[k] = IF k <= M THEN s[k] ELSE t[k - M]
  BY ConcatProperties
<1>2. M \in Nat /\ N \in Nat
  BY LenProperties
<1> HIDE DEF u, M, N
<1>3. \A k \in 1..M : k \in 1..(M + N) /\ k <= M
  BY <1>2
<1>4. \A k \in 1..N : M + k \in 1..(M + N) /\ ~(M + k <= M) /\ (M + k) - M = k
  BY <1>2
<1>5. \A k \in 1..M : u[k] = s[k]
  BY <1>1, <1>3
<1>6. \A k \in 1..N : u[M + k] = t[k]
  <2> TAKE k \in 1..N
  <2>1. u[M + k] = t[(M + k) - M]
    BY <1>1, <1>4
  <2> QED
    BY <1>4, <2>1
<1> QED
  BY <1>1, <1>2, <1>5, <1>6 DEF u, M, N, IsJoined

\* What a slice of a sequence holds.
IsSlice(u, s, m, k) ==
    /\ Len(u) = k
    /\ \A i \in 1..k : u[i] = s[m + i - 1]

\* A slice is a sequence of the same kind, and each of its elements is from the
\* places it was taken from.
LEMMA Slice ==
    ASSUME NEW S, NEW s \in Seq(S), NEW m \in Nat \ {0}, NEW n \in Nat, NEW k \in Nat,
           m + k = n + 1, n <= Len(s)
    PROVE  /\ SubSeq(s, m, n) \in Seq(S) /\ IsSlice(SubSeq(s, m, n), s, m, k)
           /\ \A e \in ToSet(SubSeq(s, m, n)) : \E j \in m..n : e = s[j]
<1>1. \A i \in m..n : s[i] \in S
  <2>1. Len(s) \in Nat /\ s \in [1..Len(s) -> S]
    BY LenProperties
  <2> QED
    BY <2>1
<1>2. /\ SubSeq(s, m, n) \in Seq(S)
      /\ Len(SubSeq(s, m, n)) = IF m <= n THEN n - m + 1 ELSE 0
      /\ \A i \in 1..(n - m + 1) : SubSeq(s, m, n)[i] = s[m + i - 1]
  BY <1>1, SubSeqProperties
<1>3. n - m + 1 = k /\ (~(m <= n) => k = 0)
  OBVIOUS
<1> DEFINE u == SubSeq(s, m, n)
<1>4. u \in Seq(S) /\ Len(u) = k /\ \A i \in 1..k : u[i] = s[m + i - 1]
  BY <1>2, <1>3
<1> HIDE DEF u
<1>5. ASSUME NEW e \in ToSet(u)
      PROVE  \E j \in m..n : e = s[j]
  <2>1. PICK i \in 1..k : e = u[i]
    BY <1>4, Elements
  <2>2. m + i - 1 \in m..n
    OBVIOUS
  <2> QED
    BY <1>4, <2>1, <2>2
<1>6. IsSlice(u, s, m, k)
  BY <1>4 DEF IsSlice
<1> QED
  BY <1>4, <1>5, <1>6 DEF u

\* list.index finds the first of the lines that are equal, if there is one.
LEMMA FirstAtIs ==
    ASSUME NEW S, NEW s \in Seq(S), NEW e
    PROVE  /\ FirstAt(s, e) \in 0..Len(s)
           /\ FirstAt(s, e) = 0 <=> e \notin ToSet(s)
           /\ \A k \in 1..Len(s) :
                FirstAt(s, e) = k <=> s[k] = e /\ \A j \in 1..Len(s) : j < k => s[j] # e
<1> DEFINE At == {k \in 1..Len(s) : s[k] = e}
<1>1. Len(s) \in Nat /\ ToSet(s) = {s[k] : k \in 1..Len(s)}
  BY Elements
<1>2. FirstAt(s, e) = IF At # {} THEN Min(At) ELSE 0
  BY DEF FirstAt, SelectInSeq
<1>3. CASE At = {}
  BY <1>1, <1>2, <1>3
<1>4. CASE At # {}
  <2>1. PICK n \in At : \A m \in At : ~(<<m, n>> \in OpToRel(<, Nat))
    <3>1. At \subseteq Nat
      BY <1>1
    <3> HIDE DEF At
    <3> QED
      BY <1>4, <3>1, NatLessThanWellFounded, WFMin
  <2>2. \A m \in At : m \in Nat /\ n \in Nat /\ ~(m < n)
    <3> TAKE m \in At
    <3>1. m \in Nat /\ n \in Nat
      BY <1>1
    <3> HIDE DEF At
    <3> QED
      BY <2>1, <3>1 DEF OpToRel
  <2>0. \A m \in At : n <= m
    BY <2>2
  <2>3. Min(At) \in At /\ \A m \in At : Min(At) <= m
    <3> HIDE DEF At
    <3> QED
      BY <2>0, <2>1 DEF Min
  <2> DEFINE first == Min(At)
  <2>4. first \in At /\ (\A m \in At : first <= m) /\ FirstAt(s, e) = first
    BY <1>2, <1>4, <2>3
  <2> HIDE DEF first
  <2>5. \A j \in 1..Len(s) : j < first => s[j] # e
    BY <1>1, <2>4
  <2>6. \A k \in 1..Len(s) : s[k] = e /\ (\A j \in 1..Len(s) : j < k => s[j] # e) => first = k
    BY <1>1, <2>4
  <2> QED
    BY <1>1, <2>4, <2>5, <2>6
<1> QED
  BY <1>3, <1>4

\* A line that no earlier line is equal to is the first of its kind.
LEMMA FirstAtFound ==
    ASSUME NEW S, NEW s \in Seq(S), NEW k \in 1..Len(s),
           \A j \in 1..Len(s) : j < k => s[j] # s[k]
    PROVE  FirstAt(s, s[k]) = k
BY FirstAtIs

\* A slice has the elements of its places, none twice if the sequence has none.
LEMMA SliceElements ==
    ASSUME NEW S, NEW s \in Seq(S), NEW m \in Nat \ {0}, NEW n \in Nat, NEW k \in Nat,
           m + k = n + 1, n <= Len(s)
    PROVE  /\ SubSeq(s, m, n) \in Seq(S)
           /\ ToSet(SubSeq(s, m, n)) = {s[j] : j \in m..n}
           /\ IsInjective(s) => IsInjective(SubSeq(s, m, n))
<1> DEFINE u == SubSeq(s, m, n)
<1>1. u \in Seq(S) /\ IsSlice(u, s, m, k)
  BY Slice
<1> HIDE DEF u
<1>2. Len(u) = k /\ \A i \in 1..k : u[i] = s[m + i - 1]
  BY <1>1 DEF IsSlice
<1>3. DOMAIN u = 1..k /\ ToSet(u) = {u[i] : i \in 1..k}
  BY <1>1, <1>2, Elements
<1>4. \A i \in 1..k : m + i - 1 \in m..n
  OBVIOUS
<1>5. \A j \in m..n : j - m + 1 \in 1..k /\ m + (j - m + 1) - 1 = j
  OBVIOUS
<1>6. \A j \in m..n : u[j - m + 1] = s[j]
  BY <1>2, <1>5
<1>7. ToSet(u) = {s[j] : j \in m..n}
  <2>1. \A e \in ToSet(u) : e \in {s[j] : j \in m..n}
    BY <1>2, <1>3, <1>4
  <2>2. \A j \in m..n : s[j] \in ToSet(u)
    BY <1>3, <1>5, <1>6
  <2> QED
    BY <2>1, <2>2
<1>8. ASSUME IsInjective(s)
      PROVE  IsInjective(u)
  <2>1. DOMAIN s = 1..Len(s) /\ Len(s) \in Nat
    BY LenProperties
  <2> SUFFICES ASSUME NEW i \in 1..k, NEW j \in 1..k, u[i] = u[j]
               PROVE  i = j
    BY <1>3 DEF IsInjective
  <2>2. m + i - 1 \in 1..Len(s) /\ m + j - 1 \in 1..Len(s)
    BY <2>1
  <2>3. s[m + i - 1] = s[m + j - 1]
    BY <1>2
  <2>4. m + i - 1 = m + j - 1
    BY <1>8, <2>1, <2>2, <2>3 DEF IsInjective
  <2> QED
    BY <2>4
<1> QED
  BY <1>1, <1>7, <1>8 DEF u

\* Of distinct elements, removing one leaves the others.
LEMMA RemovedOne ==
    ASSUME NEW S, NEW s \in Seq(S), IsInjective(s), NEW e \in ToSet(s)
    PROVE  /\ RemoveFirst(s, e) \in Seq(S) /\ IsInjective(RemoveFirst(s, e))
           /\ ToSet(RemoveFirst(s, e)) = ToSet(s) \ {e}
<1> DEFINE N == Len(s)
           i == FirstAt(s, e)
           a == SubSeq(s, 1, i - 1)
           b == SubSeq(s, i + 1, N)
<1>1. N \in Nat /\ DOMAIN s = 1..N /\ ToSet(s) = {s[k] : k \in 1..N}
  BY Elements
<1>2. i \in 1..N /\ s[i] = e
  <2>1. i \in 0..N /\ i # 0
    BY FirstAtIs
  <2>2. i \in 1..N
    BY <1>1, <2>1
  <2> QED
    BY <2>2, FirstAtIs
<1>3. RemoveFirst(s, e) = a \o b
  <2>1. \E k \in 1..Len(s) : s[k] = e
    BY <1>2
  <2> QED
    BY <2>1 DEF RemoveFirst, RemoveAt, FirstAt
<1> HIDE DEF i
<1>4. /\ a \in Seq(S) /\ ToSet(a) = {s[j] : j \in 1..(i - 1)} /\ IsInjective(a)
  <2> DEFINE n == i - 1
  <2>1. 1 \in Nat \ {0} /\ n \in Nat /\ 1 + n = n + 1 /\ n <= Len(s)
    BY <1>1, <1>2
  <2> HIDE DEF n
  <2>2. /\ SubSeq(s, 1, n) \in Seq(S) /\ ToSet(SubSeq(s, 1, n)) = {s[j] : j \in 1..n}
        /\ IsInjective(SubSeq(s, 1, n))
    BY <2>1, SliceElements
  <2> QED
    BY <2>2 DEF n
<1>5. /\ b \in Seq(S) /\ ToSet(b) = {s[j] : j \in (i + 1)..N} /\ IsInjective(b)
  <2> DEFINE m == i + 1
             k == N - i
  <2>1. m \in Nat \ {0} /\ k \in Nat /\ N \in Nat /\ m + k = N + 1 /\ N <= Len(s)
    BY <1>1, <1>2
  <2> HIDE DEF m, k, N
  <2>2. /\ SubSeq(s, m, N) \in Seq(S) /\ ToSet(SubSeq(s, m, N)) = {s[j] : j \in m..N}
        /\ IsInjective(SubSeq(s, m, N))
    BY <2>1, SliceElements
  <2> QED
    BY <2>2 DEF m
<1> HIDE DEF a, b, N
<1>6. \A j, k \in 1..N : s[j] = s[k] => j = k
  BY <1>1 DEF IsInjective
<1>7. ToSet(a) \cap ToSet(b) = {}
  <2>1. \A j \in 1..(i - 1), k \in (i + 1)..N : j \in 1..N /\ k \in 1..N /\ j # k
    BY <1>1, <1>2
  <2> QED
    BY <1>4, <1>5, <1>6, <2>1
<1>8. ToSet(a) \cup ToSet(b) = ToSet(s) \ {e}
  <2>1. \A j \in 1..(i - 1) : j \in 1..N /\ j # i
    BY <1>1, <1>2
  <2>2. \A j \in (i + 1)..N : j \in 1..N /\ j # i
    BY <1>1, <1>2
  <2>3. \A j \in 1..N : j # i => j \in 1..(i - 1) \/ j \in (i + 1)..N
    BY <1>1, <1>2
  <2>4. \A x \in ToSet(a) \cup ToSet(b) : x \in ToSet(s) \ {e}
    BY <1>1, <1>2, <1>4, <1>5, <1>6, <2>1, <2>2
  <2>5. \A x \in ToSet(s) \ {e} : x \in ToSet(a) \cup ToSet(b)
    BY <1>1, <1>2, <1>4, <1>5, <2>3
  <2> QED
    BY <2>4, <2>5
<1>9. a \o b \in Seq(S) /\ IsInjective(a \o b) /\ ToSet(a \o b) = ToSet(a) \cup ToSet(b)
  <2>1. a \in Seq(S) /\ b \in Seq(S) /\ IsInjective(a) /\ IsInjective(b)
    BY <1>4, <1>5
  <2>2. /\ a \o b \in Seq(S) /\ ToSet(a \o b) = ToSet(a) \cup ToSet(b)
        /\ IsInjective(a) /\ IsInjective(b) /\ ToSet(a) \cap ToSet(b) = {}
             => IsInjective(a \o b)
    BY <2>1, ConcatElements
  <2> QED
    BY <1>7, <2>1, <2>2
<1> QED
  BY <1>3, <1>8, <1>9

\* The first n elements of a sequence.
FirstOf(names, n) == [i \in 1..n |-> names[i]]

\* The next element makes the next of these, and is not yet among distinct ones.
LEMMA FirstOfGrows ==
    ASSUME NEW S, NEW names \in Seq(S), NEW n \in 0..Len(names)
    PROVE  /\ FirstOf(names, n) \in Seq(S)
           /\ n = 0 => FirstOf(names, n) = <<>>
           /\ n = Len(names) => FirstOf(names, n) = names
           /\ n # 0 => Append(FirstOf(names, n - 1), names[n]) = FirstOf(names, n)
           /\ n # 0 /\ IsInjective(names) => names[n] \notin ToSet(FirstOf(names, n - 1))
<1>1. /\ Len(names) \in Nat /\ DOMAIN names = 1..Len(names)
      /\ \A k \in 1..Len(names) : names[k] \in S
  <2>1. Len(names) \in Nat /\ names \in [1..Len(names) -> S]
    BY LenProperties
  <2> QED
    BY <2>1
<1>2. ASSUME NEW m \in 0..Len(names)
      PROVE  /\ FirstOf(names, m) \in Seq(S) /\ Len(FirstOf(names, m)) = m
             /\ \A i \in 1..m : FirstOf(names, m)[i] = names[i]
  <2>1. m \in Nat /\ \A i \in 1..m : i \in 1..Len(names)
    BY <1>1
  <2>2. FirstOf(names, m) \in [1..m -> S]
    BY <1>1, <2>1 DEF FirstOf
  <2>3. FirstOf(names, m) \in Seq(S)
    BY <2>1, <2>2, SeqDef
  <2>4. Len(FirstOf(names, m)) = m
    BY <2>1, <2>2, <2>3, LenProperties
  <2>5. \A i \in 1..m : FirstOf(names, m)[i] = names[i]
    BY DEF FirstOf
  <2> QED
    BY <2>3, <2>4, <2>5
<1>3. n = 0 => FirstOf(names, n) = <<>>
  BY <1>2, EmptySeq
<1>4. n = Len(names) => FirstOf(names, n) = names
  BY <1>2, SeqEqual
<1> DEFINE z == FirstOf(names, n - 1)
           y == FirstOf(names, n)
<1>5. ASSUME n # 0
      PROVE  Append(z, names[n]) = y
  <2>1. n - 1 \in 0..Len(names) /\ n \in 1..Len(names)
    BY <1>1, <1>5
  <2>2. /\ z \in Seq(S) /\ Len(z) = n - 1 /\ \A i \in 1..(n - 1) : z[i] = names[i]
        /\ y \in Seq(S) /\ Len(y) = n /\ \A i \in 1..n : y[i] = names[i]
    BY <1>2, <2>1
  <2> HIDE DEF z, y
  <2> DEFINE e == names[n]
             x == Append(z, e)
  <2>3. e \in S
    BY <1>1, <2>1
  <2> HIDE DEF e
  <2>4. /\ x \in Seq(S) /\ Len(x) = Len(z) + 1 /\ x[Len(z) + 1] = e
        /\ \A i \in 1..Len(z) : x[i] = z[i]
    BY <2>2, <2>3, AppendProperties
  <2> HIDE DEF x
  <2>5. (n - 1) + 1 = n /\ \A i \in 1..n : i \in 1..(n - 1) \/ i = n
    BY <2>1
  <2>6. \A i \in 1..n : x[i] = y[i]
    BY <2>2, <2>4, <2>5 DEF e
  <2>7. Len(x) = Len(y)
    BY <2>2, <2>4, <2>5
  <2>8. x = y
    BY <2>2, <2>4, <2>6, <2>7, SeqEqual
  <2> QED
    BY <2>8 DEF x, e
<1>6. ASSUME n # 0, IsInjective(names)
      PROVE  names[n] \notin ToSet(z)
  <2>1. n - 1 \in 0..Len(names) /\ n \in 1..Len(names)
    BY <1>1, <1>6
  <2>2. z \in Seq(S) /\ Len(z) = n - 1 /\ \A i \in 1..(n - 1) : z[i] = names[i]
    BY <1>2, <2>1
  <2> HIDE DEF z
  <2>3. ToSet(z) = {z[i] : i \in 1..Len(z)}
    BY <2>2, Elements
  <2>4. \A i \in 1..(n - 1) : i \in 1..Len(names) /\ i # n
    BY <1>1, <2>1
  <2>5. \A i \in 1..(n - 1) : names[i] # names[n]
    BY <1>1, <1>6, <2>1, <2>4 DEF IsInjective
  <2> QED
    BY <2>2, <2>3, <2>5
<1> QED
  BY <1>2, <1>3, <1>4, <1>5, <1>6

\* Sequences made one, one after the other.
Flattens(f, seqs, N) ==
    /\ f[0] = <<>> /\ f[N] = FlattenSeq(seqs)
    /\ \A n \in 1..N : f[n] = f[n - 1] \o seqs[n]

\* Sequences are made one by appending each to those before it.
LEMMA Flattening ==
    ASSUME NEW S, NEW N \in Nat \ {0}, NEW seqs \in [1..N -> Seq(S)]
    PROVE  \E f \in [0..N -> Seq(S)] : Flattens(f, seqs, N)
<1>0. seqs \in Seq(Seq(S)) /\ Len(seqs) = N
  BY SeqDef, LenProperties
<1> DEFINE step == [p \in Seq(S) \X (1..N) |-> p[1] \o seqs[p[2]]]
<1>1. \A s \in Seq(S), n \in 1..N : s \o seqs[n] \in Seq(S)
  BY ConcatProperties
<1>2. \A s \in Seq(S), n \in 1..N : step[<<s, n>>] = s \o seqs[n]
  OBVIOUS
<1>3. Stepping(step, Seq(S), 1, N)
  BY <1>1, <1>2 DEF Stepping
<1> HIDE DEF step
<1>4. 1 \in Nat /\ 1 <= N /\ 1 \in 1..N /\ N \in 1..N /\ seqs[1] \in Seq(S)
  OBVIOUS
<1>5. PICK h \in [1..N -> Seq(S)] : Looped(h, 1, N, seqs[1], step)
  BY <1>3, <1>4, Loop
<1>6. \A n \in 1..N : h[n] = IF n = 1 THEN seqs[n] ELSE h[n - 1] \o seqs[n]
  <2> TAKE n \in 1..N
  <2>1. n # 1 => n - 1 \in 1..N
    OBVIOUS
  <2> QED
    BY <1>2, <1>5, <2>1 DEF Looped
<1> DEFINE upTo(g) == [n \in 1..N |-> IF n = 1 THEN seqs[n] ELSE g[n - 1] \o seqs[n]]
<1>7. h = upTo(h)
  BY <1>6
<1>8. \E g : g = upTo(g) /\ FlattenSeq(seqs) = g[N]
  BY <1>0, <1>4, <1>7 DEF FlattenSeq
<1>9. PICK g : g = upTo(g) /\ FlattenSeq(seqs) = g[N]
  BY <1>8
<1>10. \A n \in 1..N : g[n] = IF n = 1 THEN seqs[n] ELSE g[n - 1] \o seqs[n]
  BY <1>9
<1> HIDE DEF upTo
<1> DEFINE T == {n \in Nat : n + 1 <= N => g[n + 1] \in Seq(S)}
<1>11. 0 \in T
  BY <1>4, <1>10
<1>12. ASSUME NEW n \in Nat, n \in T
       PROVE  n + 1 \in T
  <2> SUFFICES ASSUME (n + 1) + 1 <= N PROVE g[(n + 1) + 1] \in Seq(S)
    OBVIOUS
  <2>1. (n + 1) + 1 \in 1..N /\ (n + 1) + 1 # 1 /\ ((n + 1) + 1) - 1 = n + 1 /\ n + 1 <= N
    OBVIOUS
  <2>2. g[n + 1] \in Seq(S)
    BY <1>12, <2>1
  <2>3. g[(n + 1) + 1] = g[n + 1] \o seqs[(n + 1) + 1]
    BY <1>10, <2>1
  <2> QED
    BY <1>1, <2>1, <2>2, <2>3
<1> HIDE DEF T
<1>13. Nat \subseteq T
  BY <1>11, <1>12, SetInduction
<1>14. \A n \in 1..N : g[n] \in Seq(S)
  <2> TAKE n \in 1..N
  <2>1. n - 1 \in T /\ (n - 1) + 1 = n
    BY <1>13
  <2> QED
    BY <2>1 DEF T
<1> DEFINE f == [n \in 0..N |-> IF n = 0 THEN <<>> ELSE g[n]]
<1>15. <<>> \in Seq(S) /\ \A n \in 0..N : n # 0 => n \in 1..N
  BY EmptySeq
<1>16. f \in [0..N -> Seq(S)]
  BY <1>14, <1>15
<1>17. f[0] = <<>> /\ f[N] = FlattenSeq(seqs)
  BY <1>9
<1>18. ASSUME NEW n \in 1..N
       PROVE  f[n] = f[n - 1] \o seqs[n]
  <2>1. CASE n = 1
    <3>1. f[n] = seqs[n] /\ f[n - 1] = <<>> /\ seqs[n] \in Seq(S)
      BY <1>10, <2>1
    <3> QED
      BY <3>1, ConcatEmptySeq
  <2>2. CASE n # 1
    <3>1. n - 1 \in 0..N /\ n - 1 # 0 /\ n \in 0..N /\ n # 0
      BY <2>2
    <3>2. f[n] = g[n] /\ f[n - 1] = g[n - 1]
      BY <3>1
    <3>3. g[n] = g[n - 1] \o seqs[n]
      BY <1>10, <2>2
    <3> QED
      BY <3>2, <3>3
  <2> QED
    BY <2>1, <2>2
<1> HIDE DEF f
<1>19. Flattens(f, seqs, N)
  BY <1>17, <1>18 DEF Flattens
<1> QED
  BY <1>16, <1>19

-----------------------------------------------------------------------------
(***************************************************************************)
(* The inductive invariant of the bootstrap, in named parts.               *)
(***************************************************************************)

\* Every statement of a revision is on a table of the models.
Named == Revised \cup {"judgements"}
IsStatement(s) == s.do \in {"table", "index", "column"} /\ s.on[1] \in Named
Users == DOMAIN deployment.user

\* What a process is known to be, whatever the others do.
ProcOK(p) ==
    /\ DOMAIN proc[p] = DOMAIN Down
    /\ proc[p].pc \in Working \cup {"down", "ready", "failed"}
    /\ proc[p].at \in 0..Latest /\ proc[p].stmt \in Nat \ {0} /\ proc[p].alone \in BOOLEAN
    /\ proc[p].heads \subseteq 1..Latest
    /\ proc[p].pc # "down" => db.owner # "nobody"

\* The file is a record of known fields, an index is on a table that is there,
\* and a version in the version table.
FileOK ==
    /\ DOMAIN db = DOMAIN Fresh
    /\ db.versions \subseteq 1..Latest
    /\ db.versions # {} => VersionTable \in db.tables
    /\ \A i \in db.indexes : i[1] \in db.tables

TypeOK ==
    /\ Users \subseteq Procs /\ \A p \in Users : User(p) # "nobody"
    /\ FileOK
    /\ DOMAIN proc = Procs /\ \A p \in Procs : ProcOK(p)

\* The table a bootstrap is at, and those create_all has left.
Current(p) == First(ModelTables, proc[p].todo)
Remaining(p) == IF proc[p].pc \in {"create", "create_index"} THEN proc[p].todo ELSE {}

\* What a bootstrap has behind it is done, whoever did it.
Progress(p) ==
    /\ Remaining(p) \subseteq ToSet(ModelTables)
    /\ proc[p].pc = "create_index" =>
         proc[p].todo # {} /\ Current(p) \in db.tables /\ proc[p].left \subseteq IndexesOf(Current(p))
    /\ proc[p].pc = "columns" => proc[p].todo \subseteq ToSet(ModelColumns)
    /\ proc[p].pc \in {"look", "version_table", "steps"} =>
         \A v \in proc[p].heads : DoneUpTo(v, db)
    /\ proc[p].pc \in {"steps", "upgrade", "alter"} => VersionTable \in db.tables
    /\ proc[p].pc \in {"upgrade", "alter"} =>
         /\ DoneUpTo(proc[p].at, db)
         /\ proc[p].at < Latest =>
              \A i \in DOMAIN Statements(p) : i < proc[p].stmt => Has(Statements(p)[i])
    /\ proc[p].pc = "alter" => Pending(p) /\ NextStatement(p).do = "column"
    /\ proc[p].pc \in {"relax", "ready"} => DoneUpTo(Latest, db)

ProgressInv == \A p \in Procs : Progress(p)

\* What a bootstrap that nobody overlaps has behind it, and has left.
Creating(p) ==
    /\ ToSet(ModelTables) \subseteq db.tables \cup Remaining(p)
    /\ \A t \in proc[p].missing \ Remaining(p) : Indexed(t)
    /\ proc[p].pc = "create" => proc[p].todo \cap db.tables = {}
    /\ proc[p].pc = "create_index" =>
         /\ proc[p].todo \cap db.tables = {Current(p)}
         /\ proc[p].left \cap db.indexes = {}
         /\ IndexesOf(Current(p)) \subseteq db.indexes \cup proc[p].left
    /\ proc[p].pc \notin {"create", "create_index", "inspect"} =>
         ToSet(ModelColumns) \subseteq
           db.columns \cup (IF proc[p].pc = "columns" THEN proc[p].todo ELSE {})

Migrating(p) ==
    /\ proc[p].pc \in {"look", "version_table", "steps"} => proc[p].heads = db.versions
    /\ proc[p].pc = "version_table" => VersionTable \notin db.tables
    /\ proc[p].pc \in {"upgrade", "alter"} => db.versions = {proc[p].at} \ {0}
    /\ proc[p].pc = "alter" => ~Has(NextStatement(p))
    /\ proc[p].pc = "relax" => db.versions = {Latest}

Alone(p) ==
    proc[p].alone /\ proc[p].pc \in Working =>
        Others(p) = {} /\ (p # "migrate" => Creating(p) /\ Migrating(p))

AloneInv == \A p \in Users : Alone(p)

\* A file with the newest version, or with two: nobody writes a version in it.
TwoRows == \E v, w \in db.versions : v # w
SettledAt(q) ==
    /\ proc[q].pc \notin {"look", "version_table"}
    /\ proc[q].pc \in {"heads", "steps"} => proc[q].command = "upgrade"
    /\ proc[q].pc = "steps" => proc[q].heads = db.versions
    /\ proc[q].pc \in {"upgrade", "alter"} => proc[q].at = Latest
Settled ==
    /\ VersionTable \in db.tables
    /\ db.versions = {Latest} \/ TwoRows
    /\ \A q \in Users : SettledAt(q)

\* How a bootstrap that nobody overlapped has ended.
Ended(p) == proc[p].alone /\ (proc[p].pc = "ready" \/ (proc[p].pc = "failed" /\ Owns(p)))
EndedWell(p) ==
    Ended(p) => /\ Settled
                /\ proc[p].pc = "ready" => Served /\ \A t \in proc[p].missing : Indexed(t)
                /\ proc[p].pc = "failed" => TwoRows

EndedInv == \A p \in Users \ {"migrate"} : EndedWell(p)

IInv == TypeOK /\ VersionIsEarned /\ ProgressInv /\ AloneInv /\ EndedInv

-----------------------------------------------------------------------------
(***************************************************************************)
(* Lemmas on the operators of the bootstrap.                               *)
(***************************************************************************)

\* The packaged revisions, as the program carries them.
LEMMA RevisionFacts ==
    /\ Latest = 12
    /\ \A r \in 1..Latest :
         /\ Len(Revisions[r]) \in Nat /\ DOMAIN Revisions[r] = 1..Len(Revisions[r])
         /\ \A i \in DOMAIN Revisions[r] : IsStatement(Revisions[r][i])
    /\ Revisions[1] = <<>>
<1> DEFINE IsRevision(s) == /\ Len(s) \in Nat /\ DOMAIN s = 1..Len(s)
                            /\ \A i \in DOMAIN s : IsStatement(s[i])
<1>1. \A t \in Named : \A c : /\ IsStatement(Table(t)) /\ IsStatement(Index(t, c))
                             /\ IsStatement(Column(t, c))
  <2> HIDE DEF IsRevision
  <2> QED
    BY DEF IsStatement, Table, Index, Column
<1>n. Named = {"control_state", "yara_status", "collection_runs", "enrichment_evidence",
               "host_resources", "disk_usage", "file_scan", "yara_rule", "yara_coverage",
               "feedback", "log_entries", "judgements"}
  BY DEF Named, Revised
<1> HIDE DEF IsRevision
<1>2. IsRevision(Baseline) /\ IsRevision(PerfIndexes) /\ IsRevision(ControlStateTable)
  BY <1>1, <1>n DEF IsRevision, Baseline, PerfIndexes, ControlStateTable
<1>3. IsRevision(ResourceTables) /\ IsRevision(FileScanTable) /\ IsRevision(FileScanMeta)
  BY <1>1, <1>n DEF IsRevision, ResourceTables, FileScanTable, FileScanMeta
<1>4. IsRevision(YaraStatusTable) /\ IsRevision(YaraRuleTable) /\ IsRevision(FileScanStrings)
  BY <1>1, <1>n DEF IsRevision, YaraStatusTable, YaraRuleTable, FileScanStrings
<1>5. IsRevision(YaraCoverageTable) /\ IsRevision(FeedbackTable) /\ IsRevision(LogEntriesTable)
  BY <1>1, <1>n DEF IsRevision, YaraCoverageTable, FeedbackTable, LogEntriesTable
<1>6. Latest = 12
  BY DEF Latest, Revisions
<1>7. \A r \in 1..12 : IsRevision(Revisions[r])
  BY <1>2, <1>3, <1>4, <1>5 DEF Revisions
<1>8. Revisions[1] = <<>>
  BY DEF Revisions, Baseline
<1> QED
  BY <1>6, <1>7, <1>8 DEF IsRevision

\* The models' tables are walked in an order, and the revisions and the columns
\* that came later are of tables of theirs.
LEMMA ModelFacts ==
    /\ DOMAIN ModelTables \subseteq Nat /\ DOMAIN ModelColumns \subseteq Nat
    /\ Named \subseteq ToSet(ModelTables)
    /\ \A c \in ToSet(ModelColumns) : c[1] \in ToSet(ModelTables)
<1> DEFINE S == ToSet(CycleTables) \cup ToSet(StateTables) \cup ToSet(HostTables)
                  \cup ToSet(EventTables) \cup ToSet(SoftwareTables) \cup ToSet(NetworkTables)
                  \cup ToSet(PostureTables) \cup ToSet(EvidenceTable)
           IsWalk(s) == DOMAIN s = 1..Len(s) /\ Len(s) \in Nat
<1>1. \A s : IsWalk(s) /\ ToSet(s) \subseteq S /\ s = [i \in 1..Len(s) |-> s[i]] => s \in Seq(S)
  <2> HIDE DEF S
  <2> QED
    BY SeqDef DEF ToSet
<1>2. CycleTables \in Seq(S) /\ StateTables \in Seq(S) /\ HostTables \in Seq(S)
  <2>1. IsWalk(CycleTables) /\ CycleTables = [i \in 1..Len(CycleTables) |-> CycleTables[i]]
    BY DEF CycleTables
  <2>2. IsWalk(StateTables) /\ StateTables = [i \in 1..Len(StateTables) |-> StateTables[i]]
    BY DEF StateTables
  <2>3. IsWalk(HostTables) /\ HostTables = [i \in 1..Len(HostTables) |-> HostTables[i]]
    BY DEF HostTables
  <2>4. ToSet(CycleTables) \subseteq S /\ ToSet(StateTables) \subseteq S /\ ToSet(HostTables) \subseteq S
    OBVIOUS
  <2> HIDE DEF S, IsWalk
  <2> QED
    BY <1>1, <2>1, <2>2, <2>3, <2>4
<1>3. EventTables \in Seq(S) /\ SoftwareTables \in Seq(S) /\ NetworkTables \in Seq(S)
  <2>1. IsWalk(EventTables) /\ EventTables = [i \in 1..Len(EventTables) |-> EventTables[i]]
    BY DEF EventTables
  <2>2. IsWalk(SoftwareTables) /\ SoftwareTables = [i \in 1..Len(SoftwareTables) |-> SoftwareTables[i]]
    BY DEF SoftwareTables
  <2>3. IsWalk(NetworkTables) /\ NetworkTables = [i \in 1..Len(NetworkTables) |-> NetworkTables[i]]
    BY DEF NetworkTables
  <2>4. ToSet(EventTables) \subseteq S /\ ToSet(SoftwareTables) \subseteq S /\ ToSet(NetworkTables) \subseteq S
    OBVIOUS
  <2> HIDE DEF S, IsWalk
  <2> QED
    BY <1>1, <2>1, <2>2, <2>3, <2>4
<1>4. PostureTables \in Seq(S) /\ EvidenceTable \in Seq(S)
  <2>1. IsWalk(PostureTables) /\ PostureTables = [i \in 1..Len(PostureTables) |-> PostureTables[i]]
    BY DEF PostureTables
  <2>2. IsWalk(EvidenceTable) /\ EvidenceTable = [i \in 1..Len(EvidenceTable) |-> EvidenceTable[i]]
    BY DEF EvidenceTable
  <2>4. ToSet(PostureTables) \subseteq S /\ ToSet(EvidenceTable) \subseteq S
    OBVIOUS
  <2> HIDE DEF S, IsWalk
  <2> QED
    BY <1>1, <2>1, <2>2, <2>4
<1> DEFINE t1 == CycleTables \o StateTables
           t2 == t1 \o HostTables
           t3 == t2 \o EventTables
           t4 == t3 \o SoftwareTables
           t5 == t4 \o NetworkTables
           t6 == t5 \o PostureTables
           t7 == t6 \o EvidenceTable
<1> HIDE DEF S
<1>5. /\ t1 \in Seq(S) /\ ToSet(CycleTables) \subseteq ToSet(t1)
      /\ ToSet(StateTables) \subseteq ToSet(t1)
  BY <1>2, ConcatElements
<1> HIDE DEF t1
<1>6. t2 \in Seq(S) /\ ToSet(t1) \subseteq ToSet(t2) /\ ToSet(HostTables) \subseteq ToSet(t2)
  BY <1>2, <1>5, ConcatElements
<1> HIDE DEF t2
<1>7. t3 \in Seq(S) /\ ToSet(t2) \subseteq ToSet(t3) /\ ToSet(EventTables) \subseteq ToSet(t3)
  BY <1>3, <1>6, ConcatElements
<1> HIDE DEF t3
<1>8. t4 \in Seq(S) /\ ToSet(t3) \subseteq ToSet(t4)
  BY <1>3, <1>7, ConcatElements
<1> HIDE DEF t4
<1>9. t5 \in Seq(S) /\ ToSet(t4) \subseteq ToSet(t5)
  BY <1>3, <1>8, ConcatElements
<1> HIDE DEF t5
<1>10. /\ t6 \in Seq(S) /\ ToSet(t5) \subseteq ToSet(t6)
       /\ ToSet(PostureTables) \subseteq ToSet(t6)
  BY <1>4, <1>9, ConcatElements
<1> HIDE DEF t6
<1>11. /\ t7 \in Seq(S) /\ ToSet(t6) \subseteq ToSet(t7)
       /\ ToSet(EvidenceTable) \subseteq ToSet(t7)
  BY <1>4, <1>10, ConcatElements
<1>12. ModelTables = t7
  BY DEF ModelTables, t1, t2, t3, t4, t5, t6
<1> HIDE DEF t7
<1>13. DOMAIN ModelTables \subseteq Nat
  BY <1>11, <1>12, LenProperties
<1>14. {"collection_runs", "judgements", "yara_coverage"} \subseteq ToSet(CycleTables)
  <2>1. /\ {1, 3, 6} \subseteq DOMAIN CycleTables /\ CycleTables[1] = "collection_runs"
        /\ CycleTables[3] = "judgements" /\ CycleTables[6] = "yara_coverage"
    BY DEF CycleTables
  <2> QED
    BY <2>1 DEF ToSet
<1>15. {"feedback", "control_state"} \subseteq ToSet(StateTables)
  <2>1. {2, 3} \subseteq DOMAIN StateTables /\ StateTables[2] = "feedback" /\ StateTables[3] = "control_state"
    BY DEF StateTables
  <2> QED
    BY <2>1 DEF ToSet
<1>e. {"log_entries", "yara_status", "yara_rule", "file_scan"} \subseteq ToSet(EventTables)
  <2>1. /\ {5, 7, 8, 9} \subseteq DOMAIN EventTables /\ EventTables[5] = "log_entries"
        /\ EventTables[7] = "yara_status" /\ EventTables[8] = "yara_rule"
        /\ EventTables[9] = "file_scan"
    BY DEF EventTables
  <2> QED
    BY <2>1 DEF ToSet
<1>q. {"host_resources", "disk_usage"} \subseteq ToSet(PostureTables)
  <2>1. /\ {4, 5} \subseteq DOMAIN PostureTables /\ PostureTables[4] = "host_resources"
        /\ PostureTables[5] = "disk_usage"
    BY DEF PostureTables
  <2> QED
    BY <2>1 DEF ToSet
<1>v. "enrichment_evidence" \in ToSet(EvidenceTable)
  <2>1. 1 \in DOMAIN EvidenceTable /\ EvidenceTable[1] = "enrichment_evidence"
    BY DEF EvidenceTable
  <2> QED
    BY <2>1 DEF ToSet
<1>w. /\ ToSet(CycleTables) \subseteq ToSet(ModelTables) /\ ToSet(StateTables) \subseteq ToSet(ModelTables)
      /\ ToSet(EventTables) \subseteq ToSet(ModelTables) /\ ToSet(PostureTables) \subseteq ToSet(ModelTables)
      /\ ToSet(EvidenceTable) \subseteq ToSet(ModelTables)
  <2>1. ToSet(t3) \subseteq ToSet(t7)
    BY <1>8, <1>9, <1>10, <1>11
  <2>2. ToSet(t1) \subseteq ToSet(t7)
    BY <1>6, <1>7, <2>1
  <2> QED
    BY <1>5, <1>7, <1>10, <1>11, <1>12, <2>1, <2>2
<1>16. Named \subseteq ToSet(ModelTables)
  <2> HIDE DEF S
  <2> QED
    BY <1>14, <1>15, <1>e, <1>q, <1>v, <1>w DEF Named, Revised
<1>17. DOMAIN ModelColumns \subseteq Nat
  BY DEF ModelColumns
<1>18. \A c \in ToSet(ModelColumns) : c[1] \in Named
  BY DEF ModelColumns, ToSet, Named, Revised
<1> QED
  BY <1>13, <1>16, <1>17, <1>18

\* What comes first of some of an order is one of them.
LEMMA FirstIsOne ==
    ASSUME NEW order, DOMAIN order \subseteq Nat, NEW todo \in SUBSET ToSet(order), todo # {}
    PROVE  First(order, todo) \in todo
<1> DEFINE places == {i \in DOMAIN order : order[i] \in todo}
           first == CHOOSE i \in DOMAIN order :
                      order[i] \in todo /\ \A j \in DOMAIN order : order[j] \in todo => i <= j
<1>1. places \subseteq Nat /\ places # {}
  BY DEF ToSet
<1>2. PICK i \in places : \A x \in places : ~(<<x, i>> \in OpToRel(<, Nat))
  <2> HIDE DEF places
  <2> QED
    BY <1>1, NatLessThanWellFounded, WFMin, Zenon
<1>3. \A x \in places : x \in Nat /\ i \in Nat /\ ~(x < i)
  BY <1>1, <1>2 DEF OpToRel
<1>4. i \in DOMAIN order /\ order[i] \in todo /\ \A j \in DOMAIN order : order[j] \in todo => i <= j
  BY <1>3
<1>5. order[first] \in todo
  BY <1>4
<1> QED
  BY <1>5 DEF First

-----------------------------------------------------------------------------
(***************************************************************************)
(* What a step of one process leaves alone.                                *)
(***************************************************************************)

\* Nothing but a version is ever dropped from the file.
Grown ==
    db.tables \subseteq db'.tables /\ db.indexes \subseteq db'.indexes
      /\ db.columns \subseteq db'.columns

\* The other processes are where they were.
Frame(p) ==
    /\ Grown /\ deployment' = deployment
    /\ db.owner # "nobody" => db'.owner = db.owner
    /\ \A q \in Procs \ {p} :
         /\ proc'[q].pc = proc[q].pc /\ proc'[q].todo = proc[q].todo
         /\ proc'[q].left = proc[q].left /\ proc'[q].missing = proc[q].missing
         /\ proc'[q].command = proc[q].command /\ proc'[q].heads = proc[q].heads
         /\ proc'[q].at = proc[q].at /\ proc'[q].stmt = proc[q].stmt
         /\ proc'[q].alone => proc[q].alone

\* The first table still to create is one of the models'.
LEMMA CurrentIsOne ==
    ASSUME NEW p \in Procs, Progress(p), proc[p].pc \in {"create", "create_index"},
           proc[p].todo # {}
    PROVE  Current(p) \in proc[p].todo /\ Current(p) \in ToSet(ModelTables)
  BY ModelFacts, FirstIsOne DEF Progress, Remaining, Current

\* A pending statement is one of its revision.
LEMMA PendingStatement ==
    ASSUME TypeOK, NEW p \in Procs, Pending(p)
    PROVE  /\ proc[p].at + 1 \in 1..Latest /\ proc[p].stmt \in DOMAIN Statements(p)
           /\ IsStatement(NextStatement(p))
<1>1. proc[p].at \in 0..12 /\ proc[p].at < 12 /\ proc[p].stmt \in Nat \ {0}
      /\ proc[p].stmt <= Len(Statements(p))
  BY RevisionFacts DEF TypeOK, ProcOK, Pending
<1>2. proc[p].at + 1 \in 1..12
  <2> DEFINE at == proc[p].at
  <2>1. at \in 0..12 /\ at < 12
    BY <1>1
  <2> HIDE DEF at
  <2>2. at + 1 \in 1..12
    BY <2>1
  <2> QED
    BY <2>2 DEF at
<1>3. /\ Len(Statements(p)) \in Nat /\ DOMAIN Statements(p) = 1..Len(Statements(p))
      /\ \A i \in DOMAIN Statements(p) : IsStatement(Statements(p)[i])
  BY <1>2, RevisionFacts DEF Statements
<1>4. proc[p].stmt \in DOMAIN Statements(p)
  BY <1>1, <1>3
<1>5. IsStatement(NextStatement(p))
  BY <1>3, <1>4 DEF NextStatement
<1>6. Latest = 12
  BY RevisionFacts
<1> QED
  BY <1>2, <1>4, <1>5, <1>6

\* The indexes of a table are on it.
LEMMA IndexesAreOf ==
    ASSUME NEW t, NEW i \in IndexesOf(t)
    PROVE  i[1] = t
<1>1. i \in {j \in RevisionIndexes : j[1] = t} \/ i \in {<<t, "rest">>}
  BY Zenon DEF IndexesOf
<1>2. CASE i \in {j \in RevisionIndexes : j[1] = t}
  BY <1>2, Zenon
<1>3. CASE i \in {<<t, "rest">>}
  BY <1>3
<1> QED
  BY <1>1, <1>2, <1>3

\* An upgrade is planned from no version or from the only one that was read.
LEMMA PlanIs ==
    ASSUME TypeOK, NEW p \in Procs, PlanUpgrade(p)
    PROVE  /\ db' = db /\ deployment' = deployment /\ DOMAIN proc' = Procs
           /\ DOMAIN proc'[p] = DOMAIN Down
           /\ \A q \in Procs \ {p} : proc'[q] = proc[q]
           /\ proc[p].pc = "steps" /\ proc[p].command = "upgrade"
           /\ proc'[p].alone = proc[p].alone /\ proc'[p].missing = proc[p].missing
           /\ \/ /\ proc'[p].pc = "upgrade" /\ proc'[p].stmt = 1 /\ proc'[p].heads = {}
                 /\ \/ proc[p].heads = {} /\ proc'[p].at = 0
                    \/ \E v \in proc[p].heads : proc[p].heads = {v} /\ proc'[p].at = v
              \/ /\ proc'[p].pc = "failed" /\ \E v, w \in proc[p].heads : v # w
                 /\ proc'[p].heads = proc[p].heads /\ proc'[p].at = proc[p].at
                 /\ proc'[p].stmt = proc[p].stmt
<1>p. DOMAIN proc = Procs /\ DOMAIN proc[p] = DOMAIN Down
  BY DEF TypeOK, ProcOK
<1>1. /\ db' = db /\ deployment' = deployment
      /\ proc[p].pc = "steps" /\ proc[p].command = "upgrade"
  BY Zenon DEF PlanUpgrade, Fails, Idle
<1>2. ASSUME NEW at, proc' = Planned(p, at)
      PROVE  /\ DOMAIN proc' = Procs /\ DOMAIN proc'[p] = DOMAIN Down
             /\ \A q \in Procs \ {p} : proc'[q] = proc[q]
             /\ proc'[p].alone = proc[p].alone /\ proc'[p].missing = proc[p].missing
             /\ proc'[p].pc = "upgrade" /\ proc'[p].stmt = 1 /\ proc'[p].heads = {}
             /\ proc'[p].at = at
  BY <1>p, <1>2 DEF Planned, Down
<1>3. ASSUME proc' = [proc EXCEPT ![p].pc = "failed"]
      PROVE  /\ DOMAIN proc' = Procs /\ DOMAIN proc'[p] = DOMAIN Down
             /\ \A q \in Procs \ {p} : proc'[q] = proc[q]
             /\ proc'[p].alone = proc[p].alone /\ proc'[p].missing = proc[p].missing
             /\ proc'[p].pc = "failed" /\ proc'[p].heads = proc[p].heads
             /\ proc'[p].at = proc[p].at /\ proc'[p].stmt = proc[p].stmt
  BY <1>p, <1>3 DEF Down
<1>4. \/ proc[p].heads = {} /\ proc' = Planned(p, 0)
      \/ \E v \in proc[p].heads : proc[p].heads = {v} /\ proc' = Planned(p, v)
      \/ /\ proc' = [proc EXCEPT ![p].pc = "failed"]
         /\ \E v \in proc[p].heads : proc[p].heads # {v}
  BY Zenon DEF PlanUpgrade, Fails, Go
<1>5. CASE proc[p].heads = {} /\ proc' = Planned(p, 0)
  BY <1>1, <1>2, <1>5
<1>6. CASE \E v \in proc[p].heads : proc[p].heads = {v} /\ proc' = Planned(p, v)
  <2>1. PICK v \in proc[p].heads : proc[p].heads = {v} /\ proc' = Planned(p, v)
    BY <1>6
  <2> QED
    BY <1>1, <1>2, <2>1
<1>7. CASE /\ proc' = [proc EXCEPT ![p].pc = "failed"]
           /\ \E v \in proc[p].heads : proc[p].heads # {v}
  <2>1. \E v, w \in proc[p].heads : v # w
    BY <1>7
  <2> QED
    BY <1>1, <1>3, <1>7, <2>1
<1> QED
  BY <1>4, <1>5, <1>6, <1>7

\* A stamp writes the baseline, if it is not what was read already, or fails.
LEMMA StampIs ==
    ASSUME TypeOK, NEW p \in Procs, Stamp(p)
    PROVE  /\ deployment' = deployment /\ DOMAIN proc' = Procs /\ DOMAIN proc'[p] = DOMAIN Down
           /\ \A q \in Procs \ {p} : proc'[q] = proc[q]
           /\ proc[p].pc = "steps" /\ proc[p].command = "stamp"
           /\ proc'[p].alone = proc[p].alone /\ proc'[p].missing = proc[p].missing
           /\ proc'[p].at = proc[p].at /\ proc'[p].stmt = proc[p].stmt
           /\ \/ /\ proc'[p].pc = "heads" /\ proc'[p].command = "upgrade" /\ proc'[p].heads = {}
                 /\ db' = db \/ Records(proc[p].heads, 1)
              \/ /\ proc'[p].pc = "failed" /\ proc'[p].heads = proc[p].heads /\ db' = db
                 /\ 1 \notin proc[p].heads /\ ~Recordable(p, proc[p].heads, 1)
<1>p. DOMAIN proc = Procs /\ DOMAIN proc[p] = DOMAIN Down
  BY DEF TypeOK, ProcOK
<1>1. deployment' = deployment /\ proc[p].pc = "steps" /\ proc[p].command = "stamp"
  BY Zenon DEF Stamp, Idle
<1>2. \/ Stamped(p) /\ (db' = db \/ Records(proc[p].heads, 1))
      \/ /\ proc' = [proc EXCEPT ![p].pc = "failed"] /\ db' = db
         /\ 1 \notin proc[p].heads /\ ~Recordable(p, proc[p].heads, 1)
  BY Zenon DEF Stamp, Fails, Go
<1>3. CASE Stamped(p) /\ (db' = db \/ Records(proc[p].heads, 1))
  <2>1. proc' = [proc EXCEPT ![p] = [@ EXCEPT !.pc = "heads", !.command = "upgrade", !.heads = {}]]
    BY <1>3, Zenon DEF Stamped
  <2>2. /\ DOMAIN proc' = Procs /\ \A q \in Procs \ {p} : proc'[q] = proc[q]
        /\ proc'[p] = [proc[p] EXCEPT !.pc = "heads", !.command = "upgrade", !.heads = {}]
    BY <1>p, <2>1
  <2>3. /\ DOMAIN proc'[p] = DOMAIN Down
        /\ proc'[p].alone = proc[p].alone /\ proc'[p].missing = proc[p].missing
        /\ proc'[p].at = proc[p].at /\ proc'[p].stmt = proc[p].stmt
        /\ proc'[p].pc = "heads" /\ proc'[p].command = "upgrade" /\ proc'[p].heads = {}
    BY <1>p, <2>2 DEF Down
  <2> QED
    BY <1>1, <1>3, <2>2, <2>3
<1>4. CASE /\ proc' = [proc EXCEPT ![p].pc = "failed"] /\ db' = db
           /\ 1 \notin proc[p].heads /\ ~Recordable(p, proc[p].heads, 1)
  <2>1. /\ DOMAIN proc' = Procs /\ \A q \in Procs \ {p} : proc'[q] = proc[q]
        /\ DOMAIN proc'[p] = DOMAIN Down
        /\ proc'[p].alone = proc[p].alone /\ proc'[p].missing = proc[p].missing
        /\ proc'[p].at = proc[p].at /\ proc'[p].stmt = proc[p].stmt
        /\ proc'[p].pc = "failed" /\ proc'[p].heads = proc[p].heads
    BY <1>p, <1>4 DEF Down
  <2> QED
    BY <1>1, <1>4, <2>1
<1> QED
  BY <1>2, <1>3, <1>4

\* A bootstrap that is under way moves nobody else.
LEMMA OnlyItself ==
    ASSUME TypeOK, NEW p \in Users, Bootstrap(p), ~Start(p)
    PROVE  /\ proc[p].pc \in Working /\ deployment' = deployment
           /\ DOMAIN proc' = Procs /\ DOMAIN proc'[p] = DOMAIN Down
           /\ \A q \in Procs \ {p} : proc'[q] = proc[q]
           /\ \/ proc'[p].pc = "down"
              \/ proc'[p].alone = proc[p].alone /\ proc'[p].missing = proc[p].missing
<1>p. p \in Procs /\ DOMAIN proc = Procs /\ DOMAIN proc[p] = DOMAIN Down
  BY DEF TypeOK, ProcOK
<1> USE DEF Go, Fails, Idle, Working, Down
<1>1. CASE CreateTable(p) \/ CreateIndex(p) \/ CreateDone(p)
  BY <1>p, <1>1 DEF CreateTable, CreateIndex, CreateDone, LoseRace
<1>2. CASE Inspect(p) \/ AddColumn(p) \/ ColumnsDone(p)
  BY <1>p, <1>2 DEF Inspect, AddColumn, ColumnsDone
<1>3. CASE ReadTables(p) \/ ReadHeads(p) \/ LookForVersions(p) \/ CreateVersions(p)
  BY <1>p, <1>3 DEF ReadTables, ReadHeads, LookForVersions, CreateVersions
<1>4. CASE Stamp(p) \/ PlanUpgrade(p)
  <2>1. CASE Stamp(p)
    BY <1>p, <2>1, StampIs
  <2>2. CASE PlanUpgrade(p)
    BY <1>p, <2>2, PlanIs
  <2> QED
    BY <1>4, <2>1, <2>2
<1>5. CASE RunStatement(p) \/ AlterTable(p)
  BY <1>p, <1>5 DEF RunStatement, AlterTable, StatementDone
<1>6. CASE RecordVersion(p) \/ UpgradeDone(p) \/ Relax(p) \/ Crash(p)
  BY <1>p, <1>6 DEF RecordVersion, UpgradeDone, Relax, Crash
<1> QED
  BY <1>1, <1>2, <1>3, <1>4, <1>5, <1>6 DEF Bootstrap

\* A start takes the others' solitude from them, and claims a new file.
LEMMA StartStep ==
    ASSUME TypeOK, NEW p \in Users, Start(p)
    PROVE  /\ deployment' = deployment /\ DOMAIN proc' = Procs
           /\ proc'[p].pc = IF p = "migrate" THEN "tables" ELSE "create"
           /\ proc'[p].todo = CreateAll(p) /\ proc'[p].missing = CreateAll(p)
           /\ proc'[p].alone = (Others(p) = {}) /\ proc'[p].heads = {}
           /\ ProcOK(p)'
           /\ \A q \in Procs \ {p} :
                proc'[q] = IF q \in Others(p) THEN [proc[q] EXCEPT !.alone = FALSE] ELSE proc[q]
           /\ db'.tables = db.tables /\ db'.indexes = db.indexes /\ db'.columns = db.columns
           /\ db'.versions = db.versions /\ DOMAIN db' = DOMAIN Fresh
           /\ db'.owner # "nobody" /\ (db.owner # "nobody" => db'.owner = db.owner)
<1>p. p \in Procs /\ User(p) # "nobody" /\ DOMAIN db = DOMAIN Fresh
  BY DEF TypeOK, FileOK
<1>1. db' = [db EXCEPT !.owner = IF @ = "nobody" THEN User(p) ELSE @] /\ deployment' = deployment
  BY Zenon DEF Start
<1>2. /\ db'.tables = db.tables /\ db'.indexes = db.indexes /\ db'.columns = db.columns
      /\ db'.versions = db.versions /\ DOMAIN db' = DOMAIN Fresh
      /\ db'.owner = IF db.owner = "nobody" THEN User(p) ELSE db.owner
  BY <1>p, <1>1 DEF Fresh
<1>3. /\ DOMAIN proc' = Procs
      /\ proc'[p] = [Down EXCEPT !.pc = IF p = "migrate" THEN "tables" ELSE "create",
                                 !.missing = CreateAll(p), !.todo = CreateAll(p),
                                 !.alone = Others(p) = {}]
      /\ \A q \in Procs \ {p} :
           proc'[q] = IF q \in Others(p) THEN [proc[q] EXCEPT !.alone = FALSE] ELSE proc[q]
  BY <1>p, Zenon DEF Start
<1> DEFINE others == Others(p)
           all == CreateAll(p)
<1>4. proc'[p] = [Down EXCEPT !.pc = IF p = "migrate" THEN "tables" ELSE "create",
                              !.missing = all, !.todo = all, !.alone = others = {}]
  BY <1>3
<1> HIDE DEF others, all
<1>5. /\ proc'[p].pc = IF p = "migrate" THEN "tables" ELSE "create"
      /\ proc'[p].todo = all /\ proc'[p].missing = all
      /\ proc'[p].alone = (others = {}) /\ proc'[p].heads = {}
      /\ DOMAIN proc'[p] = DOMAIN Down /\ proc'[p].at = 0 /\ proc'[p].stmt = 1
  BY <1>4 DEF Down
<1>6. Latest \in Nat /\ 0 \in 0..Latest
  BY RevisionFacts
<1>7. ProcOK(p)'
  BY <1>p, <1>2, <1>5, <1>6 DEF ProcOK, Working
<1> QED
  BY <1>p, <1>1, <1>2, <1>3, <1>5, <1>7 DEF others, all

\* What a step of a bootstrap does to the file.
LEMMA FileNext ==
    ASSUME TypeOK, NEW p \in Users, Progress(p), Bootstrap(p)
    PROVE  /\ Grown /\ FileOK' /\ (db.owner # "nobody" => db'.owner = db.owner)
           /\ ~Start(p) => db'.owner = db.owner
           /\ ~Stamp(p) /\ ~RecordVersion(p) => db'.versions = db.versions
<1>p. p \in Procs /\ DOMAIN db = DOMAIN Fresh /\ Latest = 12 /\ FileOK /\ DOMAIN proc = Procs
      /\ DOMAIN proc[p] = DOMAIN Down
  BY RevisionFacts DEF TypeOK, FileOK, ProcOK
<1> DEFINE Goal == /\ Grown /\ FileOK' /\ db'.owner = db.owner
                   /\ ~Stamp(p) /\ ~RecordVersion(p) => db'.versions = db.versions
<1>same. ASSUME db' = db PROVE Goal
  BY <1>p, <1>same DEF Grown, FileOK
<1>1. CASE Start(p)
  <2>1. FileOK' /\ Grown
    BY <1>1, <1>p, StartStep DEF FileOK, Grown
  <2> QED
    BY <1>1, <2>1, StartStep
<1>add. ASSUME NEW T, NEW C,
               /\ DOMAIN db' = DOMAIN db /\ db'.tables = db.tables \cup T
               /\ db'.indexes = db.indexes /\ db'.columns = db.columns \cup C
               /\ db'.versions = db.versions /\ db'.owner = db.owner
        PROVE  Goal
  BY <1>p, <1>add DEF Grown, FileOK
<1>index. ASSUME NEW T, NEW I, NEW C,
               /\ DOMAIN db' = DOMAIN db /\ db'.tables = db.tables \cup T
               /\ db'.indexes = db.indexes \cup I /\ db'.columns = db.columns \cup C
               /\ db'.versions = db.versions /\ db'.owner = db.owner,
               \A i \in I : i[1] \in db.tables
        PROVE  Goal
  BY <1>p, <1>index DEF Grown, FileOK
<1> DEFINE Record(from, to) == Records(from, to) /\ to \in 1..Latest /\ VersionTable \in db.tables
<1>record. ASSUME NEW from, NEW to, Record(from, to), Stamp(p) \/ RecordVersion(p)
           PROVE  Goal
  BY <1>p, <1>record DEF Records, Grown, FileOK, Fresh
<1> SUFFICES ASSUME ~Start(p) PROVE Goal
  BY <1>1
<1> HIDE DEF Goal
<1>2. CASE CreateTable(p)
  <2> DEFINE t == First(ModelTables, proc[p].todo)
  <2>1. db' = db \/ db' = CreateFull(t)
    BY <1>2 DEF CreateTable, LoseRace, Fails
  <2>2. CASE db' = CreateFull(t)
    <3> DEFINE C == {c \in ToSet(ModelColumns) : c[1] = t}
    <3>1. db' = [db EXCEPT !.tables = @ \union {t}, !.columns = @ \union C]
      BY <2>2 DEF CreateFull
    <3> HIDE DEF t, C
    <3>2. /\ DOMAIN db' = DOMAIN db /\ db'.tables = db.tables \cup {t}
          /\ db'.indexes = db.indexes /\ db'.columns = db.columns \cup C
          /\ db'.versions = db.versions /\ db'.owner = db.owner
      BY <1>p, <3>1 DEF Fresh
    <3> QED
      BY <1>add, <3>2
  <2> QED
    BY <2>1, <2>2, <1>same
<1>3. CASE CreateIndex(p)
  <2>1. PICK i \in proc[p].left : LoseRace(p) \/ db' = [db EXCEPT !.indexes = @ \union {i}]
    BY <1>3 DEF CreateIndex
  <2>2. CASE LoseRace(p)
    BY <2>2, <1>same DEF LoseRace
  <2>3. CASE db' = [db EXCEPT !.indexes = @ \union {i}]
    <3>1. i \in IndexesOf(Current(p)) /\ Current(p) \in db.tables
      BY <1>3 DEF CreateIndex, Progress
    <3>2. i[1] = Current(p)
      BY <3>1, IndexesAreOf
    <3>3. /\ DOMAIN db' = DOMAIN db /\ db'.tables = db.tables \cup {}
          /\ db'.indexes = db.indexes \cup {i} /\ db'.columns = db.columns \cup {}
          /\ db'.versions = db.versions /\ db'.owner = db.owner
      BY <1>p, <2>3 DEF Fresh
    <3>4. \A j \in {i} : j[1] \in db.tables
      BY <3>1, <3>2
    <3> QED
      BY <1>index, <3>3, <3>4
  <2> QED
    BY <2>1, <2>2, <2>3
<1>4. CASE \/ CreateDone(p) \/ Inspect(p) \/ ColumnsDone(p) \/ ReadTables(p) \/ ReadHeads(p)
           \/ LookForVersions(p) \/ PlanUpgrade(p) \/ UpgradeDone(p) \/ Crash(p)
  <2>1. db' = db
    BY <1>4 DEF CreateDone, Inspect, ColumnsDone, ReadTables, ReadHeads, LookForVersions,
                PlanUpgrade, UpgradeDone, Crash, Fails
  <2> QED
    BY <2>1, <1>same
<1>5. CASE AddColumn(p)
  <2> DEFINE c == First(ModelColumns, proc[p].todo)
  <2>1. db' = db \/ db' = [db EXCEPT !.columns = @ \union {c}]
    BY <1>5 DEF AddColumn, Fails
  <2> HIDE DEF c
  <2>2. CASE db' = [db EXCEPT !.columns = @ \union {c}]
    <3>1. /\ DOMAIN db' = DOMAIN db /\ db'.tables = db.tables \cup {}
          /\ db'.indexes = db.indexes /\ db'.columns = db.columns \cup {c}
          /\ db'.versions = db.versions /\ db'.owner = db.owner
      BY <1>p, <2>2 DEF Fresh
    <3> QED
      BY <1>add, <3>1
  <2> QED
    BY <2>1, <2>2, <1>same
<1>6. CASE CreateVersions(p)
  <2>1. db' = db \/ db' = [db EXCEPT !.tables = @ \union {VersionTable}]
    BY <1>6 DEF CreateVersions, Fails
  <2>2. CASE db' = [db EXCEPT !.tables = @ \union {VersionTable}]
    <3>1. /\ DOMAIN db' = DOMAIN db /\ db'.tables = db.tables \cup {VersionTable}
          /\ db'.indexes = db.indexes /\ db'.columns = db.columns \cup {}
          /\ db'.versions = db.versions /\ db'.owner = db.owner
      BY <1>p, <2>2 DEF Fresh
    <3> QED
      BY <1>add, <3>1
  <2> QED
    BY <2>1, <2>2, <1>same
<1>7. CASE Stamp(p)
  <2>1. VersionTable \in db.tables
    BY <1>7 DEF Stamp, Progress
  <2>2. db' = db \/ Records(proc[p].heads, 1)
    BY <1>7 DEF Stamp, Fails
  <2>3. 1 \in 1..Latest
    BY <1>p
  <2> QED
    BY <1>7, <1>same, <1>record, <2>1, <2>2, <2>3
<1>8. CASE RunStatement(p) \/ AlterTable(p)
  <2> DEFINE s == NextStatement(p)
  <2>1. db' = db \/ (db' = Apply(s) /\ IsStatement(s) /\ (s.do = "index" => s.on[1] \in db.tables))
    <3>1. CASE RunStatement(p)
      <4>1. Pending(p) /\ (db' = db \/ (db' = Apply(s) /\ Possible(s)))
        BY <3>1 DEF RunStatement, Fails, Go
      <4>2. IsStatement(s)
        BY <1>p, <4>1, PendingStatement
      <4> QED
        BY <4>1, <4>2 DEF Possible
    <3>2. CASE AlterTable(p)
      <4>1. proc[p].pc = "alter" /\ (db' = db \/ db' = Apply(s))
        BY <3>2 DEF AlterTable, Fails
      <4>2. Pending(p) /\ s.do = "column"
        BY <4>1 DEF Progress
      <4>3. IsStatement(s)
        BY <1>p, <4>2, PendingStatement
      <4> QED
        BY <4>1, <4>2, <4>3
    <3> QED
      BY <1>8, <3>1, <3>2
  <2> HIDE DEF s
  <2>2. CASE db' = Apply(s) /\ IsStatement(s) /\ (s.do = "index" => s.on[1] \in db.tables)
    <3> DEFINE T == IF s.do = "table" THEN {s.on[1]} ELSE {}
               I == IF s.do = "index" THEN {s.on} ELSE {}
               C == IF s.do = "column" THEN {s.on} ELSE {}
    <3>1. /\ DOMAIN db' = DOMAIN db /\ db'.tables = db.tables \cup T
          /\ db'.indexes = db.indexes \cup I /\ db'.columns = db.columns \cup C
          /\ db'.versions = db.versions /\ db'.owner = db.owner
      BY <1>p, <2>2 DEF Apply, IsStatement, Fresh
    <3>2. \A i \in I : i[1] \in db.tables
      BY <2>2
    <3> HIDE DEF T, I, C
    <3> QED
      BY <1>index, <3>1, <3>2
  <2> QED
    BY <1>same, <2>1, <2>2
<1>9. CASE RecordVersion(p)
  <2>1. VersionTable \in db.tables /\ proc[p].pc = "upgrade" /\ proc[p].at < Latest
    BY <1>9 DEF RecordVersion, Progress
  <2>2. proc[p].at + 1 \in 1..Latest
    BY <1>p, <2>1 DEF TypeOK, ProcOK
  <2>3. db' = db \/ Records({proc[p].at} \ {0}, proc[p].at + 1)
    BY <1>9 DEF RecordVersion, Fails
  <2> QED
    BY <1>9, <1>same, <1>record, <2>1, <2>2, <2>3
<1>10. CASE Relax(p)
  <2>1. db' = [db EXCEPT !.shared = @ \/ Owns(p)]
    BY <1>10 DEF Relax
  <2>2. /\ DOMAIN db' = DOMAIN db /\ db'.tables = db.tables \cup {}
        /\ db'.indexes = db.indexes /\ db'.columns = db.columns \cup {}
        /\ db'.versions = db.versions /\ db'.owner = db.owner
    BY <1>p, <2>1 DEF Fresh
  <2> QED
    BY <1>add, <2>2
<1> QED
  BY <1>2, <1>3, <1>4, <1>5, <1>6, <1>7, <1>8, <1>9, <1>10 DEF Bootstrap

\* A step leaves its own process well typed.
LEMMA OwnTyped ==
    ASSUME TypeOK, NEW p \in Users, Progress(p), Bootstrap(p), ~Start(p)
    PROVE  ProcOK(p)'
<1>p. /\ p \in Procs /\ DOMAIN proc = Procs /\ DOMAIN proc[p] = DOMAIN Down /\ Latest = 12
      /\ proc[p].at \in 0..12 /\ proc[p].stmt \in Nat \ {0} /\ proc[p].alone \in BOOLEAN
      /\ proc[p].heads \subseteq 1..12 /\ db.versions \subseteq 1..12
  BY RevisionFacts DEF TypeOK, FileOK, ProcOK
<1>o. db'.owner # "nobody"
  BY OnlyItself, FileNext, <1>p DEF TypeOK, ProcOK, Working
<1>d. DOMAIN proc'[p] = DOMAIN Down
  BY OnlyItself
<1> DEFINE Well == /\ proc'[p].pc \in Working \cup {"down", "ready", "failed"}
                   /\ proc'[p].at \in 0..12 /\ proc'[p].stmt \in Nat \ {0}
                   /\ proc'[p].alone \in BOOLEAN /\ proc'[p].heads \subseteq 1..12
<1>w. Well
  <2>1. CASE \/ CreateTable(p) \/ CreateIndex(p) \/ CreateDone(p) \/ Inspect(p) \/ AddColumn(p)
             \/ ColumnsDone(p)
    BY <1>p, <2>1 DEF CreateTable, CreateIndex, CreateDone, Inspect, AddColumn, ColumnsDone,
                      LoseRace, Fails, Go, Working, Down
  <2>2. CASE ReadTables(p) \/ ReadHeads(p) \/ LookForVersions(p) \/ CreateVersions(p)
    BY <1>p, <2>2 DEF ReadTables, ReadHeads, LookForVersions, CreateVersions, Fails, Go, Working, Down
  <2>s. CASE Stamp(p)
    BY <1>p, <2>s, StampIs DEF Working
  <2>3. CASE PlanUpgrade(p)
    <3>1. {"upgrade", "failed"} \subseteq Working \cup {"failed"} /\ 0 \in 0..12
          /\ \A v \in 1..12 : v \in 0..12
      BY DEF Working
    <3> QED
      BY <1>p, <2>3, <3>1, PlanIs
  <2>4. CASE RunStatement(p) \/ AlterTable(p)
    BY <1>p, <2>4 DEF RunStatement, AlterTable, StatementDone, Fails, Go, Working, Down
  <2>5. CASE RecordVersion(p)
    BY <1>p, <2>5 DEF RecordVersion, Fails, Go, Working, Down
  <2>6. CASE UpgradeDone(p) \/ Relax(p)
    BY <1>p, <2>6 DEF UpgradeDone, Relax, Go, Working, Down
  <2>7. CASE Crash(p)
    BY <1>p, <2>7 DEF Crash, Working, Down
  <2> QED
    BY <2>1, <2>2, <2>s, <2>3, <2>4, <2>5, <2>6, <2>7 DEF Bootstrap
<1> QED
  BY <1>p, <1>o, <1>d, <1>w DEF ProcOK

\* Every step of a bootstrap keeps the types and the frame.
LEMMA FrameNext ==
    ASSUME TypeOK, NEW p \in Users, Progress(p), Bootstrap(p)
    PROVE  TypeOK' /\ Frame(p)
<1>p. p \in Procs
  BY DEF TypeOK
<1>f. Grown /\ FileOK' /\ (db.owner # "nobody" => db'.owner = db.owner)
  BY FileNext
<1>1. /\ deployment' = deployment /\ DOMAIN proc' = Procs /\ ProcOK(p)'
      /\ \A q \in Procs \ {p} : proc'[q] = proc[q] \/ proc'[q] = [proc[q] EXCEPT !.alone = FALSE]
  BY OnlyItself, OwnTyped, StartStep
<1>2. ASSUME NEW q \in Procs \ {p}
      PROVE  /\ DOMAIN proc'[q] = DOMAIN Down /\ proc'[q].alone \in BOOLEAN
             /\ proc'[q].pc = proc[q].pc /\ proc'[q].todo = proc[q].todo
             /\ proc'[q].left = proc[q].left /\ proc'[q].missing = proc[q].missing
             /\ proc'[q].command = proc[q].command /\ proc'[q].heads = proc[q].heads
             /\ proc'[q].at = proc[q].at /\ proc'[q].stmt = proc[q].stmt
             /\ proc'[q].alone => proc[q].alone
  <2>1. DOMAIN proc[q] = DOMAIN Down /\ proc[q].alone \in BOOLEAN
    BY DEF TypeOK, ProcOK
  <2>2. CASE proc'[q] = proc[q]
    BY <2>1, <2>2
  <2>3. CASE proc'[q] = [proc[q] EXCEPT !.alone = FALSE]
    BY <2>1, <2>3 DEF Down
  <2> QED
    BY <1>1, <2>2, <2>3
<1>3. ASSUME NEW q \in Procs PROVE ProcOK(q)'
  <2>1. CASE q = p
    BY <1>1, <2>1
  <2>2. CASE q # p
    <3>1. ProcOK(q)
      BY DEF TypeOK
    <3> QED
      BY <1>f, <1>2, <2>2, <3>1 DEF ProcOK
  <2> QED
    BY <2>1, <2>2
<1>4. \A q \in Users' : User(q)' # "nobody"
  BY <1>1 DEF TypeOK, Users, User
<1> QED
  BY <1>f, <1>1, <1>2, <1>3, <1>4 DEF TypeOK, Frame, Users

-----------------------------------------------------------------------------
(***************************************************************************)
(* Progress, and the version.                                              *)
(***************************************************************************)

\* What is in the file stays in it.
LEMMA HasGrows ==
    ASSUME NEW s, IsStatement(s), Has(s), Grown
    PROVE  HasDone(db', s)
  BY DEF IsStatement, Has, HasDone, Grown

\* Revisions that are done stay done.
LEMMA DoneGrows ==
    ASSUME NEW n \in 0..Latest, DoneUpTo(n, db), Grown
    PROVE  DoneUpTo(n, db')
<1> SUFFICES ASSUME NEW r \in 1..n, NEW i \in DOMAIN Revisions[r]
             PROVE  HasDone(db', Revisions[r][i])
  BY DEF DoneUpTo
<1>1. r \in 1..Latest
  <2>1. Latest = 12 /\ n \in 0..12
    BY RevisionFacts
  <2> QED
    BY <2>1
<1>2. IsStatement(Revisions[r][i]) /\ Has(Revisions[r][i])
  BY <1>1, RevisionFacts DEF DoneUpTo, Has
<1> QED
  BY <1>2, HasGrows

\* One more revision is done when all of its statements are.
LEMMA DoneNext ==
    ASSUME NEW n \in 0..Latest, n < Latest, NEW file, DoneUpTo(n, file),
           \A i \in DOMAIN Revisions[n + 1] : HasDone(file, Revisions[n + 1][i])
    PROVE  DoneUpTo(n + 1, file)
<1>1. \A r \in 1..n + 1 : r \in 1..n \/ r = n + 1
  BY RevisionFacts
<1> QED
  BY <1>1 DEF DoneUpTo

\* The statements behind a bootstrap, when it is in the same revision and no
\* further than it was.
LEMMA StatementsStay ==
    ASSUME TypeOK, NEW q \in Procs, Progress(q), Grown,
           proc[q].pc \in {"upgrade", "alter"}, proc[q].at < Latest
    PROVE  \A i \in DOMAIN Statements(q) : i < proc[q].stmt => HasDone(db', Statements(q)[i])
<1> TAKE i \in DOMAIN Statements(q)
<1> HAVE i < proc[q].stmt
<1>1. proc[q].at + 1 \in 1..Latest
  <2>1. Latest = 12 /\ proc[q].at \in 0..12
    BY RevisionFacts DEF TypeOK, FileOK, ProcOK
  <2> QED
    BY <2>1
<1>2. IsStatement(Statements(q)[i])
  BY <1>1, RevisionFacts DEF Statements
<1>3. Has(Statements(q)[i])
  BY DEF Progress
<1> QED
  BY <1>2, <1>3, HasGrows

\* A process that is not at a step has behind it what it had.
LEMMA ProgressStays ==
    ASSUME TypeOK, NEW q \in Procs, Progress(q), Grown,
           proc'[q].pc = proc[q].pc, proc'[q].todo = proc[q].todo,
           proc'[q].left = proc[q].left, proc'[q].heads = proc[q].heads,
           proc'[q].at = proc[q].at, proc'[q].stmt = proc[q].stmt
    PROVE  Progress(q)'
<1>1. proc[q].at \in 0..Latest
  BY DEF TypeOK, FileOK, ProcOK
<1>2. Latest \in 0..Latest
  BY RevisionFacts
<1>3. proc[q].pc \in {"upgrade", "alter"} => DoneUpTo(proc[q].at, db')
  BY <1>1, DoneGrows DEF Progress
<1>4. proc[q].pc \in {"relax", "ready"} => DoneUpTo(Latest, db')
  BY <1>2, DoneGrows DEF Progress
<1>5. /\ proc[q].pc = "create_index" =>
           /\ proc[q].todo # {} /\ Current(q) \in db'.tables
           /\ proc[q].left \subseteq IndexesOf(Current(q))
      /\ proc[q].pc \in {"steps", "upgrade", "alter"} => VersionTable \in db'.tables
      /\ Remaining(q) \subseteq ToSet(ModelTables)
  BY DEF Progress, Grown
<1>8. proc[q].pc \in {"look", "version_table", "steps"} =>
        \A v \in proc[q].heads : DoneUpTo(v, db')
  <2> SUFFICES ASSUME proc[q].pc \in {"look", "version_table", "steps"}, NEW v \in proc[q].heads
               PROVE  DoneUpTo(v, db')
    OBVIOUS
  <2>1. DoneUpTo(v, db) /\ v \in 1..Latest /\ Latest = 12
    BY RevisionFacts DEF Progress, TypeOK, ProcOK
  <2>2. v \in 0..Latest
    BY <2>1
  <2> QED
    BY <2>1, <2>2, DoneGrows
<1>6. proc[q].pc \in {"upgrade", "alter"} /\ proc[q].at < Latest =>
        \A i \in DOMAIN Statements(q) : i < proc[q].stmt => HasDone(db', Statements(q)[i])
  BY StatementsStay
<1>7. /\ Current(q)' = Current(q) /\ Remaining(q)' = Remaining(q) /\ Statements(q)' = Statements(q)
      /\ Pending(q)' = Pending(q) /\ NextStatement(q)' = NextStatement(q)
  BY DEF Current, Remaining, Statements, Pending, NextStatement
<1>9. proc[q].pc = "columns" => proc[q].todo \subseteq ToSet(ModelColumns)
  BY DEF Progress
<1>10. proc[q].pc = "alter" => Pending(q) /\ NextStatement(q).do = "column"
  BY DEF Progress
<1> QED
  BY <1>3, <1>4, <1>5, <1>6, <1>7, <1>8, <1>9, <1>10 DEF Progress, Has

\* A statement that is done moves the process past it.
LEMMA ProgressAfterStatement ==
    ASSUME TypeOK, NEW p \in Procs, Progress(p), Grown, Pending(p),
           proc[p].pc \in {"upgrade", "alter"},
           proc' = StatementDone(p), HasDone(db', NextStatement(p))
    PROVE  Progress(p)'
<1>1. /\ proc'[p].pc = "upgrade" /\ proc'[p].at = proc[p].at /\ proc'[p].stmt = proc[p].stmt + 1
      /\ proc[p].at \in 0..Latest /\ proc[p].stmt \in Nat
  BY DEF StatementDone, TypeOK, ProcOK, Down
<1>2. proc[p].at < Latest
  BY DEF Pending
<1>3. DoneUpTo(proc[p].at, db')
  BY <1>1, DoneGrows DEF Progress
<1>4. \A i \in DOMAIN Statements(p) : i < proc[p].stmt => HasDone(db', Statements(p)[i])
  BY <1>2, StatementsStay
<1>5. DOMAIN Statements(p) \subseteq Nat
  <2>1. proc[p].at + 1 \in 1..Latest
    BY PendingStatement
  <2>2. DOMAIN Statements(p) = 1..Len(Statements(p)) /\ Len(Statements(p)) \in Nat
    BY <2>1, RevisionFacts DEF Statements
  <2> QED
    BY <2>2
<1>6. \A i \in DOMAIN Statements(p) : i < proc[p].stmt + 1 => HasDone(db', Statements(p)[i])
  <2> TAKE i \in DOMAIN Statements(p)
  <2> HAVE i < proc[p].stmt + 1
  <2>1. i < proc[p].stmt \/ i = proc[p].stmt
    BY <1>1, <1>5
  <2> QED
    BY <1>4, <2>1 DEF NextStatement
<1>7. Statements(p)' = Statements(p)
  BY <1>1 DEF Statements
<1>8. VersionTable \in db'.tables /\ Remaining(p)' = {}
  BY <1>1 DEF Progress, Grown, Remaining
<1> QED
  BY <1>1, <1>3, <1>6, <1>7, <1>8 DEF Progress, Has

\* A bootstrap with no statement left has done its revision.
LEMMA RevisionDone ==
    ASSUME TypeOK, NEW p \in Procs, Progress(p), proc[p].pc = "upgrade",
           proc[p].at < Latest, ~Pending(p)
    PROVE  DoneUpTo(proc[p].at + 1, db)
<1>1. proc[p].at \in 0..Latest /\ proc[p].stmt \in Nat /\ Latest = 12
  BY RevisionFacts DEF TypeOK, FileOK, ProcOK
<1>2. proc[p].at + 1 \in 1..Latest
  BY <1>1
<1>3. Len(Statements(p)) \in Nat /\ DOMAIN Statements(p) = 1..Len(Statements(p))
  BY <1>2, RevisionFacts DEF Statements
<1>4. proc[p].stmt > Len(Statements(p))
  BY <1>1, <1>3 DEF Pending
<1>5. \A i \in DOMAIN Statements(p) : i < proc[p].stmt
  BY <1>1, <1>3, <1>4
<1>6. \A i \in DOMAIN Statements(p) : HasDone(db, Statements(p)[i])
  BY <1>5 DEF Progress, Has
<1>7. DoneUpTo(proc[p].at, db)
  BY DEF Progress
<1> QED
  BY <1>1, <1>6, <1>7, DoneNext DEF Statements

\* Every step of a bootstrap has behind it what the next step counts on.
LEMMA ProgressNext ==
    ASSUME TypeOK, VersionIsEarned, NEW p \in Users, Progress(p), Bootstrap(p)
    PROVE  Progress(p)'
<1>p. p \in Procs /\ DOMAIN proc = Procs /\ DOMAIN proc[p] = DOMAIN Down
  BY DEF TypeOK, FileOK, ProcOK
<1>g. Grown /\ TypeOK'
  BY FrameNext DEF Frame
<1>r. Latest = 12
  BY RevisionFacts
<1>early. ASSUME proc'[p].pc \in {"down", "failed", "inspect", "tables", "heads"}
          PROVE  Progress(p)'
  BY <1>early DEF Progress, Remaining
<1> USE DEF Go, Fails, Down
<1>1. CASE Start(p)
  <2>1. proc'[p].pc = "tables" \/ (proc'[p].pc = "create" /\ proc'[p].todo \subseteq ToSet(ModelTables))
    BY <1>1, StartStep DEF CreateAll
  <2> QED
    BY <2>1, <1>early DEF Progress, Remaining
<1>lose. ASSUME LoseRace(p) PROVE Progress(p)'
  <2>1. proc'[p].pc = "inspect"
    BY <1>p, <1>lose DEF LoseRace
  <2> QED
    BY <2>1, <1>early
<1>fail. ASSUME Fails(p) PROVE Progress(p)'
  <2>1. proc'[p].pc = "failed"
    BY <1>p, <1>fail
  <2> QED
    BY <2>1, <1>early
<1>2. CASE CreateTable(p)
  <2> DEFINE t == First(ModelTables, proc[p].todo)
  <2>0. proc[p].pc = "create" /\ proc[p].todo # {} /\ proc[p].todo \subseteq ToSet(ModelTables)
    BY <1>2 DEF CreateTable, Progress, Remaining
  <2>1. CASE LoseRace(p) \/ Fails(p)
    BY <1>lose, <1>fail, <2>1
  <2>2. CASE db' = CreateFull(t) /\ proc' = [proc EXCEPT ![p].todo = @ \ {t}]
    <3>1. proc'[p].pc = "create" /\ proc'[p].todo \subseteq proc[p].todo
      BY <1>p, <2>0, <2>2
    <3> QED
      BY <2>0, <3>1 DEF Progress, Remaining
  <2>3. CASE /\ db' = CreateFull(t)
             /\ proc' = [proc EXCEPT ![p].pc = "create_index", ![p].left = IndexesOf(t)]
    <3> DEFINE I == IndexesOf(t)
    <3>0. proc' = [proc EXCEPT ![p].pc = "create_index", ![p].left = I]
      BY <2>3
    <3> HIDE DEF I
    <3>1. /\ proc'[p].pc = "create_index" /\ proc'[p].todo = proc[p].todo
          /\ proc'[p].left = I
      BY <1>p, <3>0
    <3>2. t \in db'.tables
      <4> HIDE DEF t
      <4> QED
        BY <2>3 DEF CreateFull, TypeOK, FileOK, Fresh
    <3>3. Current(p)' = t
      BY <3>1 DEF Current
    <3>4. proc'[p].left \subseteq IndexesOf(Current(p)')
      BY <3>1, <3>3 DEF I
    <3> HIDE DEF t
    <3> QED
      BY <2>0, <3>1, <3>2, <3>3, <3>4 DEF Progress, Remaining
  <2> QED
    BY <1>2, <2>1, <2>2, <2>3 DEF CreateTable
<1>3. CASE CreateIndex(p)
  <2> DEFINE t == Current(p)
  <2>1. /\ proc[p].pc = "create_index" /\ proc[p].todo \subseteq ToSet(ModelTables)
        /\ proc[p].todo # {} /\ t \in db.tables /\ proc[p].left \subseteq IndexesOf(t)
    BY <1>3 DEF CreateIndex, Progress, Remaining
  <2>2. PICK i \in proc[p].left :
          \/ LoseRace(p)
          \/ proc' = [proc EXCEPT ![p].pc = "create", ![p].left = {}, ![p].todo = @ \ {t}]
          \/ proc' = [proc EXCEPT ![p].left = @ \ {i}]
    BY <1>3, Zenon DEF CreateIndex, Current
  <2>3. CASE proc' = [proc EXCEPT ![p].pc = "create", ![p].left = {}, ![p].todo = @ \ {t}]
    <3> HIDE DEF t
    <3>1. proc'[p].pc = "create" /\ proc'[p].todo \subseteq proc[p].todo
      BY <1>p, <2>3
    <3> QED
      BY <2>1, <3>1 DEF Progress, Remaining
  <2>4. CASE proc' = [proc EXCEPT ![p].left = @ \ {i}]
    <3>1. /\ proc'[p].pc = "create_index" /\ proc'[p].todo = proc[p].todo
          /\ proc'[p].left \subseteq proc[p].left
      BY <1>p, <2>1, <2>4
    <3>2. Current(p)' = t /\ t \in db'.tables
      BY <1>g, <2>1, <3>1 DEF Current, Grown
    <3>3. proc'[p].left \subseteq IndexesOf(Current(p)')
      BY <2>1, <3>1, <3>2
    <3> HIDE DEF t
    <3> QED
      BY <2>1, <3>1, <3>2, <3>3 DEF Progress, Remaining
  <2> QED
    BY <1>lose, <2>2, <2>3, <2>4
<1>4. CASE CreateDone(p)
  BY <1>p, <1>early, <1>4 DEF CreateDone
<1>5. CASE Inspect(p)
  <2>1. proc'[p].pc = "columns" /\ proc'[p].todo \subseteq ToSet(ModelColumns)
    BY <1>p, <1>5 DEF Inspect
  <2> QED
    BY <2>1 DEF Progress, Remaining
<1>6. CASE AddColumn(p)
  <2>1. Fails(p) \/ (proc'[p].pc = "columns" /\ proc'[p].todo \subseteq proc[p].todo)
    BY <1>p, <1>6 DEF AddColumn
  <2>2. proc[p].todo \subseteq ToSet(ModelColumns)
    BY <1>6 DEF AddColumn, Progress
  <2> QED
    BY <1>fail, <2>1, <2>2 DEF Progress, Remaining
<1>7. CASE ColumnsDone(p)
  BY <1>p, <1>early, <1>7 DEF ColumnsDone
<1>8. CASE ReadTables(p)
  BY <1>p, <1>early, <1>8 DEF ReadTables
<1>h. CASE ReadHeads(p)
  <2>1. /\ proc'[p].heads = db.versions /\ db' = db
        /\ proc'[p].pc = IF db.versions = {} THEN "look" ELSE "steps"
    BY <1>p, <1>h DEF ReadHeads
  <2>2. proc'[p].pc = "steps" => VersionTable \in db.tables
    BY <2>1 DEF TypeOK, FileOK
  <2>3. \A v \in proc'[p].heads : DoneUpTo(v, db')
    BY <2>1 DEF VersionIsEarned
  <2> QED
    BY <2>1, <2>2, <2>3 DEF Progress, Remaining
<1>v. CASE LookForVersions(p) \/ CreateVersions(p)
  <2>1. /\ proc[p].pc \in {"look", "version_table"}
        /\ Fails(p) \/ (proc'[p].pc \in {"version_table", "steps"} /\ proc'[p].heads = proc[p].heads)
    BY <1>p, <1>v DEF LookForVersions, CreateVersions
  <2>2. proc'[p].pc = "steps" => VersionTable \in db'.tables
    BY <1>p, <1>v DEF LookForVersions, CreateVersions, TypeOK, FileOK, Fresh
  <2>3. ASSUME NEW v \in proc[p].heads PROVE DoneUpTo(v, db')
    <3>1. DoneUpTo(v, db) /\ v \in 1..12
      BY <1>p, <1>r, <2>1 DEF Progress, TypeOK, ProcOK
    <3>2. v \in 0..Latest
      BY <1>r, <3>1
    <3> QED
      BY <1>g, <3>1, <3>2, DoneGrows
  <2> QED
    BY <1>fail, <2>1, <2>2, <2>3 DEF Progress, Remaining
<1>9. CASE Stamp(p)
  <2>1. proc'[p].pc \in {"heads", "failed"}
    BY <1>p, <1>9, StampIs
  <2> QED
    BY <1>early, <2>1
<1>10. CASE PlanUpgrade(p)
  <2>0. /\ db' = db /\ proc[p].pc = "steps"
        /\ \/ /\ proc'[p].pc = "upgrade" /\ proc'[p].stmt = 1
              /\ proc'[p].at = 0 \/ proc'[p].at \in proc[p].heads
           \/ proc'[p].pc = "failed"
    BY <1>p, <1>10, PlanIs
  <2>1. CASE proc'[p].pc = "failed"
    BY <1>early, <2>1
  <2>2. CASE /\ proc'[p].pc = "upgrade" /\ proc'[p].stmt = 1
             /\ proc'[p].at = 0 \/ proc'[p].at \in proc[p].heads
    <3> DEFINE at == proc'[p].at
    <3>1. DoneUpTo(at, db')
      <4>1. CASE at = 0
        BY <4>1 DEF DoneUpTo
      <4>2. CASE at \in proc[p].heads
        BY <2>0, <4>2 DEF Progress
      <4> QED
        BY <2>2, <4>1, <4>2
    <3>2. at < Latest => \A i \in DOMAIN Revisions[at + 1] : ~(i < 1)
      <4>0. at \in 0..12
        BY <1>p, <1>r, <1>g DEF TypeOK, ProcOK
      <4> HIDE DEF at
      <4>1. at < Latest => at + 1 \in 1..Latest
        BY <1>r, <4>0
      <4>2. at < Latest => /\ Len(Revisions[at + 1]) \in Nat
                           /\ DOMAIN Revisions[at + 1] = 1..Len(Revisions[at + 1])
        BY <4>1, RevisionFacts
      <4> QED
        BY <4>2
    <3>3. VersionTable \in db'.tables
      BY <2>0 DEF Progress
    <3> QED
      BY <2>2, <3>1, <3>2, <3>3 DEF Progress, Remaining, Statements
  <2> QED
    BY <2>0, <2>1, <2>2
<1>11. CASE RunStatement(p)
  <2> DEFINE s == NextStatement(p)
  <2>0. Pending(p) /\ proc[p].pc = "upgrade" /\ IsStatement(s)
    BY <1>p, <1>11, PendingStatement DEF RunStatement
  <2>1. CASE Fails(p)
    BY <1>fail, <2>1
  <2>2. CASE proc' = StatementDone(p)
    <3>1. HasDone(db', s)
      <4>1. CASE db' = db /\ Has(s)
        BY <4>1 DEF Has
      <4>2. CASE db' = Apply(s) /\ ~Has(s)
        <5> HIDE DEF s
        <5> QED
          BY <2>0, <4>2 DEF Apply, HasDone, IsStatement, TypeOK, FileOK, Fresh
      <4>3. (db' = db /\ Has(s)) \/ (db' = Apply(s) /\ ~Has(s)) \/ Fails(p) \/ proc'[p].pc = "alter"
        BY <1>p, <1>11 DEF RunStatement
      <4>4. proc'[p].pc = "upgrade"
        BY <1>p, <2>2 DEF StatementDone
      <4> QED
        BY <1>p, <4>1, <4>2, <4>3, <4>4
    <3> QED
      BY <1>p, <1>g, <2>0, <2>2, <3>1, ProgressAfterStatement
  <2>3. CASE Go(p, "alter") /\ s.do = "column" /\ db' = db
    <3>1. /\ proc'[p].pc = "alter" /\ proc'[p].at = proc[p].at
          /\ proc'[p].stmt = proc[p].stmt
      BY <1>p, <2>3
    <3>2. Statements(p)' = Statements(p) /\ Pending(p)' = Pending(p) /\ NextStatement(p)' = s
      BY <3>1 DEF Statements, Pending, NextStatement
    <3> QED
      BY <2>0, <2>3, <3>1, <3>2 DEF Progress, Remaining, Has
  <2> QED
    BY <1>11, <2>1, <2>2, <2>3 DEF RunStatement
<1>12. CASE AlterTable(p)
  <2> DEFINE s == NextStatement(p)
  <2>0. Pending(p) /\ proc[p].pc = "alter" /\ s.do = "column"
    BY <1>12 DEF AlterTable, Progress
  <2>1. CASE Fails(p)
    BY <1>fail, <2>1
  <2>2. CASE db' = Apply(s) /\ proc' = StatementDone(p)
    <3>1. HasDone(db', s)
      <4> HIDE DEF s
      <4> QED
        BY <2>0, <2>2 DEF Apply, HasDone, TypeOK, FileOK, Fresh
    <3> QED
      BY <1>p, <1>g, <2>0, <2>2, <3>1, ProgressAfterStatement
  <2> QED
    BY <1>12, <2>1, <2>2 DEF AlterTable
<1>13. CASE RecordVersion(p)
  <2>1. CASE Fails(p)
    BY <1>fail, <2>1
  <2>2. CASE ~Fails(p)
    <3>1. /\ proc[p].pc = "upgrade" /\ proc[p].at < Latest /\ ~Pending(p)
          /\ proc' = [proc EXCEPT ![p].at = @ + 1, ![p].stmt = 1]
      BY <1>13, <2>2 DEF RecordVersion
    <3>2. /\ proc'[p].pc = "upgrade" /\ proc'[p].at = proc[p].at + 1 /\ proc'[p].stmt = 1
          /\ proc[p].at \in 0..Latest
      BY <1>p, <3>1 DEF TypeOK, FileOK, ProcOK
    <3>3. DoneUpTo(proc[p].at + 1, db)
      BY <1>p, <3>1, RevisionDone
    <3>4. proc[p].at + 1 \in 0..Latest
      BY <1>r, <3>1, <3>2
    <3>5. DoneUpTo(proc[p].at + 1, db')
      BY <1>g, <3>3, <3>4, DoneGrows
    <3>6. proc'[p].at < Latest => \A i \in DOMAIN Statements(p)' : ~(i < 1)
      <4>1. proc'[p].at < Latest => proc'[p].at + 1 \in 1..Latest
        BY <1>r, <3>2, <3>4
      <4>2. proc'[p].at < Latest => /\ Len(Statements(p)') \in Nat
                                    /\ DOMAIN Statements(p)' = 1..Len(Statements(p)')
        BY <4>1, RevisionFacts DEF Statements
      <4> QED
        BY <4>2
    <3>7. VersionTable \in db'.tables
      BY <1>g, <3>1 DEF Progress, Grown
    <3> QED
      BY <3>2, <3>5, <3>6, <3>7 DEF Progress, Remaining
  <2> QED
    BY <2>1, <2>2
<1>14. CASE UpgradeDone(p)
  <2>1. proc'[p].pc \in {"ready", "relax"} /\ db' = db /\ DoneUpTo(Latest, db)
    BY <1>p, <1>14 DEF UpgradeDone, Progress
  <2> QED
    BY <2>1 DEF Progress, Remaining
<1>15. CASE Relax(p)
  <2>1. proc'[p].pc = "ready" /\ DoneUpTo(Latest, db)
    BY <1>p, <1>15 DEF Relax, Progress
  <2>2. DoneUpTo(Latest, db')
    BY <1>g, <1>r, <2>1, DoneGrows
  <2> QED
    BY <2>1, <2>2 DEF Progress, Remaining
<1>16. CASE Crash(p)
  <2>1. proc'[p].pc = "down"
    BY <1>p, <1>16 DEF Crash
  <2> QED
    BY <1>early, <2>1
<1> QED
  BY <1>1, <1>2, <1>3, <1>4, <1>5, <1>6, <1>7, <1>8, <1>h, <1>v, <1>9, <1>10, <1>11, <1>12,
     <1>13, <1>14, <1>15, <1>16 DEF Bootstrap

\* The versions are written by stamping, which promises nothing, and by
\* recording a revision that is done.
LEMMA VersionNext ==
    ASSUME TypeOK, VersionIsEarned, NEW p \in Users, Progress(p), Bootstrap(p)
    PROVE  VersionIsEarned'
<1>p. p \in Procs /\ DOMAIN db = DOMAIN Fresh /\ db.versions \subseteq 1..12 /\ Latest = 12
  BY RevisionFacts DEF TypeOK, FileOK
<1>g. Grown
  BY FileNext
<1>old. ASSUME NEW v \in db.versions PROVE DoneUpTo(v, db')
  <2>1. DoneUpTo(v, db) /\ v \in 0..Latest
    BY <1>p DEF VersionIsEarned
  <2> QED
    BY <1>g, <2>1, DoneGrows
<1>1. ASSUME db'.versions = db.versions PROVE VersionIsEarned'
  BY <1>1, <1>old DEF VersionIsEarned
<1>2. ASSUME NEW from, NEW to, Records(from, to), DoneUpTo(to, db') PROVE VersionIsEarned'
  <2>1. db'.versions = (db.versions \ from) \cup {to}
    BY <1>p, <1>2 DEF Records, Fresh
  <2> QED
    BY <1>2, <1>old, <2>1 DEF VersionIsEarned
<1>3. CASE Stamp(p)
  <2>1. db' = db \/ Records(proc[p].heads, 1)
    BY <1>p, <1>3, StampIs
  <2>2. DoneUpTo(1, db')
    BY RevisionFacts DEF DoneUpTo
  <2> QED
    BY <1>1, <1>2, <2>1, <2>2
<1>4. CASE RecordVersion(p)
  <2>1. CASE Fails(p)
    BY <1>1, <2>1 DEF Fails
  <2>2. CASE ~Fails(p)
    <3>1. /\ proc[p].pc = "upgrade" /\ proc[p].at < Latest /\ ~Pending(p)
          /\ Records({proc[p].at} \ {0}, proc[p].at + 1)
      BY <1>4, <2>2 DEF RecordVersion
    <3>2. DoneUpTo(proc[p].at + 1, db)
      BY <1>p, <3>1, RevisionDone
    <3>3. proc[p].at + 1 \in 0..Latest
      <4>1. proc[p].at \in 0..12
        BY <1>p DEF TypeOK, ProcOK
      <4> QED
        BY <1>p, <3>1, <4>1
    <3>4. DoneUpTo(proc[p].at + 1, db')
      BY <1>g, <3>2, <3>3, DoneGrows
    <3> QED
      BY <1>2, <3>1, <3>4
  <2> QED
    BY <2>1, <2>2
<1>5. CASE ~Stamp(p) /\ ~RecordVersion(p)
  BY <1>1, <1>5, FileNext
<1> QED
  BY <1>3, <1>4, <1>5

-----------------------------------------------------------------------------
(***************************************************************************)
(* Bootstraps that nobody overlaps.                                        *)
(***************************************************************************)

\* A step of one process ends the solitude of any other that is at work.
LEMMA OthersAreNotAlone ==
    ASSUME TypeOK, AloneInv, NEW p \in Users, NEW q \in Users \ {p}, Progress(p), Bootstrap(p)
    PROVE  Alone(q)'
<1> SUFFICES ASSUME proc'[q].alone, proc'[q].pc \in Working PROVE FALSE
  BY DEF Alone
<1>1. p \in Procs /\ q \in Procs
  BY DEF TypeOK
<1>2. proc[q].pc \in Working /\ proc[q].alone
  BY <1>1, FrameNext DEF Frame
<1>3. CASE Start(p)
  <2>1. q \in Others(p)
    BY <1>2 DEF Others, Users
  <2>2. proc'[q] = [proc[q] EXCEPT !.alone = FALSE]
    BY <1>1, <1>3, <2>1, StartStep
  <2> QED
    BY <1>1, <2>2 DEF TypeOK, ProcOK, Down
<1>4. CASE ~Start(p)
  <2>1. p \in Others(q)
    BY <1>4, OnlyItself DEF Others, Users
  <2>2. Others(q) = {}
    BY <1>2 DEF AloneInv, Alone
  <2> QED
    BY <2>1, <2>2
<1> QED
  BY <1>3, <1>4

\* While nobody else creates, a bootstrap loses no race for a table or an
\* index, and has ever less left to create.
LEMMA CreatingNext ==
    ASSUME TypeOK, NEW p \in Users \ {"migrate"}, Progress(p), Creating(p), Bootstrap(p),
           ~Start(p), proc'[p].pc \in Working
    PROVE  Creating(p)'
<1>p. p \in Procs /\ DOMAIN proc = Procs /\ DOMAIN proc[p] = DOMAIN Down /\ DOMAIN db = DOMAIN Fresh
  BY DEF TypeOK, FileOK, ProcOK
<1>g. Grown
  BY FileNext
<1>m. proc'[p].missing = proc[p].missing
  BY OnlyItself DEF Working
<1>n. proc'[p].pc # "failed" /\ proc'[p].pc # "down"
  BY DEF Working
<1>i. \A t : Indexed(t) => Indexed(t)'
  BY <1>g DEF Grown, Indexed
<1>t. ToSet(ModelTables) \subseteq db.tables \cup Remaining(p)
  BY DEF Creating
<1>x. \A t \in proc[p].missing \ Remaining(p) : Indexed(t)
  BY DEF Creating
<1>c. proc[p].pc \notin {"create", "create_index", "inspect"} =>
        ToSet(ModelColumns) \subseteq
          db.columns \cup (IF proc[p].pc = "columns" THEN proc[p].todo ELSE {})
  BY DEF Creating
<1> USE DEF Go, Fails, Down
<1>1. CASE CreateTable(p)
  <2> DEFINE t == Current(p)
             I == IndexesOf(t)
  <2>1. proc[p].pc = "create" /\ proc[p].todo # {} /\ proc[p].todo \cap db.tables = {}
    BY <1>1 DEF CreateTable, Creating
  <2>2. t \in proc[p].todo /\ t \notin db.tables
    BY <1>p, <2>1, CurrentIsOne
  <2>3. /\ db' = CreateFull(t)
        /\ \/ I = {} /\ proc' = [proc EXCEPT ![p].todo = @ \ {t}]
           \/ proc' = [proc EXCEPT ![p].pc = "create_index", ![p].left = I]
    <3>1. /\ ~(~CanWrite(p) /\ Fails(p))
      BY <1>p, <1>n DEF Fails, Go
    <3> QED
      BY <1>1, <2>2, <3>1, Zenon DEF CreateTable, Current
  <2>4. I \cap db.indexes = {}
    BY <2>2, IndexesAreOf DEF TypeOK, FileOK
  <2>5. db'.tables = db.tables \cup {t} /\ db'.indexes = db.indexes
    <3> HIDE DEF t
    <3> QED
      BY <1>p, <2>3 DEF CreateFull, Fresh
  <2> HIDE DEF t
  <2>6. CASE I = {} /\ proc' = [proc EXCEPT ![p].todo = @ \ {t}]
    <3>1. proc'[p].pc = "create" /\ proc'[p].todo = proc[p].todo \ {t}
      BY <1>p, <2>1, <2>6
    <3>2. Remaining(p) = proc[p].todo /\ Remaining(p)' = proc[p].todo \ {t}
      BY <2>1, <3>1 DEF Remaining
    <3>3. \A u : u = t => Indexed(u)'
      BY <2>6 DEF Indexed
    <3>4. \A u \in proc'[p].missing \ Remaining(p)' : Indexed(u)'
      BY <1>i, <1>m, <1>x, <3>2, <3>3
    <3> QED
      BY <1>t, <2>1, <2>2, <2>5, <3>1, <3>2, <3>4 DEF Creating
  <2>7. CASE proc' = [proc EXCEPT ![p].pc = "create_index", ![p].left = I]
    <3> HIDE DEF I
    <3>1. proc'[p].pc = "create_index" /\ proc'[p].todo = proc[p].todo /\ proc'[p].left = I
      BY <1>p, <2>1, <2>7
    <3>2. Current(p)' = t /\ IndexesOf(Current(p)') = I
      BY <3>1 DEF Current, t, I
    <3>3. Remaining(p) = proc[p].todo /\ Remaining(p)' = proc[p].todo
      BY <2>1, <3>1 DEF Remaining
    <3>4. \A u \in proc'[p].missing \ Remaining(p)' : Indexed(u)'
      BY <1>i, <1>m, <1>x, <3>3
    <3> QED
      BY <1>t, <2>1, <2>2, <2>4, <2>5, <3>1, <3>2, <3>3, <3>4 DEF Creating
  <2> QED
    BY <2>3, <2>6, <2>7
<1>2. CASE CreateIndex(p)
  <2> DEFINE t == Current(p)
             I == IndexesOf(t)
  <2>1. /\ proc[p].pc = "create_index" /\ proc[p].todo \cap db.tables = {t}
        /\ proc[p].left \cap db.indexes = {} /\ I \subseteq db.indexes \cup proc[p].left
    BY <1>2 DEF CreateIndex, Creating
  <2>2. PICK i \in proc[p].left :
          /\ db' = [db EXCEPT !.indexes = @ \union {i}]
          /\ \/ /\ proc[p].left = {i}
                /\ proc' = [proc EXCEPT ![p].pc = "create", ![p].left = {}, ![p].todo = @ \ {t}]
             \/ /\ proc[p].left # {i} /\ proc' = [proc EXCEPT ![p].left = @ \ {i}]
    <3>1. \A i \in proc[p].left : i \notin db.indexes
      BY <2>1
    <3> QED
      BY <1>2, <3>1, Zenon DEF CreateIndex, Current
  <2>3. db'.tables = db.tables /\ db'.indexes = db.indexes \cup {i}
    BY <1>p, <2>2 DEF Fresh
  <2>r. Remaining(p) = proc[p].todo
    BY <2>1 DEF Remaining
  <2> HIDE DEF t, I
  <2>4. CASE /\ proc[p].left = {i}
             /\ proc' = [proc EXCEPT ![p].pc = "create", ![p].left = {}, ![p].todo = @ \ {t}]
    <3>1. proc'[p].pc = "create" /\ proc'[p].todo = proc[p].todo \ {t}
      BY <1>p, <2>4
    <3>2. Remaining(p)' = proc[p].todo \ {t}
      BY <3>1 DEF Remaining
    <3>3. \A u : u = t => Indexed(u)'
      BY <2>1, <2>3, <2>4 DEF Indexed, I
    <3>4. \A u \in proc'[p].missing \ Remaining(p)' : Indexed(u)'
      BY <1>i, <1>m, <1>x, <2>r, <3>2, <3>3
    <3> QED
      BY <1>t, <2>1, <2>3, <2>r, <3>1, <3>2, <3>4 DEF Creating
  <2>5. CASE proc[p].left # {i} /\ proc' = [proc EXCEPT ![p].left = @ \ {i}]
    <3>1. /\ proc'[p].pc = "create_index" /\ proc'[p].todo = proc[p].todo
          /\ proc'[p].left = proc[p].left \ {i}
      BY <1>p, <2>1, <2>5
    <3>2. Current(p)' = t /\ IndexesOf(Current(p)') = I
      BY <3>1 DEF Current, t, I
    <3>3. Remaining(p)' = proc[p].todo
      BY <3>1 DEF Remaining
    <3>4. \A u \in proc'[p].missing \ Remaining(p)' : Indexed(u)'
      BY <1>i, <1>m, <1>x, <2>r, <3>3
    <3>5. proc'[p].left \cap db'.indexes = {} /\ I \subseteq db'.indexes \cup proc'[p].left
      BY <2>1, <2>3, <3>1
    <3> QED
      BY <1>t, <2>1, <2>3, <2>r, <3>1, <3>2, <3>3, <3>4, <3>5 DEF Creating
  <2> QED
    BY <2>2, <2>4, <2>5
\* From here on create_all is over, and what it left stays.
<1>over. ASSUME proc'[p].pc \notin {"create", "create_index"}, Remaining(p) = {},
                proc'[p].pc \notin {"inspect"} =>
                  ToSet(ModelColumns) \subseteq
                    db'.columns \cup (IF proc'[p].pc = "columns" THEN proc'[p].todo ELSE {})
         PROVE  Creating(p)'
  <2>1. Remaining(p)' = {}
    BY <1>over DEF Remaining
  <2>2. ToSet(ModelTables) \subseteq db'.tables
    BY <1>t, <1>g, <1>over DEF Grown
  <2>3. \A u \in proc'[p].missing : Indexed(u)'
    BY <1>i, <1>m, <1>x, <1>over
  <2> QED
    BY <1>over, <2>1, <2>2, <2>3 DEF Creating
<1>3. CASE CreateDone(p)
  <2>1. proc'[p].pc = "inspect" /\ proc[p].todo = {} /\ proc[p].pc = "create"
    BY <1>p, <1>3 DEF CreateDone
  <2> QED
    BY <1>over, <2>1 DEF Remaining
<1>4. CASE Inspect(p)
  <2>1. /\ proc'[p].pc = "columns" /\ db' = db /\ proc[p].pc = "inspect"
        /\ proc'[p].todo = {c \in ToSet(ModelColumns) : c[1] \in db.tables /\ c \notin db.columns}
    BY <1>p, <1>4 DEF Inspect
  <2>2. Remaining(p) = {}
    BY <2>1 DEF Remaining
  <2>3. \A c \in ToSet(ModelColumns) : c[1] \in db.tables
    BY <1>t, <2>2, ModelFacts
  <2> QED
    BY <1>over, <2>1, <2>2, <2>3
<1>5. CASE AddColumn(p)
  <2> DEFINE c == First(ModelColumns, proc[p].todo)
  <2>1. proc[p].pc = "columns" /\ ToSet(ModelColumns) \subseteq db.columns \cup proc[p].todo
    BY <1>5, <1>c DEF AddColumn
  <2>2. /\ proc' = [proc EXCEPT ![p].todo = @ \ {c}]
        /\ (c \in db.columns /\ db' = db) \/ db' = [db EXCEPT !.columns = @ \union {c}]
    <3>1. ~(Go(p, "failed"))
      BY <1>p, <1>n
    <3> QED
      BY <1>5, <3>1 DEF AddColumn
  <2> HIDE DEF c
  <2>3. c \in db'.columns /\ db.columns \subseteq db'.columns
    BY <1>p, <2>2 DEF Fresh
  <2>4. proc'[p].pc = "columns" /\ proc'[p].todo = proc[p].todo \ {c}
    BY <1>p, <2>1, <2>2
  <2>5. Remaining(p) = {}
    BY <2>1 DEF Remaining
  <2> QED
    BY <1>over, <2>1, <2>3, <2>4, <2>5
<1>6. CASE ColumnsDone(p)
  <2>1. proc'[p].pc = "tables" /\ db' = db /\ proc[p].todo = {} /\ proc[p].pc = "columns"
    BY <1>p, <1>6 DEF ColumnsDone
  <2> QED
    BY <1>over, <1>c, <2>1 DEF Remaining
<1>7. CASE \/ ReadTables(p) \/ ReadHeads(p) \/ LookForVersions(p) \/ CreateVersions(p) \/ Stamp(p)
           \/ PlanUpgrade(p) \/ RunStatement(p) \/ AlterTable(p) \/ RecordVersion(p)
           \/ UpgradeDone(p) \/ Relax(p)
  <2> DEFINE Late == {"tables", "heads", "look", "version_table", "steps", "upgrade", "alter", "relax"}
  <2>1. proc[p].pc \in Late
    BY <1>7, Zenon DEF ReadTables, ReadHeads, LookForVersions, CreateVersions, Stamp, PlanUpgrade,
                RunStatement, AlterTable, RecordVersion, UpgradeDone, Relax
  <2>2. proc'[p].pc \notin {"create", "create_index", "inspect", "columns"}
    <3>1. CASE ReadTables(p) \/ ReadHeads(p) \/ LookForVersions(p) \/ CreateVersions(p)
      BY <1>p, <3>1 DEF ReadTables, ReadHeads, LookForVersions, CreateVersions
    <3>2. CASE Stamp(p) \/ PlanUpgrade(p)
      BY <1>p, <3>2, StampIs, PlanIs
    <3>3. CASE RunStatement(p) \/ AlterTable(p)
      BY <1>p, <3>3 DEF RunStatement, AlterTable, StatementDone
    <3>4. CASE RecordVersion(p) \/ UpgradeDone(p) \/ Relax(p)
      BY <1>p, <3>4 DEF RecordVersion, UpgradeDone, Relax
    <3> QED
      BY <1>7, <3>1, <3>2, <3>3, <3>4
  <2>3. ToSet(ModelColumns) \subseteq db'.columns
    BY <1>c, <1>g, <2>1 DEF Grown
  <2>4. Remaining(p) = {}
    BY <2>1 DEF Remaining
  <2> QED
    BY <1>over, <2>2, <2>3, <2>4
<1>8. CASE Crash(p)
  BY <1>p, <1>n, <1>8 DEF Crash
<1> QED
  BY <1>1, <1>2, <1>3, <1>4, <1>5, <1>6, <1>7, <1>8 DEF Bootstrap

\* While nobody else migrates, the version a bootstrap read is the file's.
LEMMA MigratingNext ==
    ASSUME TypeOK, NEW p \in Users \ {"migrate"}, Progress(p), Migrating(p), Bootstrap(p),
           ~Start(p), proc'[p].pc \in Working
    PROVE  Migrating(p)'
<1>p. /\ p \in Procs /\ DOMAIN proc = Procs /\ DOMAIN proc[p] = DOMAIN Down
      /\ DOMAIN db = DOMAIN Fresh /\ Latest = 12 /\ proc[p].at \in 0..12
      /\ proc[p].heads \subseteq 1..12
  BY RevisionFacts DEF TypeOK, FileOK, ProcOK
<1>n. proc'[p].pc # "failed" /\ proc'[p].pc # "down"
  BY DEF Working
<1>v. ~Stamp(p) /\ ~RecordVersion(p) => db'.versions = db.versions
  BY FileNext
<1> USE DEF Go, Fails, Down
<1>1. CASE \/ CreateTable(p) \/ CreateIndex(p) \/ CreateDone(p) \/ Inspect(p) \/ AddColumn(p)
           \/ ColumnsDone(p) \/ ReadTables(p)
  <2>1. proc'[p].pc \in {"create", "create_index", "inspect", "columns", "tables", "heads"}
    BY <1>p, <1>n, <1>1 DEF CreateTable, CreateIndex, CreateDone, Inspect, AddColumn, ColumnsDone,
                            ReadTables, LoseRace
  <2> QED
    BY <2>1 DEF Migrating
<1>2. CASE ReadHeads(p)
  <2>1. /\ proc'[p].heads = db.versions /\ db' = db /\ proc'[p].pc \in {"look", "steps"}
    BY <1>p, <1>2 DEF ReadHeads
  <2> QED
    BY <2>1 DEF Migrating
<1>3. CASE LookForVersions(p)
  <2>1. /\ proc[p].pc = "look" /\ proc'[p].heads = proc[p].heads /\ db' = db
        /\ proc'[p].pc = IF VersionTable \in db.tables THEN "steps" ELSE "version_table"
    BY <1>p, <1>3 DEF LookForVersions
  <2> QED
    BY <2>1 DEF Migrating
<1>4. CASE CreateVersions(p)
  <2>1. /\ proc[p].pc = "version_table" /\ proc'[p].heads = proc[p].heads /\ proc'[p].pc = "steps"
    BY <1>p, <1>n, <1>4 DEF CreateVersions
  <2>2. ~Stamp(p) /\ ~RecordVersion(p)
    BY <2>1 DEF Stamp, RecordVersion
  <2> QED
    BY <1>v, <2>1, <2>2 DEF Migrating
<1>5. CASE Stamp(p)
  <2>1. proc'[p].pc = "heads"
    BY <1>p, <1>n, <1>5, StampIs
  <2> QED
    BY <2>1 DEF Migrating
<1>6. CASE PlanUpgrade(p)
  <2>1. /\ db' = db /\ proc[p].pc = "steps" /\ proc'[p].pc = "upgrade"
        /\ \/ proc[p].heads = {} /\ proc'[p].at = 0
           \/ \E v \in proc[p].heads : proc[p].heads = {v} /\ proc'[p].at = v
    BY <1>p, <1>n, <1>6, PlanIs
  <2>2. db.versions = proc[p].heads
    BY <2>1 DEF Migrating
  <2>3. proc[p].heads = {proc'[p].at} \ {0}
    BY <1>p, <2>1
  <2> QED
    BY <2>1, <2>2, <2>3 DEF Migrating
<1>7. CASE RunStatement(p)
  <2> DEFINE s == NextStatement(p)
  <2>1. /\ proc[p].pc = "upgrade"
        /\ \/ proc' = StatementDone(p)
           \/ ~Has(s) /\ Go(p, "alter") /\ UNCHANGED db
    <3>1. ~Fails(p)
      BY <1>p, <1>n
    <3> QED
      BY <1>7, <3>1 DEF RunStatement
  <2>2. db'.versions = db.versions
    BY <1>v, <2>1, <1>7 DEF Stamp, RecordVersion, RunStatement
  <2>3. CASE proc' = StatementDone(p)
    <3>1. proc'[p].pc = "upgrade" /\ proc'[p].at = proc[p].at
      BY <1>p, <2>3 DEF StatementDone
    <3> QED
      BY <2>1, <2>2, <3>1 DEF Migrating
  <2>4. CASE ~Has(s) /\ Go(p, "alter") /\ UNCHANGED db
    <3>1. proc'[p].pc = "alter" /\ proc'[p].at = proc[p].at /\ proc'[p].stmt = proc[p].stmt
      BY <1>p, <2>4
    <3>2. NextStatement(p)' = s
      BY <3>1 DEF NextStatement, Statements
    <3>3. ~Has(NextStatement(p))'
      BY <2>4, <3>2 DEF Has
    <3> QED
      BY <2>1, <2>2, <3>1, <3>3 DEF Migrating
  <2> QED
    BY <2>1, <2>3, <2>4
<1>8. CASE AlterTable(p)
  <2>1. /\ proc[p].pc = "alter" /\ proc'[p].pc = "upgrade" /\ proc'[p].at = proc[p].at
    BY <1>p, <1>n, <1>8 DEF AlterTable, StatementDone
  <2>2. db'.versions = db.versions
    BY <1>v, <2>1 DEF Stamp, RecordVersion
  <2> QED
    BY <2>1, <2>2 DEF Migrating
<1>9. CASE RecordVersion(p)
  <2>1. /\ proc[p].pc = "upgrade" /\ Records({proc[p].at} \ {0}, proc[p].at + 1)
        /\ proc'[p].pc = "upgrade" /\ proc'[p].at = proc[p].at + 1
    BY <1>p, <1>n, <1>9 DEF RecordVersion
  <2>2. db'.versions = (db.versions \ ({proc[p].at} \ {0})) \cup {proc[p].at + 1}
    BY <1>p, <2>1 DEF Records, Fresh
  <2>3. db.versions = {proc[p].at} \ {0}
    BY <2>1 DEF Migrating
  <2>4. db'.versions = {proc'[p].at} /\ proc'[p].at # 0
    BY <1>p, <2>1, <2>2, <2>3
  <2>5. db'.versions = {proc'[p].at} \ {0}
    BY <2>4
  <2> QED
    BY <2>1, <2>5 DEF Migrating
<1>10. CASE UpgradeDone(p)
  <2>1. proc[p].pc = "upgrade" /\ proc'[p].pc = "relax" /\ db' = db /\ proc[p].at = 12
    BY <1>p, <1>10 DEF UpgradeDone
  <2>2. db.versions = {12}
    BY <2>1 DEF Migrating
  <2> QED
    BY <1>p, <2>1, <2>2 DEF Migrating
<1>11. CASE Relax(p) \/ Crash(p)
  BY <1>p, <1>n, <1>11 DEF Relax, Crash, Working
<1> QED
  BY <1>1, <1>2, <1>3, <1>4, <1>5, <1>6, <1>7, <1>8, <1>9, <1>10, <1>11 DEF Bootstrap

\* A bootstrap that stays alone has ever less left.
LEMMA AloneNext ==
    ASSUME TypeOK, AloneInv, NEW p \in Users, Progress(p), Bootstrap(p)
    PROVE  Alone(p)'
<1> SUFFICES ASSUME proc'[p].alone, proc'[p].pc \in Working PROVE Alone(p)'
  BY DEF Alone
<1>g. Users' = Users /\ \A q \in Procs \ {p} : proc'[q].pc = proc[q].pc
  BY FrameNext DEF Frame, Users
<1>others. Others(p)' = Others(p)
  BY <1>g DEF Others, Users, TypeOK
<1>1. CASE Start(p)
  <2>1. /\ Others(p) = {} /\ proc'[p].todo = CreateAll(p) /\ proc'[p].missing = CreateAll(p)
        /\ proc'[p].pc = IF p = "migrate" THEN "tables" ELSE "create"
        /\ db'.tables = db.tables
    BY <1>1, StartStep
  <2>2. CASE p = "migrate"
    BY <1>others, <2>1, <2>2 DEF Alone
  <2>3. CASE p # "migrate"
    <3>1. /\ proc'[p].pc = "create" /\ proc'[p].todo = ToSet(ModelTables) \ db'.tables
          /\ proc'[p].missing = proc'[p].todo
      BY <2>1, <2>3 DEF CreateAll
    <3>2. Remaining(p)' = proc'[p].todo
      BY <3>1 DEF Remaining
    <3>3. Creating(p)'
      BY <3>1, <3>2 DEF Creating
    <3>4. Migrating(p)'
      BY <3>1 DEF Migrating
    <3> QED
      BY <1>others, <2>1, <3>3, <3>4 DEF Alone
  <2> QED
    BY <2>2, <2>3
<1>2. CASE ~Start(p)
  <2>1. proc[p].alone /\ proc[p].pc \in Working
    BY <1>2, OnlyItself DEF Working
  <2>2. Others(p) = {} /\ (p # "migrate" => Creating(p) /\ Migrating(p))
    BY <2>1 DEF AloneInv, Alone
  <2>3. p # "migrate" => Creating(p)' /\ Migrating(p)'
    BY <1>2, <2>2, CreatingNext, MigratingNext
  <2> QED
    BY <1>others, <2>2, <2>3 DEF Alone
<1> QED
  BY <1>1, <1>2

\* A bootstrap that stayed alone fails only on a file of somebody else's, or on
\* one that holds two rows of version.
LEMMA LoneFailure ==
    ASSUME TypeOK, NEW p \in Users \ {"migrate"}, Progress(p), Creating(p), Migrating(p),
           Bootstrap(p), ~Start(p), proc'[p].pc = "failed", Owns(p)
    PROVE  TwoRows /\ db' = db
<1>p. /\ p \in Procs /\ DOMAIN proc = Procs /\ DOMAIN proc[p] = DOMAIN Down
      /\ proc[p].pc \in Working
  BY OnlyItself DEF TypeOK, ProcOK
<1>w. CanWrite(p)
  BY DEF CanWrite
<1> USE DEF Go, Down
<1>0. proc[p].pc # "failed" /\ proc' # proc
  BY <1>p DEF Working
<1>1. CASE CreateTable(p)
  <2> DEFINE t == Current(p)
  <2>1. /\ proc[p].pc = "create" /\ proc[p].todo # {} /\ proc[p].todo \cap db.tables = {}
    BY <1>1 DEF CreateTable, Creating
  <2>2. t \notin db.tables
    BY <1>p, <2>1, CurrentIsOne
  <2>3. \/ proc' = [proc EXCEPT ![p].todo = @ \ {t}]
        \/ proc' = [proc EXCEPT ![p].pc = "create_index", ![p].left = IndexesOf(t)]
    BY <1>1, <1>w, <2>2, Zenon DEF CreateTable, Current
  <2> DEFINE I == IndexesOf(t)
  <2>4. \/ proc' = [proc EXCEPT ![p].todo = @ \ {t}]
        \/ proc' = [proc EXCEPT ![p].pc = "create_index", ![p].left = I]
    BY <2>3
  <2> HIDE DEF t, I
  <2>5. proc'[p].pc \in {"create", "create_index"}
    BY <1>p, <2>1, <2>4
  <2> QED
    BY <2>5
<1>2. CASE \/ CreateIndex(p) \/ CreateDone(p) \/ Inspect(p) \/ ColumnsDone(p) \/ ReadTables(p)
           \/ ReadHeads(p) \/ LookForVersions(p) \/ UpgradeDone(p) \/ Relax(p) \/ Crash(p)
  <2>1. proc'[p].pc # "failed"
    BY <1>0, <1>p, <1>2 DEF CreateIndex, CreateDone, Inspect, ColumnsDone, ReadTables, ReadHeads,
          LookForVersions, UpgradeDone, Relax, Crash, LoseRace
  <2> QED
    BY <2>1
<1>3. CASE AddColumn(p)
  <2>1. proc[p].pc = "columns" /\ \E c : proc' = [proc EXCEPT ![p].todo = @ \ {c}]
    BY <1>3, <1>w, Zenon DEF AddColumn
  <2>2. proc'[p].pc = "columns"
    BY <1>p, <2>1
  <2> QED
    BY <2>2
<1>4. CASE CreateVersions(p)
  <2>1. proc[p].pc = "version_table" /\ VersionTable \notin db.tables
    BY <1>4 DEF CreateVersions, Migrating
  <2>2. proc' = [proc EXCEPT ![p].pc = "steps"]
    BY <1>4, <1>w, <2>1 DEF CreateVersions
  <2> QED
    BY <1>p, <2>2
<1>5. CASE Stamp(p)
  <2>1. proc[p].pc = "steps" /\ 1 \notin proc[p].heads /\ ~Recordable(p, proc[p].heads, 1)
    BY <1>p, <1>5, StampIs
  <2>2. proc[p].heads = db.versions
    BY <2>1 DEF Migrating
  <2> QED
    BY <1>w, <2>1, <2>2 DEF Recordable
<1>6. CASE PlanUpgrade(p)
  <2>1. db' = db /\ proc[p].pc = "steps" /\ \E v, w \in proc[p].heads : v # w
    BY <1>p, <1>6, PlanIs
  <2>2. proc[p].heads = db.versions
    BY <2>1 DEF Migrating
  <2> QED
    BY <2>1, <2>2 DEF TwoRows
<1>7. CASE RunStatement(p)
  <2> DEFINE s == NextStatement(p)
  <2>1. proc[p].pc = "upgrade" /\ Pending(p)
    BY <1>7 DEF RunStatement
  <2>2. s.on[1] \in ToSet(ModelTables)
    BY <1>p, <2>1, PendingStatement, ModelFacts DEF IsStatement
  <2>3. Possible(s)
    <3>1. Remaining(p) = {}
      BY <2>1 DEF Remaining
    <3>2. ToSet(ModelTables) \subseteq db.tables
      BY <3>1 DEF Creating
    <3> QED
      BY <2>2, <3>2 DEF Possible
  <2>4. proc' = StatementDone(p) \/ proc' = [proc EXCEPT ![p].pc = "alter"]
    BY <1>7, <1>w, <2>3, Zenon DEF RunStatement, Go
  <2>5. proc'[p].pc \in {"upgrade", "alter"}
    BY <1>p, <2>4 DEF StatementDone
  <2> QED
    BY <2>5
<1>8. CASE AlterTable(p)
  <2>1. proc[p].pc = "alter" /\ ~Has(NextStatement(p))
    BY <1>8 DEF AlterTable, Migrating
  <2>2. proc' = StatementDone(p)
    BY <1>8, <1>w, <2>1 DEF AlterTable
  <2>3. proc'[p].pc = "upgrade"
    BY <1>p, <2>2 DEF StatementDone
  <2> QED
    BY <2>3
<1>9. CASE RecordVersion(p)
  <2>1. proc[p].pc = "upgrade" /\ proc[p].at \in 0..12
    BY <1>9, <1>p, RevisionFacts DEF RecordVersion, TypeOK, ProcOK
  <2>2. db.versions = {proc[p].at} \ {0}
    BY <2>1 DEF Migrating
  <2>3. proc[p].at + 1 \notin db.versions
    BY <2>1, <2>2
  <2>4. Recordable(p, {proc[p].at} \ {0}, proc[p].at + 1)
    BY <1>w, <2>2, <2>3 DEF Recordable
  <2>5. proc' = [proc EXCEPT ![p].at = @ + 1, ![p].stmt = 1]
    BY <1>9, <2>4 DEF RecordVersion
  <2>6. proc'[p].pc = "upgrade"
    BY <1>p, <2>1, <2>5
  <2> QED
    BY <2>6
<1> QED
  BY <1>1, <1>2, <1>3, <1>4, <1>5, <1>6, <1>7, <1>8, <1>9 DEF Bootstrap

\* Only the last step is a success.
LEMMA OnlyRelaxSucceeds ==
    ASSUME TypeOK, NEW p \in Users \ {"migrate"}, Bootstrap(p), proc'[p].pc = "ready"
    PROVE  Relax(p)
<1>p. /\ p \in Procs /\ DOMAIN proc = Procs /\ DOMAIN proc[p] = DOMAIN Down
  BY DEF TypeOK, ProcOK
<1>w. ~Start(p) => proc[p].pc \in Working
  BY OnlyItself
<1> USE DEF Go, Fails, Down, Working
<1>1. CASE Start(p)
  BY <1>1, StartStep
<1>2. CASE CreateTable(p) \/ CreateIndex(p) \/ CreateDone(p)
  BY <1>p, <1>2 DEF CreateTable, CreateIndex, CreateDone, LoseRace
<1>3. CASE Inspect(p) \/ AddColumn(p) \/ ColumnsDone(p)
  BY <1>p, <1>3 DEF Inspect, AddColumn, ColumnsDone
<1>4. CASE ReadTables(p) \/ ReadHeads(p) \/ LookForVersions(p) \/ CreateVersions(p)
  BY <1>p, <1>4 DEF ReadTables, ReadHeads, LookForVersions, CreateVersions
<1>5. CASE Stamp(p) \/ PlanUpgrade(p)
  BY <1>p, <1>5, StampIs, PlanIs
<1>6. CASE RunStatement(p) \/ AlterTable(p)
  BY <1>p, <1>6 DEF RunStatement, AlterTable, StatementDone
<1>7. CASE RecordVersion(p) \/ Crash(p)
  BY <1>p, <1>7 DEF RecordVersion, Crash
<1>8. CASE UpgradeDone(p)
  BY <1>p, <1>8 DEF UpgradeDone
<1> QED
  BY <1>1, <1>2, <1>3, <1>4, <1>5, <1>6, <1>7, <1>8 DEF Bootstrap

\* In a settled file nobody writes a version: there is none to stamp and none
\* to record.
LEMMA SettledNext ==
    ASSUME TypeOK, Settled, NEW p \in Users, Progress(p), Bootstrap(p)
    PROVE  Settled' /\ db'.versions = db.versions
<1>p. /\ p \in Procs /\ DOMAIN proc = Procs /\ DOMAIN proc[p] = DOMAIN Down /\ Latest = 12
  BY RevisionFacts DEF TypeOK, ProcOK
<1>s. VersionTable \in db.tables /\ (db.versions = {Latest} \/ TwoRows) /\ SettledAt(p)
  BY DEF Settled
<1>g. /\ Grown /\ Users' = Users
      /\ \A q \in Procs \ {p} : /\ proc'[q].pc = proc[q].pc /\ proc'[q].at = proc[q].at
                                /\ proc'[q].command = proc[q].command
                                /\ proc'[q].heads = proc[q].heads
  BY FrameNext DEF Frame, Users
<1>1. ~Stamp(p) /\ ~RecordVersion(p)
  <2>1. ~(Latest < Latest)
    BY <1>p
  <2> QED
    BY <1>s, <2>1 DEF SettledAt, Stamp, RecordVersion
<1>2. db'.versions = db.versions
  BY <1>1, FileNext
<1>3. SettledAt(p)'
  <2> USE DEF Go, Fails, Down
  <2>0. ASSUME proc'[p].pc \notin {"look", "version_table", "heads", "steps", "upgrade", "alter"}
        PROVE  SettledAt(p)'
    BY <2>0 DEF SettledAt
  <2>1. CASE Start(p)
    BY <2>0, <2>1, StartStep
  <2>2. CASE \/ CreateTable(p) \/ CreateIndex(p) \/ CreateDone(p) \/ Inspect(p) \/ AddColumn(p)
             \/ ColumnsDone(p)
    <3>1. proc'[p].pc \in {"create", "create_index", "inspect", "columns", "tables", "failed"}
      BY <1>p, <2>2 DEF CreateTable, CreateIndex, CreateDone, Inspect, AddColumn, ColumnsDone, LoseRace
    <3> QED
      BY <2>0, <3>1
  <2>3. CASE ReadTables(p)
    <3>1. proc'[p].pc = "heads" /\ proc'[p].command = "upgrade"
      BY <1>p, <1>s, <2>3 DEF ReadTables
    <3> QED
      BY <3>1 DEF SettledAt
  <2>4. CASE ReadHeads(p)
    <3>1. db.versions # {}
      BY <1>s DEF TwoRows
    <3>2. /\ proc'[p].pc = "steps" /\ proc'[p].command = proc[p].command
          /\ proc'[p].heads = db.versions /\ proc[p].pc = "heads"
      BY <1>p, <2>4, <3>1 DEF ReadHeads
    <3> QED
      BY <1>s, <1>2, <3>2 DEF SettledAt
  <2>5. CASE LookForVersions(p) \/ CreateVersions(p)
    BY <1>s, <2>5 DEF SettledAt, LookForVersions, CreateVersions
  <2>6. CASE PlanUpgrade(p)
    <3>1. /\ proc[p].pc = "steps"
          /\ \/ /\ proc'[p].pc = "upgrade"
                /\ \/ proc[p].heads = {}
                   \/ \E v \in proc[p].heads : proc[p].heads = {v} /\ proc'[p].at = v
             \/ proc'[p].pc = "failed"
      BY <1>p, <2>6, PlanIs
    <3>2. proc[p].heads = db.versions
      BY <1>s, <3>1 DEF SettledAt
    <3>3. proc'[p].pc = "upgrade" => proc'[p].at = Latest
      BY <1>s, <3>1, <3>2 DEF TwoRows
    <3> QED
      BY <3>1, <3>3 DEF SettledAt
  <2>7. CASE RunStatement(p) \/ AlterTable(p)
    <3>1. proc[p].pc \in {"upgrade", "alter"}
          /\ proc'[p].pc \in {"upgrade", "alter", "failed"} /\ proc'[p].at = proc[p].at
      BY <1>p, <2>7 DEF RunStatement, AlterTable, StatementDone
    <3> QED
      BY <1>s, <3>1 DEF SettledAt
  <2>8. CASE UpgradeDone(p) \/ Relax(p) \/ Crash(p)
    <3>1. proc'[p].pc \in {"ready", "relax", "down"}
      BY <1>p, <2>8 DEF UpgradeDone, Relax, Crash
    <3> QED
      BY <2>0, <3>1
  <2> QED
    BY <1>1, <2>1, <2>2, <2>3, <2>4, <2>5, <2>6, <2>7, <2>8 DEF Bootstrap
<1>4. ASSUME NEW q \in Users PROVE SettledAt(q)'
  <2>1. CASE q = p
    BY <1>3, <2>1
  <2>2. CASE q # p
    <3>1. SettledAt(q) /\ q \in Procs
      BY DEF Settled, TypeOK
    <3> QED
      BY <1>g, <1>2, <2>2, <3>1 DEF SettledAt
  <2> QED
    BY <2>1, <2>2
<1> QED
  BY <1>g, <1>s, <1>2, <1>4 DEF Settled, TwoRows, Grown

\* A bootstrap that stayed alone to its end leaves a settled file: its own
\* success the whole schema, its failure what it found.
LEMMA EndsWell ==
    ASSUME TypeOK, AloneInv, NEW p \in Users \ {"migrate"}, Progress(p), Bootstrap(p)
    PROVE  EndedWell(p)'
<1> SUFFICES ASSUME Ended(p)' PROVE EndedWell(p)'
  BY DEF EndedWell
<1>p. p \in Procs /\ Latest \in 0..Latest /\ DOMAIN db = DOMAIN Fresh
  BY RevisionFacts DEF TypeOK, FileOK
<1>g. /\ Grown /\ Users' = Users /\ deployment' = deployment
      /\ \A q \in Procs \ {p} : proc'[q].pc = proc[q].pc
  BY FrameNext DEF Frame, Users
<1>0. ~Start(p)
  BY StartStep DEF Ended
<1>1. /\ proc[p].alone /\ proc[p].pc \in Working /\ proc'[p].missing = proc[p].missing
      /\ db'.owner = db.owner
  BY <1>0, OnlyItself, FileNext DEF Ended
<1>2. Others(p) = {} /\ Creating(p) /\ Migrating(p)
  BY <1>1 DEF AloneInv, Alone
<1>3. \A q \in Users : proc'[q].pc \notin Working
  <2> TAKE q \in Users
  <2>1. CASE q = p
    BY <2>1 DEF Ended, Working
  <2>2. CASE q # p
    BY <1>g, <1>2, <2>2 DEF Others, Users, TypeOK
  <2> QED
    BY <2>1, <2>2
<1>4. \A q \in Users : SettledAt(q)'
  BY <1>3 DEF SettledAt, Working
<1>5. CASE proc'[p].pc = "ready"
  <2>1. Relax(p)
    BY <1>5, OnlyRelaxSucceeds
  <2>2. proc[p].pc = "relax" /\ db' = [db EXCEPT !.shared = @ \/ Owns(p)]
    BY <2>1 DEF Relax
  <2>3. db'.versions = {Latest} /\ db'.tables = db.tables
    BY <1>p, <1>2, <2>2 DEF Migrating, Fresh
  <2>4. VersionTable \in db'.tables
    BY <2>3, FrameNext DEF TypeOK, FileOK
  <2>5. Remaining(p) = {}
    BY <2>2 DEF Remaining
  <2>6. /\ ToSet(ModelTables) \subseteq db'.tables /\ ToSet(ModelColumns) \subseteq db'.columns
        /\ \A t \in proc'[p].missing : Indexed(t)'
    BY <1>g, <1>1, <1>2, <2>2, <2>5 DEF Creating, Grown, Indexed
  <2>7. DoneUpTo(Latest, db')
    BY <1>p, <1>g, <2>2, DoneGrows DEF Progress
  <2>8. Settled' /\ Served'
    BY <1>g, <1>4, <2>3, <2>4, <2>6, <2>7 DEF Settled, Served
  <2> QED
    BY <1>5, <2>6, <2>8 DEF EndedWell
<1>6. CASE proc'[p].pc = "failed"
  <2>1. Owns(p)
    BY <1>g, <1>1, <1>6 DEF Ended, Owns, User
  <2>2. TwoRows /\ db' = db
    BY <1>0, <1>2, <1>6, <2>1, LoneFailure
  <2>3. VersionTable \in db.tables
    BY <2>2 DEF TwoRows, TypeOK, FileOK
  <2>4. Settled' /\ TwoRows'
    BY <1>g, <1>4, <2>2, <2>3 DEF Settled, TwoRows
  <2> QED
    BY <1>6, <2>4 DEF EndedWell
<1> QED
  BY <1>5, <1>6 DEF Ended

\* What a bootstrap left stays as it left it, whoever runs later.
LEMMA EndedNext ==
    ASSUME TypeOK, AloneInv, EndedInv, NEW p \in Users, Progress(p), Bootstrap(p),
           NEW q \in Users \ {"migrate"}
    PROVE  EndedWell(q)'
<1>1. CASE q = p
  BY <1>1, EndsWell
<1>2. CASE q # p
  <2> SUFFICES ASSUME Ended(q)' PROVE EndedWell(q)'
    BY DEF EndedWell
  <2>p. p \in Procs /\ q \in Procs /\ Latest \in 0..Latest
    BY RevisionFacts DEF TypeOK
  <2>1. /\ Grown /\ deployment' = deployment /\ (db.owner # "nobody" => db'.owner = db.owner)
        /\ proc'[q].pc = proc[q].pc /\ proc'[q].missing = proc[q].missing
        /\ proc'[q].alone => proc[q].alone
    BY <1>2, <2>p, FrameNext DEF Frame
  <2>2. proc[q].alone /\ proc[q].pc \in {"ready", "failed"}
    BY <2>1 DEF Ended
  <2>3. db'.owner = db.owner
    BY <2>p, <2>1, <2>2 DEF TypeOK, ProcOK
  <2>4. Ended(q)
    BY <2>1, <2>2, <2>3 DEF Ended, Owns, User
  <2>5. /\ Settled /\ (proc[q].pc = "failed" => TwoRows)
        /\ proc[q].pc = "ready" => Served /\ \A t \in proc[q].missing : Indexed(t)
    BY <2>4 DEF EndedInv, EndedWell
  <2>6. Settled' /\ db'.versions = db.versions
    BY <2>5, SettledNext
  <2>7. proc[q].pc = "ready" => Served' /\ \A t \in proc[q].missing : Indexed(t)'
    <3> SUFFICES ASSUME proc[q].pc = "ready"
                 PROVE  Served' /\ \A t \in proc[q].missing : Indexed(t)'
      OBVIOUS
    <3>1. Served /\ DoneUpTo(Latest, db)
      BY <2>5 DEF Served
    <3>2. DoneUpTo(Latest, db')
      BY <2>p, <2>1, <3>1, DoneGrows
    <3>3. Served'
      BY <2>1, <2>6, <3>1, <3>2 DEF Served, Grown
    <3> QED
      BY <2>1, <2>5, <3>3 DEF Indexed, Grown
  <2>8. proc[q].pc = "failed" => TwoRows'
    BY <2>5, <2>6 DEF TwoRows
  <2> QED
    BY <2>1, <2>6, <2>7, <2>8 DEF EndedWell
<1> QED
  BY <1>1, <1>2

-----------------------------------------------------------------------------
(***************************************************************************)
(* The theorems on the bootstrap.                                          *)
(***************************************************************************)

\* However the bootstraps interleave and wherever they are killed, each has
\* done what it is past, and an undisturbed one has nothing left behind.
THEOREM Invariance == SchemaSpec => []IInv
<1>1. SchemaInit => IInv
  <2> SUFFICES ASSUME SchemaInit PROVE IInv
    OBVIOUS
  <2>1. PICK i \in Instances : deployment = i.deployment /\ db = i.db
    BY DEF SchemaInit
  <2>2. /\ Users \subseteq Procs /\ (\A p \in Users : User(p) # "nobody") /\ FileOK
        /\ VersionIsEarned
    BY <2>1, InstancesAssumption DEF Users, User, FileOK, VersionIsEarned
  <2>3. \A p \in Procs : proc[p] = Down
    BY DEF SchemaInit
  <2>4. TypeOK
    <3>1. 0 \in 0..Latest /\ DOMAIN proc = Procs
      BY RevisionFacts DEF SchemaInit
    <3>2. ASSUME NEW p \in Procs PROVE ProcOK(p)
      <4>1. proc[p] = Down
        BY <2>3
      <4>2. /\ Down.pc \in Working \cup {"down", "ready", "failed"} /\ Down.pc = "down"
            /\ Down.at \in 0..Latest /\ Down.stmt \in Nat \ {0} /\ Down.alone \in BOOLEAN
            /\ Down.heads = {}
        BY <3>1 DEF Down
      <4> QED
        BY <4>1, <4>2 DEF ProcOK
    <3> QED
      BY <2>2, <3>1, <3>2 DEF TypeOK
  <2>5. \A p \in Procs : proc[p].pc = "down" /\ p \in Procs
    BY <2>3 DEF Down
  <2>6. ProgressInv
    BY <2>5 DEF ProgressInv, Progress, Remaining
  <2>7. AloneInv /\ EndedInv
    BY <2>2, <2>5 DEF AloneInv, Alone, EndedInv, EndedWell, Ended, Working
  <2> QED
    BY <2>2, <2>4, <2>6, <2>7 DEF IInv
<1>2. IInv /\ [SchemaNext]_schemaVars => IInv'
  <2> SUFFICES ASSUME IInv, [SchemaNext]_schemaVars PROVE IInv'
    OBVIOUS
  <2>1. CASE UNCHANGED schemaVars
    BY <2>1 DEF schemaVars, IInv, TypeOK, FileOK, ProcOK, Users, User, VersionIsEarned, DoneUpTo,
                ProgressInv, Progress, Remaining, Current, Statements, NextStatement, Pending, Has,
                AloneInv, Alone, Creating, Migrating, Indexed, Others, EndedInv, EndedWell, Ended,
                Settled, SettledAt, TwoRows, Served, Owns
  <2>2. ASSUME NEW p \in Users, Bootstrap(p) PROVE IInv'
    <3>1. TypeOK /\ VersionIsEarned /\ AloneInv /\ EndedInv /\ p \in Procs
          /\ \A q \in Procs : Progress(q)
      BY DEF IInv, TypeOK, ProgressInv
    <3>2. TypeOK' /\ Frame(p) /\ Users' = Users
      BY <2>2, <3>1, FrameNext DEF Frame, Users
    <3>3. VersionIsEarned'
      BY <2>2, <3>1, VersionNext
    <3>4. ASSUME NEW q \in Procs PROVE Progress(q)'
      <4>1. CASE q = p
        BY <2>2, <3>1, <4>1, ProgressNext
      <4>2. CASE q # p
        BY <3>1, <3>2, <4>2, ProgressStays DEF Frame
      <4> QED
        BY <4>1, <4>2
    <3>5. ASSUME NEW q \in Users PROVE Alone(q)'
      <4>1. CASE q = p
        BY <2>2, <3>1, <4>1, AloneNext
      <4>2. CASE q # p
        BY <2>2, <3>1, <4>2, OthersAreNotAlone
      <4> QED
        BY <4>1, <4>2
    <3>6. \A q \in Users \ {"migrate"} : EndedWell(q)'
      BY <2>2, <3>1, EndedNext
    <3>7. ProgressInv'
      BY <3>4 DEF ProgressInv
    <3>8. AloneInv' /\ EndedInv'
      BY <3>2, <3>5, <3>6 DEF AloneInv, EndedInv
    <3> QED
      BY <3>2, <3>3, <3>7, <3>8 DEF IInv
  <2> QED
    BY <2>1, <2>2 DEF SchemaNext, Users
<1> QED
  BY <1>1, <1>2, PTL DEF SchemaSpec

\* The recorded version never promises a revision that is not all in the file.
THEOREM VersionCorrect == SchemaSpec => []VersionIsEarned
<1>1. IInv => VersionIsEarned
  BY DEF IInv
<1> QED
  BY <1>1, Invariance, PTL

\* Whoever reports success, even after losing a race, serves a file in which
\* every revision is done.
THEOREM ReadyCorrect == SchemaSpec => []ReadyHasRevisions
<1>1. IInv => ReadyHasRevisions
  BY DEF IInv, TypeOK, ProgressInv, Progress, ReadyHasRevisions, Users
<1> QED
  BY <1>1, Invariance, PTL

\* A bootstrap that nobody overlapped ends with every table, column and revision
\* and the indexes of every table it found missing, whatever file it found and
\* whoever runs later, unless the file is another user's or holds two versions.
THEOREM AloneCorrect == SchemaSpec => []AloneCompletes
<1>1. IInv => AloneCompletes
  BY DEF IInv, EndedInv, EndedWell, Ended, TwoRows, AloneCompletes, Users
<1> QED
  BY <1>1, Invariance, PTL

\* Launching the product, whatever becomes of the hosts file and the port,
\* takes no step with the schema but a bootstrap's.
THEOREM LaunchIsBootstrap == LaunchSpec => SchemaSpec
<1>1. LaunchInit => SchemaInit
  BY DEF LaunchInit
<1>2. [LaunchNext]_launchVars => [SchemaNext]_schemaVars
  BY DEF LaunchNext, launchVars, Bootstraps, BeginServing, HostsNotice, Bind, Quit,
         HostsCommand, HostsActivity
<1> QED
  BY <1>1, <1>2, PTL DEF LaunchSpec, SchemaSpec

\* The three promises of the bootstrap hold of the whole launch.
THEOREM LaunchCorrect ==
    LaunchSpec => [](VersionIsEarned /\ ReadyHasRevisions /\ AloneCompletes)
  BY LaunchIsBootstrap, VersionCorrect, ReadyCorrect, AloneCorrect, PTL

-----------------------------------------------------------------------------
(***************************************************************************)
(* The lines a hosts file may come to hold.                                *)
(***************************************************************************)

FileLines == UserLines \cup UNION {ToSet(file) : file \in HostsFiles}
Ips == ({"v4", "v6"} \cup {l.ip : l \in FileLines}) \ {"#"}
HostNames == {Dashboard, "other", "begin", "end", "note"} \cup {l.name : l \in FileLines}
Lines == [ip : Ips \cup {"#"}, name : HostNames]

\* Markers are lines, no entry is a marker, and what the user may write are lines.
LEMMA LinesTyped ==
    /\ Begin \in Lines /\ End \in Lines /\ Note \in Lines
    /\ Begin # End /\ Begin # Note /\ End # Note
    /\ ~Active(Begin) /\ ~Active(End) /\ ~Active(Note)
    /\ \A l \in Lines : Active(l) => l.ip \in Ips /\ l.name \in HostNames
    /\ \A ip \in Ips, name \in HostNames :
         /\ Entry(ip, name) \in Lines /\ Active(Entry(ip, name))
         /\ Entry(ip, name).ip = ip /\ Entry(ip, name).name = name
    /\ Loopback \in Seq(Ips) /\ Len(Loopback) = 2
    /\ Loopback[1] = "v4" /\ Loopback[2] = "v6"
    /\ FileLines \subseteq Lines
<1>1. Begin \in Lines /\ End \in Lines /\ Note \in Lines
  BY DEF Begin, End, Note, Lines, HostNames
<1>2. /\ Begin # End /\ Begin # Note /\ End # Note
      /\ ~Active(Begin) /\ ~Active(End) /\ ~Active(Note)
  BY DEF Begin, End, Note, Active
<1>3. \A l \in Lines : Active(l) => l.ip \in Ips /\ l.name \in HostNames
  BY DEF Lines, Active
<1>4. \A ip \in Ips, name \in HostNames :
         /\ Entry(ip, name) \in Lines /\ Active(Entry(ip, name))
         /\ Entry(ip, name).ip = ip /\ Entry(ip, name).name = name
  BY DEF Entry, Lines, Active, Ips
<1>5. /\ Loopback \in Seq(Ips) /\ Len(Loopback) = 2
      /\ Loopback[1] = "v4" /\ Loopback[2] = "v6"
  BY DEF Loopback, Ips
<1>6. ASSUME NEW l \in FileLines
      PROVE  l \in Lines
  <2>1. l = [ip |-> l.ip, name |-> l.name]
    BY <1>6, LinesAssumption DEF Entry, FileLines
  <2>2. l.ip \in Ips \cup {"#"} /\ l.name \in HostNames
    BY DEF Ips, HostNames
  <2> QED
    BY <2>1, <2>2 DEF Lines
<1> QED
  BY <1>1, <1>2, <1>3, <1>4, <1>5, <1>6

-----------------------------------------------------------------------------
(***************************************************************************)
(* The markers.                                                            *)
(***************************************************************************)

\* A file with a block: the lines before it without a marker, the block, and
\* whatever is behind it.
WithBlock(before, managed, after) ==
    before \o (<<Begin, Note>> \o managed \o <<End>>) \o after

\* What each place of such a file holds.
HasPlaces(r, b, m, a) ==
    LET p == Len(b)
        q == Len(m)
    IN  /\ r \in Seq(Lines) /\ p \in Nat /\ q \in Nat /\ Len(a) \in Nat
        /\ Len(r) = p + q + 3 + Len(a)
        /\ \A k \in 1..p : r[k] = b[k]
        /\ r[p + 1] = Begin /\ r[p + 2] = Note
        /\ \A k \in 1..q : r[p + 2 + k] = m[k]
        /\ r[p + q + 3] = End
        /\ \A k \in 1..Len(a) : r[p + q + 3 + k] = a[k]

\* A file with a block holds its parts, one after the other.
LEMMA Places ==
    ASSUME NEW b \in Seq(Lines), NEW m \in Seq(Lines), NEW a \in Seq(Lines)
    PROVE  HasPlaces(WithBlock(b, m, a), b, m, a)
<1> DEFINE r == WithBlock(b, m, a)
           p == Len(b)
           q == Len(m)
           n == Len(a)
           head == <<Begin, Note>>
           x == head \o m
           y == x \o <<End>>
           z == b \o y
<1>0. p \in Nat /\ q \in Nat /\ n \in Nat
  BY LenProperties
<1>1. /\ head \in Seq(Lines) /\ Len(head) = 2 /\ head[1] = Begin /\ head[2] = Note
      /\ <<End>> \in Seq(Lines) /\ Len(<<End>>) = 1 /\ <<End>>[1] = End
  BY LinesTyped
<1>r. r = z \o a
  BY DEF WithBlock
<1> HIDE DEF head, r, Lines
<1>2. /\ x \in Seq(Lines) /\ Len(x) = 2 + q
      /\ x[1] = Begin /\ x[2] = Note /\ \A k \in 1..q : x[2 + k] = m[k]
  <2>1. /\ x \in Seq(Lines) /\ Len(x) = Len(head) + q
        /\ \A k \in 1..Len(head) : x[k] = head[k]
        /\ \A k \in 1..q : x[Len(head) + k] = m[k]
    <3>1. x \in Seq(Lines) /\ IsJoined(x, head, m)
      BY <1>1, Joined
    <3> HIDE DEF x
    <3> QED
      BY <3>1 DEF IsJoined
  <2> HIDE DEF x, q
  <2> QED
    BY <1>1, <2>1
<1> HIDE DEF x
<1>3. /\ y \in Seq(Lines) /\ Len(y) = q + 3
      /\ y[1] = Begin /\ y[2] = Note /\ \A k \in 1..q : y[2 + k] = m[k]
      /\ y[q + 3] = End
  <2>1. /\ y \in Seq(Lines) /\ Len(y) = Len(x) + 1
        /\ \A k \in 1..Len(x) : y[k] = x[k]
        /\ y[Len(x) + 1] = <<End>>[1]
    <3>1. /\ y \in Seq(Lines) /\ Len(y) = Len(x) + Len(<<End>>)
          /\ \A k \in 1..Len(x) : y[k] = x[k]
          /\ \A k \in 1..Len(<<End>>) : y[Len(x) + k] = <<End>>[k]
      <4>1. y \in Seq(Lines) /\ IsJoined(y, x, <<End>>)
        BY <1>1, <1>2, Joined
      <4> HIDE DEF y
      <4> QED
        BY <4>1 DEF IsJoined
    <3>2. 1 \in 1..Len(<<End>>)
      BY <1>1
    <3> HIDE DEF y
    <3> QED
      BY <1>1, <3>1, <3>2
  <2>2. /\ (2 + q) + 1 = q + 3 /\ 1 \in 1..(2 + q) /\ 2 \in 1..(2 + q)
        /\ \A k \in 1..q : 2 + k \in 1..(2 + q)
    BY <1>0
  <2> HIDE DEF y, q
  <2> QED
    BY <1>1, <1>2, <2>1, <2>2
<1> HIDE DEF y
<1>4. /\ z \in Seq(Lines) /\ Len(z) = p + (q + 3)
      /\ \A k \in 1..p : z[k] = b[k]
      /\ \A k \in 1..(q + 3) : z[p + k] = y[k]
  <2>1. /\ z \in Seq(Lines) /\ Len(z) = p + Len(y)
        /\ \A k \in 1..p : z[k] = b[k]
        /\ \A k \in 1..Len(y) : z[p + k] = y[k]
    <3>1. z \in Seq(Lines) /\ IsJoined(z, b, y)
      BY <1>3, Joined
    <3> HIDE DEF z
    <3> QED
      BY <3>1 DEF IsJoined
  <2> HIDE DEF z, p, q
  <2> QED
    BY <1>3, <2>1
<1> HIDE DEF z
<1>5. /\ r \in Seq(Lines) /\ Len(r) = p + (q + 3) + n
      /\ \A k \in 1..(p + (q + 3)) : r[k] = z[k]
      /\ \A k \in 1..n : r[p + (q + 3) + k] = a[k]
  <2>1. /\ r \in Seq(Lines) /\ Len(r) = Len(z) + n
        /\ \A k \in 1..Len(z) : r[k] = z[k]
        /\ \A k \in 1..n : r[Len(z) + k] = a[k]
    <3>1. r \in Seq(Lines) /\ IsJoined(r, z, a)
      BY <1>4, <1>r, Joined
    <3> QED
      BY <3>1 DEF IsJoined
  <2> HIDE DEF p, q, n
  <2> QED
    BY <1>4, <2>1
<1> HIDE DEF p, q, n
<1>6. \A k \in 1..p : r[k] = b[k]
  <2>1. \A k \in 1..p : k \in 1..(p + (q + 3))
    BY <1>0
  <2> QED
    BY <1>4, <1>5, <2>1
<1>7. \A k \in 1..(q + 3) : r[p + k] = y[k]
  <2>1. \A k \in 1..(q + 3) : p + k \in 1..(p + (q + 3))
    BY <1>0
  <2> QED
    BY <1>4, <1>5, <2>1
<1>8. r[p + 1] = Begin /\ r[p + 2] = Note
  BY <1>0, <1>3, <1>7
<1>9. \A k \in 1..q : r[p + 2 + k] = m[k]
  <2> TAKE k \in 1..q
  <2>1. 2 + k \in 1..(q + 3) /\ p + (2 + k) = p + 2 + k
    BY <1>0
  <2>2. r[p + (2 + k)] = y[2 + k] /\ y[2 + k] = m[k]
    BY <1>3, <1>7, <2>1
  <2> QED
    BY <2>1, <2>2
<1>10. r[p + q + 3] = End
  <2>1. q + 3 \in 1..(q + 3) /\ p + (q + 3) = p + q + 3
    BY <1>0
  <2>2. r[p + (q + 3)] = End
    BY <1>3, <1>7, <2>1
  <2> QED
    BY <2>1, <2>2
<1>11. /\ Len(r) = p + q + 3 + n
       /\ \A k \in 1..n : r[p + q + 3 + k] = a[k]
  <2>1. p + (q + 3) = p + q + 3
    BY <1>0
  <2> QED
    BY <1>5, <2>1
<1>12. HasPlaces(r, b, m, a)
  BY <1>0, <1>5, <1>6, <1>8, <1>9, <1>10, <1>11 DEF p, q, n, HasPlaces
<1> QED
  BY <1>12 DEF r

\* Such a file is read as it was put together.
LEMMA BlockIsRead ==
    ASSUME NEW b \in Seq(Lines), NEW m \in Seq(Lines), NEW a \in Seq(Lines),
           {Begin, End} \cap (ToSet(b) \cup ToSet(m)) = {}
    PROVE  LET r == WithBlock(b, m, a)
           IN  /\ WellFormed(r) /\ Before(r) = b /\ After(r) = a
               /\ Block(r) = <<Note>> \o m
<1> DEFINE r == WithBlock(b, m, a)
           p == Len(b)
           q == Len(m)
           n == Len(a)
<1>1. /\ r \in Seq(Lines) /\ p \in Nat /\ q \in Nat /\ n \in Nat
      /\ Len(r) = p + q + 3 + n
      /\ \A k \in 1..p : r[k] = b[k]
      /\ r[p + 1] = Begin /\ r[p + 2] = Note
      /\ \A k \in 1..q : r[p + 2 + k] = m[k]
      /\ r[p + q + 3] = End
      /\ \A k \in 1..n : r[p + q + 3 + k] = a[k]
  <2>1. HasPlaces(r, b, m, a)
    BY Places
  <2> HIDE DEF r
  <2> QED
    BY <2>1 DEF HasPlaces
<1>2. /\ \A k \in 1..p : b[k] \in ToSet(b)
      /\ \A k \in 1..q : m[k] \in ToSet(m)
  BY Elements
<1> HIDE DEF r, p, q, n
<1>3. \A k \in 1..p : r[k] # Begin /\ r[k] # End
  BY <1>1, <1>2
<1>4. \A k \in 1..(p + q + 2) : r[k] # End
  <2> TAKE k \in 1..(p + q + 2)
  <2>1. CASE k \in 1..p
    BY <1>3, <2>1
  <2>2. CASE k = p + 1 \/ k = p + 2
    BY <1>1, <2>2, LinesTyped
  <2>3. CASE k \notin 1..p /\ k # p + 1 /\ k # p + 2
    <3>1. k - (p + 2) \in 1..q /\ p + 2 + (k - (p + 2)) = k
      BY <1>1, <2>3
    <3>2. r[k] = m[k - (p + 2)]
      BY <1>1, <3>1
    <3> QED
      BY <1>2, <3>1, <3>2
  <2> QED
    BY <2>1, <2>2, <2>3
<1>5. FirstAt(r, Begin) = p + 1
  <2>1. p + 1 \in 1..Len(r) /\ \A j \in 1..Len(r) : j < p + 1 => j \in 1..p
    BY <1>1
  <2>2. \A j \in 1..Len(r) : j < p + 1 => r[j] # r[p + 1]
    BY <1>1, <1>3, <2>1
  <2>3. FirstAt(r, r[p + 1]) = p + 1
    BY <1>1, <2>1, <2>2, FirstAtFound
  <2> QED
    BY <1>1, <2>3
<1>6. FirstAt(r, End) = p + q + 3
  <2>1. p + q + 3 \in 1..Len(r) /\ \A j \in 1..Len(r) : j < p + q + 3 => j \in 1..(p + q + 2)
    BY <1>1
  <2>2. \A j \in 1..Len(r) : j < p + q + 3 => r[j] # r[p + q + 3]
    BY <1>1, <1>4, <2>1
  <2>3. FirstAt(r, r[p + q + 3]) = p + q + 3
    BY <1>1, <2>1, <2>2, FirstAtFound
  <2> QED
    BY <1>1, <2>3
<1>7. WellFormed(r)
  BY <1>1, <1>5, <1>6, SMTT(30) DEF WellFormed
<1>t. b \in Seq(Lines) /\ Len(b) = p /\ a \in Seq(Lines) /\ Len(a) = n
  BY DEF p, n
<1> HIDE DEF Lines
<1>8. Before(r) = b
  <2> DEFINE s == SubSeq(r, 1, p)
  <2>1. Before(r) = s
    <3>1. (p + 1) - 1 = p
      BY <1>1
    <3> QED
      BY <1>5, <1>7, <3>1 DEF Before
  <2>2. s \in Seq(Lines) /\ Len(s) = p /\ \A i \in 1..p : s[i] = r[1 + i - 1]
    <3>1. 1 + p = p + 1 /\ p <= Len(r) /\ 1 \in Nat \ {0}
      BY <1>1
    <3> QED
      BY <1>1, <3>1, Slice DEF IsSlice
  <2> HIDE DEF s
  <2>3. \A i \in 1..p : s[i] = b[i]
    <3>1. \A i \in 1..p : 1 + i - 1 = i
      BY <1>1
    <3> QED
      BY <1>1, <2>2, <3>1
  <2> QED
    BY <1>t, <2>1, <2>2, <2>3, SeqEqual
<1>9. After(r) = a
  <2> DEFINE s == SubSeq(r, p + q + 4, p + q + 3 + n)
  <2>1. After(r) = s
    <3>1. (p + q + 3) + 1 = p + q + 4
      BY <1>1
    <3> QED
      BY <1>1, <1>6, <1>7, <3>1 DEF After
  <2>2. s \in Seq(Lines) /\ Len(s) = n /\ \A i \in 1..n : s[i] = r[(p + q + 4) + i - 1]
    <3>1. /\ (p + q + 4) + n = (p + q + 3 + n) + 1 /\ p + q + 3 + n <= Len(r)
          /\ p + q + 4 \in Nat \ {0} /\ p + q + 3 + n \in Nat
      BY <1>1
    <3> QED
      BY <1>1, <3>1, Slice DEF IsSlice
  <2> HIDE DEF s
  <2>3. \A i \in 1..n : s[i] = a[i]
    <3>1. \A i \in 1..n : (p + q + 4) + i - 1 = p + q + 3 + i
      BY <1>1
    <3> QED
      BY <1>1, <2>2, <3>1
  <2> QED
    BY <1>t, <2>1, <2>2, <2>3, SeqEqual
<1>10. Block(r) = <<Note>> \o m
  <2> DEFINE s == SubSeq(r, p + 2, p + q + 2)
             t == <<Note>> \o m
  <2>1. Block(r) = s
    <3>1. (p + 1) + 1 = p + 2 /\ (p + q + 3) - 1 = p + q + 2
      BY <1>1
    <3> QED
      BY <1>5, <1>6, <1>7, <3>1 DEF Block
  <2>2. /\ s \in Seq(Lines) /\ Len(s) = q + 1
        /\ \A i \in 1..(q + 1) : s[i] = r[(p + 2) + i - 1]
    <3>1. /\ (p + 2) + (q + 1) = (p + q + 2) + 1 /\ p + q + 2 <= Len(r)
          /\ p + 2 \in Nat \ {0} /\ p + q + 2 \in Nat /\ q + 1 \in Nat
      BY <1>1
    <3> QED
      BY <1>1, <3>1, Slice DEF IsSlice
  <2>3. /\ t \in Seq(Lines) /\ Len(t) = 1 + q
        /\ \A i \in 1..(1 + q) : t[i] = IF i <= 1 THEN Note ELSE m[i - 1]
    <3>1. <<Note>> \in Seq(Lines) /\ Len(<<Note>>) = 1 /\ <<Note>>[1] = Note
      BY LinesTyped
    <3>2. /\ t \in Seq(Lines) /\ Len(t) = 1 + q
          /\ \A i \in 1..(1 + q) : t[i] = IF i <= 1 THEN <<Note>>[i] ELSE m[i - 1]
      BY <3>1, ConcatProperties DEF q
    <3> QED
      BY <1>1, <3>1, <3>2
  <2> HIDE DEF s, t
  <2>4. \A i \in 1..(q + 1) : s[i] = t[i]
    <3> TAKE i \in 1..(q + 1)
    <3>1. CASE i = 1
      <4>1. (p + 2) + 1 - 1 = p + 2 /\ 1 \in 1..(1 + q)
        BY <1>1
      <4> QED
        BY <1>1, <2>2, <2>3, <3>1, <4>1
    <3>2. CASE i # 1
      <4>1. /\ i - 1 \in 1..q /\ (p + 2) + i - 1 = p + 2 + (i - 1)
            /\ ~(i <= 1) /\ i \in 1..(1 + q)
        BY <1>1, <3>2
      <4>2. s[i] = r[p + 2 + (i - 1)] /\ t[i] = m[i - 1]
        BY <2>2, <2>3, <4>1
      <4> QED
        BY <1>1, <4>1, <4>2
    <3> QED
      BY <3>1, <3>2
  <2>5. Len(s) = Len(t)
    BY <1>1, <2>2, <2>3
  <2> QED
    BY <2>1, <2>2, <2>3, <2>4, <2>5, SeqEqual DEF t
<1> QED
  BY <1>7, <1>8, <1>9, <1>10 DEF r

\* The parts of a file are sequences of its lines; there is no marker before an
\* intact block, and damaged markers leave everything before the block.
LEMMA PartsOf ==
    ASSUME NEW t \in Seq(Lines)
    PROVE  /\ Before(t) \in Seq(Lines) /\ After(t) \in Seq(Lines) /\ Block(t) \in Seq(Lines)
           /\ ToSet(Block(t)) \subseteq ToSet(t)
           /\ WellFormed(t) => {Begin, End} \cap ToSet(Before(t)) = {}
           /\ ~WellFormed(t) => Before(t) = t /\ After(t) = <<>> /\ Block(t) = <<>>
<1> DEFINE N == Len(t)
           p == FirstAt(t, Begin)
           q == FirstAt(t, End)
<1>1. CASE ~WellFormed(t)
  <2>1. Before(t) = t /\ After(t) = <<>> /\ Block(t) = <<>>
    BY <1>1 DEF Before, After, Block
  <2>2. <<>> \in Seq(Lines) /\ ToSet(<<>>) = {}
    <3>1. DOMAIN <<>> = {}
      OBVIOUS
    <3> QED
      BY <3>1, EmptySeq DEF ToSet
  <2> QED
    BY <1>1, <2>1, <2>2
<1>2. CASE WellFormed(t)
  <2>1. N \in Nat /\ ToSet(t) = {t[k] : k \in 1..N} /\ \A k \in 1..N : t[k] \in Lines
    <3>1. N \in Nat /\ t \in [1..N -> Lines]
      BY LenProperties
    <3> QED
      BY <3>1, Elements
  <2>2. p \in 1..N /\ q \in 1..N /\ p < q
    <3>1. p \in 0..N /\ q \in 0..N
      BY FirstAtIs
    <3>2. p # 0 /\ p < q
      BY <1>2 DEF WellFormed
    <3> HIDE DEF p, q
    <3> QED
      BY <2>1, <3>1, <3>2
  <2>3. \A k \in 1..N : k < p => t[k] # Begin /\ t[k] # End
    <3>1. \A k \in 1..N : k < p => t[k] # Begin
      BY <2>2, FirstAtIs
    <3>2. \A k \in 1..N : k < q => t[k] # End
      BY <2>2, FirstAtIs
    <3>3. \A k \in 1..N : k < p => k < q
      <4> HIDE DEF p, q
      <4> QED
        BY <2>1, <2>2
    <3> QED
      BY <3>1, <3>2, <3>3
  <2>4. /\ Before(t) = SubSeq(t, 1, p - 1) /\ After(t) = SubSeq(t, q + 1, N)
        /\ Block(t) = SubSeq(t, p + 1, q - 1)
    BY <1>2 DEF Before, After, Block
  <2> HIDE DEF p, q, N
  <2>5. Before(t) \in Seq(Lines) /\ \A e \in ToSet(Before(t)) : \E j \in 1..(p - 1) : e = t[j]
    <3>1. 1 + (p - 1) = (p - 1) + 1 /\ p - 1 \in Nat /\ p - 1 <= N /\ 1 \in Nat \ {0}
      BY <2>1, <2>2
    <3> QED
      BY <2>4, <3>1, Slice DEF N
  <2>6. After(t) \in Seq(Lines)
    <3>1. (q + 1) + (N - q) = N + 1 /\ N - q \in Nat /\ q + 1 \in Nat \ {0} /\ N <= N
      BY <2>1, <2>2
    <3> QED
      BY <2>1, <2>4, <3>1, Slice DEF N
  <2>7. Block(t) \in Seq(Lines) /\ \A e \in ToSet(Block(t)) : \E j \in (p + 1)..(q - 1) : e = t[j]
    <3>1. /\ (p + 1) + (q - 1 - p) = (q - 1) + 1 /\ q - 1 - p \in Nat /\ q - 1 \in Nat
          /\ p + 1 \in Nat \ {0} /\ q - 1 <= N
      BY <2>1, <2>2
    <3> DEFINE first == p + 1
               last == q - 1
               k == q - 1 - p
    <3>2. /\ first + k = last + 1 /\ k \in Nat /\ last \in Nat /\ first \in Nat \ {0}
          /\ last <= Len(t) /\ Block(t) = SubSeq(t, first, last)
      BY <2>4, <3>1 DEF N
    <3> HIDE DEF first, last, k
    <3>3. Block(t) \in Seq(Lines) /\ \A e \in ToSet(Block(t)) : \E j \in first..last : e = t[j]
      BY <3>2, Slice
    <3> QED
      BY <3>3 DEF first, last
  <2>8. ToSet(Block(t)) \subseteq ToSet(t)
    <3>1. \A j \in (p + 1)..(q - 1) : j \in 1..N
      BY <2>1, <2>2
    <3> QED
      BY <2>1, <2>7, <3>1
  <2>9. {Begin, End} \cap ToSet(Before(t)) = {}
    <3>1. \A j \in 1..(p - 1) : j \in 1..N /\ j < p
      BY <2>1, <2>2
    <3> QED
      BY <2>3, <2>5, <3>1
  <2> QED
    BY <1>2, <2>5, <2>6, <2>7, <2>8, <2>9
<1> QED
  BY <1>1, <1>2

\* Lines without markers put in front of others make no block of them.
LEMMA NoBlockInFront ==
    ASSUME NEW b \in Seq(Lines), NEW a \in Seq(Lines), {Begin, End} \cap ToSet(b) = {},
           ~WellFormed(a)
    PROVE  ~WellFormed(b \o a)
<1> DEFINE r == b \o a
           p == Len(b)
           n == Len(a)
<1>1. r \in Seq(Lines) /\ IsJoined(r, b, a)
  BY Joined
<1>2. ToSet(r) = ToSet(b) \cup ToSet(a)
  BY ConcatElements
<1> HIDE DEF r
<1>3. /\ p \in Nat /\ n \in Nat /\ Len(r) = p + n
      /\ \A k \in 1..p : r[k] = b[k]
      /\ \A k \in 1..n : r[p + k] = a[k]
  BY <1>1 DEF IsJoined
<1>4. \A k \in 1..p : b[k] \in ToSet(b)
  BY Elements
<1>5. ASSUME NEW e \in {Begin, End}, e \in ToSet(a)
      PROVE  FirstAt(r, e) = p + FirstAt(a, e) /\ FirstAt(a, e) \in 1..n
  <2> DEFINE k == FirstAt(a, e)
  <2>1. k \in 0..n /\ k # 0
    BY <1>5, FirstAtIs
  <2>2. k \in 1..n
    BY <1>3, <2>1
  <2>3. a[k] = e /\ \A j \in 1..n : j < k => a[j] # e
    BY <2>2, FirstAtIs
  <2> HIDE DEF k, p, n
  <2>4. p + k \in 1..Len(r) /\ r[p + k] = e
    BY <1>3, <2>2, <2>3
  <2>5. \A j \in 1..Len(r) : j < p + k => r[j] # r[p + k]
    <3> TAKE j \in 1..Len(r)
    <3>1. CASE j \in 1..p
      BY <1>3, <1>4, <2>4, <3>1
    <3>2. CASE j \notin 1..p
      <4>1. j - p \in 1..n /\ p + (j - p) = j /\ (j < p + k => j - p < k)
        BY <1>3, <2>2, <3>2
      <4> QED
        BY <1>3, <2>3, <2>4, <4>1
    <3> QED
      BY <3>1, <3>2
  <2>6. FirstAt(r, r[p + k]) = p + k
    BY <1>1, <2>4, <2>5, FirstAtFound
  <2> QED
    BY <2>2, <2>4, <2>6 DEF k
<1>6. ASSUME NEW e \in {Begin, End}, e \notin ToSet(a)
      PROVE  FirstAt(r, e) = 0
  BY <1>1, <1>2, <1>6, FirstAtIs
<1> DEFINE i == FirstAt(a, Begin)
           j == FirstAt(a, End)
<1>7. ~(i # 0 /\ i < j)
  BY DEF WellFormed
<1>8. /\ Begin \in ToSet(a) => FirstAt(r, Begin) = p + i /\ i \in 1..n
      /\ Begin \notin ToSet(a) => FirstAt(r, Begin) = 0
      /\ End \in ToSet(a) => FirstAt(r, End) = p + j /\ j \in 1..n
      /\ End \notin ToSet(a) => FirstAt(r, End) = 0
  BY <1>5, <1>6
<1> HIDE DEF i, j, p, n
<1>9. ~(FirstAt(r, Begin) # 0 /\ FirstAt(r, Begin) < FirstAt(r, End))
  BY <1>3, <1>7, <1>8
<1> QED
  BY <1>9 DEF r, WellFormed

-----------------------------------------------------------------------------
(***************************************************************************)
(* The dictionary of a block.                                              *)
(***************************************************************************)

\* What one line adds, and the loop over the lines.
Adds(seen, value, l) == IF l \in DOMAIN value THEN AppendNew(seen, value[l]) ELSE seen
Gathers(f, s, value) ==
    f[0] = <<>> /\ \A i \in 1..Len(s) : f[i] = Adds(f[i - 1], value, s[i])

\* Of the sequence y, in terms of z, when l was added to that.
IsAdded(y, z, K, value, l) ==
    /\ IsInjective(z) => IsInjective(y)
    /\ l \in K => ToSet(y) = ToSet(z) \cup {value[l]}
    /\ l \notin K => y = z

\* A line adds its value, unless it has none or that was seen.
LEMMA AddsTyped ==
    ASSUME NEW V, NEW K, NEW value \in [K -> V], NEW seen \in Seq(V), NEW l
    PROVE  /\ Adds(seen, value, l) \in Seq(V)
           /\ IsAdded(Adds(seen, value, l), seen, K, value, l)
<1> USE DEF IsAdded
<1>1. DOMAIN value = K
  OBVIOUS
<1>2. CASE l \notin K
  BY <1>1, <1>2 DEF Adds
<1>3. CASE l \in K /\ value[l] \in ToSet(seen)
  BY <1>1, <1>3 DEF Adds, AppendNew
<1>4. CASE l \in K /\ value[l] \notin ToSet(seen)
  <2>1. Adds(seen, value, l) = Append(seen, value[l]) /\ value[l] \in V
    BY <1>1, <1>4 DEF Adds, AppendNew
  <2> QED
    BY <1>4, <2>1, AppendElement
<1> QED
  BY <1>2, <1>3, <1>4

\* Gathering is well defined.
LEMMA GatheredLoop ==
    ASSUME NEW S, NEW s \in Seq(S), NEW V, NEW K, NEW value \in [K -> V]
    PROVE  \E f \in [0..Len(s) -> Seq(V)] : Gathers(f, s, value) /\ Gathered(s, value) = f[Len(s)]
<1> DEFINE N == Len(s)
           step == [p \in Seq(V) \X (0..N) |-> Adds(p[1], value, s[p[2]])]
<1>0. N \in Nat
  BY LenProperties
<1>1. \A z \in Seq(V), n \in 0..N : step[<<z, n>>] = Adds(z, value, s[n])
  OBVIOUS
<1>2. Stepping(step, Seq(V), 0, N)
  BY <1>1, AddsTyped DEF Stepping
<1> HIDE DEF step
<1>3. <<>> \in Seq(V) /\ 0 \in Nat /\ 0 <= N
  BY <1>0, EmptySeq
<1>4. PICK h \in [0..N -> Seq(V)] : Looped(h, 0, N, <<>>, step)
  BY <1>0, <1>2, <1>3, Loop
<1>5. \A n \in 0..N : h[n] = IF n = 0 THEN <<>> ELSE Adds(h[n - 1], value, s[n])
  <2> TAKE n \in 0..N
  <2>1. n # 0 => n - 1 \in 0..N
    BY <1>0
  <2> QED
    BY <1>1, <1>4, <2>1 DEF Looped
<1> DEFINE upTo(f) == [i \in 0..N |-> IF i = 0 THEN <<>>
                                      ELSE IF s[i] \in DOMAIN value
                                           THEN AppendNew(f[i - 1], value[s[i]])
                                           ELSE f[i - 1]]
<1>6. h = upTo(h)
  BY <1>5 DEF Adds
<1>7. \E f : f = upTo(f) /\ Gathered(s, value) = f[N]
  BY <1>6 DEF Gathered
<1>8. PICK f : f = upTo(f) /\ Gathered(s, value) = f[N]
  BY <1>7
<1>9. DOMAIN f = 0..N /\ f = [i \in 0..N |-> f[i]]
  BY <1>8
<1>10. \A n \in 0..N : f[n] = IF n = 0 THEN <<>> ELSE Adds(f[n - 1], value, s[n])
  BY <1>8 DEF Adds
<1> HIDE DEF upTo
<1> DEFINE T == {n \in Nat : n \in 0..N => f[n] \in Seq(V)}
<1>11. 0 \in T
  BY <1>3, <1>10
<1>12. ASSUME NEW n \in Nat, n \in T
       PROVE  n + 1 \in T
  <2> SUFFICES ASSUME n + 1 \in 0..N PROVE f[n + 1] \in Seq(V)
    OBVIOUS
  <2>1. n \in 0..N /\ n + 1 # 0 /\ (n + 1) - 1 = n
    BY <1>0
  <2>2. f[n] \in Seq(V)
    BY <1>12, <2>1
  <2>3. f[n + 1] = Adds(f[n], value, s[n + 1])
    BY <1>10, <2>1
  <2> QED
    BY <2>2, <2>3, AddsTyped
<1> HIDE DEF T
<1>13. Nat \subseteq T
  BY <1>11, <1>12, SetInduction
<1>14. \A n \in 0..N : f[n] \in Seq(V)
  BY <1>13 DEF T
<1>15. f \in [0..N -> Seq(V)]
  BY <1>9, <1>14
<1>16. Gathers(f, s, value)
  <2>1. \A n \in 1..N : n \in 0..N /\ n # 0
    BY <1>0
  <2>2. 0 \in 0..N
    BY <1>0
  <2> QED
    BY <1>10, <2>1, <2>2 DEF Gathers
<1> QED
  BY <1>8, <1>15, <1>16

\* What is gathered: the values of the lines, none twice.
\* The sequence z holds the values of a set of lines, none twice.
Holds(z, A, K, value) ==
    IsInjective(z) /\ ToSet(z) = {value[l] : l \in A \cap K}

\* What is gathered is a sequence of the values of the lines, none twice.
LEMMA GatheredIs ==
    ASSUME NEW S, NEW s \in Seq(S), NEW V, NEW K, NEW value \in [K -> V]
    PROVE  Gathered(s, value) \in Seq(V) /\ Holds(Gathered(s, value), ToSet(s), K, value)
<1> DEFINE N == Len(s)
           A(n) == {s[i] : i \in 1..n}
<1>0. N \in Nat /\ ToSet(s) = A(N)
  BY Elements
<1>1. PICK f \in [0..N -> Seq(V)] : Gathers(f, s, value) /\ Gathered(s, value) = f[N]
  BY GatheredLoop
<1> DEFINE T == {n \in Nat : n \in 0..N => Holds(f[n], A(n), K, value)}
<1>2. 0 \in T
  <2>1. f[0] = <<>> /\ DOMAIN <<>> = {} /\ A(0) = {}
    BY <1>1 DEF Gathers
  <2> QED
    BY <2>1 DEF ToSet, IsInjective, Holds
<1>3. ASSUME NEW n \in Nat, n \in T
      PROVE  n + 1 \in T
  <2> SUFFICES ASSUME n + 1 \in 0..N PROVE Holds(f[n + 1], A(n + 1), K, value)
    OBVIOUS
  <2>1. n \in 0..N /\ n + 1 \in 1..N /\ (n + 1) - 1 = n /\ f[n] \in Seq(V)
    BY <1>0, <1>1
  <2>5. A(n + 1) = A(n) \cup {s[n + 1]}
    <3>1. \A i \in 1..(n + 1) : i \in 1..n \/ i = n + 1
      OBVIOUS
    <3>2. n + 1 \in 1..(n + 1) /\ \A i \in 1..n : i \in 1..(n + 1)
      OBVIOUS
    <3> QED
      BY <3>1, <3>2
  <2> HIDE DEF A
  <2>2. Holds(f[n], A(n), K, value)
    BY <1>3, <2>1
  <2>3. f[n + 1] = Adds(f[n], value, s[n + 1])
    BY <1>1, <2>1 DEF Gathers
  <2> DEFINE z == f[n]
             y == f[n + 1]
             e == s[n + 1]
             B == A(n)
  <2>6. /\ z \in Seq(V) /\ y = Adds(z, value, e) /\ Holds(z, B, K, value)
        /\ A(n + 1) = B \cup {e}
    BY <2>1, <2>2, <2>3, <2>5
  <2> HIDE DEF z, y, e, B
  <2>7. IsInjective(z) /\ ToSet(z) = {value[l] : l \in B \cap K}
    BY <2>6 DEF Holds
  <2>8. /\ IsInjective(y)
        /\ ToSet(y) = ToSet(z) \cup (IF e \in K THEN {value[e]} ELSE {})
    <3>1. z \in Seq(V)
      BY <2>6
    <3>2. IsAdded(Adds(z, value, e), z, K, value, e)
      BY <3>1, AddsTyped
    <3> QED
      BY <2>6, <2>7, <3>2 DEF IsAdded
  <2>9. ToSet(y) = {value[l] : l \in (B \cup {e}) \cap K}
    BY <2>7, <2>8
  <2>10. Holds(y, A(n + 1), K, value)
    BY <2>6, <2>8, <2>9 DEF Holds
  <2> QED
    BY <2>10 DEF y
<1> HIDE DEF T, A
<1>4. N \in T
  BY <1>0, <1>2, <1>3, SetInduction
<1>5. Holds(f[N], A(N), K, value)
  BY <1>0, <1>4 DEF T
<1> QED
  BY <1>0, <1>1, <1>5

\* Gathering goes on where it was.
Joins(f, s, t, value) ==
    /\ f[0] = Gathered(s, value)
    /\ \A i \in 1..Len(t) : f[i] = Adds(f[i - 1], value, t[i])
    /\ Gathered(s \o t, value) = f[Len(t)]

\* What is gathered of two sequences of lines starts from what the first gives.
LEMMA GatheredJoin ==
    ASSUME NEW S, NEW s \in Seq(S), NEW t \in Seq(S), NEW V, NEW K, NEW value \in [K -> V]
    PROVE  \E f \in [0..Len(t) -> Seq(V)] : Joins(f, s, t, value)
<1> DEFINE u == s \o t
           M == Len(s)
           N == Len(t)
<1>1. u \in Seq(S) /\ IsJoined(u, s, t)
  BY Joined
<1>2. PICK g \in [0..M -> Seq(V)] : Gathers(g, s, value) /\ Gathered(s, value) = g[M]
  BY GatheredLoop
<1>3. PICK h \in [0..Len(u) -> Seq(V)] : Gathers(h, u, value) /\ Gathered(u, value) = h[Len(u)]
  BY <1>1, GatheredLoop
<1> HIDE DEF u
<1>4. /\ M \in Nat /\ N \in Nat /\ Len(u) = M + N
      /\ \A k \in 1..M : u[k] = s[k]
      /\ \A k \in 1..N : u[M + k] = t[k]
  BY <1>1 DEF IsJoined
<1> DEFINE T == {n \in Nat : n \in 0..M => h[n] = g[n]}
<1>5. 0 \in T
  BY <1>2, <1>3 DEF Gathers
<1>6. ASSUME NEW n \in Nat, n \in T
      PROVE  n + 1 \in T
  <2> HIDE DEF M, N
  <2> SUFFICES ASSUME n + 1 \in 0..M PROVE h[n + 1] = g[n + 1]
    OBVIOUS
  <2>1. n \in 0..M /\ n + 1 \in 1..M /\ n + 1 \in 1..(M + N) /\ (n + 1) - 1 = n
    BY <1>4
  <2>2. h[n] = g[n] /\ u[n + 1] = s[n + 1]
    BY <1>4, <1>6, <2>1
  <2>3. h[n + 1] = Adds(h[n], value, u[n + 1])
    BY <1>3, <1>4, <2>1 DEF Gathers
  <2>4. g[n + 1] = Adds(g[n], value, s[n + 1])
    BY <1>2, <2>1 DEF Gathers, M
  <2> QED
    BY <2>2, <2>3, <2>4
<1> HIDE DEF T
<1>7. h[M] = g[M]
  <2>1. M \in T
    BY <1>4, <1>5, <1>6, SetInduction
  <2> QED
    BY <1>4, <2>1 DEF T
<1> DEFINE f == [n \in 0..N |-> h[M + n]]
<1> HIDE DEF M, N
<1>8. f \in [0..N -> Seq(V)]
  <2>1. \A n \in 0..N : M + n \in 0..(M + N)
    BY <1>4
  <2> QED
    BY <1>3, <1>4, <2>1
<1>9. f[0] = Gathered(s, value)
  <2>1. M + 0 = M /\ 0 \in 0..N
    BY <1>4
  <2> QED
    BY <1>2, <1>7, <2>1 DEF M
<1>10. \A i \in 1..N : f[i] = Adds(f[i - 1], value, t[i])
  <2> TAKE i \in 1..N
  <2>1. /\ i \in 0..N /\ i - 1 \in 0..N /\ M + i \in 1..(M + N) /\ (M + i) - 1 = M + (i - 1)
    BY <1>4
  <2>2. h[M + i] = Adds(h[(M + i) - 1], value, u[M + i])
    BY <1>3, <1>4, <2>1 DEF Gathers
  <2>3. u[M + i] = t[i]
    BY <1>4
  <2> QED
    BY <2>1, <2>2, <2>3
<1>11. f[N] = Gathered(u, value)
  BY <1>3, <1>4
<1> HIDE DEF f
<1>12. f \in [0..Len(t) -> Seq(V)] /\ Joins(f, s, t, value)
  BY <1>8, <1>9, <1>10, <1>11 DEF Joins, N, u
<1> QED
  BY <1>12

\* Lines without a value add nothing.
LEMMA GatheredSkips ==
    ASSUME NEW S, NEW s \in Seq(S), NEW t \in Seq(S), NEW V, NEW K, NEW value \in [K -> V],
           ToSet(t) \cap K = {}
    PROVE  Gathered(s \o t, value) = Gathered(s, value)
<1> DEFINE N == Len(t)
<1>0. N \in Nat /\ \A i \in 1..N : t[i] \notin DOMAIN value
  BY Elements
<1>j. PICK f \in [0..N -> Seq(V)] : Joins(f, s, t, value)
  BY GatheredJoin
<1>1. /\ f[0] = Gathered(s, value)
      /\ \A i \in 1..N : f[i] = Adds(f[i - 1], value, t[i])
      /\ Gathered(s \o t, value) = f[N]
  BY <1>j DEF Joins
<1>2. \A i \in 1..N : f[i] = f[i - 1]
  BY <1>0, <1>1 DEF Adds
<1> DEFINE T == {n \in Nat : n \in 0..N => f[n] = f[0]}
<1> HIDE DEF N
<1>3. 0 \in T
  OBVIOUS
<1>4. ASSUME NEW n \in Nat, n \in T
      PROVE  n + 1 \in T
  <2> SUFFICES ASSUME n + 1 \in 0..N PROVE f[n + 1] = f[0]
    OBVIOUS
  <2>1. n \in 0..N /\ n + 1 \in 1..N /\ (n + 1) - 1 = n
    BY <1>0
  <2>2. f[n] = f[0]
    BY <1>4, <2>1
  <2> QED
    BY <1>2, <2>1, <2>2
<1> HIDE DEF T
<1>5. N \in T
  BY <1>0, <1>3, <1>4, SetInduction
<1> QED
  BY <1>0, <1>1, <1>5 DEF T

\* Of lines that have none, no values are gathered.
LEMMA GatheredNone ==
    ASSUME NEW S, NEW s \in Seq(S), NEW V, NEW K, NEW value \in [K -> V],
           ToSet(s) \cap K = {}
    PROVE  Gathered(s, value) = <<>>
<1> DEFINE g == Gathered(s, value)
<1>1. g \in Seq(V) /\ Holds(g, ToSet(s), K, value)
  BY GatheredIs
<1> HIDE DEF g
<1>2. ToSet(g) = {}
  BY <1>1 DEF Holds
<1>3. Len(g) \in Nat /\ ToSet(g) = {g[k] : k \in 1..Len(g)}
  BY <1>1, Elements
<1>4. Len(g) = 0
  <2> SUFFICES ASSUME Len(g) # 0 PROVE FALSE
    OBVIOUS
  <2>1. 1 \in 1..Len(g)
    BY <1>3
  <2>2. g[1] \in {g[k] : k \in 1..Len(g)}
    BY <2>1
  <2>3. g[1] \in {}
    BY <1>2, <1>3, <2>2
  <2> QED
    BY <2>3
<1>5. g = <<>>
  BY <1>1, <1>4, EmptySeq
<1> QED
  BY <1>5 DEF g

\* Each of the lines t gives the value v has at its place.
Gives(t, K, value, v) ==
    Len(v) = Len(t) /\ \A i \in 1..Len(t) : t[i] \in K /\ value[t[i]] = v[i]

\* Lines with distinct values, where there was none, add those.
LEMMA GatheredTakes ==
    ASSUME NEW S, NEW s \in Seq(S), NEW t \in Seq(S), NEW V, NEW K, NEW value \in [K -> V],
           Gathered(s, value) = <<>>, NEW v \in Seq(V), IsInjective(v), Gives(t, K, value, v)
    PROVE  Gathered(s \o t, value) = v
<1> DEFINE N == Len(t)
<1>0. /\ N \in Nat /\ DOMAIN v = 1..N
      /\ \A i \in 1..N : t[i] \in DOMAIN value /\ value[t[i]] = v[i] /\ v[i] \in V
      /\ \A i, j \in 1..N : v[i] = v[j] => i = j
  <2>1. N \in Nat /\ DOMAIN v = 1..N /\ v \in [1..N -> V]
    BY LenProperties DEF Gives
  <2> QED
    BY <2>1 DEF IsInjective, Gives
<1>j. PICK f \in [0..N -> Seq(V)] : Joins(f, s, t, value)
  BY GatheredJoin
<1>1. /\ f[0] = Gathered(s, value)
      /\ \A i \in 1..N : f[i] = Adds(f[i - 1], value, t[i])
      /\ Gathered(s \o t, value) = f[N]
  BY <1>j DEF Joins
<1>2. \A i \in 1..N : f[i] = AppendNew(f[i - 1], v[i])
  BY <1>0, <1>1 DEF Adds
<1> DEFINE Good(n) == Len(f[n]) = n /\ \A i \in 1..n : f[n][i] = v[i]
           T == {n \in Nat : n \in 0..N => Good(n)}
<1>c. v \in Seq(V) /\ Len(v) = N
  BY DEF Gives
<1> HIDE DEF N
<1>3. 0 \in T
  <2>1. f[0] = <<>> /\ Len(<<>>) = 0 /\ 1..0 = {}
    BY <1>1
  <2> QED
    BY <2>1
<1>4. ASSUME NEW n \in Nat, n \in T
      PROVE  n + 1 \in T
  <2> SUFFICES ASSUME n + 1 \in 0..N PROVE Good(n + 1)
    OBVIOUS
  <2>1. n \in 0..N /\ n + 1 \in 1..N /\ (n + 1) - 1 = n /\ f[n] \in Seq(V)
    BY <1>0, <1>1
  <2>2. Good(n)
    BY <1>4, <2>1
  <2> DEFINE z == f[n]
             e == v[n + 1]
  <2>3. z \in Seq(V) /\ e \in V /\ Len(z) = n /\ \A i \in 1..n : z[i] = v[i]
    BY <1>0, <2>1, <2>2
  <2>4. f[n + 1] = AppendNew(z, e)
    BY <1>2, <2>1
  <2>5. \A i \in 1..n : v[i] # e
    BY <1>0, <2>1
  <2> HIDE DEF z, e
  <2>6. e \notin ToSet(z)
    <3>1. ToSet(z) = {z[k] : k \in 1..Len(z)}
      BY <2>3, Elements
    <3> QED
      BY <2>3, <2>5, <3>1
  <2>7. f[n + 1] = Append(z, e)
    BY <2>4, <2>6 DEF AppendNew
  <2>8. /\ Len(Append(z, e)) = n + 1 /\ \A i \in 1..n : Append(z, e)[i] = z[i]
        /\ Append(z, e)[n + 1] = e
    BY <2>3, AppendProperties
  <2>9. \A i \in 1..(n + 1) : i \in 1..n \/ i = n + 1
    OBVIOUS
  <2>10. \A i \in 1..(n + 1) : f[n + 1][i] = v[i]
    <3>1. v[n + 1] = e
      BY DEF e
    <3> QED
      BY <2>3, <2>7, <2>8, <2>9, <3>1
  <2> QED
    BY <2>7, <2>8, <2>10
<1> HIDE DEF T
<1>5. N \in T
  BY <1>0, <1>3, <1>4, SetInduction
<1>6. f[N] \in Seq(V) /\ Len(f[N]) = N /\ \A i \in 1..N : f[N][i] = v[i]
  BY <1>0, <1>1, <1>5 DEF T
<1>7. f[N] = v
  BY <1>c, <1>6, SeqEqual
<1> QED
  BY <1>1, <1>7

\* What is gathered has x once more, which is the value of all the lines t.
AddsOnce(s, t, value, x) == Gathered(s \o t, value) = Append(Gathered(s, value), x)
AllGive(t, K, value, x) == \A i \in 1..Len(t) : t[i] \in K /\ value[t[i]] = x

\* Lines with one new value add that once.
LEMMA GatheredOne ==
    ASSUME NEW S, NEW s \in Seq(S), NEW t \in Seq(S), NEW V, NEW K, NEW value \in [K -> V],
           NEW x \in V, x \notin ToSet(Gathered(s, value)), Len(t) # 0,
           AllGive(t, K, value, x)
    PROVE  AddsOnce(s, t, value, x)
<1> DEFINE N == Len(t)
           g == Gathered(s, value)
<1>0. N \in Nat /\ N # 0
  BY LenProperties
<1>a. \A i \in 1..N : t[i] \in DOMAIN value /\ value[t[i]] = x
  BY DEF AllGive
<1>j. PICK f \in [0..N -> Seq(V)] : Joins(f, s, t, value)
  BY GatheredJoin
<1>1. /\ f[0] = g
      /\ \A i \in 1..N : f[i] = Adds(f[i - 1], value, t[i])
      /\ Gathered(s \o t, value) = f[N]
  BY <1>j DEF Joins
<1>2. \A i \in 1..N : f[i] = AppendNew(f[i - 1], x)
  BY <1>a, <1>1 DEF Adds
<1>3. g \in Seq(V) /\ x \notin ToSet(g)
  BY GatheredIs
<1> HIDE DEF N, g
<1> DEFINE T == {n \in Nat : n + 1 \in 1..N => f[n + 1] = Append(g, x)}
<1>4. 0 \in T
  <2>1. 0 + 1 \in 1..N /\ (0 + 1) - 1 = 0
    BY <1>0
  <2>2. f[0 + 1] = AppendNew(g, x)
    BY <1>1, <1>2, <2>1
  <2> QED
    BY <1>3, <2>2 DEF AppendNew
<1>5. ASSUME NEW n \in Nat, n \in T
      PROVE  n + 1 \in T
  <2> SUFFICES ASSUME (n + 1) + 1 \in 1..N PROVE f[(n + 1) + 1] = Append(g, x)
    OBVIOUS
  <2>1. n + 1 \in 1..N /\ ((n + 1) + 1) - 1 = n + 1
    BY <1>0
  <2>2. f[n + 1] = Append(g, x)
    BY <1>5, <2>1
  <2>3. x \in ToSet(Append(g, x))
    BY <1>3, AppendElement
  <2>4. f[(n + 1) + 1] = AppendNew(Append(g, x), x)
    BY <1>2, <2>1, <2>2
  <2> QED
    BY <2>3, <2>4 DEF AppendNew
<1> HIDE DEF T
<1>6. N - 1 \in T
  <2>1. N - 1 \in Nat
    BY <1>0
  <2>2. Nat \subseteq T
    BY <1>4, <1>5, SetInduction
  <2> QED
    BY <2>1, <2>2
<1>7. (N - 1) + 1 = N /\ N \in 1..N
  BY <1>0
<1>8. f[N] = Append(g, x)
  BY <1>6, <1>7 DEF T
<1> QED
  BY <1>1, <1>8 DEF g, AddsOnce

-----------------------------------------------------------------------------
(***************************************************************************)
(* A block that avai wrote.                                                *)
(***************************************************************************)

\* A dictionary as avai keeps it: every name once, with addresses, none twice.
IsDictionary(names, ips) ==
    /\ names \in Seq(HostNames) /\ IsInjective(names) /\ Len(names) # 0
    /\ ips \in [DOMAIN names -> Seq(Ips)]
    /\ \A k \in DOMAIN names : ips[k] # <<>> /\ IsInjective(ips[k])

\* Its entries, name by name.
Managed(names, ips) == FlattenSeq([i \in DOMAIN names |-> EntriesOf(names[i], ips[i])])

\* The entries of one name.
LEMMA EntriesTyped ==
    ASSUME NEW name \in HostNames, NEW ip \in Seq(Ips)
    PROVE  /\ EntriesOf(name, ip) \in Seq(Lines) /\ Len(EntriesOf(name, ip)) = Len(ip)
           /\ \A i \in 1..Len(ip) :
                /\ ip[i] \in Ips /\ EntriesOf(name, ip)[i].ip = ip[i]
                /\ EntriesOf(name, ip)[i].name = name /\ Active(EntriesOf(name, ip)[i])
<1> DEFINE N == Len(ip)
<1>1. N \in Nat /\ DOMAIN ip = 1..N /\ \A i \in 1..N : ip[i] \in Ips
  <2>1. ip \in [1..N -> Ips] /\ N \in Nat
    BY LenProperties
  <2> QED
    BY <2>1
<1>2. EntriesOf(name, ip) = [i \in 1..N |-> Entry(ip[i], name)]
  BY <1>1 DEF EntriesOf
<1> HIDE DEF N
<1>3. \A i \in 1..N : Entry(ip[i], name) \in Lines
  BY <1>1, LinesTyped
<1>4. EntriesOf(name, ip) \in [1..N -> Lines]
  BY <1>2, <1>3
<1>5. EntriesOf(name, ip) \in Seq(Lines)
  BY <1>1, <1>4, SeqDef
<1>6. Len(EntriesOf(name, ip)) = N
  BY <1>1, <1>4, <1>5, LenProperties
<1>7. \A i \in 1..N : /\ EntriesOf(name, ip)[i].ip = ip[i]
                      /\ EntriesOf(name, ip)[i].name = name /\ Active(EntriesOf(name, ip)[i])
  BY <1>1, <1>2, LinesTyped
<1> QED
  BY <1>1, <1>5, <1>6, <1>7 DEF N

\* Every line of the block is an entry, and the block has those of each name.
LEMMA ManagedEntries ==
    ASSUME NEW names, NEW ips, IsDictionary(names, ips)
    PROVE  /\ Managed(names, ips) \in Seq(Lines)
           /\ \A l \in ToSet(Managed(names, ips)) : Active(l)
           /\ \A k \in DOMAIN names :
                ToSet(EntriesOf(names[k], ips[k])) \subseteq ToSet(Managed(names, ips))
<1> DEFINE N == Len(names)
           e == [k \in 1..N |-> EntriesOf(names[k], ips[k])]
<1>1. /\ N \in Nat \ {0} /\ DOMAIN names = 1..N
      /\ \A k \in 1..N : names[k] \in HostNames /\ ips[k] \in Seq(Ips)
  <2>1. /\ names \in Seq(HostNames) /\ N # 0 /\ ips \in [DOMAIN names -> Seq(Ips)]
    BY DEF IsDictionary
  <2>2. N \in Nat /\ names \in [1..N -> HostNames]
    BY <2>1, LenProperties
  <2> QED
    BY <2>1, <2>2
<1> HIDE DEF N
<1>2. \A k \in 1..N : /\ e[k] = EntriesOf(names[k], ips[k]) /\ e[k] \in Seq(Lines)
                      /\ \A l \in ToSet(e[k]) : Active(l)
  <2> TAKE k \in 1..N
  <2> DEFINE z == EntriesOf(names[k], ips[k])
             m == Len(ips[k])
  <2>1. z \in Seq(Lines) /\ Len(z) = m /\ \A i \in 1..m : Active(z[i])
    BY <1>1, EntriesTyped
  <2>2. e[k] = z
    OBVIOUS
  <2> HIDE DEF z, m, e
  <2>3. ToSet(z) = {z[i] : i \in 1..m}
    BY <2>1, Elements
  <2> QED
    BY <2>1, <2>2, <2>3 DEF z
<1>3. e \in [1..N -> Seq(Lines)]
  <2>1. \A k \in 1..N : e[k] \in Seq(Lines)
    BY <1>2
  <2> QED
    BY <2>1
<1>4. Managed(names, ips) = FlattenSeq(e)
  BY <1>1 DEF Managed
<1> HIDE DEF e
<1>5. PICK f \in [0..N -> Seq(Lines)] : Flattens(f, e, N)
  BY <1>1, <1>3, Flattening
<1>6. /\ f[0] = <<>> /\ f[N] = FlattenSeq(e)
      /\ \A n \in 1..N : f[n] = f[n - 1] \o e[n]
  BY <1>5 DEF Flattens
<1> DEFINE Good(n) == /\ \A l \in ToSet(f[n]) : Active(l)
                      /\ \A k \in 1..n : ToSet(e[k]) \subseteq ToSet(f[n])
           T == {n \in Nat : n \in 0..N => Good(n)}
<1>7. 0 \in T
  <2>1. f[0] = <<>> /\ DOMAIN <<>> = {} /\ 1..0 = {}
    BY <1>6
  <2> QED
    BY <2>1 DEF ToSet
<1>8. ASSUME NEW n \in Nat, n \in T
      PROVE  n + 1 \in T
  <2> SUFFICES ASSUME n + 1 \in 0..N PROVE Good(n + 1)
    OBVIOUS
  <2>1. n \in 0..N /\ n + 1 \in 1..N /\ (n + 1) - 1 = n
    BY <1>1
  <2>2. Good(n)
    BY <1>8, <2>1
  <2> DEFINE z == f[n]
             y == f[n + 1]
             w == e[n + 1]
  <2>3. /\ z \in Seq(Lines) /\ w \in Seq(Lines) /\ y = z \o w
        /\ \A l \in ToSet(w) : Active(l)
    BY <1>2, <1>6, <2>1
  <2>4. /\ \A l \in ToSet(z) : Active(l)
        /\ \A k \in 1..n : ToSet(e[k]) \subseteq ToSet(z)
    BY <2>2
  <2>5. \A k \in 1..(n + 1) : k \in 1..n \/ (k = n + 1 /\ e[k] = w)
    OBVIOUS
  <2>6. ToSet(y) = ToSet(z) \cup ToSet(w)
    <3> HIDE DEF z, y, w
    <3> QED
      BY <2>3, ConcatElements
  <2>7. \A l \in ToSet(y) : Active(l)
    <3> HIDE DEF z, y, w
    <3> QED
      BY <2>3, <2>4, <2>6
  <2>8. \A k \in 1..(n + 1) : ToSet(e[k]) \subseteq ToSet(y)
    <3> HIDE DEF z, y, w
    <3> QED
      BY <2>4, <2>5, <2>6
  <2> QED
    BY <2>7, <2>8
<1> HIDE DEF T
<1>9. N \in T
  BY <1>1, <1>7, <1>8, SetInduction
<1>10. Good(N)
  BY <1>1, <1>9 DEF T
<1>11. f[N] \in Seq(Lines) /\ f[N] = Managed(names, ips)
  BY <1>1, <1>4, <1>6
<1> QED
  BY <1>1, <1>2, <1>10, <1>11

\* What the entries of each name of a block add to what came before, name by name.
Accrues(sofar, names, ips, value) ==
    /\ sofar[0] = <<>>
    /\ \A n \in 1..Len(names), s \in Seq(Lines) :
          Gathered(s, value) = sofar[n - 1]
            => Gathered(s \o EntriesOf(names[n], ips[n]), value) = sofar[n]

\* What is gathered of a whole block is what its names accrue.
LEMMA ManagedGathered ==
    ASSUME NEW names, NEW ips, IsDictionary(names, ips), NEW V, NEW K, NEW value \in [K -> V],
           Note \notin K,
           NEW sofar \in [0..Len(names) -> Seq(V)], Accrues(sofar, names, ips, value)
    PROVE  Gathered(<<Note>> \o Managed(names, ips), value) = sofar[Len(names)]
<1> DEFINE N == Len(names)
           e == [k \in 1..N |-> EntriesOf(names[k], ips[k])]
<1>1. /\ N \in Nat \ {0} /\ DOMAIN names = 1..N
      /\ \A k \in 1..N : names[k] \in HostNames /\ ips[k] \in Seq(Ips)
  <2>1. /\ names \in Seq(HostNames) /\ N # 0 /\ ips \in [DOMAIN names -> Seq(Ips)]
    BY DEF IsDictionary
  <2>2. N \in Nat /\ names \in [1..N -> HostNames]
    BY <2>1, LenProperties
  <2> QED
    BY <2>1, <2>2
<1>s. /\ sofar[0] = <<>>
      /\ \A n \in 1..N, s \in Seq(Lines) :
            Gathered(s, value) = sofar[n - 1] => Gathered(s \o e[n], value) = sofar[n]
  BY DEF Accrues
<1> HIDE DEF N
<1>2. \A k \in 1..N : e[k] \in Seq(Lines)
  BY <1>1, EntriesTyped
<1>3. e \in [1..N -> Seq(Lines)]
  BY <1>2
<1>4. Managed(names, ips) = FlattenSeq(e)
  BY <1>1 DEF Managed
<1> HIDE DEF e
<1>5. PICK f \in [0..N -> Seq(Lines)] : Flattens(f, e, N)
  BY <1>1, <1>3, Flattening
<1>6. /\ f[0] = <<>> /\ f[N] = FlattenSeq(e)
      /\ \A n \in 1..N : f[n] = f[n - 1] \o e[n]
  BY <1>5 DEF Flattens
<1> DEFINE head == <<Note>>
           T == {n \in Nat : n \in 0..N => Gathered(head \o f[n], value) = sofar[n]}
<1>h. head \in Seq(Lines) /\ ToSet(head) = {Note}
  <2>1. head \in Seq(Lines) /\ Len(head) = 1 /\ head[1] = Note
    BY LinesTyped
  <2> HIDE DEF head
  <2>2. ToSet(head) = {head[k] : k \in 1..Len(head)}
    BY <2>1, Elements
  <2> QED
    BY <2>1, <2>2
<1> HIDE DEF head
<1>7. 0 \in T
  <2>1. f[0] = <<>> /\ sofar[0] = <<>>
    BY <1>6, <1>s
  <2>2. head \o <<>> = head
    BY <1>h, ConcatEmptySeq
  <2>3. Gathered(head, value) = <<>>
    <3>1. ToSet(head) \cap K = {} /\ head \in Seq(Lines)
      BY <1>h
    <3> HIDE DEF T
    <3> QED
      BY <3>1, GatheredNone
  <2> QED
    BY <2>1, <2>2, <2>3
<1>8. ASSUME NEW n \in Nat, n \in T
      PROVE  n + 1 \in T
  <2> SUFFICES ASSUME n + 1 \in 0..N PROVE Gathered(head \o f[n + 1], value) = sofar[n + 1]
    OBVIOUS
  <2>1. n \in 0..N /\ n + 1 \in 1..N /\ (n + 1) - 1 = n
    BY <1>1
  <2>2. Gathered(head \o f[n], value) = sofar[n]
    BY <1>8, <2>1
  <2> DEFINE z == f[n]
             w == e[n + 1]
  <2>3. z \in Seq(Lines) /\ w \in Seq(Lines) /\ f[n + 1] = z \o w
    BY <1>2, <1>6, <2>1
  <2> HIDE DEF z, w
  <2>4. head \o (z \o w) = (head \o z) \o w /\ head \o z \in Seq(Lines)
    <3>1. head \o (z \o w) = (head \o z) \o w
      BY <1>h, <2>3, InARow, SMTT(30)
    <3>2. head \o z \in Seq(Lines)
      BY <1>h, <2>3, ConcatProperties
    <3> QED
      BY <3>1, <3>2
  <2>5. Gathered((head \o z) \o w, value) = sofar[n + 1]
    BY <1>s, <2>1, <2>2, <2>4 DEF z, w
  <2> QED
    BY <2>3, <2>4, <2>5
<1> HIDE DEF T
<1>9. N \in T
  BY <1>1, <1>7, <1>8, SetInduction
<1>10. Gathered(head \o f[N], value) = sofar[N]
  BY <1>1, <1>9 DEF T
<1> QED
  BY <1>4, <1>6, <1>10 DEF head, N

\* The parts of a dictionary.
LEMMA DictionaryTyped ==
    ASSUME NEW names, NEW ips, IsDictionary(names, ips)
    PROVE  /\ names \in Seq(HostNames) /\ IsInjective(names)
           /\ Len(names) \in Nat \ {0} /\ DOMAIN names = 1..Len(names)
           /\ \A k \in 1..Len(names) :
                /\ names[k] \in HostNames /\ ips[k] \in Seq(Ips)
                /\ ips[k] # <<>> /\ IsInjective(ips[k])
<1>1. /\ names \in Seq(HostNames) /\ IsInjective(names) /\ Len(names) # 0
      /\ ips \in [DOMAIN names -> Seq(Ips)]
      /\ \A k \in DOMAIN names : ips[k] # <<>> /\ IsInjective(ips[k])
  BY DEF IsDictionary
<1>2. Len(names) \in Nat /\ names \in [1..Len(names) -> HostNames]
  BY <1>1, LenProperties
<1> QED
  BY <1>1, <1>2

\* The entries of the file that holds the block are the lines of that.
LEMMA EntriesAre ==
    ASSUME NEW names, NEW ips, IsDictionary(names, ips), NEW r,
           Block(r) = <<Note>> \o Managed(names, ips)
    PROVE  /\ Entries(r) = ToSet(Managed(names, ips)) /\ Entries(r) \subseteq Lines
           /\ Note \notin Entries(r)
<1> DEFINE m == Managed(names, ips)
           head == <<Note>>
<1>1. m \in Seq(Lines) /\ \A l \in ToSet(m) : Active(l)
  BY ManagedEntries
<1>2. head \in Seq(Lines) /\ Len(head) = 1 /\ head[1] = Note
  BY LinesTyped
<1> HIDE DEF m, head
<1>3. ToSet(head) = {head[k] : k \in 1..Len(head)}
  BY <1>2, Elements
<1>4. ToSet(head) = {Note}
  BY <1>2, <1>3
<1>5. ToSet(head \o m) = ToSet(head) \cup ToSet(m)
  BY <1>1, <1>2, ConcatElements
<1>6. ToSet(m) \subseteq Lines
  BY <1>1, Elements
<1>7. Entries(r) = {l \in ToSet(head \o m) : Active(l)}
  BY DEF Entries, m, head
<1> QED
  BY <1>1, <1>4, <1>5, <1>6, <1>7, LinesTyped DEF m

\* Read back, the block has the names it was written from.
LEMMA ManagedNames ==
    ASSUME NEW names, NEW ips, IsDictionary(names, ips), NEW r,
           Block(r) = <<Note>> \o Managed(names, ips)
    PROVE  Names(r) = names
<1> DEFINE N == Len(names)
           K == Entries(r)
           value == [l \in K |-> l.name]
           sofar == [n \in 0..N |-> FirstOf(names, n)]
<1>1. /\ names \in Seq(HostNames) /\ IsInjective(names)
      /\ N \in Nat \ {0} /\ DOMAIN names = 1..N
      /\ \A k \in 1..N : names[k] \in HostNames /\ ips[k] \in Seq(Ips) /\ ips[k] # <<>>
  BY DictionaryTyped
<1>2. /\ K = ToSet(Managed(names, ips)) /\ K \subseteq Lines /\ Note \notin K
      /\ \A l \in K : Active(l)
      /\ \A k \in 1..N : ToSet(EntriesOf(names[k], ips[k])) \subseteq K
  <2>1. /\ K = ToSet(Managed(names, ips)) /\ K \subseteq Lines /\ Note \notin K
    BY EntriesAre
  <2>2. /\ \A l \in ToSet(Managed(names, ips)) : Active(l)
        /\ \A k \in DOMAIN names :
             ToSet(EntriesOf(names[k], ips[k])) \subseteq ToSet(Managed(names, ips))
    BY ManagedEntries
  <2> HIDE DEF K
  <2> QED
    BY <1>1, <2>1, <2>2
<1>3. \A l \in K : l.name \in HostNames
  BY <1>2, LinesTyped
<1> HIDE DEF K, N
<1>4. value \in [K -> HostNames] /\ \A l \in K : value[l] = l.name
  BY <1>3
<1>5. \A n \in 0..N : FirstOf(names, n) \in Seq(HostNames)
  BY <1>1, FirstOfGrows DEF N
<1>6. sofar \in [0..N -> Seq(HostNames)]
  BY <1>5
<1>7. /\ sofar[0] = <<>> /\ sofar[N] = names
      /\ \A n \in 1..N : /\ Append(sofar[n - 1], names[n]) = sofar[n]
                         /\ names[n] \notin ToSet(sofar[n - 1])
  <2>1. 0 \in 0..N /\ N \in 0..N /\ \A n \in 1..N : n \in 0..N /\ n # 0 /\ n - 1 \in 0..N
    BY <1>1
  <2>2. FirstOf(names, 0) = <<>> /\ FirstOf(names, N) = names
    BY <1>1, <2>1, FirstOfGrows DEF N
  <2>3. \A n \in 1..N : /\ Append(FirstOf(names, n - 1), names[n]) = FirstOf(names, n)
                        /\ names[n] \notin ToSet(FirstOf(names, n - 1))
    BY <1>1, <2>1, FirstOfGrows DEF N
  <2> QED
    BY <2>1, <2>2, <2>3
<1> HIDE DEF sofar, value
<1>8. ASSUME NEW n \in 1..N, NEW s \in Seq(Lines), Gathered(s, value) = sofar[n - 1]
      PROVE  Gathered(s \o EntriesOf(names[n], ips[n]), value) = sofar[n]
  <2> DEFINE t == EntriesOf(names[n], ips[n])
             x == names[n]
             q == Len(ips[n])
  <2>1. /\ t \in Seq(Lines) /\ Len(t) = q /\ \A i \in 1..q : t[i].name = x
    BY <1>1, EntriesTyped
  <2>2. x \in HostNames /\ ToSet(t) \subseteq K /\ x \notin ToSet(Gathered(s, value))
    BY <1>1, <1>2, <1>7, <1>8
  <2>3. q # 0
    BY <1>1, EmptySeq
  <2> HIDE DEF t, x, q
  <2>4. ToSet(t) = {t[i] : i \in 1..Len(t)} /\ Len(t) \in Nat
    BY <2>1, Elements
  <2>5. AllGive(t, K, value, x)
    BY <1>4, <2>1, <2>2, <2>4 DEF AllGive
  <2>6. Len(t) # 0 /\ t \in Seq(Lines)
    BY <2>1, <2>3
  <2>0. value \in [K -> HostNames] /\ x \in HostNames
    BY <1>4, <2>2
  <2>7. Gathered(s \o t, value) = Append(Gathered(s, value), x)
    <3>1. AddsOnce(s, t, value, x)
      BY <2>0, <2>2, <2>5, <2>6, GatheredOne
    <3> QED
      BY <3>1 DEF AddsOnce
  <2> QED
    BY <1>7, <1>8, <2>7 DEF t, x
<1>9. Accrues(sofar, names, ips, value)
  BY <1>7, <1>8 DEF Accrues, N
<1>10. Gathered(<<Note>> \o Managed(names, ips), value) = sofar[N]
  <2>1. /\ Note \notin K /\ value \in [K -> HostNames]
        /\ sofar \in [0..Len(names) -> Seq(HostNames)] /\ Accrues(sofar, names, ips, value)
    BY <1>2, <1>4, <1>6, <1>9 DEF N
  <2> HIDE DEF Accrues
  <2>2. Gathered(<<Note>> \o Managed(names, ips), value) = sofar[Len(names)]
    BY <2>1, ManagedGathered
  <2> QED
    BY <2>2 DEF N
<1> QED
  BY <1>7, <1>10 DEF Names, value, K

\* The name x is at one place of the names at most.
OnlyAt(names, x, at) == \A k \in 1..Len(names) : names[k] = x <=> k = at

\* Each name of the block has the addresses it was written with, and no other
\* name any.
LEMMA ManagedAddresses ==
    ASSUME NEW names, NEW ips, IsDictionary(names, ips), NEW r,
           Block(r) = <<Note>> \o Managed(names, ips), NEW x,
           NEW at \in Nat, OnlyAt(names, x, at)
    PROVE  Addresses(r, x) = IF at \in 1..Len(names) THEN ips[at] ELSE <<>>
<1> DEFINE N == Len(names)
           K == {k \in Entries(r) : k.name = x}
           value == [l \in K |-> l.ip]
           sofar == [n \in 0..N |-> IF at \in 1..n THEN ips[at] ELSE <<>>]
<1>1. /\ N \in Nat \ {0} /\ DOMAIN names = 1..N
      /\ \A k \in 1..N : /\ names[k] \in HostNames /\ ips[k] \in Seq(Ips)
                         /\ IsInjective(ips[k])
  BY DictionaryTyped
<1>2. /\ K \subseteq Lines /\ Note \notin K /\ \A l \in K : Active(l)
      /\ \A l \in K : l.name = x
      /\ \A k \in 1..N : \A l \in ToSet(EntriesOf(names[k], ips[k])) : l.name = x => l \in K
  <2>1. /\ Entries(r) = ToSet(Managed(names, ips)) /\ Entries(r) \subseteq Lines
        /\ Note \notin Entries(r)
    BY EntriesAre
  <2>2. /\ \A l \in ToSet(Managed(names, ips)) : Active(l)
        /\ \A k \in DOMAIN names :
             ToSet(EntriesOf(names[k], ips[k])) \subseteq ToSet(Managed(names, ips))
    BY ManagedEntries
  <2> QED
    BY <1>1, <2>1, <2>2
<1>3. \A l \in K : l.ip \in Ips
  BY <1>2, LinesTyped
<1>n. \A k \in 1..N : names[k] = x <=> k = at
  BY DEF OnlyAt
<1> HIDE DEF K, N
<1>4. value \in [K -> Ips] /\ \A l \in K : value[l] = l.ip
  BY <1>3
<1>5. <<>> \in Seq(Ips) /\ \A n \in 0..N : at \in 1..n => at \in 1..N
  BY <1>1, EmptySeq
<1>6. sofar \in [0..N -> Seq(Ips)]
  BY <1>1, <1>5
<1>7. /\ sofar[0] = <<>> /\ sofar[N] = IF at \in 1..N THEN ips[at] ELSE <<>>
      /\ \A n \in 1..N : n = at => sofar[n - 1] = <<>> /\ sofar[n] = ips[n]
      /\ \A n \in 1..N : n # at => sofar[n - 1] = sofar[n]
  <2>1. 0 \in 0..N /\ N \in 0..N /\ \A n \in 1..N : n \in 0..N /\ n - 1 \in 0..N
    BY <1>1
  <2>2. /\ ~(at \in 1..0)
        /\ \A n \in 1..N : n = at => ~(at \in 1..(n - 1)) /\ at \in 1..n
        /\ \A n \in 1..N : n # at => (at \in 1..(n - 1) <=> at \in 1..n)
    BY <1>1
  <2> QED
    BY <2>1, <2>2
<1> HIDE DEF sofar, value
<1>8. ASSUME NEW n \in 1..N, NEW s \in Seq(Lines), Gathered(s, value) = sofar[n - 1]
      PROVE  Gathered(s \o EntriesOf(names[n], ips[n]), value) = sofar[n]
  <2> DEFINE t == EntriesOf(names[n], ips[n])
             v == ips[n]
             q == Len(v)
  <2>1. /\ t \in Seq(Lines) /\ Len(t) = q /\ v \in Seq(Ips) /\ IsInjective(v)
        /\ \A i \in 1..q : t[i].ip = v[i] /\ t[i].name = names[n]
    BY <1>1, EntriesTyped
  <2>2. \A l \in ToSet(t) : l.name = x => l \in K
    BY <1>2
  <2> HIDE DEF t, v
  <2>3. ToSet(t) = {t[i] : i \in 1..q}
    BY <2>1, Elements
  <2>4. CASE n = at
    <3>1. names[n] = x /\ Gathered(s, value) = <<>>
      BY <1>7, <1>8, <1>n, <2>4
    <3>2. \A i \in 1..q : t[i] \in K /\ value[t[i]] = v[i]
      BY <1>4, <2>1, <2>2, <2>3, <3>1
    <3>3. Gives(t, K, value, v)
      BY <2>1, <3>2 DEF Gives
    <3>4. value \in [K -> Ips] /\ v \in Seq(Ips) /\ IsInjective(v) /\ t \in Seq(Lines)
      BY <1>4, <2>1
    <3>5. Gathered(s \o t, value) = v
      BY <3>1, <3>3, <3>4, GatheredTakes
    <3> QED
      BY <1>7, <2>4, <3>5 DEF t, v
  <2>5. CASE n # at
    <3>1. names[n] # x /\ sofar[n - 1] = sofar[n]
      BY <1>7, <1>n, <2>5
    <3>2. ToSet(t) \cap K = {}
      BY <1>2, <2>1, <2>3, <3>1
    <3>3. value \in [K -> Ips] /\ t \in Seq(Lines)
      BY <1>4, <2>1
    <3>4. Gathered(s \o t, value) = Gathered(s, value)
      BY <3>2, <3>3, GatheredSkips, ZenonT(60)
    <3>5. Gathered(s \o t, value) = sofar[n]
      BY <1>8, <3>1, <3>4
    <3> QED
      BY <3>5 DEF t
  <2> QED
    BY <2>4, <2>5
<1>9. Accrues(sofar, names, ips, value)
  BY <1>7, <1>8 DEF Accrues, N
<1>10. Gathered(<<Note>> \o Managed(names, ips), value) = sofar[N]
  <2>1. /\ Note \notin K /\ value \in [K -> Ips]
        /\ sofar \in [0..Len(names) -> Seq(Ips)] /\ Accrues(sofar, names, ips, value)
    BY <1>2, <1>4, <1>6, <1>9 DEF N
  <2>2. Gathered(<<Note>> \o Managed(names, ips), value) = sofar[Len(names)]
    BY <2>1, ManagedGathered
  <2> QED
    BY <2>2 DEF N
<1> QED
  BY <1>7, <1>10 DEF Addresses, value, K, N

-----------------------------------------------------------------------------
(***************************************************************************)
(* The transforms of the file.                                             *)
(***************************************************************************)

\* What avai reads of any file is a dictionary: the names that have addresses.
LEMMA ReadTyped ==
    ASSUME NEW t \in Seq(Lines)
    PROVE  /\ Names(t) \in Seq(HostNames) /\ IsInjective(Names(t))
           /\ \A x : /\ Addresses(t, x) \in Seq(Ips) /\ IsInjective(Addresses(t, x))
                     /\ Addresses(t, x) # <<>> <=> x \in ToSet(Names(t))
                     /\ x \in ToSet(Names(t)) => Resolves(t, x)
<1> DEFINE K == Entries(t)
           names == [l \in K |-> l.name]
           Kx(x) == {k \in K : k.name = x}
           ips(x) == [l \in Kx(x) |-> l.ip]
<1>1. /\ Block(t) \in Seq(Lines) /\ ToSet(Block(t)) \subseteq ToSet(t)
      /\ ToSet(Block(t)) \subseteq Lines
  <2>1. Block(t) \in Seq(Lines) /\ ToSet(Block(t)) \subseteq ToSet(t)
    BY PartsOf
  <2> QED
    BY <2>1, Elements
<1>2. /\ K \subseteq ToSet(Block(t)) /\ \A l \in K : Active(l)
      /\ \A l \in K : l.name \in HostNames /\ l.ip \in Ips
  <2>1. K \subseteq ToSet(Block(t)) /\ \A l \in K : Active(l)
    BY DEF Entries
  <2> QED
    BY <1>1, <2>1, LinesTyped
<1> HIDE DEF K
<1>3. /\ Names(t) \in Seq(HostNames) /\ IsInjective(Names(t))
      /\ ToSet(Names(t)) = {l.name : l \in K}
  <2>1. names \in [K -> HostNames] /\ \A l \in K : names[l] = l.name
    BY <1>2
  <2>2. Names(t) = Gathered(Block(t), names)
    BY DEF Names, K
  <2> HIDE DEF names
  <2>3. /\ Gathered(Block(t), names) \in Seq(HostNames)
        /\ Holds(Gathered(Block(t), names), ToSet(Block(t)), K, names)
    BY <1>1, <2>1, GatheredIs
  <2>4. IsInjective(Names(t)) /\ ToSet(Names(t)) = {names[l] : l \in ToSet(Block(t)) \cap K}
    BY <2>2, <2>3 DEF Holds
  <2> QED
    BY <1>2, <2>1, <2>2, <2>3, <2>4
<1>4. ASSUME NEW x
      PROVE  /\ Addresses(t, x) \in Seq(Ips) /\ IsInjective(Addresses(t, x))
             /\ ToSet(Addresses(t, x)) = {l.ip : l \in Kx(x)}
  <2> DEFINE v == ips(x)
             A == Kx(x)
  <2>1. v \in [A -> Ips] /\ \A l \in A : v[l] = l.ip
    BY <1>2
  <2>2. Addresses(t, x) = Gathered(Block(t), v) /\ A \subseteq K
    BY DEF Addresses, K
  <2> HIDE DEF v, A
  <2>3. /\ Gathered(Block(t), v) \in Seq(Ips)
        /\ Holds(Gathered(Block(t), v), ToSet(Block(t)), A, v)
    BY <1>1, <2>1, GatheredIs
  <2>4. IsInjective(Addresses(t, x)) /\ ToSet(Addresses(t, x)) = {v[l] : l \in ToSet(Block(t)) \cap A}
    BY <2>2, <2>3 DEF Holds
  <2>5. ToSet(Addresses(t, x)) = {l.ip : l \in A}
    BY <1>2, <2>1, <2>2, <2>4
  <2> QED
    BY <2>2, <2>3, <2>4, <2>5 DEF A
<1>5. ASSUME NEW x
      PROVE  Addresses(t, x) # <<>> <=> x \in ToSet(Names(t))
  <2> DEFINE g == Addresses(t, x)
  <2>1. g \in Seq(Ips) /\ ToSet(g) = {l.ip : l \in Kx(x)}
    BY <1>4
  <2>2. ToSet(g) # {} <=> x \in ToSet(Names(t))
    BY <1>3, <2>1
  <2> HIDE DEF g
  <2>3. ToSet(g) = {g[k] : k \in 1..Len(g)} /\ Len(g) \in Nat
    BY <2>1, Elements
  <2>4. Len(g) = 0 <=> g = <<>>
    BY <2>1, EmptySeq
  <2>5. Len(g) # 0 => 1 \in 1..Len(g)
    BY <2>3
  <2>6. ToSet(g) # {} <=> g # <<>>
    BY <2>3, <2>4, <2>5
  <2> QED
    BY <2>2, <2>6 DEF g
<1>6. ASSUME NEW x, x \in ToSet(Names(t))
      PROVE  Resolves(t, x)
  <2>1. PICK l \in K : l.name = x
    BY <1>3, <1>6
  <2>2. l \in ToSet(t) /\ Active(l)
    BY <1>1, <1>2
  <2> QED
    BY <2>1, <2>2 DEF Resolves
<1> QED
  BY <1>3, <1>4, <1>5, <1>6

\* The file r has the parts of t around a block with these names and addresses.
ReadsAs(r, t, names, ips) ==
    /\ WellFormed(r) /\ Before(r) = Before(t) /\ After(r) = After(t)
    /\ Names(r) = names
    /\ \A k \in DOMAIN names : Addresses(r, names[k]) = ips[k]
    /\ \A x : x \notin ToSet(names) => Addresses(r, x) = <<>>

\* A rewritten file is one with a block, between the lines that were around it.
LEMMA RewriteIs ==
    ASSUME NEW t \in Seq(Lines), NEW names, NEW ips, IsDictionary(names, ips)
    PROVE  /\ Rewrite(t, names, ips) = WithBlock(Before(t), Managed(names, ips), After(t))
           /\ Rewrite(t, names, ips) \in Seq(Lines)
<1>1. names # <<>>
  <2>1. Len(names) # 0 /\ names \in Seq(HostNames)
    BY DictionaryTyped
  <2> QED
    BY <2>1, EmptySeq
<1> DEFINE r == WithBlock(Before(t), Managed(names, ips), After(t))
<1>2. Rewrite(t, names, ips) = r
  BY <1>1 DEF Rewrite, WithBlock, Managed
<1>3. /\ Before(t) \in Seq(Lines) /\ Managed(names, ips) \in Seq(Lines)
      /\ After(t) \in Seq(Lines)
  <2>1. Managed(names, ips) \in Seq(Lines)
    BY ManagedEntries
  <2> QED
    BY <2>1, PartsOf
<1>4. HasPlaces(r, Before(t), Managed(names, ips), After(t))
  BY <1>3, Places
<1> QED
  BY <1>2, <1>4 DEF HasPlaces

\* Rewriting a file and reading it back gives the dictionary it was written from.
LEMMA RewriteIsRead ==
    ASSUME NEW t \in Seq(Lines), {Begin, End} \cap ToSet(Before(t)) = {},
           NEW names, NEW ips, IsDictionary(names, ips)
    PROVE  ReadsAs(Rewrite(t, names, ips), t, names, ips)
<1> DEFINE m == Managed(names, ips)
           r == Rewrite(t, names, ips)
           b == Before(t)
           a == After(t)
<1>1. r = WithBlock(b, m, a)
  BY RewriteIs
<1>2. m \in Seq(Lines) /\ \A l \in ToSet(m) : Active(l)
  BY ManagedEntries
<1>3. b \in Seq(Lines) /\ a \in Seq(Lines)
  BY PartsOf
<1>4. {Begin, End} \cap (ToSet(b) \cup ToSet(m)) = {}
  BY <1>2, LinesTyped
<1> HIDE DEF r, m, b, a
<1>5. WellFormed(r) /\ Before(r) = b /\ After(r) = a /\ Block(r) = <<Note>> \o m
  <2>1. LET w == WithBlock(b, m, a)
        IN  WellFormed(w) /\ Before(w) = b /\ After(w) = a /\ Block(w) = <<Note>> \o m
    BY <1>2, <1>3, <1>4, BlockIsRead
  <2> QED
    BY <1>1, <2>1
<1>6. Names(r) = names
  BY <1>5, ManagedNames DEF m
<1>7. /\ names \in Seq(HostNames) /\ IsInjective(names)
      /\ Len(names) \in Nat /\ DOMAIN names = 1..Len(names)
  BY DictionaryTyped
<1>8. ASSUME NEW at \in DOMAIN names
      PROVE  Addresses(r, names[at]) = ips[at]
  <2> DEFINE x == names[at]
  <2>1. at \in Nat /\ OnlyAt(names, x, at)
    BY <1>7 DEF IsInjective, OnlyAt
  <2>2. at \in 1..Len(names)
    BY <1>7
  <2> HIDE DEF x
  <2>3. Addresses(r, x) = IF at \in 1..Len(names) THEN ips[at] ELSE <<>>
    BY <1>5, <2>1, ManagedAddresses DEF m
  <2> QED
    BY <2>2, <2>3 DEF x
<1>9. ASSUME NEW x, x \notin ToSet(names)
      PROVE  Addresses(r, x) = <<>>
  <2>1. ToSet(names) = {names[k] : k \in 1..Len(names)}
    BY <1>7, Elements
  <2>2. 0 \in Nat /\ ~(0 \in 1..Len(names)) /\ OnlyAt(names, x, 0)
    BY <1>7, <1>9, <2>1 DEF OnlyAt
  <2>3. Addresses(r, x) = IF 0 \in 1..Len(names) THEN ips[0] ELSE <<>>
    BY <1>5, <2>2, ManagedAddresses DEF m
  <2> QED
    BY <2>2, <2>3
<1>10. ReadsAs(r, t, names, ips)
  BY <1>5, <1>6, <1>8, <1>9 DEF ReadsAs, a, b
<1> QED
  BY <1>10 DEF r

\* The file r has the lines that t has around its block, and all of t if the markers
\* there are damaged.
Keeps(r, t) ==
    /\ r \in Seq(Lines)
    /\ WellFormed(t) => Unmanaged(t) \in {r, Unmanaged(r)}
    /\ ~WellFormed(t) => IsPrefix(t, r)

\* Rewriting a file keeps the lines around its block, with or without names left.
LEMMA RewriteKeeps ==
    ASSUME NEW t \in Seq(Lines), NEW names, NEW ips,
           names = <<>> \/ IsDictionary(names, ips)
    PROVE  Keeps(Rewrite(t, names, ips), t)
<1> DEFINE b == Before(t)
           a == After(t)
           r == Rewrite(t, names, ips)
<1>1. b \in Seq(Lines) /\ a \in Seq(Lines)
  BY PartsOf
<1>2. PICK y \in Seq(Lines) : r = b \o (y \o a) /\ (names = <<>> => y = <<>>)
  <2>1. CASE names = <<>>
    <3>1. r = b \o <<>> \o a
      BY <2>1 DEF Rewrite
    <3> HIDE DEF r, b, a
    <3>2. b \o <<>> = b /\ <<>> \o a = a /\ <<>> \in Seq(Lines)
      BY <1>1, ConcatEmptySeq, EmptySeq
    <3> QED
      BY <3>1, <3>2
  <2>2. CASE names # <<>>
    <3> DEFINE m == Managed(names, ips)
               y == <<Begin, Note>> \o m \o <<End>>
    <3>1. IsDictionary(names, ips)
      BY <2>2
    <3>2. r = b \o y \o a
      <4>1. r = WithBlock(b, m, a)
        BY <3>1, RewriteIs
      <4> QED
        BY <4>1 DEF WithBlock
    <3>3. m \in Seq(Lines)
      BY <3>1, ManagedEntries
    <3> HIDE DEF m, r, b, a
    <3>4. y \in Seq(Lines)
      <4> DEFINE head == <<Begin, Note>>
                 last == <<End>>
      <4>1. head \in Seq(Lines) /\ last \in Seq(Lines)
        BY LinesTyped
      <4> HIDE DEF head, last
      <4>2. head \o m \in Seq(Lines)
        BY <3>3, <4>1, ConcatProperties
      <4>3. (head \o m) \o last \in Seq(Lines)
        BY <4>1, <4>2, ConcatProperties
      <4> QED
        BY <4>3 DEF head, last
    <3> HIDE DEF y
    <3>5. b \o (y \o a) = (b \o y) \o a
      BY <1>1, <3>4, InARow, SMTT(30)
    <3> QED
      BY <2>2, <3>2, <3>4, <3>5
  <2> QED
    BY <2>1, <2>2
<1>3. CASE ~WellFormed(t)
  <2>1. b = t
    BY <1>3, PartsOf
  <2> DEFINE c == y \o a
  <2>2. c \in Seq(Lines) /\ r = t \o c
    <3> HIDE DEF r, b, a
    <3>1. y \o a \in Seq(Lines)
      BY <1>1, <1>2, ConcatProperties
    <3> QED
      BY <1>2, <2>1, <3>1
  <2> HIDE DEF c, r, b, a
  <2>3. r \in Seq(Lines) /\ IsJoined(r, t, c)
    BY <2>2, Joined
  <2>4. IsPrefix(t, r)
    <3> DEFINE n == Len(t)
    <3>1. n \in Nat /\ Len(c) \in Nat /\ Len(r) = n + Len(c) /\ \A k \in 1..n : r[k] = t[k]
      BY <2>3 DEF IsJoined
    <3>2. n <= Len(r) /\ 1 + n = n + 1 /\ 1 \in Nat \ {0} /\ n <= Len(t)
      BY <3>1
    <3> HIDE DEF n
    <3>3. SubSeq(r, 1, n) \in Seq(Lines) /\ IsSlice(SubSeq(r, 1, n), r, 1, n)
      BY <2>3, <3>1, <3>2, Slice
    <3>4. SubSeq(t, 1, n) \in Seq(Lines) /\ IsSlice(SubSeq(t, 1, n), t, 1, n)
      BY <3>1, <3>2, Slice
    <3> DEFINE u == SubSeq(r, 1, n)
               v == SubSeq(t, 1, n)
    <3>5. /\ u \in Seq(Lines) /\ Len(u) = n /\ \A i \in 1..n : u[i] = r[1 + i - 1]
          /\ v \in Seq(Lines) /\ Len(v) = n /\ \A i \in 1..n : v[i] = t[1 + i - 1]
      BY <3>3, <3>4 DEF IsSlice
    <3> HIDE DEF u, v
    <3>6. \A i \in 1..n : u[i] = v[i]
      <4> TAKE i \in 1..n
      <4>1. 1 + i - 1 = i
        BY <3>1
      <4> QED
        BY <3>1, <3>5, <4>1
    <3>7. u = v
      BY <3>5, <3>6, SeqEqual
    <3> QED
      BY <3>2, <3>7 DEF IsPrefix, u, v, n
  <2> QED
    BY <1>3, <2>3, <2>4 DEF Keeps, r
<1>4. CASE WellFormed(t) /\ names = <<>>
  <2>1. r = b \o a
    <3> HIDE DEF r, b, a
    <3>1. <<>> \o a = a
      BY <1>1, ConcatEmptySeq
    <3> QED
      BY <1>2, <1>4, <3>1
  <2>2. b \o a \in Seq(Lines)
    <3> HIDE DEF b, a
    <3> QED
      BY <1>1, ConcatProperties
  <2>3. r = Unmanaged(t)
    BY <2>1 DEF Unmanaged
  <2> QED
    BY <1>4, <2>1, <2>2, <2>3 DEF Keeps
<1>5. CASE WellFormed(t) /\ names # <<>>
  <2>1. ReadsAs(r, t, names, ips) /\ r \in Seq(Lines)
    BY <1>5, PartsOf, RewriteIsRead, RewriteIs
  <2>2. Unmanaged(r) = Unmanaged(t)
    BY <2>1 DEF ReadsAs, Unmanaged
  <2> QED
    BY <1>5, <2>1, <2>2 DEF Keeps
<1> QED
  BY <1>3, <1>4, <1>5

\* The dictionary that is written to install a name.
InstalledNames(t, d) == AppendNew(Names(t), d)
InstalledIps(t, d) ==
    LET names == InstalledNames(t, d)
    IN  [i \in DOMAIN names |-> IF names[i] = d THEN Loopback ELSE Addresses(t, names[i])]

\* The addresses of this computer are two.
LEMMA LoopbackTyped ==
    Loopback \in Seq(Ips) /\ Loopback # <<>> /\ IsInjective(Loopback)
<1>1. Loopback \in Seq(Ips)
  BY LinesTyped
<1>2. Loopback # <<>> /\ DOMAIN Loopback = {1, 2} /\ Loopback[1] # Loopback[2]
  BY DEF Loopback
<1> QED
  BY <1>1, <1>2 DEF IsInjective

\* Installing writes a dictionary with the name added.
LEMMA InstalledTyped ==
    ASSUME NEW t \in Seq(Lines), NEW d \in HostNames
    PROVE  /\ IsDictionary(InstalledNames(t, d), InstalledIps(t, d))
           /\ ToSet(InstalledNames(t, d)) = ToSet(Names(t)) \cup {d}
<1> DEFINE old == Names(t)
           names == InstalledNames(t, d)
           ips == InstalledIps(t, d)
<1>1. old \in Seq(HostNames) /\ IsInjective(old)
  BY ReadTyped
<1>2. /\ names \in Seq(HostNames) /\ IsInjective(names) /\ ToSet(names) = ToSet(old) \cup {d}
  <2>1. names = AppendNew(old, d)
    BY DEF InstalledNames
  <2> HIDE DEF names, old
  <2>2. CASE d \in ToSet(old)
    BY <1>1, <2>1, <2>2 DEF AppendNew
  <2>3. CASE d \notin ToSet(old)
    <3>1. names = Append(old, d)
      BY <2>1, <2>3 DEF AppendNew
    <3>2. /\ Append(old, d) \in Seq(HostNames) /\ ToSet(Append(old, d)) = ToSet(old) \cup {d}
          /\ IsInjective(old) /\ d \notin ToSet(old) => IsInjective(Append(old, d))
      BY <1>1, AppendElement
    <3> QED
      BY <1>1, <2>3, <3>1, <3>2
  <2> QED
    BY <2>2, <2>3
<1>3. ips = [i \in DOMAIN names |-> IF names[i] = d THEN Loopback ELSE Addresses(t, names[i])]
  BY DEF InstalledIps
<1> HIDE DEF names, ips
<1>4. /\ Len(names) \in Nat /\ DOMAIN names = 1..Len(names)
      /\ ToSet(names) = {names[k] : k \in 1..Len(names)}
  BY <1>2, Elements
<1>5. Len(names) # 0
  <2>1. d \in ToSet(names)
    BY <1>2
  <2> QED
    BY <1>4, <2>1
<1>6. ASSUME NEW k \in DOMAIN names
      PROVE  ips[k] \in Seq(Ips) /\ ips[k] # <<>> /\ IsInjective(ips[k])
  <2> DEFINE x == names[k]
  <2>1. CASE x = d
    <3>1. ips[k] = Loopback
      BY <1>3, <2>1
    <3> QED
      BY <3>1, LoopbackTyped
  <2>2. CASE x # d
    <3>1. ips[k] = Addresses(t, x) /\ x \in ToSet(old)
      BY <1>2, <1>3, <1>4, <2>2
    <3> HIDE DEF x
    <3> QED
      BY <3>1, ReadTyped
  <2> QED
    BY <2>1, <2>2
<1>7. ips \in [DOMAIN names -> Seq(Ips)]
  <2>1. ips = [i \in DOMAIN names |-> ips[i]]
    BY <1>3
  <2> QED
    BY <1>6, <2>1
<1>8. IsDictionary(names, ips)
  BY <1>2, <1>5, <1>6, <1>7 DEF IsDictionary
<1> QED
  BY <1>2, <1>8 DEF names, ips, old

\* Installing rewrites the file, unless the name has its addresses.
LEMMA InstallIs ==
    ASSUME NEW t, NEW d
    PROVE  WithMapping(t, d) = IF Addresses(t, d) = Loopback THEN t
                               ELSE Rewrite(t, InstalledNames(t, d), InstalledIps(t, d))
BY DEF WithMapping, InstalledNames, InstalledIps

\* What is read of the file after the name was installed.
Installed(r, t, d) ==
    /\ r \in Seq(Lines)
    /\ Before(r) = Before(t) /\ After(r) = After(t)
    /\ Addresses(r, d) = Loopback
    /\ \A x : x # d => Addresses(r, x) = Addresses(t, x)

\* Installing gives the name its addresses and leaves the others theirs.
LEMMA InstallAdds ==
    ASSUME NEW t \in Seq(Lines), {Begin, End} \cap ToSet(Before(t)) = {}, NEW d \in HostNames
    PROVE  Installed(WithMapping(t, d), t, d)
<1> DEFINE names == InstalledNames(t, d)
           ips == InstalledIps(t, d)
           r == Rewrite(t, names, ips)
<1>1. CASE Addresses(t, d) = Loopback
  BY <1>1, InstallIs DEF Installed
<1>2. CASE Addresses(t, d) # Loopback
  <2>1. WithMapping(t, d) = r
    BY <1>2, InstallIs
  <2>2. IsDictionary(names, ips) /\ ToSet(names) = ToSet(Names(t)) \cup {d}
    BY InstalledTyped
  <2>3. ips = [i \in DOMAIN names |-> IF names[i] = d THEN Loopback ELSE Addresses(t, names[i])]
    BY DEF InstalledIps
  <2> HIDE DEF names, ips
  <2>4. r \in Seq(Lines) /\ ReadsAs(r, t, names, ips)
    BY <2>2, RewriteIs, RewriteIsRead
  <2>5. /\ Before(r) = Before(t) /\ After(r) = After(t)
        /\ \A k \in DOMAIN names : Addresses(r, names[k]) = ips[k]
        /\ \A x : x \notin ToSet(names) => Addresses(r, x) = <<>>
    BY <2>4 DEF ReadsAs
  <2>6. ToSet(names) = {names[k] : k \in DOMAIN names}
    BY DEF ToSet
  <2> HIDE DEF r
  <2>7. Addresses(r, d) = Loopback
    <3>1. PICK k \in DOMAIN names : names[k] = d
      BY <2>2, <2>6
    <3> QED
      BY <2>3, <2>5, <3>1
  <2>8. ASSUME NEW x, x # d
        PROVE  Addresses(r, x) = Addresses(t, x)
    <3>1. CASE x \in ToSet(names)
      <4>1. PICK k \in DOMAIN names : names[k] = x
        BY <2>6, <3>1
      <4> QED
        BY <2>3, <2>5, <2>8, <4>1
    <3>2. CASE x \notin ToSet(names)
      <4>1. Addresses(r, x) = <<>> /\ x \notin ToSet(Names(t))
        BY <2>2, <2>5, <3>2
      <4>2. Addresses(t, x) = <<>>
        BY <4>1, ReadTyped
      <4> QED
        BY <4>1, <4>2
    <3> QED
      BY <3>1, <3>2
  <2>9. Installed(r, t, d)
    BY <2>4, <2>5, <2>7, <2>8 DEF Installed
  <2> QED
    BY <2>1, <2>9
<1> QED
  BY <1>1, <1>2

\* The dictionary that is written to remove a name.
RemainingNames(t, d) == RemoveFirst(Names(t), d)
RemainingIps(t, d) ==
    LET names == RemainingNames(t, d)
    IN  [i \in DOMAIN names |-> Addresses(t, names[i])]

\* Removing writes a dictionary without the name, or no block.
LEMMA RemainingTyped ==
    ASSUME NEW t \in Seq(Lines), NEW d \in ToSet(Names(t))
    PROVE  /\ \/ RemainingNames(t, d) = <<>>
              \/ IsDictionary(RemainingNames(t, d), RemainingIps(t, d))
           /\ ToSet(RemainingNames(t, d)) = ToSet(Names(t)) \ {d}
<1> DEFINE old == Names(t)
           names == RemainingNames(t, d)
           ips == RemainingIps(t, d)
<1>1. old \in Seq(HostNames) /\ IsInjective(old)
  BY ReadTyped
<1>2. /\ names \in Seq(HostNames) /\ IsInjective(names) /\ ToSet(names) = ToSet(old) \ {d}
  <2>1. names = RemoveFirst(old, d)
    BY DEF RemainingNames
  <2> HIDE DEF names, old
  <2>2. /\ RemoveFirst(old, d) \in Seq(HostNames) /\ IsInjective(RemoveFirst(old, d))
        /\ ToSet(RemoveFirst(old, d)) = ToSet(old) \ {d}
    BY <1>1, RemovedOne DEF old
  <2> QED
    BY <2>1, <2>2
<1>3. ips = [i \in DOMAIN names |-> Addresses(t, names[i])]
  BY DEF RemainingIps
<1> HIDE DEF names, ips
<1>4. ToSet(names) = {names[k] : k \in DOMAIN names}
  BY DEF ToSet
<1>5. ASSUME NEW k \in DOMAIN names
      PROVE  ips[k] \in Seq(Ips) /\ ips[k] # <<>> /\ IsInjective(ips[k])
  <2> DEFINE x == names[k]
  <2>1. ips[k] = Addresses(t, x) /\ x \in ToSet(old)
    BY <1>2, <1>3, <1>4
  <2> HIDE DEF x
  <2> QED
    BY <2>1, ReadTyped
<1>6. ips \in [DOMAIN names -> Seq(Ips)]
  <2>1. ips = [i \in DOMAIN names |-> ips[i]]
    BY <1>3
  <2> QED
    BY <1>5, <2>1
<1>7. names = <<>> \/ Len(names) # 0
  BY <1>2, EmptySeq
<1>8. names = <<>> \/ IsDictionary(names, ips)
  BY <1>2, <1>5, <1>6, <1>7 DEF IsDictionary
<1> QED
  BY <1>2, <1>8 DEF names, ips, old

\* Removing rewrites the file, if the block has the name.
LEMMA RemoveIs ==
    ASSUME NEW t, NEW d
    PROVE  WithoutMapping(t, d) = IF d \notin ToSet(Names(t)) THEN t
                                  ELSE Rewrite(t, RemainingNames(t, d), RemainingIps(t, d))
BY DEF WithoutMapping, RemainingNames, RemainingIps

\* What is read of the file after the name was removed.
Removed(r, t, d) ==
    /\ Unmanaged(r) = Unmanaged(t)
    /\ Addresses(r, d) = <<>>
    /\ \A x : x # d => Addresses(r, x) = Addresses(t, x)

\* Removing takes the name and leaves the other lines and the other names, also when
\* no block is left and the rest must not be mistaken for one.
LEMMA RemoveTakes ==
    ASSUME NEW t \in Seq(Lines), {Begin, End} \cap ToSet(Before(t)) = {},
           ~WellFormed(After(t)), NEW d \in ToSet(Names(t))
    PROVE  Removed(WithoutMapping(t, d), t, d)
<1> DEFINE names == RemainingNames(t, d)
           ips == RemainingIps(t, d)
           r == Rewrite(t, names, ips)
           b == Before(t)
           a == After(t)
<1>1. WithoutMapping(t, d) = r
  BY RemoveIs
<1>2. /\ names = <<>> \/ IsDictionary(names, ips)
      /\ ToSet(names) = ToSet(Names(t)) \ {d}
  BY RemainingTyped
<1>3. ips = [i \in DOMAIN names |-> Addresses(t, names[i])]
  BY DEF RemainingIps
<1>4. \A x : x \notin ToSet(Names(t)) => Addresses(t, x) = <<>>
  BY ReadTyped
<1>5. b \in Seq(Lines) /\ a \in Seq(Lines)
  BY PartsOf
<1> HIDE DEF names, ips
<1>6. CASE names = <<>>
  <2>1. r = b \o <<>> \o a
    BY <1>6 DEF Rewrite
  <2> HIDE DEF r, b, a
  <2>2. b \o <<>> = b
    BY <1>5, ConcatEmptySeq
  <2>3. r = b \o a /\ r \in Seq(Lines)
    <3>1. b \o a \in Seq(Lines)
      BY <1>5, ConcatProperties
    <3> QED
      BY <2>1, <2>2, <3>1
  <2>4. ~WellFormed(r)
    <3>1. ~WellFormed(b \o a)
      BY <1>5, NoBlockInFront DEF a, b
    <3> QED
      BY <2>3, <3>1
  <2>5. Before(r) = r /\ After(r) = <<>> /\ Block(r) = <<>>
    BY <2>3, <2>4, PartsOf
  <2>6. Unmanaged(r) = r
    <3>1. r \o <<>> = r
      BY <2>3, ConcatEmptySeq
    <3> QED
      BY <2>5, <3>1 DEF Unmanaged
  <2>7. Unmanaged(t) = b \o a
    BY DEF Unmanaged, a, b
  <2>8. ToSet(names) = {} /\ ToSet(Names(r)) = {}
    <3>1. DOMAIN <<>> = {}
      OBVIOUS
    <3>2. ToSet(Block(r)) = {}
      BY <2>5, <3>1 DEF ToSet
    <3> DEFINE K == Entries(r)
               value == [l \in K |-> l.name]
    <3>3. K = {} /\ value \in [K -> HostNames]
      BY <3>2 DEF Entries
    <3>4. Names(r) = Gathered(Block(r), value) /\ Block(r) \in Seq(Lines)
      BY <2>3, PartsOf DEF Names
    <3> HIDE DEF K, value
    <3>5. Gathered(Block(r), value) = <<>>
      BY <3>3, <3>4, <3>2, GatheredNone
    <3> QED
      BY <1>6, <3>1, <3>4, <3>5 DEF ToSet
  <2>9. \A x : Addresses(r, x) = <<>>
    BY <2>3, <2>8, ReadTyped
  <2>10. \A x : x # d => Addresses(t, x) = <<>>
    BY <1>2, <1>4, <2>8
  <2>11. Removed(r, t, d)
    BY <2>3, <2>6, <2>7, <2>9, <2>10 DEF Removed
  <2> QED
    BY <1>1, <2>11 DEF r
<1>7. CASE names # <<>>
  <2>1. ReadsAs(r, t, names, ips)
    BY <1>2, <1>7, RewriteIsRead
  <2>2. /\ Unmanaged(r) = Unmanaged(t)
        /\ \A k \in DOMAIN names : Addresses(r, names[k]) = ips[k]
        /\ \A x : x \notin ToSet(names) => Addresses(r, x) = <<>>
    BY <2>1 DEF ReadsAs, Unmanaged
  <2>3. ToSet(names) = {names[k] : k \in DOMAIN names}
    BY DEF ToSet
  <2> HIDE DEF r
  <2>4. Addresses(r, d) = <<>>
    BY <1>2, <2>2
  <2>5. ASSUME NEW x, x # d
        PROVE  Addresses(r, x) = Addresses(t, x)
    <3>1. CASE x \in ToSet(names)
      <4>1. PICK k \in DOMAIN names : names[k] = x
        BY <2>3, <3>1
      <4> QED
        BY <1>3, <2>2, <4>1
    <3>2. CASE x \notin ToSet(names)
      BY <1>2, <1>4, <2>2, <2>5, <3>2
    <3> QED
      BY <3>1, <3>2
  <2>6. Removed(r, t, d)
    BY <2>2, <2>4, <2>5, SMTT(30) DEF Removed
  <2> QED
    BY <1>1, <2>6
<1> QED
  BY <1>6, <1>7

-----------------------------------------------------------------------------
(***************************************************************************)
(* What the file and the actors hold, whatever happens to them.            *)
(***************************************************************************)

Actors == {"dashboard", "command"}
Requests == {"ensure", "install", "remove"}
Outcomes == {"none", "crash", "unchanged", "removed", "created", "needs_privilege", "error"}
ActorType == [pc : {"rest", "resolve", "read", "write"}, do : Requests \cup {"none"},
              name : HostNames, text : Seq(Lines), outcome : Outcomes]

HostsTyped == hosts \in Seq(Lines) /\ actor \in [Actors -> ActorType]

\* An actor that rests, or is asked for something, is of its type.
LEMMA RestingTyped ==
    /\ Resting \in ActorType
    /\ \A o \in Outcomes : [Resting EXCEPT !.outcome = o] \in ActorType
    /\ \A pc \in {"resolve", "read"}, do \in Requests, name \in HostNames :
         [Resting EXCEPT !.pc = pc, !.do = do, !.name = name] \in ActorType
<1>1. <<>> \in Seq(Lines) /\ Dashboard \in HostNames
  BY EmptySeq DEF HostNames
<1> HIDE DEF Lines, HostNames
<1> QED
  BY <1>1 DEF Resting, ActorType, Requests, Outcomes

\* The transforms of the file give lines again, and keep those around the block.
LEMMA TransformKeeps ==
    ASSUME NEW t \in Seq(Lines), NEW d \in HostNames
    PROVE  /\ WithMapping(t, d) = t \/ Keeps(WithMapping(t, d), t)
           /\ WithoutMapping(t, d) = t \/ Keeps(WithoutMapping(t, d), t)
<1>1. Keeps(Rewrite(t, InstalledNames(t, d), InstalledIps(t, d)), t)
  <2>1. IsDictionary(InstalledNames(t, d), InstalledIps(t, d))
    BY InstalledTyped
  <2> QED
    BY <2>1, RewriteKeeps
<1>2. ASSUME d \in ToSet(Names(t))
      PROVE  Keeps(Rewrite(t, RemainingNames(t, d), RemainingIps(t, d)), t)
  <2>1. \/ RemainingNames(t, d) = <<>>
        \/ IsDictionary(RemainingNames(t, d), RemainingIps(t, d))
    BY <1>2, RemainingTyped
  <2> QED
    BY <2>1, RewriteKeeps
<1> QED
  BY <1>1, <1>2, InstallIs, RemoveIs

\* So do those that an actor is about to write.
LEMMA TransformedKeeps ==
    ASSUME HostsTyped, NEW a \in Actors
    PROVE  /\ Transformed(a) \in Seq(Lines)
           /\ Transformed(a) # actor[a].text => Keeps(Transformed(a), actor[a].text)
<1> DEFINE t == actor[a].text
           d == actor[a].name
<1>1. t \in Seq(Lines) /\ d \in HostNames
  BY DEF HostsTyped, ActorType
<1>2. Transformed(a) \in {WithMapping(t, d), WithoutMapping(t, d)}
  BY DEF Transformed
<1> HIDE DEF t, d
<1>3. Transformed(a) = t \/ Keeps(Transformed(a), t)
  BY <1>1, <1>2, TransformKeeps
<1> QED
  BY <1>1, <1>3 DEF Keeps, t

\* The lines the user adds, and those that are left when one is taken away.
LEMMA EditsTyped ==
    ASSUME NEW t \in Seq(Lines)
    PROVE  /\ \A l \in UserLines : Append(t, l) \in Seq(Lines) /\ <<l>> \o t \in Seq(Lines)
           /\ \A i \in DOMAIN t : RemoveAt(t, i) \in Seq(Lines)
<1>1. ASSUME NEW l \in UserLines
      PROVE  Append(t, l) \in Seq(Lines) /\ <<l>> \o t \in Seq(Lines)
  <2>1. l \in Lines
    BY LinesTyped DEF FileLines
  <2> DEFINE one == <<l>>
  <2>2. one \in Seq(Lines)
    BY <2>1
  <2> HIDE DEF one
  <2>3. one \o t \in Seq(Lines)
    BY <2>2, ConcatProperties
  <2>4. Append(t, l) \in Seq(Lines)
    BY <2>1, AppendProperties
  <2> QED
    BY <2>3, <2>4 DEF one
<1>2. ASSUME NEW i \in DOMAIN t
      PROVE  RemoveAt(t, i) \in Seq(Lines)
  <2> DEFINE N == Len(t)
             before == i - 1
             from == i + 1
             k == N - i
  <2>1. N \in Nat /\ i \in 1..N
    BY LenProperties
  <2>2. /\ 1 \in Nat \ {0} /\ before \in Nat /\ 1 + before = before + 1 /\ before <= Len(t)
        /\ from \in Nat \ {0} /\ k \in Nat /\ from + k = N + 1 /\ N <= Len(t)
    BY <2>1
  <2>3. RemoveAt(t, i) = SubSeq(t, 1, before) \o SubSeq(t, from, N)
    BY DEF RemoveAt
  <2> HIDE DEF before, from, k, N
  <2>4. SubSeq(t, 1, before) \in Seq(Lines)
    BY <2>2, Slice
  <2>5. SubSeq(t, from, N) \in Seq(Lines)
    BY <2>1, <2>2, Slice
  <2>6. SubSeq(t, 1, before) \o SubSeq(t, from, N) \in Seq(Lines)
    BY <2>4, <2>5, ConcatProperties
  <2> QED
    BY <2>3, <2>6
<1> QED
  BY <1>1, <1>2

\* The file and the actors are of their types at first.
LEMMA HostsTypedAtFirst == HostsInit => HostsTyped
<1> SUFFICES ASSUME HostsInit PROVE HostsTyped
  OBVIOUS
<1>1. hosts \in Seq(ToSet(hosts)) /\ ToSet(hosts) \subseteq FileLines
  BY LinesAssumption DEF HostsInit, FileLines
<1>2. ToSet(hosts) \subseteq Lines
  BY <1>1, LinesTyped
<1>3. hosts \in Seq(Lines)
  <2>1. Len(hosts) \in Nat /\ hosts \in [1..Len(hosts) -> ToSet(hosts)]
    BY <1>1, LenProperties
  <2> DEFINE N == Len(hosts)
  <2> HIDE DEF N
  <2>2. N \in Nat /\ hosts \in [1..N -> Lines]
    BY <1>2, <2>1 DEF N
  <2> QED
    BY <2>2, SeqDef
<1>4. actor \in [Actors -> ActorType]
  BY RestingTyped DEF HostsInit, Actors
<1> QED
  BY <1>3, <1>4 DEF HostsTyped

\* A step of an actor changes that one, and the file only when it replaces it.
LEMMA StepTyped ==
    ASSUME HostsTyped, NEW a \in Actors, HostsStep(a)
    PROVE  /\ HostsTyped'
           /\ \A b \in Actors \ {a} : actor'[b] = actor[b]
           /\ hosts' # hosts => hosts' = Transformed(a) /\ Transformed(a) # actor[a].text
<1>0. /\ hosts \in Seq(Lines) /\ actor \in [Actors -> ActorType] /\ actor[a] \in ActorType
  BY DEF HostsTyped
<1>e. ASSUME NEW o \in Outcomes, Ends(a, o)
      PROVE  /\ actor' \in [Actors -> ActorType]
             /\ \A b \in Actors \ {a} : actor'[b] = actor[b]
  <2>1. [Resting EXCEPT !.outcome = o] \in ActorType
    BY RestingTyped
  <2> QED
    BY <1>0, <1>e, <2>1 DEF Ends
<1>o. {"crash", "unchanged", "removed", "created", "needs_privilege", "error"} \subseteq Outcomes
  BY DEF Outcomes
<1>1. CASE ReadEscapes(a)
  <2>1. Ends(a, "crash") /\ hosts' = hosts
    BY <1>1 DEF ReadEscapes
  <2> QED
    BY <1>0, <1>e, <1>o, <2>1 DEF HostsTyped
<1>2. CASE CheckResolves(a)
  <2>1. hosts' = hosts
    BY <1>2 DEF CheckResolves
  <2>2. CASE Ends(a, "unchanged")
    BY <1>0, <1>e, <1>o, <2>1, <2>2 DEF HostsTyped
  <2>3. CASE actor' = [actor EXCEPT ![a].pc = "read"]
    <3>1. [actor[a] EXCEPT !.pc = "read"] \in ActorType
      BY <1>0 DEF ActorType
    <3>2. actor' = [actor EXCEPT ![a] = [actor[a] EXCEPT !.pc = "read"]]
      BY <2>3
    <3> QED
      BY <1>0, <2>1, <3>1, <3>2 DEF HostsTyped
  <2> QED
    BY <1>2, <2>2, <2>3 DEF CheckResolves
<1>3. CASE ReadHosts(a)
  <2>1. hosts' = hosts /\ actor' = [actor EXCEPT ![a].pc = "write", ![a].text = hosts]
    BY <1>3 DEF ReadHosts
  <2>2. [actor[a] EXCEPT !.pc = "write", !.text = hosts] \in ActorType
    BY <1>0 DEF ActorType
  <2>3. actor' = [actor EXCEPT ![a] = [actor[a] EXCEPT !.pc = "write", !.text = hosts]]
    BY <1>0, <2>1
  <2> QED
    BY <1>0, <2>1, <2>2, <2>3 DEF HostsTyped
<1>4. CASE ReplaceHosts(a)
  <2>1. Transformed(a) \in Seq(Lines)
    BY TransformedKeeps
  <2>2. CASE Transformed(a) = actor[a].text
    <3>1. Ends(a, "unchanged") /\ hosts' = hosts
      BY <1>4, <2>2 DEF ReplaceHosts
    <3> QED
      BY <1>0, <1>e, <1>o, <3>1 DEF HostsTyped
  <2>3. CASE Transformed(a) # actor[a].text
    <3>1. /\ hosts' = Transformed(a)
          /\ Ends(a, IF actor[a].do = "remove" THEN "removed" ELSE "created")
      BY <1>4, <2>3 DEF ReplaceHosts
    <3> QED
      BY <1>e, <1>o, <2>1, <2>3, <3>1 DEF HostsTyped
  <2> QED
    BY <2>2, <2>3
<1>5. CASE ReplaceFails(a)
  <2>1. /\ hosts' = hosts
        /\ Ends(a, IF access.write = "denied" THEN "needs_privilege" ELSE "error")
    BY <1>5 DEF ReplaceFails
  <2> QED
    BY <1>0, <1>e, <1>o, <2>1 DEF HostsTyped
<1> QED
  BY <1>1, <1>2, <1>3, <1>4, <1>5 DEF HostsStep

\* What a step of the launch does to the file and to those who work on it.
LEMMA LaunchStep ==
    ASSUME HostsTyped, LaunchNext
    PROVE  \/ UNCHANGED <<hosts, actor>>
           \/ hosts' = hosts /\ \E a \in Actors, do \in Requests,
                                   name \in {Dashboard, "other"} : Ask(a, do, name)
           \/ UserEdits
           \/ \E a \in Actors : HostsStep(a)
<1>0. DOMAIN actor = Actors
  BY DEF HostsTyped
<1>1. CASE Bootstraps \/ HostsNotice \/ Bind \/ Quit
  BY <1>1 DEF Bootstraps, HostsNotice, Bind, Quit, hostsVars
<1>2. CASE BeginServing
  <2>1. Ask("dashboard", "ensure", Dashboard)
    BY <1>2 DEF BeginServing
  <2>2. hosts' = hosts
    BY <2>1 DEF Ask
  <2> QED
    BY <2>1, <2>2 DEF Actors, Requests
<1>3. CASE HostsCommand
  <2>1. PICK do \in {"install", "remove"} : \E name \in {Dashboard, "other"} :
           Ask("command", do, name)
    BY <1>3 DEF HostsCommand
  <2>2. hosts' = hosts
    BY <2>1 DEF Ask
  <2> QED
    BY <2>1, <2>2 DEF Actors, Requests
<1>4. CASE HostsActivity
  BY <1>0, <1>4 DEF HostsActivity
<1> QED
  BY <1>1, <1>2, <1>3, <1>4 DEF LaunchNext

\* Every step of the launch leaves them so.
LEMMA HostsTypedNext == HostsTyped /\ [LaunchNext]_launchVars => HostsTyped'
<1> SUFFICES ASSUME HostsTyped, [LaunchNext]_launchVars PROVE HostsTyped'
  OBVIOUS
<1>0. hosts \in Seq(Lines) /\ actor \in [Actors -> ActorType]
  BY DEF HostsTyped
<1>1. CASE UNCHANGED <<hosts, actor>>
  BY <1>1 DEF HostsTyped
<1>2. ASSUME NEW a \in Actors, NEW do \in Requests,
             NEW name \in {Dashboard, "other"}, Ask(a, do, name), hosts' = hosts
      PROVE  HostsTyped'
  <2> DEFINE pc == IF do = "ensure" THEN "resolve" ELSE "read"
  <2>1. actor' = [actor EXCEPT ![a] = [Resting EXCEPT !.pc = pc, !.do = do, !.name = name]]
    BY <1>2 DEF Ask
  <2>2. pc \in {"resolve", "read"} /\ do \in Requests /\ name \in HostNames
    BY DEF HostNames
  <2> HIDE DEF pc
  <2>3. [Resting EXCEPT !.pc = pc, !.do = do, !.name = name] \in ActorType
    BY <2>2, RestingTyped
  <2> QED
    BY <1>0, <1>2, <2>1, <2>3 DEF HostsTyped
<1>3. CASE UserEdits
  BY <1>0, <1>3, EditsTyped DEF UserEdits, HostsTyped
<1>4. ASSUME NEW a \in Actors, HostsStep(a)
      PROVE  HostsTyped'
  BY <1>4, StepTyped
<1>5. CASE UNCHANGED launchVars
  BY <1>1, <1>5 DEF launchVars, hostsVars
<1>6. CASE LaunchNext
  BY <1>1, <1>2, <1>3, <1>4, <1>6, LaunchStep
<1> QED
  BY <1>5, <1>6

\* The file is always a sequence of lines with an address and a name, and an actor
\* works on such a file and on a name.
THEOREM HostsTypeCorrect == LaunchSpec => []HostsTyped
<1>1. LaunchInit => HostsTyped
  BY HostsTypedAtFirst DEF LaunchInit
<1> QED
  BY <1>1, HostsTypedNext, PTL DEF LaunchSpec

\* Whatever the file holds and whoever writes it, replacing it keeps the lines
\* that were read outside the block.
THEOREM VerbatimCorrect == LaunchSpec => OtherLinesVerbatim
<1>1. ASSUME HostsTyped, [LaunchNext]_launchVars,
             NEW a \in DOMAIN actor,
             actor[a].pc = "write" /\ actor'[a].pc = "rest" /\ hosts' # hosts
      PROVE  IF WellFormed(actor[a].text)
             THEN Unmanaged(actor[a].text) \in {hosts', Unmanaged(hosts')}
             ELSE IsPrefix(actor[a].text, hosts')
  <2>1. a \in Actors
    BY <1>1 DEF HostsTyped
  <2>2. LaunchNext
    BY <1>1 DEF launchVars, hostsVars
  <2>3. ~UserEdits
    BY <1>1 DEF UserEdits
  <2>4. PICK b \in Actors : HostsStep(b)
    BY <1>1, <2>2, <2>3, LaunchStep
  <2>5. b = a
    BY <1>1, <2>1, <2>4, StepTyped
  <2>6. hosts' = Transformed(a) /\ Transformed(a) # actor[a].text
    BY <1>1, <2>1, <2>4, <2>5, StepTyped
  <2>7. Keeps(hosts', actor[a].text)
    BY <1>1, <2>1, <2>6, TransformedKeeps
  <2> QED
    BY <2>7 DEF Keeps
<1>2. HostsTyped /\ [LaunchNext]_launchVars
        => [\A a \in DOMAIN actor :
              actor[a].pc = "write" /\ actor'[a].pc = "rest" /\ hosts' # hosts =>
                  IF WellFormed(actor[a].text)
                  THEN Unmanaged(actor[a].text) \in {hosts', Unmanaged(hosts')}
                  ELSE IsPrefix(actor[a].text, hosts')]_hostsVars
  BY <1>1
<1> QED
  BY <1>2, HostsTypeCorrect, PTL DEF LaunchSpec, OtherLinesVerbatim

\* Whatever intact file there is, installing is idempotent, makes the name resolve
\* and can be undone.
THEOREM ReversibleCorrect == LaunchSpec => []InstallIsReversible
<1>1. ASSUME HostsTyped
      PROVE  InstallIsReversible
  <2> DEFINE d == Dashboard
             once == WithMapping(hosts, d)
             undone == WithoutMapping(once, d)
  <2> SUFFICES ASSUME Intact(hosts)
               PROVE  /\ WithMapping(once, d) = once
                      /\ Resolves(once, d)
                      /\ Unmanaged(undone) = Unmanaged(hosts)
                      /\ Addresses(undone, d) = <<>>
                      /\ \A n \in ToSet(Names(hosts)) \ {d} :
                            Addresses(undone, n) = Addresses(hosts, n)
    BY DEF InstallIsReversible
  <2>1. hosts \in Seq(Lines) /\ d \in HostNames
    BY <1>1 DEF HostsTyped, HostNames
  <2> HIDE DEF d
  <2>2. {Begin, End} \cap ToSet(Before(hosts)) = {} /\ ~WellFormed(After(hosts))
    <3>1. CASE WellFormed(hosts)
      BY <2>1, <3>1, PartsOf DEF Intact
    <3>2. CASE ~WellFormed(hosts)
      <4>1. Before(hosts) = hosts /\ After(hosts) = <<>>
        BY <2>1, <3>2, PartsOf
      <4>2. ~WellFormed(<<>>)
        <5>1. FirstAt(<<>>, Begin) = 0
          <6>1. <<>> \in Seq(Lines) /\ Len(<<>>) = 0 /\ 0..0 = {0}
            BY EmptySeq
          <6>2. FirstAt(<<>>, Begin) \in 0..Len(<<>>)
            BY <6>1, FirstAtIs
          <6> QED
            BY <6>1, <6>2
        <5> QED
          BY <5>1 DEF WellFormed
      <4> QED
        BY <3>2, <4>1, <4>2 DEF Intact
    <3> QED
      BY <3>1, <3>2
  <2>3. Installed(once, hosts, d)
    BY <2>1, <2>2, InstallAdds
  <2> HIDE DEF once
  <2>4. /\ once \in Seq(Lines) /\ Before(once) = Before(hosts) /\ After(once) = After(hosts)
        /\ Addresses(once, d) = Loopback
        /\ \A x : x # d => Addresses(once, x) = Addresses(hosts, x)
    BY <2>3 DEF Installed
  <2>5. WithMapping(once, d) = once
    BY <2>4, InstallIs
  <2>6. d \in ToSet(Names(once)) /\ Resolves(once, d)
    <3>1. Addresses(once, d) # <<>>
      BY <2>4, LoopbackTyped
    <3> QED
      BY <2>4, <3>1, ReadTyped
  <2>7. Removed(undone, once, d)
    BY <2>2, <2>4, <2>6, RemoveTakes
  <2> HIDE DEF undone
  <2>8. Unmanaged(once) = Unmanaged(hosts)
    BY <2>4 DEF Unmanaged
  <2> QED
    BY <2>4, <2>5, <2>6, <2>7, <2>8 DEF Removed
<1> QED
  BY <1>1, HostsTypeCorrect, PTL

=============================================================================
