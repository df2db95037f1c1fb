------------------------ MODULE JudgePipelineProofs ------------------------
(***************************************************************************)
(* The safety properties of JudgePipeline, for any set of artifacts, any   *)
(* batch size, caps and budgets, and any replies of the models.            *)
(***************************************************************************)
EXTENDS JudgePipeline, FiniteSetTheorems, SequenceTheorems,
        NaturalsInduction, WellFoundedInduction, TLAPS

-----------------------------------------------------------------------------
(***************************************************************************)
(* The inductive invariant, in named parts.                                *)
(***************************************************************************)

Checks == {"none", "upheld", "refuted", "failed"}
JudgmentType == [artifact : Artifacts, verdict : Verdicts, first : Verdicts, check : Checks]

TypeOK ==
    /\ stored \in [Artifacts -> Verdicts \cup {"none"}]
    /\ pc \in {"idle", "judge", "verify", "investigate"}
    /\ entries \in Seq(Artifacts)
    /\ judgments \in Seq(JudgmentType)
    /\ queue \in SUBSET DOMAIN judgments
    /\ faults \in Nat
    /\ said \in [Artifacts -> SUBSET Verdicts]

\* What one judgment may look like at each stage of the pass.
AsJudged(j) == j.verdict = j.first /\ j.check = "none"

AsVerified(j) ==
    /\ j.check = "none" => j.verdict = j.first
    /\ j.check \in {"upheld", "failed"} => j.first = "malicious" /\ j.verdict = "malicious"
    /\ j.check = "refuted" => j.first = "malicious" /\ j.verdict = "suspicious"

AsInvestigated(j) == AsVerified(j) \/ (j.first = "unknown" /\ j.check = "none")

StageInv ==
    /\ pc = "idle" => judgments = <<>>
    /\ pc = "judge" => queue = {} /\ \A i \in DOMAIN judgments : AsJudged(judgments[i])
    /\ pc = "verify" =>
         /\ \A i \in DOMAIN judgments : AsVerified(judgments[i])
         /\ \A i \in queue : judgments[i].first = "malicious" /\ judgments[i].check = "none"
    /\ pc = "investigate" =>
         /\ \A i \in DOMAIN judgments : AsInvestigated(judgments[i])
         /\ \A i \in queue : judgments[i].first = "unknown" /\ judgments[i].check = "none"

\* Whoever has been put to the skeptic and whoever is still due are the first
\* MaxVerify of those the judge called malicious.
FirstSaid(v) == {i \in DOMAIN judgments : judgments[i].first = v}
Asked == {i \in DOMAIN judgments : judgments[i].check # "none"}

SkepticInv ==
    HasVerifier =>
        /\ pc = "verify" => Asked \cup queue = FirstOf(MaxVerify, FirstSaid("malicious"))
        /\ pc = "investigate" => Asked = FirstOf(MaxVerify, FirstSaid("malicious"))

IInv == TypeOK /\ JudgmentsAreWhatWasSaid /\ StageInv /\ SkepticInv

-----------------------------------------------------------------------------
(***************************************************************************)
(* Induction on the natural numbers, in the form the provers can use.      *)
(***************************************************************************)

\* A set with 0 that has the successor of each of its numbers has all of them.
LEMMA SetInduction ==
    ASSUME NEW T, 0 \in T, \A n \in Nat : n \in T => n + 1 \in T
    PROVE  Nat \subseteq T
<1> SUFFICES ASSUME Nat \ T # {} PROVE FALSE
  OBVIOUS
<1>1. PICK n \in Nat \ T : \A m \in Nat \ T : ~(<<m, n>> \in OpToRel(<, Nat))
  BY NatLessThanWellFounded, WFMin
<1>2. \A m \in Nat \ T : ~(m < n)
  BY <1>1 DEF OpToRel
<1>3. n - 1 \in Nat /\ n - 1 \in T
  BY <1>2
<1> QED
  BY <1>3

-----------------------------------------------------------------------------
(***************************************************************************)
(* What _indexed keeps of a reply.                                         *)
(***************************************************************************)

InBatch == 0..(Len(Batch) - 1)

\* The batch: entries, as many as the size allows, and what is left of them.
LEMMA BatchTyped ==
    ASSUME entries \in Seq(Artifacts)
    PROVE  /\ Batch \in Seq(Artifacts) /\ Len(Batch) \in Nat
           /\ entries # <<>> => Len(Batch) > 0
           /\ \A i \in InBatch : EntryAt(i) = Batch[i + 1] /\ EntryAt(i) \in Artifacts
           /\ AfterBatch \in Seq(Artifacts)
<1> DEFINE size == IF Len(entries) < EffectiveBatchSize THEN Len(entries) ELSE EffectiveBatchSize
<1>1. Len(entries) \in Nat /\ \A i \in 1..Len(entries) : entries[i] \in Artifacts
  BY LenProperties, ElementOfSeq
<1>2. EffectiveBatchSize \in Nat \ {0}
  BY ConstantsAssumption DEF EffectiveBatchSize
<1>3. size \in Nat /\ size <= Len(entries)
  BY <1>1, <1>2
<1> HIDE DEF size
<1>4. Batch = SubSeq(entries, 1, size)
  BY DEF Batch, size
<1>5. SubSeq(entries, 1, size) \in Seq(Artifacts) /\ Len(SubSeq(entries, 1, size)) = size
  BY <1>1, <1>3, SubSeqProperties
<1>6. entries # <<>> => size > 0
  BY <1>1, <1>2, EmptySeq DEF size
<1>7. \A i \in 1..size : Batch[i] \in Artifacts
  BY <1>4, <1>5, ElementOfSeq
<1>8. \A i \in 0..(size - 1) : i % size = i
  BY <1>3
<1>9. AfterBatch \in Seq(Artifacts)
  <2>1. \A i \in Len(Batch) + 1 .. Len(entries) : entries[i] \in Artifacts
    BY <1>1, <1>3, <1>4, <1>5
  <2> QED
    BY <1>1, <1>3, <1>4, <1>5, <2>1, SubSeqProperties DEF AfterBatch
<1>10. Len(Batch) = size /\ Batch \in Seq(Artifacts)
  BY <1>4, <1>5
<1>11. \A i \in InBatch : EntryAt(i) = Batch[i + 1] /\ EntryAt(i) \in Artifacts
  BY <1>3, <1>7, <1>8, <1>10 DEF EntryAt, InBatch
<1> QED
  BY <1>3, <1>6, <1>9, <1>10, <1>11

\* One step of the loop over a reply's items.
Step(reply, f, n) ==
    IF n = 0 THEN <<>>
    ELSE IF reply[n].index \in InBatch THEN Append(f[n - 1], reply[n]) ELSE f[n - 1]

\* The loop is well defined: there is a function that takes it through.
LEMMA IndexedLoop ==
    ASSUME NEW N \in Nat, NEW reply \in [1..N -> ReplyItem]
    PROVE  \E f \in [0..N -> Seq(ReplyItem)] : f = [n \in 0..N |-> Step(reply, f, n)]
<1> DEFINE Through(n) == \E f \in [0..n -> Seq(ReplyItem)] : \A k \in 0..n : f[k] = Step(reply, f, k)
           T == {n \in Nat : n <= N => Through(n)}
<1>1. 0 \in T
  <2>1. [k \in 0..0 |-> <<>>] \in [0..0 -> Seq(ReplyItem)]
    BY EmptySeq
  <2>2. \A k \in 0..0 : [n \in 0..0 |-> <<>>][k] = Step(reply, [n \in 0..0 |-> <<>>], k)
    BY DEF Step
  <2> QED
    BY <2>1, <2>2
<1>2. ASSUME NEW n \in Nat, n \in T
      PROVE  n + 1 \in T
  <2> SUFFICES ASSUME n + 1 <= N PROVE Through(n + 1)
    OBVIOUS
  <2>1. PICK f \in [0..n -> Seq(ReplyItem)] : \A k \in 0..n : f[k] = Step(reply, f, k)
    BY <1>2
  <2> DEFINE g == [k \in 0..(n + 1) |-> IF k <= n THEN f[k] ELSE Step(reply, f, n + 1)]
  <2>2. Step(reply, f, n + 1) \in Seq(ReplyItem)
    <3>1. f[n] \in Seq(ReplyItem) /\ reply[n + 1] \in ReplyItem
      OBVIOUS
    <3>2. Append(f[n], reply[n + 1]) \in Seq(ReplyItem)
      BY <3>1, AppendProperties
    <3> QED
      BY <3>1, <3>2 DEF Step
  <2>3. g \in [0..(n + 1) -> Seq(ReplyItem)]
    BY <2>2
  <2>4. \A k \in 0..n : g[k] = f[k]
    OBVIOUS
  <2>5. \A k \in 0..n : g[k] = Step(reply, g, k)
    <3> TAKE k \in 0..n
    <3>1. f[k] = Step(reply, f, k) /\ g[k] = f[k]
      BY <2>1, <2>4
    <3>2. k # 0 => k - 1 \in 0..n
      OBVIOUS
    <3>3. k # 0 => g[k - 1] = f[k - 1]
      BY <2>4, <3>2
    <3> HIDE DEF g
    <3> QED
      BY <3>1, <3>3 DEF Step
  <2>6. g[n + 1] = Step(reply, g, n + 1)
    BY <2>4 DEF Step
  <2> HIDE DEF g
  <2>7. \A k \in 0..(n + 1) : g[k] = Step(reply, g, k)
    BY <2>5, <2>6
  <2> QED
    BY <2>3, <2>7
<1> HIDE DEF T
<1>3. N \in T
  BY <1>1, <1>2, SetInduction
<1>4. PICK f \in [0..N -> Seq(ReplyItem)] : \A k \in 0..N : f[k] = Step(reply, f, k)
  BY <1>3 DEF T
<1>5. f = [n \in 0..N |-> Step(reply, f, n)]
  BY <1>4
<1> QED
  BY <1>5

\* Indexed keeps exactly the items whose index is one of the batch.
LEMMA IndexedKeeps ==
    ASSUME NEW N \in Nat, NEW reply \in [1..N -> ReplyItem]
    PROVE  /\ Indexed(reply) \in Seq(ReplyItem)
           /\ \A k \in DOMAIN Indexed(reply) : \E m \in 1..N :
                reply[m].index \in InBatch /\ Indexed(reply)[k] = reply[m]
           /\ \A m \in 1..N : reply[m].index \in InBatch =>
                \E k \in DOMAIN Indexed(reply) : Indexed(reply)[k] = reply[m]
<1>0. reply \in Seq(ReplyItem) /\ Len(reply) = N
  BY SeqDef, LenProperties
<1>1. PICK h \in [0..N -> Seq(ReplyItem)] : h = [n \in 0..N |-> Step(reply, h, n)]
  BY IndexedLoop
<1>2. \E f : f = [n \in 0..N |-> Step(reply, f, n)] /\ Indexed(reply) = f[N]
  BY <1>0, <1>1 DEF Indexed, Step, InBatch
<1>3. PICK f : f = [n \in 0..N |-> Step(reply, f, n)] /\ Indexed(reply) = f[N]
  BY <1>2
<1>4. \A n \in 0..N : f[n] = Step(reply, f, n)
  BY <1>3
<1> DEFINE Good(s, n) ==
             /\ s \in Seq(ReplyItem)
             /\ \A k \in DOMAIN s : \E m \in 1..n : reply[m].index \in InBatch /\ s[k] = reply[m]
             /\ \A m \in 1..n : reply[m].index \in InBatch => \E k \in DOMAIN s : s[k] = reply[m]
           T == {n \in Nat : n <= N => Good(f[n], n)}
<1>5. 0 \in T
  <2>1. f[0] = <<>>
    BY <1>4 DEF Step
  <2>2. DOMAIN f[0] = {} /\ 1..0 = {} /\ f[0] \in Seq(ReplyItem)
    BY <2>1, EmptySeq
  <2> QED
    BY <2>2
<1>6. ASSUME NEW n \in Nat, n \in T
      PROVE  n + 1 \in T
  <2> SUFFICES ASSUME n + 1 <= N PROVE Good(f[n + 1], n + 1)
    OBVIOUS
  <2>1. Good(f[n], n)
    BY <1>6
  <2>2. f[n + 1] = IF reply[n + 1].index \in InBatch THEN Append(f[n], reply[n + 1]) ELSE f[n]
    <3>1. f[n + 1] = Step(reply, f, n + 1) /\ n + 1 # 0 /\ (n + 1) - 1 = n
      BY <1>4
    <3> QED
      BY <3>1 DEF Step
  <2>3. CASE reply[n + 1].index \notin InBatch
    <3>1. f[n + 1] = f[n]
      BY <2>2, <2>3
    <3>2. \A m \in 1..(n + 1) : reply[m].index \in InBatch => m \in 1..n
      BY <2>3
    <3>3. \A m \in 1..n : m \in 1..(n + 1)
      OBVIOUS
    <3> QED
      BY <2>1, <3>1, <3>2, <3>3
  <2>4. CASE reply[n + 1].index \in InBatch
    <3> DEFINE s == f[n]
               t == Append(s, reply[n + 1])
    <3>1. s \in Seq(ReplyItem) /\ reply[n + 1] \in ReplyItem
      BY <2>1
    <3>2. /\ t \in Seq(ReplyItem) /\ Len(t) = Len(s) + 1
          /\ \A k \in 1..Len(s) : t[k] = s[k]
          /\ t[Len(s) + 1] = reply[n + 1]
      BY <3>1, AppendProperties
    <3>3. DOMAIN s = 1..Len(s) /\ DOMAIN t = 1..Len(s) + 1 /\ Len(s) \in Nat
      BY <3>1, <3>2, LenProperties
    <3>4. f[n + 1] = t
      BY <2>2, <2>4
    <3>5. /\ \A k \in DOMAIN s : \E m \in 1..n : reply[m].index \in InBatch /\ s[k] = reply[m]
          /\ \A m \in 1..n : reply[m].index \in InBatch => \E k \in DOMAIN s : s[k] = reply[m]
      BY <2>1
    <3> HIDE DEF s, t
    <3>6. \A k \in DOMAIN t : \E m \in 1..(n + 1) : reply[m].index \in InBatch /\ t[k] = reply[m]
      <4> TAKE k \in DOMAIN t
      <4>1. CASE k = Len(s) + 1
        BY <2>4, <3>2, <4>1
      <4>2. CASE k \in 1..Len(s)
        BY <3>2, <3>3, <3>5, <4>2
      <4> QED
        BY <3>3, <4>1, <4>2
    <3>7. \A m \in 1..(n + 1) : reply[m].index \in InBatch => \E k \in DOMAIN t : t[k] = reply[m]
      <4> TAKE m \in 1..(n + 1)
      <4> HAVE reply[m].index \in InBatch
      <4>1. CASE m = n + 1
        <5>1. Len(s) + 1 \in DOMAIN t /\ t[Len(s) + 1] = reply[m]
          BY <3>2, <3>3, <4>1
        <5> QED
          BY <5>1
      <4>2. CASE m \in 1..n
        <5>1. PICK k \in DOMAIN s : s[k] = reply[m]
          BY <3>5, <4>2
        <5> QED
          BY <3>2, <3>3, <5>1
      <4> QED
        BY <4>1, <4>2
    <3> QED
      BY <3>2, <3>4, <3>6, <3>7
  <2> QED
    BY <2>3, <2>4
<1> HIDE DEF T
<1>7. N \in T
  BY <1>5, <1>6, SetInduction
<1> QED
  BY <1>3, <1>7 DEF T

-----------------------------------------------------------------------------
(***************************************************************************)
(* What an answer adds, and what a second opinion changes.                 *)
(***************************************************************************)

SaidNow(reply, a) ==
    {Coerced(reply[k].verdict) :
        k \in {k \in DOMAIN reply : /\ reply[k].index \in 0..(Len(Batch) - 1)
                                    /\ Batch[reply[k].index + 1] = a}}

\* A verdict read from a reply is one of the four.
LEMMA CoercedTyped == \A v : Coerced(v) \in Verdicts
  BY DEF Coerced, Verdicts

\* Accepting a reply appends judgments as the model gave them, one for every
\* artifact something was said of and for no other.
LEMMA AcceptAppends ==
    ASSUME TypeOK, NEW N \in Nat, NEW reply \in [1..N -> ReplyItem], Accept(reply)
    PROVE  /\ judgments' \in Seq(JudgmentType)
           /\ \A i \in DOMAIN judgments : i \in DOMAIN judgments' /\ judgments'[i] = judgments[i]
           /\ \A i \in DOMAIN judgments' \ DOMAIN judgments :
                /\ AsJudged(judgments'[i])
                /\ judgments'[i].first \in SaidNow(reply, judgments'[i].artifact)
           /\ \A a \in Artifacts : SaidNow(reply, a) # {} =>
                \E i \in DOMAIN judgments' : judgments'[i].artifact = a
           /\ said' = [a \in Artifacts |-> said[a] \cup SaidNow(reply, a)]
           /\ said' \in [Artifacts -> SUBSET Verdicts]
           /\ entries' \in Seq(Artifacts)
<1> DEFINE items == Indexed(reply)
           new == [k \in DOMAIN items |->
                     Judgment(EntryAt(items[k].index), Coerced(items[k].verdict))]
<1>0. entries \in Seq(Artifacts) /\ judgments \in Seq(JudgmentType) /\ DOMAIN reply = 1..N
  BY DEF TypeOK
<1>1. /\ Len(items) \in Nat /\ DOMAIN items = 1..Len(items)
      /\ \A k \in DOMAIN items : \E m \in 1..N :
           reply[m].index \in InBatch /\ items[k] = reply[m]
      /\ \A m \in 1..N : reply[m].index \in InBatch =>
           \E k \in DOMAIN items : items[k] = reply[m]
  BY IndexedKeeps, LenProperties
<1>2. judgments' = judgments \o new /\ entries' = AfterBatch
      /\ said' = [a \in Artifacts |-> said[a] \cup SaidNow(reply, a)]
  BY DEF Accept, SaidNow
<1> HIDE DEF items
<1>3. \A k \in DOMAIN items : items[k].index \in InBatch
  BY <1>1
<1>4. \A k \in DOMAIN items : new[k] \in JudgmentType /\ AsJudged(new[k])
  <2> TAKE k \in DOMAIN items
  <2>1. EntryAt(items[k].index) \in Artifacts
    BY <1>0, <1>3, BatchTyped
  <2>2. new[k] = Judgment(EntryAt(items[k].index), Coerced(items[k].verdict))
    OBVIOUS
  <2> QED
    BY <2>1, <2>2, CoercedTyped DEF Judgment, JudgmentType, AsJudged, Checks
<1>5. \A k \in DOMAIN items : new[k].first \in SaidNow(reply, new[k].artifact)
  <2> TAKE k \in DOMAIN items
  <2>1. PICK m \in 1..N : reply[m].index \in InBatch /\ items[k] = reply[m]
    BY <1>1
  <2>2. /\ new[k].first = Coerced(reply[m].verdict)
        /\ new[k].artifact = EntryAt(reply[m].index)
    BY <2>1 DEF Judgment
  <2>3. EntryAt(reply[m].index) = Batch[reply[m].index + 1]
    BY <1>0, <2>1, BatchTyped
  <2> QED
    BY <1>0, <2>1, <2>2, <2>3 DEF SaidNow, InBatch
<1>6. \A a \in Artifacts : SaidNow(reply, a) # {} => \E k \in DOMAIN items : new[k].artifact = a
  <2> SUFFICES ASSUME NEW a \in Artifacts, SaidNow(reply, a) # {}
               PROVE  \E k \in DOMAIN items : new[k].artifact = a
    OBVIOUS
  <2>1. PICK m \in 1..N : reply[m].index \in InBatch /\ Batch[reply[m].index + 1] = a
    BY <1>0 DEF SaidNow, InBatch
  <2>2. PICK k \in DOMAIN items : items[k] = reply[m]
    BY <1>1, <2>1
  <2>3. new[k].artifact = EntryAt(reply[m].index)
    BY <2>2 DEF Judgment
  <2>4. EntryAt(reply[m].index) = a
    BY <1>0, <2>1, BatchTyped
  <2> QED
    BY <2>3, <2>4
<1>7. new \in Seq(JudgmentType) /\ Len(new) = Len(items)
  <2>1. new \in [1..Len(items) -> JudgmentType]
    BY <1>1, <1>4
  <2>2. new \in Seq(JudgmentType)
    BY <1>1, <2>1, SeqDef
  <2> QED
    BY <1>1, <2>1, <2>2, LenProperties
<1>8. DOMAIN new = 1..Len(items)
  BY <1>1
<1> HIDE DEF new
<1>9. /\ judgments' \in Seq(JudgmentType) /\ Len(judgments') = Len(judgments) + Len(items)
      /\ \A i \in 1..Len(judgments) + Len(items) :
           judgments'[i] = IF i <= Len(judgments) THEN judgments[i] ELSE new[i - Len(judgments)]
  <2>1. judgments \in Seq(JudgmentType) /\ new \in Seq(JudgmentType)
    BY <1>0, <1>7
  <2>2. /\ judgments \o new \in Seq(JudgmentType)
        /\ Len(judgments \o new) = Len(judgments) + Len(new)
        /\ \A i \in 1..Len(judgments) + Len(new) : (judgments \o new)[i] =
             IF i <= Len(judgments) THEN judgments[i] ELSE new[i - Len(judgments)]
    BY <2>1, ConcatProperties
  <2>3. judgments' = judgments \o new
    BY <1>2
  <2> QED
    BY <1>7, <2>2, <2>3
<1>10. /\ Len(judgments) \in Nat /\ DOMAIN judgments = 1..Len(judgments)
       /\ DOMAIN judgments' = 1..Len(judgments) + Len(items)
  BY <1>0, <1>9, LenProperties
<1>11. \A i \in DOMAIN judgments' \ DOMAIN judgments :
         i - Len(judgments) \in DOMAIN items /\ judgments'[i] = new[i - Len(judgments)]
  BY <1>1, <1>9, <1>10
<1>12. \A k \in DOMAIN items :
         Len(judgments) + k \in DOMAIN judgments' /\ judgments'[Len(judgments) + k] = new[k]
  <2> TAKE k \in DOMAIN items
  <2>1. Len(judgments) \in Nat /\ Len(items) \in Nat /\ k \in 1..Len(items)
    BY <1>1, <1>10
  <2>2. /\ Len(judgments) + k \in 1..Len(judgments) + Len(items)
        /\ ~(Len(judgments) + k <= Len(judgments)) /\ (Len(judgments) + k) - Len(judgments) = k
    BY <2>1
  <2> QED
    BY <1>9, <1>10, <2>2
<1>13. \A a \in Artifacts : SaidNow(reply, a) # {} =>
         \E i \in DOMAIN judgments' : judgments'[i].artifact = a
  BY <1>6, <1>12
<1>14. said' \in [Artifacts -> SUBSET Verdicts]
  <2>1. \A a \in Artifacts : SaidNow(reply, a) \subseteq Verdicts
    BY CoercedTyped DEF SaidNow
  <2> QED
    BY <1>2, <2>1 DEF TypeOK
<1>15. \A i \in DOMAIN judgments : i \in DOMAIN judgments' /\ judgments'[i] = judgments[i]
  BY <1>1, <1>9, <1>10
<1>16. entries' \in Seq(Artifacts)
  BY <1>0, <1>2, BatchTyped
<1>17. \A i \in DOMAIN judgments' \ DOMAIN judgments :
         AsJudged(judgments'[i]) /\ judgments'[i].first \in SaidNow(reply, judgments'[i].artifact)
  BY <1>4, <1>5, <1>11
<1> QED
  BY <1>2, <1>9, <1>13, <1>14, <1>15, <1>16, <1>17

\* Both kinds of answer are replies that Accept is given.
LEMMA JudgedByReply ==
    ASSUME TypeOK, JudgeBatch \/ JudgeBadly
    PROVE  \E N \in Nat : \E reply \in [1..N -> ReplyItem] : Accept(reply)
<1>0. Len(Batch) \in Nat
  BY BatchTyped DEF TypeOK
<1>1. CASE JudgeBatch
  <2>1. PICK v \in [1..Len(Batch) -> Verdicts] :
          Accept([k \in 1..Len(Batch) |-> [index |-> k - 1, verdict |-> v[k]]])
    BY <1>1 DEF JudgeBatch
  <2>2. \A k \in 1..Len(Batch) : [index |-> k - 1, verdict |-> v[k]] \in ReplyItem
    BY <1>0 DEF ReplyItem
  <2>3. [k \in 1..Len(Batch) |-> [index |-> k - 1, verdict |-> v[k]]] \in [1..Len(Batch) -> ReplyItem]
    BY <2>2
  <2> QED
    BY <1>0, <2>1, <2>3
<1>2. CASE JudgeBadly
  BY <1>0, <1>2 DEF JudgeBadly
<1> QED
  BY <1>1, <1>2

\* The queue's next position is one of its own.
LEMMA NextIndexInQueue ==
    ASSUME TypeOK, queue # {}
    PROVE  NextIndex \in queue
<1>1. queue \subseteq Nat
  BY LenProperties DEF TypeOK
<1>2. PICK i \in queue : \A k \in queue : ~(<<k, i>> \in OpToRel(<, Nat))
  BY <1>1, NatLessThanWellFounded, WFMin
<1>3. \A k \in queue : ~(k < i)
  BY <1>1, <1>2 DEF OpToRel
<1>4. \A k \in queue : i <= k
  BY <1>1, <1>3
<1> QED
  BY <1>4 DEF NextIndex

\* A fault, when there is one, is counted.
LEMMA FaultsTyped ==
    ASSUME TypeOK
    PROVE  Fault \/ UNCHANGED faults => faults' \in Nat
  BY DEF Fault, TypeOK

\* What a pass starts on is a sequence of artifacts.
LEMMA PassTyped ==
    ASSUME TypeOK, BeginPass
    PROVE  entries' \in Seq(Artifacts)
<1>1. PICK order \in SetToSeqs(Unjudged) : entries' = Capped(order)
  BY DEF BeginPass
<1>2. Cardinality(Unjudged) \in Nat
  <2>1. Unjudged \in SUBSET Artifacts /\ IsFiniteSet(Artifacts)
    BY ConstantsAssumption DEF Unjudged
  <2> QED
    BY <2>1, FS_Subset, FS_CardinalityType
<1>3. order \in [1..Cardinality(Unjudged) -> Artifacts]
  BY DEF SetToSeqs, Unjudged
<1>4. order \in Seq(Artifacts)
  BY <1>2, <1>3, SeqDef
<1>5. Len(order) \in Nat /\ DOMAIN order = 1..Len(order) /\ MaxPerCollector \in Nat
  BY <1>4, LenProperties, ConstantsAssumption
<1>6. \A n \in Nat : n <= Len(order) => SubSeq(order, 1, n) \in Seq(Artifacts)
  <2> SUFFICES ASSUME NEW n \in Nat, n <= Len(order) PROVE SubSeq(order, 1, n) \in Seq(Artifacts)
    OBVIOUS
  <2>1. \A i \in 1..n : order[i] \in Artifacts
    BY <1>4, <1>5, ElementOfSeq
  <2> QED
    BY <2>1, SubSeqProperties
<1> QED
  BY <1>1, <1>4, <1>5, <1>6 DEF Capped

\* What a second opinion may make of one judgment: js is the list before it,
\* i the position, v the verdict and c the check it ends up with.
Revised(js, i, v, c) == [js EXCEPT ![i] = [js[i] EXCEPT !.verdict = v, !.check = c]]

\* A second opinion touches the verdict and the check of one judgment.
LEMMA OpinionUpdates ==
    ASSUME TypeOK, NEW i \in DOMAIN judgments, NEW v \in Verdicts, NEW c \in Checks,
           judgments' = Revised(judgments, i, v, c)
    PROVE  /\ judgments' \in Seq(JudgmentType)
           /\ DOMAIN judgments' = DOMAIN judgments
           /\ \A k \in DOMAIN judgments : k # i => judgments'[k] = judgments[k]
           /\ judgments'[i].artifact = judgments[i].artifact
           /\ judgments'[i].first = judgments[i].first
           /\ judgments'[i].verdict = v /\ judgments'[i].check = c
<1> DEFINE j == [judgments[i] EXCEPT !.verdict = v, !.check = c]
<1>1. DOMAIN judgments = 1..Len(judgments) /\ judgments[i] \in JudgmentType
  BY LenProperties, ElementOfSeq DEF TypeOK
<1>2. /\ j \in JudgmentType
      /\ j.artifact = judgments[i].artifact /\ j.first = judgments[i].first
      /\ j.verdict = v /\ j.check = c
  BY <1>1 DEF JudgmentType
<1>3. judgments' = [judgments EXCEPT ![i] = j]
  BY DEF Revised
<1> HIDE DEF j
<1>4. judgments' \in Seq(JudgmentType)
  BY <1>1, <1>2, <1>3, ExceptSeq DEF TypeOK
<1>5. judgments'[i] = j
  BY <1>3
<1> QED
  BY <1>2, <1>3, <1>4, <1>5

\* An answer of the skeptic is recorded with the verdict it leaves.
LEMMA VerifyUpdates ==
    ASSUME TypeOK, Verify
    PROVE  \E i \in queue : i \in DOMAIN judgments /\
           \E c \in {"upheld", "refuted", "failed"}, v \in Verdicts :
             /\ v = IF c = "refuted" THEN "suspicious" ELSE judgments[i].verdict
             /\ judgments' = Revised(judgments, i, v, c)
             /\ queue' = queue \ {i}
<1> DEFINE i == NextIndex
<1>1. i \in queue /\ i \in DOMAIN judgments
  BY NextIndexInQueue DEF TypeOK, Verify
<1>2. judgments[i] \in JudgmentType
  BY <1>1, LenProperties, ElementOfSeq DEF TypeOK
<1>3. PICK c \in {"upheld", "refuted", "failed"} :
        judgments' = [judgments EXCEPT
          ![i].verdict = IF c = "refuted" THEN "suspicious" ELSE @,
          ![i].check = c]
  BY DEF Verify
<1>4. queue' = queue \ {i}
  BY DEF Verify
<1> HIDE DEF i
<1> DEFINE v == IF c = "refuted" THEN "suspicious" ELSE judgments[i].verdict
<1>5. v \in Verdicts
  BY <1>2 DEF JudgmentType, Verdicts
<1>6. judgments' = Revised(judgments, i, v, c)
  BY <1>1, <1>2, <1>3 DEF JudgmentType, Revised
<1> HIDE DEF v
<1>7. v = IF c = "refuted" THEN "suspicious" ELSE judgments[i].verdict
  BY DEF v
<1> QED
  BY <1>1, <1>4, <1>5, <1>6, <1>7

\* An answer of the investigator replaces the verdict.
LEMMA InvestigateUpdates ==
    ASSUME TypeOK, Investigate
    PROVE  \E i \in queue : i \in DOMAIN judgments /\
           \E v \in Verdicts, c \in Checks :
             /\ c = judgments[i].check
             /\ judgments' = Revised(judgments, i, v, c)
             /\ queue' = queue \ {i}
<1> DEFINE i == NextIndex
<1>1. i \in queue /\ i \in DOMAIN judgments
  BY NextIndexInQueue DEF TypeOK, Investigate
<1>2. judgments[i] \in JudgmentType
  BY <1>1, LenProperties, ElementOfSeq DEF TypeOK
<1>3. PICK v \in Verdicts : judgments' = [judgments EXCEPT ![i].verdict = v]
  BY DEF Investigate
<1>4. queue' = queue \ {i}
  BY DEF Investigate
<1> HIDE DEF i
<1>5. judgments[i].check \in Checks
  BY <1>2 DEF JudgmentType
<1>6. judgments' = Revised(judgments, i, v, judgments[i].check)
  BY <1>1, <1>2, <1>3 DEF JudgmentType, Revised
<1> QED
  BY <1>1, <1>4, <1>5, <1>6

-----------------------------------------------------------------------------
(***************************************************************************)
(* Type correctness.                                                       *)
(***************************************************************************)

\* A pass starts well typed.
LEMMA TypeInit == Init => TypeOK
<1> SUFFICES ASSUME Init PROVE TypeOK
  OBVIOUS
<1>1. entries \in Seq(Artifacts) /\ judgments \in Seq(JudgmentType)
  BY EmptySeq DEF Init
<1> QED
  BY <1>1 DEF Init, TypeOK

\* What goes into the store is a verdict.
LEMMA WritesVerdicts ==
    ASSUME TypeOK, WriteJudgments
    PROVE  stored' \in [Artifacts -> Verdicts \cup {"none"}]
<1>1. \A i \in DOMAIN judgments : judgments[i].verdict \in Verdicts
  <2>1. \A i \in DOMAIN judgments : judgments[i] \in JudgmentType
    BY LenProperties, ElementOfSeq DEF TypeOK
  <2> QED
    BY <2>1 DEF JudgmentType
<1> DEFINE given(a) == {i \in DOMAIN judgments : judgments[i].artifact = a}
           first(a) == CHOOSE i \in given(a) : \A k \in given(a) : i <= k
<1>2. ASSUME NEW a \in Artifacts, given(a) # {}
      PROVE  first(a) \in given(a)
  <2>1. given(a) \subseteq Nat
    BY LenProperties DEF TypeOK
  <2> HIDE DEF given
  <2>2. PICK i \in given(a) : \A k \in given(a) : ~(<<k, i>> \in OpToRel(<, Nat))
    BY <1>2, <2>1, NatLessThanWellFounded, WFMin
  <2>3. \A k \in given(a) : ~(k < i)
    BY <2>1, <2>2 DEF OpToRel
  <2>4. \A k \in given(a) : i <= k
    BY <2>1, <2>3
  <2> QED
    BY <2>4
<1>3. stored' = [a \in Artifacts |-> IF stored[a] # "none" \/ given(a) = {} THEN stored[a]
                                    ELSE judgments[first(a)].verdict]
  BY DEF WriteJudgments
<1>4. \A a \in Artifacts : given(a) # {} => first(a) \in DOMAIN judgments
  BY <1>2
<1> HIDE DEF given, first
<1> QED
  BY <1>1, <1>3, <1>4 DEF TypeOK

\* Every stage keeps the types.
LEMMA TypeNext == TypeOK /\ StageInv /\ [Next]_vars => TypeOK'
<1> SUFFICES ASSUME TypeOK, StageInv, [Next]_vars PROVE TypeOK'
  OBVIOUS
<1>e. <<>> \in Seq(Artifacts) /\ <<>> \in Seq(JudgmentType) /\ DOMAIN <<>> = {}
  BY EmptySeq
<1>f. Fault => faults' \in Nat
  BY FaultsTyped
<1>1. CASE BeginPass
  <2>1. queue \in SUBSET {} /\ entries' \in Seq(Artifacts)
    BY <1>1, <1>e, PassTyped DEF TypeOK, StageInv, BeginPass
  <2>2. said' \in [Artifacts -> SUBSET Verdicts]
    BY <1>1 DEF BeginPass
  <2> QED
    BY <1>1, <1>e, <2>1, <2>2 DEF BeginPass, TypeOK
<1>2. CASE JudgeBatch \/ JudgeBadly
  <2>1. /\ judgments' \in Seq(JudgmentType) /\ entries' \in Seq(Artifacts)
        /\ said' \in [Artifacts -> SUBSET Verdicts]
        /\ \A i \in DOMAIN judgments : i \in DOMAIN judgments'
    BY <1>2, JudgedByReply, AcceptAppends
  <2>2. UNCHANGED <<stored, pc, queue>> /\ faults' \in Nat
    BY <1>2, <1>f DEF JudgeBatch, JudgeBadly, TypeOK
  <2> QED
    BY <2>1, <2>2 DEF TypeOK
<1>3. CASE BatchFails
  <2>1. entries' \in Seq(Artifacts)
    BY <1>3, BatchTyped DEF BatchFails, TypeOK
  <2> QED
    BY <1>3, <1>f, <2>1 DEF BatchFails, TypeOK
<1>4. CASE StartVerify \/ StartInvestigate
  <2>1. queue' \in SUBSET DOMAIN judgments /\ pc' \in {"verify", "investigate"}
        /\ UNCHANGED <<stored, entries, judgments, faults, said>>
    BY <1>4 DEF StartVerify, StartInvestigate, FirstOf, WithVerdict
  <2> QED
    BY <2>1 DEF TypeOK
<1>5. CASE Verify
  <2>1. PICK i \in queue, c \in {"upheld", "refuted", "failed"}, v \in Verdicts :
          i \in DOMAIN judgments /\ judgments' = Revised(judgments, i, v, c)
    BY <1>5, VerifyUpdates
  <2>2. c \in Checks
    BY DEF Checks
  <2>3. judgments' \in Seq(JudgmentType) /\ DOMAIN judgments' = DOMAIN judgments
    BY <2>1, <2>2, OpinionUpdates
  <2>4. UNCHANGED <<stored, pc, entries, said>> /\ queue' \subseteq queue /\ faults' \in Nat
    BY <1>5, FaultsTyped DEF Verify
  <2> QED
    BY <2>3, <2>4 DEF TypeOK
<1>6. CASE Investigate
  <2>1. PICK i \in queue, v \in Verdicts, c \in Checks :
          i \in DOMAIN judgments /\ judgments' = Revised(judgments, i, v, c)
    BY <1>6, InvestigateUpdates
  <2>2. judgments' \in Seq(JudgmentType) /\ DOMAIN judgments' = DOMAIN judgments
    BY <2>1, OpinionUpdates
  <2>3. UNCHANGED <<stored, pc, entries, faults, said>> /\ queue' \subseteq queue
    BY <1>6 DEF Investigate
  <2> QED
    BY <2>2, <2>3 DEF TypeOK
<1>7. CASE WriteJudgments
  BY <1>7, <1>e, WritesVerdicts DEF WriteJudgments, TypeOK
<1>8. CASE StageRaises
  <2>1. said' \in [Artifacts -> SUBSET Verdicts]
    BY <1>8 DEF StageRaises
  <2> QED
    BY <1>8, <1>e, <1>f, <2>1 DEF StageRaises, TypeOK
<1>9. CASE UNCHANGED vars
  BY <1>9 DEF vars, TypeOK
<1> QED
  BY <1>1, <1>2, <1>3, <1>4, <1>5, <1>6, <1>7, <1>8, <1>9 DEF Next

-----------------------------------------------------------------------------
(***************************************************************************)
(* The first of a set of positions.                                        *)
(***************************************************************************)

Below(S, i) == {k \in S : k < i}

\* Counting the positions before i, one by one.
LEMMA BelowCounts ==
    ASSUME NEW L \in Nat, NEW R \in SUBSET (1..L)
    PROVE  /\ Cardinality(Below(R, 0)) = 0
           /\ \A i \in Nat : /\ Cardinality(Below(R, i)) \in Nat
                            /\ Cardinality(Below(R, i + 1)) =
                                 Cardinality(Below(R, i)) + IF i \in R THEN 1 ELSE 0
<1>0. \A k \in R : k \in Nat /\ k > 0
  OBVIOUS
<1>1. Below(R, 0) = {}
  <2>1. \A k \in Below(R, 0) : FALSE
    BY <1>0 DEF Below
  <2> QED
    BY <2>1
<1>2. ASSUME NEW i \in Nat
      PROVE  /\ Cardinality(Below(R, i)) \in Nat
             /\ Cardinality(Below(R, i + 1)) =
                  Cardinality(Below(R, i)) + IF i \in R THEN 1 ELSE 0
  <2>1. Below(R, i) \in SUBSET (1..L) /\ IsFiniteSet(1..L)
    <3>1. \A k \in Below(R, i) : k \in R
      BY DEF Below
    <3>2. Below(R, i) \subseteq 1..L
      BY <3>1
    <3>3. IsFiniteSet(1..L)
      BY FS_Interval
    <3> QED
      BY <3>2, <3>3
  <2>2. IsFiniteSet(Below(R, i)) /\ Cardinality(Below(R, i)) \in Nat
    BY <2>1, FS_Subset, FS_CardinalityType
  <2>3. \A k : k \in Below(R, i + 1) <=> k \in Below(R, i) \/ (k = i /\ i \in R)
    <3>1. \A k \in R : k < i + 1 <=> k < i \/ k = i
      BY <1>0
    <3> QED
      BY <3>1 DEF Below
  <2>4. i \notin Below(R, i)
    BY DEF Below
  <2>5. CASE i \in R
    <3>1. Below(R, i + 1) = Below(R, i) \cup {i}
      BY <2>3, <2>5
    <3> QED
      BY <2>2, <2>4, <2>5, <3>1, FS_AddElement
  <2>6. CASE i \notin R
    <3>1. Below(R, i + 1) = Below(R, i)
      BY <2>3, <2>6
    <3> QED
      BY <2>2, <2>6, <3>1
  <2> QED
    BY <2>5, <2>6
<1> QED
  BY <1>1, <1>2, FS_EmptySet

\* Among the positions before i, a set's first n are all of them or n.
LEMMA FirstOfBelow ==
    ASSUME NEW n \in Nat, NEW L \in Nat, NEW S \in SUBSET (1..L)
    PROVE  \A i \in Nat : Cardinality(Below(FirstOf(n, S), i)) =
                           IF Cardinality(Below(S, i)) < n
                           THEN Cardinality(Below(S, i)) ELSE n
<1> DEFINE F == FirstOf(n, S)
           c(i) == Cardinality(Below(S, i))
           d(i) == Cardinality(Below(F, i))
           T == {i \in Nat : d(i) = IF c(i) < n THEN c(i) ELSE n}
<1>1. F \in SUBSET (1..L)
  BY DEF FirstOf
<1>2. \A i : i \in F <=> i \in S /\ c(i) < n
  BY DEF FirstOf, Below
<1> HIDE DEF F
<1>3. c(0) = 0 /\ d(0) = 0
  BY <1>1, BelowCounts
<1>4. \A i \in Nat : /\ c(i) \in Nat /\ c(i + 1) = c(i) + IF i \in S THEN 1 ELSE 0
                     /\ d(i) \in Nat /\ d(i + 1) = d(i) + IF i \in F THEN 1 ELSE 0
  BY <1>1, BelowCounts
<1> HIDE DEF c, d
<1>5. 0 \in T
  BY <1>3
<1>6. ASSUME NEW i \in Nat, i \in T
      PROVE  i + 1 \in T
  <2>1. d(i) = IF c(i) < n THEN c(i) ELSE n
    BY <1>6
  <2>2. /\ c(i) \in Nat /\ c(i + 1) = c(i) + IF i \in S THEN 1 ELSE 0
        /\ d(i) \in Nat /\ d(i + 1) = d(i) + IF i \in F THEN 1 ELSE 0
        /\ i \in F <=> i \in S /\ c(i) < n
    BY <1>2, <1>4
  <2>3. d(i + 1) = IF c(i + 1) < n THEN c(i + 1) ELSE n
    BY <2>1, <2>2
  <2> QED
    BY <2>3
<1> HIDE DEF T
<1>7. Nat \subseteq T
  BY <1>5, <1>6, SetInduction
<1> QED
  BY <1>7 DEF T, F, c, d

-----------------------------------------------------------------------------
(***************************************************************************)
(* The invariant is kept.                                                  *)
(***************************************************************************)

\* Both kinds of second opinion keep the list, the artifacts and what was
\* said first.
LEMMA OpinionsKeepFirst ==
    ASSUME TypeOK, Verify \/ Investigate
    PROVE  /\ DOMAIN judgments' = DOMAIN judgments
           /\ \A k \in DOMAIN judgments : /\ judgments'[k].artifact = judgments[k].artifact
                                          /\ judgments'[k].first = judgments[k].first
<1>1. PICK i \in queue, v \in Verdicts, c \in Checks :
        i \in DOMAIN judgments /\ judgments' = Revised(judgments, i, v, c)
  <2>1. CASE Verify
    <3>1. {"upheld", "refuted", "failed"} \subseteq Checks
      BY DEF Checks
    <3> QED
      BY <2>1, <3>1, VerifyUpdates
  <2>2. CASE Investigate
    BY <2>2, InvestigateUpdates
  <2> QED
    BY <2>1, <2>2
<1>2. /\ DOMAIN judgments' = DOMAIN judgments
      /\ \A k \in DOMAIN judgments : k # i => judgments'[k] = judgments[k]
      /\ judgments'[i].artifact = judgments[i].artifact
      /\ judgments'[i].first = judgments[i].first
  BY <1>1, OpinionUpdates
<1> QED
  BY <1>2

\* Every stage keeps judgments to what was said of their artifacts.
LEMMA SaidNext == IInv /\ [Next]_vars => JudgmentsAreWhatWasSaid'
<1> SUFFICES ASSUME IInv, [Next]_vars PROVE JudgmentsAreWhatWasSaid'
  OBVIOUS
<1> USE DEF IInv
<1>1. CASE BeginPass
  <2>1. judgments' = <<>> /\ said' = [a \in Artifacts |-> {}] /\ DOMAIN judgments' = {}
    BY <1>1, EmptySeq DEF BeginPass
  <2> QED
    BY <2>1 DEF JudgmentsAreWhatWasSaid
<1>2. CASE JudgeBatch \/ JudgeBadly
  <2>1. pc = "judge" /\ TypeOK
    BY <1>2 DEF JudgeBatch, JudgeBadly
  <2>a. PICK N \in Nat : \E reply \in [1..N -> ReplyItem] : Accept(reply)
    BY <1>2, <2>1, JudgedByReply
  <2>2. PICK reply \in [1..N -> ReplyItem] : Accept(reply)
    BY <2>a
  <2>3. /\ judgments' \in Seq(JudgmentType)
        /\ \A i \in DOMAIN judgments : i \in DOMAIN judgments' /\ judgments'[i] = judgments[i]
        /\ \A i \in DOMAIN judgments' \ DOMAIN judgments :
             judgments'[i].first \in SaidNow(reply, judgments'[i].artifact)
        /\ \A a \in Artifacts : SaidNow(reply, a) # {} =>
             \E i \in DOMAIN judgments' : judgments'[i].artifact = a
    BY <2>1, <2>2, AcceptAppends
  <2>4. \A a \in Artifacts : said'[a] = said[a] \cup SaidNow(reply, a)
    BY <2>1, <2>2, AcceptAppends
  <2>5. \A i \in DOMAIN judgments' : judgments'[i].artifact \in Artifacts
    <3>1. \A i \in DOMAIN judgments' : judgments'[i] \in JudgmentType
      BY <2>3, LenProperties, ElementOfSeq
    <3> QED
      BY <3>1 DEF JudgmentType
  <2>6. \A i \in DOMAIN judgments' : judgments'[i].first \in said'[judgments'[i].artifact]
    <3> TAKE i \in DOMAIN judgments'
    <3>1. CASE i \in DOMAIN judgments
      BY <2>1, <2>3, <2>4, <2>5, <3>1 DEF JudgmentsAreWhatWasSaid
    <3>2. CASE i \notin DOMAIN judgments
      BY <2>3, <2>4, <2>5, <3>2
    <3> QED
      BY <3>1, <3>2
  <2>7. \A a \in Artifacts : said'[a] # {} => \E i \in DOMAIN judgments' : judgments'[i].artifact = a
    <3> SUFFICES ASSUME NEW a \in Artifacts, said'[a] # {}
                 PROVE  \E i \in DOMAIN judgments' : judgments'[i].artifact = a
      OBVIOUS
    <3>1. CASE said[a] # {}
      BY <2>1, <2>3, <3>1 DEF JudgmentsAreWhatWasSaid
    <3>2. CASE SaidNow(reply, a) # {}
      BY <2>3, <3>2
    <3> QED
      BY <2>4, <3>1, <3>2
  <2> QED
    BY <2>6, <2>7 DEF JudgmentsAreWhatWasSaid
<1>3. CASE BatchFails \/ StartVerify \/ StartInvestigate \/ UNCHANGED vars
  <2>1. UNCHANGED <<judgments, said>> /\ (pc' # "idle" => pc # "idle")
    BY <1>3 DEF BatchFails, StartVerify, StartInvestigate, vars
  <2> QED
    BY <2>1 DEF JudgmentsAreWhatWasSaid
<1>4. CASE Verify \/ Investigate
  <2>1. UNCHANGED said /\ pc # "idle"
    BY <1>4 DEF Verify, Investigate
  <2>2. /\ DOMAIN judgments' = DOMAIN judgments
        /\ \A k \in DOMAIN judgments : /\ judgments'[k].artifact = judgments[k].artifact
                                       /\ judgments'[k].first = judgments[k].first
    BY <1>4, OpinionsKeepFirst
  <2> QED
    BY <2>1, <2>2 DEF JudgmentsAreWhatWasSaid
<1>5. CASE WriteJudgments \/ StageRaises
  BY <1>5 DEF WriteJudgments, StageRaises, JudgmentsAreWhatWasSaid
<1> QED
  BY <1>1, <1>2, <1>3, <1>4, <1>5 DEF Next

\* Every stage leaves judgments as its place in the pass allows.
LEMMA StageNext == IInv /\ [Next]_vars => StageInv'
<1> SUFFICES ASSUME IInv, [Next]_vars PROVE StageInv'
  OBVIOUS
<1> USE DEF IInv
<1>e. DOMAIN <<>> = {}
  OBVIOUS
<1>1. CASE BeginPass
  <2>1. queue = {}
    BY <1>1, <1>e DEF BeginPass, StageInv, TypeOK
  <2> QED
    BY <1>1, <1>e, <2>1 DEF BeginPass, StageInv
<1>2. CASE JudgeBatch \/ JudgeBadly
  <2>1. pc = "judge" /\ pc' = "judge" /\ queue' = queue
    BY <1>2 DEF JudgeBatch, JudgeBadly
  <2>2. /\ \A i \in DOMAIN judgments : i \in DOMAIN judgments' /\ judgments'[i] = judgments[i]
        /\ \A i \in DOMAIN judgments' \ DOMAIN judgments : AsJudged(judgments'[i])
    BY <1>2, JudgedByReply, AcceptAppends
  <2>3. \A i \in DOMAIN judgments' : AsJudged(judgments'[i])
    BY <2>1, <2>2 DEF StageInv
  <2> QED
    BY <2>1, <2>3 DEF StageInv
<1>3. CASE BatchFails
  BY <1>3 DEF BatchFails, StageInv
<1>4. CASE StartVerify
  <2>1. pc = "judge" /\ pc' = "verify" /\ UNCHANGED judgments
        /\ queue' \subseteq WithVerdict("malicious")
    BY <1>4 DEF StartVerify, FirstOf
  <2>2. \A i \in DOMAIN judgments : AsJudged(judgments[i])
    BY <2>1 DEF StageInv
  <2>3. \A i \in DOMAIN judgments : AsVerified(judgments[i])
    BY <2>2 DEF AsJudged, AsVerified
  <2>4. \A i \in queue' : judgments[i].first = "malicious" /\ judgments[i].check = "none"
    BY <2>1, <2>2 DEF WithVerdict, AsJudged
  <2> QED
    BY <2>1, <2>3, <2>4 DEF StageInv
<1>5. CASE Verify
  <2>1. PICK i \in queue, c \in {"upheld", "refuted", "failed"}, v \in Verdicts :
          /\ i \in DOMAIN judgments
          /\ v = IF c = "refuted" THEN "suspicious" ELSE judgments[i].verdict
          /\ judgments' = Revised(judgments, i, v, c) /\ queue' = queue \ {i}
    BY <1>5, VerifyUpdates
  <2>2. c \in Checks
    BY DEF Checks
  <2>3. /\ DOMAIN judgments' = DOMAIN judgments
        /\ \A k \in DOMAIN judgments : k # i => judgments'[k] = judgments[k]
        /\ judgments'[i].first = judgments[i].first
        /\ judgments'[i].verdict = v /\ judgments'[i].check = c
    BY <2>1, <2>2, OpinionUpdates
  <2>4. pc = "verify" /\ pc' = "verify"
    BY <1>5 DEF Verify
  <2>5. judgments[i].first = "malicious" /\ judgments[i].verdict = "malicious"
    BY <2>1, <2>4 DEF StageInv, AsVerified
  <2>6. AsVerified(judgments'[i])
    BY <2>1, <2>3, <2>5 DEF AsVerified
  <2>7. \A k \in DOMAIN judgments' : AsVerified(judgments'[k])
    BY <2>3, <2>4, <2>6 DEF StageInv
  <2>8. \A k \in queue' : judgments'[k].first = "malicious" /\ judgments'[k].check = "none"
    BY <2>1, <2>3, <2>4 DEF StageInv, TypeOK
  <2> QED
    BY <2>4, <2>7, <2>8 DEF StageInv
<1>6. CASE StartInvestigate
  <2>1. pc = "verify" /\ pc' = "investigate" /\ UNCHANGED judgments
        /\ queue' \subseteq WithVerdict("unknown")
    BY <1>6 DEF StartInvestigate, FirstOf
  <2>2. \A i \in DOMAIN judgments : AsVerified(judgments[i]) /\ judgments[i].check \in Checks
    <3>1. \A i \in DOMAIN judgments : judgments[i] \in JudgmentType
      BY LenProperties, ElementOfSeq DEF TypeOK
    <3> QED
      BY <2>1, <3>1 DEF StageInv, JudgmentType
  <2>3. \A i \in queue' : judgments[i].first = "unknown" /\ judgments[i].check = "none"
    BY <2>1, <2>2 DEF WithVerdict, AsVerified, Checks
  <2> QED
    BY <2>1, <2>2, <2>3 DEF StageInv, AsInvestigated
<1>7. CASE Investigate
  <2>1. PICK i \in queue, v \in Verdicts, c \in Checks :
          /\ i \in DOMAIN judgments /\ c = judgments[i].check
          /\ judgments' = Revised(judgments, i, v, c) /\ queue' = queue \ {i}
    BY <1>7, InvestigateUpdates
  <2>2. /\ DOMAIN judgments' = DOMAIN judgments
        /\ \A k \in DOMAIN judgments : k # i => judgments'[k] = judgments[k]
        /\ judgments'[i].first = judgments[i].first
        /\ judgments'[i].check = judgments[i].check
    BY <2>1, OpinionUpdates
  <2>3. pc = "investigate" /\ pc' = "investigate"
    BY <1>7 DEF Investigate
  <2>4. AsInvestigated(judgments'[i])
    BY <2>1, <2>2, <2>3 DEF StageInv, AsInvestigated
  <2>5. \A k \in DOMAIN judgments' : AsInvestigated(judgments'[k])
    BY <2>2, <2>3, <2>4 DEF StageInv
  <2>6. \A k \in queue' : judgments'[k].first = "unknown" /\ judgments'[k].check = "none"
    BY <2>1, <2>2, <2>3 DEF StageInv, TypeOK
  <2> QED
    BY <2>3, <2>5, <2>6 DEF StageInv
<1>8. CASE WriteJudgments \/ StageRaises
  BY <1>8 DEF WriteJudgments, StageRaises, StageInv
<1>9. CASE UNCHANGED vars
  BY <1>9 DEF vars, StageInv
<1> QED
  BY <1>1, <1>2, <1>3, <1>4, <1>5, <1>6, <1>7, <1>8, <1>9 DEF Next

\* Every stage keeps to the first MaxVerify of those called malicious.
LEMMA SkepticNext == IInv /\ [Next]_vars => SkepticInv'
<1> SUFFICES ASSUME IInv, [Next]_vars, HasVerifier PROVE SkepticInv'
  BY DEF SkepticInv
<1> USE DEF IInv
<1>1. CASE BeginPass \/ JudgeBatch \/ JudgeBadly \/ BatchFails \/ WriteJudgments \/ StageRaises
  <2>1. pc' \in {"judge", "idle"}
    BY <1>1 DEF BeginPass, JudgeBatch, JudgeBadly, BatchFails, WriteJudgments, StageRaises
  <2> QED
    BY <2>1 DEF SkepticInv
<1>2. CASE StartVerify
  <2>1. pc = "judge" /\ pc' = "verify" /\ UNCHANGED judgments
        /\ queue' = FirstOf(MaxVerify, WithVerdict("malicious"))
    BY <1>2 DEF StartVerify
  <2>2. \A i \in DOMAIN judgments : AsJudged(judgments[i])
    BY <2>1 DEF StageInv
  <2>3. WithVerdict("malicious") = FirstSaid("malicious")' /\ Asked' = {}
    BY <2>1, <2>2 DEF WithVerdict, FirstSaid, Asked, AsJudged
  <2> QED
    BY <2>1, <2>3 DEF SkepticInv
<1>3. CASE Verify
  <2>1. PICK i \in queue, c \in {"upheld", "refuted", "failed"}, v \in Verdicts :
          /\ i \in DOMAIN judgments
          /\ judgments' = Revised(judgments, i, v, c) /\ queue' = queue \ {i}
    BY <1>3, VerifyUpdates
  <2>2. c \in Checks /\ c # "none"
    BY DEF Checks
  <2>3. /\ DOMAIN judgments' = DOMAIN judgments
        /\ \A k \in DOMAIN judgments : k # i => judgments'[k] = judgments[k]
        /\ judgments'[i].first = judgments[i].first /\ judgments'[i].check = c
    BY <2>1, <2>2, OpinionUpdates
  <2>4. pc = "verify" /\ pc' = "verify"
    BY <1>3 DEF Verify
  <2>5. FirstSaid("malicious")' = FirstSaid("malicious")
    BY <2>3 DEF FirstSaid
  <2>6. Asked' = Asked \cup {i}
    BY <2>1, <2>2, <2>3 DEF Asked
  <2>7. Asked' \cup queue' = Asked \cup queue
    BY <2>1, <2>6
  <2> QED
    BY <2>4, <2>5, <2>7 DEF SkepticInv
<1>4. CASE StartInvestigate
  <2>1. pc = "verify" /\ pc' = "investigate" /\ UNCHANGED judgments /\ queue = {}
    BY <1>4 DEF StartInvestigate
  <2> QED
    BY <2>1 DEF SkepticInv, Asked, FirstSaid
<1>5. CASE Investigate
  <2>1. PICK i \in queue, v \in Verdicts, c \in Checks :
          /\ i \in DOMAIN judgments /\ c = judgments[i].check
          /\ judgments' = Revised(judgments, i, v, c)
    BY <1>5, InvestigateUpdates
  <2>2. /\ DOMAIN judgments' = DOMAIN judgments
        /\ \A k \in DOMAIN judgments : k # i => judgments'[k] = judgments[k]
        /\ judgments'[i].first = judgments[i].first
        /\ judgments'[i].check = judgments[i].check
    BY <2>1, OpinionUpdates
  <2>3. pc = "investigate" /\ pc' = "investigate"
    BY <1>5 DEF Investigate
  <2>4. FirstSaid("malicious")' = FirstSaid("malicious") /\ Asked' = Asked
    BY <2>2 DEF FirstSaid, Asked
  <2> QED
    BY <2>3, <2>4 DEF SkepticInv
<1>6. CASE UNCHANGED vars
  BY <1>6 DEF vars, SkepticInv, Asked, FirstSaid
<1> QED
  BY <1>1, <1>2, <1>3, <1>4, <1>5, <1>6 DEF Next

-----------------------------------------------------------------------------
(***************************************************************************)
(* The theorems.                                                           *)
(***************************************************************************)

\* The invariant holds before the first pass.
LEMMA InitIInv == Init => IInv
<1> SUFFICES ASSUME Init PROVE IInv
  OBVIOUS
<1> QED
  BY TypeInit DEF Init, IInv, JudgmentsAreWhatWasSaid, StageInv, SkepticInv

\* The invariant holds throughout.
THEOREM Invariance == Spec => []IInv
<1>1. IInv /\ [Next]_vars => IInv'
  BY TypeNext, SaidNext, StageNext, SkepticNext DEF IInv
<1> QED
  BY InitIInv, <1>1, PTL DEF Spec

\* Every stage keeps entries, judgments and the store to their kinds: only a
\* verdict is ever stored, and only positions of the list are queued.
THEOREM TypeCorrect == Spec => []TypeOK
  BY Invariance, PTL DEF IInv

\* Whatever the replies leave out, repeat or make up, the judgments are what
\* the judge said, of the artifacts it said it of, and none is lost.
THEOREM JudgmentsCorrect == Spec => []JudgmentsAreWhatWasSaid
  BY Invariance, PTL DEF IInv

\* A verdict changes only by a refutation or by an investigation.
THEOREM RevisionCorrect == Spec => []RevisedOnlyAsAllowed
<1>1. IInv => RevisedOnlyAsAllowed
  <2> SUFFICES ASSUME IInv, NEW i \in DOMAIN judgments, judgments[i].verdict # judgments[i].first
               PROVE  \/ /\ judgments[i].first = "malicious" /\ judgments[i].check = "refuted"
                         /\ judgments[i].verdict = "suspicious"
                      \/ /\ judgments[i].first = "unknown" /\ judgments[i].check = "none"
                         /\ pc = "investigate"
    BY DEF RevisedOnlyAsAllowed
  <2>1. judgments[i].check \in Checks
    <3>1. judgments[i] \in JudgmentType
      BY LenProperties, ElementOfSeq DEF IInv, TypeOK
    <3> QED
      BY <3>1 DEF JudgmentType
  <2>2. pc # "idle"
    BY DEF IInv, StageInv
  <2>3. CASE pc = "judge"
    BY <2>3 DEF IInv, StageInv, AsJudged
  <2>4. CASE pc = "verify"
    BY <2>1, <2>4 DEF IInv, StageInv, AsVerified, Checks
  <2>5. CASE pc = "investigate"
    BY <2>1, <2>5 DEF IInv, StageInv, AsInvestigated, AsVerified, Checks
  <2> QED
    BY <2>2, <2>3, <2>4, <2>5 DEF IInv, TypeOK
<1> QED
  BY <1>1, Invariance, PTL

\* A malicious verdict that is stored was upheld, or the skeptic failed on it
\* or had its fill of earlier ones.
THEOREM SkepticCorrect == Spec => []MaliciousWasChecked
<1>1. IInv => MaliciousWasChecked
  <2> SUFFICES ASSUME IInv, pc = "investigate", HasVerifier,
                      NEW i \in WithVerdict("malicious")
               PROVE  /\ judgments[i].check # "refuted"
                      /\ judgments[i].first = "malicious" /\ judgments[i].check = "none" =>
                           Cardinality({k \in DOMAIN judgments :
                             k < i /\ judgments[k].check # "none"}) = MaxVerify
    BY DEF MaliciousWasChecked
  <2> DEFINE S == FirstSaid("malicious")
  <2>1. i \in DOMAIN judgments /\ judgments[i].verdict = "malicious"
    BY DEF WithVerdict
  <2>2. judgments[i].check # "refuted"
    BY <2>1 DEF IInv, StageInv, AsInvestigated, AsVerified
  <2>3. ASSUME judgments[i].first = "malicious", judgments[i].check = "none"
        PROVE  Cardinality(Below(Asked, i)) = MaxVerify
    <3>1. i \in S /\ i \notin Asked
      BY <2>1, <2>3 DEF FirstSaid, Asked
    <3>2. Asked = FirstOf(MaxVerify, S)
      BY DEF IInv, SkepticInv
    <3>3. S \in SUBSET (1..Len(judgments)) /\ Len(judgments) \in Nat
      BY LenProperties DEF IInv, TypeOK, FirstSaid
    <3>4. i \in Nat /\ MaxVerify \in Nat
      BY <3>1, <3>3, ConstantsAssumption
    <3>5. ~(Cardinality(Below(S, i)) < MaxVerify)
      BY <3>1, <3>2 DEF FirstOf, Below
    <3> HIDE DEF S
    <3> QED
      BY <3>2, <3>3, <3>4, <3>5, FirstOfBelow
  <2>4. Below(Asked, i) = {k \in DOMAIN judgments : k < i /\ judgments[k].check # "none"}
    BY DEF Below, Asked
  <2> QED
    BY <2>2, <2>3, <2>4
<1> QED
  BY <1>1, Invariance, PTL
=============================================================================
