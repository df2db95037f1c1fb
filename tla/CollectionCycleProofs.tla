----------------------- MODULE CollectionCycleProofs -----------------------
(***************************************************************************)
(* The safety properties of CollectionCycle and Baseline, for any          *)
(* collectors and artifacts and any number of runs, failures, corrections  *)
(* and maintenance commands.                                               *)
(***************************************************************************)
EXTENDS Baseline, Integers, FiniteSetTheorems, SequenceTheorems,
        NaturalsInduction, WellFoundedInduction, TLAPS

-----------------------------------------------------------------------------
(***************************************************************************)
(* The inductive invariant, in named parts.                                *)
(***************************************************************************)

JudgementType == [kind : {"judgement"}, verdict : Verdicts, seen : Nat]
CorrectionType == [kind : {"correction"}, label : Labels, applied : BOOLEAN]
Stages == {"idle", "feedback", "start", "collect", "judge", "touch", "end", "rotate"}
InRun == pc \in {"collect", "judge", "touch", "end", "rotate"}

TypeOK ==
    /\ clock \in Nat
    /\ runs \subseteq 1..clock /\ finished \subseteq runs
    /\ rows \subseteq (1..clock) \X Artifacts
    /\ events \subseteq (0..clock) \X Artifacts
    /\ verdicts \in [Artifacts -> JudgementType \cup {None}]
    /\ feedback \in [Artifacts -> CorrectionType \cup {None}]
    /\ pc \in Stages
    /\ todo \in Seq(ToSet(Order))
    /\ observed \subseteq Artifacts
    /\ settings \in ControlReads
    /\ pending \in [Artifacts -> Labels \cup {"none"}]
    /\ okIn \in [Collectors -> Nat]
    /\ judgedIn \in [Artifacts -> Nat]
    /\ excused \subseteq Artifacts

\* While a run is open it is the newest; no collector comes twice.
RunInv ==
    /\ InRun => run = clock /\ run \in runs
    /\ pc \in {"judge", "touch"} => todo # <<>>
    /\ \A i, j \in DOMAIN todo : i # j => todo[i] # todo[j]

\* The open run has rows of the collectors driven so far, and of the one at
\* hand those that it observed.
RowsInv ==
    /\ pc \in {"judge", "touch"} =>
         observed \subseteq FoundBy(Current) /\ {run} \X observed \subseteq rows
    /\ \A a \in Artifacts : InRun =>
         (CollectorOf[a] \in ToSet(todo) /\ <<run, a>> \in rows
            => pc \in {"judge", "touch"} /\ a \in observed)

\* What a finding was last seen in, it has a row of, unless that run has been
\* overtaken by one on display.
Superseded(s) == Candidates = {} \/ \E r \in Candidates : s < r

SeenInv ==
    \A a \in Artifacts : Judged(a) =>
        /\ verdicts[a].seen <= clock
        /\ \/ verdicts[a].seen = 0
           \/ <<verdicts[a].seen, a>> \in rows
           \/ Superseded(verdicts[a].seen)

\* A collector that succeeded in a run marked what it found there and what
\* had a verdict by then.
MarkedInv ==
    /\ \A c \in Collectors :
         /\ okIn[c] <= clock
         /\ okIn[c] # 0 => c \in ToSet(Order)
         /\ InRun /\ c \in ToSet(todo) => okIn[c] < run
    /\ \A a \in Artifacts : LET r == okIn[CollectorOf[a]] IN
         /\ r # 0 /\ <<r, a>> \in rows /\ Judged(a) /\ judgedIn[a] <= r
         => verdicts[a].seen >= r

\* What is about to be applied is a correction that exists.
CorrectionInv ==
    /\ CorrectionHolds
    /\ \A a \in Artifacts : pending[a] # "none" => Corrected(a)

IInv == TypeOK /\ RunInv /\ RowsInv /\ SeenInv /\ MarkedInv /\ CorrectionInv

-----------------------------------------------------------------------------
(***************************************************************************)
(* Lemmas on the operators of the model.                                   *)
(***************************************************************************)

\* Rows of the two tables are told from their absence.
LEMMA Kinds ==
    /\ \A j \in JudgementType : j # None /\ j.verdict \in Verdicts /\ j.seen \in Nat
    /\ \A f \in CorrectionType : f # None /\ f.label \in Labels /\ f.applied \in BOOLEAN
    /\ \A v \in Verdicts, n \in Nat : /\ Judgement(v, n) \in JudgementType
                                      /\ Judgement(v, n).verdict = v /\ Judgement(v, n).seen = n
    /\ \A l \in Labels, b \in BOOLEAN : /\ Correction(l, b) \in CorrectionType
                                        /\ Correction(l, b).applied = b
  BY DEF JudgementType, CorrectionType, None, Judgement, Correction

\* Touching a verdict or pinning it, and marking a correction applied, change
\* that field of the row and no other.
LEMMA RowUpdates ==
    /\ \A j \in JudgementType, n \in Nat :
         /\ [j EXCEPT !.seen = n] \in JudgementType
         /\ [j EXCEPT !.seen = n].seen = n /\ [j EXCEPT !.seen = n].verdict = j.verdict
    /\ \A j \in JudgementType, v \in Verdicts :
         /\ [j EXCEPT !.verdict = v] \in JudgementType
         /\ [j EXCEPT !.verdict = v].seen = j.seen /\ [j EXCEPT !.verdict = v].verdict = v
    /\ \A f \in CorrectionType :
         /\ [f EXCEPT !.applied = TRUE] \in CorrectionType
         /\ [f EXCEPT !.applied = TRUE].label = f.label
         /\ [f EXCEPT !.applied = TRUE].applied = TRUE
  BY DEF JudgementType, CorrectionType

\* Whatever the label, a correction pins a verdict.
LEMMA PinnedTyped == \A l : Pinned(l) \in Verdicts
  BY DEF Pinned, Verdicts

\* An artifact has a row of its table, or none.
LEMMA RowsTyped ==
    ASSUME TypeOK
    PROVE  /\ \A a \in Artifacts : Judged(a) => verdicts[a] \in JudgementType
           /\ \A a \in Artifacts : ~Judged(a) => verdicts[a] = None
           /\ \A a \in Artifacts : Corrected(a) => feedback[a] \in CorrectionType
  BY DEF TypeOK, Judged, Corrected

\* What is left of the collectors once the first is done with.
LEMMA TodoShrinks ==
    ASSUME TypeOK, RunInv, todo # <<>>
    PROVE  /\ Current \in ToSet(Order) /\ Current \in ToSet(todo)
           /\ Tail(todo) \in Seq(ToSet(Order))
           /\ ToSet(Tail(todo)) = ToSet(todo) \ {Current}
           /\ \A i, j \in DOMAIN Tail(todo) : i # j => Tail(todo)[i] # Tail(todo)[j]
<1>1. todo \in Seq(ToSet(Order))
  BY DEF TypeOK
<1>2. Len(todo) \in Nat \ {0} /\ DOMAIN todo = 1..Len(todo) /\ Current = todo[1]
  BY <1>1, EmptySeq, LenProperties DEF Current
<1>3. /\ Current \in ToSet(Order) /\ Tail(todo) \in Seq(ToSet(Order))
      /\ Len(Tail(todo)) = Len(todo) - 1
      /\ \A i \in 1..Len(Tail(todo)) : Tail(todo)[i] = todo[i + 1]
  BY <1>1, HeadTailProperties DEF Current
<1>4. DOMAIN Tail(todo) = 1..(Len(todo) - 1)
  BY <1>3, LenProperties
<1>5. \A i \in DOMAIN Tail(todo) : i + 1 \in DOMAIN todo /\ i + 1 # 1 /\ Tail(todo)[i] = todo[i + 1]
  BY <1>2, <1>3, <1>4
<1>6. \A i \in DOMAIN todo : i # 1 => i - 1 \in DOMAIN Tail(todo) /\ Tail(todo)[i - 1] = todo[i]
  BY <1>2, <1>3, <1>4
<1>7. \A i, j \in DOMAIN todo : i # j => todo[i] # todo[j]
  BY DEF RunInv
<1>8. ToSet(Tail(todo)) = ToSet(todo) \ {Current}
  <2>1. \A c \in ToSet(Tail(todo)) : c \in ToSet(todo) /\ c # Current
    BY <1>2, <1>5, <1>7 DEF ToSet
  <2>2. \A c \in ToSet(todo) : c # Current => c \in ToSet(Tail(todo))
    BY <1>2, <1>6 DEF ToSet
  <2> QED
    BY <2>1, <2>2
<1>9. \A i, j \in DOMAIN Tail(todo) : i # j => Tail(todo)[i] # Tail(todo)[j]
  <2> TAKE i, j \in DOMAIN Tail(todo)
  <2>1. i # j => i + 1 # j + 1
    BY <1>2, <1>4
  <2> QED
    BY <1>5, <1>7, <2>1
<1>10. Current \in ToSet(todo)
  BY <1>2 DEF ToSet
<1> QED
  BY <1>3, <1>8, <1>9, <1>10

\* The collectors of a run: none twice, none of them a stream.
LEMMA OrderTyped ==
    /\ Order \in Seq(ToSet(Order))
    /\ \A i, j \in DOMAIN Order : i # j => Order[i] # Order[j]
    /\ ToSet(Order) \subseteq Collectors
    /\ \A a \in Artifacts : CollectorOf[a] \in Collectors
    /\ \A c \in Streams : c \notin ToSet(Order)
  BY ConstantsAssumption DEF Collectors

\* New verdicts: none of them seen yet, all of now.
LEMMA NewVerdictsUpdates ==
    ASSUME TypeOK, NEW answered \in SUBSET Artifacts, NewVerdicts(answered)
    PROVE  /\ verdicts' \in [Artifacts -> JudgementType \cup {None}]
           /\ judgedIn' \in [Artifacts -> Nat]
           /\ \A a \in answered : verdicts'[a] # None /\ verdicts'[a].seen = 0 /\ judgedIn'[a] = clock
           /\ \A a \in Artifacts \ answered : verdicts'[a] = verdicts[a] /\ judgedIn'[a] = judgedIn[a]
           /\ excused' = excused \cup {a \in answered : Corrected(a) /\ feedback[a].applied}
<1>1. PICK v \in [answered -> Verdicts] :
        verdicts' = [a \in Artifacts |-> IF a \in answered THEN Judgement(v[a], 0) ELSE verdicts[a]]
  BY DEF NewVerdicts
<1>2. \A a \in answered : /\ Judgement(v[a], 0) \in JudgementType /\ Judgement(v[a], 0) # None
                          /\ Judgement(v[a], 0).seen = 0
  BY Kinds
<1>3. judgedIn' = [a \in Artifacts |-> IF a \in answered THEN clock ELSE judgedIn[a]]
  BY DEF NewVerdicts
<1>4. verdicts' \in [Artifacts -> JudgementType \cup {None}]
  BY <1>1, <1>2 DEF TypeOK
<1>5. judgedIn' \in [Artifacts -> Nat]
  BY <1>3 DEF TypeOK
<1>6. excused' = excused \cup {a \in answered : Corrected(a) /\ feedback[a].applied}
  BY DEF NewVerdicts
<1>7. \A a \in answered : verdicts'[a] # None /\ verdicts'[a].seen = 0
  BY <1>1, <1>2
<1>8. \A a \in Artifacts \ answered : verdicts'[a] = verdicts[a]
  BY <1>1
<1> QED
  BY <1>3, <1>4, <1>5, <1>6, <1>7, <1>8

\* Judging touches unjudged artifacts of the collector at hand or of streams.
LEMMA JudgingUpdates ==
    ASSUME TypeOK, JudgeSnapshot \/ JudgeStreaming
    PROVE  \E answered \in SUBSET Artifacts :
             /\ \A a \in answered : ~Judged(a)
             /\ \A a \in answered : IF JudgeSnapshot THEN a \in observed ELSE CollectorOf[a] \in Streams
             /\ verdicts' \in [Artifacts -> JudgementType \cup {None}]
             /\ judgedIn' \in [Artifacts -> Nat]
             /\ \A a \in answered : verdicts'[a] # None /\ verdicts'[a].seen = 0 /\ judgedIn'[a] = clock
             /\ \A a \in Artifacts \ answered : verdicts'[a] = verdicts[a] /\ judgedIn'[a] = judgedIn[a]
             /\ excused' = excused \cup {a \in answered : Corrected(a) /\ feedback[a].applied}
<1>1. CASE UNCHANGED <<verdicts, judgedIn, excused>>
  <2> WITNESS {} \in SUBSET Artifacts
  <2> QED
    BY <1>1 DEF TypeOK
<1>2. CASE ~UNCHANGED <<verdicts, judgedIn, excused>>
  <2>1. PICK answered \in SUBSET Artifacts :
          /\ NewVerdicts(answered)
          /\ \A a \in answered : ~Judged(a)
          /\ \A a \in answered : IF JudgeSnapshot THEN a \in observed ELSE CollectorOf[a] \in Streams
    <3>1. CASE JudgeSnapshot
      <4>1. PICK answered \in SUBSET {a \in observed : ~Judged(a)} : NewVerdicts(answered)
        BY <1>2, <3>1 DEF JudgeSnapshot
      <4>2. answered \in SUBSET Artifacts
        BY DEF TypeOK
      <4> QED
        BY <3>1, <4>1, <4>2
    <3>2. CASE ~JudgeSnapshot
      <4>1. PICK answered \in SUBSET {a \in Artifacts :
                  /\ CollectorOf[a] \in Streams \ settings.disabled
                  /\ \E n \in 0..clock : <<n, a>> \in events
                  /\ ~Judged(a)} : NewVerdicts(answered)
        BY <1>2, <3>2 DEF JudgeStreaming
      <4> QED
        BY <3>2, <4>1
    <3> QED
      BY <3>1, <3>2
  <2> WITNESS answered \in SUBSET Artifacts
  <2> QED
    BY <2>1, NewVerdictsUpdates
<1> QED
  BY <1>1, <1>2

\* What was observed and has a verdict is marked; nothing else changes.
LEMMA TouchUpdates ==
    ASSUME TypeOK, RunInv, TouchJudgments
    PROVE  /\ verdicts' \in [Artifacts -> JudgementType \cup {None}]
           /\ \A a \in Artifacts : verdicts'[a] # None <=> Judged(a)
           /\ \A a \in Artifacts : Judged(a) =>
                /\ verdicts'[a].verdict = verdicts[a].verdict
                /\ verdicts'[a].seen = IF a \in observed THEN run ELSE verdicts[a].seen
<1>1. run \in Nat
  BY DEF TypeOK, RunInv, InRun, TouchJudgments
<1>2. verdicts' = [a \in Artifacts |-> IF a \in observed /\ Judged(a)
                                    THEN [verdicts[a] EXCEPT !.seen = run] ELSE verdicts[a]]
  BY DEF TouchJudgments
<1>3. \A a \in Artifacts : Judged(a) =>
        /\ verdicts[a] \in JudgementType
        /\ [verdicts[a] EXCEPT !.seen = run] \in JudgementType
        /\ [verdicts[a] EXCEPT !.seen = run] # None
        /\ [verdicts[a] EXCEPT !.seen = run].seen = run
        /\ [verdicts[a] EXCEPT !.seen = run].verdict = verdicts[a].verdict
  BY <1>1, RowsTyped, RowUpdates, Kinds
<1>4. verdicts' \in [Artifacts -> JudgementType \cup {None}]
  BY <1>2, <1>3 DEF TypeOK
<1>5. \A a \in Artifacts : verdicts'[a] # None <=> Judged(a)
  BY <1>2, <1>3 DEF Judged
<1>6. \A a \in Artifacts : Judged(a) =>
        /\ verdicts'[a].verdict = verdicts[a].verdict
        /\ verdicts'[a].seen = IF a \in observed THEN run ELSE verdicts[a].seen
  BY <1>2, <1>3
<1> QED
  BY <1>4, <1>5, <1>6

\* The pending corrections are pinned and marked applied; nothing else changes.
LEMMA FeedbackUpdates ==
    ASSUME TypeOK, CorrectionInv, ApplyFeedback
    PROVE  /\ verdicts' \in [Artifacts -> JudgementType \cup {None}]
           /\ feedback' \in [Artifacts -> CorrectionType \cup {None}]
           /\ \A a \in Artifacts : verdicts'[a] # None <=> Judged(a)
           /\ \A a \in Artifacts : Judged(a) => verdicts'[a].seen = verdicts[a].seen
           /\ \A a \in Artifacts : pending[a] = "none" =>
                /\ verdicts'[a] = verdicts[a] /\ feedback'[a] = feedback[a]
                /\ a \in excused' <=> a \in excused
           /\ \A a \in Artifacts : pending[a] # "none" =>
                /\ Judged(a) => verdicts'[a].verdict = Pinned(pending[a])
                /\ feedback'[a] # None /\ feedback'[a].label = feedback[a].label
                /\ a \in excused' <=> feedback[a].label # pending[a]
           /\ excused' \subseteq Artifacts
<1>1. verdicts' = [a \in Artifacts |-> IF pending[a] # "none" /\ Judged(a)
                     THEN [verdicts[a] EXCEPT !.verdict = Pinned(pending[a])] ELSE verdicts[a]]
  BY DEF ApplyFeedback
<1>2. feedback' = [a \in Artifacts |-> IF pending[a] # "none"
                     THEN [feedback[a] EXCEPT !.applied = TRUE] ELSE feedback[a]]
  BY DEF ApplyFeedback
<1>3. \A a \in Artifacts : Judged(a) =>
        LET new == [verdicts[a] EXCEPT !.verdict = Pinned(pending[a])]
        IN  /\ verdicts[a] \in JudgementType /\ new \in JudgementType /\ new # None
            /\ new.seen = verdicts[a].seen /\ new.verdict = Pinned(pending[a])
  BY PinnedTyped, RowsTyped, RowUpdates, Kinds
<1>4. \A a \in Artifacts : pending[a] # "none" =>
        LET new == [feedback[a] EXCEPT !.applied = TRUE]
        IN  new \in CorrectionType /\ new # None /\ new.label = feedback[a].label
  BY RowsTyped, RowUpdates, Kinds DEF CorrectionInv
<1>5. excused' = (excused \ {a \in Artifacts : pending[a] # "none"})
                   \cup {a \in {a \in Artifacts : pending[a] # "none"} : feedback[a].label # pending[a]}
  BY DEF ApplyFeedback
<1>6. verdicts' \in [Artifacts -> JudgementType \cup {None}]
  BY <1>1, <1>3 DEF TypeOK
<1>7. feedback' \in [Artifacts -> CorrectionType \cup {None}]
  BY <1>2, <1>4 DEF TypeOK
<1>8. /\ \A a \in Artifacts : verdicts'[a] # None <=> Judged(a)
      /\ \A a \in Artifacts : Judged(a) => verdicts'[a].seen = verdicts[a].seen
      /\ \A a \in Artifacts : pending[a] = "none" => verdicts'[a] = verdicts[a]
      /\ \A a \in Artifacts : pending[a] # "none" =>
           (Judged(a) => verdicts'[a].verdict = Pinned(pending[a]))
  BY <1>1, <1>3 DEF Judged
<1>9. /\ \A a \in Artifacts : pending[a] = "none" => feedback'[a] = feedback[a]
      /\ \A a \in Artifacts : pending[a] # "none" =>
           feedback'[a] # None /\ feedback'[a].label = feedback[a].label
  BY <1>2, <1>4
<1>10. /\ \A a \in Artifacts : pending[a] = "none" => (a \in excused' <=> a \in excused)
       /\ \A a \in Artifacts : pending[a] # "none" =>
            (a \in excused' <=> feedback[a].label # pending[a])
       /\ excused' \subseteq Artifacts
  BY <1>5 DEF TypeOK
<1> QED
  BY <1>6, <1>7, <1>8, <1>9, <1>10

\* Pruning deletes completed runs that a newer one outlives, and their rows.
LEMMA PruneUpdates ==
    ASSUME TypeOK, PruneToSize
    PROVE  \E gone \in SUBSET finished :
             /\ clock' = clock /\ runs' = runs \ gone /\ finished' = finished \ gone
             /\ rows' \subseteq rows /\ \A w \in rows : w[1] \notin gone => w \in rows'
             /\ events' \subseteq events
             /\ \A r \in gone : \E k \in finished \ gone : r < k
<1>1. PICK gone \in SUBSET finished :
        LET kept == finished \ gone IN
          /\ gone # {} => kept # {}
          /\ \A r \in gone, k \in kept : GoesBefore(r, k)
          /\ runs' = runs \ gone
          /\ finished' = kept
          /\ rows' = {w \in rows : w[1] \notin gone}
          /\ events' = {e \in events : gone # {} => \E k \in kept : k <= e[1]}
          /\ UNCHANGED clock
  BY DEF PruneToSize
<1>2. \A r \in gone : \E k \in finished \ gone : r < k
  BY <1>1 DEF GoesBefore
<1>3. events' \subseteq events
  BY <1>1
<1>4. rows' \subseteq rows /\ \A w \in rows : w[1] \notin gone => w \in rows'
  BY <1>1
<1>5. clock' = clock /\ runs' = runs \ gone /\ finished' = finished \ gone
  BY <1>1
<1> QED
  BY <1>2, <1>3, <1>4, <1>5

-----------------------------------------------------------------------------
(***************************************************************************)
(* Type correctness.                                                       *)
(***************************************************************************)

\* The tables and the loop start well typed.
LEMMA TypeInit == Init => TypeOK
<1> SUFFICES ASSUME Init PROVE TypeOK
  OBVIOUS
<1>1. todo \in Seq(ToSet(Order)) /\ settings \in ControlReads
  BY EmptySeq DEF Init, BlindRead, ControlReads
<1>2. okIn \in [Collectors -> Nat] /\ pending \in [Artifacts -> Labels \cup {"none"}]
      /\ judgedIn \in [Artifacts -> Nat]
  BY DEF Init, NoPending
<1>3. verdicts \in [Artifacts -> JudgementType \cup {None}]
      /\ feedback \in [Artifacts -> CorrectionType \cup {None}]
  BY DEF Init
<1> QED
  BY <1>1, <1>2, <1>3 DEF Init, TypeOK, Stages

\* Every step of the cycle, of maintenance and of the dashboard keeps the types.
LEMMA TypeNext == IInv /\ [Next]_vars => TypeOK'
<1> SUFFICES ASSUME IInv, [Next]_vars PROVE TypeOK'
  OBVIOUS
<1> USE DEF IInv, telemetry, findings, thread, history, Stages
<1>e. /\ <<>> \in Seq(ToSet(Order)) /\ NoPending \in [Artifacts -> Labels \cup {"none"}]
      /\ BlindRead \in ControlReads
  BY EmptySeq DEF NoPending, BlindRead, ControlReads
<1>1. CASE BeginCycle
  <2>1. pending' \in [Artifacts -> Labels \cup {"none"}]
    <3>1. \A a \in Artifacts : Corrected(a) => feedback[a].label \in Labels
      BY RowsTyped, Kinds
    <3> QED
      BY <1>1, <3>1 DEF BeginCycle
  <2> QED
    BY <1>1, <2>1 DEF BeginCycle, TypeOK
<1>2. CASE ApplyFeedback
  <2>1. /\ verdicts' \in [Artifacts -> JudgementType \cup {None}]
        /\ feedback' \in [Artifacts -> CorrectionType \cup {None}]
        /\ excused' \subseteq Artifacts
    BY <1>2, FeedbackUpdates
  <2>2. /\ pending' = NoPending /\ pc' = "start"
        /\ UNCHANGED <<telemetry, events, todo, observed, settings, okIn, judgedIn>>
    BY <1>2 DEF ApplyFeedback
  <2> QED
    BY <1>e, <2>1, <2>2 DEF TypeOK
<1>3. CASE FeedbackFails
  BY <1>3, <1>e DEF FeedbackFails, TypeOK
<1>4. CASE StartRun
  <2>1. clock' = clock + 1 /\ runs' = runs \cup {clock + 1} /\ todo' = Order
        /\ pc' = "collect" /\ UNCHANGED <<finished, rows, events, findings, observed,
             settings, pending, history>>
    BY <1>4 DEF StartRun
  <2>2. /\ clock' \in Nat /\ runs' \subseteq 1..clock' /\ finished' \subseteq runs'
        /\ rows' \subseteq (1..clock') \X Artifacts /\ events' \subseteq (0..clock') \X Artifacts
    BY <2>1 DEF TypeOK
  <2> QED
    BY <2>1, <2>2, OrderTyped DEF TypeOK
<1>5. CASE SkipDisabled
  BY <1>5, TodoShrinks DEF SkipDisabled, TypeOK
<1>6. CASE Collect
  <2>1. /\ observed' \subseteq FoundBy(Current) /\ rows' = rows \cup ({run} \X observed')
        /\ pc' = "judge"
        /\ UNCHANGED <<clock, runs, finished, events, findings, todo, settings, pending,
                       okIn, judgedIn, excused>>
    BY <1>6 DEF Collect
  <2>2. run \in 1..clock
    BY <1>6 DEF Collect, RunInv, InRun, TypeOK
  <2>3. observed' \subseteq Artifacts
    BY <2>1 DEF FoundBy
  <2>4. rows' \subseteq (1..clock) \X Artifacts
    BY <2>1, <2>2, <2>3 DEF TypeOK
  <2> QED
    BY <2>1, <2>3, <2>4 DEF TypeOK
<1>7. CASE JudgeSnapshot \/ JudgeStreaming
  <2>1. PICK answered \in SUBSET Artifacts :
          /\ verdicts' \in [Artifacts -> JudgementType \cup {None}]
          /\ judgedIn' \in [Artifacts -> Nat]
          /\ excused' = excused \cup {a \in answered : Corrected(a) /\ feedback[a].applied}
    BY <1>7, JudgingUpdates
  <2>2. excused' \subseteq Artifacts
    BY <2>1 DEF TypeOK
  <2>3. pc' \in Stages /\ UNCHANGED <<telemetry, events, feedback, todo, observed, settings,
                                    pending, okIn>>
    BY <1>7 DEF JudgeSnapshot, JudgeStreaming
  <2> QED
    BY <2>1, <2>2, <2>3 DEF TypeOK
<1>8. CASE TouchJudgments
  <2>1. todo # <<>> /\ run \in Nat
    BY <1>8 DEF TouchJudgments, RunInv, TypeOK, InRun
  <2>2. Current \in Collectors /\ Tail(todo) \in Seq(ToSet(Order))
    BY <2>1, TodoShrinks, OrderTyped
  <2>3. okIn' \in [Collectors -> Nat]
    BY <1>8, <2>1, <2>2 DEF TouchJudgments, TypeOK
  <2>4. verdicts' \in [Artifacts -> JudgementType \cup {None}]
    BY <1>8, TouchUpdates
  <2> QED
    BY <1>8, <2>2, <2>3, <2>4 DEF TouchJudgments, TypeOK
<1>9. CASE CollectorFails
  BY <1>9, TodoShrinks DEF CollectorFails, TypeOK
<1>10. CASE Shutdown
  BY <1>10, <1>e DEF Shutdown, TypeOK
<1>11. CASE EndRun
  <2>1. run \in runs
    BY <1>11 DEF EndRun, RunInv, InRun
  <2> QED
    BY <1>11, <2>1 DEF EndRun, TypeOK
<1>12. CASE PruneToSize /\ UNCHANGED <<findings, history>>
            /\ (UNCHANGED thread \/ (pc' = "idle" /\ Reset))
  <2>1. PICK gone \in SUBSET finished :
             /\ clock' = clock /\ runs' = runs \ gone /\ finished' = finished \ gone
             /\ rows' \subseteq rows /\ events' \subseteq events
    BY <1>12, PruneUpdates
  <2>2. /\ runs' \subseteq 1..clock' /\ finished' \subseteq runs'
        /\ rows' \subseteq (1..clock') \X Artifacts /\ events' \subseteq (0..clock') \X Artifacts
    BY <2>1 DEF TypeOK
  <2>3. /\ pc' \in Stages /\ todo' \in Seq(ToSet(Order)) /\ observed' \subseteq Artifacts
        /\ settings' \in ControlReads /\ pending' \in [Artifacts -> Labels \cup {"none"}]
    BY <1>12, <1>e DEF Reset, TypeOK
  <2> QED
    BY <1>12, <2>1, <2>2, <2>3 DEF TypeOK
<1>13. CASE CycleFails
  BY <1>13, <1>e DEF CycleFails, Reset, TypeOK
<1>14. CASE Rejudge \/ ResetBaseline \/ ClearData
  <2>1. verdicts' \in [Artifacts -> JudgementType \cup {None}]
    BY <1>14 DEF Rejudge, ResetBaseline, ClearData, TypeOK
  <2> QED
    BY <1>14, <2>1 DEF Rejudge, ResetBaseline, ClearData, Maintain, TypeOK
<1>15. ASSUME NEW a \in Artifacts, StreamRow(a)
       PROVE  TypeOK'
  BY <1>15 DEF StreamRow, TypeOK
<1>16. ASSUME NEW a \in Artifacts, NEW l \in Labels, RecordFeedback(a, l)
       PROVE  TypeOK'
  <2>1. feedback' \in [Artifacts -> CorrectionType \cup {None}]
    BY <1>16, Kinds DEF RecordFeedback, TypeOK
  <2> QED
    BY <1>16, <2>1 DEF RecordFeedback, TypeOK
<1>17. CASE UNCHANGED vars
  BY <1>17 DEF vars, TypeOK
<1> QED
  BY <1>1, <1>2, <1>3, <1>4, <1>5, <1>6, <1>7, <1>8, <1>9, <1>10, <1>11, <1>12, <1>13,
     <1>14, <1>15, <1>16, <1>17 DEF Next, Cycle, Prune, Maintain, Rotate

-----------------------------------------------------------------------------
(***************************************************************************)
(* The run in progress and its rows.                                       *)
(***************************************************************************)

\* The steps that finish with the collector at hand, and how they leave the
\* thread.
Onward == SkipDisabled \/ TouchJudgments \/ CollectorFails

\* They take the collector off the list and leave the tables alone.
LEMMA OnwardUpdates ==
    ASSUME TypeOK, RunInv, Onward
    PROVE  /\ InRun /\ pc' = "collect" /\ todo # <<>> /\ todo' = Tail(todo)
           /\ UNCHANGED <<telemetry, events, feedback, run, judgedIn, excused>>
           /\ ToSet(todo') = ToSet(todo) \ {Current} /\ Current \in ToSet(todo)
<1>1. /\ InRun /\ pc' = "collect" /\ todo # <<>> /\ todo' = Tail(todo)
      /\ UNCHANGED <<telemetry, events, feedback, run, judgedIn, excused>>
  BY DEF Onward, SkipDisabled, TouchJudgments, CollectorFails, RunInv, InRun, findings, history
<1> QED
  BY <1>1, TodoShrinks

\* The open run stays the newest until it is closed.
LEMMA RunNext == IInv /\ [Next]_vars => RunInv'
<1> SUFFICES ASSUME IInv, [Next]_vars PROVE RunInv'
  OBVIOUS
<1> USE DEF IInv, telemetry, findings, thread, history
<1>e. DOMAIN << >> = {}
  OBVIOUS
<1>1. CASE BeginCycle \/ ApplyFeedback \/ FeedbackFails
  BY <1>1 DEF BeginCycle, ApplyFeedback, FeedbackFails, RunInv, InRun
<1>2. CASE StartRun
  BY <1>2, OrderTyped DEF StartRun, RunInv
<1>3. CASE Onward
  <2>1. /\ InRun /\ pc' = "collect" /\ todo # <<>> /\ todo' = Tail(todo)
        /\ UNCHANGED <<clock, runs, run>>
    BY <1>3, OnwardUpdates
  <2>2. \A i, j \in DOMAIN todo' : i # j => todo'[i] # todo'[j]
    BY <2>1, TodoShrinks
  <2> QED
    BY <2>1, <2>2 DEF RunInv
<1>4. CASE Collect \/ JudgeSnapshot \/ JudgeStreaming \/ EndRun
  BY <1>4 DEF Collect, JudgeSnapshot, JudgeStreaming, EndRun, RunInv, InRun
<1>5. CASE Shutdown
  BY <1>5, <1>e DEF Shutdown, RunInv, InRun
<1>6. CASE pc' = "idle" /\ Reset
  BY <1>6, <1>e DEF Reset, RunInv, InRun
<1>7. CASE pc = "idle" /\ UNCHANGED thread
  BY <1>7 DEF RunInv, InRun
<1>8. ASSUME NEW a \in Artifacts, StreamRow(a)
      PROVE  RunInv'
  BY <1>8 DEF StreamRow, RunInv, InRun
<1>9. ASSUME NEW a \in Artifacts, NEW l \in Labels, RecordFeedback(a, l)
      PROVE  RunInv'
  BY <1>9 DEF RecordFeedback, RunInv, InRun
<1>10. CASE UNCHANGED vars
  BY <1>10 DEF vars, RunInv, InRun
<1> QED
  BY <1>1, <1>2, <1>3, <1>4, <1>5, <1>6, <1>7, <1>8, <1>9, <1>10
     DEF Next, Cycle, Prune, Rejudge, ResetBaseline, ClearData, Maintain, Rotate, CycleFails, Onward

\* A collector not driven yet has no rows in the open run.
LEMMA RowsNext == IInv /\ [Next]_vars => RowsInv'
<1> SUFFICES ASSUME IInv, [Next]_vars PROVE RowsInv'
  OBVIOUS
<1> USE DEF IInv, telemetry, findings, thread, history
<1>e. ToSet(<< >>) = {}
  BY DEF ToSet
<1>1. CASE ~InRun'
  BY <1>1 DEF RowsInv, InRun
<1>2. CASE StartRun
  <2>1. run' = clock + 1 /\ rows' = rows /\ pc' = "collect"
    BY <1>2 DEF StartRun
  <2>2. \A a \in Artifacts : <<run', a>> \notin rows'
    BY <2>1 DEF TypeOK
  <2> QED
    BY <2>1, <2>2 DEF RowsInv
<1>3. CASE Onward
  <2>1. /\ InRun /\ pc' = "collect" /\ todo # <<>>
        /\ UNCHANGED <<rows, run>> /\ ToSet(todo') = ToSet(todo) \ {Current}
    BY <1>3, OnwardUpdates
  <2>2. ASSUME NEW a \in Artifacts, CollectorOf[a] \in ToSet(todo'), <<run', a>> \in rows'
        PROVE  FALSE
    <3>1. pc \in {"judge", "touch"} /\ a \in observed
      BY <2>1, <2>2 DEF RowsInv
    <3>2. CollectorOf[a] = Current
      BY <3>1 DEF RowsInv, FoundBy
    <3> QED
      BY <2>1, <2>2, <3>2
  <2> QED
    BY <2>1, <2>2 DEF RowsInv
<1>4. CASE Collect
  <2>1. /\ pc = "collect" /\ pc' = "judge" /\ UNCHANGED <<run, todo>>
        /\ observed' \subseteq FoundBy(Current) /\ rows' = rows \cup ({run} \X observed')
    BY <1>4 DEF Collect
  <2>2. Current' = Current
    BY <2>1 DEF Current
  <2>3. observed' \subseteq FoundBy(Current') /\ {run'} \X observed' \subseteq rows'
    BY <2>1, <2>2
  <2>4. ASSUME NEW a \in Artifacts, CollectorOf[a] \in ToSet(todo'), <<run', a>> \in rows'
        PROVE  a \in observed'
    BY <2>1, <2>4 DEF RowsInv, InRun
  <2>5. FoundBy(Current)' = FoundBy(Current')
    BY DEF FoundBy
  <2> QED
    BY <2>1, <2>3, <2>4, <2>5 DEF RowsInv
<1>5. CASE JudgeSnapshot
  BY <1>5 DEF JudgeSnapshot, RowsInv, InRun, Current, FoundBy
<1>6. CASE Shutdown \/ JudgeStreaming
  <2>1. todo' = << >> /\ pc' = "end"
    BY <1>6 DEF Shutdown, JudgeStreaming
  <2> QED
    BY <1>e, <2>1 DEF RowsInv
<1>7. CASE EndRun
  <2>1. pc = "end" /\ pc' = "rotate" /\ UNCHANGED <<run, todo, rows>>
    BY <1>7 DEF EndRun
  <2> QED
    BY <2>1 DEF RowsInv, InRun
<1>8. ASSUME NEW a \in Artifacts, StreamRow(a)
      PROVE  RowsInv'
  BY <1>8 DEF StreamRow, RowsInv, InRun, Current, FoundBy
<1>9. ASSUME NEW a \in Artifacts, NEW l \in Labels, RecordFeedback(a, l)
      PROVE  RowsInv'
  BY <1>9 DEF RecordFeedback, RowsInv, InRun, Current, FoundBy
<1>10. CASE UNCHANGED vars
  BY <1>10 DEF vars, RowsInv, InRun, Current, FoundBy
<1>11. CASE BeginCycle \/ ApplyFeedback \/ FeedbackFails \/ Rotate \/ CycleFails
  BY <1>1, <1>11 DEF BeginCycle, ApplyFeedback, FeedbackFails, Rotate, CycleFails, InRun
<1>12. CASE Prune \/ Rejudge \/ ResetBaseline \/ ClearData
  BY <1>1, <1>12 DEF Prune, Rejudge, ResetBaseline, ClearData, Maintain, InRun
<1> QED
  BY <1>2, <1>3, <1>4, <1>5, <1>6, <1>7, <1>8, <1>9, <1>10, <1>11, <1>12 DEF Next, Cycle, Onward

-----------------------------------------------------------------------------
(***************************************************************************)
(* Findings: what they were last seen in.                                  *)
(***************************************************************************)

\* The three ways a verdict comes out of a step.
LEMMA VerdictSteps ==
    ASSUME IInv, [Next]_vars, NEW a \in Artifacts, Judged(a)'
    PROVE  \/ /\ ~Judged(a) /\ verdicts'[a].seen = 0 /\ judgedIn'[a] = clock
              /\ \/ JudgeSnapshot /\ a \in observed
                 \/ JudgeStreaming /\ CollectorOf[a] \in Streams
           \/ /\ Judged(a) /\ judgedIn'[a] = judgedIn[a]
              /\ verdicts'[a].seen = verdicts[a].seen
              /\ ~(TouchJudgments /\ a \in observed)
           \/ /\ Judged(a) /\ judgedIn'[a] = judgedIn[a]
              /\ verdicts'[a].seen = run
              /\ TouchJudgments /\ a \in observed
<1> USE DEF IInv, telemetry, findings, thread, history
<1>1. CASE JudgeSnapshot \/ JudgeStreaming
  <2>1. PICK answered \in SUBSET Artifacts :
          /\ \A b \in answered : ~Judged(b)
          /\ \A b \in answered : IF JudgeSnapshot THEN b \in observed ELSE CollectorOf[b] \in Streams
          /\ \A b \in answered : verdicts'[b] # None /\ verdicts'[b].seen = 0 /\ judgedIn'[b] = clock
          /\ \A b \in Artifacts \ answered : verdicts'[b] = verdicts[b] /\ judgedIn'[b] = judgedIn[b]
    BY <1>1, JudgingUpdates
  <2>2. ~TouchJudgments
    BY <1>1 DEF JudgeSnapshot, JudgeStreaming, TouchJudgments
  <2>3. CASE a \in answered
    BY <1>1, <2>1, <2>3
  <2>4. CASE a \notin answered
    <3>1. Judged(a) /\ judgedIn'[a] = judgedIn[a] /\ verdicts'[a].seen = verdicts[a].seen
      BY <2>1, <2>4 DEF Judged
    <3> QED
      BY <2>2, <3>1
  <2> QED
    BY <2>3, <2>4
<1>2. CASE TouchJudgments
  <2>1. Judged(a) /\ verdicts'[a].seen = IF a \in observed THEN run ELSE verdicts[a].seen
    BY <1>2, TouchUpdates DEF Judged
  <2>2. judgedIn'[a] = judgedIn[a]
    BY <1>2 DEF TouchJudgments
  <2> QED
    BY <1>2, <2>1, <2>2
<1>3. CASE ApplyFeedback
  <2>1. Judged(a) /\ verdicts'[a].seen = verdicts[a].seen
    BY <1>3, FeedbackUpdates DEF Judged
  <2>2. judgedIn'[a] = judgedIn[a] /\ ~TouchJudgments
    BY <1>3 DEF ApplyFeedback, TouchJudgments
  <2> QED
    BY <2>1, <2>2
<1>4. CASE verdicts' = [b \in Artifacts |-> None]
  BY <1>4 DEF Judged
<1>5. CASE UNCHANGED <<verdicts, judgedIn>> /\ ~TouchJudgments
  BY <1>5 DEF Judged
<1>6. CASE ~TouchJudgments /\ ~JudgeSnapshot /\ ~JudgeStreaming /\ ~ApplyFeedback
  <2>1. CASE Cycle
    BY <1>5, <1>6, <2>1 DEF Cycle, BeginCycle, FeedbackFails, StartRun, SkipDisabled, Collect,
         CollectorFails, Shutdown, EndRun, Rotate, CycleFails
  <2>2. CASE Prune \/ Rejudge \/ ResetBaseline \/ ClearData
    BY <1>4, <1>5, <1>6, <2>2 DEF Prune, Rejudge, ResetBaseline, ClearData
  <2>3. ASSUME NEW b \in Artifacts, StreamRow(b)
        PROVE  UNCHANGED <<verdicts, judgedIn>>
    BY <2>3 DEF StreamRow
  <2>4. ASSUME NEW b \in Artifacts, NEW l \in Labels, RecordFeedback(b, l)
        PROVE  UNCHANGED <<verdicts, judgedIn>>
    BY <2>4 DEF RecordFeedback
  <2>5. CASE UNCHANGED vars
    BY <1>5, <1>6, <2>5 DEF vars
  <2> QED
    BY <1>5, <1>6, <2>1, <2>2, <2>3, <2>4, <2>5 DEF Next
<1> QED
  BY <1>1, <1>2, <1>3, <1>6

\* Snapshot rows are added by Collect alone.
LEMMA RowSteps ==
    ASSUME IInv, [Next]_vars
    PROVE  \/ /\ Collect /\ InRun /\ todo # <<>> /\ observed' \subseteq FoundBy(Current)
              /\ rows' = rows \cup ({run} \X observed') /\ UNCHANGED <<runs, finished>>
           \/ PruneToSize
           \/ runs' = {} /\ finished' = {} /\ rows' \subseteq rows
           \/ rows' = rows /\ runs' = runs \cup {clock + 1} /\ finished' = finished
           \/ rows' = rows /\ run = clock /\ run \in runs /\ runs' = runs
                /\ finished' = finished \cup {run}
           \/ UNCHANGED telemetry
<1> USE DEF IInv, telemetry, findings, thread, history
<1>1. CASE Collect
  BY <1>1 DEF Collect, InRun
<1>2. CASE StartRun
  BY <1>2 DEF StartRun
<1>3. CASE EndRun
  BY <1>3 DEF EndRun, RunInv, InRun
<1>4. CASE Rotate \/ Prune
  BY <1>4 DEF Rotate, Prune
<1>5. CASE ResetBaseline \/ ClearData
  BY <1>5 DEF ResetBaseline, ClearData
<1>6. CASE \/ BeginCycle \/ ApplyFeedback \/ FeedbackFails \/ SkipDisabled
           \/ JudgeSnapshot \/ TouchJudgments \/ CollectorFails \/ Shutdown
           \/ JudgeStreaming \/ CycleFails \/ Rejudge
  BY <1>6 DEF BeginCycle, ApplyFeedback, FeedbackFails, SkipDisabled, JudgeSnapshot,
       TouchJudgments, CollectorFails, Shutdown, JudgeStreaming, CycleFails, Rejudge
<1>7. ASSUME NEW b \in Artifacts, StreamRow(b)
      PROVE  UNCHANGED telemetry
  BY <1>7 DEF StreamRow
<1>8. ASSUME NEW b \in Artifacts, NEW l \in Labels, RecordFeedback(b, l)
      PROVE  UNCHANGED telemetry
  BY <1>8 DEF RecordFeedback
<1>9. CASE UNCHANGED vars
  BY <1>9 DEF vars
<1> QED
  BY <1>1, <1>2, <1>3, <1>4, <1>5, <1>6, <1>7, <1>8, <1>9 DEF Next, Cycle

\* A run once overtaken on display stays so: retention deletes the oldest,
\* never the newest.
LEMMA SupersededKept ==
    ASSUME IInv, [Next]_vars, NEW s \in 0..clock, Superseded(s)
    PROVE  Superseded(s)'
<1> USE DEF IInv
<1>t. clock \in Nat /\ runs \subseteq 1..clock /\ finished \subseteq runs /\ s \in Nat
  BY DEF TypeOK
<1>1. CASE PruneToSize
  <2>1. PICK gone \in SUBSET finished :
             /\ runs' = runs \ gone /\ finished' = finished \ gone
             /\ \A r \in gone : \E k \in finished \ gone : r < k
    BY <1>1, PruneUpdates
  <2>2. CASE Candidates = {}
    BY <2>1, <2>2, <1>t DEF Superseded, Candidates
  <2>3. ASSUME NEW r \in Candidates, s < r
        PROVE  Superseded(s)'
    <3>1. CASE r \in gone
      <4>1. PICK k \in finished \ gone : r < k
        BY <2>1, <3>1
      <4>2. s < k
        BY <1>t, <2>3, <3>1, <4>1
      <4> QED
        BY <2>1, <4>1, <4>2 DEF Superseded, Candidates
    <3>2. CASE r \in finished /\ r \notin gone
      BY <2>1, <2>3, <3>2 DEF Superseded, Candidates
    <3>3. CASE r \notin finished
      BY <2>1, <2>3, <3>3 DEF Superseded, Candidates
    <3> QED
      BY <3>1, <3>2, <3>3
  <2> QED
    BY <2>2, <2>3 DEF Superseded
<1>2. CASE runs' = {} /\ finished' = {}
  BY <1>2 DEF Superseded, Candidates
<1>3. CASE runs' = runs \cup {clock + 1} /\ finished' = finished
  BY <1>t, <1>3 DEF Superseded, Candidates
<1>4. CASE run = clock /\ run \in runs /\ runs' = runs /\ finished' = finished \cup {run}
  <2>1. run \in Candidates'
    BY <1>4 DEF Candidates
  <2>2. Candidates # {} /\ \A r \in Candidates : r \in Nat /\ r <= clock
    BY <1>t, <1>4 DEF Candidates
  <2>3. s < run
    BY <1>t, <1>4, <2>2 DEF Superseded
  <2> QED
    BY <2>1, <2>3 DEF Superseded
<1>5. CASE UNCHANGED <<runs, finished>>
  BY <1>5 DEF Superseded, Candidates
<1> QED
  BY <1>1, <1>2, <1>3, <1>4, <1>5, RowSteps DEF telemetry

\* A row goes only when its run is overtaken.
LEMMA SightingKept ==
    ASSUME IInv, [Next]_vars, NEW a \in Artifacts, NEW s \in 0..clock, <<s, a>> \in rows
    PROVE  <<s, a>> \in rows' \/ Superseded(s)'
<1> USE DEF IInv
<1>1. CASE PruneToSize
  <2>1. PICK gone \in SUBSET finished :
             /\ finished' = finished \ gone
             /\ \A w \in rows : w[1] \notin gone => w \in rows'
             /\ \A r \in gone : \E k \in finished \ gone : r < k
    BY <1>1, PruneUpdates
  <2>2. ASSUME s \in gone
        PROVE  Superseded(s)'
    BY <2>1, <2>2 DEF Superseded, Candidates
  <2>3. <<s, a>>[1] = s
    OBVIOUS
  <2> QED
    BY <2>1, <2>2, <2>3
<1>2. CASE runs' = {} /\ finished' = {}
  BY <1>2 DEF Superseded, Candidates
<1>3. CASE rows \subseteq rows'
  BY <1>3
<1> QED
  BY <1>1, <1>2, <1>3, RowSteps DEF telemetry

\* Only the start of a run moves the clock.
LEMMA ClockSteps ==
    ASSUME [Next]_vars
    PROVE  clock' = clock \/ clock' = clock + 1
<1>1. CASE Cycle
  BY <1>1 DEF Cycle, BeginCycle, ApplyFeedback, FeedbackFails, StartRun, SkipDisabled, Collect,
       JudgeSnapshot, TouchJudgments, CollectorFails, Shutdown, JudgeStreaming, EndRun, Rotate,
       PruneToSize, CycleFails, telemetry
<1>2. CASE Prune \/ Rejudge \/ ResetBaseline \/ ClearData
  BY <1>2 DEF Prune, PruneToSize, Rejudge, ResetBaseline, ClearData, telemetry
<1>3. ASSUME NEW b \in Artifacts, StreamRow(b)
      PROVE  clock' = clock
  BY <1>3 DEF StreamRow, telemetry
<1>4. ASSUME NEW b \in Artifacts, NEW l \in Labels, RecordFeedback(b, l)
      PROVE  clock' = clock
  BY <1>4 DEF RecordFeedback, telemetry
<1>5. CASE UNCHANGED vars
  BY <1>5 DEF vars
<1> QED
  BY <1>1, <1>2, <1>3, <1>4, <1>5 DEF Next

\* What a finding was last seen in stays accounted for.
LEMMA SeenNext == IInv /\ [Next]_vars => SeenInv'
<1> SUFFICES ASSUME IInv, [Next]_vars, NEW a \in Artifacts, Judged(a)'
             PROVE  /\ verdicts'[a].seen <= clock'
                    /\ \/ verdicts'[a].seen = 0
                       \/ <<verdicts'[a].seen, a>> \in rows'
                       \/ Superseded(verdicts[a].seen)'
  BY DEF SeenInv
<1> USE DEF IInv
<1>t. clock \in Nat /\ clock' \in Nat /\ clock <= clock' /\ verdicts'[a].seen \in Nat
  <2>1. TypeOK'
    BY TypeNext
  <2>2. clock' \in Nat /\ verdicts'[a].seen \in Nat
    BY <2>1, Kinds DEF TypeOK, Judged
  <2>3. clock' = clock \/ clock' = clock + 1
    BY ClockSteps
  <2> QED
    BY <2>2, <2>3 DEF TypeOK
<1>1. CASE verdicts'[a].seen = 0
  BY <1>t, <1>1
<1>2. CASE Judged(a) /\ verdicts'[a].seen = verdicts[a].seen /\ verdicts[a].seen # 0
  <2>1. PICK s \in 0..clock : s = verdicts[a].seen /\ (<<s, a>> \in rows \/ Superseded(s))
    BY <1>t, <1>2 DEF SeenInv
  <2>2. <<s, a>> \in rows' \/ Superseded(s)'
    BY <2>1, SightingKept, SupersededKept
  <2>3. Superseded(s)' => Superseded(verdicts[a].seen)'
    BY <1>2, <2>1 DEF Superseded, Candidates
  <2> QED
    BY <1>t, <1>2, <2>1, <2>2, <2>3
<1>3. CASE TouchJudgments /\ a \in observed /\ verdicts'[a].seen = run
  <2>1. run = clock /\ <<run, a>> \in rows
    BY <1>3 DEF TouchJudgments, RunInv, RowsInv, InRun
  <2>2. rows' = rows
    BY <1>3 DEF TouchJudgments, telemetry
  <2> QED
    BY <1>t, <1>3, <2>1, <2>2
<1> QED
  BY <1>1, <1>2, <1>3, VerdictSteps

\* A collector's last success comes from TouchJudgments alone.
LEMMA SuccessSteps ==
    ASSUME IInv, [Next]_vars
    PROVE  \/ okIn' = okIn /\ ~TouchJudgments
           \/ /\ TouchJudgments /\ InRun /\ Current \in Collectors
              /\ okIn' = [okIn EXCEPT ![Current] = run] /\ rows' = rows
<1> USE DEF IInv, history
<1>1. CASE TouchJudgments
  <2>1. InRun /\ todo # <<>> /\ okIn' = [okIn EXCEPT ![Current] = run] /\ rows' = rows
    BY <1>1 DEF TouchJudgments, RunInv, InRun, telemetry
  <2> QED
    BY <1>1, <2>1, TodoShrinks, OrderTyped
<1>2. CASE ~TouchJudgments /\ Cycle
  BY <1>2 DEF Cycle, BeginCycle, ApplyFeedback, FeedbackFails, StartRun, SkipDisabled, Collect,
       JudgeSnapshot, CollectorFails, Shutdown, JudgeStreaming, EndRun, Rotate, CycleFails
<1>3. CASE ~TouchJudgments /\ (Prune \/ Rejudge \/ ResetBaseline \/ ClearData)
  BY <1>3 DEF Prune, Rejudge, ResetBaseline, ClearData
<1>4. ASSUME NEW b \in Artifacts, StreamRow(b)
      PROVE  okIn' = okIn
  BY <1>4 DEF StreamRow
<1>5. ASSUME NEW b \in Artifacts, NEW l \in Labels, RecordFeedback(b, l)
      PROVE  okIn' = okIn
  BY <1>5 DEF RecordFeedback
<1>6. CASE ~TouchJudgments /\ UNCHANGED vars
  BY <1>6 DEF vars
<1> QED
  BY <1>1, <1>2, <1>3, <1>4, <1>5, <1>6 DEF Next

\* What is left to drive in the open run was left before, or the run is new.
LEMMA TodoSteps ==
    ASSUME IInv, [Next]_vars, InRun'
    PROVE  \/ InRun /\ run' = run /\ ToSet(todo') \subseteq ToSet(todo)
                /\ (TouchJudgments => Current \notin ToSet(todo'))
           \/ run' = clock + 1 /\ ~TouchJudgments
<1> USE DEF IInv, telemetry, findings, thread, history
<1>1. CASE Onward
  BY <1>1, OnwardUpdates
<1>2. CASE StartRun
  BY <1>2 DEF StartRun, TouchJudgments
<1>3. CASE Collect \/ JudgeSnapshot \/ JudgeStreaming \/ EndRun
  BY <1>3 DEF Collect, JudgeSnapshot, JudgeStreaming, EndRun, InRun, TouchJudgments
<1>4. CASE Shutdown
  <2>1. ToSet(todo') = {}
    BY <1>4 DEF Shutdown, ToSet
  <2> QED
    BY <1>4, <2>1 DEF Shutdown, InRun
<1>5. CASE BeginCycle \/ ApplyFeedback \/ FeedbackFails \/ Rotate \/ CycleFails
  BY <1>5 DEF BeginCycle, ApplyFeedback, FeedbackFails, Rotate, CycleFails, InRun
<1>6. CASE Prune \/ Rejudge \/ ResetBaseline \/ ClearData
  BY <1>6 DEF Prune, Rejudge, ResetBaseline, ClearData, Maintain, InRun
<1>7. ASSUME NEW b \in Artifacts, StreamRow(b)
      PROVE  InRun /\ UNCHANGED <<run, todo>> /\ ~TouchJudgments
  BY <1>7 DEF StreamRow, InRun, TouchJudgments
<1>8. ASSUME NEW b \in Artifacts, NEW l \in Labels, RecordFeedback(b, l)
      PROVE  InRun /\ UNCHANGED <<run, todo>> /\ ~TouchJudgments
  BY <1>8 DEF RecordFeedback, InRun, TouchJudgments
<1>9. CASE UNCHANGED vars
  BY <1>9 DEF vars, InRun, TouchJudgments
<1> QED
  BY <1>1, <1>2, <1>3, <1>4, <1>5, <1>6, <1>7, <1>8, <1>9 DEF Next, Cycle, Onward

\* A collector that succeeded has marked what it found and what was judged.
LEMMA MarkedNext == IInv /\ [Next]_vars => MarkedInv'
<1> SUFFICES ASSUME IInv, [Next]_vars PROVE MarkedInv'
  OBVIOUS
<1> USE DEF IInv
<1>t. /\ TypeOK' /\ SeenInv' /\ clock \in Nat /\ clock' \in Nat /\ clock <= clock'
      /\ okIn \in [Collectors -> Nat] /\ okIn' \in [Collectors -> Nat]
      /\ InRun => run = clock
  <2>1. TypeOK' /\ SeenInv'
    BY TypeNext, SeenNext
  <2> QED
    BY <2>1, ClockSteps DEF TypeOK, RunInv
<1>1. ASSUME NEW c \in Collectors
      PROVE  /\ okIn'[c] <= clock'
             /\ okIn'[c] # 0 => c \in ToSet(Order)
             /\ InRun' /\ c \in ToSet(todo') => okIn'[c] < run'
  <2>0. /\ okIn[c] \in Nat /\ okIn[c] <= clock /\ (okIn[c] # 0 => c \in ToSet(Order))
        /\ InRun /\ c \in ToSet(todo) => okIn[c] < run
    BY <1>t DEF MarkedInv
  <2>1. CASE okIn'[c] = okIn[c] /\ ~TouchJudgments
    BY <1>t, <2>0, <2>1, TodoSteps
  <2>2. CASE TouchJudgments /\ okIn' = [okIn EXCEPT ![Current] = run]
    <3>1. InRun /\ run = clock /\ todo # <<>>
      BY <1>t, <2>2 DEF TouchJudgments, InRun, RunInv
    <3>2. Current \in ToSet(Order)
      BY <3>1, TodoShrinks
    <3>3. okIn'[c] = IF c = Current THEN run ELSE okIn[c]
      BY <1>t, <2>2
    <3>4. InRun' => run' = run /\ ToSet(todo') \subseteq ToSet(todo) /\ Current \notin ToSet(todo')
      BY <2>2, TodoSteps
    <3> QED
      BY <1>t, <2>0, <3>1, <3>2, <3>3, <3>4
  <2> QED
    BY <2>1, <2>2, SuccessSteps
<1>2. ASSUME NEW a \in Artifacts,
             okIn'[CollectorOf[a]] # 0, <<okIn'[CollectorOf[a]], a>> \in rows',
             Judged(a)', judgedIn'[a] <= okIn'[CollectorOf[a]]
      PROVE  verdicts'[a].seen >= okIn'[CollectorOf[a]]
  <2> DEFINE c == CollectorOf[a]
  <2>c. c \in Collectors
    BY OrderTyped
  <2>0. /\ okIn[c] \in Nat /\ okIn[c] <= clock /\ (okIn[c] # 0 => c \in ToSet(Order))
        /\ InRun /\ c \in ToSet(todo) => okIn[c] < run
        /\ okIn[c] # 0 /\ <<okIn[c], a>> \in rows /\ Judged(a) /\ judgedIn[a] <= okIn[c]
             => verdicts[a].seen >= okIn[c]
    BY <1>t, <2>c DEF MarkedInv
  <2> HIDE DEF c
  <2>1. CASE ~TouchJudgments /\ okIn' = okIn
    <3>1. <<okIn[c], a>> \in rows
      <4>1. CASE Collect /\ InRun /\ todo # <<>> /\ observed' \subseteq FoundBy(Current)
                   /\ rows' = rows \cup ({run} \X observed')
        <5>1. CASE a \in observed'
          <6>1. c \in ToSet(todo)
            BY <4>1, <5>1, TodoShrinks DEF c, FoundBy
          <6>2. okIn[c] # run
            BY <1>t, <2>0, <4>1, <6>1
          <6> QED
            BY <1>2, <2>1, <4>1, <6>2 DEF c
        <5> QED
          BY <1>2, <2>1, <4>1, <5>1 DEF c
      <4>2. CASE rows' \subseteq rows
        BY <1>2, <2>1, <4>2 DEF c
      <4>3. CASE PruneToSize
        BY <4>2, <4>3, PruneUpdates
      <4> QED
        BY <4>1, <4>2, <4>3, RowSteps DEF telemetry
    <3>2. CASE Judged(a) /\ judgedIn'[a] = judgedIn[a] /\ verdicts'[a].seen = verdicts[a].seen
      BY <1>2, <2>0, <2>1, <3>1, <3>2 DEF c
    <3>3. CASE judgedIn'[a] = clock /\ JudgeSnapshot /\ a \in observed
      <4>1. InRun /\ run = clock /\ c \in ToSet(todo)
        BY <1>t, <3>3, TodoShrinks DEF JudgeSnapshot, InRun, RunInv, RowsInv, FoundBy, c
      <4> QED
        BY <1>t, <1>2, <2>0, <2>1, <3>3, <4>1 DEF c
    <3>4. CASE c \in Streams
      BY <1>2, <2>0, <2>1, <3>4, OrderTyped DEF c
    <3> QED
      BY <2>1, <3>2, <3>3, <3>4, VerdictSteps, <1>2 DEF c
  <2>2. CASE /\ TouchJudgments /\ InRun /\ rows' = rows
             /\ okIn' = [okIn EXCEPT ![Current] = run] /\ Current \in Collectors
    <3>0. Judged(a) /\ judgedIn'[a] = judgedIn[a]
      <4>1. ~JudgeSnapshot /\ ~JudgeStreaming
        BY <2>2 DEF TouchJudgments, JudgeSnapshot, JudgeStreaming
      <4> QED
        BY <1>2, <4>1, VerdictSteps
    <3>1. verdicts'[a].seen = IF a \in observed THEN run ELSE verdicts[a].seen
      BY <2>2, <3>0, TouchUpdates
    <3>2. okIn'[c] = IF c = Current THEN run ELSE okIn[c]
      BY <1>t, <2>2, <2>c
    <3>3. run = clock /\ run \in Nat
      BY <1>t, <2>2
    <3>4. CASE c = Current
      <4>1. c \in ToSet(todo)
        BY <2>2, <3>4, TodoShrinks DEF TouchJudgments, RunInv
      <4>2. a \in observed
        BY <1>2, <2>2, <3>2, <3>4, <4>1 DEF RowsInv, c
      <4> QED
        BY <1>t, <3>1, <3>2, <3>3, <3>4, <4>2 DEF c
    <3>5. CASE c # Current
      <4>1. verdicts[a].seen >= okIn[c]
        BY <1>2, <2>0, <2>2, <3>0, <3>2, <3>5 DEF c
      <4> QED
        BY <1>t, <2>0, <3>1, <3>2, <3>3, <3>5, <4>1 DEF c
    <3> QED
      BY <3>4, <3>5
  <2> QED
    BY <2>1, <2>2, SuccessSteps
<1> QED
  BY <1>1, <1>2 DEF MarkedInv

-----------------------------------------------------------------------------
(***************************************************************************)
(* Corrections.                                                            *)
(***************************************************************************)

\* A step that changes a verdict's label is a judging, a correction applied
\* or a clearing; each keeps the corrections applied so far, or excuses them.
LEMMA CorrectionNext == IInv /\ [Next]_vars => CorrectionInv'
<1> SUFFICES ASSUME IInv, [Next]_vars PROVE CorrectionInv'
  OBVIOUS
<1> USE DEF IInv, telemetry, findings, thread, history
<1>n. \A a \in Artifacts : NoPending[a] = "none"
  BY DEF NoPending
<1>1. CASE BeginCycle
  <2>1. \A a \in Artifacts : pending'[a] # "none" => Corrected(a)
    BY <1>1 DEF BeginCycle
  <2> QED
    BY <1>1, <2>1 DEF BeginCycle, CorrectionInv, CorrectionHolds, Corrected, Judged
<1>2. CASE ApplyFeedback
  <2>1. \A a \in Artifacts : pending'[a] = "none"
    BY <1>n, <1>2 DEF ApplyFeedback
  <2>2. ASSUME NEW a \in Artifacts \ excused', Corrected(a)', feedback'[a].applied, Judged(a)'
        PROVE  verdicts'[a].verdict = Pinned(feedback'[a].label)
    <3>1. Judged(a)
      BY <1>2, <2>2, FeedbackUpdates DEF Judged
    <3>2. CASE pending[a] = "none"
      <4>1. verdicts'[a] = verdicts[a] /\ feedback'[a] = feedback[a] /\ a \notin excused
        BY <1>2, <2>2, <3>2, FeedbackUpdates
      <4> QED
        BY <2>2, <3>1, <4>1 DEF CorrectionInv, CorrectionHolds, Corrected
    <3>3. CASE pending[a] # "none"
      BY <1>2, <2>2, <3>1, <3>3, FeedbackUpdates
    <3> QED
      BY <3>2, <3>3
  <2> QED
    BY <2>1, <2>2 DEF CorrectionInv, CorrectionHolds
<1>3. CASE FeedbackFails
  BY <1>n, <1>3 DEF FeedbackFails, CorrectionInv, CorrectionHolds, Corrected, Judged
<1>4. CASE JudgeSnapshot \/ JudgeStreaming
  <2>1. PICK answered \in SUBSET Artifacts :
          /\ \A a \in Artifacts \ answered : verdicts'[a] = verdicts[a]
          /\ excused' = excused \cup {a \in answered : Corrected(a) /\ feedback[a].applied}
    BY <1>4, JudgingUpdates
  <2>2. UNCHANGED <<feedback, pending>>
    BY <1>4 DEF JudgeSnapshot, JudgeStreaming
  <2>3. ASSUME NEW a \in Artifacts \ excused', Corrected(a)', feedback'[a].applied, Judged(a)'
        PROVE  verdicts'[a].verdict = Pinned(feedback'[a].label)
    <3>1. Corrected(a) /\ feedback[a].applied /\ a \notin answered /\ a \notin excused
      BY <2>1, <2>2, <2>3 DEF Corrected
    <3> QED
      BY <2>1, <2>2, <2>3, <3>1 DEF CorrectionInv, CorrectionHolds, Judged
  <2>4. \A a \in Artifacts : pending'[a] # "none" => Corrected(a)'
    BY <2>2 DEF CorrectionInv, Corrected
  <2> QED
    BY <2>3, <2>4 DEF CorrectionInv, CorrectionHolds
<1>5. CASE TouchJudgments
  <2>1. /\ \A a \in Artifacts : Judged(a)' => Judged(a) /\ verdicts'[a].verdict = verdicts[a].verdict
        /\ UNCHANGED <<feedback, pending, excused>>
    BY <1>5, TouchUpdates DEF TouchJudgments, Judged
  <2> QED
    BY <2>1 DEF CorrectionInv, CorrectionHolds, Corrected
<1>6. CASE UNCHANGED <<feedback, verdicts, excused>> /\ (UNCHANGED pending \/ pending' = NoPending)
  BY <1>n, <1>6 DEF CorrectionInv, CorrectionHolds, Corrected, Judged
<1>7. CASE Rejudge \/ ClearData
  <2>1. \A a \in Artifacts : ~Judged(a)'
    BY <1>7 DEF Rejudge, ClearData, Judged
  <2>2. UNCHANGED <<feedback, pending>>
    BY <1>7 DEF Rejudge, ClearData, Maintain
  <2> QED
    BY <2>1, <2>2 DEF CorrectionInv, CorrectionHolds, Corrected
<1>8. ASSUME NEW b \in Artifacts, StreamRow(b)
      PROVE  CorrectionInv'
  BY <1>6, <1>8 DEF StreamRow
<1>9. ASSUME NEW b \in Artifacts, NEW l \in Labels, RecordFeedback(b, l)
      PROVE  CorrectionInv'
  <2>1. /\ feedback'[b] # None /\ feedback'[b].applied = FALSE
        /\ \A a \in Artifacts \ {b} : feedback'[a] = feedback[a]
        /\ UNCHANGED <<verdicts, pending, excused>>
    BY <1>9, Kinds DEF RecordFeedback, TypeOK
  <2>2. ASSUME NEW a \in Artifacts \ excused', Corrected(a)', feedback'[a].applied, Judged(a)'
        PROVE  verdicts'[a].verdict = Pinned(feedback'[a].label)
    BY <2>1, <2>2 DEF CorrectionInv, CorrectionHolds, Corrected, Judged
  <2>3. \A a \in Artifacts : pending'[a] # "none" => Corrected(a)'
    BY <2>1 DEF CorrectionInv, Corrected
  <2> QED
    BY <2>2, <2>3 DEF CorrectionInv, CorrectionHolds
<1>10. CASE \/ StartRun \/ SkipDisabled \/ Collect \/ CollectorFails \/ Shutdown
            \/ EndRun \/ Rotate \/ CycleFails
  BY <1>6, <1>10 DEF StartRun, SkipDisabled, Collect, CollectorFails, Shutdown, EndRun,
       Rotate, CycleFails, Reset
<1>11. CASE Prune \/ ResetBaseline
  BY <1>6, <1>11 DEF Prune, ResetBaseline, Maintain
<1>12. CASE UNCHANGED vars
  BY <1>6, <1>12 DEF vars
<1> QED
  BY <1>1, <1>2, <1>3, <1>4, <1>5, <1>7, <1>8, <1>9, <1>10, <1>11, <1>12 DEF Next, Cycle

-----------------------------------------------------------------------------
(***************************************************************************)
(* The invariant holds, and what follows from it.                          *)
(***************************************************************************)

\* The empty database and the idle thread satisfy the invariant.
LEMMA InitIInv == Init => IInv
<1> SUFFICES ASSUME Init PROVE IInv
  OBVIOUS
<1>1. TypeOK
  BY TypeInit
<1>2. RunInv /\ RowsInv
  BY DEF Init, RunInv, RowsInv, InRun
<1>3. SeenInv /\ CorrectionInv
  BY DEF Init, SeenInv, CorrectionInv, CorrectionHolds, NoPending, Judged, Corrected
<1>4. MarkedInv
  BY OrderTyped DEF Init, MarkedInv, InRun
<1> QED
  BY <1>1, <1>2, <1>3, <1>4 DEF IInv

\* The invariant is preserved by every step of the cycle, of the maintenance
\* commands, of the streaming workers and of the operator.
THEOREM Invariance == Spec => []IInv
<1>1. IInv /\ [Next]_vars => IInv'
  BY TypeNext, RunNext, RowsNext, SeenNext, MarkedNext, CorrectionNext DEF IInv
<1> QED
  BY InitIInv, <1>1, PTL DEF Spec

\* A set of numbers with any in it has a least one.
LEMMA MinExists ==
    ASSUME NEW S \in SUBSET Nat, S # {}
    PROVE  \E m \in S : \A x \in S : m <= x
<1>1. PICK m \in S : \A x \in S : ~(<<x, m>> \in OpToRel(<, Nat))
  BY NatLessThanWellFounded, WFMin
<1>2. \A x \in S : ~(x < m)
  BY <1>1 DEF OpToRel
<1> QED
  BY <1>2

\* Newest picks the latest of a set of runs, 0 for none.
LEMMA NewestIsLatest ==
    ASSUME NEW n \in Nat, NEW S \in SUBSET (1..n)
    PROVE  /\ Newest(S) \in 0..n
           /\ IF S = {} THEN Newest(S) = 0
              ELSE Newest(S) \in S /\ Newest(S) # 0 /\ \A q \in S : q <= Newest(S)
<1>1. CASE S = {}
  BY <1>1 DEF Newest
<1>2. CASE S # {}
  <2> DEFINE Bounds == {b \in Nat : \A q \in S : q <= b}
  <2>1. n \in Bounds
    OBVIOUS
  <2>2. PICK b \in Bounds : \A x \in Bounds : b <= x
    <3> HIDE DEF Bounds
    <3>1. Bounds \in SUBSET Nat
      BY DEF Bounds
    <3> QED
      BY <2>1, <3>1, MinExists
  <2>3. b \in Nat /\ \A q \in S : q \in Nat /\ 1 <= q /\ q <= b
    OBVIOUS
  <2>4. b \in S
    <3>1. SUFFICES ASSUME b \notin S PROVE FALSE
      OBVIOUS
    <3>2. PICK q \in S : TRUE
      BY <1>2
    <3>3. b - 1 \in Nat
      BY <2>3, <3>2
    <3>4. \A x \in S : x <= b - 1
      <4> TAKE x \in S
      <4>1. x # b /\ x \in Nat /\ x <= b
        BY <2>3, <3>1
      <4> QED
        BY <2>3, <4>1
    <3>5. b - 1 \in Bounds
      BY <3>3, <3>4
    <3> QED
      BY <2>2, <2>3, <3>5
  <2>5. \E r \in S : \A q \in S : q <= r
    BY <2>3, <2>4
  <2>6. Newest(S) \in S /\ \A q \in S : q <= Newest(S)
    BY <1>2, <2>5 DEF Newest
  <2>7. \A r \in S : r \in 0..n /\ r # 0
    OBVIOUS
  <2> HIDE DEF Bounds
  <2> QED
    BY <1>2, <2>6, <2>7
<1> QED
  BY <1>1, <1>2

\* The run on display is the latest of those it is chosen from.
LEMMA LatestIsLatest ==
    ASSUME TypeOK
    PROVE  /\ Latest \in 0..clock /\ Candidates \in SUBSET (1..clock)
           /\ IF Candidates = {} THEN Latest = 0
              ELSE Latest \in Candidates /\ Latest # 0 /\ \A q \in Candidates : q <= Latest
<1>1. clock \in Nat /\ Candidates \in SUBSET (1..clock)
  BY DEF TypeOK, Candidates
<1> QED
  BY <1>1, NewestIsLatest DEF Latest

\* The same of the next state.
LEMMA LatestIsLatestNext ==
    ASSUME TypeOK'
    PROVE  /\ Latest' \in 0..clock' /\ Candidates' \in SUBSET (1..clock')
           /\ IF Candidates' = {} THEN Latest' = 0
              ELSE Latest' \in Candidates' /\ Latest' # 0 /\ \A q \in Candidates' : q <= Latest'
<1>1. clock' \in Nat /\ Candidates' \in SUBSET (1..clock')
  BY DEF TypeOK, Candidates
<1>2. Latest' = Newest(Candidates')
  BY DEF Latest, Newest
<1> QED
  BY <1>1, <1>2, NewestIsLatest

\* Every finding the dashboard shows as active has a row in the run it was
\* last seen in.
THEOREM ActiveCorrect == Spec => []ActiveWasObserved
<1>1. IInv => ActiveWasObserved
  <2> SUFFICES ASSUME IInv, NEW a \in Artifacts, Active(a), Latest # 0
               PROVE  <<verdicts[a].seen, a>> \in rows
    BY DEF ActiveWasObserved
  <2>1. /\ Latest \in Nat /\ verdicts[a].seen \in Nat /\ verdicts[a].seen >= Latest
        /\ Candidates \subseteq Nat
    BY LatestIsLatest, RowsTyped, Kinds DEF Active, IInv, TypeOK, Candidates
  <2>2. Candidates # {} /\ \A q \in Candidates : q <= Latest
    BY LatestIsLatest DEF IInv
  <2>3. ASSUME NEW r \in Candidates
        PROVE  ~(verdicts[a].seen < r)
    BY <2>1, <2>2
  <2>4. ~Superseded(verdicts[a].seen)
    BY <2>2, <2>3 DEF Superseded
  <2> QED
    BY <2>1, <2>4 DEF IInv, SeenInv, Active
<1> QED
  BY <1>1, Invariance, PTL

\* A finding that the run on display found, and that was judged by then, is
\* active once its collector ended that run without an error.
THEOREM ObservedCorrect == Spec => []ObservedIsActive
<1>1. IInv => ObservedIsActive
  <2> SUFFICES ASSUME IInv, NEW a \in Artifacts, Judged(a), judgedIn[a] <= Latest,
                      Latest \in finished, <<Latest, a>> \in rows,
                      okIn[CollectorOf[a]] = Latest
               PROVE  Active(a)
    BY DEF ObservedIsActive
  <2>1. Latest # 0
    BY DEF IInv, TypeOK
  <2> QED
    BY <2>1 DEF IInv, MarkedInv, Active
<1> QED
  BY <1>1, Invariance, PTL

\* An applied correction pins its verdict.
THEOREM CorrectionsCorrect == Spec => []CorrectionHolds
<1>1. IInv => CorrectionHolds
  BY DEF IInv, CorrectionInv
<1> QED
  BY <1>1, Invariance, PTL

\* The run on display never gives way to an older one.
LEMMA LatestAdvances ==
    ASSUME IInv, [Next]_vars
    PROVE  Latest' = 0 \/ Latest' >= Latest
<1>1. /\ Latest \in 0..clock /\ Latest' \in Nat
      /\ IF Candidates = {} THEN Latest = 0 ELSE Latest \in Candidates /\ Latest # 0
      /\ IF Candidates' = {} THEN Latest' = 0 ELSE \A q \in Candidates' : q <= Latest'
      /\ Candidates' \subseteq Nat /\ clock \in Nat
  <2>1. TypeOK /\ TypeOK'
    BY TypeNext DEF IInv
  <2>2. Candidates' \subseteq Nat /\ clock \in Nat /\ clock' \in Nat
    BY <2>1 DEF TypeOK, Candidates
  <2>3. /\ Latest' \in 0..clock'
        /\ IF Candidates' = {} THEN Latest' = 0 ELSE \A q \in Candidates' : q <= Latest'
    BY <2>1, LatestIsLatestNext
  <2> QED
    BY <2>1, <2>2, <2>3, LatestIsLatest
<1>2. CASE Latest = 0
  BY <1>1, <1>2
<1>3. CASE Latest # 0
  <2>1. PICK s \in 0..clock : s = Latest - 1
    BY <1>1, <1>3
  <2>2. Superseded(s)
    BY <1>1, <1>3, <2>1 DEF Superseded
  <2>3. Superseded(s)'
    BY <2>2, SupersededKept
  <2>4. CASE Candidates' = {}
    BY <1>1, <2>4
  <2>5. ASSUME NEW r \in Candidates', s < r
        PROVE  Latest' >= Latest
    BY <1>1, <2>1, <2>5
  <2> QED
    BY <2>3, <2>4, <2>5 DEF Superseded
<1> QED
  BY <1>2, <1>3

\* A finding changes status only when it is marked or a newer run is shown.
THEOREM StatusCorrect == Spec => StatusFollowsTheCycle
<1>1. ASSUME IInv, [Next]_vars, NEW a \in Artifacts,
             Judged(a), Judged(a)', Active(a) # Active(a)', Latest' # 0
      PROVE  verdicts[a].seen' > verdicts[a].seen \/ Latest' > Latest
  <2>1. /\ Latest \in Nat /\ Latest' \in Nat
        /\ verdicts[a].seen \in Nat /\ verdicts'[a].seen \in Nat
    <3>1. TypeOK /\ TypeOK'
      BY <1>1, TypeNext DEF IInv
    <3>2. verdicts[a].seen \in Nat /\ verdicts'[a].seen \in Nat
      BY <1>1, <3>1, Kinds DEF TypeOK, Judged
    <3>3. Latest \in 0..clock /\ Latest' \in 0..clock'
      BY <3>1, LatestIsLatest, LatestIsLatestNext
    <3> QED
      BY <3>2, <3>3
  <2>2. verdicts'[a].seen >= verdicts[a].seen
    <3>1. CASE verdicts'[a].seen = verdicts[a].seen
      BY <2>1, <3>1
    <3>2. CASE TouchJudgments /\ verdicts'[a].seen = run
      BY <1>1, <2>1, <3>2 DEF TouchJudgments, IInv, RunInv, InRun, SeenInv
    <3> QED
      BY <1>1, <3>1, <3>2, VerdictSteps
  <2>3. Latest' >= Latest
    BY <1>1, LatestAdvances
  <2>4. (verdicts[a].seen >= Latest) # (verdicts'[a].seen >= Latest')
    BY <1>1 DEF Active
  <2>5. verdicts[a].seen' = verdicts'[a].seen
    OBVIOUS
  <2> QED
    BY <2>1, <2>2, <2>3, <2>4, <2>5
<1>2. IInv /\ [Next]_vars =>
        [\A a \in Artifacts :
          /\ Judged(a) /\ Judged(a)' /\ Active(a) # Active(a)'
          /\ Latest' # 0
          => verdicts[a].seen' > verdicts[a].seen \/ Latest' > Latest]_vars
  BY <1>1
<1> QED
  BY Invariance, <1>2, PTL DEF Spec, StatusFollowsTheCycle

-----------------------------------------------------------------------------
(***************************************************************************)
(* What the judge is told of an artifact's past.                           *)
(***************************************************************************)

\* Sets of runs are finite.
LEMMA RunsFinite ==
    ASSUME NEW n \in Nat, NEW S \in SUBSET (1..n)
    PROVE  IsFiniteSet(S) /\ Cardinality(S) \in Nat /\ \A r \in S : r \in Nat /\ 1 <= r /\ r <= n
<1>1. 1 \in Int /\ n \in Int
  OBVIOUS
<1>2. IsFiniteSet(1..n)
  BY <1>1, FS_Interval
<1>3. IsFiniteSet(S)
  BY <1>2, FS_Subset
<1>4. Cardinality(S) \in Nat
  BY <1>3, FS_CardinalityType
<1> QED
  BY <1>3, <1>4

\* Any set of runs has its n-th, oldest first, up to its size.
LEMMA NthExists ==
    ASSUME NEW top \in Nat, NEW F \in SUBSET (1..top), NEW n \in Nat \ {0}, n <= Cardinality(F)
    PROVE  \E r \in F : Cardinality({q \in F : q <= r}) = n
<1> DEFINE UpTo(m) == {q \in F : q <= m}
<1> DEFINE Enough == {m \in Nat : Cardinality(UpTo(m)) >= n}
<1>1. IsFiniteSet(F) /\ \A q \in F : q \in Nat /\ 1 <= q /\ q <= top
  BY RunsFinite
<1>2. \A m \in Nat : IsFiniteSet(UpTo(m)) /\ Cardinality(UpTo(m)) \in Nat
  <2> TAKE m \in Nat
  <2>1. UpTo(m) \in SUBSET F
    OBVIOUS
  <2> HIDE DEF UpTo
  <2> QED
    BY <1>1, <2>1, FS_Subset, FS_CardinalityType
<1>3. UpTo(top) = F /\ UpTo(0) = {}
  <2>1. \A q \in F : q <= top /\ ~(q <= 0)
    BY <1>1
  <2> QED
    BY <2>1
<1>4. \A m \in Nat \ {0} : UpTo(m) = UpTo(m - 1) \cup (F \cap {m}) /\ m \notin UpTo(m - 1)
  <2> TAKE m \in Nat \ {0}
  <2>1. \A q \in F : q <= m <=> q <= m - 1 \/ q = m
    BY <1>1
  <2>2. ~(m <= m - 1)
    OBVIOUS
  <2> QED
    BY <2>1, <2>2
<1> HIDE DEF UpTo
<1>5. top \in Enough /\ Enough \in SUBSET Nat
  BY <1>3
<1>6. PICK r \in Enough : \A m \in Enough : r <= m
  <2> HIDE DEF Enough
  <2> QED
    BY <1>5, MinExists
<1>7. r \in Nat /\ Cardinality(UpTo(r)) >= n
  BY <1>6
<1>8. r # 0
  BY <1>3, <1>7, FS_EmptySet
<1>9. r - 1 \in Nat /\ ~(Cardinality(UpTo(r - 1)) >= n)
  <2>1. r - 1 \in Nat /\ r - 1 \notin Enough
    <3> HIDE DEF Enough
    <3> QED
      BY <1>6, <1>7, <1>8
  <2> QED
    BY <2>1
<1> HIDE DEF Enough
<1>10. CASE r \in F
  <2>1. UpTo(r) = UpTo(r - 1) \cup {r} /\ r \notin UpTo(r - 1)
    BY <1>4, <1>7, <1>8, <1>10
  <2>2. Cardinality(UpTo(r)) = Cardinality(UpTo(r - 1)) + 1
    BY <1>2, <1>9, <2>1, FS_AddElement
  <2>3. Cardinality(UpTo(r)) = n
    BY <1>2, <1>7, <1>9, <2>2
  <2> QED
    BY <1>10, <2>3 DEF UpTo
<1>11. CASE r \notin F
  <2>1. UpTo(r) = UpTo(r - 1)
    BY <1>4, <1>7, <1>8, <1>11
  <2> QED
    BY <1>7, <1>9, <2>1
<1> QED
  BY <1>10, <1>11

\* The first sighting is the earliest.
LEMMA FirstSeenIsEarliest ==
    ASSUME TypeOK, NEW a \in Artifacts, Sightings(a) # {}
    PROVE  /\ first_seen(a) \in Sightings(a) /\ first_seen(a) \in Nat
           /\ \A u \in Sightings(a) : u \in Nat /\ first_seen(a) <= u
<1>1. \A w \in rows : StartedAt(w[1]) \in Nat
  BY DEF TypeOK, StartedAt
<1>2. \A e \in events : CollectedAt(e) \in Nat
  BY DEF TypeOK, CollectedAt
<1>3. Sightings(a) \in SUBSET Nat
  BY <1>1, <1>2 DEF Sightings
<1>4. \E t \in Sightings(a) : \A u \in Sightings(a) : t <= u
  BY <1>3, MinExists
<1> QED
  BY <1>3, <1>4 DEF first_seen

\* A row there ever was and is no more: of a run that maintenance or retention
\* took, older than the open run and than every completed run that is kept.
FoundInv ==
    /\ found \subseteq (1..clock) \X Artifacts
    /\ \A w \in found : w \notin rows =>
         (InRun => w[1] < run) /\ \A r \in finished : w[1] < r

\* Rows go with the oldest completed runs, or with all of them.
LEMMA FoundNext == IInv /\ FoundInv /\ [Next]_vars => FoundInv'
<1> SUFFICES ASSUME IInv, FoundInv, [Next]_vars PROVE FoundInv'
  OBVIOUS
<1> USE DEF IInv, telemetry, findings, thread, history
<1>t. clock \in Nat /\ finished \subseteq 1..clock /\ \A w \in found : w[1] \in 1..clock
  BY DEF TypeOK, FoundInv
<1>1. CASE Collect
  <2>1. /\ found' = found \cup ({run} \X observed') /\ rows' = rows \cup ({run} \X observed')
        /\ UNCHANGED <<clock, finished, run>> /\ observed' \subseteq FoundBy(Current) /\ InRun
    BY <1>1 DEF Collect, InRun
  <2>2. run \in 1..clock /\ observed' \subseteq Artifacts
    BY <2>1, <1>t DEF RunInv, TypeOK, FoundBy
  <2> QED
    BY <2>1, <2>2 DEF FoundInv
<1>2. CASE StartRun
  <2>1. UNCHANGED <<found, rows, finished>> /\ clock' = clock + 1 /\ run' = clock + 1
    BY <1>2 DEF StartRun
  <2>2. \A w \in found : w[1] < run'
    BY <1>t, <2>1
  <2>3. found' \subseteq (1..clock') \X Artifacts
    BY <1>t, <2>1 DEF FoundInv
  <2> QED
    BY <2>1, <2>2, <2>3 DEF FoundInv
<1>3. CASE EndRun
  BY <1>3 DEF EndRun, FoundInv, InRun
<1>4. CASE (PruneToSize /\ UNCHANGED found) /\ (pc' = "idle" \/ UNCHANGED <<pc, run>>)
  <2>1. PICK gone \in SUBSET finished :
             /\ clock' = clock /\ finished' = finished \ gone
             /\ \A w \in rows : w[1] \notin gone => w \in rows'
             /\ \A r \in gone, k \in finished \ gone : r < k
             /\ gone # {} => finished \ gone # {}
    BY <1>4 DEF PruneToSize, GoesBefore
  <2>2. SUFFICES ASSUME NEW w \in found, w \notin rows'
                 PROVE  (InRun' => w[1] < run') /\ \A r \in finished' : w[1] < r
    BY <1>4, <2>1 DEF FoundInv
  <2>3. CASE w \notin rows
    BY <1>4, <2>1, <2>3 DEF FoundInv, InRun
  <2>4. CASE w \in rows
    <3>1. w[1] \in gone
      BY <2>1, <2>2, <2>4
    <3>2. PICK k \in finished : w[1] < k
      BY <2>1, <3>1
    <3>3. InRun' => run' = clock
      BY <1>4 DEF RunInv, InRun
    <3>4. \A r \in finished' : w[1] < r
      BY <2>1, <3>1
    <3> QED
      BY <1>t, <3>2, <3>3, <3>4
  <2> QED
    BY <2>3, <2>4
<1>5. CASE ResetBaseline \/ ClearData
  BY <1>5 DEF ResetBaseline, ClearData, Maintain, FoundInv, InRun
<1>6. CASE UNCHANGED <<found, telemetry>> /\ (InRun' => InRun /\ run' = run)
  BY <1>6 DEF FoundInv
<1>7. CASE \/ BeginCycle \/ ApplyFeedback \/ FeedbackFails \/ SkipDisabled
           \/ JudgeSnapshot \/ TouchJudgments \/ CollectorFails \/ Shutdown
           \/ JudgeStreaming \/ CycleFails \/ Rejudge
  BY <1>6, <1>7 DEF BeginCycle, ApplyFeedback, FeedbackFails, SkipDisabled, JudgeSnapshot,
       TouchJudgments, CollectorFails, Shutdown, JudgeStreaming, CycleFails, Rejudge, Maintain, InRun
<1>8. ASSUME NEW a \in Artifacts, StreamRow(a)
      PROVE  FoundInv'
  BY <1>6, <1>8 DEF StreamRow, InRun
<1>9. ASSUME NEW a \in Artifacts, NEW l \in Labels, RecordFeedback(a, l)
      PROVE  FoundInv'
  BY <1>6, <1>9 DEF RecordFeedback, InRun
<1>10. CASE UNCHANGED vars
  BY <1>6, <1>10 DEF vars, InRun
<1>11. CASE Rotate \/ Prune
  BY <1>4, <1>11 DEF Rotate, Prune, Maintain
<1> QED
  BY <1>1, <1>2, <1>3, <1>5, <1>7, <1>8, <1>9, <1>10, <1>11 DEF Next, Cycle

\* An artifact called novel is missing from all the completed runs, of those
\* kept, in which the host was learned; what it was found in before that is
\* older than every completed run that is kept.
THEOREM NoveltyCorrect == Spec => []NovelWasAbsent
<1>1. TypeOK /\ FoundInv => NovelWasAbsent
  <2> SUFFICES ASSUME TypeOK, FoundInv, NEW a \in Artifacts, Sightings(a) # {}, is_novel(a)
               PROVE  /\ Cardinality({r \in finished : StartedAt(r) <= cutoff_at
                                                       /\ <<r, a>> \notin rows}) >= MinRuns
                      /\ \A w \in found : w[2] = a /\ StartedAt(w[1]) <= cutoff_at =>
                           \A r \in finished : w[1] < r
    BY DEF NovelWasAbsent, Described
  <2> DEFINE nth == NthRun(MinRuns)
             Learned == {q \in finished : q <= nth}
             Absent == {r \in finished : StartedAt(r) <= cutoff_at /\ <<r, a>> \notin rows}
  <2>1. clock \in Nat /\ finished \in SUBSET (1..clock) /\ IsFiniteSet(finished)
    <3>1. clock \in Nat /\ finished \in SUBSET (1..clock)
      BY DEF TypeOK
    <3> QED
      BY <3>1, RunsFinite
  <2>2. MinRuns \in Nat \ {0} /\ MinRuns <= Cardinality(finished)
    <3>1. Cardinality(finished) \in Nat
      BY <2>1, FS_CardinalityType
    <3> QED
      BY <3>1, MinRunsAssumption DEF is_novel, established, completed_run_count
  <2>3. nth \in finished /\ Cardinality(Learned) = MinRuns
    <3>1. \E r \in finished : Cardinality({q \in finished : q <= r}) = MinRuns
      BY <2>1, <2>2, NthExists
    <3> QED
      BY <3>1 DEF NthRun
  <2>9. nth \in Nat /\ cutoff_at = StartedAt(nth)
    <3>1. cutoff_at = StartedAt(nth)
      BY DEF cutoff_at
    <3> HIDE DEF nth
    <3> QED
      BY <2>1, <2>3, <3>1
  <2>a. ASSUME NEW q \in Nat, StartedAt(q) <= cutoff_at
        PROVE  <<q, a>> \notin rows
    <3> SUFFICES ASSUME <<q, a>> \in rows PROVE FALSE
      OBVIOUS
    <3>1. StartedAt(q) \in Sightings(a)
      <4>1. <<q, a>>[1] = q /\ <<q, a>>[2] = a
        OBVIOUS
      <4> QED
        BY <4>1 DEF Sightings
    <3>2. first_seen(a) \in Nat /\ first_seen(a) <= StartedAt(q)
      BY <3>1, FirstSeenIsEarliest
    <3>3. first_seen(a) > cutoff_at
      BY DEF is_novel
    <3>4. StartedAt(q) \in Nat /\ cutoff_at \in Nat
      <4> HIDE DEF nth
      <4> QED
        BY <2>9 DEF StartedAt
    <3> QED
      BY <2>a, <3>2, <3>3, <3>4
  <2>b. \A q \in finished : q \in Nat /\ (q <= nth => StartedAt(q) <= cutoff_at)
    <3> HIDE DEF nth
    <3> QED
      BY <2>1, <2>9 DEF StartedAt
  <2>4. Learned \in SUBSET Absent
    BY <2>a, <2>b
  <2>8. ASSUME NEW w \in found, w[2] = a, StartedAt(w[1]) <= cutoff_at, NEW r \in finished
        PROVE  w[1] < r
    <3>1. w[1] \in Nat /\ w = <<w[1], a>>
      BY <2>8 DEF FoundInv
    <3>2. w \notin rows
      BY <2>8, <2>a, <3>1
    <3> QED
      BY <3>2 DEF FoundInv
  <2>5. IsFiniteSet(Absent)
    <3>1. Absent \in SUBSET finished
      OBVIOUS
    <3> HIDE DEF Absent
    <3> QED
      BY <2>1, <3>1, FS_Subset
  <2> HIDE DEF Learned, Absent
  <2>6. Cardinality(Learned) <= Cardinality(Absent) /\ Cardinality(Absent) \in Nat
    BY <2>4, <2>5, FS_Subset, FS_CardinalityType
  <2>7. Cardinality(Absent) >= MinRuns
    BY <2>2, <2>3, <2>6
  <2> QED
    BY <2>7, <2>8 DEF Absent
<1>2. IInv => TypeOK
  BY DEF IInv
<1>3. Init => FoundInv
  BY DEF Init, FoundInv
<1> QED
  BY <1>1, <1>2, <1>3, FoundNext, Invariance, PTL DEF Spec

\* An artifact with a row in every run since it was first seen is not called
\* intermittent.
THEOREM SteadinessCorrect == Spec => []SteadyIsNotIntermittent
<1>1. TypeOK => SteadyIsNotIntermittent
  <2> SUFFICES ASSUME TypeOK, NEW a \in Artifacts, Sightings(a) # {}, Intermittent(a),
                      \A r \in runs : StartedAt(r) > first_seen(a) => <<r, a>> \in rows
               PROVE  FALSE
    BY DEF SteadyIsNotIntermittent, Described
  <2> DEFINE InWindow == {r \in runs : first_seen(a) <= StartedAt(r)}
             RunsOf == {r \in 1..clock : <<r, a>> \in rows}
             RowsOf == {w \in rows : w[2] = a}
             pair == [r \in RunsOf |-> <<r, a>>]
  <2>1. /\ clock \in Nat /\ runs \in SUBSET (1..clock) /\ runs \in SUBSET Nat
        /\ rows \in SUBSET ((1..clock) \X Artifacts)
        /\ events \in SUBSET ((0..clock) \X Artifacts)
    BY DEF TypeOK
  <2>2. first_seen(a) \in Nat /\ first_seen(a) \in Sightings(a)
    BY FirstSeenIsEarliest
  <2>3. \A r \in Nat : first_seen(a) = StartedAt(r) => <<r, a>> \in rows
    <3> SUFFICES ASSUME NEW r \in Nat, first_seen(a) = StartedAt(r) PROVE <<r, a>> \in rows
      OBVIOUS
    <3>1. \A e \in events : CollectedAt(e) # StartedAt(r)
      <4> SUFFICES ASSUME NEW e \in events PROVE CollectedAt(e) # StartedAt(r)
        OBVIOUS
      <4>1. e[1] \in Nat
        BY <2>1
      <4> QED
        BY <4>1 DEF CollectedAt, StartedAt
    <3>2. PICK w \in rows : w[2] = a /\ StartedAt(w[1]) = StartedAt(r)
      BY <2>2, <3>1 DEF Sightings
    <3>3. w = <<w[1], w[2]>> /\ w[1] \in Nat
      BY <2>1
    <3>4. w[1] = r
      BY <3>2, <3>3 DEF StartedAt
    <3> QED
      BY <3>2, <3>3, <3>4
  <2>4. InWindow \in SUBSET RunsOf
    <3> SUFFICES ASSUME NEW r \in runs, first_seen(a) <= StartedAt(r)
                 PROVE  r \in 1..clock /\ <<r, a>> \in rows
      OBVIOUS
    <3>1. StartedAt(r) \in Nat /\ r \in Nat /\ r \in 1..clock
      BY <2>1 DEF StartedAt
    <3>2. first_seen(a) = StartedAt(r) \/ StartedAt(r) > first_seen(a)
      BY <2>2, <3>1
    <3> QED
      BY <2>3, <3>1, <3>2
  <2>5. IsFiniteSet(RunsOf)
    <3>1. RunsOf \in SUBSET (1..clock)
      OBVIOUS
    <3> HIDE DEF RunsOf
    <3> QED
      BY <2>1, <3>1, RunsFinite
  <2>6. pair \in Bijection(RunsOf, RowsOf)
    <3>1. \A r \in RunsOf : pair[r] = <<r, a>> /\ pair[r] \in RowsOf /\ pair[r][1] = r
      OBVIOUS
    <3>2. \A w \in RowsOf : w[1] \in RunsOf /\ pair[w[1]] = w
      <4> SUFFICES ASSUME NEW w \in rows, w[2] = a PROVE w[1] \in RunsOf /\ pair[w[1]] = w
        OBVIOUS
      <4>1. w = <<w[1], a>> /\ w[1] \in 1..clock
        BY <2>1
      <4>2. w[1] \in RunsOf
        BY <4>1
      <4> QED
        BY <4>1, <4>2
    <3>3. DOMAIN pair = RunsOf /\ pair = [r \in RunsOf |-> pair[r]]
      OBVIOUS
    <3> HIDE DEF RunsOf, RowsOf, pair
    <3>4. pair \in [RunsOf -> RowsOf]
      BY <3>1, <3>3
    <3>5. \A q, r \in RunsOf : pair[q] = pair[r] => q = r
      BY <3>1
    <3>6. \A w \in RowsOf : \E r \in RunsOf : pair[r] = w
      BY <3>2
    <3> QED
      BY <3>4, <3>5, <3>6 DEF Bijection, Injection, Surjection, IsInjective
  <2>7. Cardinality(InWindow) <= Cardinality(RowsOf)
        /\ Cardinality(InWindow) \in Nat /\ Cardinality(RowsOf) \in Nat
    <3> HIDE DEF InWindow, RunsOf, RowsOf, pair
    <3>1. Cardinality(RowsOf) = Cardinality(RunsOf)
      BY <2>5, <2>6, FS_Bijection DEF ExistsBijection
    <3> QED
      BY <2>4, <2>5, <3>1, FS_Subset, FS_CardinalityType
  <2>8. Window(a) = Cardinality(InWindow)
    BY DEF Window
  <2>9. times_seen(a) = Cardinality(RowsOf) + (IF \E e \in events : e[2] = a THEN 1 ELSE 0)
    BY DEF times_seen
  <2> HIDE DEF InWindow, RowsOf
  <2>10. times_seen(a) >= Window(a)
    BY <2>7, <2>8, <2>9
  <2> QED
    BY <2>7, <2>8, <2>9, <2>10 DEF Intermittent
<1>2. IInv => TypeOK
  BY DEF IInv
<1> QED
  BY <1>1, <1>2, Invariance, PTL

=============================================================================
