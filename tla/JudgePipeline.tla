--------------------------- MODULE JudgePipeline ---------------------------
(***************************************************************************)
(* How one collector's findings get their verdicts, pass after pass: the   *)
(* entries without one are capped and judged in batches by a language      *)
(* model, a skeptic re-checks malicious verdicts, an investigator re-judges *)
(* unknown ones, and what came out is stored at once.  Any call to a model *)
(* may fail or answer badly, and any stage may raise.                      *)
(*                                                                         *)
(* A judgment also carries what the judge said first and what became of    *)
(* the skeptic's check; no guard reads these.                              *)
(***************************************************************************)
EXTENDS Integers, Sequences, FiniteSets, SequencesExt

CONSTANTS
    Artifacts,          \* distinct content hashes of one collector
    BatchSize,          \* --judge-batch-size
    MaxPerCollector,    \* entries judged in one pass, 0 for no cap
    MaxVerify,          \* MAX_VERIFY_PER_COLLECTOR
    MaxInvestigate,     \* MAX_INVESTIGATE_PER_COLLECTOR
    HasVerifier, HasInvestigator,   \* which stages the pipeline was built with
    MaxFaults           \* bound on failures and bad answers together

ASSUME ConstantsAssumption ==
    /\ IsFiniteSet(Artifacts)
    /\ BatchSize \in Int
    /\ {MaxPerCollector, MaxVerify, MaxInvestigate, MaxFaults} \subseteq Nat
    /\ {HasVerifier, HasInvestigator} \subseteq BOOLEAN

Verdicts == {"benign", "suspicious", "malicious", "unknown"}

VARIABLES
    stored,     \* the Judgement table: a verdict or "none"
    pc,         \* which stage of the pass is next
    entries,    \* entries still to be judged in this pass
    judgments,  \* the batch's judgments so far
    queue,      \* positions in judgments the second opinion is still due on
    faults,
    said        \* what the judge said of each artifact in this pass

vars == <<stored, pc, entries, judgments, queue, faults, said>>

Judgment(a, v) == [artifact |-> a, verdict |-> v, first |-> v, check |-> "none"]

Init ==
    /\ stored = [a \in Artifacts |-> "none"]
    /\ pc = "idle" /\ entries = <<>> /\ judgments = <<>> /\ queue = {}
    /\ faults = 0
    /\ said = [a \in Artifacts |-> {}]

Fault == faults < MaxFaults /\ faults' = faults + 1

-----------------------------------------------------------------------------
(***************************************************************************)
(* The judge.                                                              *)
(***************************************************************************)

Unjudged == {a \in Artifacts : stored[a] = "none"}

Capped(s) == IF MaxPerCollector = 0 THEN s
             ELSE SubSeq(s, 1, IF Len(s) < MaxPerCollector THEN Len(s)
                               ELSE MaxPerCollector)

\* effective_batch_size, and what it leaves of the entries.
EffectiveBatchSize == IF BatchSize < 1 THEN 1 ELSE BatchSize
Batch == SubSeq(entries, 1, IF Len(entries) < EffectiveBatchSize
                            THEN Len(entries) ELSE EffectiveBatchSize)
AfterBatch == SubSeq(entries, Len(Batch) + 1, Len(entries))

\* A pass starts on whatever has no verdict, in the order the database
\* happens to return it.
BeginPass ==
    /\ pc = "idle" /\ Unjudged # {}
    /\ \E order \in SetToSeqs(Unjudged) : entries' = Capped(order)
    /\ pc' = "judge"
    /\ judgments' = <<>>
    /\ said' = [a \in Artifacts |-> {}]
    /\ UNCHANGED <<stored, queue, faults>>

\* JudgmentReply: a verdict that is none of the four reads as unknown.
Coerced(v) == IF v \in Verdicts THEN v ELSE "unknown"

\* Items of a reply, by zero-based index into the batch.
ReplyItem == [index : -1..Len(Batch), verdict : Verdicts \cup {"garbled"}]

\* Slip: a negative index counts from the end.
IndexedFromEnd(reply) ==
    SelectSeq(reply, LAMBDA item : item.index < Len(Batch))

\* _indexed: items whose index names no entry of the batch are dropped, the
\* others kept in their order.
Indexed(reply) ==
    LET kept[n \in 0..Len(reply)] ==
          IF n = 0 THEN <<>>
          ELSE IF reply[n].index \in 0..(Len(Batch) - 1)
               THEN Append(kept[n - 1], reply[n])
               ELSE kept[n - 1]
    IN  kept[Len(reply)]

\* batch[index].
EntryAt(i) == Batch[(i % Len(Batch)) + 1]

Accept(reply) ==
    LET items == Indexed(reply) IN
      /\ judgments' = judgments \o
           [k \in DOMAIN items |->
              Judgment(EntryAt(items[k].index), Coerced(items[k].verdict))]
      /\ said' = [a \in Artifacts |-> said[a] \cup
           {Coerced(reply[k].verdict) :
              k \in {k \in DOMAIN reply : /\ reply[k].index \in 0..(Len(Batch) - 1)
                                          /\ Batch[reply[k].index + 1] = a}}]
      /\ entries' = AfterBatch

\* The model answers on every entry of the batch, in order.
JudgeBatch ==
    /\ pc = "judge" /\ entries # <<>>
    /\ \E v \in [1..Len(Batch) -> Verdicts] :
         Accept([k \in 1..Len(Batch) |-> [index |-> k - 1, verdict |-> v[k]]])
    /\ UNCHANGED <<stored, pc, queue, faults>>

\* It leaves entries out, repeats some, or names others.
JudgeBadly ==
    /\ pc = "judge" /\ entries # <<>>
    /\ Fault
    /\ \E n \in 0..Len(Batch) : \E reply \in [1..n -> ReplyItem] : Accept(reply)
    /\ UNCHANGED <<stored, pc, queue>>

\* Slip: the loop over the batches is inside the try.
BatchFailsAll ==
    /\ pc = "judge" /\ entries # <<>>
    /\ Fault
    /\ entries' = <<>> /\ judgments' = <<>>
    /\ UNCHANGED <<stored, pc, queue, said>>

\* A CompletionError costs this batch its verdicts and no other.
BatchFails ==
    /\ pc = "judge" /\ entries # <<>>
    /\ Fault
    /\ entries' = AfterBatch
    /\ UNCHANGED <<stored, pc, judgments, queue, said>>

-----------------------------------------------------------------------------
(***************************************************************************)
(* The second opinions.                                                    *)
(***************************************************************************)

WithVerdict(v) == {i \in DOMAIN judgments : judgments[i].verdict = v}

\* The first n of a set of positions.
FirstOf(n, S) == {i \in S : Cardinality({k \in S : k < i}) < n}

NextIndex == CHOOSE i \in queue : \A k \in queue : i <= k

\* Slip: the limit is taken before the malicious ones are picked.
StartVerifyAmongFirst ==
    /\ pc = "judge" /\ entries = <<>>
    /\ pc' = "verify"
    /\ queue' = IF HasVerifier
                THEN FirstOf(MaxVerify, DOMAIN judgments) \cap WithVerdict("malicious")
                ELSE {}
    /\ UNCHANGED <<stored, entries, judgments, faults, said>>

\* The malicious ones the skeptic has the budget for.
StartVerify ==
    /\ pc = "judge" /\ entries = <<>>
    /\ pc' = "verify"
    /\ queue' = IF HasVerifier THEN FirstOf(MaxVerify, WithVerdict("malicious")) ELSE {}
    /\ UNCHANGED <<stored, entries, judgments, faults, said>>

\* Slip: no answer reads as a refutation.
VerifyOrDowngrade ==
    /\ pc = "verify" /\ queue # {}
    /\ \E answer \in {"upheld", "refuted", "failed"} :
         /\ IF answer = "failed" THEN Fault ELSE UNCHANGED faults
         /\ judgments' = [judgments EXCEPT
              ![NextIndex].verdict = IF answer # "upheld" THEN "suspicious" ELSE @,
              ![NextIndex].check = answer]
    /\ queue' = queue \ {NextIndex}
    /\ UNCHANGED <<stored, pc, entries, said>>

\* The skeptic upholds, refutes (the verdict becomes suspicious) or fails
\* (the verdict stays).
Verify ==
    /\ pc = "verify" /\ queue # {}
    /\ \E answer \in {"upheld", "refuted", "failed"} :
         /\ IF answer = "failed" THEN Fault ELSE UNCHANGED faults
         /\ judgments' = [judgments EXCEPT
              ![NextIndex].verdict = IF answer = "refuted" THEN "suspicious" ELSE @,
              ![NextIndex].check = answer]
    /\ queue' = queue \ {NextIndex}
    /\ UNCHANGED <<stored, pc, entries, said>>

\* The unknown ones the investigator has the budget for.
StartInvestigate ==
    /\ pc = "verify" /\ queue = {}
    /\ pc' = "investigate"
    /\ queue' = IF HasInvestigator
                THEN FirstOf(MaxInvestigate, WithVerdict("unknown")) ELSE {}
    /\ UNCHANGED <<stored, entries, judgments, faults, said>>

\* The investigator commits to a verdict, or answers unknown or fails, which
\* leaves it unknown.
Investigate ==
    /\ pc = "investigate" /\ queue # {}
    /\ \E fresh \in Verdicts : judgments' = [judgments EXCEPT ![NextIndex].verdict = fresh]
    /\ queue' = queue \ {NextIndex}
    /\ UNCHANGED <<stored, pc, entries, faults, said>>

\* Slip: an unknown is not worth storing.
WriteJudgmentsIfKnown ==
    /\ pc = "investigate" /\ queue = {}
    /\ stored' = [a \in Artifacts |->
         LET given == {i \in DOMAIN judgments : /\ judgments[i].artifact = a
                                               /\ judgments[i].verdict # "unknown"} IN
           IF stored[a] # "none" \/ given = {} THEN stored[a]
           ELSE judgments[CHOOSE i \in given : \A k \in given : i <= k].verdict]
    /\ pc' = "idle"
    /\ judgments' = <<>>
    /\ UNCHANGED <<entries, queue, faults, said>>

\* write_judgments: one transaction; of two judgments on one artifact the
\* first stays (ON CONFLICT DO NOTHING).
WriteJudgments ==
    /\ pc = "investigate" /\ queue = {}
    /\ stored' = [a \in Artifacts |->
         LET given == {i \in DOMAIN judgments : judgments[i].artifact = a} IN
           IF stored[a] # "none" \/ given = {} THEN stored[a]
           ELSE judgments[CHOOSE i \in given : \A k \in given : i <= k].verdict]
    /\ pc' = "idle"
    /\ judgments' = <<>>
    /\ UNCHANGED <<entries, queue, faults, said>>

\* A stage raises anything but a CompletionError (a database error, a reply
\* of the wrong shape), or the process dies: the pass is lost.
StageRaises ==
    /\ pc # "idle"
    /\ Fault
    /\ pc' = "idle" /\ entries' = <<>> /\ judgments' = <<>> /\ queue' = {}
    /\ said' = [a \in Artifacts |-> {}]
    /\ UNCHANGED stored

Next ==
    \/ BeginPass \/ JudgeBatch \/ JudgeBadly \/ BatchFails
    \/ StartVerify \/ Verify \/ StartInvestigate \/ Investigate
    \/ WriteJudgments \/ StageRaises

\* The next cycle comes and the calls return.
Spec == Init /\ [][Next]_vars /\ WF_vars(Next)

-----------------------------------------------------------------------------
(***************************************************************************)
(* Properties.                                                             *)
(***************************************************************************)

\* The judgments are exactly what the model said, each of the artifact it was
\* said of: across batches, with answers repeated, left out or out of range,
\* and with other batches failing.
JudgmentsAreWhatWasSaid ==
    pc # "idle" =>
        /\ \A i \in DOMAIN judgments :
             judgments[i].first \in said[judgments[i].artifact]
        /\ \A a \in Artifacts : said[a] # {} =>
             \E i \in DOMAIN judgments : judgments[i].artifact = a

\* A malicious verdict of the judge that goes into the store has been put to
\* the skeptic, unless the skeptic had its fill of earlier ones; and one it
\* refuted does not go in as malicious.
MaliciousWasChecked ==
    pc = "investigate" /\ queue = {} /\ HasVerifier =>
        \A i \in WithVerdict("malicious") :
            /\ judgments[i].check # "refuted"
            /\ judgments[i].first = "malicious" /\ judgments[i].check = "none" =>
                 Cardinality({k \in DOMAIN judgments :
                                k < i /\ judgments[k].check # "none"}) = MaxVerify

\* A verdict that is stored was reached by a chain of opinions that allows it:
\* the judge's own, suspicious after a refutation, anything after an unknown.
RevisedOnlyAsAllowed ==
    \A i \in DOMAIN judgments :
        LET j == judgments[i] IN
          j.verdict # j.first =>
              \/ j.first = "malicious" /\ j.check = "refuted" /\ j.verdict = "suspicious"
              \/ j.first = "unknown" /\ j.check = "none" /\ pc = "investigate"

\* Entries the cap defers get their verdict in a later pass, in whatever order
\* the database returns them, once the model has stopped failing.
EventuallyJudged == \A a \in Artifacts : <>(stored[a] # "none")
=============================================================================
