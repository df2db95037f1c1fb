----------------------------- MODULE Enrichment -----------------------------
(***************************************************************************)
(* Threat-intelligence lookups for one collector's findings, in time: the  *)
(* stage goes through the entries, asks every source that supports an      *)
(* indicator, chains the advisories a package lookup reports into lookups  *)
(* of their own, and attaches what was found.  A lookup is answered from   *)
(* the evidence cache, from a downloaded feed, or by a paced and retried   *)
(* HTTP request.  Everything runs on the cycle's one thread, so a wait is  *)
(* time the whole cycle waits.                                             *)
(***************************************************************************)
EXTENDS Integers, Sequences, FiniteSets, SequencesExt

CONSTANTS
    Chain,          \* the enabled sources, in the chain's order
    Feeds,          \* those backed by a whole downloadable feed
    PackageSources, \* those that support packages
    CveSources,     \* those that support advisory ids
    Period,         \* [source -> least time between two requests to its host]
    Ttl,            \* [source -> ttl_hours]
    FeedFreshFor,   \* feed_fresh_s
    Backoffs,       \* RETRY_BACKOFFS_S after the 0 of the first attempt, each
                    \* as the set of its jittered values
    MaxRetryAfter,  \* MAX_RETRY_AFTER_S
    MaxForward,     \* MAX_FORWARD_CVES
    BeatEvery       \* MONITOR_PROGRESS_HEARTBEAT_S

CONSTANTS           \* the world, and what bounds it
    Packages, Advisories,
    Batches,        \* the batches to enrich: sequences of entries, an entry
                    \* being the sequence of its indicators
    IdLists,        \* lists of ids an answer may carry
    FeedIndexes,    \* sets of advisories a feed may hold
    WireTimes,      \* how long a reply may take, up to the timeout
    RetryAfters,    \* values of Retry-After
    RestTimes,      \* time between two batches
    Replies,        \* kinds of reply the services give
    MaxFaults       \* bound on replies that are no answer

ReplyKinds == {"evidence", "nothing", "refused", "unavailable", "limited"}

ASSUME ConstantsAssumption ==
    /\ Feeds \cup PackageSources \cup CveSources \subseteq ToSet(Chain)
    /\ Feeds \cap PackageSources = {}
    /\ Period \in [ToSet(Chain) -> Nat] /\ Ttl \in [ToSet(Chain) -> Nat]
    /\ {FeedFreshFor, MaxRetryAfter, MaxForward, BeatEvery, MaxFaults}
         \subseteq Nat
    /\ Backoffs \in Seq(SUBSET Nat) /\ Backoffs # <<>>
    /\ WireTimes \cup RetryAfters \cup RestTimes \subseteq Nat
    /\ Packages \cap Advisories = {} /\ "none" \notin Packages \cup Advisories
    /\ Replies \subseteq ReplyKinds

Sources == ToSet(Chain)
Indicators == Packages \cup Advisories

\* The registry builds every source once; ids come in lists; and no wait of
\* the client's own, nor a reply, takes for ever.
ASSUME WorldAssumption ==
    /\ Chain \in Seq(Sources) /\ IsInjective(Chain)
    /\ Batches \in Seq(Seq(Seq(Indicators)))
    /\ \A ids \in IdLists : ids \in Seq(ToSet(ids))
    /\ \A times \in {WireTimes} \cup ToSet(Backoffs) :
         \E longest \in times : \A time \in times : time <= longest

VARIABLES
    now,        \* monotonic and wall clock
    batches,    \* batches still to enrich
    entries,    \* entries left in this one
    todo,       \* indicators left in this entry
    subject,    \* the indicator under way, or "none"
    chained,    \* its advisories have been chained
    lookups,    \* <<source, indicator>> pairs still to ask
    call,       \* the HTTP request under way: attempt (0 if none), started
    found,      \* evidence for the subject
    cache,      \* the rows of enrichment_evidence
    feed,       \* per feed its index and when it was fetched
    bucket,     \* per source, when its host's token was last taken
    touched, lastSeen,  \* throttle of the heartbeat; last_seen_at
    faults

\* History: when requests left, and what was asked about the subject.
VARIABLES sentAt, asked

control == <<batches, entries, todo, subject, chained>>
beats == <<touched, lastSeen>>
vars == <<now, control, lookups, call, found, cache, feed, bucket, beats,
          faults, sentAt, asked>>

Never == -1
NoCall == [attempt |-> 0, from |-> 0]
NoFeed == [index |-> {}, at |-> 0, told |-> 0]

\* told is history: when the source itself said so.
Evidence(s, i, ids, at, told) ==
    [source |-> s, indicator |-> i, ids |-> ids, at |-> at, told |-> told]

Init ==
    /\ now = 0 /\ batches = Batches /\ entries = <<>> /\ todo = <<>>
    /\ subject = "none" /\ chained = FALSE
    /\ lookups = <<>> /\ call = NoCall /\ found = <<>>
    /\ cache = {} /\ feed = [s \in Feeds |-> NoFeed]
    /\ bucket = [s \in Sources |-> Never]
    /\ touched = 0 /\ lastSeen = 0 /\ faults = 0
    /\ sentAt = [s \in Sources |-> Never] /\ asked = <<>>

-----------------------------------------------------------------------------
(***************************************************************************)
(* The stage and the chain.                                                *)
(***************************************************************************)

Supporting(i) == IF i \in Packages THEN PackageSources ELSE CveSources

\* Every source that supports an indicator, in the chain's order.
Asking(i) ==
    LET asking[n \in 0..Len(Chain)] ==
          IF n = 0 THEN <<>>
          ELSE IF Chain[n] \in Supporting(i)
               THEN Append(asking[n - 1], <<Chain[n], i>>) ELSE asking[n - 1]
    IN  asking[Len(Chain)]

\* A new cycle: the control loop has just written a heartbeat.
NextBatch ==
    /\ entries = <<>> /\ todo = <<>> /\ subject = "none" /\ batches # <<>>
    /\ entries' = Head(batches) /\ batches' = Tail(batches)
    /\ \E rest \in RestTimes : now' = now + rest
    /\ touched' = now' /\ lastSeen' = now'
    /\ UNCHANGED <<todo, subject, chained, lookups, call, found, cache, feed,
                   bucket, faults, sentAt, asked>>

\* ProgressHeartbeat.beat: at most one write per BeatEvery.
Beat == IF now - touched < BeatEvery THEN UNCHANGED beats
        ELSE touched' = now /\ lastSeen' = now

NextEntry ==
    /\ todo = <<>> /\ subject = "none" /\ entries # <<>>
    /\ Beat
    /\ todo' = Head(entries) /\ entries' = Tail(entries)
    /\ UNCHANGED <<now, batches, subject, chained, lookups, call, found, cache,
                   feed, bucket, faults, sentAt, asked>>

NextIndicator ==
    /\ subject = "none" /\ todo # <<>>
    /\ subject' = Head(todo) /\ todo' = Tail(todo)
    /\ chained' = FALSE /\ found' = <<>> /\ asked' = <<>>
    /\ lookups' = Asking(subject')
    /\ UNCHANGED <<now, batches, entries, call, cache, feed, bucket, beats,
                   faults, sentAt>>

\* Slip: an id is looked up as often as it is reported.
AdvisoryIdsRepeated(ids) == SelectSeq(ids, LAMBDA id : id \in Advisories)

\* The distinct CVE and GHSA ids among those reported, in order.
AdvisoryIds(ids) ==
    LET kept[n \in 0..Len(ids)] ==
          IF n = 0 THEN <<>>
          ELSE IF ids[n] \in Advisories /\ ~Contains(kept[n - 1], ids[n])
               THEN Append(kept[n - 1], ids[n]) ELSE kept[n - 1]
    IN  kept[Len(ids)]

FirstOf(n, s) == SubSeq(s, 1, IF Len(s) < n THEN Len(s) ELSE n)

\* The advisories a package's evidence names, each asked about at every
\* source for advisories.  An advisory never chains.
ForwardChain ==
    /\ lookups = <<>> /\ call = NoCall
    /\ subject \in Packages /\ ~chained
    /\ LET reported == FlattenSeq([k \in DOMAIN found |-> found[k].ids])
           ids == FirstOf(MaxForward, AdvisoryIds(reported))
       IN  lookups' = FlattenSeq([k \in DOMAIN ids |-> Asking(ids[k])])
    /\ chained' = TRUE
    /\ UNCHANGED <<now, batches, entries, todo, subject, call, found, cache,
                   feed, bucket, beats, faults, sentAt, asked>>

Finished ==
    /\ subject # "none" /\ lookups = <<>> /\ call = NoCall
    /\ subject \in Advisories \/ chained

AttachEvidence ==
    /\ Finished
    /\ subject' = "none"
    /\ found' = <<>> /\ asked' = <<>> /\ chained' = FALSE
    /\ UNCHANGED <<now, batches, entries, todo, lookups, call, cache, feed,
                   bucket, beats, faults, sentAt>>

-----------------------------------------------------------------------------
(***************************************************************************)
(* One lookup: cache, feed, or request.                                    *)
(***************************************************************************)

Waiting == lookups # <<>> /\ call = NoCall
Source == Head(lookups)[1]
Asked == Head(lookups)[2]

\* EvidenceCache.get.
FreshRows ==
    {row \in cache : /\ row.source = Source /\ row.indicator = Asked
                     /\ row.at >= now - Ttl[Source]}

\* EvidenceCache.put: one row per source and indicator.
Put(e) ==
    cache' = {row \in cache : row.source # e.source \/ row.indicator # e.indicator}
               \cup {e}

\* The lookup is over, with evidence or without.
Concludes == /\ lookups' = Tail(lookups)
             /\ asked' = Append(asked, Head(lookups))
             /\ call' = NoCall

Says(e) == Concludes /\ found' = Append(found, e) /\ Put(e)
SaysNothing == Concludes /\ UNCHANGED <<found, cache>>

UseCached ==
    /\ Waiting
    /\ \E row \in FreshRows : found' = Append(found, row)
    /\ Concludes
    /\ UNCHANGED <<now, control, cache, feed, bucket, beats, faults, sentAt>>

\* Slip: a feed once fetched is fresh for ever.
FeedIsFreshForEver(s) == feed[s].index # {}

\* FeedEnricher._refresh returns early.
FeedIsFresh(s) == feed[s].index # {} /\ now - feed[s].at < FeedFreshFor

FromIndex(f, at) ==
    IF Asked \in f.index THEN Says(Evidence(Source, Asked, <<>>, at, f.told))
    ELSE SaysNothing

UseFeed ==
    /\ Waiting /\ FreshRows = {}
    /\ Source \in Feeds /\ FeedIsFresh(Source)
    /\ FromIndex(feed[Source], now)
    /\ UNCHANGED <<now, control, feed, bucket, beats, faults, sentAt>>

StartCall ==
    /\ Waiting /\ FreshRows = {}
    /\ Source \in Feeds => ~FeedIsFresh(Source)
    /\ call' = [attempt |-> 1, from |-> now]
    /\ UNCHANGED <<now, control, lookups, found, cache, feed, bucket, beats,
                   faults, sentAt, asked>>

\* Slip: the token is dated before the wait for it.
TakeTooEarly(ready, sent) == bucket' = [bucket EXCEPT ![Source] = ready]

\* TokenBucket.take: a request ready at one time is sent at another.
Take(ready, sent) == bucket' = [bucket EXCEPT ![Source] = sent]

SendTime(ready) ==
    IF bucket[Source] = Never \/ bucket[Source] + Period[Source] <= ready
    THEN ready ELSE bucket[Source] + Period[Source]

\* One attempt: the backoff, the token, the request, the reply, and what is
\* waited after it.
Attempt(after) ==
    /\ call # NoCall
    /\ \E backoff \in Backoffs[call.attempt], wire \in WireTimes :
         LET ready == now + backoff
             sent == SendTime(ready)
         IN  /\ Take(ready, sent)
             /\ sentAt' = [sentAt EXCEPT ![Source] = sent]
             /\ now' = sent + wire + after

Fault == faults < MaxFaults /\ faults' = faults + 1
LastAttempt == call.attempt = Len(Backoffs)

\* A 200 with something to say.
Answers ==
    /\ "evidence" \in Replies
    /\ Attempt(0)
    /\ \/ /\ Source \in Feeds
          /\ \E index \in FeedIndexes :
               LET f == [index |-> index, at |-> call.from, told |-> now'] IN
                 feed' = [feed EXCEPT ![Source] = f] /\ FromIndex(f, now')
       \/ /\ Source \notin Feeds
          /\ \E ids \in IdLists : Says(Evidence(Source, Asked, ids, now', now'))
          /\ UNCHANGED feed
    /\ UNCHANGED <<control, beats, faults>>

\* A 404, or a 200 that has nothing on the indicator.
HasNothing ==
    /\ "nothing" \in Replies
    /\ Attempt(0)
    /\ Source \notin Feeds /\ SaysNothing
    /\ UNCHANGED <<control, feed, beats, faults>>

\* Any other status, or a body of the wrong shape: the chain logs it.
Refuses ==
    /\ "refused" \in Replies /\ Fault
    /\ Attempt(0)
    /\ SaysNothing
    /\ UNCHANGED <<control, feed, beats>>

\* A server error or a broken connection: tried again until the attempts
\* are used up.
Unavailable ==
    /\ "unavailable" \in Replies /\ Fault
    /\ Attempt(0)
    /\ \/ LastAttempt /\ SaysNothing
       \/ /\ ~LastAttempt
          /\ call' = [call EXCEPT !.attempt = @ + 1]
          /\ UNCHANGED <<lookups, found, cache, asked>>
    /\ UNCHANGED <<control, feed, beats>>

\* Slip: any Retry-After is waited out.
WorthWaitingAnyTime(retryAfter) == retryAfter > 0

\* RetryAfter.is_worth_waiting; 0 stands for no header or one unreadable.
WorthWaiting(retryAfter) == 0 < retryAfter /\ retryAfter <= MaxRetryAfter

\* A 429: waited out if that is short and an attempt is left, or given up.
RateLimited ==
    /\ "limited" \in Replies /\ Fault
    /\ \E retryAfter \in RetryAfters :
         \/ /\ WorthWaiting(retryAfter) /\ ~LastAttempt
            /\ Attempt(retryAfter)
            /\ call' = [call EXCEPT !.attempt = @ + 1]
            /\ UNCHANGED <<lookups, found, cache, asked>>
         \/ /\ ~WorthWaiting(retryAfter) \/ LastAttempt
            /\ Attempt(0)
            /\ SaysNothing
    /\ UNCHANGED <<control, feed, beats>>

Next ==
    \/ NextBatch \/ NextEntry \/ NextIndicator \/ ForwardChain \/ AttachEvidence
    \/ UseCached \/ UseFeed \/ StartCall
    \/ Answers \/ HasNothing \/ Refuses \/ Unavailable \/ RateLimited

Spec == Init /\ [][Next]_vars

-----------------------------------------------------------------------------
(***************************************************************************)
(* Properties.                                                             *)
(***************************************************************************)

\* What the judge is shown was said by the source itself no longer ago than
\* the source's time to live, and for a feed its freshness window on top:
\* the two caches stack, since evidence cut from an old index counts as new.
EvidenceIsRecent ==
    [][Len(found') > Len(found) =>
         LET e == Last(found') IN
           now' - e.told <= Ttl[e.source] +
                            (IF e.source \in Feeds THEN FeedFreshFor ELSE 0)]_vars

\* Requests to one host leave at least its period apart, whichever lookups,
\* retries, feeds and cycles they belong to.
Paced ==
    [][\A s \in Sources :
         sentAt[s] # Never /\ sentAt'[s] # sentAt[s]
           => sentAt'[s] - sentAt[s] >= Period[s]]_vars

\* About one indicator nothing is asked twice, and by the time its evidence
\* is attached every source has been asked about it, and every source for
\* advisories about each reported advisory, or about MaxForward of them.
EachAskedOnce ==
    LET own == {k \in DOMAIN found : found[k].indicator = subject}
        reported == {id \in Advisories : \E k \in own : Contains(found[k].ids, id)}
        pursued == {id \in Advisories \ {subject} : \E s \in Sources : Contains(asked, <<s, id>>)}
    IN  /\ IsInjective(asked)
        /\ Finished =>
             /\ ToSet(asked) =
                  {<<s, i>> : s \in Supporting(subject), i \in {subject}}
                    \cup {<<s, i>> : s \in CveSources, i \in pursued}
             /\ subject \in Packages /\ CveSources # {} =>
                  /\ pursued \subseteq reported
                  /\ Cardinality(pursued) =
                       (IF Cardinality(reported) < MaxForward
                        THEN Cardinality(reported) ELSE MaxForward)

Greatest(S) == CHOOSE x \in S : \A y \in S : y <= x

\* The longest that the backoffs before an attempt can be.
Backed[n \in 0..Len(Backoffs)] ==
    IF n = 0 THEN 0 ELSE Backed[n - 1] + Greatest(Backoffs[n])

\* A source that answers badly holds the cycle up for a bounded time: its
\* timeouts, backoffs and tokens, and no more than MaxRetryAfter between
\* two attempts.
StallIsBounded ==
    [][call # NoCall =>
         now' - call.from <=
           Backed[Len(Backoffs)] + Len(Backoffs) * (Period[Source] + Greatest(WireTimes))
             + (Len(Backoffs) - 1) * MaxRetryAfter]_vars

=============================================================================
