------------------------------ MODULE Baseline ------------------------------
(***************************************************************************)
(* What the judge is told about an artifact's past: whether it is novel on *)
(* a host whose normal has been learned, and whether it comes and goes.    *)
(* Both are read from the runs and rows of CollectionCycle at the moment   *)
(* an artifact is judged.                                                  *)
(*                                                                         *)
(* Time: run r starts at 2r and stamps its rows with that; a row streamed  *)
(* while r is the newest run is collected at 2r + 1.                       *)
(***************************************************************************)
EXTENDS CollectionCycle, FiniteSets

CONSTANT MinRuns    \* completed runs after which the host is learned

ASSUME MinRunsAssumption == MinRuns \in Nat \ {0}

MIN_DRIFT_WINDOW == 3

StartedAt(r) == 2 * r
CollectedAt(e) == 2 * e[1] + 1

-----------------------------------------------------------------------------
(***************************************************************************)
(* HostBaseline, measured when the run has been opened.                    *)
(***************************************************************************)

completed_run_count == Cardinality(finished)
established == completed_run_count >= MinRuns

\* Slip: runs that never finished count.
NthRunOfAll(n) ==
    CHOOSE r \in runs : Cardinality({q \in runs : q <= r}) = n

\* The n-th completed run, oldest first.
NthRun(n) ==
    CHOOSE r \in finished : Cardinality({q \in finished : q <= r}) = n

\* The end of the learning window.
cutoff_at == StartedAt(NthRun(MinRuns))

-----------------------------------------------------------------------------
(***************************************************************************)
(* first_seen_map and PresenceWindow.                                      *)
(***************************************************************************)

Sightings(a) == {StartedAt(w[1]) : w \in {w \in rows : w[2] = a}}
                  \cup {CollectedAt(e) : e \in {e \in events : e[2] = a}}

first_seen(a) == CHOOSE t \in Sightings(a) : \A u \in Sightings(a) : t <= u

\* Distinct run ids: one per run, and one for the session that a streaming
\* worker keeps open across runs.
times_seen(a) ==
    Cardinality({w \in rows : w[2] = a})
      + (IF \E e \in events : e[2] = a THEN 1 ELSE 0)

\* Slip: all the runs there are.
WindowOfAll(a) == Cardinality(runs)

\* The runs, completed or not, started since the artifact was first seen.
Window(a) == Cardinality({r \in runs : first_seen(a) <= StartedAt(r)})

is_novel(a) == established /\ first_seen(a) > cutoff_at

Intermittent(a) == Window(a) >= MIN_DRIFT_WINDOW /\ times_seen(a) < Window(a)

\* The artifacts about to be described to the judge: those of the collector
\* at hand, or of the streams once every collector has been driven.
Described ==
    {a \in Artifacts :
        /\ settings.judge /\ ~Judged(a) /\ Sightings(a) # {}
        /\ \/ pc = "judge" /\ a \in observed
           \/ /\ pc = "collect" /\ todo = <<>>
              /\ CollectorOf[a] \in Streams \ settings.disabled}

-----------------------------------------------------------------------------
(***************************************************************************)
(* Properties.                                                             *)
(***************************************************************************)

\* A snapshot artifact called novel was missing from the MinRuns completed runs
\* in which the host was learned, as far as they are kept.  A run that died, a
\* maintenance command, and an artifact judged late because the judge was off
\* or left it out, do not make it novel; a prune can.  An artifact is called
\* novel although it was found before the learning ended only if it was found
\* in a run older than every completed run there is, which took its row along
\* (and, as the oldest run kept moves on, the end of the learning).
NovelWasAbsent ==
    \A a \in Described :
        pc = "judge" /\ is_novel(a) =>
          /\ Cardinality({r \in finished : StartedAt(r) <= cutoff_at /\ <<r, a>> \notin rows})
               >= MinRuns
          /\ \A w \in found : w[2] = a /\ StartedAt(w[1]) <= cutoff_at =>
               \A r \in finished : w[1] < r

\* A snapshot artifact with a row in every run since it was first seen is not
\* said to come and go, whatever has been pruned or reset.
SteadyIsNotIntermittent ==
    \A a \in Described :
        pc = "judge" /\ Intermittent(a)
            => \E r \in runs : StartedAt(r) > first_seen(a) /\ <<r, a>> \notin rows
=============================================================================
