----------------------------- MODULE Correlate -----------------------------
(***************************************************************************)
(* The tool correlate.workload (internal/core/tools/correlate): it asks    *)
(* its sources one after the other, merges what they return newest first,  *)
(* cuts the timeline to the limit and ranks the changes before the         *)
(* earliest symptom.                                                       *)
(*                                                                         *)
(* Five sources stand for nine: the changes of Kubernetes, the audit log   *)
(* of a cloud (Docker and Argo are like it), a metric, the error budget,   *)
(* and the logs with their two stores (traces are like them).  Time is     *)
(* counted in units of proximityTauSeconds, 0..Now; an event keeps its     *)
(* time, its kind, whether its target is the workload, and its source.     *)
(***************************************************************************)
EXTENDS Integers, SequencesExt, Ordering

CONSTANTS
  Now,          \* the end of the window
  Limits,       \* values of the argument limit
  MaxListed     \* bound: events a source of changes returns

ASSUME CorrelateAssumption ==
  Now \in 1..5 /\ Limits \subseteq Nat \ {0} /\ MaxListed \in Nat

Sources == <<"k8s", "audit", "metric", "slo", "log">>
Times == 0..Now
SymptomKinds == {"metric_breach", "budget_burn", "log_error"}
ChangeKinds == {"rollout", "cloud_audit"}
Kinds5 == SymptomKinds \cup ChangeKinds \cup {"event"}
Event(t, kind, own, from) == [t |-> t, kind |-> kind, own |-> own, from |-> from]
Events == [t : Times, kind : Kinds5, own : BOOLEAN, from : ToSet(Sources)]

VARIABLES
  limit,     \* the argument limit
  asked,     \* sources asked so far
  timeline,  \* what they returned, one after the other
  failures,  \* sources that returned an error
  silent,    \* Kubernetes could not be listed, which its source keeps quiet
  answer     \* what the tool says, or Unanswered

correlateVars == <<limit, asked, timeline, failures, silent, answer>>

Unanswered == [said |-> "nothing yet", shown |-> <<>>, shares |-> <<>>, more |-> 0]

CorrelateTypeOK ==
  /\ limit \in Limits /\ asked \in 0..Len(Sources)
  /\ timeline \in Seq(Events)
  /\ failures \in Seq(ToSet(Sources)) /\ Len(failures) <= asked
  /\ silent \in BOOLEAN
  /\ answer.said \in {"nothing yet", "error", "ranked", "unexplained", "recent", "no change"}

CorrelateInit ==
  /\ limit \in Limits
  /\ asked = 0 /\ timeline = <<>> /\ failures = <<>> /\ silent = FALSE
  /\ answer = Unanswered

---------------------------------------------------------------------------
(* The sources.                                                            *)

IsTurn(src) == asked < Len(Sources) /\ Sources[asked + 1] = src

Returns(events) ==
  /\ asked' = asked + 1
  /\ timeline' = timeline \o events
  /\ UNCHANGED <<limit, failures, answer>>

Fails(src) ==
  /\ IsTurn(src)
  /\ asked' = asked + 1
  /\ failures' = Append(failures, src)
  /\ UNCHANGED <<limit, timeline, silent, answer>>

\* SliceStable by Time.After, and the cut.
NewestFirst(events) ==
  LET places == DOMAIN events
      newer == {p \in places \X places :
                  \/ events[p[1]].t > events[p[2]].t
                  \/ events[p[1]].t = events[p[2]].t /\ p[1] < p[2]}
      order == Arranged(places, newer)
  IN  [k \in DOMAIN order |-> events[order[k]]]
Cut(events, n) == SubSeq(events, 1, IF Len(events) > n THEN n ELSE Len(events))
MergeSorted(n, events) == Cut(NewestFirst(events), n)

Lists(kinds, src) ==
  UNION {[1..n -> {e \in Events : e.kind \in kinds /\ e.from = src /\ (e.kind = "event" => e.own)}] :
         n \in 0..MaxListed}

\* k8s_source.go merges its lists, and cuts them too.
K8sAnswers ==
  /\ IsTurn("k8s")
  /\ \E events \in Lists({"rollout", "event"}, "k8s") :
       /\ events = NewestFirst(events)
       /\ Returns(Cut(events, limit))
  /\ UNCHANGED silent

\* An error of a list is skipped over: no events, and no error.
K8sSilent ==
  /\ IsTurn("k8s")
  /\ silent' = TRUE
  /\ Returns(<<>>)

AuditAnswers ==
  /\ IsTurn("audit")
  /\ \E events \in Lists({"cloud_audit"}, "audit") :
       /\ events = NewestFirst(events)
       /\ Returns(Cut(events, limit))
  /\ UNCHANGED silent

Symptom(kind, t, src) == <<Event(t, kind, TRUE, src)>>

\* The earliest of the times at which a sample exceeds the threshold.
EarliestOf(times) == CHOOSE t \in times : \A u \in times : t <= u
SymptomAt(kind, times, src) ==
  IF times = {} THEN <<>> ELSE Symptom(kind, EarliestOf(times), src)

MetricAnswers ==
  /\ IsTurn("metric")
  /\ \E times \in SUBSET Times : Returns(SymptomAt("metric_breach", times, "metric"))
  /\ UNCHANGED silent

\* The short window first; the long one is asked only when the short is
\* hot.  A query that fails is an error, an empty result is none.
Burn == {"hot", "quiet", "empty", "failed"}
BudgetAnswers ==
  /\ \E short, long \in Burn :
       IF short = "failed" \/ (short = "hot" /\ long = "failed")
       THEN Fails("slo")
       ELSE /\ IsTurn("slo")
            /\ Returns(IF short = "hot" /\ long = "hot" THEN Symptom("budget_burn", Now, "slo") ELSE <<>>)
            /\ UNCHANGED silent

\* The two stores of logs; an error of the second drops what the first found.
LogsAnswer ==
  /\ IsTurn("log")
  /\ \E loki, es \in SUBSET Times :
       Returns(SymptomAt("log_error", loki, "log") \o SymptomAt("log_error", es, "log"))
  /\ UNCHANGED silent

---------------------------------------------------------------------------
(* The ranking.                                                            *)

\* The weights of changeKinds, exp(-dt) and entityMatch, as integers.
Weight == [rollout |-> 10, cloud_audit |-> 8]
Decay == <<10000, 3679, 1353, 498, 183, 67>>
Match(own) == IF own THEN 10 ELSE 6

IsSymptom(e) == e.kind \in SymptomKinds

\* The oldest symptom, the first of the timeline at one time.
EarliestSymptom(events) ==
  LET at == {i \in DOMAIN events : IsSymptom(events[i])}
  IN  IF at = {} THEN 0
      ELSE CHOOSE i \in at :
             \A j \in at : events[i].t < events[j].t \/ (events[i].t = events[j].t /\ i <= j)

\* Variant: a change within the last unit is overlooked.
PrecedesByMore(e, symptom) == e.t + 1 < symptom.t

Precedes(e, symptom) == e.t < symptom.t

SameChange(e, f) == e.kind = f.kind /\ e.own = f.own /\ e.t = f.t

Abs(n) == IF n < 0 THEN -n ELSE n
Score(e, ref) == Weight[e.kind] * Decay[Abs(ref.t - e.t) + 1] * Match(e.own)

\* scoreCauses: the changes that qualify, the first of its duplicates, by
\* score, then by recency, then by place.  With no symptom (at = 0) every
\* change qualifies and the newest event is the reference.
Scored(events, at) ==
  LET ref == IF at = 0 THEN events[1] ELSE events[at]
      fit == {i \in DOMAIN events : /\ events[i].kind \in ChangeKinds
                                    /\ at = 0 \/ Precedes(events[i], ref)}
      first == {i \in fit : \A j \in fit : SameChange(events[i], events[j]) => i <= j}
      score == [i \in fit |-> Score(events[i], ref)]
      better == {p \in first \X first :
                   \/ score[p[1]] > score[p[2]]
                   \/ /\ score[p[1]] = score[p[2]]
                      /\ \/ events[p[1]].t > events[p[2]].t
                         \/ events[p[1]].t = events[p[2]].t /\ p[1] < p[2]}
      order == Arranged(first, better)
  IN  [k \in DOMAIN order |-> [event |-> events[order[k]], score |-> score[order[k]]]]

TopCandidates == 3

\* The sum of up to TopCandidates numbers.
Total(parts) ==
  LET At(k) == IF k \in DOMAIN parts THEN parts[k] ELSE 0
  IN  At(1) + At(2) + At(3)

\* renderRanked: shares of the score of the candidates shown, rounded to
\* whole percents and at least one; a lone candidate has none.
Pool(ranked) == Cut(ranked, TopCandidates)

ShareOf(score, total) ==
  LET pct == (200 * score + total) \div (2 * total) IN IF pct < 1 THEN 1 ELSE pct

Rendered(said, ranked) ==
  LET shown == Cut(ranked, TopCandidates)
      pool == Pool(ranked)
      total == Total([k \in DOMAIN pool |-> pool[k].score])
  IN  [said |-> said,
       shown |-> [k \in DOMAIN shown |-> shown[k].event],
       shares |-> IF Len(ranked) = 1 THEN <<>>
                  ELSE [k \in DOMAIN shown |-> ShareOf(shown[k].score, total)],
       more |-> Len(ranked) - Len(shown)]

CandidateCauses(events) ==
  LET at == EarliestSymptom(events)
      ranked == IF events = <<>> THEN <<>> ELSE Scored(events, at)
  IN  CASE at # 0 /\ ranked # <<>> -> Rendered("ranked", ranked)
        [] at # 0 /\ ranked = <<>> -> [Unanswered EXCEPT !.said = "unexplained"]
        [] at = 0 /\ ranked # <<>> -> Rendered("recent", ranked)
        [] OTHER -> [Unanswered EXCEPT !.said = "no change"]

Answer ==
  /\ asked = Len(Sources) /\ answer = Unanswered
  /\ answer' = IF Len(failures) = Len(Sources)
               THEN [Unanswered EXCEPT !.said = "error"]
               ELSE CandidateCauses(MergeSorted(limit, timeline))
  /\ UNCHANGED <<limit, asked, timeline, failures, silent>>

CorrelateNext ==
  \/ K8sAnswers \/ K8sSilent \/ AuditAnswers \/ MetricAnswers \/ BudgetAnswers \/ LogsAnswer
  \/ \E src \in ToSet(Sources) \ {"slo"} : Fails(src)
  \/ Answer

CorrelateSpec == CorrelateInit /\ [][CorrelateNext]_correlateVars

---------------------------------------------------------------------------
Symptoms == {e \in ToSet(timeline) : IsSymptom(e)}
Changes == {e \in ToSet(timeline) : e.kind \in ChangeKinds}
Before(e) == {c \in Changes : c.t < e.t}
Onset == CHOOSE e \in Symptoms : \A f \in Symptoms : e.t <= f.t
Fits == Len(timeline) <= limit

\* When the tool says that no change precedes the earliest symptom, none of
\* the events that its sources returned does.  This needs a timeline that
\* fits the limit: the cut comes before the ranking, so that newer events
\* may push the cause, and the onset itself, out of what is ranked.
UnexplainedIsSo ==
  answer.said = "unexplained" /\ Fits => Symptoms # {} /\ Before(Onset) = {}

\* The first candidate is a change that explains the onset at least as well
\* as any change that a source returned, however the sources were merged:
\* none scores higher, and a change at the same score is not newer.
LeaderIsBest ==
  answer.said = "ranked" /\ Fits =>
    LET best == answer.shown[1] IN
      /\ best \in Before(Onset)
      /\ \A c \in Before(Onset) :
           \/ Score(c, Onset) < Score(best, Onset)
           \/ Score(c, Onset) = Score(best, Onset) /\ c.t <= best.t

\* Whatever is cut, a candidate is never shown for a symptom that it does
\* not precede, and a change mirrored by two sources is shown once.
ShownArePlausible ==
  /\ answer.said = "ranked" =>
       \E e \in Symptoms : \A k \in DOMAIN answer.shown : answer.shown[k].t < e.t
  /\ \A j, k \in DOMAIN answer.shown :
       j # k => ~SameChange(answer.shown[j], answer.shown[k])

\* The shares of what is shown make about a hundred, however long the tail
\* that is not shown (renderRanked's comment).
SharesNearHundred ==
  answer.shares # <<>> =>
    Len(answer.shares) <= TopCandidates /\ Total(answer.shares) \in 99..102

\* A source that fails takes nothing from what the others found: the tool
\* fails only when all of them did, in which case nothing was found, and says
\* that there is no change, or no symptom, only if none was returned.
PartialAnswers ==
  answer # Unanswered =>
    /\ answer.said = "error" => timeline = <<>>
    /\ ToSet(failures) = ToSet(Sources) => answer.said = "error"
    /\ Fits /\ answer.said \in {"recent", "no change"} => Symptoms = {}
    /\ Fits /\ answer.said = "no change" => Changes = {}

\* The tool says of the sources' events what is true of them.
AnswerIsTrue ==
  /\ CorrelateTypeOK
  /\ UnexplainedIsSo /\ LeaderIsBest /\ ShownArePlausible
  /\ SharesNearHundred /\ PartialAnswers
=============================================================================
