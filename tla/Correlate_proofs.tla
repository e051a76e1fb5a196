-------------------------- MODULE Correlate_proofs --------------------------
(***************************************************************************)
(* The theorem about Correlate, for every window and limit and any number  *)
(* of events that the sources return.                                      *)
(*                                                                         *)
(* Once the answer is given it is what the sources' events determine, so   *)
(* that the theorem is about the merge, the cut, the ranking and the       *)
(* shares of one timeline: each has its lemmas below.                      *)
(***************************************************************************)
EXTENDS Correlate, Ordering_proofs

(***************************************************************************)
(* The inductive invariant.                                                *)
(***************************************************************************)

\* What the tool answers to what its sources returned.
Computed ==
  IF Len(failures) = Len(Sources)
  THEN [Unanswered EXCEPT !.said = "error"]
  ELSE CandidateCauses(MergeSorted(limit, timeline))

Collected ==
  /\ limit \in Limits /\ asked \in 0..Len(Sources)
  /\ timeline \in Seq(Events)
  /\ failures \in Seq(ToSet(Sources)) /\ Len(failures) <= asked
  /\ silent \in BOOLEAN
  /\ Len(failures) = asked => timeline = <<>>

CorrelateInv ==
  /\ Collected
  /\ answer = Unanswered \/ (asked = Len(Sources) /\ answer = Computed)

-----------------------------------------------------------------------------
(***************************************************************************)
(* The merge and the cut.                                                  *)
(***************************************************************************)

LEMMA EventFacts ==
  /\ Now \in Nat /\ Now <= 5 /\ Limits \subseteq Nat \ {0}
  /\ \A e \in Events : e.t \in Nat /\ e.t <= 5 /\ e.t <= Now /\ e.kind \in Kinds5 /\ e.own \in BOOLEAN
  BY CorrelateAssumption DEF Events, Times

LEMMA Nothing ==
  /\ \A S : <<>> \in Seq(S)
  /\ Len(<<>>) = 0
  /\ DOMAIN <<>> = {}
  <1>1. (\A S : <<>> \in Seq(S)) /\ Len(<<>>) = 0
    OBVIOUS
  <1>2. DOMAIN <<>> = 1..Len(<<>>)
    BY <1>1
  <1>3. 1..0 = {}
    OBVIOUS
  <1> QED
    BY <1>1, <1>2, <1>3

LEMMA CutFacts ==
  ASSUME NEW S, NEW s \in Seq(S), NEW n \in Nat
  PROVE  /\ Cut(s, n) \in Seq(S)
         /\ Len(Cut(s, n)) = IF Len(s) > n THEN n ELSE Len(s)
         /\ \A k \in 1..Len(Cut(s, n)) : k \in 1..Len(s) /\ Cut(s, n)[k] = s[k]
         /\ Len(s) <= n => Cut(s, n) = s
  BY DEF Cut

LEMMA MembersAt ==
  ASSUME NEW S, NEW s \in Seq(S)
  PROVE  /\ \A k \in 1..Len(s) : s[k] \in S /\ s[k] \in ToSet(s)
         /\ \A e \in ToSet(s) : e \in S /\ \E k \in 1..Len(s) : s[k] = e
  BY DEF ToSet

LEMMA NewestFirstKeeps ==
  ASSUME NEW events \in Seq(Events)
  PROVE  /\ NewestFirst(events) \in Seq(Events)
         /\ Len(NewestFirst(events)) = Len(events)
         /\ ToSet(NewestFirst(events)) = ToSet(events)
         /\ \A k, l \in 1..Len(events) :
              k < l => NewestFirst(events)[k].t >= NewestFirst(events)[l].t
  <1> DEFINE n == Len(events)
             places == 1..n
             newer == {p \in places \X places :
                         \/ events[p[1]].t > events[p[2]].t
                         \/ events[p[1]].t = events[p[2]].t /\ p[1] < p[2]}
             order == Arranged(places, newer)
             sorted == [k \in 1..n |-> events[order[k]]]
  <1>1. /\ n \in Nat /\ DOMAIN events = places
        /\ \A i \in places : events[i] \in Events /\ events[i].t \in Nat
    BY EventFacts
  <1>2. IsFiniteSet(places) /\ Cardinality(places) = n
    <2> HIDE DEF n
    <2> QED
      BY <1>1, FS_Interval
  <1>3. \A i, j \in places :
          <<i, j>> \in newer <=> events[i].t > events[j].t \/ (events[i].t = events[j].t /\ i < j)
    OBVIOUS
  <1>4. Orders(newer, places)
    <2> HIDE DEF newer
    <2>1. places \subseteq Nat
      OBVIOUS
    <2>2. \A a, b, c : <<a, b>> \in newer /\ <<b, c>> \in newer => a \in places /\ b \in places /\ c \in places
      BY DEF newer
    <2> QED
      BY <1>1, <1>3, <2>1, <2>2 DEF Orders
  <1>5. /\ order \in Seq(places) /\ Len(order) = n /\ DOMAIN order = 1..n
        /\ \A a \in places : \E k \in 1..n : order[k] = a
        /\ \A k, l \in 1..n : k < l => <<order[k], order[l]>> \in newer
    <2> HIDE DEF newer
    <2> QED
      BY <1>2, <1>4, ArrangedInOrder
  <1>6. NewestFirst(events) = sorted
    BY <1>1, <1>5 DEF NewestFirst
  <1> HIDE DEF order
  <1>7. \A k \in 1..n : order[k] \in places
    BY <1>5
  <1>8. sorted \in Seq(Events) /\ Len(sorted) = n /\ \A k \in 1..n : sorted[k] = events[order[k]]
    BY <1>1, <1>7
  <1>9. \A k, l \in 1..n : k < l => sorted[k].t >= sorted[l].t
    <2> TAKE k, l \in 1..n
    <2> HAVE k < l
    <2> DEFINE i == order[k]
               j == order[l]
    <2>1. i \in places /\ j \in places /\ <<i, j>> \in newer
      <3> HIDE DEF newer
      <3> QED
        BY <1>5, <1>7
    <2>2. sorted[k] = events[i] /\ sorted[l] = events[j]
      BY <1>8
    <2> HIDE DEF i, j
    <2>3. events[i].t >= events[j].t
      BY <1>1, <1>3, <2>1
    <2> HIDE DEF sorted
    <2> QED
      BY <2>2, <2>3
  <1> HIDE DEF sorted
  <1>10. ToSet(sorted) = ToSet(events)
    <2>1. ASSUME NEW e \in ToSet(sorted) PROVE e \in ToSet(events)
      BY <1>1, <1>7, <1>8, <2>1, MembersAt
    <2>2. ASSUME NEW e \in ToSet(events) PROVE e \in ToSet(sorted)
      <3>1. PICK i \in places : events[i] = e
        BY <2>2, MembersAt
      <3>2. PICK k \in 1..n : order[k] = i
        BY <1>5
      <3> QED
        BY <1>8, <3>1, <3>2, MembersAt
    <2> QED
      BY <2>1, <2>2
  <1> QED
    BY <1>6, <1>8, <1>9, <1>10

\* What is ranked are events of the sources, and all of them if they fit.
LEMMA MergeFacts ==
  ASSUME NEW events \in Seq(Events), NEW n \in Nat
  PROVE  /\ MergeSorted(n, events) \in Seq(Events)
         /\ ToSet(MergeSorted(n, events)) \subseteq ToSet(events)
         /\ Len(events) <= n => ToSet(MergeSorted(n, events)) = ToSet(events)
  <1> DEFINE s == NewestFirst(events)
  <1>1. s \in Seq(Events) /\ Len(s) = Len(events) /\ ToSet(s) = ToSet(events)
    BY NewestFirstKeeps
  <1> HIDE DEF s
  <1>2. /\ Cut(s, n) \in Seq(Events)
        /\ \A k \in 1..Len(Cut(s, n)) : k \in 1..Len(s) /\ Cut(s, n)[k] = s[k]
        /\ Len(s) <= n => Cut(s, n) = s
    BY <1>1, CutFacts
  <1>3. ToSet(Cut(s, n)) \subseteq ToSet(s)
    BY <1>1, <1>2, MembersAt
  <1> QED
    BY <1>1, <1>2, <1>3 DEF MergeSorted, s

-----------------------------------------------------------------------------
(***************************************************************************)
(* The earliest symptom, and the score of a change before it.              *)
(***************************************************************************)

LEMMA EarliestFacts ==
  ASSUME NEW events \in Seq(Events)
  PROVE  LET at == EarliestSymptom(events)
         IN  /\ at = 0 => \A e \in ToSet(events) : ~IsSymptom(e)
             /\ at # 0 => /\ at \in 1..Len(events) /\ IsSymptom(events[at])
                          /\ \A e \in ToSet(events) : IsSymptom(e) => events[at].t <= e.t
  <1> DEFINE S == {i \in 1..Len(events) : IsSymptom(events[i])}
             sooner == {p \in S \X S :
                          \/ events[p[1]].t < events[p[2]].t
                          \/ events[p[1]].t = events[p[2]].t /\ p[1] < p[2]}
             First(i) == \A j \in S : events[i].t < events[j].t \/ (events[i].t = events[j].t /\ i <= j)
  <1>1. /\ Len(events) \in Nat /\ DOMAIN events = 1..Len(events)
        /\ \A i \in 1..Len(events) : events[i] \in Events /\ events[i].t \in Nat
    BY EventFacts
  <1>2. S \subseteq 1..Len(events) /\ S \subseteq Nat /\ IsFiniteSet(S)
    <2>1. IsFiniteSet(1..Len(events))
      BY <1>1, FS_Interval
    <2> QED
      BY <2>1, FS_Subset
  <1>3. EarliestSymptom(events) = IF S = {} THEN 0 ELSE CHOOSE i \in S : First(i)
    BY <1>1 DEF EarliestSymptom
  <1>4. ASSUME S # {} PROVE \E i \in S : First(i)
    <2>1. \A i, j \in S : <<i, j>> \in sooner <=>
             events[i].t < events[j].t \/ (events[i].t = events[j].t /\ i < j)
      OBVIOUS
    <2> HIDE DEF sooner
    <2>2. \A i \in S : i \in Nat /\ events[i].t \in Nat
      BY <1>1, <1>2
    <2> HIDE DEF S
    <2>3. Orders(sooner, S)
      BY <2>1, <2>2 DEF Orders
    <2>4. PICK i \in S : \A j \in S : j = i \/ <<i, j>> \in sooner
      BY <1>2, <1>4, <2>3, SomeIsFirst
    <2>5. ASSUME NEW j \in S
          PROVE  events[i].t < events[j].t \/ (events[i].t = events[j].t /\ i <= j)
      <3>1. i = j \/ <<i, j>> \in sooner
        BY <2>4
      <3>2. CASE i = j
        BY <2>2, <3>2
      <3>3. CASE <<i, j>> \in sooner
        BY <2>1, <2>2, <3>3
      <3> QED
        BY <3>1, <3>2, <3>3
    <2> QED
      BY <2>5
  <1>5. CASE S = {}
    <2>1. \A k \in 1..Len(events) : ~IsSymptom(events[k])
      BY <1>5
    <2>2. \A e \in ToSet(events) : ~IsSymptom(e)
      BY <2>1, MembersAt
    <2> QED
      BY <1>3, <1>5, <2>2
  <1>6. CASE S # {}
    <2> DEFINE at == EarliestSymptom(events)
    <2>1. at \in S /\ First(at)
      <3> HIDE DEF S, First
      <3> QED
        BY <1>3, <1>4, <1>6
    <2> HIDE DEF at
    <2>2. at \in 1..Len(events) /\ IsSymptom(events[at]) /\ at # 0
      BY <1>1, <2>1
    <2>3. ASSUME NEW e \in ToSet(events), IsSymptom(e) PROVE events[at].t <= e.t
      <3>1. PICK k \in 1..Len(events) : events[k] = e
        BY MembersAt
      <3>2. k \in S
        BY <2>3, <3>1
      <3>3. events[at].t < events[k].t \/ events[at].t = events[k].t
        BY <2>1, <3>2
      <3> QED
        BY <1>1, <2>2, <3>1, <3>3
    <2> QED
      BY <2>2, <2>3 DEF at
  <1> QED
    BY <1>5, <1>6

\* Every change has a positive score, whatever the event it is scored for.
LEMMA ScoreFacts ==
  ASSUME NEW e \in Events, NEW ref \in Events, e.kind \in ChangeKinds
  PROVE  Score(e, ref) \in Nat \ {0}
  <1>1. e.t \in 0..5 /\ ref.t \in 0..5 /\ e.own \in BOOLEAN
    BY EventFacts
  <1>2. Weight[e.kind] \in {8, 10}
    BY DEF Weight, ChangeKinds
  <1> DEFINE d == Abs(ref.t - e.t) + 1
  <1>3. d \in 1..6
    BY <1>1 DEF Abs
  <1> HIDE DEF d
  <1>4. Decay[d] \in {10000, 3679, 1353, 498, 183, 67}
    <2>1. d = 1 \/ d = 2 \/ d = 3 \/ d = 4 \/ d = 5 \/ d = 6
      BY <1>3
    <2> QED
      BY <2>1 DEF Decay
  <1>5. Match(e.own) \in {6, 10}
    BY DEF Match
  <1>6. \A w \in {8, 10} : \A f \in {10000, 3679, 1353, 498, 183, 67} : \A m \in {6, 10} :
          w * f * m \in Nat \ {0}
    OBVIOUS
  <1>7. Score(e, ref) = Weight[e.kind] * Decay[d] * Match(e.own)
    BY DEF Score, d
  <1> QED
    BY <1>2, <1>4, <1>5, <1>6, <1>7

-----------------------------------------------------------------------------
(***************************************************************************)
(* The ranking: the changes that qualify, each once, the best one first.   *)
(***************************************************************************)

Reference(events, at) == IF at = 0 THEN events[1] ELSE events[at]

Qualifies(e, events, at) == e.kind \in ChangeKinds /\ (at = 0 \/ Precedes(e, events[at]))

Entries == [event : Events, score : Nat \ {0}]

\* What is ranked is the timeline, each of its changes or its mirror image.
RankedOf(ranked, events, at) ==
  /\ ranked \in Seq(Entries)
  /\ \A k \in 1..Len(ranked) :
       /\ ranked[k].event \in ToSet(events) /\ Qualifies(ranked[k].event, events, at)
       /\ ranked[k].score = Score(ranked[k].event, Reference(events, at))
  /\ \A e \in ToSet(events) : Qualifies(e, events, at) =>
       \E k \in 1..Len(ranked) : SameChange(ranked[k].event, e)

LEMMA SameChangeSameScore ==
  ASSUME NEW e, NEW f, NEW ref, SameChange(e, f)
  PROVE  Score(e, ref) = Score(f, ref) /\ e.t = f.t
  BY DEF SameChange, Score

LEMMA ScoredFacts ==
  ASSUME NEW events \in Seq(Events), NEW at \in 0..Len(events), Len(events) # 0
  PROVE  LET ranked == Scored(events, at)
         IN  /\ RankedOf(ranked, events, at)
             /\ \A k, l \in 1..Len(ranked) :
                  /\ k # l => ~SameChange(ranked[k].event, ranked[l].event)
                  /\ k < l => \/ ranked[k].score > ranked[l].score
                              \/ /\ ranked[k].score = ranked[l].score
                                 /\ ranked[k].event.t >= ranked[l].event.t
  <1> DEFINE ref == Reference(events, at)
             places == 1..Len(events)
             fit == {i \in places : Qualifies(events[i], events, at)}
             first == {i \in fit : \A j \in fit : SameChange(events[i], events[j]) => i <= j}
             score == [i \in fit |-> Score(events[i], ref)]
             better == {p \in first \X first :
                          \/ score[p[1]] > score[p[2]]
                          \/ /\ score[p[1]] = score[p[2]]
                             /\ \/ events[p[1]].t > events[p[2]].t
                                \/ events[p[1]].t = events[p[2]].t /\ p[1] < p[2]}
             order == Arranged(first, better)
             n == Cardinality(first)
             ranked == [k \in 1..n |-> [event |-> events[order[k]], score |-> score[order[k]]]]
  <1>1. /\ Len(events) \in Nat /\ DOMAIN events = places /\ places \subseteq Nat
        /\ \A i \in places : events[i] \in Events /\ events[i].t \in Nat
        /\ ref \in Events
    BY EventFacts DEF Reference
  <1>2. /\ first \subseteq fit /\ fit \subseteq places /\ IsFiniteSet(places)
        /\ IsFiniteSet(first)
    <2>1. IsFiniteSet(places)
      BY <1>1, FS_Interval
    <2>2. first \subseteq fit /\ fit \subseteq places
      OBVIOUS
    <2> HIDE DEF first, fit, places
    <2> QED
      BY <2>1, <2>2, FS_Subset
  <1>3. ASSUME NEW i \in fit
        PROVE  /\ i \in places /\ Qualifies(events[i], events, at)
               /\ score[i] = Score(events[i], ref) /\ score[i] \in Nat \ {0}
    <2>1. i \in places /\ Qualifies(events[i], events, at)
      OBVIOUS
    <2>2. events[i] \in Events /\ events[i].kind \in ChangeKinds
      BY <1>1, <2>1 DEF Qualifies
    <2>3. Score(events[i], ref) \in Nat \ {0}
      <3> HIDE DEF ref
      <3> QED
        BY <1>1, <2>2, ScoreFacts
    <2> QED
      BY <2>1, <2>3
  <1>4. \A i, j \in first : SameChange(events[i], events[j]) => i = j
    <2>1. \A i, j \in first : SameChange(events[i], events[j]) => i <= j /\ j <= i
      BY <1>2 DEF SameChange
    <2>2. \A i \in first : i \in Nat
      BY <1>1, <1>2
    <2> HIDE DEF first
    <2> QED
      BY <2>1, <2>2
  <1>5. ASSUME NEW i \in fit PROVE \E j \in first : SameChange(events[j], events[i])
    <2> DEFINE T == {j \in fit : SameChange(events[j], events[i])}
               below == {p \in T \X T : p[1] < p[2]}
    <2>1. T \subseteq fit /\ T \subseteq Nat /\ i \in T
      BY <1>1, <1>2 DEF SameChange
    <2>2. IsFiniteSet(T)
      <3> HIDE DEF T, fit, places
      <3> QED
        BY <1>2, <2>1, FS_Subset
    <2>3. \A a, b \in T : <<a, b>> \in below <=> a < b
      OBVIOUS
    <2>4. \E j \in T : \A k \in T : k = j \/ j < k
      <3> HIDE DEF T, below, fit
      <3>1. \A a \in T : a \in Nat
        BY <2>1
      <3>2. Orders(below, T)
        BY <2>3, <3>1 DEF Orders
      <3>3. PICK j \in T : \A k \in T : k = j \/ <<j, k>> \in below
        BY <2>1, <2>2, <3>2, SomeIsFirst
      <3> QED
        BY <2>3, <3>3
    <2>5. PICK j \in T : \A k \in T : k = j \/ j < k
      BY <2>4
    <2>6. j \in fit /\ SameChange(events[j], events[i])
      OBVIOUS
    <2>7. ASSUME NEW k \in fit, SameChange(events[j], events[k]) PROVE j <= k
      <3>1. SameChange(events[k], events[i])
        BY <2>6, <2>7 DEF SameChange
      <3>2. k \in T
        BY <3>1
      <3>3. j \in Nat /\ k \in Nat
        BY <2>1, <3>2
      <3> HIDE DEF T
      <3> QED
        BY <2>5, <3>2, <3>3
    <2>8. j \in first
      <3> HIDE DEF fit
      <3> QED
        BY <2>6, <2>7
    <2> QED
      BY <2>6, <2>8
  <1>6. \A i, j \in first : <<i, j>> \in better <=>
          \/ score[i] > score[j]
          \/ /\ score[i] = score[j]
             /\ events[i].t > events[j].t \/ (events[i].t = events[j].t /\ i < j)
    OBVIOUS
  <1>7. \A i \in first : i \in Nat /\ score[i] \in Nat /\ events[i].t \in Nat
    <2> HIDE DEF first, fit, score
    <2> QED
      BY <1>1, <1>2, <1>3
  <1>8. Orders(better, first)
    <2> HIDE DEF better, first, score
    <2>1. \A a \in first : <<a, a>> \notin better
      BY <1>6, <1>7
    <2>2. ASSUME NEW a \in first, NEW b \in first, NEW c \in first,
                 <<a, b>> \in better, <<b, c>> \in better
          PROVE  <<a, c>> \in better
      <3>1. /\ a \in Nat /\ b \in Nat /\ c \in Nat
            /\ score[a] \in Nat /\ score[b] \in Nat /\ score[c] \in Nat
            /\ events[a].t \in Nat /\ events[b].t \in Nat /\ events[c].t \in Nat
        BY <1>7
      <3>2. \/ score[a] > score[b]
            \/ /\ score[a] = score[b]
               /\ events[a].t > events[b].t \/ (events[a].t = events[b].t /\ a < b)
        BY <1>6, <2>2
      <3>3. \/ score[b] > score[c]
            \/ /\ score[b] = score[c]
               /\ events[b].t > events[c].t \/ (events[b].t = events[c].t /\ b < c)
        BY <1>6, <2>2
      <3>4. \/ score[a] > score[c]
            \/ /\ score[a] = score[c]
               /\ events[a].t > events[c].t \/ (events[a].t = events[c].t /\ a < c)
        <4>1. CASE score[a] > score[b] \/ score[b] > score[c]
          BY <3>1, <3>2, <3>3, <4>1
        <4>2. CASE score[a] = score[b] /\ score[b] = score[c]
          BY <3>1, <3>2, <3>3, <4>2
        <4> QED
          BY <3>1, <3>2, <3>3, <4>1, <4>2
      <3> QED
        BY <1>6, <3>4
    <2>3. ASSUME NEW a \in first, NEW b \in first
          PROVE  a = b \/ <<a, b>> \in better \/ <<b, a>> \in better
      <3>1. /\ a \in Nat /\ b \in Nat /\ score[a] \in Nat /\ score[b] \in Nat
            /\ events[a].t \in Nat /\ events[b].t \in Nat
        BY <1>7
      <3> QED
        BY <1>6, <3>1
    <2> QED
      BY <2>1, <2>2, <2>3 DEF Orders
  <1>9. /\ n \in Nat /\ order \in Seq(first) /\ Len(order) = n /\ DOMAIN order = 1..n
        /\ \A a \in first : \E k \in 1..n : order[k] = a
        /\ \A k, l \in 1..n : /\ k < l => <<order[k], order[l]>> \in better
                              /\ k # l => order[k] # order[l]
    <2> HIDE DEF better, first
    <2> QED
      BY <1>2, <1>8, ArrangedInOrder
  <1>10. Scored(events, at) = ranked
    <2>1. fit = {i \in DOMAIN events : /\ events[i].kind \in ChangeKinds
                                       /\ at = 0 \/ Precedes(events[i], events[at])}
      BY <1>1 DEF Qualifies
    <2>2. (at = 0 \/ Precedes(events[1], events[at])) \in BOOLEAN
      BY DEF Precedes
    <2>3. fit = {i \in DOMAIN events : /\ events[i].kind \in ChangeKinds
                                       /\ at = 0 \/ Precedes(events[i], ref)}
      BY <1>1 DEF Qualifies, Reference
    <2>4. Scored(events, at) = [k \in DOMAIN order |-> [event |-> events[order[k]], score |-> score[order[k]]]]
      <3> HIDE DEF fit
      <3> QED
        BY <2>3 DEF Scored, Reference
    <2> QED
      <3> HIDE DEF order, score
      <3> QED
        BY <1>9, <2>4
  <1> HIDE DEF order, n
  <1>11. \A k \in 1..n : order[k] \in first
    BY <1>9
  <1>12. ASSUME NEW k \in 1..n
         PROVE  /\ ranked[k] \in Entries
                /\ ranked[k].event = events[order[k]] /\ ranked[k].score = score[order[k]]
                /\ ranked[k].event \in ToSet(events) /\ Qualifies(ranked[k].event, events, at)
                /\ ranked[k].score = Score(ranked[k].event, ref)
    <2> DEFINE i == order[k]
    <2>1. i \in fit
      BY <1>2, <1>11
    <2>2. ranked[k] = [event |-> events[i], score |-> score[i]]
      OBVIOUS
    <2> HIDE DEF i, ranked, fit, score
    <2>3. /\ i \in places /\ Qualifies(events[i], events, at)
          /\ score[i] = Score(events[i], ref) /\ score[i] \in Nat \ {0}
      BY <1>3, <2>1
    <2>4. events[i] \in Events /\ events[i] \in ToSet(events)
      BY <1>1, <2>3, MembersAt
    <2>5. ranked[k].event = events[i] /\ ranked[k].score = score[i]
      BY <2>2
    <2>6. ranked[k] \in Entries
      BY <2>2, <2>3, <2>4 DEF Entries
    <2> QED
      BY <2>3, <2>4, <2>5, <2>6 DEF i
  <1>13. ranked \in Seq(Entries) /\ Len(ranked) = n
    <2>1. ranked \in [1..n -> Entries]
      BY <1>12
    <2> HIDE DEF ranked
    <2> QED
      BY <1>9, <2>1
  <1> HIDE DEF ranked
  <1>14. ASSUME NEW e \in ToSet(events), Qualifies(e, events, at)
         PROVE  \E k \in 1..n : SameChange(ranked[k].event, e)
    <2>1. PICK i \in places : events[i] = e
      BY MembersAt
    <2>2. i \in fit
      BY <1>14, <2>1
    <2>3. PICK j \in first : SameChange(events[j], events[i])
      <3> HIDE DEF first, fit
      <3> QED
        BY <1>5, <2>2
    <2>4. PICK k \in 1..n : order[k] = j
      <3> HIDE DEF first
      <3> QED
        BY <1>9, <2>3
    <2> QED
      BY <1>12, <2>1, <2>3, <2>4
  <1>15. RankedOf(ranked, events, at)
    <2> HIDE DEF first, fit, score
    <2> QED
      BY <1>12, <1>13, <1>14 DEF RankedOf
  <1>16. ASSUME NEW k \in 1..n, NEW l \in 1..n
         PROVE  /\ k # l => ~SameChange(ranked[k].event, ranked[l].event)
                /\ k < l => \/ ranked[k].score > ranked[l].score
                            \/ /\ ranked[k].score = ranked[l].score
                               /\ ranked[k].event.t >= ranked[l].event.t
    <2> DEFINE i == order[k]
               j == order[l]
    <2>1. i \in first /\ j \in first
      BY <1>11
    <2>2. /\ k < l => <<i, j>> \in better
          /\ k # l => i # j
      <3> HIDE DEF better
      <3> QED
        BY <1>9
    <2>3. /\ ranked[k].event = events[i] /\ ranked[k].score = score[i]
          /\ ranked[l].event = events[j] /\ ranked[l].score = score[j]
      BY <1>12
    <2> HIDE DEF i, j, first, better, score, fit
    <2>4. k # l => ~SameChange(events[i], events[j])
      BY <1>4, <2>1, <2>2
    <2>5. k < l => \/ score[i] > score[j]
                   \/ score[i] = score[j] /\ events[i].t >= events[j].t
      BY <1>6, <1>7, <2>1, <2>2
    <2> QED
      BY <2>3, <2>4, <2>5
  <1> QED
    <2> HIDE DEF first, fit, score, better
    <2> QED
      BY <1>10, <1>13, <1>15, <1>16

-----------------------------------------------------------------------------
(***************************************************************************)
(* The shares.                                                             *)
(***************************************************************************)

LEMMA Product ==
  ASSUME NEW a \in Nat, NEW b \in Nat
  PROVE  /\ a * b \in Nat
         /\ a * (b + 1) = a * b + a
         /\ 2 * (a * b) = (2 * a) * b
  OBVIOUS

LEMMA ProductGrows ==
  ASSUME NEW a \in Nat, NEW b \in Nat, NEW c \in Nat, a <= b
  PROVE  c * a <= c * b
  OBVIOUS

LEMMA ProductDistributes ==
  ASSUME NEW a \in Nat, NEW b \in Nat, NEW c \in Nat, NEW d \in Nat
  PROVE  d * (a + b + c) = d * a + d * b + d * c
  OBVIOUS

LEMMA Quotient ==
  ASSUME NEW n \in Nat, NEW d \in Nat \ {0}
  PROVE  n \div d \in Nat /\ d * (n \div d) <= n /\ n < d * ((n \div d) + 1)
  OBVIOUS

\* A share is rounded to the nearest percent (p), and up to one if that is none.
LEMMA OneShare ==
  ASSUME NEW s \in Nat, NEW total \in Nat \ {0}
  PROVE  \E p \in Nat :
           /\ ShareOf(s, total) = IF p = 0 THEN 1 ELSE p
           /\ 2 * (total * p) <= 200 * s + total
           /\ 200 * s + total < 2 * (total * p) + 2 * total
  <1> DEFINE n == 200 * s + total
             d == 2 * total
             p == n \div d
  <1>1. n \in Nat /\ d \in Nat \ {0}
    OBVIOUS
  <1>2. p \in Nat /\ d * p <= n /\ n < d * (p + 1)
    <2> HIDE DEF n, d
    <2> QED
      BY <1>1, Quotient
  <1>3. ShareOf(s, total) = IF p < 1 THEN 1 ELSE p
    BY DEF ShareOf
  <1> HIDE DEF p
  <1>4. d * p = 2 * (total * p) /\ d * (p + 1) = 2 * (total * p) + 2 * total
    <2>1. d * p = 2 * (total * p) /\ d * p \in Nat
      BY <1>2, Product
    <2>2. d * (p + 1) = d * p + d
      <3> HIDE DEF d
      <3> QED
        BY <1>1, <1>2, Product
    <2> QED
      BY <2>1, <2>2
  <1>5. ShareOf(s, total) = IF p = 0 THEN 1 ELSE p
    BY <1>2, <1>3
  <1> HIDE DEF d
  <1>6. 2 * (total * p) <= n /\ n < 2 * (total * p) + 2 * total
    BY <1>2, <1>4
  <1> QED
    BY <1>2, <1>5, <1>6 DEF n

\* Two or three shares make about a hundred: each is off by half a percent
\* at most, and at most two of them are raised to one.
LEMMA SharesOfThree ==
  ASSUME NEW a \in Nat \ {0}, NEW b \in Nat \ {0}, NEW c \in Nat
  PROVE  LET total == a + b + c
             sum == ShareOf(a, total) + ShareOf(b, total)
         IN  /\ c = 0 => sum \in 99..102
             /\ c # 0 => sum + ShareOf(c, total) \in 99..102
  <1> DEFINE T == a + b + c
  <1>1. T \in Nat \ {0} /\ T = a + b + c
    OBVIOUS
  <1> HIDE DEF T
  <1>2. PICK p \in Nat : /\ ShareOf(a, T) = IF p = 0 THEN 1 ELSE p
                         /\ 2 * (T * p) <= 200 * a + T
                         /\ 200 * a + T < 2 * (T * p) + 2 * T
    BY <1>1, OneShare
  <1>3. PICK q \in Nat : /\ ShareOf(b, T) = IF q = 0 THEN 1 ELSE q
                         /\ 2 * (T * q) <= 200 * b + T
                         /\ 200 * b + T < 2 * (T * q) + 2 * T
    BY <1>1, OneShare
  <1>4. PICK r \in Nat : /\ ShareOf(c, T) = IF r = 0 THEN 1 ELSE r
                         /\ 2 * (T * r) <= 200 * c + T
                         /\ 200 * c + T < 2 * (T * r) + 2 * T
    BY <1>1, OneShare
  <1>5. T * p \in Nat /\ T * q \in Nat /\ T * r \in Nat
    BY <1>1, Product
  <1>6. ASSUME NEW x \in Nat, NEW k \in Nat, T * x < T * k PROVE x < k
    <2>1. T * x \in Nat /\ T * k \in Nat
      BY <1>1, Product
    <2>2. k <= x => T * k <= T * x
      BY <1>1, ProductGrows
    <2> QED
      BY <1>6, <2>1, <2>2
  <1>7. T * (p + q + 0) = T * p + T * q + T * 0 /\ T * 0 = 0
    BY <1>1, ProductDistributes
  <1>8. T * (p + q + r) = T * p + T * q + T * r
    BY <1>1, ProductDistributes
  <1>9. T * 99 = 99 * T /\ T * 100 = 100 * T /\ T * 101 = 101 * T /\ T * 102 = 102 * T /\ T * 98 = 98 * T
    BY <1>1
  <1>10. p < 101 /\ q < 101 /\ r < 101
    <2>1. T * p < T * 101
      BY <1>1, <1>2, <1>5, <1>9
    <2>2. T * q < T * 101
      BY <1>1, <1>3, <1>5, <1>9
    <2>3. T * r < T * 101
      BY <1>1, <1>4, <1>5, <1>9
    <2> QED
      BY <1>6, <2>1, <2>2, <2>3
  <1>11. CASE c = 0
    <2>1. T * p + T * q < T * 102
      BY <1>1, <1>2, <1>3, <1>5, <1>9, <1>11
    <2>2. T * 99 < T * p + T * q
      BY <1>1, <1>2, <1>3, <1>5, <1>9, <1>11
    <2>3. p + q < 102 /\ 99 < p + q
      <3>1. p + q + 0 \in Nat /\ p + q + 0 = p + q
        OBVIOUS
      <3>2. T * (p + q) = T * p + T * q
        BY <1>5, <1>7, <3>1
      <3> QED
        BY <1>6, <2>1, <2>2, <3>1, <3>2
    <2> QED
      BY <1>2, <1>3, <1>10, <1>11, <2>3 DEF T
  <1>12. CASE c # 0
    <2>1. T * p + T * q + T * r < T * 102
      BY <1>1, <1>2, <1>3, <1>4, <1>5, <1>9
    <2>2. T * 98 < T * p + T * q + T * r
      BY <1>1, <1>2, <1>3, <1>4, <1>5, <1>9
    <2>3. p + q + r < 102 /\ 98 < p + q + r
      BY <1>6, <1>8, <2>1, <2>2
    <2> QED
      BY <1>2, <1>3, <1>4, <1>10, <1>12, <2>3 DEF T
  <1> QED
    BY <1>11, <1>12

\* What is shown of a ranking, and its shares.
LEMMA RenderedFacts ==
  ASSUME NEW ranked \in Seq(Entries), NEW said
  PROVE  LET result == Rendered(said, ranked)
         IN  /\ result.said = said
             /\ Len(result.shown) = IF Len(ranked) > TopCandidates THEN TopCandidates ELSE Len(ranked)
             /\ DOMAIN result.shown = 1..Len(result.shown)
             /\ \A k \in DOMAIN result.shown : k \in 1..Len(ranked) /\ result.shown[k] = ranked[k].event
             /\ result.shares # <<>> =>
                  Len(result.shares) <= TopCandidates /\ Total(result.shares) \in 99..102
  <1> DEFINE pool == Cut(ranked, TopCandidates)
             m == Len(pool)
             scores == [k \in DOMAIN pool |-> pool[k].score]
             total == Total(scores)
             shown == [k \in DOMAIN pool |-> pool[k].event]
             shares == [k \in DOMAIN pool |-> ShareOf(pool[k].score, total)]
             result == Rendered(said, ranked)
  <1>1. /\ pool \in Seq(Entries) /\ m = IF Len(ranked) > 3 THEN 3 ELSE Len(ranked)
        /\ \A k \in 1..m : k \in 1..Len(ranked) /\ pool[k] = ranked[k]
    BY CutFacts DEF TopCandidates
  <1>2. /\ result.said = said /\ result.shown = shown
        /\ result.shares = IF Len(ranked) = 1 THEN <<>> ELSE shares
    BY DEF Rendered, Pool
  <1> HIDE DEF pool, result
  <1>3. pool \in Seq(Entries) /\ m \in Nat /\ DOMAIN pool = 1..m /\ Len(ranked) \in Nat
    <2>1. pool \in Seq(Entries)
      BY <1>1
    <2> QED
      BY <2>1
  <1>4. ASSUME NEW k \in 1..m PROVE pool[k].score \in Nat \ {0} /\ pool[k].event \in Events
    <2>1. pool[k] \in Entries
      BY <1>3
    <2> QED
      BY <2>1 DEF Entries
  <1>5. /\ shown \in Seq(Events) /\ Len(shown) = m /\ DOMAIN shown = 1..m
        /\ \A k \in 1..m : shown[k] = ranked[k].event /\ k \in 1..Len(ranked)
    <2>1. shown \in [1..m -> Events]
      BY <1>3, <1>4
    <2>2. \A k \in 1..m : shown[k] = ranked[k].event /\ k \in 1..Len(ranked)
      BY <1>1, <1>3
    <2> HIDE DEF shown, m
    <2> QED
      BY <1>3, <2>1, <2>2
  <1>6. DOMAIN scores = 1..m /\ DOMAIN shares = 1..m
    BY <1>3
  <1>7. ASSUME Len(ranked) # 1, m = 0 PROVE shares = <<>>
    BY <1>6, <1>7
  <1>8. ASSUME Len(ranked) # 1, m # 0
        PROVE  Len(shares) = m /\ m <= 3 /\ Total(shares) \in 99..102
    <2>1. m = 2 \/ m = 3
      <3> HIDE DEF m
      <3>1. m = IF Len(ranked) > 3 THEN 3 ELSE Len(ranked)
        BY <1>1
      <3>2. \A x, y \in Nat : y # 1 /\ x # 0 /\ x = (IF y > 3 THEN 3 ELSE y) => x = 2 \/ x = 3
        OBVIOUS
      <3>3. m \in Nat /\ Len(ranked) \in Nat /\ m # 0 /\ Len(ranked) # 1
        BY <1>3, <1>8
      <3> QED
        BY <3>1, <3>2, <3>3
    <2> DEFINE a == pool[1].score
               b == pool[2].score
               c == IF m = 3 THEN pool[3].score ELSE 0
    <2>2. a \in Nat \ {0} /\ b \in Nat \ {0} /\ c \in Nat /\ (c = 0 <=> m = 2)
      BY <1>4, <2>1
    <2>3. total = a + b + c
      BY <1>3, <1>6, <2>1, <2>2 DEF Total
    <2>4. /\ shares[1] = ShareOf(a, total) /\ shares[2] = ShareOf(b, total)
          /\ m = 3 => shares[3] = ShareOf(c, total)
      BY <1>3, <2>1
    <2>5. Len(shares) = m
      <3>1. shares \in [1..m -> {shares[k] : k \in 1..m}]
        BY <1>3
      <3> HIDE DEF shares, m
      <3> QED
        BY <1>3, <3>1
    <2> HIDE DEF a, b, c, total
    <2>6. /\ c = 0 => ShareOf(a, total) + ShareOf(b, total) \in 99..102
          /\ c # 0 => ShareOf(a, total) + ShareOf(b, total) + ShareOf(c, total) \in 99..102
      BY <2>2, <2>3, SharesOfThree
    <2> HIDE DEF shares
    <2>7. CASE m = 2
      <3>1. ShareOf(a, total) + ShareOf(b, total) \in 99..102
        BY <2>2, <2>6, <2>7
      <3>2. Total(shares) = shares[1] + shares[2] + 0
        BY <1>6, <2>7 DEF Total
      <3>3. ShareOf(a, total) \in Nat /\ ShareOf(b, total) \in Nat
        <4>1. total \in Nat \ {0}
          BY <2>2, <2>3
        <4>2. \A x \in Nat : ShareOf(x, total) \in Nat
          <5> TAKE x \in Nat
          <5>1. PICK p \in Nat : ShareOf(x, total) = IF p = 0 THEN 1 ELSE p
            BY <4>1, OneShare
          <5> QED
            BY <5>1
        <4> QED
          BY <2>2, <4>2
      <3> QED
        BY <2>4, <2>5, <2>7, <3>1, <3>2, <3>3
    <2>8. CASE m = 3
      <3>1. Total(shares) = shares[1] + shares[2] + shares[3]
        BY <1>6, <2>8 DEF Total
      <3> QED
        BY <2>2, <2>4, <2>5, <2>6, <2>8, <3>1
    <2> QED
      BY <2>1, <2>7, <2>8
  <1> HIDE DEF shares, shown
  <1> QED
    BY <1>1, <1>2, <1>5, <1>7, <1>8 DEF TopCandidates, result

-----------------------------------------------------------------------------
(***************************************************************************)
(* What is said of one timeline.                                           *)
(***************************************************************************)

\* The ranking of a timeline, of none if it is empty.
RankingOf(events) == IF events = <<>> THEN <<>> ELSE Scored(events, EarliestSymptom(events))

LEMMA RankingFacts ==
  ASSUME NEW events \in Seq(Events)
  PROVE  LET at == EarliestSymptom(events)
             ranked == RankingOf(events)
         IN  /\ at \in 0..Len(events)
             /\ RankedOf(ranked, events, at)
             /\ \A k, l \in 1..Len(ranked) :
                  /\ k # l => ~SameChange(ranked[k].event, ranked[l].event)
                  /\ k < l => \/ ranked[k].score > ranked[l].score
                              \/ /\ ranked[k].score = ranked[l].score
                                 /\ ranked[k].event.t >= ranked[l].event.t
  <1>1. EarliestSymptom(events) \in 0..Len(events)
    BY EarliestFacts
  <1>2. CASE events = <<>>
    <2>1. RankingOf(events) = <<>> /\ ToSet(events) = {}
      BY <1>2 DEF RankingOf, ToSet
    <2> QED
      BY <1>1, <2>1 DEF RankedOf
  <1>3. CASE events # <<>>
    <2>1. Len(events) # 0 /\ RankingOf(events) = Scored(events, EarliestSymptom(events))
      BY <1>3 DEF RankingOf
    <2> QED
      BY <1>1, <2>1, ScoredFacts
  <1> QED
    BY <1>2, <1>3

\* The four answers, by what there is.
LEMMA CausesFacts ==
  ASSUME NEW events
  PROVE  LET at == EarliestSymptom(events)
             ranked == RankingOf(events)
             says == CandidateCauses(events)
         IN  /\ at # 0 /\ ranked # <<>> => says = Rendered("ranked", ranked)
             /\ at # 0 /\ ranked = <<>> => says = [Unanswered EXCEPT !.said = "unexplained"]
             /\ at = 0 /\ ranked # <<>> => says = Rendered("recent", ranked)
             /\ at = 0 /\ ranked = <<>> => says = [Unanswered EXCEPT !.said = "no change"]
  BY DEF CandidateCauses, RankingOf

\* No other event of a source is a symptom before the onset.
LEMMA OnsetFacts ==
  ASSUME NEW symptoms \in SUBSET Events, NEW e \in symptoms, \A f \in symptoms : e.t <= f.t
  PROVE  LET onset == CHOOSE x \in symptoms : \A f \in symptoms : x.t <= f.t
         IN  onset \in symptoms /\ onset.t = e.t
  <1> DEFINE onset == CHOOSE x \in symptoms : \A f \in symptoms : x.t <= f.t
  <1>1. onset \in symptoms /\ \A f \in symptoms : onset.t <= f.t
    OBVIOUS
  <1> HIDE DEF onset
  <1>2. onset.t <= e.t /\ e.t <= onset.t /\ onset.t \in Nat /\ e.t \in Nat
    BY <1>1, EventFacts
  <1>3. onset.t = e.t
    BY <1>2
  <1> QED
    BY <1>1, <1>3 DEF onset

\* Five sources fail in five failures only.
LEMMA AllFailed ==
  ASSUME failures \in Seq(ToSet(Sources)), Len(failures) <= Len(Sources),
         ToSet(failures) = ToSet(Sources)
  PROVE  Len(failures) = Len(Sources)
  <1>1. Len(Sources) = 5 /\ Len(failures) \in Nat
    BY DEF Sources
  <1>2. \A src \in {"k8s", "audit", "metric", "slo", "log"} : src \in ToSet(Sources)
    <2>1. \A k \in 1..5 : Sources[k] \in ToSet(Sources)
      BY DEF ToSet, Sources
    <2>2. /\ Sources[1] = "k8s" /\ Sources[2] = "audit" /\ Sources[3] = "metric"
          /\ Sources[4] = "slo" /\ Sources[5] = "log"
      BY DEF Sources
    <2> QED
      BY <2>1, <2>2
  <1>3. \A src \in {"k8s", "audit", "metric", "slo", "log"} :
          \E k \in 1..Len(failures) : failures[k] = src
    <2>1. \A src \in ToSet(failures) : \E k \in 1..Len(failures) : failures[k] = src
      <3> DEFINE S == ToSet(Sources)
      <3>1. failures \in Seq(S)
        OBVIOUS
      <3> HIDE DEF S
      <3> QED
        BY <3>1, MembersAt
    <2>2. \A src \in {"k8s", "audit", "metric", "slo", "log"} : src \in ToSet(failures)
      BY <1>2
    <2> TAKE src \in {"k8s", "audit", "metric", "slo", "log"}
    <2>3. src \in ToSet(failures)
      BY <2>2
    <2> QED
      BY <2>1, <2>3
  <1>4. ASSUME Len(failures) < 5 PROVE FALSE
    <2>1. \A src \in {"k8s", "audit", "metric", "slo", "log"} :
            src = failures[1] \/ src = failures[2] \/ src = failures[3] \/ src = failures[4]
      <3> TAKE src \in {"k8s", "audit", "metric", "slo", "log"}
      <3>1. PICK k \in 1..Len(failures) : failures[k] = src
        BY <1>3
      <3>2. \A n \in Nat : n < 5 => \A i \in 1..n : i = 1 \/ i = 2 \/ i = 3 \/ i = 4
        OBVIOUS
      <3>3. k = 1 \/ k = 2 \/ k = 3 \/ k = 4
        BY <1>1, <1>4, <3>2
      <3> QED
        BY <3>1, <3>3
    <2> QED
      BY <2>1
  <1>5. \A n \in Nat : n <= 5 /\ ~(n < 5) => n = 5
    OBVIOUS
  <1>6. Len(failures) <= 5 /\ ~(Len(failures) < 5)
    BY <1>1, <1>4
  <1> QED
    BY <1>1, <1>5, <1>6

LEMMA ComputedIsTrue ==
  ASSUME CorrelateAssumption, Collected, asked = Len(Sources), answer = Computed
  PROVE  AnswerIsTrue
  <1> DEFINE M == MergeSorted(limit, timeline)
             at == EarliestSymptom(M)
             ranked == RankingOf(M)
  <1>1. /\ timeline \in Seq(Events) /\ limit \in Nat /\ Len(timeline) \in Nat
        /\ failures \in Seq(ToSet(Sources)) /\ Len(failures) <= Len(Sources)
    BY CorrelateAssumption DEF Collected
  <1>2. M \in Seq(Events) /\ ToSet(M) \subseteq ToSet(timeline) /\ (Fits => ToSet(M) = ToSet(timeline))
    BY <1>1, MergeFacts DEF Fits
  <1>3. ToSet(timeline) \subseteq Events
    BY <1>1, MembersAt
  <1>4. CASE Len(failures) = Len(Sources)
    <2>1. /\ answer.said = "error" /\ answer.shown = <<>> /\ answer.shares = <<>>
      BY <1>4 DEF Computed, Unanswered
    <2>2. timeline = <<>>
      BY <1>4 DEF Collected
    <2> QED
      BY <2>1, <2>2 DEF AnswerIsTrue, CorrelateTypeOK, Collected, UnexplainedIsSo, LeaderIsBest,
                       ShownArePlausible, SharesNearHundred, PartialAnswers
  <1>5. CASE Len(failures) # Len(Sources)
    <2>1. answer = CandidateCauses(M)
      BY <1>5 DEF Computed
    <2>2. ToSet(failures) # ToSet(Sources)
      BY <1>1, <1>5, AllFailed
    <2> HIDE DEF M
    <2>3. /\ at \in 0..Len(M) /\ Len(M) \in Nat
          /\ RankedOf(ranked, M, at)
          /\ \A k, l \in 1..Len(ranked) :
               /\ k # l => ~SameChange(ranked[k].event, ranked[l].event)
               /\ k < l => \/ ranked[k].score > ranked[l].score
                           \/ /\ ranked[k].score = ranked[l].score
                              /\ ranked[k].event.t >= ranked[l].event.t
      BY <1>2, RankingFacts
    <2>4. /\ at = 0 => \A e \in ToSet(M) : ~IsSymptom(e)
          /\ at # 0 => /\ at \in 1..Len(M) /\ IsSymptom(M[at])
                       /\ \A e \in ToSet(M) : IsSymptom(e) => M[at].t <= e.t
      BY <1>2, EarliestFacts
    <2>5. /\ at # 0 /\ ranked # <<>> => answer = Rendered("ranked", ranked)
          /\ at # 0 /\ ranked = <<>> => answer = [Unanswered EXCEPT !.said = "unexplained"]
          /\ at = 0 /\ ranked # <<>> => answer = Rendered("recent", ranked)
          /\ at = 0 /\ ranked = <<>> => answer = [Unanswered EXCEPT !.said = "no change"]
      BY <2>1, CausesFacts
    <2> HIDE DEF at, ranked
    <2>6. /\ ranked \in Seq(Entries) /\ Len(ranked) \in Nat
          /\ \A k \in 1..Len(ranked) :
               /\ ranked[k].event \in ToSet(M) /\ Qualifies(ranked[k].event, M, at)
               /\ ranked[k].event.kind \in ChangeKinds /\ ranked[k].event \in Events
               /\ ranked[k].score = Score(ranked[k].event, Reference(M, at))
          /\ \A e \in ToSet(M) : Qualifies(e, M, at) =>
               \E k \in 1..Len(ranked) : SameChange(ranked[k].event, e)
      BY <1>2, <1>3, <2>3 DEF RankedOf, Qualifies
    <2>7. ASSUME ranked # <<>>, NEW said, answer = Rendered(said, ranked)
          PROVE  /\ answer.said = said /\ Len(ranked) >= 1
                 /\ 1 \in DOMAIN answer.shown
                 /\ \A k \in DOMAIN answer.shown : k \in 1..Len(ranked) /\ answer.shown[k] = ranked[k].event
                 /\ SharesNearHundred
      <3>1. /\ answer.said = said
            /\ Len(answer.shown) = IF Len(ranked) > TopCandidates THEN TopCandidates ELSE Len(ranked)
            /\ DOMAIN answer.shown = 1..Len(answer.shown)
            /\ \A k \in DOMAIN answer.shown : k \in 1..Len(ranked) /\ answer.shown[k] = ranked[k].event
            /\ answer.shares # <<>> =>
                 Len(answer.shares) <= TopCandidates /\ Total(answer.shares) \in 99..102
        BY <2>6, <2>7, RenderedFacts
      <3>2. Len(ranked) >= 1
        BY <2>6, <2>7
      <3>3. 1 \in DOMAIN answer.shown
        <4>1. Len(answer.shown) \in Nat /\ Len(answer.shown) >= 1
          BY <2>6, <3>1, <3>2 DEF TopCandidates
        <4> QED
          BY <3>1, <4>1
      <3> QED
        BY <3>1, <3>2, <3>3 DEF SharesNearHundred
    <2>8. ASSUME at # 0
          PROVE  /\ M[at] \in Symptoms
                 /\ Fits => Onset \in Symptoms /\ Onset.t = M[at].t
      <3>1. M[at] \in ToSet(M) /\ M[at] \in Events /\ M[at] \in Symptoms
        BY <1>2, <2>4, <2>8, MembersAt DEF Symptoms
      <3>2. ASSUME Fits PROVE Onset \in Symptoms /\ Onset.t = M[at].t
        <4>1. \A f \in Symptoms : M[at].t <= f.t
          BY <1>2, <2>4, <2>8, <3>2 DEF Symptoms
        <4>2. Symptoms \in SUBSET Events
          BY <1>3 DEF Symptoms
        <4> QED
          BY <3>1, <4>1, <4>2, OnsetFacts DEF Onset
      <3> QED
        BY <3>1, <3>2
    <2>9. ASSUME at # 0, Fits, NEW c \in Before(Onset)
          PROVE  c \in ToSet(M) /\ Qualifies(c, M, at) /\ c.kind \in ChangeKinds
      BY <1>2, <2>8, <2>9 DEF Before, Changes, Qualifies, Precedes
    <2>10. ASSUME at = 0, Fits PROVE Symptoms = {}
      BY <1>2, <2>4, <2>10 DEF Symptoms
    <2>11. CASE at # 0 /\ ranked # <<>>
      <3>1. /\ answer.said = "ranked" /\ Len(ranked) >= 1 /\ 1 \in DOMAIN answer.shown
            /\ \A k \in DOMAIN answer.shown : k \in 1..Len(ranked) /\ answer.shown[k] = ranked[k].event
            /\ SharesNearHundred
        BY <2>5, <2>7, <2>11
      <3>2. ShownArePlausible
        <4>1. \A k \in DOMAIN answer.shown : answer.shown[k].t < M[at].t
          BY <2>6, <2>11, <3>1 DEF Qualifies, Precedes
        <4>2. \A j, k \in DOMAIN answer.shown : j # k => ~SameChange(answer.shown[j], answer.shown[k])
          BY <2>3, <3>1
        <4> QED
          BY <2>8, <2>11, <4>1, <4>2 DEF ShownArePlausible
      <3>3. ASSUME Fits
            PROVE  LET best == answer.shown[1] IN
                     /\ best \in Before(Onset)
                     /\ \A c \in Before(Onset) :
                          \/ Score(c, Onset) < Score(best, Onset)
                          \/ Score(c, Onset) = Score(best, Onset) /\ c.t <= best.t
        <4> DEFINE best == ranked[1].event
        <4>1. 1 \in 1..Len(ranked) /\ answer.shown[1] = best
          BY <2>6, <3>1
        <4>2. /\ best \in ToSet(M) /\ best \in Events /\ best.kind \in ChangeKinds /\ best.t < M[at].t
              /\ ranked[1].score = Score(best, Reference(M, at))
          BY <2>6, <2>11, <4>1 DEF Qualifies, Precedes
        <4>3. best \in Before(Onset)
          BY <1>2, <2>8, <2>11, <3>3, <4>2 DEF Before, Changes
        <4>4. \A e : Score(e, Onset) = Score(e, Reference(M, at))
          BY <2>8, <2>11, <3>3 DEF Score, Reference
        <4>5. ASSUME NEW c \in Before(Onset)
              PROVE  \/ Score(c, Onset) < Score(best, Onset)
                     \/ Score(c, Onset) = Score(best, Onset) /\ c.t <= best.t
          <5>1. PICK k \in 1..Len(ranked) : SameChange(ranked[k].event, c)
            BY <2>6, <2>9, <2>11, <3>3
          <5>2. /\ ranked[k].score = Score(c, Onset) /\ ranked[k].event.t = c.t
                /\ ranked[1].score = Score(best, Onset)
            BY <2>6, <4>2, <4>4, <5>1, SameChangeSameScore
          <5>3. /\ ranked[k] \in Entries /\ ranked[1] \in Entries
                /\ ranked[k].score \in Nat /\ ranked[1].score \in Nat
                /\ ranked[k].event.t \in Nat /\ best.t \in Nat
            <6>1. ranked[k] \in Entries /\ ranked[1] \in Entries
              BY <2>6, <4>1
            <6>2. \A x \in Entries : x.score \in Nat /\ x.event \in Events
              BY DEF Entries
            <6> QED
              BY <6>1, <6>2, EventFacts
          <5>4. CASE k = 1
            BY <5>2, <5>3, <5>4
          <5>5. CASE k # 1
            <6>1. 1 < k
              BY <5>5
            <6>2. \/ ranked[1].score > ranked[k].score
                  \/ ranked[1].score = ranked[k].score /\ ranked[1].event.t >= ranked[k].event.t
              BY <2>3, <4>1, <6>1
            <6> QED
              BY <5>2, <5>3, <6>2
          <5> QED
            BY <5>4, <5>5
        <4> QED
          BY <4>1, <4>3, <4>5
      <3>4. LeaderIsBest
        BY <3>3 DEF LeaderIsBest
      <3> QED
        BY <2>2, <3>1, <3>2, <3>4 DEF AnswerIsTrue, CorrelateTypeOK, Collected, UnexplainedIsSo, PartialAnswers
    <2>12. CASE at # 0 /\ ranked = <<>>
      <3>1. answer.said = "unexplained" /\ answer.shown = <<>> /\ answer.shares = <<>>
        BY <2>5, <2>12 DEF Unanswered
      <3>2. ASSUME Fits PROVE Symptoms # {} /\ Before(Onset) = {}
        BY <2>6, <2>8, <2>9, <2>12, <3>2
      <3> QED
        BY <2>2, <3>1, <3>2 DEF AnswerIsTrue, CorrelateTypeOK, Collected, UnexplainedIsSo, LeaderIsBest,
                               ShownArePlausible, SharesNearHundred, PartialAnswers
    <2>13. CASE at = 0 /\ ranked # <<>>
      <3>1. /\ answer.said = "recent"
            /\ \A k \in DOMAIN answer.shown : k \in 1..Len(ranked) /\ answer.shown[k] = ranked[k].event
            /\ SharesNearHundred
        BY <2>5, <2>7, <2>13
      <3>2. \A j, k \in DOMAIN answer.shown : j # k => ~SameChange(answer.shown[j], answer.shown[k])
        BY <2>3, <3>1
      <3> QED
        BY <2>2, <2>10, <2>13, <3>1, <3>2
           DEF AnswerIsTrue, CorrelateTypeOK, Collected, UnexplainedIsSo, LeaderIsBest,
               ShownArePlausible, PartialAnswers
    <2>14. CASE at = 0 /\ ranked = <<>>
      <3>1. answer.said = "no change" /\ answer.shown = <<>> /\ answer.shares = <<>>
        BY <2>5, <2>14 DEF Unanswered
      <3>2. ASSUME Fits PROVE Changes = {}
        BY <1>2, <2>6, <2>14, <3>2 DEF Changes, Qualifies
      <3>3. UnexplainedIsSo /\ LeaderIsBest /\ SharesNearHundred
        BY <3>1 DEF UnexplainedIsSo, LeaderIsBest, SharesNearHundred
      <3>6. ShownArePlausible
        <4>1. DOMAIN answer.shown = {}
          BY <3>1, Nothing
        <4> QED
          BY <3>1, <4>1 DEF ShownArePlausible
      <3>4. PartialAnswers
        BY <2>2, <2>10, <2>14, <3>1, <3>2 DEF PartialAnswers
      <3>5. CorrelateTypeOK
        BY <3>1 DEF CorrelateTypeOK, Collected
      <3> QED
        BY <3>3, <3>4, <3>5, <3>6 DEF AnswerIsTrue
    <2> QED
      BY <2>11, <2>12, <2>13, <2>14
  <1> QED
    BY <1>4, <1>5

-----------------------------------------------------------------------------
(***************************************************************************)
(* The invariant, step by step.                                            *)
(***************************************************************************)

LEMMA InvAnswersTruly ==
  ASSUME CorrelateInv
  PROVE  AnswerIsTrue
  <1>1. CASE answer = Unanswered
    <2>1. answer.said = "nothing yet" /\ answer.shown = <<>> /\ answer.shares = <<>>
      BY <1>1 DEF Unanswered
    <2>2. UnexplainedIsSo /\ LeaderIsBest /\ SharesNearHundred
      BY <2>1 DEF UnexplainedIsSo, LeaderIsBest, SharesNearHundred
    <2>4. ShownArePlausible
      <3>1. DOMAIN answer.shown = {}
        BY <2>1, Nothing
      <3> QED
        BY <2>1, <3>1 DEF ShownArePlausible
    <2>3. CorrelateTypeOK /\ PartialAnswers
      BY <1>1, <2>1 DEF CorrelateInv, Collected, CorrelateTypeOK, PartialAnswers
    <2> QED
      BY <2>2, <2>3, <2>4 DEF AnswerIsTrue
  <1>2. CASE asked = Len(Sources) /\ answer = Computed
    BY <1>2, CorrelateAssumption, ComputedIsTrue DEF CorrelateInv
  <1> QED
    BY <1>1, <1>2 DEF CorrelateInv

\* A source that answers.
LEMMA Returning ==
  ASSUME CorrelateInv, asked < Len(Sources), NEW events \in Seq(Events), Returns(events),
         silent' \in BOOLEAN
  PROVE  CorrelateInv'
  <1>1. Len(Sources) = 5
    BY DEF Sources
  <1>2. /\ timeline' \in Seq(Events) /\ asked' \in 0..5 /\ Len(failures) <= asked /\ asked < 5
        /\ asked' = asked + 1 /\ asked \in Nat /\ Len(failures) \in Nat
    BY <1>1 DEF CorrelateInv, Collected, Returns
  <1>3. Collected'
    BY <1>1, <1>2 DEF CorrelateInv, Collected, Returns
  <1>4. answer = Unanswered
    BY <1>1, <1>2 DEF CorrelateInv
  <1> QED
    BY <1>3, <1>4 DEF CorrelateInv, Returns

LEMMA Failing ==
  ASSUME CorrelateInv, NEW src \in ToSet(Sources), Fails(src)
  PROVE  CorrelateInv'
  <1>1. Len(Sources) = 5
    BY DEF Sources
  <1>2. /\ asked' \in 0..5 /\ Len(failures) <= asked /\ asked < 5
        /\ asked' = asked + 1 /\ asked \in Nat /\ Len(failures) \in Nat
        /\ failures' \in Seq(ToSet(Sources)) /\ Len(failures') = Len(failures) + 1
    BY <1>1 DEF CorrelateInv, Collected, Fails, IsTurn
  <1>3. Collected'
    BY <1>1, <1>2 DEF CorrelateInv, Collected, Fails
  <1>4. answer = Unanswered
    BY <1>1, <1>2 DEF CorrelateInv
  <1> QED
    BY <1>3, <1>4 DEF CorrelateInv, Fails

\* What the sources return are events.
LEMMA ListsAreEvents ==
  ASSUME NEW kinds, NEW src, NEW events \in Lists(kinds, src), NEW n \in Limits
  PROVE  Cut(events, n) \in Seq(Events)
  <1>1. PICK m \in 0..MaxListed : events \in [1..m -> Events]
    BY DEF Lists
  <1>2. m \in Nat
    BY <1>1, CorrelateAssumption DEF CorrelateAssumption
  <1>3. events \in Seq(Events) /\ n \in Nat
    BY <1>1, <1>2, EventFacts
  <1> QED
    BY <1>3, CutFacts

LEMMA SymptomsAreEvents ==
  ASSUME NEW kind \in SymptomKinds, NEW src \in ToSet(Sources)
  PROVE  /\ \A t \in Times : Symptom(kind, t, src) \in Seq(Events)
         /\ \A times \in SUBSET Times : SymptomAt(kind, times, src) \in Seq(Events)
  <1>1. \A t \in Times : Symptom(kind, t, src) \in Seq(Events)
    BY DEF Symptom, Event, Events, Kinds5
  <1>2. ASSUME NEW times \in SUBSET Times PROVE SymptomAt(kind, times, src) \in Seq(Events)
    <2>1. CASE times = {}
      BY <2>1 DEF SymptomAt
    <2>2. CASE times # {}
      <3> DEFINE below == {p \in times \X times : p[1] < p[2]}
      <3>1. times \subseteq Nat /\ IsFiniteSet(times)
        <4>1. Now \in Nat /\ IsFiniteSet(0..Now)
          BY CorrelateAssumption, FS_Interval DEF CorrelateAssumption
        <4>2. times \subseteq 0..Now
          BY DEF Times
        <4>3. IsFiniteSet(times)
          BY <4>1, <4>2, FS_Subset
        <4>4. times \subseteq Nat
          BY <4>1, <4>2
        <4> QED
          BY <4>3, <4>4
      <3>2. \A a, b \in times : <<a, b>> \in below <=> a < b
        OBVIOUS
      <3> HIDE DEF below
      <3>3. Orders(below, times)
        BY <3>1, <3>2 DEF Orders
      <3>4. PICK t \in times : \A u \in times : u = t \/ <<t, u>> \in below
        BY <2>2, <3>1, <3>3, SomeIsFirst
      <3>5. ASSUME NEW u \in times PROVE t <= u
        <4>1. t \in Nat /\ u \in Nat
          BY <3>1
        <4>2. u = t \/ t < u
          BY <3>2, <3>4
        <4> QED
          BY <4>1, <4>2
      <3>6. EarliestOf(times) \in times
        BY <3>5 DEF EarliestOf
      <3> QED
        BY <1>1, <2>2, <3>6 DEF SymptomAt
    <2> QED
      BY <2>1, <2>2
  <1> QED
    BY <1>1, <1>2

LEMMA InvNext ==
  ASSUME CorrelateInv, CorrelateNext
  PROVE  CorrelateInv'
  <1>0. /\ \A t \in Times : t \in Nat /\ t <= Now
        /\ \A src \in {"k8s", "audit", "metric", "slo", "log"} : src \in ToSet(Sources)
        /\ Now \in Times
        /\ limit \in Limits /\ silent \in BOOLEAN
    <2>1. \A k \in 1..5 : Sources[k] \in ToSet(Sources)
      BY DEF ToSet, Sources
    <2>2. /\ Sources[1] = "k8s" /\ Sources[2] = "audit" /\ Sources[3] = "metric"
          /\ Sources[4] = "slo" /\ Sources[5] = "log"
      BY DEF Sources
    <2>3. Now \in Nat /\ Times = 0..Now
      BY EventFacts DEF Times
    <2>4. limit \in Limits /\ silent \in BOOLEAN
      BY DEF CorrelateInv, Collected
    <2> QED
      BY <2>1, <2>2, <2>3, <2>4
  <1>1. CASE K8sAnswers
    <2>1. PICK events \in Lists({"rollout", "event"}, "k8s") : Returns(Cut(events, limit))
      BY <1>1 DEF K8sAnswers
    <2> QED
      BY <1>0, <1>1, <2>1, ListsAreEvents, Returning DEF K8sAnswers, IsTurn
  <1>2. CASE K8sSilent
    <2>1. Returns(<<>>) /\ silent' \in BOOLEAN /\ asked < Len(Sources) /\ <<>> \in Seq(Events)
      BY <1>2, Nothing DEF K8sSilent, IsTurn
    <2> QED
      BY <2>1, Returning
  <1>3. CASE AuditAnswers
    <2>1. PICK events \in Lists({"cloud_audit"}, "audit") : Returns(Cut(events, limit))
      BY <1>3 DEF AuditAnswers
    <2> QED
      BY <1>0, <1>3, <2>1, ListsAreEvents, Returning DEF AuditAnswers, IsTurn
  <1>4. CASE MetricAnswers
    <2>1. PICK times \in SUBSET Times : Returns(SymptomAt("metric_breach", times, "metric"))
      BY <1>4 DEF MetricAnswers
    <2>2. SymptomAt("metric_breach", times, "metric") \in Seq(Events)
      BY <1>0, SymptomsAreEvents DEF SymptomKinds
    <2> QED
      BY <1>0, <1>4, <2>1, <2>2, Returning DEF MetricAnswers, IsTurn
  <1>5. CASE BudgetAnswers
    <2>1. PICK short, long \in Burn :
            \/ Fails("slo")
            \/ /\ IsTurn("slo")
               /\ Returns(IF short = "hot" /\ long = "hot" THEN Symptom("budget_burn", Now, "slo") ELSE <<>>)
               /\ UNCHANGED silent
      BY <1>5 DEF BudgetAnswers
    <2>2. CASE Fails("slo")
      BY <1>0, <2>2, Failing
    <2>3. CASE /\ IsTurn("slo")
               /\ Returns(IF short = "hot" /\ long = "hot" THEN Symptom("budget_burn", Now, "slo") ELSE <<>>)
               /\ UNCHANGED silent
      <3>1. Symptom("budget_burn", Now, "slo") \in Seq(Events)
        BY <1>0, SymptomsAreEvents DEF SymptomKinds
      <3>2. asked < Len(Sources) /\ silent' \in BOOLEAN /\ <<>> \in Seq(Events)
        BY <1>0, <2>3, Nothing DEF IsTurn
      <3>3. \/ Returns(Symptom("budget_burn", Now, "slo"))
            \/ Returns(<<>>)
        BY <2>3
      <3> QED
        BY <3>1, <3>2, <3>3, Returning
    <2> QED
      BY <2>1, <2>2, <2>3
  <1>6. CASE LogsAnswer
    <2>1. PICK loki, es \in SUBSET Times :
            Returns(SymptomAt("log_error", loki, "log") \o SymptomAt("log_error", es, "log"))
      BY <1>6 DEF LogsAnswer
    <2>2. /\ SymptomAt("log_error", loki, "log") \in Seq(Events)
          /\ SymptomAt("log_error", es, "log") \in Seq(Events)
      BY <1>0, SymptomsAreEvents DEF SymptomKinds
    <2>3. SymptomAt("log_error", loki, "log") \o SymptomAt("log_error", es, "log") \in Seq(Events)
      BY <2>2
    <2> QED
      BY <1>0, <1>6, <2>1, <2>3, Returning DEF LogsAnswer, IsTurn
  <1>7. CASE \E src \in ToSet(Sources) \ {"slo"} : Fails(src)
    BY <1>7, Failing
  <1>8. CASE Answer
    <2>1. answer' = Computed' /\ Collected' /\ asked' = Len(Sources)
      BY <1>8 DEF Answer, Computed, CorrelateInv, Collected
    <2> QED
      BY <2>1 DEF CorrelateInv
  <1> QED
    BY <1>1, <1>2, <1>3, <1>4, <1>5, <1>6, <1>7, <1>8 DEF CorrelateNext

\* What the tool says of the changes and the symptoms its sources returned
\* is true: an unexplained symptom has no change before it, the first
\* candidate is a best one, every candidate precedes a symptom and is shown
\* once, the shares make about a hundred, and a source that fails takes
\* nothing from the others (internal/core/tools/correlate).
THEOREM AnswersAreTrue == CorrelateSpec => []AnswerIsTrue
  <1>1. CorrelateInit => CorrelateInv
    <2> SUFFICES ASSUME CorrelateInit PROVE CorrelateInv
      OBVIOUS
    <2>1. Len(Sources) = 5
      BY DEF Sources
    <2> QED
      <3>1. <<>> \in Seq(Events) /\ <<>> \in Seq(ToSet(Sources)) /\ Len(<<>>) = 0
        BY Nothing
      <3>2. /\ limit \in Limits /\ asked = 0 /\ timeline = <<>> /\ failures = <<>>
            /\ silent = FALSE /\ answer = Unanswered
        BY DEF CorrelateInit
      <3>3. Len(failures) <= asked /\ asked \in 0..Len(Sources)
        BY <2>1, <3>1, <3>2
      <3>4. Collected
        BY <3>1, <3>2, <3>3 DEF Collected
      <3> QED
        BY <3>2, <3>4 DEF CorrelateInv
  <1>2. CorrelateInv /\ [CorrelateNext]_correlateVars => CorrelateInv'
    <2> SUFFICES ASSUME CorrelateInv, [CorrelateNext]_correlateVars PROVE CorrelateInv'
      OBVIOUS
    <2>1. CASE CorrelateNext
      BY <2>1, InvNext
    <2>2. CASE UNCHANGED correlateVars
      BY <2>2 DEF correlateVars, CorrelateInv, Collected, Computed
    <2> QED
      BY <2>1, <2>2
  <1>3. CorrelateInv => AnswerIsTrue
    BY InvAnswersTruly
  <1> QED
    BY <1>1, <1>2, <1>3, PTL DEF CorrelateSpec
=============================================================================
