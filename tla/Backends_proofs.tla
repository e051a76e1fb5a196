-------------------------- MODULE Backends_proofs --------------------------
(***************************************************************************)
(* The theorems about the three places where the process meets a backend.  *)
(* Fallback: for any number of callers and candidates, any threshold and   *)
(* window, and any length of a stream.  DbTunnels: for any number of       *)
(* overlapping builds and of endpoints, whichever of them share a name or  *)
(* are reached by a tunnel.  ToolStream: for any number of calls, any      *)
(* length of their arguments, and any style and cut of the stream.         *)
(***************************************************************************)
EXTENDS Fallback, DbTunnels, ToolStream, FiniteSetTheorems, SequenceTheorems, TLAPS

-----------------------------------------------------------------------------
(***************************************************************************)
(* Fallback.  OutageBounded is about the failures a breaker has recorded; a *)
(* caller that has passed the check may still add one.  The invariant counts *)
(* the two together.  OpenIsRecent rests on the stamps being in order, which *)
(* pruneLocked takes for granted when it stops at the first recent one.    *)
(***************************************************************************)

Stamps == Seq(0..EndOfTime)

\* Stamps in the order of the clock, none from the future.
InOrder(s) ==
  /\ \A i, j \in 1..Len(s) : i <= j => s[i] <= s[j]
  /\ \A i \in 1..Len(s) : s[i] <= clock

StampsInOrder == \A c \in Candidates : InOrder(failures[c])

\* A stream belongs to a request that has found its candidate.
StreamsOwned ==
  \A r \in Callers : /\ parsing[r] => outOpen[r]
                     /\ outOpen[r] => pc[r] = "stream"

\* The callers that may still charge candidate c.
Chargers(c) == {r \in Callers : cand[r] = c /\ (pc[r] = "call" \/ parsing[r])}

ChargesBounded ==
  \A c \in Candidates :
    Len(failures[c]) + Cardinality(Chargers(c))
      <= Threshold - 1 + Cardinality(Callers)

FallbackInv == FallbackTypeOK /\ StampsInOrder /\ StreamsOwned /\ ChargesBounded

-----------------------------------------------------------------------------
(***************************************************************************)
(* Sequences of stamps.                                                    *)
(***************************************************************************)

\* The stamps that pruneLocked keeps.
KeptOf(s) == {i \in 1..Len(s) : \E j \in 1..i : Recent(s[j])}

\* There are no more of them than stamps.
LEMMA KeptCounted ==
  ASSUME NEW s \in Stamps
  PROVE  /\ Cardinality(KeptOf(s)) \in 0..Len(s) /\ IsFiniteSet(KeptOf(s))
  <1>1. Len(s) \in Nat
    BY DEF Stamps
  <1>2. /\ IsFiniteSet(1..Len(s))
        /\ Cardinality(1..Len(s)) = IF 1 > Len(s) THEN 0 ELSE Len(s) - 1 + 1
    BY <1>1, FS_Interval
  <1>3. Cardinality(1..Len(s)) = Len(s)
    BY <1>1, <1>2
  <1>4. KeptOf(s) \in SUBSET (1..Len(s))
    BY DEF KeptOf
  <1>5. IsFiniteSet(KeptOf(s)) /\ Cardinality(KeptOf(s)) <= Len(s)
    BY <1>2, <1>3, <1>4, FS_Subset
  <1> QED
    BY <1>1, <1>5, FS_CardinalityType

\* Pruning cuts a sequence from the front.
LEMMA PrunedIsSuffix ==
  ASSUME NEW s \in Stamps
  PROVE  /\ Pruned(s) \in Stamps
         /\ Len(Pruned(s)) = Cardinality(KeptOf(s))
         /\ \E k \in 0..Len(s) :
              /\ Len(Pruned(s)) = Len(s) - k
              /\ \A i \in 1..(Len(s) - k) : Pruned(s)[i] = s[k + i]
  <1> DEFINE n == Len(s)
             k == Len(s) - Cardinality(KeptOf(s))
  <1>1. n \in Nat /\ k \in 0..n /\ Cardinality(KeptOf(s)) = n - k
        /\ Cardinality(KeptOf(s)) \in Nat
    BY KeptCounted DEF Stamps
  <1>2. Pruned(s) = SubSeq(s, k + 1, n)
    BY DEF Pruned, KeptOf
  <1> HIDE DEF n, k
  <1>3. \A i \in (k + 1)..n : s[i] \in 0..EndOfTime
    <2>1. \A i \in 1..n : s[i] \in 0..EndOfTime
      BY FallbackAssumption DEF Stamps, n
    <2>2. \A i \in (k + 1)..n : i \in 1..n
      BY <1>1
    <2> QED
      BY <2>1, <2>2
  <1>4. /\ SubSeq(s, k + 1, n) \in Seq(0..EndOfTime)
        /\ Len(SubSeq(s, k + 1, n)) = IF k + 1 <= n THEN n - (k + 1) + 1 ELSE 0
        /\ \A i \in 1..(n - (k + 1) + 1) : SubSeq(s, k + 1, n)[i] = s[(k + 1) + i - 1]
    <2>1. k + 1 \in Int /\ n \in Int
      BY <1>1
    <2> QED
      BY <1>3, <2>1, SubSeqProperties
  <1>5. Len(Pruned(s)) = n - k
    BY <1>1, <1>2, <1>4
  <1>6. \A i \in 1..(n - k) : Pruned(s)[i] = s[k + i]
    <2> SUFFICES ASSUME NEW i \in 1..(n - k)
                 PROVE  Pruned(s)[i] = s[k + i]
      OBVIOUS
    <2>1. i \in 1..(n - (k + 1) + 1) /\ (k + 1) + i - 1 = k + i
      BY <1>1
    <2> QED
      BY <1>2, <1>4, <2>1
  <1>7. Pruned(s) \in Stamps
    BY <1>2, <1>4 DEF Stamps
  <1> QED
    BY <1>1, <1>5, <1>6, <1>7 DEF n

LEMMA PrunedInOrder ==
  ASSUME NEW s \in Stamps, InOrder(s)
  PROVE  Pruned(s) \in Stamps /\ InOrder(Pruned(s)) /\ Len(Pruned(s)) <= Len(s)
  <1>1. PICK k \in 0..Len(s) :
          /\ Len(Pruned(s)) = Len(s) - k
          /\ \A i \in 1..(Len(s) - k) : Pruned(s)[i] = s[k + i]
    BY PrunedIsSuffix
  <1>2. Len(s) \in Nat
    BY DEF Stamps
  <1>3. \A i \in 1..Len(Pruned(s)) : k + i \in 1..Len(s) /\ Pruned(s)[i] = s[k + i]
    BY <1>1, <1>2
  <1>4. \A i, j \in 1..Len(Pruned(s)) : i <= j => k + i <= k + j
    BY <1>1, <1>2
  <1>5. InOrder(Pruned(s))
    BY <1>3, <1>4 DEF InOrder
  <1> QED
    BY <1>1, <1>2, <1>5, PrunedIsSuffix

\* A failure recorded now is the youngest.
LEMMA ChargedInOrder ==
  ASSUME NEW s \in Stamps, InOrder(s), clock \in 0..EndOfTime, EndOfTime \in Nat
  PROVE  /\ Pruned(Append(s, clock)) \in Stamps
         /\ InOrder(Pruned(Append(s, clock)))
         /\ Len(Pruned(Append(s, clock))) <= Len(s) + 1
  <1> DEFINE t == Append(s, clock)
  <1>1. /\ t \in Stamps /\ Len(t) = Len(s) + 1 /\ Len(s) \in Nat
        /\ t[Len(s) + 1] = clock
        /\ \A i \in 1..Len(s) : t[i] = s[i] /\ s[i] \in 0..EndOfTime
    BY DEF Stamps
  <1> HIDE DEF t
  <1>2. InOrder(t)
    <2>1. \A i \in 1..Len(t) : t[i] <= clock
      BY <1>1 DEF InOrder
    <2>2. ASSUME NEW i \in 1..Len(t), NEW j \in 1..Len(t), i <= j
          PROVE  t[i] <= t[j]
      <3>1. CASE j = Len(s) + 1
        BY <1>1, <2>1, <3>1
      <3>2. CASE j # Len(s) + 1
        <4>1. i \in 1..Len(s) /\ j \in 1..Len(s)
          BY <1>1, <2>2, <3>2
        <4> QED
          BY <1>1, <2>2, <4>1 DEF InOrder
      <3> QED
        BY <3>1, <3>2
    <2> QED
      BY <2>1, <2>2 DEF InOrder
  <1>3. Pruned(t) \in Stamps /\ InOrder(Pruned(t)) /\ Len(Pruned(t)) <= Len(t)
    BY <1>1, <1>2, PrunedInOrder
  <1> QED
    BY <1>1, <1>3 DEF t

\* Stamps in order: what pruneLocked keeps is what is recent.
LEMMA KeptAreRecent ==
  ASSUME NEW s \in Stamps, InOrder(s), clock \in Nat
  PROVE  KeptOf(s) = {i \in DOMAIN s : Recent(s[i])}
  <1>1. Len(s) \in Nat /\ DOMAIN s = 1..Len(s) /\ \A i \in 1..Len(s) : s[i] \in Int
    BY FallbackAssumption DEF Stamps
  <1>2. ASSUME NEW i \in 1..Len(s), NEW j \in 1..i, Recent(s[j])
        PROVE  Recent(s[i])
    <2>1. j \in 1..Len(s) /\ s[j] <= s[i]
      BY <1>1 DEF InOrder
    <2> QED
      BY <1>1, <1>2, <2>1, FallbackAssumption DEF Recent
  <1>3. ASSUME NEW i \in 1..Len(s), Recent(s[i])
        PROVE  i \in KeptOf(s)
    BY <1>1, <1>3 DEF KeptOf
  <1> QED
    BY <1>1, <1>2, <1>3 DEF KeptOf

-----------------------------------------------------------------------------
(***************************************************************************)
(* Counting those who may still charge a candidate.                        *)
(***************************************************************************)

LEMMA ChargersCounted ==
  ASSUME NEW c
  PROVE  /\ IsFiniteSet(Chargers(c)) /\ Cardinality(Chargers(c)) \in Nat
         /\ Cardinality(Chargers(c)) <= Cardinality(Callers)
         /\ IsFiniteSet(Callers) /\ Cardinality(Callers) \in Nat
  <1>1. IsFiniteSet(Callers) /\ Chargers(c) \in SUBSET Callers
    BY FallbackAssumption DEF Chargers
  <1>2. IsFiniteSet(Chargers(c)) /\ Cardinality(Chargers(c)) <= Cardinality(Callers)
    BY <1>1, FS_Subset
  <1> QED
    BY <1>1, <1>2, FS_CardinalityType

\* The same after a step.
LEMMA ChargersCountedNext ==
  ASSUME NEW c
  PROVE  /\ Cardinality(Chargers(c)') \in Nat
         /\ Cardinality(Chargers(c)') <= Cardinality(Callers)
  <1>1. IsFiniteSet(Callers) /\ Chargers(c)' \in SUBSET Callers
    BY FallbackAssumption DEF Chargers
  <1>2. IsFiniteSet(Chargers(c)') /\ Cardinality(Chargers(c)') <= Cardinality(Callers)
    BY <1>1, FS_Subset
  <1> QED
    BY <1>2, FS_CardinalityType

\* A candidate with no more stamps and no more callers on their way to it.
LEMMA ChargesKept ==
  ASSUME NEW c \in Candidates, ChargesBounded,
         Len(failures[c]) \in Nat, Len(failures'[c]) \in Nat,
         Len(failures'[c]) <= Len(failures[c]),
         Chargers(c)' \subseteq Chargers(c)
  PROVE  Len(failures'[c]) + Cardinality(Chargers(c)')
           <= Threshold - 1 + Cardinality(Callers)
  <1>1. Cardinality(Chargers(c)') <= Cardinality(Chargers(c))
    BY ChargersCounted, FS_Subset
  <1>2. Len(failures[c]) + Cardinality(Chargers(c))
          <= Threshold - 1 + Cardinality(Callers)
    BY DEF ChargesBounded
  <1> QED
    BY <1>1, <1>2, ChargersCounted, ChargersCountedNext, FallbackAssumption

\* A caller that charges the candidate is not on its way any more.
LEMMA ChargeSpent ==
  ASSUME NEW c \in Candidates, ChargesBounded, NEW r \in Chargers(c),
         Len(failures[c]) \in Nat, Len(failures'[c]) \in Nat,
         Len(failures'[c]) <= Len(failures[c]) + 1,
         Chargers(c)' \subseteq Chargers(c) \ {r}
  PROVE  Len(failures'[c]) + Cardinality(Chargers(c)')
           <= Threshold - 1 + Cardinality(Callers)
  <1>1. /\ IsFiniteSet(Chargers(c) \ {r})
        /\ Cardinality(Chargers(c) \ {r}) = Cardinality(Chargers(c)) - 1
    BY ChargersCounted, FS_RemoveElement
  <1>2. Cardinality(Chargers(c)') <= Cardinality(Chargers(c) \ {r})
    BY <1>1, FS_Subset
  <1>3. Len(failures[c]) + Cardinality(Chargers(c))
          <= Threshold - 1 + Cardinality(Callers)
    BY DEF ChargesBounded
  <1> QED
    BY <1>1, <1>2, <1>3, ChargersCounted, ChargersCountedNext, FallbackAssumption

-----------------------------------------------------------------------------
(***************************************************************************)
(* The breakers under a step.                                              *)
(***************************************************************************)

\* The state of the breakers is well typed, and what a step may make of one.
BreakersOK ==
  /\ failures \in [Candidates -> Stamps]
  /\ StampsInOrder

\* The failures of c are left alone, pruned, or joined by one of now.
LEMMA BreakersPruned ==
  ASSUME FallbackInv, clock' = clock, NEW c \in Candidates,
         failures' = [failures EXCEPT ![c] = Pruned(@)]
  PROVE  /\ BreakersOK'
         /\ \A d \in Candidates : Len(failures'[d]) \in Nat
                                  /\ Len(failures'[d]) <= Len(failures[d])
  <1>1. failures \in [Candidates -> Stamps]
    BY DEF FallbackInv, FallbackTypeOK, Stamps
  <1>2. failures[c] \in Stamps /\ InOrder(failures[c])
    BY <1>1 DEF FallbackInv, StampsInOrder
  <1>3. /\ Pruned(failures[c]) \in Stamps /\ InOrder(Pruned(failures[c]))
        /\ Len(Pruned(failures[c])) <= Len(failures[c])
    BY <1>2, PrunedInOrder
  <1>4. \A d \in Candidates : /\ failures'[d] \in Stamps
                              /\ InOrder(failures'[d])
                              /\ Len(failures'[d]) <= Len(failures[d])
    <2>1. \A d \in Candidates \ {c} : failures'[d] = failures[d]
      BY <1>1
    <2>2. failures'[c] = Pruned(failures[c])
      BY <1>1
    <2>3. \A d \in Candidates : failures[d] \in Stamps /\ InOrder(failures[d])
                                /\ Len(failures[d]) \in Nat
      BY <1>1 DEF FallbackInv, StampsInOrder, Stamps
    <2> QED
      BY <1>3, <2>1, <2>2, <2>3
  <1>5. failures' \in [Candidates -> Stamps]
    BY <1>1, <1>3
  <1>6. StampsInOrder'
    BY <1>4 DEF StampsInOrder, InOrder
  <1> QED
    BY <1>4, <1>5, <1>6 DEF BreakersOK, Stamps

LEMMA BreakersCharged ==
  ASSUME FallbackInv, clock' = clock, NEW c \in Candidates, Charge(c)
  PROVE  /\ BreakersOK'
         /\ Len(failures'[c]) \in Nat
         /\ Len(failures'[c]) <= Len(failures[c]) + 1
         /\ \A d \in Candidates \ {c} : failures'[d] = failures[d]
  <1>1. failures \in [Candidates -> Stamps] /\ clock \in 0..EndOfTime
        /\ EndOfTime \in Nat
    BY FallbackAssumption DEF FallbackInv, FallbackTypeOK, Stamps
  <1>2. failures[c] \in Stamps /\ InOrder(failures[c])
    BY <1>1 DEF FallbackInv, StampsInOrder
  <1> DEFINE s == Pruned(Append(failures[c], clock))
  <1>3. s \in Stamps /\ InOrder(s) /\ Len(s) <= Len(failures[c]) + 1
    BY <1>1, <1>2, ChargedInOrder
  <1>4. failures' = [failures EXCEPT ![c] = s]
    BY DEF Charge
  <1> HIDE DEF s
  <1>5. failures'[c] = s /\ \A d \in Candidates \ {c} : failures'[d] = failures[d]
    BY <1>1, <1>4
  <1>6. \A d \in Candidates : InOrder(failures'[d])
    BY <1>3, <1>5 DEF FallbackInv, StampsInOrder
  <1>7. StampsInOrder'
    BY <1>6 DEF StampsInOrder, InOrder
  <1>8. failures' \in [Candidates -> Stamps]
    BY <1>1, <1>3, <1>4
  <1> QED
    BY <1>3, <1>5, <1>7, <1>8 DEF BreakersOK, Stamps

\* A step that leaves the breakers alone while the clock does not go back.
LEMMA BreakersUntouched ==
  ASSUME FallbackInv, failures' = failures, clock' \in Nat, clock <= clock'
  PROVE  /\ BreakersOK'
         /\ \A d \in Candidates : Len(failures'[d]) \in Nat
                                  /\ Len(failures'[d]) <= Len(failures[d])
  <1>1. failures \in [Candidates -> Stamps] /\ clock \in Nat
    BY FallbackAssumption DEF FallbackInv, FallbackTypeOK, Stamps
  <1>2. \A d \in Candidates : \A i \in 1..Len(failures[d]) : failures[d][i] \in Nat
    BY <1>1, FallbackAssumption DEF Stamps
  <1>3. StampsInOrder'
    BY <1>1, <1>2 DEF FallbackInv, StampsInOrder, InOrder
  <1>4. \A d \in Candidates : Len(failures[d]) \in Nat
    BY <1>1 DEF Stamps
  <1> QED
    BY <1>1, <1>3, <1>4 DEF BreakersOK

-----------------------------------------------------------------------------
(***************************************************************************)
(* The steps.                                                              *)
(***************************************************************************)

\* The types of what is not a breaker.
RequestsTypeOK ==
  /\ clock \in 0..EndOfTime
  /\ pc \in [Callers -> {"idle", "check", "call", "stream"}]
  /\ cand \in [Callers -> 1..ChainLen + 1]
  /\ \A r \in Callers : pc[r] \in {"call", "stream"} => cand[r] \in Candidates
  /\ cancelled \in [Callers -> BOOLEAN]

StreamsTypeOK ==
  /\ unsent \in [Callers -> 0..MaxData]
  /\ hand \in [Callers -> Seq(Chunks)]
  /\ out \in [Callers -> Seq(Chunks)]
  /\ \A r \in Callers : Len(hand[r]) <= 1 /\ Len(out[r]) <= OutCap
  /\ parsing \in [Callers -> BOOLEAN]
  /\ outOpen \in [Callers -> BOOLEAN]
  /\ reader \in [Callers -> ReaderStates]

LEMMA TypeParts ==
  FallbackTypeOK <=>
    RequestsTypeOK /\ StreamsTypeOK /\ failures \in [Candidates -> Stamps]
  BY DEF FallbackTypeOK, RequestsTypeOK, StreamsTypeOK, Stamps

LEMMA FallbackParts ==
  ASSUME RequestsTypeOK', StreamsTypeOK', BreakersOK', StreamsOwned',
         \A c \in Candidates :
           Len(failures'[c]) + Cardinality(Chargers(c)')
             <= Threshold - 1 + Cardinality(Callers)
  PROVE  FallbackInv'
  BY DEF FallbackInv, FallbackTypeOK, RequestsTypeOK, StreamsTypeOK, Stamps,
         BreakersOK, ChargesBounded

\* What the invariant says of one request.
LEMMA FallbackTypes ==
  ASSUME FallbackInv
  PROVE  /\ RequestsTypeOK /\ StreamsTypeOK /\ StreamsOwned /\ ChargesBounded
         /\ failures \in [Candidates -> Stamps]
         /\ \A c \in Candidates : Len(failures[c]) \in Nat
  BY TypeParts DEF FallbackInv, Stamps

\* The walk along the chain: only a breaker that does not look open lets a
\* caller through, and only a failed call is charged.
LEMMA FallbackWalk ==
  ASSUME FallbackInv, NEW r \in Callers,
         \/ Begin(r) \/ Cancel(r) \/ Check(r) \/ ReturnCancelled(r)
         \/ ReturnExhausted(r) \/ CallFails(r) \/ CallStreams(r)
  PROVE  FallbackInv'
  <1>0. /\ RequestsTypeOK /\ StreamsTypeOK /\ StreamsOwned /\ ChargesBounded
        /\ failures \in [Candidates -> Stamps]
        /\ \A c \in Candidates : Len(failures[c]) \in Nat
    BY FallbackTypes
  <1> USE <1>0
  <1>1. clock' = clock /\ clock \in Nat
    BY FallbackAssumption
    DEF Begin, Cancel, Check, ReturnCancelled, ReturnExhausted, CallFails,
        CallStreams, RequestsTypeOK
  <1>2. CASE Begin(r) \/ Cancel(r) \/ ReturnCancelled(r) \/ ReturnExhausted(r)
    <2>1. UNCHANGED <<failures, unsent, parsing, hand, out, outOpen, reader>>
      BY <1>2 DEF Begin, Cancel, ReturnCancelled, ReturnExhausted, streamVars
    <2>2. RequestsTypeOK'
      <3>1. 1 \in 1..ChainLen + 1
        BY FallbackAssumption
      <3>2. CASE Begin(r)
        BY <1>1, <3>2 DEF Begin, RequestsTypeOK
      <3>3. CASE Cancel(r)
        BY <1>1, <3>3 DEF Cancel, RequestsTypeOK
      <3>4. CASE ReturnCancelled(r) \/ ReturnExhausted(r)
        BY <1>1, <3>1, <3>4
        DEF ReturnCancelled, ReturnExhausted, GiveUp, RequestsTypeOK
      <3> QED
        BY <1>2, <3>2, <3>3, <3>4
    <2>3. StreamsTypeOK'
      BY <2>1 DEF StreamsTypeOK
    <2>4. StreamsOwned'
      BY <1>2, <2>1
      DEF Begin, Cancel, ReturnCancelled, ReturnExhausted, GiveUp,
          StreamsOwned, RequestsTypeOK
    <2>5. BreakersOK' /\ \A d \in Candidates : Len(failures'[d]) \in Nat
                                  /\ Len(failures'[d]) <= Len(failures[d])
      BY <1>1, <2>1, BreakersUntouched
    <2>6. \A c \in Candidates : Chargers(c)' \subseteq Chargers(c)
      BY <1>2, <2>1
      DEF Begin, Cancel, ReturnCancelled, ReturnExhausted, GiveUp, Chargers,
          RequestsTypeOK, StreamsOwned
    <2> QED
      BY <2>2, <2>3, <2>4, <2>5, <2>6, ChargesKept, FallbackParts
  <1>3. CASE Check(r)
    <2>1. /\ UNCHANGED <<cancelled, unsent, parsing, hand, out, outOpen, reader>>
          /\ pc[r] = "check" /\ cand[r] \in Candidates
          /\ failures' = [failures EXCEPT ![cand[r]] = Pruned(@)]
      BY <1>3 DEF Check, streamVars
    <2>2. RequestsTypeOK'
      <3>1. cand[r] + 1 \in 1..ChainLen + 1
        BY <2>1, FallbackAssumption DEF Candidates
      <3>2. \/ cand' = [cand EXCEPT ![r] = cand[r] + 1] /\ pc' = pc
            \/ cand' = cand /\ pc' = [pc EXCEPT ![r] = "call"]
        BY <1>3 DEF Check
      <3> QED
        BY <1>1, <2>1, <3>1, <3>2 DEF RequestsTypeOK
    <2>3. StreamsTypeOK'
      BY <2>1 DEF StreamsTypeOK
    <2>4. StreamsOwned'
      BY <1>3, <2>1 DEF Check, StreamsOwned, RequestsTypeOK
    <2>5. BreakersOK' /\ \A d \in Candidates : Len(failures'[d]) \in Nat
                                  /\ Len(failures'[d]) <= Len(failures[d])
      BY <1>1, <2>1, BreakersPruned
    <2>6. ~parsing[r]
      BY <2>1 DEF StreamsOwned
    <2>7. CASE LooksOpen(cand[r])
      <3>1. \A c \in Candidates : Chargers(c)' \subseteq Chargers(c)
        BY <1>3, <2>1, <2>6, <2>7 DEF Check, Chargers, RequestsTypeOK
      <3> QED
        BY <2>2, <2>3, <2>4, <2>5, <3>1, ChargesKept, FallbackParts
    <2>8. CASE ~LooksOpen(cand[r])
      <3>1. pc' = [pc EXCEPT ![r] = "call"] /\ cand' = cand
        BY <1>3, <2>8 DEF Check
      <3>2. \A c \in Candidates \ {cand[r]} : Chargers(c)' \subseteq Chargers(c)
        BY <2>1, <3>1 DEF Chargers, RequestsTypeOK
      <3>3. Len(failures'[cand[r]]) <= Threshold - 1
        <4>1. failures'[cand[r]] = Pruned(failures[cand[r]])
          BY <2>1
        <4> QED
          BY <2>1, <2>5, <2>8, <4>1, FallbackAssumption DEF LooksOpen
      <3>4. \A c \in Candidates :
              Len(failures'[c]) + Cardinality(Chargers(c)')
                <= Threshold - 1 + Cardinality(Callers)
        <4> SUFFICES ASSUME NEW c \in Candidates
                     PROVE  Len(failures'[c]) + Cardinality(Chargers(c)')
                              <= Threshold - 1 + Cardinality(Callers)
          OBVIOUS
        <4>1. CASE c = cand[r]
          <5>1. Len(failures'[c]) <= Threshold - 1 /\ Len(failures'[c]) \in Nat
            BY <2>5, <3>3, <4>1
          <5>2. /\ Cardinality(Chargers(c)') \in Nat
                /\ Cardinality(Chargers(c)') <= Cardinality(Callers)
                /\ Cardinality(Callers) \in Nat
            BY ChargersCounted, ChargersCountedNext
          <5> QED
            BY <5>1, <5>2, FallbackAssumption
        <4>2. CASE c # cand[r]
          BY <2>5, <3>2, <4>2, ChargesKept
        <4> QED
          BY <4>1, <4>2
      <3> QED
        BY <2>2, <2>3, <2>4, <2>5, <3>4, FallbackParts
    <2> QED
      BY <2>7, <2>8
  <1>4. CASE CallFails(r)
    <2>1. /\ UNCHANGED <<cancelled, unsent, parsing, hand, out, outOpen, reader>>
          /\ pc[r] = "call" /\ cand[r] \in Candidates
          /\ pc' = [pc EXCEPT ![r] = "check"]
          /\ cand' = [cand EXCEPT ![r] = @ + 1]
      BY <1>4 DEF CallFails, streamVars, RequestsTypeOK
    <2>2. RequestsTypeOK'
      BY <1>1, <2>1, FallbackAssumption DEF RequestsTypeOK, Candidates
    <2>3. StreamsTypeOK'
      BY <2>1 DEF StreamsTypeOK
    <2>4. StreamsOwned' /\ ~parsing[r]
      BY <2>1 DEF StreamsOwned, RequestsTypeOK
    <2>5. \A c \in Candidates : Chargers(c)' \subseteq Chargers(c) \ {r}
      BY <2>1, <2>4 DEF Chargers, RequestsTypeOK
    <2>6. CASE failures' = failures
      <3>1. BreakersOK' /\ \A d \in Candidates : Len(failures'[d]) \in Nat
                                  /\ Len(failures'[d]) <= Len(failures[d])
        BY <1>1, <2>6, BreakersUntouched
      <3> QED
        BY <2>2, <2>3, <2>4, <2>5, <3>1, ChargesKept, FallbackParts
    <2>7. CASE Charge(cand[r])
      <3>1. /\ BreakersOK' /\ Len(failures'[cand[r]]) \in Nat
            /\ Len(failures'[cand[r]]) <= Len(failures[cand[r]]) + 1
            /\ \A d \in Candidates \ {cand[r]} : failures'[d] = failures[d]
        BY <1>1, <2>1, <2>7, BreakersCharged
      <3>2. r \in Chargers(cand[r])
        BY <2>1 DEF Chargers
      <3>3. \A c \in Candidates :
              Len(failures'[c]) + Cardinality(Chargers(c)')
                <= Threshold - 1 + Cardinality(Callers)
        <4> SUFFICES ASSUME NEW c \in Candidates
                     PROVE  Len(failures'[c]) + Cardinality(Chargers(c)')
                              <= Threshold - 1 + Cardinality(Callers)
          OBVIOUS
        <4>1. CASE c = cand[r]
          BY <2>5, <3>1, <3>2, <4>1, ChargeSpent
        <4>2. CASE c # cand[r]
          BY <2>5, <3>1, <4>2, ChargesKept
        <4> QED
          BY <4>1, <4>2
      <3> QED
        BY <2>2, <2>3, <2>4, <3>1, <3>3, FallbackParts
    <2> QED
      BY <1>4, <2>6, <2>7 DEF CallFails
  <1>5. CASE CallStreams(r)
    <2>1. UNCHANGED <<failures, cand, hand, out>> /\ pc[r] = "call"
      BY <1>5 DEF CallStreams
    <2>2. RequestsTypeOK'
      BY <1>1, <1>5 DEF CallStreams, RequestsTypeOK
    <2>3. StreamsTypeOK'
      BY <1>5, FallbackAssumption DEF CallStreams, StreamsTypeOK, ReaderStates
    <2>4. StreamsOwned'
      BY <1>5 DEF CallStreams, StreamsOwned, RequestsTypeOK, StreamsTypeOK
    <2>5. BreakersOK' /\ \A d \in Candidates : Len(failures'[d]) \in Nat
                                  /\ Len(failures'[d]) <= Len(failures[d])
      BY <1>1, <2>1, BreakersUntouched
    <2>6. \A c \in Candidates : Chargers(c)' \subseteq Chargers(c)
      BY <1>5 DEF CallStreams, Chargers, RequestsTypeOK, StreamsTypeOK
    <2> QED
      BY <2>2, <2>3, <2>4, <2>5, <2>6, ChargesKept, FallbackParts
  <1> QED
    BY <1>2, <1>3, <1>4, <1>5

\* The parser: an error chunk is charged once, and ends the parser.
LEMMA FallbackParser ==
  ASSUME FallbackInv, NEW r \in Callers, ParserStep(r)
  PROVE  FallbackInv'
  <1>0. /\ RequestsTypeOK /\ StreamsTypeOK /\ StreamsOwned /\ ChargesBounded
        /\ failures \in [Candidates -> Stamps]
        /\ \A c \in Candidates : Len(failures[c]) \in Nat
    BY FallbackTypes
  <1> USE <1>0
  <1>1. PICK chunk \in Chunks : Receive(r, chunk)
    BY DEF ParserStep, ParserSends, ParserEnds, Chunks, Ends
  <1>2. /\ clock' = clock /\ clock \in Nat
        /\ UNCHANGED <<pc, cand, cancelled, out, outOpen, reader>>
        /\ parsing[r] /\ hand' = [hand EXCEPT ![r] = <<chunk>>]
    <2>1. clock \in Nat
      BY FallbackAssumption DEF RequestsTypeOK
    <2> QED
      BY <1>1, <2>1 DEF Receive, requestVars, ParserStep, ParserSends, ParserEnds
  <1>3. /\ \/ unsent[r] > 0 /\ unsent' = [unsent EXCEPT ![r] = @ - 1]
           \/ unsent' = unsent
        /\ \/ parsing' = parsing
           \/ parsing' = [parsing EXCEPT ![r] = FALSE]
    BY DEF ParserStep, ParserSends, ParserEnds
  <1>4. RequestsTypeOK'
    BY <1>2 DEF RequestsTypeOK
  <1>5. StreamsTypeOK'
    <2>1. <<chunk>> \in Seq(Chunks) /\ Len(<<chunk>>) = 1
      OBVIOUS
    <2>2. /\ hand' \in [Callers -> Seq(Chunks)]
          /\ \A q \in Callers : Len(hand'[q]) <= 1
      BY <1>2, <2>1 DEF StreamsTypeOK
    <2>3. unsent' \in [Callers -> 0..MaxData] /\ parsing' \in [Callers -> BOOLEAN]
      <3>1. unsent[r] > 0 => unsent[r] - 1 \in 0..MaxData
        BY FallbackAssumption DEF StreamsTypeOK
      <3> QED
        BY <1>3, <3>1 DEF StreamsTypeOK
    <2> QED
      BY <1>2, <2>2, <2>3 DEF StreamsTypeOK
  <1>6. StreamsOwned'
    BY <1>2, <1>3 DEF StreamsOwned, StreamsTypeOK
  <1>7. cand[r] \in Candidates /\ r \in Chargers(cand[r])
    BY <1>2 DEF StreamsOwned, RequestsTypeOK, Chargers
  <1>8. \A c \in Candidates : Chargers(c)' \subseteq Chargers(c)
    BY <1>2, <1>3 DEF Chargers, StreamsTypeOK
  <1>9. CASE chunk # "err"
    <2>1. BreakersOK' /\ \A d \in Candidates : Len(failures'[d]) \in Nat
                                  /\ Len(failures'[d]) <= Len(failures[d])
      BY <1>1, <1>2, <1>9, BreakersUntouched DEF Receive
    <2> QED
      BY <1>4, <1>5, <1>6, <1>8, <2>1, ChargesKept, FallbackParts
  <1>10. CASE chunk = "err"
    <2>1. Charge(cand[r])
      BY <1>1, <1>10 DEF Receive
    <2>2. /\ BreakersOK' /\ Len(failures'[cand[r]]) \in Nat
          /\ Len(failures'[cand[r]]) <= Len(failures[cand[r]]) + 1
          /\ \A d \in Candidates \ {cand[r]} : failures'[d] = failures[d]
      BY <1>2, <1>7, <2>1, BreakersCharged
    <2>3. parsing' = [parsing EXCEPT ![r] = FALSE]
      <3>1. hand'[r] = <<"err">> /\ <<"err">> # <<"data">>
        BY <1>2, <1>10 DEF StreamsTypeOK
      <3>2. ~ParserSends(r)
        BY <3>1 DEF ParserSends, Receive, StreamsTypeOK
      <3> QED
        BY <3>2 DEF ParserStep, ParserEnds
    <2>4. pc[r] = "stream"
      BY <1>2 DEF StreamsOwned
    <2>5. \A c \in Candidates : Chargers(c)' \subseteq Chargers(c) \ {r}
      BY <1>2, <2>3, <2>4 DEF Chargers, StreamsTypeOK
    <2>6. \A c \in Candidates :
            Len(failures'[c]) + Cardinality(Chargers(c)')
              <= Threshold - 1 + Cardinality(Callers)
      <3> SUFFICES ASSUME NEW c \in Candidates
                   PROVE  Len(failures'[c]) + Cardinality(Chargers(c)')
                            <= Threshold - 1 + Cardinality(Callers)
        OBVIOUS
      <3>1. CASE c = cand[r]
        <4>1. r \in Chargers(c)
          BY <1>7, <3>1
        <4> QED
          BY <2>2, <2>5, <3>1, <4>1, ChargeSpent
      <3>2. CASE c # cand[r]
        BY <1>8, <2>2, <3>2, ChargesKept
      <3> QED
        BY <3>1, <3>2
    <2> QED
      BY <1>4, <1>5, <1>6, <2>2, <2>6, FallbackParts
  <1> QED
    BY <1>9, <1>10

\* The forwarder, the reader and the end of the request touch no breaker.
LEMMA FallbackReader ==
  ASSUME FallbackInv, NEW r \in Callers, ForwarderStep(r) \/ Read(r) \/ Finish(r)
  PROVE  FallbackInv'
  <1>0. /\ RequestsTypeOK /\ StreamsTypeOK /\ StreamsOwned /\ ChargesBounded
        /\ failures \in [Candidates -> Stamps]
        /\ \A c \in Candidates : Len(failures[c]) \in Nat
    BY FallbackTypes
  <1> USE <1>0
  <1>1. clock' = clock /\ clock \in Nat /\ failures' = failures /\ parsing' = parsing
    <2>1. clock \in Nat
      BY FallbackAssumption DEF RequestsTypeOK
    <2> QED
      BY <2>1 DEF ForwarderStep, Forward, CloseOut, Read, Finish
  <1>2. BreakersOK' /\ \A d \in Candidates : Len(failures'[d]) \in Nat
                                /\ Len(failures'[d]) <= Len(failures[d])
    BY <1>1, BreakersUntouched
  <1>3. RequestsTypeOK'
    <2>1. 1 \in 1..ChainLen + 1
      BY FallbackAssumption
    <2>2. CASE Finish(r)
      BY <1>1, <2>1, <2>2 DEF Finish, GiveUp, RequestsTypeOK
    <2>3. CASE ForwarderStep(r) \/ Read(r)
      BY <1>1, <2>3
      DEF ForwarderStep, Forward, CloseOut, Read, requestVars, RequestsTypeOK
    <2> QED
      BY <2>2, <2>3
  <1>4. StreamsOwned'
    <2>1. CASE Finish(r)
      BY <1>1, <2>1 DEF Finish, GiveUp, StreamsOwned, RequestsTypeOK
    <2>2. CASE CloseOut(r)
      BY <1>1, <2>2 DEF CloseOut, requestVars, StreamsOwned, StreamsTypeOK
    <2>3. CASE Forward(r) \/ Read(r)
      BY <1>1, <2>3 DEF Forward, Read, requestVars, StreamsOwned
    <2> QED
      BY <2>1, <2>2, <2>3 DEF ForwarderStep
  <1>5. \A c \in Candidates : Chargers(c)' \subseteq Chargers(c)
    BY <1>1
    DEF ForwarderStep, Forward, CloseOut, Read, Finish, GiveUp, requestVars,
        Chargers, RequestsTypeOK, StreamsOwned
  <1>6. StreamsTypeOK'
    <2>1. <<>> \in Seq(Chunks) /\ Len(<<>>) = 0
      OBVIOUS
    <2>2. CASE Forward(r)
      <3>1. /\ hand[r] \in Seq(Chunks) /\ out[r] \in Seq(Chunks)
            /\ Len(hand[r]) <= 1 /\ Len(out[r]) < OutCap
            /\ Len(hand[r]) \in Nat /\ Len(out[r]) \in Nat
        BY <2>2 DEF Forward, HasRoom, StreamsTypeOK
      <3>2. /\ out[r] \o hand[r] \in Seq(Chunks)
            /\ Len(out[r] \o hand[r]) <= OutCap
        <4>1. /\ out[r] \o hand[r] \in Seq(Chunks)
              /\ Len(out[r] \o hand[r]) = Len(out[r]) + Len(hand[r])
          BY <3>1
        <4>2. Len(out[r]) + Len(hand[r]) <= OutCap
          <5>1. \A a, b \in Nat : a < OutCap /\ b <= 1 => a + b <= OutCap
            BY FallbackAssumption
          <5> QED
            BY <3>1, <5>1
        <4> QED
          BY <4>1, <4>2, Zenon
      <3>3. /\ UNCHANGED <<unsent, parsing, outOpen, reader>>
            /\ out' = [out EXCEPT ![r] = out[r] \o hand[r]]
            /\ hand' = [hand EXCEPT ![r] = <<>>]
        BY <2>2 DEF Forward
      <3> QED
        BY <2>1, <3>2, <3>3, FallbackAssumption DEF StreamsTypeOK
    <2>3. CASE CloseOut(r)
      BY <2>3 DEF CloseOut, StreamsTypeOK
    <2>4. CASE Read(r)
      <3>1. /\ UNCHANGED <<unsent, parsing, hand, outOpen>>
            /\ out[r] # <<>> /\ out' = [out EXCEPT ![r] = Tail(out[r])]
            /\ reader' \in {reader, [reader EXCEPT ![r] = "ended"],
                            [reader EXCEPT ![r] = "refused"]}
        BY <2>4 DEF Read
      <3>2. Tail(out[r]) \in Seq(Chunks) /\ Len(Tail(out[r])) <= OutCap
        BY <3>1, FallbackAssumption DEF StreamsTypeOK
      <3>3. reader' \in [Callers -> ReaderStates]
        BY <3>1 DEF StreamsTypeOK, ReaderStates
      <3> QED
        BY <3>1, <3>2, <3>3 DEF StreamsTypeOK
    <2>5. CASE Finish(r)
      BY <2>1, <2>5, FallbackAssumption DEF Finish, StreamsTypeOK, ReaderStates
    <2> QED
      BY <2>2, <2>3, <2>4, <2>5 DEF ForwarderStep
  <1> QED
    BY <1>2, <1>3, <1>4, <1>5, <1>6, ChargesKept, FallbackParts

\* Time passes, or nothing happens.
LEMMA FallbackTime ==
  ASSUME FallbackInv, FallbackTick \/ UNCHANGED fallbackVars
  PROVE  FallbackInv'
  <1>0. /\ RequestsTypeOK /\ StreamsTypeOK /\ StreamsOwned /\ ChargesBounded
        /\ failures \in [Candidates -> Stamps]
        /\ \A c \in Candidates : Len(failures[c]) \in Nat
    BY FallbackTypes
  <1> USE <1>0
  <1>1. /\ UNCHANGED <<failures, pc, cand, cancelled, unsent, parsing, hand, out,
                       outOpen, reader>>
        /\ clock' \in 0..EndOfTime /\ clock <= clock' /\ clock' \in Nat
    BY FallbackAssumption
    DEF FallbackTick, fallbackVars, requestVars, streamVars, RequestsTypeOK
  <1>2. BreakersOK' /\ \A d \in Candidates : Len(failures'[d]) \in Nat
                                /\ Len(failures'[d]) <= Len(failures[d])
    BY <1>1, BreakersUntouched
  <1>3. RequestsTypeOK' /\ StreamsTypeOK' /\ StreamsOwned'
    BY <1>1 DEF RequestsTypeOK, StreamsTypeOK, StreamsOwned
  <1>4. \A c \in Candidates : Chargers(c)' \subseteq Chargers(c)
    BY <1>1 DEF Chargers
  <1> QED
    BY <1>2, <1>3, <1>4, ChargesKept, FallbackParts

LEMMA FallbackInitially == FallbackInit => FallbackInv
  <1> SUFFICES ASSUME FallbackInit PROVE FallbackInv
    OBVIOUS
  <1> USE FallbackAssumption DEF FallbackInit
  <1>1. <<>> \in Seq(Chunks) /\ <<>> \in Stamps /\ Len(<<>>) = 0
    BY DEF Stamps
  <1>2. RequestsTypeOK
    BY DEF RequestsTypeOK, Candidates
  <1>3. StreamsTypeOK
    BY <1>1 DEF StreamsTypeOK, ReaderStates
  <1>4. failures \in [Candidates -> Stamps] /\ StampsInOrder /\ StreamsOwned
    BY <1>1 DEF StampsInOrder, InOrder, StreamsOwned
  <1>5. \A c \in Candidates :
          Len(failures[c]) + Cardinality(Chargers(c))
            <= Threshold - 1 + Cardinality(Callers)
    BY <1>1, ChargersCounted
  <1> QED
    BY <1>2, <1>3, <1>4, <1>5, TypeParts DEF FallbackInv, ChargesBounded

LEMMA FallbackStep == FallbackInv /\ [FallbackNext]_fallbackVars => FallbackInv'
  BY FallbackWalk, FallbackParser, FallbackReader, FallbackTime
  DEF FallbackNext, CallerStep

-----------------------------------------------------------------------------
(***************************************************************************)
(* Theorems.                                                               *)
(***************************************************************************)

\* A breaker looks open exactly while Threshold of its failures are younger
\* than Window, and a dead endpoint gets no more calls than the threshold
\* lets through and one for each caller that had passed the check, whatever
\* callers, parsers and readers do side by side.
THEOREM BreakersStayHonest == FallbackSpec => []BreakersHonest
  <1>1. FallbackInv => BreakersHonest
    <2> SUFFICES ASSUME FallbackInv PROVE BreakersHonest
      OBVIOUS
    <2>1. OutageBounded
      <3> SUFFICES ASSUME NEW c \in Candidates
                   PROVE  Len(failures[c]) <= Threshold - 1 + Cardinality(Callers)
        BY DEF OutageBounded
      <3> QED
        BY ChargersCounted, FallbackTypes, FallbackAssumption DEF ChargesBounded
    <2>2. OpenIsRecent
      <3> SUFFICES ASSUME NEW c \in Candidates
                   PROVE  LooksOpen(c) <=>
                            Cardinality({i \in DOMAIN failures[c] :
                                           Recent(failures[c][i])}) >= Threshold
        BY DEF OpenIsRecent
      <3>1. failures[c] \in Stamps /\ InOrder(failures[c]) /\ clock \in Nat
        BY FallbackTypes, FallbackAssumption
        DEF FallbackInv, StampsInOrder, RequestsTypeOK
      <3>2. Len(Pruned(failures[c])) = Cardinality(KeptOf(failures[c]))
        BY <3>1, PrunedIsSuffix
      <3> QED
        BY <3>1, <3>2, KeptAreRecent DEF LooksOpen
    <2> QED
      BY <2>1, <2>2 DEF FallbackInv, BreakersHonest
  <1> QED
    BY <1>1, FallbackInitially, FallbackStep, PTL DEF FallbackSpec

\* A failure is charged to the candidate the caller was at, and not by one
\* that was cancelled before it had a stream.
THEOREM ChargesAreDue == FallbackSpec => BlameIsDue
  <1>1. ASSUME FallbackInv, FallbackNext, NEW c \in Candidates,
               failures'[c] # failures[c],
               Len(failures'[c]) > Len(Pruned(failures[c]))
        PROVE  \E r \in Callers :
                 /\ cand[r] = c
                 /\ \/ pc[r] = "call" /\ pc'[r] = "check" /\ ~cancelled[r]
                    \/ pc[r] = "stream" /\ hand'[r] = <<"err">> /\ hand[r] = <<>>
    <2>0. /\ RequestsTypeOK /\ StreamsTypeOK /\ StreamsOwned
          /\ failures \in [Candidates -> Stamps]
      BY <1>1, FallbackTypes
    <2>1. ASSUME NEW r \in Callers, CallFails(r)
          PROVE  cand[r] = c /\ pc[r] = "call" /\ pc'[r] = "check" /\ ~cancelled[r]
      BY <1>1, <2>0, <2>1 DEF CallFails, Counts, Charge, RequestsTypeOK
    <2>2. ASSUME NEW r \in Callers, ParserStep(r)
          PROVE  /\ cand[r] = c
                 /\ pc[r] = "stream" /\ hand'[r] = <<"err">> /\ hand[r] = <<>>
      <3>1. PICK chunk \in Chunks : Receive(r, chunk) /\ parsing[r]
        BY <2>2 DEF ParserStep, ParserSends, ParserEnds, Chunks, Ends
      <3>2. pc[r] = "stream"
        BY <2>0, <3>1 DEF StreamsOwned
      <3>3. chunk = "err" /\ Charge(cand[r])
        BY <1>1, <3>1 DEF Receive
      <3>4. cand[r] = c
        BY <1>1, <2>0, <3>3 DEF Charge
      <3> QED
        BY <2>0, <3>1, <3>2, <3>3, <3>4 DEF Receive, StreamsTypeOK
    <2>3. ASSUME NEW r \in Callers, Check(r)
          PROVE  FALSE
      <3>1. failures' = [failures EXCEPT ![cand[r]] = Pruned(failures[cand[r]])]
        BY <2>3 DEF Check
      <3>2. failures'[c] = Pruned(failures[c])
        BY <1>1, <2>0, <3>1
      <3>3. failures[c] \in Stamps /\ Pruned(failures[c]) \in Stamps
        BY <2>0, PrunedIsSuffix
      <3>4. Len(Pruned(failures[c])) \in Nat
        BY <3>3 DEF Stamps
      <3> QED
        BY <1>1, <3>2, <3>4
    <2>4. ASSUME NEW r \in Callers,
                 \/ Begin(r) \/ Cancel(r) \/ ReturnCancelled(r) \/ ReturnExhausted(r)
                 \/ CallStreams(r) \/ Read(r) \/ Finish(r) \/ ForwarderStep(r)
          PROVE  FALSE
      BY <1>1, <2>4
      DEF Begin, Cancel, ReturnCancelled, ReturnExhausted, CallStreams, Read,
          Finish, ForwarderStep, Forward, CloseOut
    <2>5. ~FallbackTick
      BY <1>1 DEF FallbackTick
    <2> QED
      BY <1>1, <2>1, <2>2, <2>3, <2>4, <2>5 DEF FallbackNext, CallerStep
  <1>2. FallbackInv /\ [FallbackNext]_fallbackVars =>
          [\A c \in Candidates :
             failures'[c] # failures[c] /\ Len(failures'[c]) > Len(Pruned(failures[c]))
             => \E r \in Callers :
                  /\ cand[r] = c
                  /\ \/ pc[r] = "call" /\ pc'[r] = "check" /\ ~cancelled[r]
                     \/ pc[r] = "stream" /\ hand'[r] = <<"err">>
                        /\ hand[r] = <<>>]_fallbackVars
    BY <1>1
  <1> QED
    BY <1>2, FallbackInitially, FallbackStep, PTL DEF FallbackSpec, BlameIsDue

-----------------------------------------------------------------------------
(***************************************************************************)
(* DbTunnels: the inductive invariant is about each goroutine of a build.  *)
(***************************************************************************)

\* How far the goroutines of a build are.
BuildFits(b) ==
  /\ phase[b] = "idle" => \A e \in Endpoints : step[b][e] = "off" /\ ~Owned(b, e)
  /\ phase[b] # "idle" => \A e \in Endpoints : step[b][e] # "off"
  /\ phase[b] \in {"using", "over"} => AllDone(b)

\* What an endpoint has left behind at each place of its goroutine.
EndpointFits(b, e) ==
  /\ step[b][e] \in {"pod", "forward"} => Way[e] = "k8s"
  /\ step[b][e] \in {"off", "pod"} => forward[b][e] = "off" /\ ~stopped[b][e]
  /\ step[b][e] = "done" => e \in skips[b] \/ clients[b][NameOf[e]] # Nobody
  /\ e \in skips[b] => step[b][e] = "done" /\ ~Live(b, e)
  /\ Owned(b, e) => step[b][e] = "done" /\ e \notin skips[b]

TunnelInv ==
  /\ TunnelTypeOK
  /\ \A b \in Rebuilds : BuildFits(b)
  /\ \A b \in Rebuilds, e \in Endpoints : EndpointFits(b, e)

LEMMA TunnelInitially == TunnelInit => TunnelInv
  <1> SUFFICES ASSUME TunnelInit PROVE TunnelInv
    OBVIOUS
  <1> USE DbTunnelsAssumption DEF TunnelInit, Each
  <1>1. TunnelTypeOK
    BY DEF TunnelTypeOK, Steps, Running
  <1>2. \A b \in Rebuilds, e \in Endpoints : ~Owned(b, e)
    BY DEF Owned
  <1>3. \A b \in Rebuilds : BuildFits(b)
    BY <1>2 DEF BuildFits
  <1>4. \A b \in Rebuilds, e \in Endpoints : EndpointFits(b, e)
    BY <1>2 DEF EndpointFits
  <1> QED
    BY <1>1, <1>3, <1>4 DEF TunnelInv

-----------------------------------------------------------------------------
(***************************************************************************)
(* Steps of a build as a whole.                                            *)
(***************************************************************************)

LEMMA StartStep ==
  ASSUME TunnelInv, NEW b \in Rebuilds, NEW hub \in BOOLEAN, StartBuild(b, hub)
  PROVE  TunnelInv'
  <1> USE DEF TunnelInv
  <1> DEFINE refused == {e \in Endpoints : Way[e] = "bad" \/ (Way[e] = "k8s" /\ ~hub)}
             row == [e \in Endpoints |-> IF e \in refused THEN "done"
                                         ELSE IF Way[e] = "k8s" THEN "pod" ELSE "dial"]
  <1>1. /\ phase[b] = "idle" /\ phase' = [phase EXCEPT ![b] = "building"]
        /\ skips' = [skips EXCEPT ![b] = refused]
        /\ step' = [step EXCEPT ![b] = row]
        /\ UNCHANGED <<expired, forward, stopped, clients, active>>
    BY DEF StartBuild
  <1>2. row \in [Endpoints -> {"done", "pod", "dial"}] /\ refused \in SUBSET Endpoints
    OBVIOUS
  <1>3. \A e \in Endpoints :
          /\ row[e] = "done" <=> e \in refused
          /\ row[e] = "pod" => Way[e] = "k8s"
          /\ row[e] # "forward"
    <2> SUFFICES ASSUME NEW e \in Endpoints
                 PROVE  /\ row[e] = "done" <=> e \in refused
                        /\ row[e] = "pod" => Way[e] = "k8s"
                        /\ row[e] # "forward"
      OBVIOUS
    <2> HIDE DEF refused
    <2>1. row[e] = IF e \in refused THEN "done" ELSE IF Way[e] = "k8s" THEN "pod" ELSE "dial"
      OBVIOUS
    <2> QED
      BY <2>1
  <1> HIDE DEF refused, row
  <1>4. TunnelTypeOK'
    <2>1. step' \in [Rebuilds -> [Endpoints -> Steps]]
      BY <1>1, <1>2 DEF TunnelTypeOK, Steps
    <2> QED
      BY <1>1, <1>2, <2>1 DEF TunnelTypeOK
  <1>5. step'[b] = row /\ skips'[b] = refused /\ phase'[b] = "building"
    BY <1>1 DEF TunnelTypeOK
  <1>6. \A c \in Rebuilds \ {b} :
          step'[c] = step[c] /\ skips'[c] = skips[c] /\ phase'[c] = phase[c]
    BY <1>1 DEF TunnelTypeOK
  <1>7. ASSUME NEW c \in Rebuilds
        PROVE  BuildFits(c)'
    <2>1. CASE c = b
      BY <1>2, <1>5, <2>1 DEF BuildFits
    <2>2. CASE c # b
      BY <1>1, <1>6, <2>2 DEF BuildFits, AllDone, Owned
    <2> QED
      BY <2>1, <2>2
  <1>8. ASSUME NEW c \in Rebuilds, NEW e \in Endpoints
        PROVE  EndpointFits(c, e)'
    <2>1. CASE c = b
      <3>1. forward[b][e] = "off" /\ ~stopped[b][e] /\ ~Owned(b, e)
        BY <1>1 DEF BuildFits, EndpointFits
      <3>2. step'[b][e] = row[e] /\ (e \in skips'[b] <=> e \in refused)
        BY <1>5
      <3>3. forward'[b][e] = "off" /\ ~stopped'[b][e] /\ ~Owned(b, e)' /\ ~Live(b, e)'
        BY <1>1, <3>1 DEF Owned, Live, Running
      <3> QED
        BY <1>2, <1>3, <2>1, <3>2, <3>3 DEF EndpointFits
    <2>2. CASE c # b
      BY <1>1, <1>6, <2>2 DEF EndpointFits, Live, Owned
    <2> QED
      BY <2>1, <2>2
  <1> QED
    BY <1>4, <1>7, <1>8

LEMMA PublishSteps ==
  ASSUME TunnelInv, NEW b \in Rebuilds, Publish(b) \/ RunOver(b)
  PROVE  TunnelInv'
  <1> USE DEF TunnelInv
  <1>1. /\ UNCHANGED buildVars /\ phase[b] # "idle" /\ AllDone(b)
        /\ phase' \in {[phase EXCEPT ![b] = "using"], [phase EXCEPT ![b] = "over"]}
        /\ active' \in {active, b}
    BY DEF Publish, RunOver, BuildFits
  <1>2. TunnelTypeOK'
    BY <1>1 DEF TunnelTypeOK, buildVars
  <1>3. ASSUME NEW c \in Rebuilds
        PROVE  BuildFits(c)'
    <2>1. CASE c = b
      BY <1>1, <2>1 DEF TunnelTypeOK, BuildFits, AllDone, buildVars
    <2>2. CASE c # b
      BY <1>1, <2>2 DEF TunnelTypeOK, BuildFits, AllDone, Owned, buildVars
    <2> QED
      BY <2>1, <2>2
  <1>4. \A c \in Rebuilds, e \in Endpoints : EndpointFits(c, e)'
    BY <1>1 DEF EndpointFits, Live, Owned, buildVars
  <1> QED
    BY <1>2, <1>3, <1>4

-----------------------------------------------------------------------------
(***************************************************************************)
(* Steps of one endpoint.                                                  *)
(***************************************************************************)

\* An endpoint whose goroutine runs belongs to a build that is not over.
LEMMA EndpointRuns ==
  ASSUME TunnelInv, NEW b \in Rebuilds, NEW e \in Endpoints,
         step[b][e] \in {"pod", "forward", "dial"}
  PROVE  phase[b] = "building" /\ ~Owned(b, e)
  <1>1. BuildFits(b) /\ EndpointFits(b, e) /\ phase[b] \in {"idle", "building", "using", "over"}
    BY DEF TunnelInv, TunnelTypeOK
  <1> QED
    BY <1>1 DEF BuildFits, AllDone, EndpointFits

LEMMA EndpointFrame ==
  ASSUME TunnelInv, NEW b \in Rebuilds, NEW e \in Endpoints, TunnelTypeOK',
         step[b][e] \in {"pod", "forward", "dial"}, step'[b][e] # "off", phase' = phase,
         \A c \in Rebuilds, f \in Endpoints : c # b \/ f # e =>
           /\ step'[c][f] = step[c][f] /\ forward'[c][f] = forward[c][f]
           /\ stopped'[c][f] = stopped[c][f] /\ (f \in skips'[c] <=> f \in skips[c])
           /\ clients[c][NameOf[f]] # Nobody => clients'[c][NameOf[f]] # Nobody
           /\ Owned(c, f)' => Owned(c, f),
         EndpointFits(b, e)'
  PROVE  TunnelInv'
  <1> USE DEF TunnelInv
  <1>1. ASSUME NEW c \in Rebuilds, NEW f \in Endpoints
        PROVE  EndpointFits(c, f)'
    <2>1. CASE c = b /\ f = e
      BY <2>1
    <2>2. CASE c # b \/ f # e
      <3>1. EndpointFits(c, f)
        OBVIOUS
      <3> QED
        BY <2>2, <3>1 DEF EndpointFits, Live
    <2> QED
      BY <2>1, <2>2
  <1>2. ASSUME NEW c \in Rebuilds
        PROVE  BuildFits(c)'
    <2>1. CASE c = b
      <3>1. phase[b] = "building"
        BY EndpointRuns
      <3> QED
        BY <2>1, <3>1 DEF BuildFits
    <2>2. CASE c # b
      BY <2>2 DEF BuildFits, AllDone
    <2> QED
      BY <2>1, <2>2
  <1> QED
    BY <1>1, <1>2

\* The goroutine ends with a skip reason, and a tunnel that it began is over.
LEMMA SkipStep ==
  ASSUME TunnelInv, NEW b \in Rebuilds, NEW e \in Endpoints, Skip(b, e), forward' = forward,
         step[b][e] \in {"pod", "forward", "dial"}, NEW stop \in BOOLEAN,
         stopped' = [stopped EXCEPT ![b][e] = stop],
         Way[e] # "k8s" => ~stop,
         forward[b][e] \in Running => stop
  PROVE  TunnelInv'
  <1> USE DEF TunnelInv
  <1>1. /\ step' = [step EXCEPT ![b][e] = "done"]
        /\ skips' = [skips EXCEPT ![b] = @ \cup {e}]
        /\ UNCHANGED <<phase, expired, forward, clients, active>>
    BY DEF Skip, Goes
  <1>2. TunnelTypeOK'
    <2>1. step' \in [Rebuilds -> [Endpoints -> Steps]]
      BY <1>1 DEF TunnelTypeOK, Steps
    <2>2. stopped' \in [Rebuilds -> [Endpoints -> BOOLEAN]]
      BY DEF TunnelTypeOK
    <2>3. skips' \in [Rebuilds -> SUBSET Endpoints]
      BY <1>1 DEF TunnelTypeOK
    <2>4. \A c \in Rebuilds, f \in Endpoints :
            Way[f] # "k8s" => forward'[c][f] = "off" /\ ~stopped'[c][f]
      BY <1>1 DEF TunnelTypeOK
    <2> QED
      BY <1>1, <2>1, <2>2, <2>3, <2>4 DEF TunnelTypeOK
  <1>3. step'[b][e] = "done" /\ e \in skips'[b] /\ stopped'[b][e] = stop
    BY <1>1 DEF TunnelTypeOK
  <1>4. ~Owned(b, e)
    BY EndpointRuns
  <1>5. EndpointFits(b, e)'
    BY <1>1, <1>3, <1>4 DEF EndpointFits, Live, Owned
  <1>6. \A c \in Rebuilds, f \in Endpoints : c # b \/ f # e =>
          /\ step'[c][f] = step[c][f] /\ stopped'[c][f] = stopped[c][f]
          /\ f \in skips'[c] <=> f \in skips[c]
    BY <1>1 DEF TunnelTypeOK
  <1> QED
    BY <1>1, <1>2, <1>3, <1>5, <1>6, EndpointFrame DEF Owned

LEMMA SkipSteps ==
  ASSUME TunnelInv, NEW b \in Rebuilds, NEW e \in Endpoints,
         \/ PodFails(b, e) \/ ForwardError(b, e) \/ ForwardTimeout(b, e) \/ DialFails(b, e)
  PROVE  TunnelInv'
  <1> USE DEF TunnelInv
  <1>1. stopped[b][e] \in BOOLEAN /\ stopped = [stopped EXCEPT ![b][e] = stopped[b][e]]
    BY DEF TunnelTypeOK
  <1>2. Way[e] # "k8s" => forward[b][e] = "off" /\ ~stopped[b][e]
    BY DEF TunnelTypeOK
  <1>3. CASE PodFails(b, e)
    <2>1. step[b][e] = "pod" /\ forward[b][e] = "off" /\ stopped' = stopped
      BY <1>3 DEF PodFails, EndpointFits
    <2> QED
      BY <1>1, <1>2, <1>3, <2>1, SkipStep DEF PodFails, Running
  <1>4. CASE ForwardError(b, e)
    <2>1. step[b][e] = "forward" /\ forward[b][e] \notin Running /\ stopped' = stopped
      BY <1>4 DEF ForwardError, Running
    <2> QED
      BY <1>1, <1>2, <1>4, <2>1, SkipStep DEF ForwardError
  <1>5. CASE ForwardTimeout(b, e)
    <2>1. step[b][e] = "forward" /\ Way[e] = "k8s"
      BY <1>5 DEF ForwardTimeout, EndpointFits
    <2> QED
      BY <1>5, <2>1, SkipStep DEF ForwardTimeout
  <1>6. CASE DialFails(b, e)
    <2>1. HasTunnel(e) \in BOOLEAN /\ (forward[b][e] \in Running => HasTunnel(e))
      BY <1>2 DEF HasTunnel, Running
    <2> QED
      BY <1>2, <1>6, <2>1, SkipStep DEF DialFails, HasTunnel
  <1> QED
    BY <1>3, <1>4, <1>5, <1>6

\* The goroutine gets on.
LEMMA ForwardSteps ==
  ASSUME TunnelInv, NEW b \in Rebuilds, NEW e \in Endpoints,
         PodSelected(b, e) \/ ForwardReady(b, e)
  PROVE  TunnelInv'
  <1> USE DEF TunnelInv
  <1>1. PICK to \in {"forward", "dial"}, now \in Running :
          /\ step[b][e] \in {"pod", "forward"} /\ step' = [step EXCEPT ![b][e] = to]
          /\ forward' = [forward EXCEPT ![b][e] = now]
          /\ UNCHANGED <<phase, expired, stopped, clients, skips, active>>
    <2>1. CASE PodSelected(b, e)
      BY <2>1 DEF PodSelected, Goes, Running
    <2>2. CASE ForwardReady(b, e)
      <3>1. forward = [forward EXCEPT ![b][e] = "up"]
        BY <2>2 DEF ForwardReady, TunnelTypeOK
      <3> QED
        BY <2>2, <3>1 DEF ForwardReady, Goes, Running
    <2> QED
      BY <2>1, <2>2
  <1>2. Way[e] = "k8s"
    BY <1>1 DEF EndpointFits
  <1>3. TunnelTypeOK'
    <2>1. step' \in [Rebuilds -> [Endpoints -> Steps]]
      BY <1>1 DEF TunnelTypeOK, Steps
    <2>2. forward' \in [Rebuilds -> [Endpoints -> Running \cup {"off", "failed", "gone"}]]
      BY <1>1 DEF TunnelTypeOK, Running
    <2>3. \A c \in Rebuilds, f \in Endpoints :
            Way[f] # "k8s" => forward'[c][f] = "off" /\ ~stopped'[c][f]
      BY <1>1, <1>2 DEF TunnelTypeOK
    <2> QED
      BY <1>1, <2>1, <2>2, <2>3 DEF TunnelTypeOK
  <1>4. step'[b][e] \in {"forward", "dial"}
    BY <1>1 DEF TunnelTypeOK
  <1>5. ~Owned(b, e)
    BY <1>1, EndpointRuns
  <1>6. EndpointFits(b, e)'
    BY <1>1, <1>2, <1>4, <1>5 DEF EndpointFits, Owned
  <1>7. \A c \in Rebuilds, f \in Endpoints : c # b \/ f # e =>
          step'[c][f] = step[c][f] /\ forward'[c][f] = forward[c][f]
    BY <1>1 DEF TunnelTypeOK
  <1> QED
    BY <1>1, <1>3, <1>4, <1>6, <1>7, EndpointFrame DEF Owned

LEMMA DialStep ==
  ASSUME TunnelInv, NEW b \in Rebuilds, NEW e \in Endpoints, Dialled(b, e)
  PROVE  TunnelInv'
  <1> USE DEF TunnelInv
  <1>1. /\ step[b][e] = "dial" /\ step' = [step EXCEPT ![b][e] = "done"]
        /\ clients' = [clients EXCEPT ![b][NameOf[e]] = e]
        /\ UNCHANGED <<phase, expired, forward, stopped, skips, active>>
    BY DEF Dialled, Goes
  <1>2. /\ NameOf[e] \in Names /\ e # Nobody
        /\ \A f \in Endpoints : NameOf[f] \in Names
    BY DbTunnelsAssumption
  <1>3. TunnelTypeOK'
    BY <1>1, <1>2 DEF TunnelTypeOK, Steps
  <1>4. /\ clients'[b][NameOf[e]] = e /\ step'[b][e] = "done"
        /\ \A c \in Rebuilds, n \in Names :
             c # b \/ n # NameOf[e] => clients'[c][n] = clients[c][n]
    BY <1>1, <1>2 DEF TunnelTypeOK
  <1>5. e \notin skips[b]
    BY <1>1 DEF EndpointFits
  <1>6. EndpointFits(b, e)'
    BY <1>1, <1>2, <1>4, <1>5 DEF EndpointFits, Owned
  <1>7. ASSUME NEW c \in Rebuilds, NEW f \in Endpoints, c # b \/ f # e
        PROVE  /\ step'[c][f] = step[c][f]
               /\ clients[c][NameOf[f]] # Nobody => clients'[c][NameOf[f]] # Nobody
               /\ Owned(c, f)' => Owned(c, f)
    <2>1. step'[c][f] = step[c][f]
      BY <1>1, <1>7 DEF TunnelTypeOK
    <2>2. CASE c = b /\ NameOf[f] = NameOf[e]
      BY <1>2, <1>4, <1>7, <2>1, <2>2 DEF Owned
    <2>3. CASE c # b \/ NameOf[f] # NameOf[e]
      BY <1>2, <1>4, <2>1, <2>3 DEF Owned
    <2> QED
      BY <2>2, <2>3
  <1> QED
    BY <1>1, <1>3, <1>4, <1>6, <1>7, EndpointFrame

\* The deadline passes, and the goroutine of the port-forward moves.
LEMMA OutsideSteps ==
  ASSUME TunnelInv, NEW b \in Rebuilds, NEW e \in Endpoints,
         \/ Expire(b, e) \/ UpgradeEnds(b, e) \/ ForwardStops(b, e) \/ ForwardBreaks(b, e)
  PROVE  TunnelInv'
  <1> USE DEF TunnelInv
  <1>1. CASE Expire(b, e)
    BY <1>1 DEF Expire, TunnelTypeOK, BuildFits, EndpointFits, AllDone, Live, Owned
  <1>2. CASE UpgradeEnds(b, e) \/ ForwardStops(b, e) \/ ForwardBreaks(b, e)
    <2>1. PICK to \in {"failed", "up", "gone"} :
            /\ forward' = [forward EXCEPT ![b][e] = to]
            /\ forward[b][e] \in Running
            /\ UNCHANGED <<phase, step, expired, stopped, clients, skips, active>>
      BY <1>2 DEF UpgradeEnds, ForwardStops, ForwardBreaks, ForwardMoves, Running
    <2>2. Way[e] = "k8s"
      BY <2>1 DEF TunnelTypeOK, Running
    <2>3. TunnelTypeOK'
      <3>1. forward' \in [Rebuilds -> [Endpoints -> Running \cup {"off", "failed", "gone"}]]
        BY <2>1 DEF TunnelTypeOK, Running
      <3>2. \A c \in Rebuilds, f \in Endpoints :
              Way[f] # "k8s" => forward'[c][f] = "off" /\ ~stopped'[c][f]
        BY <2>1, <2>2 DEF TunnelTypeOK
      <3> QED
        BY <2>1, <3>1, <3>2 DEF TunnelTypeOK
    <2>4. \A c \in Rebuilds : BuildFits(c)'
      BY <2>1 DEF BuildFits, AllDone, Owned
    <2>5. ASSUME NEW c \in Rebuilds, NEW f \in Endpoints
          PROVE  EndpointFits(c, f)'
      <3>1. CASE c = b /\ f = e
        <4>1. EndpointFits(b, e) /\ forward[b][e] # "off"
          BY <2>1 DEF Running
        <4> QED
          BY <2>1, <3>1, <4>1 DEF EndpointFits, Live, Owned
      <3>2. CASE c # b \/ f # e
        <4>1. forward'[c][f] = forward[c][f] /\ EndpointFits(c, f)
          BY <2>1, <3>2 DEF TunnelTypeOK
        <4> QED
          BY <2>1, <4>1 DEF EndpointFits, Live, Owned
      <3> QED
        BY <3>1, <3>2
    <2> QED
      BY <2>3, <2>4, <2>5
  <1> QED
    BY <1>1, <1>2

LEMMA TunnelStep ==
  ASSUME TunnelInv, [TunnelNext]_tunnelVars
  PROVE  TunnelInv'
  <1>1. CASE UNCHANGED tunnelVars
    BY <1>1 DEF tunnelVars, buildVars, TunnelInv, TunnelTypeOK, BuildFits, EndpointFits, AllDone,
                Live, Owned
  <1>2. CASE TunnelNext
    BY <1>2, StartStep, PublishSteps, SkipSteps, ForwardSteps, DialStep, OutsideSteps
       DEF TunnelNext, EndpointStep
  <1> QED
    BY <1>1, <1>2

-----------------------------------------------------------------------------
(***************************************************************************)
(* The theorems.                                                           *)
(***************************************************************************)

\* What builds, their goroutines and the pool of tunnels keep true of each other
\* at every step of DbTunnels.
THEOREM TunnelInvariant == TunnelSpec => []TunnelInv
  <1>1. TunnelInit => TunnelInv
    BY TunnelInitially
  <1>2. TunnelInv /\ [TunnelNext]_tunnelVars => TunnelInv'
    BY TunnelStep
  <1> QED
    BY <1>1, <1>2, PTL DEF TunnelSpec

\* A build that is over has an answer for every endpoint, a client or a
\* reason, and leaves no tunnel running that no client of its name answers for.
THEOREM NoTunnelIsLost == TunnelSpec => []TunnelsAccounted
  <1>1. ASSUME TunnelInv
        PROVE  TunnelsAccounted
    <2>1. ASSUME NEW b \in Rebuilds, NEW e \in Endpoints, phase[b] \in {"using", "over"}
          PROVE  step[b][e] = "done"
      BY <1>1, <2>1 DEF TunnelInv, BuildFits, AllDone
    <2>2. TunnelsOwned
      BY <1>1, <2>1 DEF TunnelInv, EndpointFits, TunnelsOwned
    <2>3. EveryEndpointAccounted
      BY <1>1, <2>1 DEF TunnelInv, EndpointFits, EveryEndpointAccounted
    <2> QED
      BY <1>1, <2>2, <2>3 DEF TunnelInv, TunnelsAccounted
  <1> QED
    BY <1>1, TunnelInvariant, PTL

\* The clients of a published registry never change.
THEOREM PublishedIsFrozen == TunnelSpec => PublishedFrozen
  <1> DEFINE Frozen ==
        \A b \in Rebuilds :
          phase[b] \in {"using", "over"} => clients'[b] = clients[b] /\ skips'[b] = skips[b]
  <1>1. ASSUME TunnelInv, TunnelNext
        PROVE  Frozen
    <2>1. SUFFICES ASSUME NEW b \in Rebuilds, phase[b] \in {"using", "over"}
                   PROVE  clients'[b] = clients[b] /\ skips'[b] = skips[b]
      OBVIOUS
    <2>2. \A e \in Endpoints : step[b][e] = "done"
      BY <1>1, <2>1 DEF TunnelInv, BuildFits, AllDone
    <2>3. ASSUME NEW c \in Rebuilds, NEW e \in Endpoints, EndpointStep(c, e)
          PROVE  clients'[b] = clients[b] /\ skips'[b] = skips[b]
      <3>1. c # b
        BY <2>2, <2>3 DEF EndpointStep, PodSelected, PodFails, ForwardReady, ForwardError,
                          ForwardTimeout, Dialled, DialFails
      <3> QED
        BY <1>1, <2>3, <3>1
           DEF TunnelInv, TunnelTypeOK, EndpointStep, PodSelected, PodFails, ForwardReady,
               ForwardError, ForwardTimeout, Dialled, DialFails, Skip
    <2>4. ASSUME NEW c \in Rebuilds, NEW hub \in BOOLEAN, StartBuild(c, hub)
          PROVE  clients'[b] = clients[b] /\ skips'[b] = skips[b]
      BY <1>1, <2>1, <2>4 DEF TunnelInv, TunnelTypeOK, StartBuild
    <2> QED
      BY <1>1, <2>3, <2>4
         DEF TunnelNext, Publish, RunOver, buildVars, Expire, UpgradeEnds, ForwardStops,
             ForwardBreaks, ForwardMoves
  <1>2. UNCHANGED tunnelVars => Frozen
    BY DEF tunnelVars, buildVars
  <1> QED
    BY <1>1, <1>2, TunnelInvariant, PTL DEF TunnelSpec, PublishedFrozen

-----------------------------------------------------------------------------
(***************************************************************************)
(* ToolStream: where the wire is and what has come of each call, as long   *)
(* as the calls can be told apart.                                         *)
(***************************************************************************)

WireOK ==
  /\ dialect \in {"openai", "compat", "anthropic", "google"}
  /\ style \in Styles(dialect)
  /\ calls \in Made
  /\ at \in [call : 1..Len(calls) + 1, line : Nat]
  /\ IF AllWritten THEN at.line = 0 ELSE at.line <= LastLine(at.call)

\* The calls of which an entry has come, and how many pieces of one have.
Seen == {k \in DOMAIN calls : k < at.call \/ (k = at.call /\ at.line > 0)}

Got(k) ==
  IF k < at.call THEN calls[k].pieces ELSE IF style = "eager" THEN at.line ELSE at.line - 1

Partial(k) == ToolCall(k, Prefix(k, Got(k)))

\* An adapter that sends a call as soon as it is whole.
InSequence ==
  /\ ended \in {"no", "done", "cut", "error"}
  /\ ended = "done" => AllWritten
  /\ turn \in Seq({Own(k) : k \in DOMAIN calls}) /\ Len(turn) = at.call - 1
  /\ \A k \in 1..at.call - 1 : turn[k] = Own(k)
  /\ dialect = "anthropic" /\ ended = "no" =>
       /\ DOMAIN blocks = IF at.line > 0 THEN {at.call} ELSE {}
       /\ at.line > 0 => blocks[at.call] = Partial(at.call)

\* An adapter that keeps them all: every call seen is in one place.
Sent == Seen \ DOMAIN blocks

InBlocks ==
  /\ ended \in {"no", "last", "short", "done", "cut", "error"}
  /\ ended \in {"last", "done"} => AllWritten
  /\ ended = "no" => DOMAIN blocks = Seen
  /\ ended \in {"done", "cut"} => DOMAIN blocks = {}
  /\ DOMAIN blocks \subseteq Seen
  /\ \A k \in DOMAIN blocks : blocks[k] = Partial(k)
  /\ turn \in Seq({Normalized(Partial(k)) : k \in Sent})
  /\ Len(turn) = Cardinality(Sent)
  /\ \A k \in Sent : \E i \in 1..Len(turn) : turn[i] = Normalized(Partial(k))

StreamInv ==
  /\ WireOK
  /\ Keyed => IF dialect \in {"openai", "compat"} THEN InBlocks ELSE InSequence

-----------------------------------------------------------------------------
LEMMA MadeFacts ==
  ASSUME calls \in Made
  PROVE  /\ Len(calls) \in Nat /\ DOMAIN calls = 1..Len(calls)
         /\ \A k \in DOMAIN calls : calls[k].pieces \in Nat
         /\ IsFiniteSet(DOMAIN calls)
  <1>1. PICK n \in 0..MaxCalls : calls \in [1..n -> [name : Tools, pieces : 0..MaxPieces]]
    BY DEF Made
  <1>2. MaxCalls \in Nat /\ MaxPieces \in Nat /\ n \in Nat
    BY ToolStreamAssumption
  <1>3. DOMAIN calls = 1..n /\ Len(calls) = n
    BY <1>1, <1>2
  <1>4. \A k \in 1..n : calls[k].pieces \in Nat
    BY <1>1, <1>2
  <1> QED
    BY <1>2, <1>3, <1>4, FS_Interval

\* The pieces of a call, put together.
LEMMA PrefixFacts ==
  ASSUME NEW k
  PROVE  /\ Prefix(k, 0) = <<>>
         /\ \A n \in Nat : /\ Prefix(k, n) \in Seq({<<k, p>> : p \in Nat}) /\ Len(Prefix(k, n)) = n
                           /\ DOMAIN Prefix(k, n) = 1..n
                           /\ Prefix(k, n) \o <<>> = Prefix(k, n)
                           /\ <<>> \o Prefix(k, n) = Prefix(k, n)
                           /\ Prefix(k, n) \o <<<<k, n + 1>>>> = Prefix(k, n + 1)
  <1> DEFINE S == {<<k, p>> : p \in Nat}
  <1>1. ASSUME NEW n \in Nat
        PROVE  /\ Prefix(k, n) \in Seq(S) /\ Len(Prefix(k, n)) = n /\ DOMAIN Prefix(k, n) = 1..n
               /\ \A p \in 1..n : Prefix(k, n)[p] = <<k, p>>
    <2>1. Prefix(k, n) \in [1..n -> S] /\ \A p \in 1..n : Prefix(k, n)[p] = <<k, p>>
      BY DEF Prefix
    <2> HIDE DEF S
    <2> QED
      BY <2>1
  <1>2. \A n \in Nat : <<k, n + 1>> \in S
    OBVIOUS
  <1> HIDE DEF S
  <1>3. ASSUME NEW n \in Nat PROVE Prefix(k, n) \o <<<<k, n + 1>>>> = Prefix(k, n + 1)
    <2> DEFINE s == Prefix(k, n)
               t == <<<<k, n + 1>>>>
               u == Prefix(k, n + 1)
    <2>1. /\ s \in Seq(S) /\ Len(s) = n /\ \A p \in 1..n : s[p] = <<k, p>>
          /\ u \in Seq(S) /\ Len(u) = n + 1 /\ \A p \in 1..n + 1 : u[p] = <<k, p>>
      BY <1>1
    <2>2. t \in Seq(S) /\ Len(t) = 1 /\ t[1] = <<k, n + 1>>
      BY <1>2
    <2> HIDE DEF s, t, u
    <2>3. /\ s \o t \in Seq(S) /\ Len(s \o t) = n + 1
          /\ \A p \in 1..n + 1 : (s \o t)[p] = IF p <= n THEN s[p] ELSE t[p - n]
      <3>1. /\ s \o t \in Seq(S) /\ Len(s \o t) = Len(s) + Len(t)
            /\ \A p \in 1..Len(s) + Len(t) : (s \o t)[p] = IF p <= Len(s) THEN s[p] ELSE t[p - Len(s)]
        <4>1. s \in Seq(S) /\ t \in Seq(S)
          BY <2>1, <2>2
        <4> QED
          BY <4>1, ConcatProperties
      <3>2. Len(s) = n /\ Len(t) = 1
        BY <2>1, <2>2
      <3> QED
        BY <3>1, <3>2
    <2>4. \A p \in 1..n + 1 : (s \o t)[p] = u[p]
      <3> TAKE p \in 1..n + 1
      <3>1. (s \o t)[p] = IF p <= n THEN s[p] ELSE t[p - n]
        BY <2>3
      <3>2. u[p] = <<k, p>>
        BY <2>1
      <3>3. CASE p <= n
        <4>1. p \in 1..n
          BY <3>3
        <4> QED
          BY <2>1, <3>1, <3>2, <3>3, <4>1
      <3>4. CASE ~(p <= n)
        <4>1. p = n + 1 /\ p - n = 1
          BY <3>4
        <4> QED
          BY <2>2, <3>1, <3>2, <3>4, <4>1
      <3> QED
        BY <3>3, <3>4
    <2>5. s \o t = u
      BY <2>1, <2>3, <2>4
    <2> QED
      BY <2>5 DEF s, t, u
  <1>4. Prefix(k, 0) = <<>>
    BY <1>1
  <1>5. \A n \in Nat : Prefix(k, n) \o <<>> = Prefix(k, n) /\ <<>> \o Prefix(k, n) = Prefix(k, n)
    BY <1>1
  <1> QED
    BY <1>1, <1>3, <1>4, <1>5 DEF S

\* What has come of a call is handed on if it is all, and nothing of it else.
LEMMA NormalizedFacts ==
  ASSUME calls \in Made, NEW k \in DOMAIN calls, NEW n \in 0..calls[k].pieces
  PROVE  /\ n = calls[k].pieces => Normalized(ToolCall(k, Prefix(k, n))) = Own(k)
         /\ n # calls[k].pieces => Normalized(ToolCall(k, Prefix(k, n))) = ToolCall(k, NoArguments)
  <1>1. calls[k].pieces \in Nat /\ n \in Nat /\ \A j \in DOMAIN calls : calls[j].pieces \in Nat
    BY MadeFacts
  <1>2. \A a : Normalized(ToolCall(k, a)) = ToolCall(k, NormalizeArguments(a))
    BY DEF Normalized, ToolCall
  <1>3. ASSUME n = 0 PROVE NormalizeArguments(Prefix(k, n)) = NoArguments
    BY <1>3, PrefixFacts DEF NormalizeArguments
  <1>4. ASSUME n # 0 PROVE Prefix(k, n) # <<>>
    BY <1>1, <1>4, PrefixFacts
  <1>5. ASSUME n # 0, NEW j \in DOMAIN calls, Prefix(k, n) = Whole(j)
        PROVE  n = calls[k].pieces
    <2>1. Whole(j) = Prefix(j, calls[j].pieces) /\ calls[j].pieces \in Nat
      BY <1>1 DEF Whole
    <2>2. calls[j].pieces = n
      <3>1. Len(Prefix(k, n)) = n /\ Len(Prefix(j, calls[j].pieces)) = calls[j].pieces
        BY <1>1, PrefixFacts
      <3> QED
        BY <1>5, <2>1, <3>1
    <2>3. Prefix(k, n)[1] = <<k, 1>> /\ Prefix(j, n)[1] = <<j, 1>>
      BY <1>1, <1>5 DEF Prefix
    <2>4. k = j
      BY <1>5, <2>1, <2>2, <2>3
    <2> QED
      BY <2>2, <2>4
  <1>6. CASE n = calls[k].pieces /\ n = 0
    BY <1>2, <1>3, <1>6 DEF Own
  <1>7. CASE n = calls[k].pieces /\ n # 0
    <2>1. Prefix(k, n) = Whole(k)
      BY <1>7 DEF Whole
    <2>2. NormalizeArguments(Prefix(k, n)) = Prefix(k, n)
      BY <1>4, <1>7, <2>1 DEF NormalizeArguments
    <2> QED
      BY <1>2, <1>7, <2>1, <2>2 DEF Own
  <1>8. CASE n # calls[k].pieces
    <2>1. NormalizeArguments(Prefix(k, n)) = NoArguments
      BY <1>3, <1>5, <1>8 DEF NormalizeArguments
    <2> QED
      BY <1>2, <1>8, <2>1
  <1> QED
    BY <1>6, <1>7, <1>8

\* Calls that can be told apart have different ids.
LEMMA KeyedIds ==
  ASSUME calls \in Made, Keyed, NEW j \in DOMAIN calls, NEW k \in DOMAIN calls, j # k
  PROVE  CallID(j) # CallID(k)
  <1>1. ~(Len(calls) <= 1)
    BY MadeFacts
  <1> QED
    BY <1>1 DEF Keyed, CallID

\* A chunk whose id is not that of the one before it starts a call.
LEMMA CollectAppends ==
  ASSUME NEW S, NEW list \in Seq(S), NEW tc, \A i \in 1..Len(list) : list[i].id # tc.id
  PROVE  Collect(list, tc) = Append(list, tc)
  <1>1. Len(list) \in Nat
    OBVIOUS
  <1>2. Len(list) > 0 => Len(list) \in 1..Len(list)
    BY <1>1
  <1> QED
    BY <1>2 DEF Collect

-----------------------------------------------------------------------------
(***************************************************************************)
(* What one entry adds.                                                    *)
(***************************************************************************)

LEMMA WireFacts ==
  ASSUME WireOK
  PROVE  /\ Len(calls) \in Nat /\ DOMAIN calls = 1..Len(calls) /\ IsFiniteSet(DOMAIN calls)
         /\ \A k \in DOMAIN calls : calls[k].pieces \in Nat
         /\ at.call \in 1..Len(calls) + 1 /\ at.line \in Nat
         /\ ~AllWritten => at.call \in DOMAIN calls
         /\ style \in {"blocks", "parts", "plain", "eager", "together"}
         /\ dialect = "anthropic" <=> style = "blocks"
         /\ dialect = "google" <=> style = "parts"
  <1>1. /\ Len(calls) \in Nat /\ DOMAIN calls = 1..Len(calls) /\ IsFiniteSet(DOMAIN calls)
        /\ \A k \in DOMAIN calls : calls[k].pieces \in Nat
    BY MadeFacts DEF WireOK
  <1>2. at.call \in 1..Len(calls) + 1 /\ at.line \in Nat
    BY DEF WireOK
  <1>3. ~AllWritten => at.call \in DOMAIN calls
    BY <1>1, <1>2 DEF AllWritten
  <1>4. /\ style \in {"blocks", "parts", "plain", "eager", "together"}
        /\ dialect = "anthropic" <=> style = "blocks"
        /\ dialect = "google" <=> style = "parts"
    BY DEF WireOK, Styles
  <1> QED
    BY <1>1, <1>2, <1>3, <1>4

LEMMA LastLineFacts ==
  ASSUME WireOK, NEW k \in DOMAIN calls
  PROVE  /\ style = "blocks" => LastLine(k) = calls[k].pieces + 1
         /\ style = "plain" => LastLine(k) = calls[k].pieces
         /\ style = "eager" => LastLine(k) = IF calls[k].pieces > 0 THEN calls[k].pieces - 1 ELSE 0
         /\ style \in {"parts", "together"} => LastLine(k) = 0
         /\ LastLine(k) \in Nat
  BY WireFacts DEF LastLine

LEMMA GotRange ==
  ASSUME WireOK, NEW k \in Seen
  PROVE  k \in DOMAIN calls /\ Got(k) \in 0..calls[k].pieces
  <1>1. k \in DOMAIN calls /\ (k < at.call \/ (k = at.call /\ at.line > 0)) /\ calls[k].pieces \in Nat
    BY WireFacts DEF Seen
  <1>2. CASE k < at.call
    BY <1>1, <1>2 DEF Got
  <1>3. CASE ~(k < at.call) /\ k = at.call /\ at.line > 0
    <2>1. ~AllWritten
      BY <1>1, <1>3, WireFacts DEF AllWritten
    <2>2. at.line <= LastLine(k) /\ at.line \in Nat
      BY <1>3, <2>1, WireFacts DEF WireOK
    <2>3. style \in {"blocks", "plain", "eager"}
      BY <1>1, <1>3, <2>2, LastLineFacts, WireFacts
    <2> QED
      BY <1>1, <1>3, <2>2, <2>3, LastLineFacts DEF Got
  <1> QED
    BY <1>1, <1>2, <1>3

\* The wire goes on to the next entry.
LEMMA Advances ==
  ASSUME WireOK, ~AllWritten, at' = After, UNCHANGED wireVars, NEW k, k = at.call
  PROVE  /\ WireOK'
         /\ Seen' = Seen \cup {k} /\ (k \in Seen <=> at.line > 0)
         /\ \A j \in Seen : j # k => Got(j)' = Got(j)
         /\ Got(k)' = IF at.line < LastLine(k)
                      THEN (IF style = "eager" THEN at.line + 1 ELSE at.line)
                      ELSE calls[k].pieces
         /\ at'.call = IF at.line < LastLine(k) THEN k ELSE k + 1
         /\ at'.line = IF at.line < LastLine(k) THEN at.line + 1 ELSE 0
  <1>0. UNCHANGED <<dialect, style, calls>>
    BY DEF wireVars
  <1>1. /\ k \in DOMAIN calls /\ calls[k].pieces \in Nat /\ Len(calls) \in Nat
        /\ DOMAIN calls = 1..Len(calls) /\ at.line \in Nat
        /\ at \in [call : 1..Len(calls) + 1, line : Nat]
    BY WireFacts DEF WireOK
  <1>11. LastLine(k) \in Nat /\ k \in Nat
    BY <1>1, LastLineFacts
  <1>2. /\ at'.call = IF at.line < LastLine(k) THEN k ELSE k + 1
        /\ at'.line = IF at.line < LastLine(k) THEN at.line + 1 ELSE 0
        /\ at' \in [call : 1..Len(calls) + 1, line : Nat]
    <2>1. CASE at.line < LastLine(k)
      <3>1. at' = [at EXCEPT !.line = @ + 1]
        BY <2>1 DEF After
      <3> QED
        BY <1>1, <2>1, <3>1
    <2>2. CASE ~(at.line < LastLine(k))
      <3>1. at' = [call |-> k + 1, line |-> 0]
        BY <2>2 DEF After
      <3>2. k + 1 \in 1..Len(calls) + 1
        BY <1>1
      <3> QED
        BY <2>2, <3>1, <3>2
    <2> QED
      BY <2>1, <2>2
  <1>3. WireOK'
    <2>1. \A j : LastLine(j)' = LastLine(j)
      BY <1>0 DEF LastLine
    <2>2. Styles(dialect)' = Styles(dialect) /\ Made' = Made
      BY <1>0 DEF Styles, Made
    <2>3. (IF AllWritten THEN at.line = 0 ELSE at.line <= LastLine(at.call))'
      <3>1. CASE at.line < LastLine(k)
        <4>1. at'.call = k /\ at'.line <= LastLine(k) /\ ~AllWritten'
          BY <1>0, <1>1, <1>11, <1>2, <3>1 DEF AllWritten
        <4>2. LastLine(at.call)' = LastLine(k)
          BY <1>0, <4>1 DEF LastLine
        <4> QED
          BY <4>1, <4>2
      <3>2. CASE ~(at.line < LastLine(k))
        <4>1. at'.call = k + 1 /\ at'.line = 0
          BY <1>2, <3>2
        <4>2. ASSUME ~AllWritten' PROVE LastLine(k + 1) \in Nat
          <5>1. k + 1 \in DOMAIN calls
            BY <1>0, <1>1, <4>1, <4>2 DEF AllWritten
          <5> QED
            BY <5>1, LastLineFacts
        <4>3. LastLine(at.call)' = LastLine(k + 1)
          BY <1>0, <4>1 DEF LastLine
        <4> QED
          BY <4>1, <4>2, <4>3
      <3> QED
        BY <3>1, <3>2
    <2> QED
      BY <1>0, <1>2, <2>2, <2>3 DEF WireOK
  <1>4. Seen' = Seen \cup {k} /\ (k \in Seen <=> at.line > 0)
    <2>1. ASSUME NEW j \in DOMAIN calls
          PROVE  (j < at'.call \/ (j = at'.call /\ at'.line > 0))
                 <=> (j < k \/ (j = k /\ at.line > 0)) \/ j = k
      <3>1. j \in Nat
        BY <1>1
      <3> QED
        BY <1>1, <1>11, <1>2, <3>1
    <2>2. Seen' = {j \in DOMAIN calls : j < at'.call \/ (j = at'.call /\ at'.line > 0)}
      BY <1>0 DEF Seen
    <2>3. Seen = {j \in DOMAIN calls : j < k \/ (j = k /\ at.line > 0)}
      BY DEF Seen
    <2> QED
      BY <1>1, <1>11, <2>1, <2>2, <2>3
  <1>5. ASSUME NEW j \in Seen, j # k PROVE Got(j)' = Got(j)
    <2>1. j < k /\ j \in DOMAIN calls /\ j < at'.call
      BY <1>1, <1>11, <1>2, <1>5 DEF Seen
    <2>2. Got(j) = calls[j].pieces
      BY <2>1 DEF Got
    <2>3. Got(j)' = calls[j].pieces
      BY <1>0, <2>1 DEF Got
    <2> QED
      BY <2>2, <2>3
  <1>6. Got(k)' = IF at.line < LastLine(k)
                  THEN (IF style = "eager" THEN at.line + 1 ELSE at.line)
                  ELSE calls[k].pieces
    <2>1. CASE at.line < LastLine(k)
      <3>1. at'.call = k /\ at'.line = at.line + 1 /\ ~(k < k) /\ at.line + 1 - 1 = at.line
        BY <1>1, <1>11, <1>2, <2>1
      <3>2. Got(k)' = IF k < at'.call THEN calls[k].pieces
                      ELSE IF style = "eager" THEN at'.line ELSE at'.line - 1
        BY <1>0 DEF Got
      <3>3. Got(k)' = IF style = "eager" THEN at'.line ELSE at'.line - 1
        BY <3>1, <3>2
      <3>4. Got(k)' = IF style = "eager" THEN at.line + 1 ELSE at.line
        BY <1>1, <3>1, <3>3
      <3> QED
        BY <2>1, <3>4
    <2>2. CASE ~(at.line < LastLine(k))
      <3>1. k < at'.call
        BY <1>1, <1>11, <1>2, <2>2
      <3>2. Got(k)' = calls[k].pieces
        BY <1>0, <3>1 DEF Got
      <3> QED
        BY <2>2, <3>2
    <2> QED
      BY <2>1, <2>2
  <1> QED
    BY <1>2, <1>3, <1>4, <1>5, <1>6

\* The entries of OpenAI's kin: what they carry continues what has come.
LEMMA EntryGrows ==
  ASSUME WireOK, ~AllWritten, at' = After, UNCHANGED wireVars,
         style \in {"plain", "eager", "together"},
         NEW k, k = at.call, NEW p, p = at.line, NEW n, n = calls[k].pieces
  PROVE  /\ NextEntry.call = k /\ (NextEntry.start <=> p = 0)
         /\ NextEntry.type = "delta"
         /\ Got(k)' \in 0..n
         /\ p = 0 => NextEntry.args = Prefix(k, Got(k)')
         /\ p > 0 => Got(k) \in Nat /\ Prefix(k, Got(k)) \o NextEntry.args = Prefix(k, Got(k)')
  <1> DEFINE e == NextEntry
             now == Got(k)'
  <1>1. k \in DOMAIN calls /\ n \in Nat /\ p \in Nat /\ p <= LastLine(k) /\ k \in Nat
    BY WireFacts DEF WireOK
  <1>12. now = IF p < LastLine(k) THEN (IF style = "eager" THEN p + 1 ELSE p) ELSE n
    BY Advances
  <1>13. style = "eager" => LastLine(k) = IF n > 0 THEN n - 1 ELSE 0
    BY <1>1, LastLineFacts
  <1>2. e = EntryOf(k, p)
    BY DEF NextEntry
  <1>3. Got(k) = IF style = "eager" THEN p ELSE p - 1
    <2>1. ~(k < at.call)
      BY <1>1
    <2> QED
      BY <2>1 DEF Got
  <1> SUFFICES /\ e.call = k /\ (e.start <=> p = 0) /\ e.type = "delta"
               /\ now \in 0..n
               /\ p = 0 => e.args = Prefix(k, now)
               /\ p > 0 => Got(k) \in Nat /\ Prefix(k, Got(k)) \o e.args = Prefix(k, now)
    OBVIOUS
  <1> HIDE DEF e, now
  <1>4. CASE style = "plain"
    <2>1. e.call = k /\ (e.start <=> p = 0) /\ e.type = "delta" /\ e.args = Piece(k, p)
      BY <1>2, <1>4 DEF EntryOf, Entry
    <2>2. now = p /\ p <= n
      BY <1>1, <1>12, <1>4, LastLineFacts
    <2>3. CASE p = 0
      <3>1. e.args = <<>>
        BY <1>1, <2>1, <2>3 DEF Piece
      <3> QED
        BY <1>1, <2>1, <2>2, <2>3, <3>1, PrefixFacts
    <2>4. CASE p > 0
      <3>1. e.args = <<<<k, p>>>> /\ Got(k) = p - 1 /\ p - 1 \in Nat /\ p - 1 + 1 = p
        BY <1>1, <1>3, <1>4, <2>1, <2>2, <2>4 DEF Piece
      <3>2. Prefix(k, p - 1) \o <<<<k, p - 1 + 1>>>> = Prefix(k, p - 1 + 1)
        BY <3>1, PrefixFacts
      <3>3. Prefix(k, p - 1) \o <<<<k, p>>>> = Prefix(k, p)
        BY <3>1, <3>2
      <3>4. now \in 0..n /\ ~(p = 0) /\ Got(k) \in Nat
        BY <1>1, <2>2, <2>4, <3>1
      <3>5. Prefix(k, Got(k)) \o e.args = Prefix(k, now)
        BY <2>2, <3>1, <3>3
      <3> QED
        BY <2>1, <2>4, <3>4, <3>5
    <2>5. p = 0 \/ p > 0
      BY <1>1
    <2> QED
      BY <2>3, <2>4, <2>5
  <1>5. CASE style = "eager"
    <2>1. e.call = k /\ (e.start <=> p = 0) /\ e.type = "delta" /\ e.args = Piece(k, p + 1)
      BY <1>2, <1>5 DEF EntryOf, Entry
    <2>2. CASE n = 0
      <3>1. p = 0
        BY <1>1, <1>13, <1>5, <2>2
      <3>2. now = 0
        BY <1>1, <1>12, <1>13, <1>5, <2>2, <3>1
      <3>3. e.args = <<>>
        BY <2>1, <2>2, <3>1 DEF Piece
      <3>4. now \in 0..n /\ Prefix(k, now) = <<>> /\ ~(p > 0)
        BY <1>1, <3>1, <3>2, PrefixFacts
      <3> QED
        BY <2>1, <3>1, <3>3, <3>4
    <2>3. CASE n > 0
      <3>1. p + 1 <= n /\ now = p + 1
        BY <1>1, <1>12, <1>5, <2>3, LastLineFacts
      <3>2. e.args = <<<<k, p + 1>>>>
        BY <1>1, <2>1, <3>1 DEF Piece
      <3>3. Prefix(k, p) \o <<<<k, p + 1>>>> = Prefix(k, p + 1)
        BY <1>1, PrefixFacts
      <3>4. p = 0 => e.args = Prefix(k, 1)
        <4>1. Prefix(k, 0) \o <<<<k, 0 + 1>>>> = Prefix(k, 0 + 1) /\ Prefix(k, 0) = <<>>
          BY PrefixFacts
        <4>2. <<>> \o <<<<k, 1>>>> = <<<<k, 1>>>>
          OBVIOUS
        <4> QED
          BY <3>2, <4>1, <4>2
      <3>5. Got(k) = p /\ now \in 0..n /\ (p = 0 => now = 1)
        BY <1>1, <1>3, <1>5, <3>1
      <3>6. p = 0 => e.args = Prefix(k, now)
        BY <3>4, <3>5
      <3>7. p > 0 => Got(k) \in Nat /\ Prefix(k, Got(k)) \o e.args = Prefix(k, now)
        BY <1>1, <3>1, <3>2, <3>3, <3>5
      <3> QED
        BY <2>1, <3>5, <3>6, <3>7
    <2>4. n = 0 \/ n > 0
      BY <1>1
    <2> QED
      BY <2>2, <2>3, <2>4
  <1>6. CASE style = "together"
    <2>1. e.call = k /\ e.start /\ e.type = "delta" /\ e.args = Whole(k)
      BY <1>2, <1>6 DEF EntryOf, Entry
    <2>2. p = 0 /\ now = n
      BY <1>1, <1>12, <1>6, LastLineFacts
    <2> QED
      BY <1>1, <2>1, <2>2 DEF Whole
  <1> QED
    BY <1>4, <1>5, <1>6

\* What the wire fixes stays as it is.
LEMMA WireStays ==
  ASSUME UNCHANGED wireVars
  PROVE  /\ Keyed' = Keyed
         /\ \A k : Own(k)' = Own(k)
         /\ \A k, a : ToolCall(k, a)' = ToolCall(k, a)
         /\ \A k, n : Normalized(ToolCall(k, Prefix(k, n)))' = Normalized(ToolCall(k, Prefix(k, n)))
  <1>1. UNCHANGED <<dialect, style, calls>>
    BY DEF wireVars
  <1>2. Keyed' = Keyed
    BY <1>1 DEF Keyed
  <1>3. \A k, a : ToolCall(k, a)' = ToolCall(k, a)
    BY <1>1 DEF ToolCall, CallID
  <1>4. \A k : Whole(k)' = Whole(k)
    BY <1>1 DEF Whole, Prefix
  <1>5. \A k : Own(k)' = Own(k)
    BY <1>1, <1>3, <1>4 DEF Own, ToolCall, CallID, NoArguments, Whole, Prefix
  <1>6. \A k, n : Normalized(ToolCall(k, Prefix(k, n)))' = Normalized(ToolCall(k, Prefix(k, n)))
    BY <1>1 DEF Normalized, ToolCall, CallID, NormalizeArguments, NoArguments, Whole, Prefix
  <1> QED
    BY <1>2, <1>3, <1>5, <1>6

\* Nothing more is read.
LEMMA Frozen ==
  ASSUME WireOK, UNCHANGED <<wireVars, at>>
  PROVE  /\ WireOK' /\ Seen' = Seen /\ AllWritten' = AllWritten /\ Keyed' = Keyed
         /\ \A k : Partial(k)' = Partial(k)
         /\ \A k : Normalized(Partial(k))' = Normalized(Partial(k))
         /\ \A k : Own(k)' = Own(k)
  <1>1. UNCHANGED <<dialect, style, calls, at>>
    BY DEF wireVars
  <1>2. \A k : Got(k)' = Got(k)
    BY <1>1 DEF Got
  <1>3. Seen' = Seen /\ AllWritten' = AllWritten
    BY <1>1 DEF Seen, AllWritten
  <1>4. \A k : Partial(k)' = Partial(k) /\ Normalized(Partial(k))' = Normalized(Partial(k))
    BY <1>1 DEF Partial, Got, Normalized, ToolCall, CallID, NormalizeArguments, NoArguments, Whole, Prefix
  <1>5. WireOK'
    BY <1>1 DEF WireOK, Styles, Made, AllWritten, LastLine
  <1> QED
    BY <1>3, <1>4, <1>5, WireStays

\* The place of an entry is that of its call, where calls can be told apart.
LEMMA KeyedPlace ==
  ASSUME WireOK, Keyed, ~AllWritten
  PROVE  /\ dialect = "openai" => OpenAIIndex = at.call
         /\ dialect = "compat" => CompatIndex = at.call
  <1>1. /\ Len(calls) \in Nat /\ at.call \in 1..Len(calls)
    BY WireFacts
  <1>2. Len(calls) <= 1 => at.call = 1 /\ Len(calls) = 1
    <2> DEFINE n == Len(calls)
               k == at.call
    <2>1. n \in Nat /\ k \in 1..n
      BY <1>1
    <2> HIDE DEF n, k
    <2>2. n <= 1 => k = 1 /\ n = 1
      BY <2>1
    <2> QED
      BY <2>2 DEF n, k
  <1>3. dialect = "openai" => Len(calls) <= 1
    BY DEF Keyed
  <1>4. dialect = "compat" => style = "together" \/ Len(calls) <= 1
    BY DEF Keyed
  <1>5. dialect = "openai" => OpenAIIndex = at.call
    BY <1>2, <1>3 DEF OpenAIIndex, Width
  <1>6. dialect = "compat" => CompatIndex = at.call
    BY <1>2, <1>4 DEF CompatIndex, Place
  <1> QED
    BY <1>5, <1>6

-----------------------------------------------------------------------------
(***************************************************************************)
(* The adapters that keep the calls until the end.                         *)
(***************************************************************************)

LEMMA EntryAccumulates ==
  ASSUME WireOK, InBlocks, ended = "no", ~AllWritten, at' = After,
         style \in {"plain", "eager", "together"},
         UNCHANGED <<wireVars, turn, ended>>,
         NEW k, k = at.call, blocks' = Accumulated(k, NextEntry)
  PROVE  InBlocks'
  <1> DEFINE e == NextEntry
             old == IF k \in DOMAIN blocks THEN blocks[k] ELSE ToolCall(k, <<>>)
             new == IF e.start THEN ToolCall(k, old.args \o e.args)
                               ELSE [old EXCEPT !.args = @ \o e.args]
             now == Got(k)'
  <1>0. UNCHANGED wireVars
    OBVIOUS
  <1>1. /\ k \in DOMAIN calls /\ at.line \in Nat /\ calls[k].pieces \in Nat
        /\ WireOK' /\ Seen' = Seen \cup {k} /\ (k \in Seen <=> at.line > 0)
        /\ \A j \in Seen : j # k => Got(j)' = Got(j)
    BY WireFacts, Advances, <1>0
  <1>2. /\ e.call = k /\ (e.start <=> at.line = 0)
        /\ now \in 0..calls[k].pieces
        /\ at.line = 0 => e.args = Prefix(k, now)
        /\ at.line > 0 => Got(k) \in Nat /\ Prefix(k, Got(k)) \o e.args = Prefix(k, now)
    <2>1. \A p, n : p = at.line /\ n = calls[k].pieces =>
            /\ e.call = k /\ (e.start <=> p = 0)
            /\ now \in 0..n
            /\ p = 0 => e.args = Prefix(k, now)
            /\ p > 0 => Got(k) \in Nat /\ Prefix(k, Got(k)) \o e.args = Prefix(k, now)
      <3> TAKE p, n
      <3> HAVE p = at.line /\ n = calls[k].pieces
      <3> QED
        BY EntryGrows, <1>0
    <2> QED
      BY <2>1
  <1>3. /\ DOMAIN blocks = Seen /\ \A j \in DOMAIN blocks : blocks[j] = Partial(j)
        /\ Sent = {} /\ Len(turn) = 0 /\ turn \in Seq({})
    <2>1. Sent = {}
      BY DEF InBlocks, Sent
    <2> QED
      BY <2>1, FS_EmptySet DEF InBlocks
  <1>4. blocks' = [j \in DOMAIN blocks \cup {k} |-> IF j = k THEN new ELSE blocks[j]]
    BY <1>2 DEF Accumulated
  <1>5. Partial(k)' = ToolCall(k, Prefix(k, now))
    BY <1>0, WireStays DEF Partial
  <1>6. new = ToolCall(k, Prefix(k, now))
    <2>1. CASE at.line = 0
      <3>1. old = ToolCall(k, <<>>) /\ e.start
        BY <1>1, <1>2, <1>3, <2>1
      <3>2. old.args = <<>>
        BY <3>1 DEF ToolCall
      <3>3. <<>> \o Prefix(k, now) = Prefix(k, now)
        BY <1>1, <1>2, PrefixFacts
      <3> QED
        BY <1>2, <2>1, <3>1, <3>2, <3>3
    <2>2. CASE at.line > 0
      <3>1. old = ToolCall(k, Prefix(k, Got(k))) /\ ~e.start
        BY <1>1, <1>2, <1>3, <2>2 DEF Partial
      <3>2. [old EXCEPT !.args = @ \o e.args] = ToolCall(k, Prefix(k, Got(k)) \o e.args)
        <4>1. ASSUME NEW o, NEW a, NEW b, o = ToolCall(k, a)
              PROVE  [o EXCEPT !.args = @ \o b] = ToolCall(k, a \o b)
          <5>1. o.args = a
            BY <4>1 DEF ToolCall
          <5> DEFINE c == a \o b
          <5> HIDE DEF c
          <5>2. [o EXCEPT !.args = c] = ToolCall(k, c)
            BY <4>1 DEF ToolCall
          <5> QED
            BY <5>1, <5>2 DEF c
        <4> HIDE DEF old, e
        <4> QED
          BY ONLY <3>1, <4>1
      <3> QED
        BY <1>2, <2>2, <3>1, <3>2
    <2>3. at.line = 0 \/ at.line > 0
      BY <1>1
    <2> QED
      BY <2>1, <2>2, <2>3
  <1> HIDE DEF e, old, new, now
  <1>7. DOMAIN blocks' = Seen'
    BY <1>1, <1>3, <1>4
  <1>8. ASSUME NEW j \in DOMAIN blocks' PROVE (blocks')[j] = Partial(j)'
    <2>1. CASE j = k
      BY <1>4, <1>5, <1>6, <1>8, <2>1
    <2>2. CASE j # k
      <3>1. j \in Seen /\ (blocks')[j] = Partial(j)
        BY <1>3, <1>4, <1>8, <2>2
      <3>2. Partial(j)' = Partial(j)
        <4>1. Partial(j)' = ToolCall(j, Prefix(j, Got(j)'))
          BY <1>0, WireStays DEF Partial
        <4> QED
          BY <1>1, <2>2, <3>1, <4>1 DEF Partial
      <3> QED
        BY <3>1, <3>2
    <2> QED
      BY <2>1, <2>2
  <1>9. Sent' = {} /\ Cardinality(Sent') = 0
    <2>1. Sent' = {}
      BY <1>7 DEF Sent
    <2> QED
      BY <2>1, FS_EmptySet
  <1>10. turn' = turn /\ ended' = "no" /\ turn = <<>>
    BY <1>3
  <1> DEFINE S == {Normalized(Partial(j)) : j \in Sent}
  <1>11. turn' \in Seq(S') /\ Len(turn') = 0
    <2> HIDE DEF S
    <2> QED
      BY <1>10
  <1> QED
    BY <1>7, <1>8, <1>9, <1>10, <1>11 DEF InBlocks

\* One of the calls kept is sent; those kept are still as far as they came.
LEMMA KeptIsSent ==
  ASSUME WireOK, Keyed, InBlocks, OpenAISends
  PROVE  InBlocks'
  <1>1. PICK k \in DOMAIN blocks : /\ turn' = Collect(turn, Normalized(blocks[k]))
                                   /\ blocks' = Without(k)
    BY DEF OpenAISends
  <1> DEFINE N(j) == Normalized(Partial(j))
  <1>2. /\ Seen' = Seen /\ AllWritten' = AllWritten /\ ended' = ended
        /\ \A j : Partial(j)' = Partial(j) /\ N(j)' = N(j)
    BY Frozen DEF OpenAISends
  <1>3. /\ DOMAIN blocks' = DOMAIN blocks \ {k}
        /\ \A j \in DOMAIN blocks' : (blocks')[j] = blocks[j]
    BY <1>1 DEF Without
  <1>4. /\ DOMAIN blocks \subseteq Seen /\ k \in Seen /\ k \notin Sent
        /\ Sent' = Sent \cup {k}
    BY <1>1, <1>2, <1>3 DEF InBlocks, Sent
  <1>5. IsFiniteSet(Sent) /\ Sent \subseteq DOMAIN calls /\ k \in DOMAIN calls
    <2>1. Sent \subseteq DOMAIN calls /\ k \in DOMAIN calls
      BY <1>4 DEF Sent, Seen
    <2> QED
      BY <2>1, WireFacts, FS_Subset
  <1>6. Cardinality(Sent') = Cardinality(Sent) + 1 /\ Cardinality(Sent) \in Nat
    BY <1>4, <1>5, FS_AddElement, FS_CardinalityType
  <1>7. blocks[k] = Partial(k)
    BY DEF InBlocks
  <1>8. \A j : N(j).id = CallID(j)
    BY DEF Partial, Normalized, ToolCall
  <1> DEFINE S == {N(j) : j \in Sent}
             T == {N(j) : j \in Sent \cup {k}}
  <1>9. turn \in Seq(S) /\ Len(turn) = Cardinality(Sent) /\ \A j \in Sent : \E i \in 1..Len(turn) : turn[i] = N(j)
    BY DEF InBlocks
  <1>10. turn' = Append(turn, N(k))
    <2>1. ASSUME NEW i \in 1..Len(turn) PROVE turn[i].id # N(k).id
      <3>1. turn[i] \in S
        BY <1>9
      <3>2. PICK j \in Sent : turn[i] = N(j)
        BY <3>1
      <3>3. CallID(j) # CallID(k)
        BY <1>4, <1>5, KeyedIds DEF WireOK
      <3> QED
        BY <1>8, <3>2, <3>3
    <2> HIDE DEF N, S
    <2>2. Collect(turn, N(k)) = Append(turn, N(k))
      BY <1>9, <2>1, CollectAppends
    <2> QED
      BY <1>1, <1>7, <2>2 DEF N
  <1>11. T = {N(j) : j \in Sent}'
    BY <1>2, <1>4
  <1>12. /\ turn' \in Seq(T) /\ Len(turn') = Len(turn) + 1
         /\ \A i \in 1..Len(turn) : (turn')[i] = turn[i]
         /\ (turn')[Len(turn) + 1] = N(k)
    <2>1. S \subseteq T /\ N(k) \in T
      OBVIOUS
    <2> HIDE DEF N, S, T
    <2>2. turn \in Seq(T)
      BY <1>9, <2>1
    <2> QED
      BY <1>10, <2>1, <2>2
  <1>13. ASSUME NEW j \in Sent' PROVE \E i \in 1..Len(turn') : (turn')[i] = N(j)
    <2>1. Len(turn) \in Nat
      BY <1>9
    <2> HIDE DEF N
    <2>2. CASE j = k
      BY <1>12, <2>1, <2>2
    <2>3. CASE j # k
      <3>1. PICK i \in 1..Len(turn) : turn[i] = N(j)
        BY <1>4, <1>9, <1>13, <2>3
      <3> QED
        BY <1>12, <2>1, <3>1
    <2> QED
      BY <2>2, <2>3
  <1>14. ended \in {"last", "short"} /\ (ended = "last" => AllWritten)
    BY DEF OpenAISends, InBlocks
  <1>15. \A j \in DOMAIN blocks' : (blocks')[j] = Partial(j)'
    BY <1>2, <1>3 DEF InBlocks
  <1>16. turn' \in Seq({N(j) : j \in Sent}')
    <2> HIDE DEF T
    <2> QED
      BY <1>11, <1>12
  <1>17. /\ (turn \in Seq({Normalized(Partial(j)) : j \in Sent}))'
         /\ (\A j \in Sent : \E i \in 1..Len(turn) : turn[i] = Normalized(Partial(j)))'
         /\ (Len(turn) = Cardinality(Sent))'
    BY <1>2, <1>6, <1>9, <1>12, <1>13, <1>16
  <1>18. DOMAIN blocks' \subseteq Seen'
    BY <1>2, <1>3, <1>4
  <1> QED
    BY <1>2, <1>14, <1>15, <1>17, <1>18 DEF InBlocks

\* The end of the input, and of the sending.
LEMMA BlocksEnd ==
  ASSUME WireOK, InBlocks, UNCHANGED <<wireVars, at, blocks, turn>>,
         \/ ended = "no" /\ AllWritten /\ ended' = "last"
         \/ ended = "no" /\ ended' \in {"short", "error"}
         \/ OpenAISendsDone
  PROVE  InBlocks'
  <1>1. /\ Seen' = Seen /\ AllWritten' = AllWritten /\ blocks' = blocks /\ turn' = turn
        /\ \A j : Partial(j)' = Partial(j) /\ Normalized(Partial(j))' = Normalized(Partial(j))
    BY Frozen
  <1>2. Sent' = Sent
    BY <1>1 DEF Sent
  <1>3. /\ ended' \in {"last", "short", "done", "cut", "error"}
        /\ ended' \in {"last", "done"} => AllWritten
        /\ ended' \in {"done", "cut"} => DOMAIN blocks = {}
    BY DEF OpenAISendsDone, InBlocks
  <1> QED
    BY <1>1, <1>2, <1>3 DEF InBlocks

-----------------------------------------------------------------------------
(***************************************************************************)
(* The adapters that send a call as soon as it is whole.                   *)
(***************************************************************************)

\* The next call follows those that were sent.
LEMMA NextIsCollected ==
  ASSUME WireOK, Keyed, InSequence, ~AllWritten, NEW k, k = at.call
  PROVE  /\ Collect(turn, Own(k)) \in Seq({Own(j) : j \in DOMAIN calls})
         /\ Len(Collect(turn, Own(k))) = k
         /\ \A j \in 1..k : Collect(turn, Own(k))[j] = Own(j)
  <1> DEFINE S == {Own(j) : j \in DOMAIN calls}
  <1>1. /\ k \in DOMAIN calls /\ DOMAIN calls = 1..Len(calls) /\ Len(calls) \in Nat /\ k \in Nat
    BY WireFacts
  <1>2. turn \in Seq(S) /\ Len(turn) = k - 1 /\ \A j \in 1..k - 1 : turn[j] = Own(j)
    BY DEF InSequence
  <1>3. \A j : Own(j).id = CallID(j)
    BY DEF Own, ToolCall
  <1>4. Own(k) \in S
    BY <1>1
  <1>5. ASSUME NEW i \in 1..Len(turn) PROVE turn[i].id # Own(k).id
    <2>1. i \in DOMAIN calls /\ i # k /\ turn[i] = Own(i)
      BY <1>1, <1>2
    <2>2. CallID(i) # CallID(k)
      BY <1>1, <2>1, KeyedIds DEF WireOK
    <2> QED
      BY <1>3, <2>1, <2>2
  <1> HIDE DEF S
  <1>6. Collect(turn, Own(k)) = Append(turn, Own(k))
    BY <1>2, <1>5, CollectAppends
  <1>7. /\ Append(turn, Own(k)) \in Seq(S) /\ Len(Append(turn, Own(k))) = k
        /\ \A j \in 1..k - 1 : Append(turn, Own(k))[j] = turn[j]
        /\ Append(turn, Own(k))[k] = Own(k)
    BY <1>1, <1>2, <1>4
  <1>8. ASSUME NEW j \in 1..k PROVE Append(turn, Own(k))[j] = Own(j)
    <2>1. j \in 1..k - 1 \/ j = k
      BY <1>1
    <2> QED
      BY <1>2, <1>7, <2>1
  <1> QED
    BY <1>6, <1>7, <1>8 DEF S

\* The call on the wire is whole, and is sent.
LEMMA WholeIsSent ==
  ASSUME WireOK, Keyed, InSequence, ~AllWritten, UNCHANGED <<wireVars, ended>>, ended = "no",
         NEW k, k = at.call, at' = [call |-> k + 1, line |-> 0],
         turn' = Collect(turn, Own(k)), dialect = "anthropic" => DOMAIN blocks' = {}
  PROVE  InSequence'
  <1> DEFINE S == {Own(j) : j \in DOMAIN calls}
  <1>1. UNCHANGED <<dialect, style, calls>> /\ ended' = "no" /\ UNCHANGED wireVars
    BY DEF wireVars
  <1>2. k \in Nat
    BY WireFacts
  <1>3. at'.call = k + 1 /\ at'.line = 0 /\ k + 1 - 1 = k /\ at'.call - 1 = k
    BY <1>2
  <1>4. \A j : Own(j)' = Own(j)
    BY <1>1, WireStays
  <1>5. S' = S
    BY <1>1, <1>4
  <1>6. turn' \in Seq(S) /\ Len(turn') = k /\ \A j \in 1..k : (turn')[j] = Own(j)
    BY NextIsCollected
  <1>7. turn' \in Seq(S')
    <2> HIDE DEF S
    <2> QED
      BY <1>5, <1>6
  <1>8. \A j \in 1..at'.call - 1 : (turn')[j] = Own(j)'
    BY <1>3, <1>4, <1>6
  <1>9. ~(at'.line > 0)
    BY <1>3
  <1>10. dialect' = "anthropic" /\ ended' = "no" =>
           /\ DOMAIN blocks' = IF at'.line > 0 THEN {at'.call} ELSE {}
           /\ at'.line > 0 => (blocks')[at'.call] = Partial(at.call)'
    BY <1>1, <1>9
  <1>11. (turn \in Seq({Own(j) : j \in DOMAIN calls}))' /\ Len(turn') = at'.call - 1
    BY <1>3, <1>6, <1>7
  <1> QED
    BY <1>1, <1>8, <1>10, <1>11 DEF InSequence

\* The block on the wire grows, and nothing is sent.
LEMMA BlockGrows ==
  ASSUME WireOK, InSequence, ~AllWritten, UNCHANGED <<wireVars, turn, ended>>, ended = "no",
         dialect = "anthropic", at' = After, at.line < LastLine(at.call),
         NEW k, k = at.call, DOMAIN blocks' = {k}, (blocks')[k] = ToolCall(k, Prefix(k, at.line))
  PROVE  InSequence'
  <1>1. UNCHANGED <<dialect, style, calls>> /\ ended' = "no" /\ UNCHANGED wireVars
    BY DEF wireVars
  <1>2. k \in Nat /\ at.line \in Nat /\ style = "blocks"
    BY WireFacts
  <1>3. at'.call = k /\ at'.line = at.line + 1 /\ at'.line > 0 /\ Got(k)' = at.line
    BY <1>1, <1>2, Advances
  <1>4. \A j : Own(j)' = Own(j)
    BY <1>1, WireStays
  <1>5. Partial(k)' = ToolCall(k, Prefix(k, at.line))
    <2>1. Partial(k)' = ToolCall(k, Prefix(k, Got(k)'))
      BY <1>1, WireStays DEF Partial
    <2> QED
      BY <1>3, <2>1
  <1>6. Partial(at.call)' = Partial(k)'
    BY <1>3 DEF Partial, Got, ToolCall, CallID, Prefix
  <1>7. {Own(j) : j \in DOMAIN calls}' = {Own(j) : j \in DOMAIN calls}
    BY <1>1, <1>4
  <1> DEFINE S == {Own(j) : j \in DOMAIN calls}
  <1>8. turn' \in Seq(S')
    <2>1. turn \in Seq(S) /\ S' = S /\ turn' = turn
      BY <1>7 DEF InSequence
    <2> HIDE DEF S
    <2> QED
      BY <2>1
  <1>9. Len(turn') = at'.call - 1 /\ \A j \in 1..at'.call - 1 : (turn')[j] = Own(j)'
    BY <1>3, <1>4 DEF InSequence
  <1>10. /\ DOMAIN blocks' = IF at'.line > 0 THEN {at'.call} ELSE {}
         /\ at'.line > 0 => (blocks')[at'.call] = Partial(at.call)'
    BY <1>3, <1>5, <1>6
  <1> QED
    BY <1>1, <1>8, <1>9, <1>10 DEF InSequence

LEMMA SequenceEnds ==
  ASSUME WireOK, InSequence, UNCHANGED <<wireVars, at, blocks, turn>>,
         ended' \in {"done", "cut", "error"}, ended' = "done" => AllWritten
  PROVE  InSequence'
  <1>1. /\ AllWritten' = AllWritten /\ UNCHANGED <<dialect, calls, at, turn>>
        /\ \A j : Own(j)' = Own(j)
    BY Frozen DEF wireVars
  <1>2. {Own(j) : j \in DOMAIN calls}' = {Own(j) : j \in DOMAIN calls}
    BY <1>1
  <1> DEFINE S == {Own(j) : j \in DOMAIN calls}
  <1>3. turn' \in Seq(S')
    <2>1. turn \in Seq(S) /\ S' = S /\ turn' = turn
      BY <1>1, <1>2 DEF InSequence
    <2> HIDE DEF S
    <2> QED
      BY <2>1
  <1>4. Len(turn') = at'.call - 1 /\ \A j \in 1..at'.call - 1 : (turn')[j] = Own(j)'
    BY <1>1 DEF InSequence
  <1> QED
    BY <1>1, <1>3, <1>4 DEF InSequence

\* The entries of Anthropic and of Google.
LEMMA BlockEntry ==
  ASSUME WireOK, ~AllWritten, NEW k, k = at.call, NEW p, p = at.line, NEW n, n = calls[k].pieces
  PROVE  /\ NextEntry.call = k /\ NextEntry.type # "done" /\ p \in Nat /\ n \in Nat /\ p <= LastLine(k)
         /\ style = "blocks" =>
              /\ LastLine(k) = n + 1
              /\ NextEntry.type = "start" => p = 0
              /\ NextEntry.type = "delta" => p \in 1..n /\ NextEntry.args = <<<<k, p>>>>
              /\ NextEntry.type = "stop" => p = n + 1
         /\ style = "parts" => p = 0 /\ LastLine(k) = 0 /\ NextEntry.args = Whole(k)
  <1>1. /\ k \in DOMAIN calls /\ p \in Nat /\ n \in Nat /\ p <= LastLine(k)
        /\ style \in {"blocks", "parts", "plain", "eager", "together"}
    BY WireFacts DEF WireOK
  <1>2. NextEntry = EntryOf(k, p)
    BY DEF NextEntry
  <1>3. CASE style = "blocks"
    <2>1. LastLine(k) = n + 1
      BY <1>1, <1>3, LastLineFacts
    <2>2. /\ NextEntry.call = k /\ NextEntry.args = Piece(k, p)
          /\ NextEntry.type = IF p = 0 THEN "start" ELSE IF p > n THEN "stop" ELSE "delta"
      BY <1>2, <1>3 DEF EntryOf, Entry
    <2>3. p \in 1..n => Piece(k, p) = <<<<k, p>>>>
      BY DEF Piece
    <2>4. /\ NextEntry.type = "start" => p = 0
          /\ NextEntry.type = "delta" => p \in 1..n
          /\ NextEntry.type = "stop" => p = n + 1
          /\ NextEntry.type # "done"
      BY <1>1, <2>1, <2>2
    <2> QED
      BY <1>1, <1>3, <2>1, <2>2, <2>3, <2>4
  <1>4. CASE style = "parts"
    <2>1. LastLine(k) = 0
      BY <1>1, <1>4, LastLineFacts
    <2>2. NextEntry.call = k /\ NextEntry.args = Whole(k) /\ NextEntry.type = "whole"
      BY <1>2, <1>4 DEF EntryOf, Entry
    <2>3. p = 0
      BY <1>1, <2>1
    <2> QED
      BY <1>1, <1>4, <2>1, <2>2, <2>3
  <1>5. CASE style \in {"plain", "eager", "together"}
    <2>1. NextEntry.call = k /\ NextEntry.type = "delta"
      <3>1. CASE style = "plain"
        BY <1>2, <3>1 DEF EntryOf, Entry
      <3>2. CASE style = "eager"
        BY <1>2, <3>2 DEF EntryOf, Entry
      <3>3. CASE style = "together"
        BY <1>2, <3>3 DEF EntryOf, Entry
      <3> QED
        BY <1>5, <3>1, <3>2, <3>3
    <2>2. style # "blocks" /\ style # "parts"
      BY <1>5
    <2> QED
      BY <1>1, <2>1, <2>2
  <1> QED
    BY <1>1, <1>3, <1>4, <1>5

-----------------------------------------------------------------------------
(***************************************************************************)
(* Every step keeps the invariant.                                         *)
(***************************************************************************)

LEMMA StreamInvInit == ToolStreamInit => StreamInv
  <1> SUFFICES ASSUME ToolStreamInit PROVE StreamInv
    OBVIOUS
  <1>1. /\ dialect \in Dialects /\ style \in Styles(dialect) /\ calls \in Made
        /\ at = [call |-> 1, line |-> 0] /\ blocks = <<>> /\ turn = <<>> /\ ended = "no"
    BY DEF ToolStreamInit
  <1>2. Len(calls) \in Nat /\ DOMAIN calls = 1..Len(calls) /\ at.call = 1 /\ at.line = 0
    BY <1>1, MadeFacts
  <1>3. ~AllWritten => 0 <= LastLine(1)
    <2>1. ~AllWritten => 1 \in DOMAIN calls
      BY <1>2 DEF AllWritten
    <2>2. 1 \in DOMAIN calls => calls[1].pieces \in Nat
      BY <1>1, MadeFacts
    <2> QED
      BY <2>1, <2>2 DEF LastLine
  <1>4. WireOK
    BY <1>1, <1>2, <1>3, ToolStreamAssumption DEF WireOK
  <1>5. Seen = {} /\ DOMAIN blocks = {}
    BY <1>1, <1>2 DEF Seen
  <1>6. Sent = {} /\ Cardinality(Sent) = 0
    <2>1. Sent = {}
      BY <1>5 DEF Sent
    <2> QED
      BY <2>1, FS_EmptySet
  <1>7. InBlocks
    <2> DEFINE S == {Normalized(Partial(k)) : k \in Sent}
    <2>1. turn \in Seq(S) /\ Len(turn) = 0
      <3> HIDE DEF S
      <3> QED
        BY <1>1
    <2> QED
      BY <1>1, <1>5, <1>6, <2>1 DEF InBlocks
  <1>8. InSequence
    <2> DEFINE S == {Own(k) : k \in DOMAIN calls}
    <2>1. turn \in Seq(S) /\ Len(turn) = 0
      <3> HIDE DEF S
      <3> QED
        BY <1>1
    <2> QED
      BY <1>1, <1>2, <1>5, <2>1 DEF InSequence
  <1> QED
    BY <1>4, <1>7, <1>8 DEF StreamInv

\* A line that is not the end of the stream.
LEMMA ReadsFacts ==
  ASSUME WireOK, NEW type, Reads(type), type # "done"
  PROVE  ended = "no" /\ NextEntry.type = type /\ ~AllWritten /\ UNCHANGED wireVars
  BY DEF Reads, NextEntry, Entry

LEMMA StreamInvNext == StreamInv /\ [ToolStreamNext]_toolStreamVars => StreamInv'
  <1> SUFFICES ASSUME StreamInv, [ToolStreamNext]_toolStreamVars PROVE StreamInv'
    OBVIOUS
  <1>0. WireOK /\ (Keyed => IF dialect \in {"openai", "compat"} THEN InBlocks ELSE InSequence)
    BY DEF StreamInv
  <1> DEFINE Kept == WireOK' /\ Keyed' = Keyed /\ dialect' = dialect
             Blocks == dialect \in {"openai", "compat"} /\ Keyed /\ InBlocks => InBlocks'
             Sequence == dialect \in {"anthropic", "google"} /\ Keyed /\ InSequence => InSequence'
  <1>. dialect \in {"openai", "compat", "anthropic", "google"}
    BY <1>0 DEF WireOK
  <1> SUFFICES Kept /\ Blocks /\ Sequence
    BY <1>0 DEF StreamInv
  <1>read. ASSUME ~AllWritten, at' = After, UNCHANGED wireVars PROVE Kept
    BY <1>0, <1>read, Advances, WireStays DEF wireVars
  <1>stay. ASSUME UNCHANGED <<wireVars, at>> PROVE Kept
    BY <1>0, <1>stay, Frozen DEF wireVars
  <1> HIDE DEF Kept
  <1>1. CASE OpenAIReadsDelta
    <2>1. /\ dialect = "openai" /\ Reads("delta") /\ at' = After /\ UNCHANGED <<turn, ended>>
          /\ blocks' = Accumulated(OpenAIIndex, NextEntry)
      BY <1>1 DEF OpenAIReadsDelta
    <2>2. ended = "no" /\ ~AllWritten /\ UNCHANGED wireVars
      BY <1>0, <2>1, ReadsFacts
    <2>3. ASSUME Keyed, InBlocks PROVE InBlocks'
      <3>1. style \in {"plain", "eager", "together"}
        BY <1>0, <2>1 DEF WireOK, Styles
      <3>2. blocks' = Accumulated(at.call, NextEntry)
        BY <1>0, <2>1, <2>2, <2>3, KeyedPlace
      <3> QED
        BY <1>0, <2>1, <2>2, <2>3, <3>1, <3>2, EntryAccumulates
    <2> QED
      BY <1>read, <2>1, <2>2, <2>3
  <1>2. CASE CompatReadsDelta
    <2>1. /\ dialect = "compat" /\ Reads("delta") /\ at' = After /\ UNCHANGED <<turn, ended>>
          /\ blocks' = Accumulated(CompatIndex, NextEntry)
      BY <1>2 DEF CompatReadsDelta
    <2>2. ended = "no" /\ ~AllWritten /\ UNCHANGED wireVars
      BY <1>0, <2>1, ReadsFacts
    <2>3. ASSUME Keyed, InBlocks PROVE InBlocks'
      <3>1. style \in {"plain", "eager", "together"}
        BY <1>0, <2>1 DEF WireOK, Styles
      <3>2. blocks' = Accumulated(at.call, NextEntry)
        BY <1>0, <2>1, <2>2, <2>3, KeyedPlace
      <3> QED
        BY <1>0, <2>1, <2>2, <2>3, <3>1, <3>2, EntryAccumulates
    <2> QED
      BY <1>read, <2>1, <2>2, <2>3
  <1>3. CASE OpenAIReadsDone
    <2>1. /\ dialect \in {"openai", "compat"} /\ Reads("done") /\ ended' = "last"
          /\ UNCHANGED <<at, blocks, turn>>
      BY <1>3 DEF OpenAIReadsDone
    <2>2. ended = "no" /\ NextEntry.type = "done" /\ UNCHANGED wireVars
      BY <2>1 DEF Reads
    <2>3. AllWritten
      <3> SUFFICES ASSUME ~AllWritten PROVE FALSE
        OBVIOUS
      <3> QED
        BY <1>0, <2>2, BlockEntry
    <2>4. InBlocks => InBlocks'
      BY <1>0, <2>1, <2>2, <2>3, BlocksEnd
    <2> QED
      BY <1>stay, <2>1, <2>2, <2>4
  <1>4. CASE OpenAIEndOfFile
    <2>1. InBlocks => InBlocks'
      BY <1>0, <1>4, BlocksEnd DEF OpenAIEndOfFile
    <2> QED
      BY <1>4, <1>stay, <2>1 DEF OpenAIEndOfFile
  <1>5. CASE OpenAISends
    <2>1. Keyed /\ InBlocks => InBlocks'
      BY <1>0, <1>5, KeptIsSent
    <2>2. ~InSequence
      BY <1>5 DEF OpenAISends, InSequence
    <2>3. UNCHANGED <<wireVars, at>>
      BY <1>5 DEF OpenAISends
    <2> QED
      BY <1>stay, <2>1, <2>2, <2>3
  <1>6. CASE OpenAISendsDone
    <2>1. InBlocks => InBlocks'
      BY <1>0, <1>6, BlocksEnd DEF OpenAISendsDone
    <2>2. ~InSequence
      BY <1>6 DEF OpenAISendsDone, InSequence
    <2> QED
      BY <1>6, <1>stay, <2>1, <2>2 DEF OpenAISendsDone
  <1>7. CASE AnthropicStarts
    <2>1. /\ dialect = "anthropic" /\ Reads("start") /\ at' = After /\ UNCHANGED <<turn, ended>>
          /\ blocks' = [j \in DOMAIN blocks \cup {at.call} |->
                          IF j = at.call THEN ToolCall(j, <<>>) ELSE blocks[j]]
      BY <1>7 DEF AnthropicStarts
    <2>2. ended = "no" /\ ~AllWritten /\ UNCHANGED wireVars /\ NextEntry.type = "start"
      BY <1>0, <2>1, ReadsFacts
    <2>3. ASSUME InSequence PROVE InSequence'
      <3>1. style = "blocks"
        BY <1>0, <2>1, WireFacts
      <3>2. at.line = 0 /\ at.line < LastLine(at.call)
        <4>1. \A n : n = calls[at.call].pieces => n \in Nat /\ at.line = 0 /\ LastLine(at.call) = n + 1
          BY <1>0, <2>2, <3>1, BlockEntry
        <4> QED
          BY <4>1
      <3>3. DOMAIN blocks = {}
        BY <2>1, <2>2, <2>3, <3>2 DEF InSequence
      <3>4. Prefix(at.call, 0) = <<>>
        BY PrefixFacts
      <3>5. DOMAIN blocks' = {at.call} /\ (blocks')[at.call] = ToolCall(at.call, Prefix(at.call, at.line))
        BY <2>1, <3>2, <3>3, <3>4
      <3> QED
        BY <1>0, <2>1, <2>2, <2>3, <3>2, <3>5, BlockGrows
    <2> QED
      BY <1>read, <2>1, <2>2, <2>3
  <1>8. CASE AnthropicReadsDelta
    <2>1. /\ dialect = "anthropic" /\ Reads("delta") /\ at' = After /\ UNCHANGED <<turn, ended>>
          /\ blocks' = [blocks EXCEPT ![at.call].args = @ \o NextEntry.args]
      BY <1>8 DEF AnthropicReadsDelta
    <2>2. ended = "no" /\ ~AllWritten /\ UNCHANGED wireVars /\ NextEntry.type = "delta"
      BY <1>0, <2>1, ReadsFacts
    <2>3. ASSUME InSequence PROVE InSequence'
      <3>1. style = "blocks"
        BY <1>0, <2>1, WireFacts
      <3>2. /\ at.line \in Nat /\ at.line > 0 /\ at.line < LastLine(at.call)
            /\ NextEntry.args = <<<<at.call, at.line>>>>
        <4>1. \A n : n = calls[at.call].pieces =>
                /\ n \in Nat /\ at.line \in 1..n /\ LastLine(at.call) = n + 1
                /\ NextEntry.args = <<<<at.call, at.line>>>>
          BY <1>0, <2>2, <3>1, BlockEntry
        <4> QED
          BY <4>1
      <3>3. DOMAIN blocks = {at.call} /\ blocks[at.call] = Partial(at.call)
        BY <2>1, <2>2, <2>3, <3>2 DEF InSequence
      <3>4. Partial(at.call) = ToolCall(at.call, Prefix(at.call, at.line - 1))
        <4>1. ~(at.call < at.call) /\ style # "eager"
          BY <1>0, <3>1, WireFacts
        <4> QED
          BY <4>1 DEF Partial, Got
      <3>5. Prefix(at.call, at.line - 1) \o <<<<at.call, at.line>>>> = Prefix(at.call, at.line)
        <4>1. at.line - 1 \in Nat /\ at.line - 1 + 1 = at.line
          BY <3>2
        <4>2. Prefix(at.call, at.line - 1) \o <<<<at.call, at.line - 1 + 1>>>>
                = Prefix(at.call, at.line - 1 + 1)
          BY <4>1, PrefixFacts
        <4> QED
          BY <4>1, <4>2
      <3>6. DOMAIN blocks' = {at.call} /\ (blocks')[at.call] = ToolCall(at.call, Prefix(at.call, at.line))
        <4> DEFINE a == Prefix(at.call, at.line - 1)
                   b == NextEntry.args
        <4>1. blocks' = [blocks EXCEPT ![at.call].args = @ \o b] /\ DOMAIN blocks' = DOMAIN blocks
          BY <2>1
        <4>2. at.call \in DOMAIN blocks /\ blocks[at.call] = ToolCall(at.call, a)
          BY <3>3, <3>4
        <4>3. a \o b = Prefix(at.call, at.line)
          BY <3>2, <3>5
        <4> HIDE DEF a, b
        <4>4. (blocks')[at.call] = ToolCall(at.call, a \o b)
          <5>1. (blocks')[at.call] = [blocks[at.call] EXCEPT !.args = blocks[at.call].args \o b]
            BY <4>1, <4>2
          <5>2. blocks[at.call].args = a
            BY <4>2 DEF ToolCall
          <5> DEFINE c == a \o b
          <5> HIDE DEF c
          <5>3. (blocks')[at.call] = [blocks[at.call] EXCEPT !.args = c]
            BY <5>1, <5>2 DEF c
          <5>4. (blocks')[at.call] = ToolCall(at.call, c)
            BY <4>2, <5>3 DEF ToolCall
          <5> QED
            BY <5>4 DEF c
        <4> QED
          BY <3>3, <4>1, <4>3, <4>4
      <3> QED
        BY <1>0, <2>1, <2>2, <2>3, <3>2, <3>6, BlockGrows
    <2> QED
      BY <1>read, <2>1, <2>2, <2>3
  <1>9. CASE AnthropicStops
    <2>1. /\ dialect = "anthropic" /\ Reads("stop") /\ at' = After /\ UNCHANGED ended
          /\ turn' = Collect(turn, Normalized(blocks[at.call])) /\ blocks' = Without(at.call)
      BY <1>9 DEF AnthropicStops
    <2>2. ended = "no" /\ ~AllWritten /\ UNCHANGED wireVars /\ NextEntry.type = "stop"
      BY <1>0, <2>1, ReadsFacts
    <2>3. ASSUME Keyed, InSequence PROVE InSequence'
      <3>1. style = "blocks" /\ at.call \in DOMAIN calls
        BY <1>0, <2>1, <2>2, WireFacts
      <3>2. /\ calls[at.call].pieces \in Nat /\ at.line = calls[at.call].pieces + 1
            /\ LastLine(at.call) = calls[at.call].pieces + 1
        <4>1. \A n : n = calls[at.call].pieces => n \in Nat /\ at.line = n + 1 /\ LastLine(at.call) = n + 1
          BY <1>0, <2>2, <3>1, BlockEntry
        <4> QED
          BY <4>1
      <3>3. DOMAIN blocks = {at.call} /\ blocks[at.call] = Partial(at.call)
        BY <2>1, <2>2, <2>3, <3>2 DEF InSequence
      <3>4. Partial(at.call) = ToolCall(at.call, Prefix(at.call, calls[at.call].pieces))
        <4>1. ~(at.call < at.call) /\ style # "eager" /\ at.line - 1 = calls[at.call].pieces
          BY <1>0, <3>1, <3>2, WireFacts
        <4> QED
          BY <4>1 DEF Partial, Got
      <3>5. Normalized(blocks[at.call]) = Own(at.call)
        <4>1. calls \in Made /\ calls[at.call].pieces \in 0..calls[at.call].pieces
          BY <1>0, <3>2 DEF WireOK
        <4>2. Normalized(ToolCall(at.call, Prefix(at.call, calls[at.call].pieces))) = Own(at.call)
          BY <3>1, <4>1, NormalizedFacts
        <4> QED
          BY <3>3, <3>4, <4>2
      <3>6. at' = [call |-> at.call + 1, line |-> 0]
        BY <2>1, <3>2 DEF After
      <3>7. DOMAIN blocks' = {}
        BY <2>1, <3>3 DEF Without
      <3> QED
        BY <1>0, <2>1, <2>2, <2>3, <3>5, <3>6, <3>7, WholeIsSent
    <2> QED
      BY <1>read, <2>1, <2>2, <2>3
  <1>10. CASE AnthropicReadsDone
    <2>1. /\ dialect = "anthropic" /\ Reads("done") /\ ended' = "done" /\ UNCHANGED <<at, blocks, turn>>
      BY <1>10 DEF AnthropicReadsDone
    <2>2. ended = "no" /\ NextEntry.type = "done" /\ UNCHANGED wireVars
      BY <2>1 DEF Reads
    <2>3. AllWritten
      <3> SUFFICES ASSUME ~AllWritten PROVE FALSE
        OBVIOUS
      <3> QED
        BY <1>0, <2>2, BlockEntry
    <2>4. InSequence => InSequence'
      BY <1>0, <2>1, <2>2, <2>3, SequenceEnds
    <2> QED
      BY <1>stay, <2>1, <2>2, <2>4
  <1>11. CASE GoogleReadsCall
    <2>1. /\ dialect = "google" /\ Reads("whole") /\ at' = After /\ UNCHANGED <<blocks, ended>>
          /\ turn' = Collect(turn, Normalized(ToolCall(at.call, NextEntry.args)))
      BY <1>11 DEF GoogleReadsCall
    <2>2. ended = "no" /\ ~AllWritten /\ UNCHANGED wireVars
      BY <1>0, <2>1, ReadsFacts
    <2>3. ASSUME Keyed, InSequence PROVE InSequence'
      <3>1. style = "parts" /\ at.call \in DOMAIN calls /\ calls[at.call].pieces \in Nat
        BY <1>0, <2>1, <2>2, WireFacts
      <3>2. at.line = 0 /\ LastLine(at.call) = 0 /\ NextEntry.args = Whole(at.call)
        BY <1>0, <2>2, <3>1, BlockEntry
      <3>3. Normalized(ToolCall(at.call, NextEntry.args)) = Own(at.call)
        <4>1. calls \in Made /\ calls[at.call].pieces \in 0..calls[at.call].pieces
          BY <1>0, <3>1 DEF WireOK
        <4> QED
          BY <3>1, <3>2, <4>1, NormalizedFacts DEF Whole
      <3>4. at' = [call |-> at.call + 1, line |-> 0]
        BY <2>1, <3>2 DEF After
      <3> QED
        BY <1>0, <2>1, <2>2, <2>3, <3>3, <3>4, WholeIsSent
    <2> QED
      BY <1>read, <2>1, <2>2, <2>3
  <1>12. CASE BlocksEndOfFile
    <2>1. /\ dialect \in {"anthropic", "google"} /\ UNCHANGED <<wireVars, at, blocks, turn>>
          /\ ended' = IF dialect = "google" /\ AllWritten THEN "done" ELSE "cut"
      BY <1>12 DEF BlocksEndOfFile
    <2>2. InSequence => InSequence'
      BY <1>0, <2>1, SequenceEnds
    <2> QED
      BY <1>stay, <2>1, <2>2
  <1>13. CASE StreamFails
    <2>1. ended = "no" /\ ended' = "error" /\ UNCHANGED <<wireVars, at, blocks, turn>>
      BY <1>13 DEF StreamFails
    <2>2. (InSequence => InSequence') /\ (InBlocks => InBlocks')
      BY <1>0, <2>1, SequenceEnds, BlocksEnd
    <2> QED
      BY <1>stay, <2>1, <2>2
  <1>14. CASE UNCHANGED toolStreamVars
    <2>1. UNCHANGED <<wireVars, at, blocks, turn, ended>>
      BY <1>14 DEF toolStreamVars
    <2>2. /\ Seen' = Seen /\ AllWritten' = AllWritten /\ Sent' = Sent
          /\ \A k : /\ Partial(k)' = Partial(k) /\ Own(k)' = Own(k)
                   /\ Normalized(Partial(k))' = Normalized(Partial(k))
      BY <1>0, <2>1, Frozen DEF Sent
    <2>3. UNCHANGED <<dialect, calls, at>>
      BY <2>1 DEF wireVars
    <2>4. (InSequence => InSequence') /\ (InBlocks => InBlocks')
      BY <2>1, <2>2, <2>3 DEF InSequence, InBlocks
    <2> QED
      BY <1>stay, <2>1, <2>4
  <1> QED
    BY <1>1, <1>2, <1>3, <1>4, <1>5, <1>6, <1>7, <1>8, <1>9, <1>10, <1>11, <1>12, <1>13, <1>14
    DEF ToolStreamNext

\* At the end every call of the model has come out, whole.
LEMMA StreamInvCallsArrive == StreamInv => CallsArrive
  <1> SUFFICES ASSUME StreamInv, ended = "done", Keyed
               PROVE  /\ Len(turn) = Len(calls)
                      /\ \A k \in DOMAIN calls : \E i \in DOMAIN turn : turn[i] = Own(k)
                      /\ dialect \in {"anthropic", "google"} => \A k \in DOMAIN calls : turn[k] = Own(k)
    BY DEF CallsArrive
  <1>1. WireOK /\ IF dialect \in {"openai", "compat"} THEN InBlocks ELSE InSequence
    BY DEF StreamInv
  <1>2. /\ Len(calls) \in Nat /\ DOMAIN calls = 1..Len(calls) /\ at.call \in 1..Len(calls) + 1
        /\ \A k \in DOMAIN calls : calls[k].pieces \in Nat
    BY <1>1, WireFacts
  <1>3. AllWritten
    BY <1>1 DEF InBlocks, InSequence
  <1>4. at.call = Len(calls) + 1
    BY <1>2, <1>3 DEF AllWritten
  <1>5. CASE dialect \in {"openai", "compat"}
    <2>1. InBlocks /\ DOMAIN blocks = {}
      BY <1>1, <1>5 DEF InBlocks
    <2>2. Sent = DOMAIN calls
      BY <1>2, <1>4, <2>1 DEF Sent, Seen
    <2>3. ASSUME NEW k \in DOMAIN calls PROVE Normalized(Partial(k)) = Own(k)
      <3>1. Got(k) = calls[k].pieces /\ calls[k].pieces \in 0..calls[k].pieces
        BY <1>2, <1>4 DEF Got
      <3> QED
        BY <1>1, <3>1, NormalizedFacts DEF Partial, WireOK
    <2>4. Len(turn) = Len(calls)
      <3>1. Cardinality(1..Len(calls)) = Len(calls)
        <4>1. \A n \in Nat : Cardinality(1..n) = n
          BY FS_Interval
        <4> QED
          BY <1>2, <4>1
      <3> QED
        BY <1>2, <2>1, <2>2, <3>1 DEF InBlocks
    <2>5. DOMAIN turn = 1..Len(turn)
      <3> DEFINE S == {Normalized(Partial(k)) : k \in Sent}
      <3>1. turn \in Seq(S)
        BY <2>1 DEF InBlocks
      <3> HIDE DEF S
      <3> QED
        BY <3>1
    <2> QED
      BY <1>5, <2>1, <2>2, <2>3, <2>4, <2>5 DEF InBlocks
  <1>6. CASE ~(dialect \in {"openai", "compat"})
    <2>1. InSequence
      BY <1>1, <1>6
    <2>2. Len(turn) = Len(calls) /\ \A k \in 1..Len(calls) : turn[k] = Own(k)
      BY <1>2, <1>4, <2>1 DEF InSequence
    <2>3. DOMAIN turn = 1..Len(turn)
      <3> DEFINE S == {Own(k) : k \in DOMAIN calls}
      <3>1. turn \in Seq(S)
        BY <2>1 DEF InSequence
      <3> HIDE DEF S
      <3> QED
        BY <3>1
    <2> QED
      BY <1>2, <2>2, <2>3
  <1> QED
    BY <1>5, <1>6

\* A stream that was cut hands on no half of a call.
LEMMA StreamInvCutNeverHalves == StreamInv => CutNeverHalves
  <1> SUFFICES ASSUME StreamInv, ended = "cut", Keyed, NEW i \in DOMAIN turn
               PROVE  \E k \in DOMAIN calls :
                        /\ turn[i] = Own(k) \/ turn[i] = ToolCall(k, NoArguments)
                        /\ dialect = "anthropic" => turn[i] = Own(k)
    BY DEF CutNeverHalves
  <1>1. WireOK /\ IF dialect \in {"openai", "compat"} THEN InBlocks ELSE InSequence
    BY DEF StreamInv
  <1>2. CASE dialect \in {"openai", "compat"}
    <2> DEFINE S == {Normalized(Partial(k)) : k \in Sent}
    <2>1. turn \in Seq(S)
      BY <1>1, <1>2 DEF InBlocks
    <2>2. turn[i] \in S
      <3> HIDE DEF S
      <3> QED
        BY <2>1
    <2>3. PICK k \in Sent : turn[i] = Normalized(Partial(k))
      BY <2>2
    <2>4. k \in DOMAIN calls /\ Got(k) \in 0..calls[k].pieces
      BY <1>1, GotRange DEF Sent
    <2>5. turn[i] = Own(k) \/ turn[i] = ToolCall(k, NoArguments)
      BY <1>1, <2>3, <2>4, NormalizedFacts DEF Partial, WireOK
    <2> QED
      BY <1>2, <2>4, <2>5
  <1>3. CASE ~(dialect \in {"openai", "compat"})
    <2> DEFINE S == {Own(k) : k \in DOMAIN calls}
    <2>1. turn \in Seq(S)
      BY <1>1, <1>3 DEF InSequence
    <2>2. turn[i] \in S
      <3> HIDE DEF S
      <3> QED
        BY <2>1
    <2> QED
      BY <2>2
  <1> QED
    BY <1>2, <1>3

\* Whatever the number of calls and of their pieces, and wherever the stream
\* ends: where an adapter can tell the calls apart, every call reaches the loop
\* once, with its own id, name and whole arguments, and a cut stream hands on
\* no half of one.
THEOREM CallsComeWhole == ToolStreamSpec => []CallsWhole
  <1>1. StreamInv => CallsWhole
    BY StreamInvCallsArrive, StreamInvCutNeverHalves DEF CallsWhole
  <1> QED
    BY <1>1, StreamInvInit, StreamInvNext, PTL DEF ToolStreamSpec
=============================================================================
