------------------------------ MODULE Ordering ------------------------------
(***************************************************************************)
(* What a sort returns, stated by places instead of by an algorithm, so    *)
(* that it can be reasoned about: Ordering_proofs has the lemmas.          *)
(***************************************************************************)
EXTENDS Naturals, FiniteSets

\* The members of S, of which B is a strict total order (the pairs <<a, b>>
\* with a before b), in this order: each stands behind as many as precede it.
Arranged(S, B) ==
  [k \in 1..Cardinality(S) |->
     CHOOSE i \in S : Cardinality({j \in S : <<j, i>> \in B}) = k - 1]
=============================================================================
