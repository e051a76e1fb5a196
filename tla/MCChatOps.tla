----------------------------- MODULE MCChatOps -----------------------------
(***************************************************************************)
(* Small instances of ChatOps for TLC.                                     *)
(***************************************************************************)
EXTENDS ChatOps, TLC

CONSTANTS e1, e2, e3, s1, s2, c1, c2

\* Every event comes from one source; every event is in one conversation.
OneSource == [e \in Events |-> s1]
OneConv == [e \in Events |-> c1]

\* e1 and e3 belong to conversation c1, e2 to c2.
TwoConvs == [e \in Events |-> IF e = e2 THEN c2 ELSE c1]
TwoSources == [e \in Events |-> IF e = e2 THEN s2 ELSE s1]

SymHandlers == Permutations(Handlers)
SymHandlersWorkers == Permutations(Handlers) \cup Permutations(Workers)
=============================================================================
