------------------------------ MODULE MCSetup ------------------------------
(* Two contexts, a database of the same name in each, and in the second a  *)
(* log store and a service that asks for no credential.                    *)
EXTENDS SetupWizard

MCServices ==
  <<[kind |-> "jaeger", auth |-> "none", ctx |-> 2, name |-> "query"],
    [kind |-> "postgres", auth |-> "password", ctx |-> 1, name |-> "orders"],
    [kind |-> "postgres", auth |-> "password", ctx |-> 2, name |-> "orders"],
    [kind |-> "elasticsearch", auth |-> "basic", ctx |-> 2, name |-> "search"]>>
MCKindOrder == <<"elasticsearch", "jaeger", "postgres">>
=============================================================================
