---------------------------- MODULE MCLocalFiles ----------------------------
(***************************************************************************)
(* The writers of local files: incident cards, credentials, the binary,    *)
(* config.yaml with the dialogues that change it, and the wizard that      *)
(* writes all of them for the first time.  The modules share no variable,  *)
(* so that one run takes them side by side: a behaviour is one of          *)
(* IncidentMemory, of Secrets, of SelfUpdate, of TuiFlows or of            *)
(* SetupWizard, and the four others stay in an initial state.              *)
(***************************************************************************)
EXTENDS IncidentMemory, Secrets, SelfUpdate, TuiFlows, MCSetup, TLC
CONSTANTS t1, t2, t3, p1, p2

VARIABLE part

MCProcessOf == t1 :> p1 @@ t2 :> p1 @@ t3 :> p2
MCMaxCommands == [patience \in BOOLEAN |-> IF patience THEN 3 ELSE 2]
SymFiles == Permutations(Cards)

FilesInit ==
  /\ MemoryInit /\ SecretsInit /\ UpdateInit /\ FlowsInit /\ WizardInit
  /\ part \in {"memory", "secrets", "update", "flows", "wizard"}
  /\ part # "secrets" => stored = NoEntries
  /\ part # "flows" => patient
  /\ part # "wizard" => dryRun /\ auto /\ tidy

NotMemory == <<secretsVars, updateVars, flowVars, wizardVars>>
NotSecrets == <<memoryVars, updateVars, flowVars, wizardVars>>
NotUpdate == <<memoryVars, secretsVars, flowVars, wizardVars>>
NotFlows == <<memoryVars, secretsVars, updateVars, wizardVars>>
NotWizard == <<memoryVars, secretsVars, updateVars, flowVars>>

FilesNext ==
  /\ UNCHANGED part
  /\ \/ part = "memory" /\ MemoryNext /\ UNCHANGED NotMemory
     \/ part = "secrets" /\ SecretsNext /\ UNCHANGED NotSecrets
     \/ part = "update" /\ UpdateNext /\ UNCHANGED NotUpdate
     \/ part = "flows" /\ FlowsNext /\ UNCHANGED NotFlows
     \/ part = "wizard" /\ WizardNext /\ UNCHANGED NotWizard

FilesSpec == FilesInit /\ [][FilesNext]_<<memoryVars, NotMemory, part>>
=============================================================================
