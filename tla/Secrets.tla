------------------------------ MODULE Secrets ------------------------------
(***************************************************************************)
(* The file of credentials (internal/secrets/store.go), which cloudy's     *)
(* processes share: Load exports it to the environment, Add writes one     *)
(* key.  In a process the two may run side by side, since the tool         *)
(* gateway.status calls Load while the user may be at /login.              *)
(*                                                                         *)
(* Keys are 1..LastKey in the order of the file, which Add writes sorted.  *)
(* A value is "old" or "new", and may be "padded", which is "new" with     *)
(* blanks around it, or "huge", which is longer than the longest line a    *)
(* bufio.Scanner takes.  Comments and malformed lines are left out: Load   *)
(* and Add skip them both.                                                 *)
(***************************************************************************)
EXTENDS Naturals

CONSTANTS
  Shells,    \* processes that use the file
  LastKey,   \* number of keys
  Pasted,    \* values that users paste
  MaxAdds,   \* bound: calls of Add
  MaxExits   \* bound: processes that end and start again

Values == {"old", "new", "padded", "huge"}

ASSUME SecretsAssumption ==
  /\ LastKey \in Nat \ {0} /\ MaxAdds \in Nat /\ MaxExits \in Nat
  /\ Pasted \subseteq Values

VARIABLES
  stored,   \* the file: key -> value
  env,      \* process -> its environment
  adding,   \* process -> the Add in progress
  loading,  \* process -> the Load in progress
  adds,     \* calls of Add so far
  exits

secretsVars == <<stored, env, adding, loading, adds, exits>>

Keys == 1..LastKey
Entries == [Keys -> Values \cup {"none"}]
NoEntries == [k \in Keys |-> "none"]
\* late: the file has been replaced since the call read it
Adds == [on : BOOLEAN, key : Keys, value : Values, entries : Entries, late : BOOLEAN]
Loads == [on : BOOLEAN, entries : Entries, late : BOOLEAN]
NoAdd == [on |-> FALSE, key |-> 1, value |-> "old", entries |-> NoEntries, late |-> FALSE]
NoLoad == [on |-> FALSE, entries |-> NoEntries, late |-> FALSE]

SecretsTypeOK ==
  /\ stored \in Entries
  /\ env \in [Shells -> Entries]
  /\ adding \in [Shells -> Adds]
  /\ loading \in [Shells -> Loads]
  /\ adds \in 0..MaxAdds
  /\ exits \in 0..MaxExits

SecretsInit ==
  /\ stored \in {e \in Entries : \A k \in Keys : e[k] \in {"none", "old"}}
  /\ env = [s \in Shells |-> NoEntries]
  /\ adding = [s \in Shells |-> NoAdd]
  /\ loading = [s \in Shells |-> NoLoad]
  /\ adds = 0
  /\ exits = 0

---------------------------------------------------------------------------
\* TrimSpace takes the blanks off a line, and so off a value at its end.
Trimmed(v) == IF v = "padded" THEN "new" ELSE v

\* Variant: a last line without its newline is not read.
ScannedShort(file) == [k \in Keys |-> IF k = LastKey THEN "none" ELSE Trimmed(file[k])]

\* The loop over the lines, in Load and in Add: Scan ends at a line that is
\* too long, and what comes after it is not read.
Scanned(file) ==
  [k \in Keys |-> IF \E j \in 1..k : file[j] = "huge" THEN "none" ELSE Trimmed(file[k])]

\* Add reads the file.  It does not ask the scanner for its error.
AddReads(s, k, v) ==
  /\ ~adding[s].on /\ adds < MaxAdds
  /\ adds' = adds + 1
  /\ adding' = [adding EXCEPT ![s] =
                  [on |-> TRUE, key |-> k, value |-> v, entries |-> Scanned(stored),
                   late |-> FALSE]]
  /\ UNCHANGED <<stored, env, loading, exits>>

\* The entries with the new one become the file, in one rename, and the value
\* is exported.
AddRenames(s) ==
  /\ adding[s].on
  /\ LET a == adding[s]
     IN  /\ stored' = [a.entries EXCEPT ![a.key] = a.value]
         /\ env' = [env EXCEPT ![s][a.key] = a.value]
  /\ adding' = [u \in Shells |->
                  IF u = s THEN NoAdd ELSE [adding[u] EXCEPT !.late = adding[u].on]]
  /\ loading' = [u \in Shells |-> [loading[u] EXCEPT !.late = loading[u].on]]
  /\ UNCHANGED <<adds, exits>>

\* The temporary file cannot be made, written, closed or renamed.
AddFails(s) ==
  /\ adding[s].on
  /\ adding' = [adding EXCEPT ![s] = NoAdd]
  /\ UNCHANGED <<stored, env, loading, adds, exits>>

\* Load reads the file before it takes the mutex.
LoadReads(s) ==
  /\ ~loading[s].on
  /\ loading' = [loading EXCEPT ![s] = [on |-> TRUE, entries |-> Scanned(stored),
                                               late |-> FALSE]]
  /\ UNCHANGED <<stored, env, adding, adds, exits>>

\* It exports what it has read, up to a line that is too long.
LoadExports(s) ==
  /\ loading[s].on
  /\ env' = [env EXCEPT ![s] =
               [k \in Keys |-> IF loading[s].entries[k] # "none"
                               THEN loading[s].entries[k] ELSE @[k]]]
  /\ loading' = [loading EXCEPT ![s] = NoLoad]
  /\ UNCHANGED <<stored, adding, adds, exits>>

\* A process ends, at any point, and starts with the environment it was given.
Exit(s) ==
  /\ exits < MaxExits
  /\ exits' = exits + 1
  /\ env' = [env EXCEPT ![s] = NoEntries]
  /\ adding' = [adding EXCEPT ![s] = NoAdd]
  /\ loading' = [loading EXCEPT ![s] = NoLoad]
  /\ UNCHANGED <<stored, adds>>

SecretsNext ==
  \E s \in Shells :
    \/ \E k \in Keys, v \in Pasted : AddReads(s, k, v)
    \/ AddRenames(s) \/ AddFails(s)
    \/ LoadReads(s) \/ LoadExports(s)
    \/ Exit(s)

SecretsSpec == SecretsInit /\ [][SecretsNext]_secretsVars

---------------------------------------------------------------------------
\* The file changes by an Add as a whole, and what it does to a key that it
\* was not called for has one of three reasons: another Add has changed the
\* file since this one read it, the key comes after a line that is too long,
\* or its blanks are taken off.  Without them it keeps every other key.
OthersKept ==
  [][\A k \in Keys :
       stored'[k] # stored[k]
       => \E s \in Shells :
            /\ adding[s].on /\ ~adding'[s].on
            /\ \/ adding[s].key = k /\ stored'[k] = adding[s].value
               \/ adding[s].late
               \/ \E j \in 1..k : stored[j] = "huge"
               \/ stored'[k] = Trimmed(stored[k])]_secretsVars

\* A value gets into the environment by an Add of this process or because the
\* file has it.  The one way around is a Load that read the file before the
\* last rename: it puts back the values of then.
ExportedIsStored ==
  [][\A s \in Shells, k \in Keys :
       env'[s][k] \notin {env[s][k], "none"}
       => \/ stored'[k] = env'[s][k]
          \/ Trimmed(stored[k]) = env'[s][k]
          \/ loading[s].late]_secretsVars

\* No credential is lost or put back but for the reasons named above.
SecretsKept == []SecretsTypeOK /\ OthersKept /\ ExportedIsStored
=============================================================================
