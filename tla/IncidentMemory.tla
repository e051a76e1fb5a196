--------------------------- MODULE IncidentMemory ---------------------------
(***************************************************************************)
(* The incident cards (internal/incidentmemory/store.go): one JSONL file   *)
(* that several processes rewrite under a lock file, and the cache of it   *)
(* that each process keeps, valid while the file's size and modification   *)
(* time are those of the cached copy.                                      *)
(*                                                                         *)
(* A card is its status: the other fields do not change once it is made.   *)
(* The size of the file is the number of its cards, so that two contents   *)
(* look alike here more often than in the code.  A read of the file is one *)
(* step, since a rename replaces the file as a whole.                      *)
(***************************************************************************)
EXTENDS Naturals, FiniteSets

CONSTANTS
  Readers,    \* threads that get and list, in all processes
  Writers,    \* threads that create and decide
  Processes,
  ProcessOf,  \* thread -> its process
  Nobody,     \* no thread
  Cards,      \* ids that makeID can draw
  MaxTicks,   \* bound: steps of the file's modification time
  MaxRepeats, \* bound: writes within one tick of the file system's clock
  MaxCrashes  \* bound: crashes of a process

Threads == Readers \cup Writers

ASSUME IncidentMemoryAssumption ==
  /\ IsFiniteSet(Cards)
  /\ Nobody \notin Threads
  /\ ProcessOf \in [Threads -> Processes]
  /\ MaxTicks \in Nat
  /\ MaxRepeats \in Nat
  /\ MaxCrashes \in Nat

Statuses == {"none", "candidate", "approved", "rejected"}
CardMaps == [Cards -> Statuses]
NoCards == [c \in Cards |-> "none"]

VARIABLES
  repeats,  \* writes that got the time of the write before
  file,     \* cards.jsonl: modification time and content; tick 0: not there
  holder,   \* who has the lock on cards.lock
  cache,    \* process -> cardsCache: file state and cards
  pc,       \* thread -> where it is
  op,       \* thread -> what it was called for
  deed,     \* the card and the status the holder of the lock writes
  stat,     \* thread -> the first Stat of load
  cards,    \* thread -> the map that load returned, and its changes
  since,    \* reader -> every content of the file since its call
  crashes

threadVars == <<pc, op, stat, cards, since>>
keptVars == <<repeats, crashes>>
memoryVars == <<keptVars, file, holder, cache, threadVars, deed>>

Ops == {"none", "read", "create", "set"}
Deeds == [card : Cards \cup {Nobody}, status : Statuses]
NoDeed == [card |-> Nobody, status |-> "none"]
Places == {"idle", "lock", "stat", "open", "restat", "loaded", "rewrite", "store",
           "unlock"}
Files == [tick : 0..MaxTicks, cards : CardMaps]

Size(map) == Cardinality({c \in Cards : map[c] # "none"})

\* os.Stat: what sameFileState compares
StateOf(f) == [tick |-> f.tick, size |-> Size(f.cards)]

Empty == [tick |-> 0, cards |-> NoCards]

MemoryTypeOK ==
  /\ repeats \in 0..MaxRepeats
  /\ file \in Files
  /\ holder \in Threads \cup {Nobody}
  /\ cache \in [Processes -> [tick : 0..MaxTicks, size : Nat, cards : CardMaps]]
  /\ pc \in [Threads -> Places]
  /\ op \in [Threads -> Ops]
  /\ deed \in Deeds
  /\ stat \in [Threads -> [tick : 0..MaxTicks, size : Nat]]
  /\ cards \in [Threads -> CardMaps]
  /\ since \in [Threads -> SUBSET CardMaps]
  /\ crashes \in 0..MaxCrashes
  /\ \A t \in Threads :
       holder = t <=> op[t] \in {"create", "set"} /\ pc[t] \notin {"idle", "lock"}

MemoryInit ==
  /\ repeats = 0
  /\ file = Empty
  /\ holder = Nobody
  /\ cache = [p \in Processes |-> [tick |-> 0, size |-> 0, cards |-> NoCards]]
  /\ pc = [t \in Threads |-> "idle"]
  /\ op = [t \in Threads |-> "none"]
  /\ deed = NoDeed
  /\ stat = [t \in Threads |-> StateOf(Empty)]
  /\ cards = [t \in Threads |-> NoCards]
  /\ since = [t \in Threads |-> {}]
  /\ crashes = 0

Goto(t, place) == pc' = [pc EXCEPT ![t] = place]

---------------------------------------------------------------------------
(* The calls: Get and List read; CreateCandidate and setStatus (Approve,   *)
(* Reject) take the lock first.                                            *)

Read(t) ==
  /\ pc[t] = "idle"
  /\ op' = [op EXCEPT ![t] = "read"]
  /\ Goto(t, "stat")
  /\ since' = [since EXCEPT ![t] = {file.cards}]
  /\ UNCHANGED <<keptVars, file, holder, cache, stat, cards, deed>>

\* The bound of Cards: no more creations than there are ids left.
Write(t, what) ==
  /\ pc[t] = "idle"
  /\ what = "create" => Cardinality({u \in Threads : op[u] = "create"})
                        < Cardinality({c \in Cards : file.cards[c] = "none"})
  /\ op' = [op EXCEPT ![t] = what]
  /\ Goto(t, "lock")
  /\ UNCHANGED <<keptVars, file, holder, cache, stat, cards, since, deed>>

\* Variant: a lock that several can hold.
LockShared(t) ==
  /\ pc[t] = "lock"
  /\ holder' = t
  /\ Goto(t, "stat")
  /\ UNCHANGED <<keptVars, file, cache, op, stat, cards, since, deed>>

\* flock: it excludes the threads of one process too, since each call opens
\* the lock file anew.
Lock(t) ==
  /\ pc[t] = "lock" /\ holder = Nobody
  /\ holder' = t
  /\ Goto(t, "stat")
  /\ UNCHANGED <<keptVars, file, cache, op, stat, cards, since, deed>>

---------------------------------------------------------------------------
(* load                                                                    *)

CacheServes(p) ==
  cache[p].tick = file.tick /\ cache[p].size = Size(file.cards)

\* The first Stat: no file, a copy of the cached cards, or a file to read.
LoadStat(t) ==
  /\ pc[t] = "stat"
  /\ \/ /\ file.tick = 0
        /\ cards' = [cards EXCEPT ![t] = NoCards]
        /\ Goto(t, "loaded")
        /\ UNCHANGED stat
     \/ /\ file.tick > 0 /\ CacheServes(ProcessOf[t])
        /\ cards' = [cards EXCEPT ![t] = cache[ProcessOf[t]].cards]
        /\ Goto(t, "loaded")
        /\ UNCHANGED stat
     \/ /\ file.tick > 0 /\ ~CacheServes(ProcessOf[t])
        /\ stat' = [stat EXCEPT ![t] = StateOf(file)]
        /\ Goto(t, "open")
        /\ UNCHANGED cards
  /\ UNCHANGED <<keptVars, file, holder, cache, op, since, deed>>

LoadRead(t) ==
  /\ pc[t] = "open"
  /\ cards' = [cards EXCEPT ![t] = file.cards]
  /\ Goto(t, "restat")
  /\ UNCHANGED <<keptVars, file, holder, cache, op, stat, since, deed>>

\* storeCachedCards keeps a copy.
StoreCachedCards(p, state, map) ==
  cache' = [cache EXCEPT ![p] = [tick |-> state.tick, size |-> state.size,
                                 cards |-> map]]

\* Variant: no second Stat.
CacheBlindly(t) ==
  /\ pc[t] = "restat"
  /\ StoreCachedCards(ProcessOf[t], StateOf(file), cards[t])
  /\ Goto(t, "loaded")
  /\ UNCHANGED <<keptVars, file, holder, op, stat, cards, since, deed>>

\* The second Stat: the cards are cached if the file is still the one of the
\* first.
LoadRestat(t) ==
  /\ pc[t] = "restat"
  /\ IF stat[t] = StateOf(file)
     THEN StoreCachedCards(ProcessOf[t], stat[t], cards[t])
     ELSE UNCHANGED cache
  /\ Goto(t, "loaded")
  /\ UNCHANGED <<keptVars, file, holder, op, stat, cards, since, deed>>

Forget(t) ==
  /\ Goto(t, "idle")
  /\ op' = [op EXCEPT ![t] = "none"]
  /\ stat' = [stat EXCEPT ![t] = StateOf(Empty)]
  /\ cards' = [cards EXCEPT ![t] = NoCards]
  /\ since' = [since EXCEPT ![t] = {}]

\* The lock file cannot be opened or locked.
LockFails(t) ==
  /\ pc[t] = "lock"
  /\ Forget(t)
  /\ UNCHANGED <<keptVars, file, holder, cache, deed>>

\* Stat, Open or a read fails: a call without the lock is over.
LoadFails(t) ==
  /\ pc[t] \in {"stat", "open"}
  /\ IF holder = t
     THEN Goto(t, "unlock") /\ UNCHANGED <<op, stat, cards, since>>
     ELSE Forget(t)
  /\ UNCHANGED <<keptVars, file, holder, cache, deed>>

ReadReturns(t) ==
  /\ pc[t] = "loaded" /\ op[t] = "read"
  /\ Forget(t)
  /\ UNCHANGED <<keptVars, file, holder, cache, deed>>

---------------------------------------------------------------------------
(* The writes                                                              *)

\* cards[id] = c in the map of the call, then rewrite; or an error.
Change(t, wanted, c, status) ==
  /\ IF wanted
     THEN /\ cards' = [cards EXCEPT ![t][c] = status]
          /\ deed' = [card |-> c, status |-> status]
          /\ Goto(t, "rewrite")
     ELSE /\ Goto(t, "unlock")
          /\ UNCHANGED <<cards, deed>>
  /\ UNCHANGED <<keptVars, file, holder, cache, op, stat, since>>

\* makeID has drawn an id that no card has.
CreateCandidate(t, c) ==
  /\ pc[t] = "loaded" /\ op[t] = "create" /\ file.cards[c] = "none"
  /\ Change(t, cards[t][c] = "none", c, "candidate")

SetStatus(t, c, status) ==
  /\ pc[t] = "loaded" /\ op[t] = "set"
  /\ Change(t, cards[t][c] # "none", c, status)

\* rewrite: a temporary file, complete and closed before it is renamed.  It
\* gets the clock's time.
Rewrite(t) ==
  /\ pc[t] = "rewrite"
  /\ \/ /\ file.tick < MaxTicks
        /\ file' = [tick |-> file.tick + 1, cards |-> cards[t]]
        /\ UNCHANGED repeats
     \/ /\ file.tick > 0 /\ repeats < MaxRepeats
        /\ file' = [tick |-> file.tick, cards |-> cards[t]]
        /\ repeats' = repeats + 1
  /\ since' = [u \in Threads |->
                 IF op[u] = "read" THEN since[u] \cup {cards[t]} ELSE since[u]]
  /\ Goto(t, "store")
  /\ UNCHANGED <<crashes, holder, cache, op, stat, cards, deed>>

\* MkdirAll, OpenFile, Encode, Close, Chmod or Rename fails: the file is the
\* one before.
RewriteFails(t) ==
  /\ pc[t] = "rewrite"
  /\ Goto(t, "unlock")
  /\ UNCHANGED <<keptVars, file, holder, cache, op, stat, cards, since, deed>>

\* The Stat after the rename; without it the cache stays as it is.
RewriteStores(t) ==
  /\ pc[t] = "store"
  /\ \/ StoreCachedCards(ProcessOf[t], StateOf(file), cards[t])
     \/ UNCHANGED cache
  /\ Goto(t, "unlock")
  /\ UNCHANGED <<keptVars, file, holder, op, stat, cards, since, deed>>

Unlock(t) ==
  /\ pc[t] = "unlock"
  /\ holder' = Nobody
  /\ deed' = NoDeed
  /\ Forget(t)
  /\ UNCHANGED <<keptVars, file, cache>>

---------------------------------------------------------------------------
\* The kernel drops the lock of a process that dies; the files stay.
Crash(p) ==
  /\ crashes < MaxCrashes
  /\ crashes' = crashes + 1
  /\ LET dead == {t \in Threads : ProcessOf[t] = p}
     IN  /\ holder' = IF holder \in dead THEN Nobody ELSE holder
         /\ deed' = IF holder \in dead THEN NoDeed ELSE deed
         /\ pc' = [t \in Threads |-> IF t \in dead THEN "idle" ELSE pc[t]]
         /\ op' = [t \in Threads |-> IF t \in dead THEN "none" ELSE op[t]]
         /\ stat' = [t \in Threads |-> IF t \in dead THEN StateOf(Empty) ELSE stat[t]]
         /\ cards' = [t \in Threads |-> IF t \in dead THEN NoCards ELSE cards[t]]
         /\ since' = [t \in Threads |-> IF t \in dead THEN {} ELSE since[t]]
  /\ cache' = [cache EXCEPT ![p] = [tick |-> 0, size |-> 0, cards |-> NoCards]]
  /\ UNCHANGED <<repeats, file>>

Step(t) ==
  \/ LoadStat(t) \/ LoadRead(t) \/ LoadRestat(t)
  \/ LockFails(t) \/ LoadFails(t) \/ ReadReturns(t)
  \/ \E c \in Cards : CreateCandidate(t, c)
  \/ \E c \in Cards, s \in {"approved", "rejected"} : SetStatus(t, c, s)
  \/ Rewrite(t) \/ RewriteFails(t) \/ RewriteStores(t) \/ Unlock(t)

MemoryNext ==
  \/ \E t \in Readers : Read(t)
  \/ \E t \in Writers, what \in {"create", "set"} : Write(t, what)
  \/ \E t \in Threads : Lock(t) \/ Step(t)
  \/ \E p \in Processes : Crash(p)

MemorySpec == MemoryInit /\ [][MemoryNext]_memoryVars

---------------------------------------------------------------------------
\* A cached copy that a Stat would find valid is what the file holds: no race
\* of load with a rename, in any process, leaves other cards under the file's
\* state.  The file system's clock must move between two writes.
CacheHonest ==
  repeats = 0 => \A p \in Processes :
    file.tick > 0 /\ CacheServes(p) => cache[p].cards = file.cards

\* Get and List, which take no lock, answer with a content the file had while
\* they ran, never with an older one.
ReadsFresh ==
  repeats = 0 => \A t \in Threads :
    pc[t] = "loaded" /\ op[t] = "read" => cards[t] \in since[t]

\* A decision stands: when the status of a card changes in the file, a call
\* about that very card, with that status, made it so; another call's rewrite
\* of the whole file never takes a decision back or drops a card.
DecisionsStand ==
  [][repeats' = 0 => \A c \in Cards :
       file'.cards[c] # file.cards[c]
       => \E t \in Threads : /\ pc[t] = "rewrite" /\ pc'[t] = "store"
                             /\ deed = [card |-> c, status |-> file'.cards[c]]]_memoryVars

\* Whatever the clock does, no card of the file is lost.
CardsStay ==
  [][\A c \in Cards : file.cards[c] # "none" => file'.cards[c] # "none"]_memoryVars

\* The cache of every process is a copy of the file, or is seen not to be.
CacheIsTrue == MemoryTypeOK /\ CacheHonest /\ ReadsFresh

\* What was decided about a card stays decided, and the card stays.
DecisionsAndCardsStand == DecisionsStand /\ CardsStay
=============================================================================
