--------------------------- MODULE ChatOps_proofs ---------------------------
(***************************************************************************)
(* Theorems about ChatOps for every number of handlers, events, workers,   *)
(* every capacity and every clock.                                         *)
(***************************************************************************)
EXTENDS ChatOps, FiniteSetTheorems, TLAPS

\* A call of checkRate leaves a well-typed map of windows, whichever entry it
\* evicts.
LEMMA CheckRateType ==
  ASSUME PolicyTypeOK, now' = now,
         NEW src \in Sources, NEW t \in Nat, NEW ok \in BOOLEAN,
         CheckRate(src, t, ok)
  PROVE  PolicyTypeOK'
  <1>1. CASE RateLimit = 0
    BY <1>1, PolicyAssumption DEF CheckRate, PolicyTypeOK
  <1>2. CASE RateLimit > 0
    <2>1. PICK ws \in EvictWindow(PruneWindows(t)) :
            \/ windows' = Put(ws, src, [start |-> t, count |-> 1])
            \/ src \in DOMAIN ws /\ windows' = Put(ws, src, Counted(ws[src]))
            \/ windows' = ws
      BY <1>2 DEF CheckRate
    <2>2. /\ DOMAIN PruneWindows(t) \subseteq Sources
          /\ PruneWindows(t) \in [DOMAIN PruneWindows(t) -> Window]
      BY DEF PruneWindows, Keep, PolicyTypeOK
    <2>3. /\ DOMAIN ws \subseteq Sources
          /\ ws \in [DOMAIN ws -> Window]
      BY <2>1, <2>2 DEF EvictWindow, Keep
    <2>4. ASSUME NEW w \in Window, windows' = Put(ws, src, w)
          PROVE  PolicyTypeOK'
      BY <2>3, <2>4 DEF Put, PolicyTypeOK
    <2>5. [start |-> t, count |-> 1] \in Window
      BY DEF Window
    <2>6. src \in DOMAIN ws => Counted(ws[src]) \in Window
      BY <2>3 DEF Window, Counted
    <2>7. windows' = ws => PolicyTypeOK'
      BY <2>3 DEF PolicyTypeOK
    <2> QED
      BY <2>1, <2>4, <2>5, <2>6, <2>7
  <1> QED
    BY <1>1, <1>2, PolicyAssumption DEF CheckRate

-----------------------------------------------------------------------------
(***************************************************************************)
(* Type correctness.  TypeOK is not inductive by itself: a worker indexes  *)
(* the maps with the conversation of its job, which is one only because    *)
(* the handler of a queued job has an event.  JobsAccepted says so.        *)
(***************************************************************************)

TypeInv == TypeOK /\ JobsAccepted

\* The invariant holds when NewService has returned.
LEMMA TypeInit == Init => TypeInv
  <1> SUFFICES ASSUME Init
               PROVE  TypeInv
    OBVIOUS
  <1>1. PolicyTypeOK
    BY DEF Init, PolicyInit, PolicyTypeOK, NoWindows
  <1>2. AdmissionTypeOK
    BY DEF Init, AdmissionTypeOK, HandlerStates
  <1>3. QueueTypeOK /\ StoreTypeOK
    <2>1. <<>> \in Seq(Handlers)
      OBVIOUS
    <2> QED
      BY <2>1 DEF Init, QueueTypeOK, StoreTypeOK, JobOutcomes
  <1>4. WorkerTypeOK
    BY DEF Init, WorkerTypeOK, WorkerStates
  <1>5. JobsAccepted
    BY DEF Init, JobsAccepted
  <1> QED
    BY <1>1, <1>2, <1>3, <1>4, <1>5 DEF TypeInv, TypeOK

\* A handler that was not accepted may move on without disturbing any job.
LEMMA JobsAcceptedKept ==
  ASSUME TypeInv, NEW h \in Handlers, NEW x, pc[h] # "accepted",
         pc' = [pc EXCEPT ![h] = x], queue' = queue, job' = job
  PROVE  JobsAccepted'
  <1>1. \A i \in DOMAIN queue : queue[i] \in Handlers /\ pc[queue[i]] = "accepted"
    BY DEF TypeInv, TypeOK, QueueTypeOK, JobsAccepted
  <1>2. \A w \in Workers : job[w] # None =>
          job[w] \in Handlers /\ pc[job[w]] = "accepted"
    BY DEF TypeInv, TypeOK, WorkerTypeOK, JobsAccepted
  <1>3. \A g \in Handlers : pc[g] = "accepted" => pc'[g] = "accepted"
    BY DEF TypeInv, TypeOK, AdmissionTypeOK
  <1> QED
    BY <1>1, <1>2, <1>3 DEF JobsAccepted

\* Every handler action keeps the invariant.
LEMMA TypeHandler ==
  ASSUME TypeInv, NEW h \in Handlers,
         HandlerStep(h) \/ \E e \in Events : Arrive(h, e)
  PROVE  TypeInv'
  <1> USE DEF TypeInv, TypeOK
  <1>1. ASSUME NEW e \in Events, Arrive(h, e)
        PROVE  TypeInv'
    <2>1. PolicyTypeOK' /\ QueueTypeOK' /\ WorkerTypeOK' /\ StoreTypeOK'
      BY <1>1 DEF Arrive, PolicyTypeOK, QueueTypeOK, WorkerTypeOK, StoreTypeOK,
                  workerVars, storeVars
    <2>2. AdmissionTypeOK'
      BY <1>1 DEF Arrive, AdmissionTypeOK, PolicyTypeOK, HandlerStates, Answered
    <2>3. JobsAccepted'
      BY <1>1 DEF Arrive, JobsAccepted, AdmissionTypeOK, workerVars
    <2> QED
      BY <2>1, <2>2, <2>3
  <1>2. CASE Authorize(h)
    <2>1. event[h] \in Events
      BY <1>2 DEF Authorize, AdmissionTypeOK
    <2>2. SourceOf[event[h]] \in Sources
      BY <2>1, ChatOpsAssumption
    <2>3. PolicyTypeOK'
      <3>1. CASE windows' = windows
        BY <1>2, <3>1 DEF Authorize, PolicyTypeOK
      <3>2. ASSUME NEW t \in at[h]..now, NEW ok \in BOOLEAN,
                   CheckRate(SourceOf[event[h]], t, ok)
            PROVE  PolicyTypeOK'
        <4>1. t \in Nat
          BY DEF AdmissionTypeOK, PolicyTypeOK
        <4>2. now' = now
          BY <1>2 DEF Authorize
        <4> QED
          BY <2>2, <3>2, <4>1, <4>2, CheckRateType
      <3> QED
        BY <1>2, <3>1, <3>2 DEF Authorize
    <2>4. pc' = [pc EXCEPT ![h] = "refused"] \/ pc' = [pc EXCEPT ![h] = "authorized"]
      BY <1>2 DEF Authorize
    <2>5. QueueTypeOK' /\ WorkerTypeOK' /\ StoreTypeOK'
      BY <1>2 DEF Authorize, QueueTypeOK, WorkerTypeOK, StoreTypeOK, workerVars, storeVars
    <2>6. AdmissionTypeOK'
      BY <1>2, <2>1, <2>4 DEF Authorize, AdmissionTypeOK, HandlerStates
    <2>7. JobsAccepted'
      <3>1. pc[h] # "accepted" /\ queue' = queue /\ job' = job
        BY <1>2 DEF Authorize, workerVars
      <3> QED
        BY <2>4, <3>1, JobsAcceptedKept
    <2> QED
      BY <2>3, <2>5, <2>6, <2>7
  <1>3. CASE MarkSeen(h)
    <2>1. event[h] \in Events /\ pc[h] = "authorized"
      BY <1>3 DEF MarkSeen, AdmissionTypeOK
    <2>2. PrunedSeen(at[h]) \in [Events -> Nat \cup {Unseen}]
      BY DEF PrunedSeen, AdmissionTypeOK
    <2>3. \A m \in MakeRoom(PrunedSeen(at[h])) :
            /\ m \in [Events -> Nat \cup {Unseen}]
            /\ Marked(h, m) \in [Events -> Nat \cup {Unseen}]
      BY <2>1, <2>2 DEF MakeRoom, Marked, AdmissionTypeOK
    <2>4. /\ seen' \in [Events -> Nat \cup {Unseen}]
          /\ forgotten' \subseteq Events
          /\ pc' \in {[pc EXCEPT ![h] = "enqueuing"], [pc EXCEPT ![h] = "duplicate"]}
      BY <1>3, <2>2, <2>3 DEF MarkSeen, AdmissionTypeOK, Dropped
    <2>5. PolicyTypeOK' /\ QueueTypeOK' /\ WorkerTypeOK' /\ StoreTypeOK'
      BY <1>3 DEF MarkSeen, PolicyTypeOK, QueueTypeOK, WorkerTypeOK, StoreTypeOK,
                  workerVars, storeVars
    <2>6. AdmissionTypeOK'
      BY <1>3, <2>1, <2>4 DEF MarkSeen, AdmissionTypeOK, HandlerStates
    <2>7. JobsAccepted'
      <3>1. pc[h] # "accepted" /\ queue' = queue /\ job' = job
        BY <1>3, <2>1 DEF MarkSeen, workerVars
      <3> QED
        BY <2>4, <3>1, JobsAcceptedKept
    <2> QED
      BY <2>5, <2>6, <2>7
  <1>4. CASE Enqueue(h)
    <2>1. PolicyTypeOK' /\ QueueTypeOK' /\ WorkerTypeOK' /\ StoreTypeOK'
      <3>1. queue' \in Seq(Handlers)
        BY <1>4 DEF Enqueue, QueueTypeOK
      <3>2. PolicyTypeOK' /\ WorkerTypeOK' /\ StoreTypeOK'
        BY <1>4 DEF Enqueue, PolicyTypeOK, WorkerTypeOK, StoreTypeOK, workerVars, storeVars
      <3>3. QueueTypeOK'
        BY <1>4, <3>1 DEF Enqueue, QueueTypeOK
      <3> QED
        BY <3>2, <3>3
    <2>2. AdmissionTypeOK'
      BY <1>4 DEF Enqueue, AdmissionTypeOK, HandlerStates
    <2>3. JobsAccepted'
      <3>1. CASE queue' = Append(queue, h) /\ pc' = [pc EXCEPT ![h] = "accepted"]
        BY <1>4, <3>1 DEF Enqueue, JobsAccepted, AdmissionTypeOK, QueueTypeOK, workerVars
      <3>2. CASE queue' = queue
        <4>1. /\ pc[h] # "accepted" /\ job' = job
              /\ \E x : pc' = [pc EXCEPT ![h] = x]
          BY <1>4 DEF Enqueue, workerVars
        <4> QED
          BY <3>2, <4>1, JobsAcceptedKept
      <3>3. \/ queue' = Append(queue, h) /\ pc' = [pc EXCEPT ![h] = "accepted"]
            \/ queue' = queue
        BY <1>4 DEF Enqueue
      <3> QED
        BY <3>1, <3>2, <3>3
    <2> QED
      BY <2>1, <2>2, <2>3
  <1>5. CASE Unmark(h)
    <2>1. PolicyTypeOK' /\ QueueTypeOK' /\ WorkerTypeOK' /\ StoreTypeOK'
      BY <1>5 DEF Unmark, PolicyTypeOK, QueueTypeOK, WorkerTypeOK, StoreTypeOK,
                  workerVars, storeVars
    <2>2. AdmissionTypeOK'
      BY <1>5 DEF Unmark, Unmarked, AdmissionTypeOK, HandlerStates
    <2>3. JobsAccepted'
      BY <1>5 DEF Unmark, JobsAccepted, AdmissionTypeOK, workerVars
    <2> QED
      BY <2>1, <2>2, <2>3
  <1> QED
    BY <1>1, <1>2, <1>3, <1>4, <1>5 DEF HandlerStep

\* Every worker action keeps the invariant.
LEMMA TypeWorker ==
  ASSUME TypeInv, NEW w \in Workers, WorkerStep(w)
  PROVE  TypeInv'
  <1> USE DEF TypeInv, TypeOK
  <1>1. PolicyTypeOK' /\ AdmissionTypeOK'
    BY DEF WorkerStep, Take, Dequeued, WorkerExit, Lookup, LoadHistory, RunFails, RunSucceeds,
           Remember, Deliver, Release, PolicyTypeOK, AdmissionTypeOK, admissionVars
  <1>2. ASSUME job[w] # None
        PROVE  job[w] \in Handlers /\ Conv(job[w]) \in Convs
    BY <1>2, ChatOpsAssumption
    DEF WorkerTypeOK, JobsAccepted, AdmissionTypeOK, Conv
  <1>3. CASE Take(w)
    <2>1. Head(queue) \in Handlers /\ Tail(queue) \in Seq(Handlers)
      BY <1>3 DEF Take, Dequeued, QueueTypeOK
    <2>2. QueueTypeOK' /\ StoreTypeOK'
      BY <1>3, <2>1 DEF Take, Dequeued, QueueTypeOK, StoreTypeOK, storeVars
    <2>3. WorkerTypeOK'
      BY <1>3, <2>1, ChatOpsAssumption DEF Take, Dequeued, WorkerTypeOK, WorkerStates
    <2>4. JobsAccepted'
      <3>1. /\ pc' = pc /\ pc[Head(queue)] = "accepted"
            /\ \A i \in DOMAIN Tail(queue) : pc[Tail(queue)[i]] = "accepted"
        BY <1>3 DEF Take, Dequeued, JobsAccepted, QueueTypeOK, admissionVars
      <3> QED
        BY <1>3, <3>1 DEF Take, Dequeued, JobsAccepted, WorkerTypeOK
    <2> QED
      BY <1>1, <2>2, <2>3, <2>4
  <1>4. CASE WorkerExit(w)
    <2>1. QueueTypeOK' /\ StoreTypeOK'
      BY <1>4 DEF WorkerExit, QueueTypeOK, StoreTypeOK, WorkerTypeOK, storeVars
    <2>2. WorkerTypeOK'
      BY <1>4 DEF WorkerExit, WorkerTypeOK, StoreTypeOK, WorkerStates
    <2>3. JobsAccepted'
      BY <1>4 DEF WorkerExit, JobsAccepted, WorkerTypeOK, admissionVars
    <2> QED
      BY <1>1, <2>1, <2>2, <2>3
  <1>5. CASE Lookup(w)
    <2>1. QueueTypeOK' /\ StoreTypeOK'
      BY <1>5, <1>2 DEF Lookup, QueueTypeOK, StoreTypeOK, WorkerTypeOK, storeVars, SessionKey
    <2>2. WorkerTypeOK'
      BY <1>5, <1>2 DEF Lookup, WorkerTypeOK, StoreTypeOK, WorkerStates, SessionKey
    <2>3. JobsAccepted'
      BY <1>5 DEF Lookup, JobsAccepted, WorkerTypeOK, admissionVars
    <2> QED
      BY <1>1, <2>1, <2>2, <2>3
  <1>6. CASE LoadHistory(w)
    <2>1. QueueTypeOK' /\ StoreTypeOK'
      BY <1>6, <1>2 DEF LoadHistory, QueueTypeOK, StoreTypeOK, WorkerTypeOK, storeVars
    <2>2. WorkerTypeOK'
      BY <1>6, <1>2 DEF LoadHistory, WorkerTypeOK, StoreTypeOK, WorkerStates
    <2>3. JobsAccepted'
      BY <1>6 DEF LoadHistory, JobsAccepted, WorkerTypeOK, admissionVars
    <2> QED
      BY <1>1, <2>1, <2>2, <2>3
  <1>7. CASE RunFails(w)
    <2>1. QueueTypeOK' /\ StoreTypeOK'
      BY <1>7 DEF RunFails, QueueTypeOK, StoreTypeOK, WorkerTypeOK, storeVars
    <2>2. WorkerTypeOK'
      BY <1>7 DEF RunFails, WorkerTypeOK, StoreTypeOK, WorkerStates
    <2>3. JobsAccepted'
      BY <1>7 DEF RunFails, JobsAccepted, WorkerTypeOK, admissionVars
    <2> QED
      BY <1>1, <2>1, <2>2, <2>3
  <1>8. CASE RunSucceeds(w)
    <2>1. QueueTypeOK' /\ StoreTypeOK'
      <3>1. Session(w) \in Handlers /\ NewHistory(w) \in SUBSET Handlers
        BY <1>8, <1>2, ChatOpsAssumption
        DEF RunSucceeds, Session, NewHistory, WorkerTypeOK
      <3>2. MaybeWritten(snapshot[Session(w)], NewHistory(w)) \subseteq SUBSET Handlers
        BY <3>1 DEF MaybeWritten, StoreTypeOK
      <3>3. PICK x \in MaybeWritten(snapshot[Session(w)], NewHistory(w)) :
              snapshot' = [snapshot EXCEPT ![Session(w)] = x]
        BY <1>8 DEF RunSucceeds
      <3>4. sessionOf' = sessionOf /\ QueueTypeOK'
        BY <1>8 DEF RunSucceeds, QueueTypeOK
      <3> QED
        BY <3>1, <3>2, <3>3, <3>4 DEF StoreTypeOK
    <2>2. WorkerTypeOK'
      BY <1>8, <1>2 DEF RunSucceeds, WorkerTypeOK, StoreTypeOK, WorkerStates, MaybeWritten, NewHistory, Session
    <2>3. JobsAccepted'
      BY <1>8 DEF RunSucceeds, JobsAccepted, WorkerTypeOK, admissionVars
    <2> QED
      BY <1>1, <2>1, <2>2, <2>3
  <1>9. CASE Remember(w)
    <2>1. QueueTypeOK' /\ StoreTypeOK'
      BY <1>9, <1>2 DEF Remember, QueueTypeOK, StoreTypeOK, WorkerTypeOK, storeVars, MaybeWritten, Session, SessionKey
    <2>2. WorkerTypeOK'
      BY <1>9, <1>2 DEF Remember, WorkerTypeOK, StoreTypeOK, WorkerStates, MaybeWritten, Session, SessionKey
    <2>3. JobsAccepted'
      BY <1>9 DEF Remember, JobsAccepted, WorkerTypeOK, admissionVars
    <2> QED
      BY <1>1, <2>1, <2>2, <2>3
  <1>10. CASE Deliver(w)
    <2>1. QueueTypeOK' /\ StoreTypeOK'
      BY <1>10, <1>2 DEF Deliver, QueueTypeOK, StoreTypeOK, WorkerTypeOK, storeVars, Release, Outcomes, JobOutcomes
    <2>2. WorkerTypeOK'
      BY <1>10, <1>2 DEF Deliver, WorkerTypeOK, StoreTypeOK, WorkerStates, Release, Outcomes, JobOutcomes
    <2>3. JobsAccepted'
      BY <1>10 DEF Deliver, JobsAccepted, WorkerTypeOK, admissionVars, Release
    <2> QED
      BY <1>1, <2>1, <2>2, <2>3
  <1> QED
    BY <1>3, <1>4, <1>5, <1>6, <1>7, <1>8, <1>9, <1>10 DEF WorkerStep

\* No step of the system breaks the types, or strands a job whose handler was
\* not accepted.
LEMMA TypeStep == TypeInv /\ [Next]_vars => TypeInv'
  <1> SUFFICES ASSUME TypeInv, [Next]_vars
               PROVE  TypeInv'
    OBVIOUS
  <1> USE DEF TypeInv, TypeOK
  <1>1. CASE \E h \in Handlers : HandlerStep(h) \/ \E e \in Events : Arrive(h, e)
    BY <1>1, TypeHandler
  <1>2. CASE \E w \in Workers : WorkerStep(w)
    BY <1>2, TypeWorker
  <1>3. CASE BeginShutdown \/ ReturnShutdown
    BY <1>3 DEF BeginShutdown, ReturnShutdown, PolicyTypeOK, AdmissionTypeOK,
                QueueTypeOK, WorkerTypeOK, StoreTypeOK, JobsAccepted,
                admissionVars, workerVars, storeVars
  <1>4. CASE Restart
    <2>1. PolicyTypeOK' /\ StoreTypeOK'
      BY <1>4 DEF Restart, PolicyTypeOK, StoreTypeOK, NoWindows, storeVars
    <2>2. AdmissionTypeOK'
      BY <1>4 DEF Restart, AdmissionTypeOK, HandlerStates, Known
    <2>3. QueueTypeOK'
      <3>1. <<>> \in Seq(Handlers)
        OBVIOUS
      <3>2. outcome' \in [Handlers -> JobOutcomes]
        BY <1>4 DEF Restart, QueueTypeOK, JobOutcomes
      <3>3. closed' \in BOOLEAN
        BY <1>4 DEF Restart
      <3>4. queue' = <<>> /\ shut' = "up" /\ restarts' = restarts + 1
        BY <1>4 DEF Restart
      <3> QED
        BY <3>1, <3>4, <3>2, <3>3 DEF QueueTypeOK
    <2>4. WorkerTypeOK'
      BY <1>4 DEF Restart, WorkerTypeOK, WorkerStates, IdleWorkers
    <2>5. JobsAccepted'
      BY <1>4 DEF Restart, IdleWorkers, JobsAccepted
    <2> QED
      BY <2>1, <2>2, <2>3, <2>4, <2>5
  <1>5. CASE ClockTick
    BY <1>5 DEF ClockTick, Tick, PolicyTypeOK, AdmissionTypeOK, QueueTypeOK,
                WorkerTypeOK, StoreTypeOK, JobsAccepted, admissionVars,
                workerVars, storeVars
  <1>6. CASE UNCHANGED vars
    BY <1>6 DEF vars, PolicyTypeOK, AdmissionTypeOK, QueueTypeOK, WorkerTypeOK,
                StoreTypeOK, JobsAccepted
  <1> QED
    BY <1>1, <1>2, <1>3, <1>4, <1>5, <1>6 DEF Next, Quiet

\* All variables keep their types, in every behaviour.
THEOREM TypeCorrect == Spec => []TypeOK
  <1>1. TypeInv => TypeOK
    BY DEF TypeInv
  <1> QED
    BY <1>1, TypeInit, TypeStep, PTL DEF Spec

-----------------------------------------------------------------------------
(***************************************************************************)
(* Idempotency.  AtMostOnce speaks of accepted handlers; KeyOwned extends  *)
(* it to the handlers between markSeen and the end of Enqueue, which hold  *)
(* no lock any more but own the key in the map.                            *)
(***************************************************************************)

\* A step that makes no new owner and takes no owner's key away is harmless.
LEMMA KeyOwnedShrinks ==
  ASSUME KeyOwned,
         \A g \in Handlers : Owned(g)' => /\ Owned(g) /\ event'[g] = event[g]
                                          /\ seen'[event[g]] # Unseen
  PROVE  KeyOwned'
  BY DEF KeyOwned, Unseen

\* A step that changes neither handlers nor keys changes no ownership.
LEMMA KeyUntouched ==
  ASSUME KeyOwned, UNCHANGED <<pc, event, seen, forgotten>>
  PROVE  KeyOwned'
  BY DEF KeyOwned, Owned, Unseen

\* A handler action outside markSeen that moves h and leaves the map alone.
LEMMA KeyMoved ==
  ASSUME TypeInv, KeyOwned, NEW h \in Handlers, NEW x,
         pc' = [pc EXCEPT ![h] = x], x \in Holding => pc[h] \in Holding,
         UNCHANGED <<event, seen, forgotten>>
  PROVE  KeyOwned'
  <1>1. \A g \in Handlers : Owned(g)' => Owned(g)
    BY DEF TypeInv, TypeOK, AdmissionTypeOK, Owned
  <1> QED
    BY <1>1, KeyOwnedShrinks DEF KeyOwned

\* markSeen makes the handler the only owner of its key, and drops no key that
\* it does not report as forgotten.
LEMMA KeyMarkSeen ==
  ASSUME TypeInv, KeyOwned, NEW h \in Handlers, MarkSeen(h)
  PROVE  KeyOwned'
  <1> DEFINE pruned == PrunedSeen(at[h])
  <1>0. /\ event[h] \in Events /\ pc[h] = "authorized" /\ event' = event
        /\ pc \in [Handlers -> HandlerStates] /\ at[h] \in Nat
        /\ seen \in [Events -> Nat \cup {Unseen}]
        /\ \A g \in Handlers : pc[g] \in Holding => event[g] \in Events
    BY DEF MarkSeen, TypeInv, TypeOK, AdmissionTypeOK, Holding
  <1>1. CASE event[h] \in Keyless
    <2>1. /\ pc' = [pc EXCEPT ![h] = "enqueuing"]
          /\ UNCHANGED <<event, seen, forgotten>>
      BY <1>1 DEF MarkSeen
    <2>2. \A g \in Handlers : Owned(g)' => Owned(g)
      BY <1>0, <1>1, <2>1 DEF Owned
    <2> QED
      BY <2>1, <2>2, KeyOwnedShrinks DEF KeyOwned
  <1>2. CASE event[h] \notin Keyless /\ pruned[event[h]] # Unseen
    <2>1. /\ pc' = [pc EXCEPT ![h] = "duplicate"]
          /\ seen' = pruned
          /\ forgotten' = forgotten \cup Dropped(pruned)
      BY <1>2 DEF MarkSeen
    <2>2. \A g \in Handlers : Owned(g)' => Owned(g) /\ event[g] \notin Dropped(pruned)
      BY <1>0, <2>1 DEF Owned, Holding
    <2>3. \A g \in Handlers : Owned(g)' => seen'[event[g]] # Unseen
      BY <1>0, <2>1, <2>2 DEF KeyOwned, Dropped, Owned
    <2> QED
      BY <1>0, <2>2, <2>3, KeyOwnedShrinks
  <1>3. CASE event[h] \notin Keyless /\ pruned[event[h]] = Unseen
    <2>1. PICK m \in MakeRoom(pruned) :
            /\ seen' = Marked(h, m)
            /\ forgotten' = forgotten \cup Dropped(m)
      BY <1>3 DEF MarkSeen
    <2>2. pc' = [pc EXCEPT ![h] = "enqueuing"]
      BY <1>3 DEF MarkSeen
    <2>3. pruned \in [Events -> Nat \cup {Unseen}]
      BY <1>0 DEF PrunedSeen
    <2>4. m \in [Events -> Nat \cup {Unseen}] /\ m[event[h]] = Unseen
      BY <1>0, <1>3, <2>3 DEF MakeRoom
    \* An owner of the same key lost it to this prune or eviction.
    <2>5. \A g \in Handlers \ {h} : Owned(g)' =>
            /\ Owned(g) /\ event[g] \notin Dropped(m)
            /\ event[g] \in Events /\ seen[event[g]] # Unseen
      BY <1>0, <2>1, <2>2 DEF Owned, KeyOwned
    <2>6. \A g \in Handlers \ {h} : Owned(g)' =>
            event[g] # event[h] /\ m[event[g]] # Unseen
      BY <2>4, <2>5 DEF Dropped
    <2>7. /\ seen'[event[h]] # Unseen
          /\ \A e \in Events \ {event[h]} : seen'[e] = m[e]
      BY <1>0, <2>1, <2>4 DEF Marked, Unseen
    <2>8. \A g \in Handlers : Owned(g)' => seen'[event'[g]] # Unseen
      BY <1>0, <2>5, <2>6, <2>7
    <2>9. \A f, g \in Handlers : Owned(f)' /\ Owned(g)' /\ event'[f] = event'[g] => f = g
      BY <1>0, <2>5, <2>6 DEF KeyOwned
    <2> QED
      BY <2>8, <2>9 DEF KeyOwned, Unseen
  <1> QED
    BY <1>1, <1>2, <1>3

\* Every step of Service.Handle keeps the owners of keys unique.
LEMMA KeyHandler ==
  ASSUME TypeInv, KeyOwned, NEW h \in Handlers,
         HandlerStep(h) \/ \E e \in Events : Arrive(h, e)
  PROVE  KeyOwned'
  <1>1. ASSUME NEW e \in Events, Arrive(h, e)
        PROVE  KeyOwned'
    <2>1. \A g \in Handlers : Owned(g)' => g # h /\ Owned(g) /\ event'[g] = event[g]
      BY <1>1 DEF Arrive, TypeInv, TypeOK, AdmissionTypeOK, Owned, Holding
    <2>2. seen' = seen
      BY <1>1 DEF Arrive
    <2> QED
      BY <2>1, <2>2, KeyOwnedShrinks DEF KeyOwned
  <1>2. CASE Authorize(h)
    <2>1. /\ \/ pc' = [pc EXCEPT ![h] = "refused"]
             \/ pc' = [pc EXCEPT ![h] = "authorized"]
          /\ UNCHANGED <<event, seen, forgotten>>
      BY <1>2 DEF Authorize
    <2> QED
      BY <2>1, KeyMoved DEF Holding
  <1>3. CASE MarkSeen(h)
    BY <1>3, KeyMarkSeen
  <1>4. CASE Enqueue(h)
    <2>1. /\ pc[h] = "enqueuing"
          /\ \E x : pc' = [pc EXCEPT ![h] = x]
          /\ UNCHANGED <<event, seen, forgotten>>
      BY <1>4 DEF Enqueue
    <2> QED
      BY <2>1, KeyMoved DEF Holding
  <1>5. CASE Unmark(h)
    <2>1. /\ pc[h] = "unmarking" /\ pc' = [pc EXCEPT ![h] = "refused"]
          /\ seen' = [seen EXCEPT ![event[h]] = Unseen]
          /\ UNCHANGED <<event, forgotten>>
      BY <1>5 DEF Unmark, Unmarked
    <2>2. \A g \in Handlers : Owned(g)' => g # h /\ Owned(g)
      BY <2>1 DEF TypeInv, TypeOK, AdmissionTypeOK, Owned, Holding
    \* Another owner of the key of h would contradict uniqueness.
    <2>3. \A g \in Handlers : Owned(g)' => event[g] # event[h]
      BY <2>1, <2>2 DEF KeyOwned, Owned, Holding
    <2>4. \A g \in Handlers : Owned(g)' => seen'[event[g]] = seen[event[g]]
      <3>1. \A g \in Handlers : Owned(g) => event[g] \in Events
        BY DEF TypeInv, TypeOK, AdmissionTypeOK, Owned, Holding
      <3> QED
        BY <2>1, <2>2, <2>3, <3>1 DEF TypeInv, TypeOK, AdmissionTypeOK
    <2> QED
      BY <2>1, <2>2, <2>4, KeyOwnedShrinks DEF KeyOwned
  <1> QED
    BY <1>1, <1>2, <1>3, <1>4, <1>5 DEF HandlerStep

\* A restart leaves no owner: the keys that were in memory are forgotten.
LEMMA KeyRestart ==
  ASSUME TypeInv, KeyOwned, Restart
  PROVE  KeyOwned'
  <1>1. \A g \in Handlers : pc'[g] \in Holding => pc[g] \in Holding /\ event[g] \in Events
    BY DEF Restart, Holding, TypeInv, TypeOK, AdmissionTypeOK
  <1>2. event' = event /\ forgotten' = forgotten \cup Known(seen)
    BY DEF Restart
  <1>3. \A g \in Handlers : ~Owned(g)'
    BY <1>1, <1>2 DEF Owned, KeyOwned, Known
  <1> QED
    BY <1>3 DEF KeyOwned

\* No step of the system takes a key from its owner, or gives it two.
LEMMA KeyStep == TypeInv /\ KeyOwned /\ [Next]_vars => KeyOwned'
  <1> SUFFICES ASSUME TypeInv, KeyOwned, [Next]_vars
               PROVE  KeyOwned'
    OBVIOUS
  <1>1. CASE \E h \in Handlers : HandlerStep(h) \/ \E e \in Events : Arrive(h, e)
    BY <1>1, KeyHandler
  <1>2. CASE Restart
    BY <1>2, KeyRestart
  <1>3. ASSUME NEW w \in Workers, WorkerStep(w)
        PROVE  UNCHANGED <<pc, event, seen, forgotten>>
    BY <1>3 DEF WorkerStep, Take, Dequeued, WorkerExit, Lookup, LoadHistory, RunFails,
                RunSucceeds, Remember, Deliver, admissionVars
  <1>4. CASE BeginShutdown \/ ReturnShutdown \/ ClockTick \/ UNCHANGED vars
    <2>1. UNCHANGED <<pc, event, seen, forgotten>>
      BY <1>4 DEF BeginShutdown, ReturnShutdown, ClockTick, vars, admissionVars
    <2> QED
      BY <2>1, KeyUntouched
  <1> QED
    BY <1>1, <1>2, <1>3, <1>4, KeyUntouched DEF Next, Quiet

\* No event is accepted twice while its key is remembered, for any number of
\* deliveries, any interleaving of their handlers, and across the undo.
THEOREM AcceptedAtMostOnce == Spec => []AtMostOnce
  <1>1. Init => KeyOwned
    BY DEF Init, KeyOwned, Owned, Holding
  <1>2. KeyOwned => AtMostOnce
    BY DEF KeyOwned, AtMostOnce, Owned, Holding
  <1> QED
    BY <1>1, <1>2, KeyStep, TypeInit, TypeStep, PTL DEF Spec

-----------------------------------------------------------------------------
(***************************************************************************)
(* Isolation.  The histories of a conversation stay its own because every  *)
(* value a worker carries from one step to the next does: the session it   *)
(* looked up, and the history it loaded.  And an accepted handler keeps    *)
(* its event, so that "the conversation of a turn" never changes.          *)
(***************************************************************************)

Accepted(h) == h \in Handlers /\ pc[h] = "accepted"

\* Turn t belongs to the conversation of turn s.
SameConv(t, s) == Accepted(t) /\ Accepted(s) /\ event[t] \in Events
                  /\ event[s] \in Events /\ Conv(t) = Conv(s)

IsoSessions == \A c \in Convs : sessionOf[c] # None =>
                 Accepted(sessionOf[c]) /\ Conv(sessionOf[c]) = c
IsoSnapshots == \A s \in Handlers : \A t \in snapshot[s] : SameConv(t, s)
IsoWorkers ==
  \A w \in Workers :
    /\ job[w] = None => resume[w] = None /\ loaded[w] = {}
    /\ resume[w] # None => SameConv(resume[w], job[w])
    /\ \A t \in loaded[w] : SameConv(t, job[w])

IsoInv == IsoSessions /\ IsoSnapshots /\ IsoWorkers

\* An accepted handler stays accepted and keeps its event.
LEMMA AcceptedForGood ==
  ASSUME TypeInv, [Next]_vars, NEW h \in Handlers, pc[h] = "accepted"
  PROVE  pc'[h] = "accepted" /\ event'[h] = event[h]
  <1> USE DEF TypeInv, TypeOK, AdmissionTypeOK
  <1>1. ASSUME NEW g \in Handlers, HandlerStep(g)
        PROVE  pc'[h] = "accepted" /\ event'[h] = event[h]
    <2>1. /\ event' = event
          /\ pc[g] # "accepted" /\ \E x : pc' = [pc EXCEPT ![g] = x]
      BY <1>1 DEF HandlerStep, Authorize, MarkSeen, Enqueue, Unmark
    <2> QED
      BY <2>1
  <1>2. ASSUME NEW g \in Handlers, NEW e \in Events, Arrive(g, e)
        PROVE  pc'[h] = "accepted" /\ event'[h] = event[h]
    BY <1>2 DEF Arrive
  <1>3. ASSUME NEW w \in Workers, WorkerStep(w)
        PROVE  pc' = pc /\ event' = event
    BY <1>3 DEF WorkerStep, Take, Dequeued, WorkerExit, Lookup, LoadHistory, RunFails,
                RunSucceeds, Remember, Deliver, admissionVars
  <1>4. CASE BeginShutdown \/ ReturnShutdown \/ ClockTick \/ UNCHANGED vars
    BY <1>4 DEF BeginShutdown, ReturnShutdown, ClockTick, vars, admissionVars
  <1>5. CASE Restart
    BY <1>5 DEF Restart
  <1> QED
    BY <1>1, <1>2, <1>3, <1>4, <1>5 DEF Next, Quiet

\* Hence turns of one conversation stay in one conversation.
LEMMA SameConvForGood ==
  ASSUME TypeInv, [Next]_vars, NEW t, NEW s, SameConv(t, s)
  PROVE  SameConv(t, s)'
  BY AcceptedForGood DEF SameConv, Accepted, Conv

\* A step that remembers no session keeps the remembered ones apart.
LEMMA IsoSessionsKept ==
  ASSUME TypeInv, [Next]_vars, IsoSessions, sessionOf' = sessionOf
  PROVE  IsoSessions'
  BY AcceptedForGood DEF IsoSessions, Accepted, Conv

\* A step that writes no snapshot keeps the snapshots apart.
LEMMA IsoSnapshotsKept ==
  ASSUME TypeInv, [Next]_vars, IsoSnapshots, snapshot' = snapshot
  PROVE  IsoSnapshots'
  BY SameConvForGood DEF IsoSnapshots

\* A step that changes nothing a worker holds keeps the workers apart.
LEMMA IsoWorkersKept ==
  ASSUME TypeInv, [Next]_vars, IsoWorkers, UNCHANGED <<job, resume, loaded>>
  PROVE  IsoWorkers'
  BY SameConvForGood DEF IsoWorkers

\* Worker w may change what it holds as long as it stays in one conversation.
LEMMA IsoWorkersMoved ==
  ASSUME TypeInv, [Next]_vars, IsoWorkers, NEW w \in Workers,
         \A v \in Workers \ {w} :
           job'[v] = job[v] /\ resume'[v] = resume[v] /\ loaded'[v] = loaded[v],
         job'[w] = None => resume'[w] = None /\ loaded'[w] = {},
         resume'[w] # None => SameConv(resume'[w], job'[w]),
         \A t \in loaded'[w] : SameConv(t, job'[w])
  PROVE  IsoWorkers'
  <1>1. \A t, s : SameConv(t, s) => SameConv(t, s)'
    BY SameConvForGood
  <1>2. \A v \in Workers :
          /\ job'[v] = None => resume'[v] = None /\ loaded'[v] = {}
          /\ resume'[v] # None => SameConv(resume'[v], job'[v])
          /\ \A t \in loaded'[v] : SameConv(t, job'[v])
    BY DEF IsoWorkers
  <1> QED
    BY <1>1, <1>2 DEF IsoWorkers, SameConv, Accepted, Conv

\* Every step of Queue.run keeps conversations apart.
LEMMA IsoWorker ==
  ASSUME TypeInv, IsoInv, Next, NEW w \in Workers, WorkerStep(w)
  PROVE  IsoInv'
  <1> USE DEF TypeInv, TypeOK, IsoInv
  <1>0. [Next]_vars
    OBVIOUS
  <1>1. ASSUME job[w] # None
        PROVE  /\ Accepted(job[w]) /\ event[job[w]] \in Events
               /\ Conv(job[w]) \in Convs /\ SameConv(job[w], job[w])
    BY <1>1, ChatOpsAssumption
    DEF WorkerTypeOK, JobsAccepted, AdmissionTypeOK, Accepted, Conv, SameConv
  <1>2. CASE Take(w)
    <2>1. IsoSessions' /\ IsoSnapshots'
      BY <1>0, <1>2, IsoSessionsKept, IsoSnapshotsKept DEF Take, Dequeued, storeVars
    <2>2. /\ job[w] = None /\ resume[w] = None /\ loaded[w] = {}
          /\ job' = [job EXCEPT ![w] = Head(queue)] /\ Head(queue) \in Handlers
          /\ resume' = resume /\ loaded' = loaded
      BY <1>2 DEF Take, Dequeued, WorkerTypeOK, QueueTypeOK, IsoWorkers
    <2>3. IsoWorkers'
      BY <1>0, <2>2, IsoWorkersMoved, ChatOpsAssumption DEF WorkerTypeOK
    <2> QED
      BY <2>1, <2>3
  <1>3. CASE WorkerExit(w) \/ RunFails(w)
    BY <1>0, <1>3, IsoSessionsKept, IsoSnapshotsKept, IsoWorkersKept
    DEF WorkerExit, RunFails, storeVars
  <1>4. CASE Lookup(w)
    <2>1. IsoSessions' /\ IsoSnapshots'
      BY <1>0, <1>4, IsoSessionsKept, IsoSnapshotsKept DEF Lookup, storeVars
    <2>2. PICK found \in {sessionOf[Conv(job[w])], None} :
            resume' = [resume EXCEPT ![w] = found]
      BY <1>4 DEF Lookup, SessionKey
    <2>3. job[w] # None /\ job' = job /\ loaded' = loaded
      BY <1>4 DEF Lookup, WorkerTypeOK
    <2>4. found # None => SameConv(found, job[w])
      BY <1>1, <2>2, <2>3 DEF IsoSessions, SameConv, Accepted, AdmissionTypeOK
    <2>5. IsoWorkers'
      BY <1>0, <2>2, <2>3, <2>4, IsoWorkersMoved DEF WorkerTypeOK, IsoWorkers
    <2> QED
      BY <2>1, <2>5
  <1>5. CASE LoadHistory(w)
    <2>1. IsoSessions' /\ IsoSnapshots'
      BY <1>0, <1>5, IsoSessionsKept, IsoSnapshotsKept DEF LoadHistory, storeVars
    <2>2. /\ job[w] # None /\ job' = job /\ resume' = resume
          /\ loaded' = [loaded EXCEPT ![w] = IF resume[w] = None THEN {}
                                             ELSE snapshot[resume[w]]]
      BY <1>5 DEF LoadHistory, WorkerTypeOK
    <2>3. \A t \in loaded'[w] : SameConv(t, job[w])
      BY <2>2 DEF IsoWorkers, IsoSnapshots, SameConv, WorkerTypeOK
    <2>4. IsoWorkers'
      BY <1>0, <2>2, <2>3, IsoWorkersMoved DEF WorkerTypeOK, IsoWorkers
    <2> QED
      BY <2>1, <2>4
  <1>6. CASE RunSucceeds(w)
    <2>1. IsoSessions' /\ IsoWorkers'
      BY <1>0, <1>6, IsoSessionsKept, IsoWorkersKept DEF RunSucceeds
    <2>2. job[w] # None /\ Session(w) \in Handlers /\ SameConv(Session(w), job[w])
      BY <1>1, <1>6 DEF RunSucceeds, Session, WorkerTypeOK, IsoWorkers
    <2>3. \A t \in NewHistory(w) : SameConv(t, Session(w))
      BY <1>1, <2>2 DEF NewHistory, IsoWorkers, SameConv
    <2>4. PICK x \in {snapshot[Session(w)], NewHistory(w)} :
            snapshot' = [snapshot EXCEPT ![Session(w)] = x]
      BY <1>6 DEF RunSucceeds, MaybeWritten
    <2>5. \A s \in Handlers : \A t \in snapshot'[s] : SameConv(t, s)
      BY <2>2, <2>3, <2>4 DEF IsoSnapshots, StoreTypeOK
    <2>6. IsoSnapshots'
      BY <1>0, <2>5, SameConvForGood DEF IsoSnapshots
    <2> QED
      BY <2>1, <2>6
  <1>7. CASE Remember(w)
    <2>1. IsoSnapshots' /\ IsoWorkers'
      BY <1>0, <1>7, IsoSnapshotsKept, IsoWorkersKept DEF Remember
    <2>2. job[w] # None /\ SameConv(Session(w), job[w])
      BY <1>1, <1>7 DEF Remember, Session, WorkerTypeOK, IsoWorkers
    <2>3. PICK x \in {sessionOf[Conv(job[w])], Session(w)} :
            sessionOf' = [sessionOf EXCEPT ![Conv(job[w])] = x]
      BY <1>7 DEF Remember, MaybeWritten, SessionKey
    <2>4. \A c \in Convs : sessionOf'[c] # None =>
            Accepted(sessionOf'[c]) /\ Conv(sessionOf'[c]) = c
      BY <1>1, <2>2, <2>3 DEF IsoSessions, SameConv, StoreTypeOK
    <2>5. pc' = pc /\ event' = event
      BY <1>7 DEF Remember, admissionVars
    <2>6. IsoSessions'
      BY <2>4, <2>5 DEF IsoSessions, Accepted, Conv
    <2> QED
      BY <2>1, <2>6
  <1>8. CASE Deliver(w)
    <2>1. IsoSessions' /\ IsoSnapshots'
      BY <1>0, <1>8, IsoSessionsKept, IsoSnapshotsKept DEF Deliver, storeVars
    <2>2. /\ job' = [job EXCEPT ![w] = None]
          /\ resume' = [resume EXCEPT ![w] = None]
          /\ loaded' = [loaded EXCEPT ![w] = {}]
      BY <1>8 DEF Deliver, Release
    <2>3. IsoWorkers'
      BY <1>0, <2>2, IsoWorkersMoved DEF WorkerTypeOK
    <2> QED
      BY <2>1, <2>3
  <1> QED
    BY <1>2, <1>3, <1>4, <1>5, <1>6, <1>7, <1>8 DEF WorkerStep

\* Every step keeps conversations apart.
LEMMA IsoStep == TypeInv /\ IsoInv /\ [Next]_vars => IsoInv'
  <1> SUFFICES ASSUME TypeInv, IsoInv, [Next]_vars
               PROVE  IsoInv'
    OBVIOUS
  <1>1. ASSUME UNCHANGED <<sessionOf, snapshot, job, resume, loaded>>
        PROVE  IsoInv'
    BY <1>1, IsoSessionsKept, IsoSnapshotsKept, IsoWorkersKept DEF IsoInv
  <1>2. ASSUME NEW h \in Handlers,
               HandlerStep(h) \/ \E e \in Events : Arrive(h, e)
        PROVE  UNCHANGED <<sessionOf, snapshot, job, resume, loaded>>
    BY <1>2 DEF HandlerStep, Arrive, Authorize, MarkSeen, Enqueue, Unmark,
                workerVars, storeVars
  <1>3. ASSUME NEW w \in Workers, WorkerStep(w)
        PROVE  IsoInv'
    BY <1>3, IsoWorker DEF Next
  <1>4. CASE BeginShutdown \/ ReturnShutdown \/ ClockTick \/ UNCHANGED vars
    <2>1. UNCHANGED <<sessionOf, snapshot, job, resume, loaded>>
      BY <1>4 DEF BeginShutdown, ReturnShutdown, ClockTick, vars, workerVars, storeVars
    <2> QED
      BY <1>1, <2>1
  <1>5. CASE Restart
    <2>1. IsoSessions' /\ IsoSnapshots'
      BY <1>5, IsoSessionsKept, IsoSnapshotsKept DEF Restart, storeVars, IsoInv
    <2>2. IsoWorkers'
      BY <1>5 DEF Restart, IdleWorkers, IsoWorkers
    <2> QED
      BY <2>1, <2>2 DEF IsoInv
  <1> QED
    BY <1>1, <1>2, <1>3, <1>4, <1>5 DEF Next, Quiet

\* No conversation ever sees a turn of another one, for every number of
\* conversations and workers, with failing stores and with restarts.
THEOREM IsolationHolds == Spec => []ConversationsIsolated
  <1>1. Init => IsoInv
    BY DEF Init, IsoInv, IsoSessions, IsoSnapshots, IsoWorkers
  <1>2. TypeInv /\ IsoInv => ConversationsIsolated
    BY DEF TypeInv, TypeOK, WorkerTypeOK, StoreTypeOK, IsoInv, IsoSessions,
           IsoSnapshots, IsoWorkers, SameConv, Accepted, ConversationsIsolated
  <1> QED
    BY <1>1, <1>2, IsoStep, TypeInit, TypeStep, PTL DEF Spec

-----------------------------------------------------------------------------
(***************************************************************************)
(* The idempotency map: its capacity, and no key without an owner.  That   *)
(* the map is finite is part of the invariant, so that nothing need be     *)
(* assumed of the number of events.  Only keyed events are ever in it.     *)
(***************************************************************************)

MapInv ==
  /\ IsFiniteSet(Known(seen)) /\ SeenBounded
  /\ NoOrphanKey
  /\ \A e \in Events : seen[e] # Unseen => e \notin Keyless

\* A step that only takes keys out keeps the map within its capacity.
LEMMA MapShrinks ==
  ASSUME IsFiniteSet(Known(seen)), SeenBounded, Known(seen') \subseteq Known(seen)
  PROVE  IsFiniteSet(Known(seen')) /\ SeenBounded'
  <1>1. /\ IsFiniteSet(Known(seen')) /\ Cardinality(Known(seen')) \in Nat
        /\ Cardinality(Known(seen')) <= Cardinality(Known(seen))
        /\ Cardinality(Known(seen)) \in Nat
    BY FS_Subset, FS_CardinalityType
  <1> QED
    BY <1>1, ChatOpsAssumption DEF SeenBounded, Known

\* A handler that was not the owner of a key moves on, or one that stays so.
LEMMA MapMoved ==
  ASSUME TypeInv, MapInv, NEW h \in Handlers, NEW x,
         pc' = [pc EXCEPT ![h] = x], UNCHANGED <<event, seen>>,
         pc[h] \in Holding => x \in Holding \/ event[h] \in Keyless
  PROVE  MapInv'
  <1>1. \A e \in Events : seen[e] # Unseen =>
          \E g \in Handlers : event[g] = e /\ pc'[g] \in Holding
    BY DEF MapInv, NoOrphanKey, TypeInv, TypeOK, AdmissionTypeOK
  <1> QED
    BY <1>1 DEF MapInv, NoOrphanKey, SeenBounded, Known, Unseen

\* A step that touches neither handlers nor keys.
LEMMA MapUntouched ==
  ASSUME MapInv, UNCHANGED <<pc, event, seen>>
  PROVE  MapInv'
  BY DEF MapInv, NoOrphanKey, SeenBounded, Known, Unseen

\* markSeen: the prune and the eviction make room before the key goes in.
LEMMA MapMarkSeen ==
  ASSUME TypeInv, MapInv, NEW h \in Handlers, MarkSeen(h)
  PROVE  MapInv'
  <1> DEFINE pruned == PrunedSeen(at[h])
  <1>0. /\ event[h] \in Events /\ pc[h] = "authorized" /\ event' = event
        /\ pc \in [Handlers -> HandlerStates] /\ at[h] \in Nat
        /\ seen \in [Events -> Nat \cup {Unseen}]
    BY DEF MarkSeen, TypeInv, TypeOK, AdmissionTypeOK
  <1>1. pruned \in [Events -> Nat \cup {Unseen}]
    BY <1>0 DEF PrunedSeen
  <1>2. \A e \in Events : pruned[e] # Unseen => pruned[e] = seen[e]
    BY DEF PrunedSeen
  <1>3. Known(pruned) \subseteq Known(seen)
    BY <1>2 DEF Known
  <1>4. CASE event[h] \in Keyless
    BY <1>0, <1>4, MapMoved DEF MarkSeen, Holding
  <1>5. CASE event[h] \notin Keyless /\ pruned[event[h]] # Unseen
    <2>1. pc' = [pc EXCEPT ![h] = "duplicate"] /\ seen' = pruned
      BY <1>5 DEF MarkSeen
    <2>2. IsFiniteSet(Known(seen')) /\ SeenBounded'
      BY <1>3, <2>1, MapShrinks DEF MapInv
    <2>3. NoOrphanKey' /\ \A e \in Events : seen'[e] # Unseen => e \notin Keyless
      BY <1>0, <1>2, <2>1 DEF MapInv, NoOrphanKey, Holding, Unseen
    <2> QED
      BY <2>2, <2>3 DEF MapInv, Known, Unseen
  <1>6. CASE event[h] \notin Keyless /\ pruned[event[h]] = Unseen
    <2>1. PICK m \in MakeRoom(pruned) : seen' = Marked(h, m)
      BY <1>6 DEF MarkSeen
    <2>2. pc' = [pc EXCEPT ![h] = "enqueuing"]
      BY <1>6 DEF MarkSeen
    <2>3. IsFiniteSet(Known(pruned)) /\ Cardinality(Known(pruned)) \in Nat
          /\ Cardinality(Known(pruned)) <= MaxSeen
      <3>1. Cardinality(Known(seen)) <= MaxSeen /\ Cardinality(Known(seen)) \in Nat
        BY FS_CardinalityType DEF MapInv, SeenBounded
      <3>2. IsFiniteSet(Known(pruned))
            /\ Cardinality(Known(pruned)) <= Cardinality(Known(seen))
        BY <1>3, FS_Subset DEF MapInv
      <3> QED
        BY <3>1, <3>2, FS_CardinalityType, ChatOpsAssumption
    <2>4. /\ m \in [Events -> Nat \cup {Unseen}]
          /\ \A e \in Events : m[e] # Unseen => m[e] = pruned[e]
          /\ m[event[h]] = Unseen
      BY <1>0, <1>1, <1>6 DEF MakeRoom
    <2>5. /\ IsFiniteSet(Known(m)) /\ Cardinality(Known(m)) \in Nat
          /\ Cardinality(Known(m)) < MaxSeen
      <3>1. CASE m = pruned /\ Cardinality(Known(pruned)) < MaxSeen
        BY <2>3, <3>1
      <3>2. ASSUME NEW e \in Known(pruned), m = [pruned EXCEPT ![e] = Unseen]
            PROVE  /\ IsFiniteSet(Known(m)) /\ Cardinality(Known(m)) \in Nat
                   /\ Cardinality(Known(m)) < MaxSeen
        <4>1. Known(m) = Known(pruned) \ {e}
          BY <1>1, <3>2 DEF Known
        <4>2. IsFiniteSet(Known(m))
              /\ Cardinality(Known(m)) = Cardinality(Known(pruned)) - 1
          BY <2>3, <3>2, <4>1, FS_RemoveElement
        <4> QED
          BY <2>3, <4>2, FS_CardinalityType, ChatOpsAssumption
      <3> QED
        BY <2>3, <3>1, <3>2, ChatOpsAssumption DEF MakeRoom
    <2>6. Known(seen') = Known(m) \cup {event[h]}
      BY <1>0, <2>1, <2>4 DEF Known, Marked, Unseen
    <2>7. IsFiniteSet(Known(seen')) /\ Cardinality(Known(seen')) <= MaxSeen
      <3> DEFINE K == Known(m) \cup {event[h]}
      <3>1. /\ IsFiniteSet(K)
            /\ Cardinality(K) = IF event[h] \in Known(m)
                                THEN Cardinality(Known(m))
                                ELSE Cardinality(Known(m)) + 1
        BY <2>5, FS_AddElement
      <3>2. Cardinality(K) <= MaxSeen
        BY <2>5, <3>1, ChatOpsAssumption
      <3> QED
        BY <2>6, <3>1, <3>2
    <2>8. \A e \in Events : seen'[e] # Unseen => e = event[h] \/ seen[e] # Unseen
      BY <1>0, <1>2, <2>1, <2>4 DEF Marked, Unseen
    <2>9. NoOrphanKey' /\ \A e \in Events : seen'[e] # Unseen => e \notin Keyless
      BY <1>0, <1>6, <2>2, <2>8 DEF MapInv, NoOrphanKey, Holding, Unseen
    <2> QED
      BY <2>7, <2>9 DEF MapInv, SeenBounded, Known, Unseen
  <1> QED
    BY <1>4, <1>5, <1>6

\* No step of Service.Handle leaves a key behind, or one too many.
LEMMA MapHandler ==
  ASSUME TypeInv, MapInv, NEW h \in Handlers,
         HandlerStep(h) \/ \E e \in Events : Arrive(h, e)
  PROVE  MapInv'
  <1>1. ASSUME NEW e \in Events, Arrive(h, e)
        PROVE  MapInv'
    <2>1. seen' = seen /\ \A g \in Handlers : pc[g] \in Holding =>
            pc'[g] = pc[g] /\ event'[g] = event[g]
      BY <1>1 DEF Arrive, TypeInv, TypeOK, AdmissionTypeOK, Holding
    <2> QED
      BY <2>1 DEF MapInv, NoOrphanKey, SeenBounded, Known, Unseen, Holding
  <1>2. CASE Authorize(h)
    <2>1. /\ \/ pc' = [pc EXCEPT ![h] = "refused"]
             \/ pc' = [pc EXCEPT ![h] = "authorized"]
          /\ pc[h] = "arrived" /\ UNCHANGED <<event, seen>>
      BY <1>2 DEF Authorize
    <2> QED
      BY <2>1, MapMoved DEF Holding
  <1>3. CASE MarkSeen(h)
    BY <1>3, MapMarkSeen
  <1>4. CASE Enqueue(h)
    <2>1. UNCHANGED <<event, seen>>
      BY <1>4 DEF Enqueue
    <2>2. PICK x \in {"accepted", "unmarking", "refused"} :
            /\ pc' = [pc EXCEPT ![h] = x]
            /\ x = "refused" => event[h] \in Keyless
      BY <1>4 DEF Enqueue
    <2> QED
      BY <2>1, <2>2, MapMoved DEF Holding
  <1>5. CASE Unmark(h)
    <2>1. /\ pc' = [pc EXCEPT ![h] = "refused"]
          /\ seen' = [seen EXCEPT ![event[h]] = Unseen]
          /\ event' = event
      BY <1>5 DEF Unmark, Unmarked
    <2>2. \A e \in Events : seen'[e] # Unseen => seen[e] # Unseen /\ e # event[h]
      BY <2>1 DEF TypeInv, TypeOK, AdmissionTypeOK
    <2>3. IsFiniteSet(Known(seen')) /\ SeenBounded'
      BY <2>2, MapShrinks DEF MapInv, Known
    <2>4. NoOrphanKey' /\ \A e \in Events : seen'[e] # Unseen => e \notin Keyless
      BY <2>1, <2>2
      DEF MapInv, NoOrphanKey, Unseen, TypeInv, TypeOK, AdmissionTypeOK
    <2> QED
      BY <2>3, <2>4 DEF MapInv, Known, Unseen
  <1> QED
    BY <1>1, <1>2, <1>3, <1>4, <1>5 DEF HandlerStep

\* The map keeps within its capacity and holds no key of an event that was
\* turned away, for every interleaving of the deliveries; and every key has
\* one owner.
THEOREM KeysAreAccounted == Spec => []KeysAccounted
  <1>1. Init => MapInv
    <2> SUFFICES ASSUME Init PROVE MapInv
      OBVIOUS
    <2>1. Known(seen) = {}
      BY DEF Init, Known
    <2>2. IsFiniteSet(Known(seen)) /\ Cardinality(Known(seen)) = 0
      BY <2>1, FS_EmptySet
    <2>3. SeenBounded
      BY <2>2, ChatOpsAssumption DEF SeenBounded
    <2> QED
      BY <2>2, <2>3 DEF Init, MapInv, NoOrphanKey
  <1>2. TypeInv /\ MapInv /\ [Next]_vars => MapInv'
    <2> SUFFICES ASSUME TypeInv, MapInv, [Next]_vars PROVE MapInv'
      OBVIOUS
    <2>1. CASE \E h \in Handlers : HandlerStep(h) \/ \E e \in Events : Arrive(h, e)
      BY <2>1, MapHandler
    <2>2. CASE Restart
      <3>1. seen' = [e \in Events |-> Unseen] /\ Unseen' = Unseen
        BY <2>2 DEF Restart, Unseen
      <3>2. Known(seen') = {}
        BY <3>1 DEF Known
      <3>3. IsFiniteSet(Known(seen')) /\ SeenBounded'
        BY <3>2, FS_EmptySet, ChatOpsAssumption DEF SeenBounded, Known
      <3> QED
        BY <3>1, <3>3 DEF MapInv, NoOrphanKey, Known
    <2>3. ASSUME NEW w \in Workers, WorkerStep(w)
          PROVE  UNCHANGED <<pc, event, seen>>
      BY <2>3 DEF WorkerStep, Take, Dequeued, WorkerExit, Lookup, LoadHistory, RunFails,
                  RunSucceeds, Remember, Deliver, admissionVars
    <2>4. CASE BeginShutdown \/ ReturnShutdown \/ ClockTick \/ UNCHANGED vars
      <3>1. UNCHANGED <<pc, event, seen>>
        BY <2>4 DEF BeginShutdown, ReturnShutdown, ClockTick, vars, admissionVars
      <3> QED
        BY <3>1, MapUntouched
    <2> QED
      BY <2>1, <2>2, <2>3, <2>4, MapUntouched DEF Next, Quiet
  <1>3. Init => KeyOwned
    BY DEF Init, KeyOwned, Owned, Holding
  <1>4. KeyOwned /\ MapInv => KeysAccounted
    BY DEF MapInv, KeysAccounted
  <1> QED
    BY <1>1, <1>2, <1>3, <1>4, KeyStep, TypeInit, TypeStep, PTL DEF Spec

-----------------------------------------------------------------------------
(***************************************************************************)
(* The jobs.  JobsConserved is inductive but for the end of the workers: a *)
(* worker that is gone left a closed and empty channel behind, which stays *)
(* so, and Shutdown reports the queue drained only when all are gone.      *)
(***************************************************************************)

AcceptedJobs == {h \in Handlers : pc[h] = "accepted"}

ExitsInv ==
  /\ \A w \in Workers : phase[w] = "exited" => closed /\ queue = <<>>
  /\ shut # "up" => closed
  /\ shut = "drained" => AllExited

LedgerInv == JobsConserved /\ ExitsInv

\* A step that moves no job.
LEMMA LedgerUntouched ==
  ASSUME JobsConserved, AcceptedJobs' = AcceptedJobs,
         UNCHANGED <<queue, job, outcome>>
  PROVE  JobsConserved'
  BY DEF JobsConserved, AcceptedJobs, Waiting, Running, Concluded

\* Handle and Enqueue: a job enters the channel exactly when it is accepted.
LEMMA LedgerHandler ==
  ASSUME TypeInv, LedgerInv, NEW h \in Handlers,
         HandlerStep(h) \/ \E e \in Events : Arrive(h, e)
  PROVE  LedgerInv'
  <1> USE DEF TypeInv, TypeOK, AdmissionTypeOK, QueueTypeOK
  <1>1. UNCHANGED <<phase, job, outcome, closed, shut>>
    BY DEF HandlerStep, Arrive, Authorize, MarkSeen, Enqueue, Unmark, workerVars
  <1>2. CASE AcceptedJobs' = AcceptedJobs /\ queue' = queue
    BY <1>1, <1>2, LedgerUntouched DEF LedgerInv, ExitsInv, AllExited
  <1>3. CASE /\ pc[h] = "enqueuing" /\ pc' = [pc EXCEPT ![h] = "accepted"]
             /\ ~closed /\ queue' = Append(queue, h)
    <2>1. AcceptedJobs' = AcceptedJobs \cup {h} /\ h \notin AcceptedJobs
      BY <1>3 DEF AcceptedJobs
    <2>2. /\ DOMAIN queue' = DOMAIN queue \cup {Len(queue) + 1}
          /\ Len(queue) + 1 \notin DOMAIN queue
          /\ queue'[Len(queue) + 1] = h
          /\ \A i \in DOMAIN queue : queue'[i] = queue[i]
      BY <1>3
    <2>3. Waiting' = Waiting \cup {h}
      BY <2>2 DEF Waiting
    <2>4. Running' = Running /\ Concluded' = Concluded
      BY <1>1 DEF Running, Concluded
    <2>5. h \notin Waiting \cup Running \cup Concluded
      BY <2>1 DEF LedgerInv, JobsConserved, AcceptedJobs
    <2>6. \A i, j \in DOMAIN queue' : queue'[i] = queue'[j] => i = j
      BY <2>2, <2>5 DEF LedgerInv, JobsConserved, Waiting
    <2>7. AcceptedJobs' = Waiting' \cup Running' \cup Concluded'
      BY <2>1, <2>3, <2>4 DEF LedgerInv, JobsConserved, AcceptedJobs
    <2>8. JobsConserved'
      BY <1>1, <2>3, <2>4, <2>5, <2>6, <2>7
      DEF LedgerInv, JobsConserved, AcceptedJobs
    <2>9. ExitsInv'
      BY <1>1, <1>3 DEF LedgerInv, ExitsInv, AllExited
    <2> QED
      BY <2>8, <2>9 DEF LedgerInv
  <1>4. ASSUME NEW e \in Events, Arrive(h, e)
        PROVE  AcceptedJobs' = AcceptedJobs /\ queue' = queue
    BY <1>4 DEF Arrive, AcceptedJobs
  <1>5. CASE Authorize(h) \/ MarkSeen(h) \/ Unmark(h)
    <2>1. /\ queue' = queue /\ pc[h] # "accepted"
          /\ \E x : pc' = [pc EXCEPT ![h] = x] /\ x # "accepted"
      BY <1>5 DEF Authorize, MarkSeen, Unmark
    <2> QED
      BY <1>2, <2>1 DEF AcceptedJobs
  <1>6. CASE Enqueue(h)
    <2>1. CASE queue' = queue
      <3>1. pc[h] # "accepted" /\ \E x : pc' = [pc EXCEPT ![h] = x] /\ x # "accepted"
        BY <1>6, <2>1 DEF Enqueue
      <3> QED
        BY <1>2, <2>1, <3>1 DEF AcceptedJobs
    <2>2. CASE queue' # queue
      BY <1>3, <1>6, <2>2 DEF Enqueue
    <2> QED
      BY <2>1, <2>2
  <1> QED
    BY <1>2, <1>4, <1>5, <1>6 DEF HandlerStep

\* A worker takes a job out of the channel and concludes it, once each.
LEMMA LedgerWorker ==
  ASSUME TypeInv, LedgerInv, NEW w \in Workers, WorkerStep(w)
  PROVE  LedgerInv'
  <1> USE DEF TypeInv, TypeOK, QueueTypeOK, WorkerTypeOK
  <1>1. /\ pc' = pc /\ UNCHANGED <<closed, shut>>
        /\ phase[w] # "exited" /\ \A v \in Workers \ {w} : phase'[v] = phase[v]
    BY DEF WorkerStep, Take, Dequeued, WorkerExit, Lookup, LoadHistory, RunFails,
           RunSucceeds, Remember, Deliver, Release, admissionVars
  <1>2. AcceptedJobs' = AcceptedJobs
    BY <1>1 DEF AcceptedJobs
  <1>3. shut' # "drained"
    BY <1>1 DEF LedgerInv, ExitsInv, AllExited
  <1>4. CASE WorkerExit(w)
    <2>1. JobsConserved'
      BY <1>2, <1>4, LedgerUntouched DEF WorkerExit, LedgerInv
    <2>2. ExitsInv'
      BY <1>1, <1>3, <1>4 DEF WorkerExit, ChannelDrained, LedgerInv, ExitsInv
    <2> QED
      BY <2>1, <2>2 DEF LedgerInv
  <1>5. CASE Lookup(w) \/ LoadHistory(w) \/ RunFails(w) \/ RunSucceeds(w) \/ Remember(w)
    <2>1. UNCHANGED <<queue, job, outcome>> /\ phase'[w] # "exited"
      BY <1>5 DEF Lookup, LoadHistory, RunFails, RunSucceeds, Remember
    <2>2. JobsConserved'
      BY <1>2, <2>1, LedgerUntouched DEF LedgerInv
    <2>3. ExitsInv'
      BY <1>1, <1>3, <2>1 DEF LedgerInv, ExitsInv
    <2> QED
      BY <2>2, <2>3 DEF LedgerInv
  <1>6. CASE Take(w)
    <2>1. /\ job[w] = None /\ queue # <<>> /\ phase'[w] # "exited"
          /\ job' = [job EXCEPT ![w] = Head(queue)]
          /\ queue' = Tail(queue) /\ outcome' = outcome
      BY <1>6 DEF Take, Dequeued
    <2>2. /\ Head(queue) \in Handlers /\ Head(queue) # None
          /\ 1 \in DOMAIN queue /\ queue[1] = Head(queue)
          /\ \A i \in DOMAIN queue' : i + 1 \in DOMAIN queue /\ queue'[i] = queue[i + 1]
          /\ \A i \in DOMAIN queue : i # 1 => i - 1 \in DOMAIN queue' /\ queue'[i - 1] = queue[i]
          /\ DOMAIN queue' \subseteq Nat \ {0}
      BY <2>1, ChatOpsAssumption
    <2>3. Waiting' = Waiting \ {Head(queue)}
      <3>1. \A i \in DOMAIN queue' : queue'[i] \in Waiting /\ queue'[i] # Head(queue)
        BY <2>2 DEF LedgerInv, JobsConserved, Waiting
      <3>2. \A i \in DOMAIN queue : queue[i] # Head(queue) => queue[i] \in Waiting'
        BY <2>2 DEF Waiting
      <3> QED
        BY <3>1, <3>2 DEF Waiting
    <2>4. Head(queue) \in Waiting
      BY <2>2 DEF Waiting
    <2>5. Running' = Running \cup {Head(queue)}
      BY <2>1, <2>2 DEF Running
    <2>6. Concluded' = Concluded
      BY <2>1 DEF Concluded
    <2>7. Head(queue) \notin Running \cup Concluded
      BY <2>4 DEF LedgerInv, JobsConserved
    <2>8. \A i, j \in DOMAIN queue' : queue'[i] = queue'[j] => i = j
      <3> SUFFICES ASSUME NEW i \in DOMAIN queue', NEW j \in DOMAIN queue',
                          queue'[i] = queue'[j]
                   PROVE  i = j
        OBVIOUS
      <3>1. i + 1 = j + 1
        BY <2>2 DEF LedgerInv, JobsConserved
      <3> QED
        BY <2>2, <3>1
    <2>9. \A u, v \in Workers : job'[u] = job'[v] /\ job'[u] # None => u = v
      BY <2>1, <2>2, <2>7 DEF LedgerInv, JobsConserved, Running
    <2>10. AcceptedJobs' = Waiting' \cup Running' \cup Concluded'
      BY <1>2, <2>3, <2>4, <2>5, <2>6 DEF LedgerInv, JobsConserved, AcceptedJobs
    <2>11. JobsConserved'
      BY <2>3, <2>5, <2>6, <2>7, <2>8, <2>9, <2>10
      DEF LedgerInv, JobsConserved, AcceptedJobs
    <2>12. ExitsInv'
      BY <1>1, <1>3, <2>1 DEF LedgerInv, ExitsInv
    <2> QED
      BY <2>11, <2>12 DEF LedgerInv
  <1>7. CASE Deliver(w)
    <2>1. /\ job[w] \in Handlers /\ job[w] # None /\ phase'[w] # "exited"
          /\ job' = [job EXCEPT ![w] = None] /\ queue' = queue
      BY <1>7 DEF Deliver, Release
    <2>2. PICK o \in JobOutcomes \ {"none"} :
            outcome' = [outcome EXCEPT ![job[w]] = o]
      BY <1>7 DEF Deliver, Outcomes, JobOutcomes
    <2>3. Waiting' = Waiting
      BY <2>1 DEF Waiting
    <2>4. Running' = Running \ {job[w]} /\ job[w] \in Running
      BY <2>1 DEF Running, LedgerInv, JobsConserved
    <2>5. Concluded' = Concluded \cup {job[w]}
      BY <2>1, <2>2 DEF Concluded
    <2>6. AcceptedJobs' = Waiting' \cup Running' \cup Concluded'
      BY <1>2, <2>3, <2>4, <2>5 DEF LedgerInv, JobsConserved, AcceptedJobs
    <2>7. \A u, v \in Workers : job'[u] = job'[v] /\ job'[u] # None => u = v
      BY <2>1 DEF LedgerInv, JobsConserved
    <2>8. JobsConserved'
      BY <2>1, <2>3, <2>4, <2>5, <2>6, <2>7
      DEF LedgerInv, JobsConserved, AcceptedJobs
    <2>9. ExitsInv'
      BY <1>1, <1>3, <2>1 DEF LedgerInv, ExitsInv
    <2> QED
      BY <2>8, <2>9 DEF LedgerInv
  <1> QED
    BY <1>4, <1>5, <1>6, <1>7 DEF WorkerStep

\* A restart concludes what was accepted: those jobs are lost, and known to be.
LEMMA LedgerRestart ==
  ASSUME TypeInv, LedgerInv, Restart
  PROVE  LedgerInv'
  <1>1. /\ queue' = <<>> /\ closed' = FALSE /\ shut' = "up"
        /\ job' = [w \in Workers |-> None] /\ phase' = [w \in Workers |-> "idle"]
    BY DEF Restart, IdleWorkers
  <1>2. AcceptedJobs' = AcceptedJobs
    BY DEF Restart, AcceptedJobs
  <1>3. Waiting' = {} /\ Running' = {}
    BY <1>1 DEF Waiting, Running
  <1>4. Concluded' = AcceptedJobs
    <2>1. \A h \in Handlers : outcome[h] # "none" => pc[h] = "accepted"
      BY DEF LedgerInv, JobsConserved, Concluded
    <2> QED
      BY <2>1 DEF Restart, Concluded, AcceptedJobs, TypeInv, TypeOK, QueueTypeOK
  <1>5. JobsConserved'
    BY <1>1, <1>2, <1>3, <1>4 DEF JobsConserved, AcceptedJobs
  <1>6. ExitsInv'
    BY <1>1 DEF ExitsInv
  <1> QED
    BY <1>5, <1>6 DEF LedgerInv

\* The ledger starts empty.
LEMMA LedgerInit == Init => LedgerInv
  <1> SUFFICES ASSUME Init PROVE LedgerInv
    OBVIOUS
  <1>1. AcceptedJobs = {} /\ Waiting = {} /\ Running = {} /\ Concluded = {}
    BY DEF Init, AcceptedJobs, Waiting, Running, Concluded
  <1>2. JobsConserved
    BY <1>1 DEF Init, JobsConserved, AcceptedJobs
  <1> QED
    BY <1>2 DEF Init, LedgerInv, ExitsInv

\* No step of the system loses or doubles a job.
LEMMA LedgerStep == TypeInv /\ LedgerInv /\ [Next]_vars => LedgerInv'
  <1> SUFFICES ASSUME TypeInv, LedgerInv, [Next]_vars PROVE LedgerInv'
    OBVIOUS
  <1>1. CASE \E h \in Handlers : HandlerStep(h) \/ \E e \in Events : Arrive(h, e)
    BY <1>1, LedgerHandler
  <1>2. CASE \E w \in Workers : WorkerStep(w)
    BY <1>2, LedgerWorker
  <1>3. CASE Restart
    BY <1>3, LedgerRestart
  <1>4. CASE BeginShutdown \/ ReturnShutdown
    <2>1. UNCHANGED <<pc, queue, job, outcome, phase>>
      BY <1>4 DEF BeginShutdown, ReturnShutdown, admissionVars, workerVars
    <2>2. JobsConserved'
      BY <2>1, LedgerUntouched DEF LedgerInv, AcceptedJobs
    <2>3. ExitsInv'
      BY <1>4, <2>1
      DEF BeginShutdown, ReturnShutdown, LedgerInv, ExitsInv, AllExited
    <2> QED
      BY <2>2, <2>3 DEF LedgerInv
  <1>5. CASE ClockTick \/ UNCHANGED vars
    <2>1. UNCHANGED <<pc, queue, job, outcome, phase, closed, shut>>
      BY <1>5 DEF ClockTick, vars, admissionVars, workerVars
    <2>2. JobsConserved'
      BY <2>1, LedgerUntouched DEF LedgerInv, AcceptedJobs
    <2> QED
      BY <2>1, <2>2 DEF LedgerInv, ExitsInv, AllExited
  <1> QED
    BY <1>1, <1>2, <1>3, <1>4, <1>5 DEF Next, Quiet

\* No job is lost between the channel and its conclusion, none is run twice,
\* and a queue that Shutdown calls drained is drained: for any number of
\* workers and deliveries, and wherever a restart falls.
THEOREM JobsAreKept == Spec => []JobsKept
  <1>1. TypeInv /\ LedgerInv => JobsKept
    <2> SUFFICES ASSUME TypeInv, LedgerInv, shut = "drained"
                 PROVE  closed /\ AcceptedJobs = Concluded
      BY DEF JobsKept, LedgerInv, ShutdownDrains, AcceptedJobs, Concluded
    <2>1. closed /\ AllExited
      BY DEF LedgerInv, ExitsInv
    <2>2. queue = <<>>
      BY <2>1, ChatOpsAssumption DEF LedgerInv, ExitsInv, AllExited
    <2>3. Waiting = {} /\ Running = {}
      BY <2>1, <2>2
      DEF Waiting, Running, AllExited, TypeInv, TypeOK, WorkerTypeOK
    <2> QED
      BY <2>1, <2>3 DEF LedgerInv, JobsConserved, AcceptedJobs
  <1> QED
    BY <1>1, LedgerInit, LedgerStep, TypeInit, TypeStep, PTL DEF Spec

-----------------------------------------------------------------------------
(***************************************************************************)
(* Refinement: every step of the service is a step of JobLedger or leaves  *)
(* the ledger alone.                                                       *)
(***************************************************************************)

\* The ledger's variables that are not variables of the service.
Serving == [w \in Workers |-> IF job[w] = None THEN {} ELSE {job[w]}]
ClosedJobs == {h \in Handlers : outcome[h] \notin {"none", "lost"}}
LostJobs == {h \in Handlers : outcome[h] = "lost"}

\* The waiting room never holds more than the channel has entries.
LEMMA WaitingCounted ==
  ASSUME TypeInv
  PROVE  /\ IsFiniteSet(Waiting) /\ Cardinality(Waiting) \in Nat
         /\ Cardinality(Waiting) <= Len(queue)
  <1>1. /\ queue \in [1..Len(queue) -> Handlers] /\ Len(queue) \in Nat
        /\ DOMAIN queue = 1..Len(queue)
    BY DEF TypeInv, TypeOK, QueueTypeOK
  <1>2. /\ IsFiniteSet(1..Len(queue)) /\ Cardinality(1..Len(queue)) = Len(queue)
    <2>1. /\ IsFiniteSet(1..Len(queue))
          /\ Cardinality(1..Len(queue)) =
               IF 1 > Len(queue) THEN 0 ELSE Len(queue) - 1 + 1
      BY <1>1, FS_Interval
    <2> QED
      BY <1>1, <2>1
  <1> DEFINE room == {queue[i] : i \in 1..Len(queue)}
  <1>3. queue \in Surjection(1..Len(queue), room)
    BY <1>1 DEF Surjection
  <1>4. IsFiniteSet(room) /\ Cardinality(room) <= Cardinality(1..Len(queue))
    BY <1>2, <1>3, FS_Surjection
  <1>5. Waiting = room
    BY <1>1 DEF Waiting
  <1> QED
    BY <1>2, <1>4, <1>5, FS_CardinalityType

\* A job on the way is neither closed nor lost.
LEMMA ServedRunning ==
  ASSUME TypeInv, LedgerInv
  PROVE  /\ Ledger!Served = Running
         /\ Concluded = ClosedJobs \cup LostJobs
  <1>1. Ledger!Served = UNION {Serving[w] : w \in Workers}
    BY DEF Ledger!Served, Serving
  <1>2. UNION {Serving[w] : w \in Workers} = Running
    BY DEF Serving, Running
  <1>3. Concluded = ClosedJobs \cup LostJobs
    BY DEF Concluded, ClosedJobs, LostJobs
  <1> QED
    BY <1>1, <1>2, <1>3

\* A step that moves no job and does not touch the channel's end.
LEMMA LedgerStutters ==
  ASSUME UNCHANGED <<queue, closed, job, outcome>>
  PROVE  UNCHANGED Ledger!ledgerVars
  BY DEF Ledger!ledgerVars, Waiting

\* Handle and Enqueue: an accepted job is admitted.
LEMMA LedgerAdmits ==
  ASSUME TypeInv, LedgerInv, NEW h \in Handlers,
         HandlerStep(h) \/ \E e \in Events : Arrive(h, e)
  PROVE  [Ledger!LedgerNext]_(Ledger!ledgerVars)
  <1>1. UNCHANGED <<closed, job, outcome>>
    BY DEF HandlerStep, Arrive, Authorize, MarkSeen, Enqueue, Unmark, workerVars
  <1>2. CASE queue' = queue
    BY <1>1, <1>2, LedgerStutters
  <1>3. CASE queue' # queue
    <2>1. /\ pc[h] = "enqueuing" /\ ~closed /\ Len(queue) < QueueDepth
          /\ queue' = Append(queue, h)
      BY <1>3 DEF HandlerStep, Arrive, Authorize, MarkSeen, Enqueue, Unmark,
                  ChannelHasRoom
    <2>2. h \notin Waiting \cup Running \cup Concluded
      BY <2>1 DEF LedgerInv, JobsConserved
    <2>3. h \in Ledger!Fresh
      BY <2>2, ServedRunning DEF Ledger!Fresh, ClosedJobs, LostJobs
    <2>4. Cardinality(Waiting) < QueueDepth
      BY <2>1, WaitingCounted, ChatOpsAssumption
      DEF TypeInv, TypeOK, QueueTypeOK
    <2>5. Waiting' = Waiting \cup {h}
      <3>1. /\ DOMAIN queue' = DOMAIN queue \cup {Len(queue) + 1}
            /\ queue'[Len(queue) + 1] = h
            /\ \A i \in DOMAIN queue : queue'[i] = queue[i]
        BY <2>1 DEF TypeInv, TypeOK, QueueTypeOK
      <3> QED
        BY <3>1 DEF Waiting
    <2>6. Ledger!Cardinality(Waiting) = Cardinality(Waiting)
      BY Zenon DEF Cardinality, Ledger!Cardinality
    <2>7. Ledger!Admit(h)
      BY <1>1, <2>1, <2>3, <2>4, <2>5, <2>6 DEF Ledger!Admit
    <2> QED
      BY <2>7 DEF Ledger!LedgerNext
  <1> QED
    BY <1>2, <1>3

\* A worker serves the job it takes and concludes it when it has delivered.
LEMMA LedgerServes ==
  ASSUME TypeInv, LedgerInv, NEW w \in Workers, WorkerStep(w)
  PROVE  [Ledger!LedgerNext]_(Ledger!ledgerVars)
  <1> USE DEF TypeInv, TypeOK, QueueTypeOK, WorkerTypeOK
  <1>1. CASE \/ WorkerExit(w) \/ Lookup(w) \/ LoadHistory(w) \/ RunFails(w)
             \/ RunSucceeds(w) \/ Remember(w)
    BY <1>1, LedgerStutters
    DEF WorkerExit, Lookup, LoadHistory, RunFails, RunSucceeds, Remember
  <1>2. CASE Take(w)
    <2>1. /\ job[w] = None /\ queue # <<>>
          /\ job' = [job EXCEPT ![w] = Head(queue)]
          /\ queue' = Tail(queue) /\ UNCHANGED <<outcome, closed>>
      BY <1>2 DEF Take, Dequeued
    <2>2. /\ Head(queue) \in Handlers /\ Head(queue) # None
          /\ 1 \in DOMAIN queue /\ queue[1] = Head(queue)
          /\ \A i \in DOMAIN queue' : i # 0 /\ i + 1 \in DOMAIN queue
                                      /\ i + 1 # 1 /\ queue'[i] = queue[i + 1]
          /\ \A i \in DOMAIN queue : i # 1 =>
               i - 1 \in DOMAIN queue' /\ queue'[i - 1] = queue[i]
      BY <2>1, ChatOpsAssumption
    <2>3. Waiting' = Waiting \ {Head(queue)} /\ Head(queue) \in Waiting
      <3>1. \A i \in DOMAIN queue' : queue'[i] \in Waiting /\ queue'[i] # Head(queue)
        BY <2>2 DEF LedgerInv, JobsConserved, Waiting
      <3>2. \A i \in DOMAIN queue : queue[i] # Head(queue) => queue[i] \in Waiting'
        BY <2>2 DEF Waiting
      <3> QED
        BY <2>2, <3>1, <3>2 DEF Waiting
    <2>4. Serving[w] = {} /\ Serving' = [Serving EXCEPT ![w] = {Head(queue)}]
      BY <2>1, <2>2 DEF Serving
    <2>5. PICK j \in Handlers : j = Head(queue)
      BY <2>2
    <2>6. Ledger!Serve(w, j)
      BY <2>1, <2>3, <2>4, <2>5 DEF Ledger!Serve, Serving
    <2> QED
      BY <2>6 DEF Ledger!LedgerNext
  <1>3. CASE Deliver(w)
    <2>1. /\ job[w] \in Handlers /\ job[w] # None
          /\ job' = [job EXCEPT ![w] = None] /\ UNCHANGED <<queue, closed>>
      BY <1>3 DEF Deliver, Release
    <2>2. PICK o \in JobOutcomes \ {"none", "lost"} :
            outcome' = [outcome EXCEPT ![job[w]] = o]
      BY <1>3 DEF Deliver, Outcomes, JobOutcomes
    <2>3. outcome[job[w]] = "none"
      BY <2>1 DEF LedgerInv, JobsConserved, Running, Concluded
    <2>4. ClosedJobs' = ClosedJobs \cup {job[w]} /\ LostJobs' = LostJobs
      BY <2>1, <2>2, <2>3 DEF ClosedJobs, LostJobs
    <2>5. Serving[w] = {job[w]} /\ Serving' = [Serving EXCEPT ![w] = {}]
      BY <2>1 DEF Serving
    <2>6. Waiting' = Waiting
      BY <2>1 DEF Waiting
    <2>7. Ledger!Conclude(w)
      BY <2>1, <2>4, <2>5, <2>6
      DEF Ledger!Conclude, Serving, ClosedJobs, LostJobs
    <2> QED
      BY <2>7 DEF Ledger!LedgerNext
  <1> QED
    BY <1>1, <1>2, <1>3 DEF WorkerStep

\* The end of the process is an outage: what was open is lost.
LEMMA LedgerLoses ==
  ASSUME TypeInv, LedgerInv, Restart
  PROVE  Ledger!Outage
  <1>1. /\ queue' = <<>> /\ closed' = FALSE
        /\ job' = [w \in Workers |-> None]
        /\ outcome' = [h \in Handlers |->
                         IF pc[h] = "accepted" /\ outcome[h] = "none"
                         THEN "lost" ELSE outcome[h]]
    BY DEF Restart, IdleWorkers
  <1>2. Waiting' = {} /\ Serving' = [w \in Workers |-> {}]
    BY <1>1 DEF Waiting, Serving
  <1>3. ClosedJobs' = ClosedJobs
    BY <1>1 DEF ClosedJobs, TypeInv, TypeOK, QueueTypeOK
  <1>4. LostJobs' = LostJobs \cup Waiting \cup Running
    <2>1. \A h \in Handlers :
            pc[h] = "accepted" /\ outcome[h] = "none" <=> h \in Waiting \cup Running
      BY DEF LedgerInv, JobsConserved, Concluded
    <2>2. Waiting \cup Running \subseteq Handlers
      BY DEF LedgerInv, JobsConserved
    <2> QED
      BY <1>1, <2>1, <2>2 DEF LostJobs, TypeInv, TypeOK, QueueTypeOK
  <1> QED
    BY <1>1, <1>2, <1>3, <1>4, ServedRunning
    DEF Ledger!Outage, Serving, ClosedJobs, LostJobs

\* The queue implements the ledger, for any number of workers, any depth, and
\* across restarts.
THEOREM QueueImplementsLedger == Spec => QueueKeepsLedger
  <1>1. Init => Ledger!LedgerInit
    BY DEF Init, Ledger!LedgerInit, Waiting
  <1>2. TypeInv /\ LedgerInv /\ [Next]_vars => [Ledger!LedgerNext]_(Ledger!ledgerVars)
    <2> SUFFICES ASSUME TypeInv, LedgerInv, [Next]_vars
                 PROVE  [Ledger!LedgerNext]_(Ledger!ledgerVars)
      OBVIOUS
    <2>1. CASE \E h \in Handlers : HandlerStep(h) \/ \E e \in Events : Arrive(h, e)
      BY <2>1, LedgerAdmits
    <2>2. CASE \E w \in Workers : WorkerStep(w)
      BY <2>2, LedgerServes
    <2>3. CASE Restart
      BY <2>3, LedgerLoses DEF Ledger!LedgerNext
    <2>4. CASE BeginShutdown
      <3>1. closed' = TRUE /\ UNCHANGED <<queue, job, outcome>>
        BY <2>4 DEF BeginShutdown, workerVars
      <3>2. CASE closed
        BY <3>1, <3>2, LedgerStutters DEF TypeInv, TypeOK, QueueTypeOK
      <3>3. CASE ~closed
        BY <3>1, <3>3 DEF Ledger!LedgerNext, Ledger!Close, Waiting
      <3> QED
        BY <3>2, <3>3
    <2>5. CASE ReturnShutdown \/ ClockTick \/ UNCHANGED vars
      BY <2>5, LedgerStutters
      DEF ReturnShutdown, ClockTick, vars, admissionVars, workerVars
    <2> QED
      BY <2>1, <2>2, <2>3, <2>4, <2>5 DEF Next, Quiet
  <1> QED
    BY <1>1, <1>2, LedgerInit, LedgerStep, TypeInit, TypeStep, PTL
    DEF Spec, QueueKeepsLedger, Ledger!LedgerSpec

-----------------------------------------------------------------------------
(***************************************************************************)
(* Follow-ups.  With one worker nothing moves the session of a             *)
(* conversation between its lookup and the save, and with a home directory *)
(* that works the session looked up is the one remembered: what is saved   *)
(* is what was saved before and this turn.  So the session remembered for  *)
(* a conversation holds every turn of it that was answered.                *)
(***************************************************************************)

\* max_concurrent_runs = 1, the default (config.go:593).
OneWorker == \A v, w \in Workers : v = w

AnsweredKept ==
  \A t \in Answered :
    /\ Accepted(t) /\ event[t] \in Events /\ Conv(t) \in Convs
    /\ sessionOf[Conv(t)] # None /\ t \in snapshot[sessionOf[Conv(t)]]

PriorAnswered ==
  \A h \in Handlers : pc[h] # "idle" =>
    \A t \in prior[h] : t \in Answered /\ Conv(t) = Conv(h)

\* What worker w holds is what the stores hold of its conversation.
InStep(w) ==
  job[w] # None =>
    /\ phase[w] \in {"starting", "running", "remembering"} =>
         resume[w] = sessionOf[Conv(job[w])]
    /\ phase[w] = "running" =>
         loaded[w] = IF resume[w] = None THEN {} ELSE snapshot[resume[w]]
    /\ phase[w] = "remembering" => job[w] \in snapshot[Session(w)]
    /\ phase[w] = "replying" /\ reply[w] = "text" =>
         /\ sessionOf[Conv(job[w])] # None
         /\ job[w] \in snapshot[sessionOf[Conv(job[w])]]

FollowInv ==
  AnsweredKept /\ PriorAnswered /\ RememberedResumable /\ \A w \in Workers : InStep(w)

\* All that is known of the state.
WholeInv == TypeInv /\ IsoInv /\ LedgerInv /\ FollowInv

\* The worker that runs has an accepted job of some conversation, and no
\* answered one.
LEMMA JobFacts ==
  ASSUME TypeInv, LedgerInv, NEW w \in Workers, job[w] # None
  PROVE  /\ job[w] \in Handlers /\ pc[job[w]] = "accepted" /\ event[job[w]] \in Events
         /\ Conv(job[w]) \in Convs /\ outcome[job[w]] = "none"
  <1>1. job[w] \in Handlers /\ pc[job[w]] = "accepted" /\ event[job[w]] \in Events
    BY DEF TypeInv, TypeOK, WorkerTypeOK, JobsAccepted, AdmissionTypeOK
  <1>2. Conv(job[w]) \in Convs
    BY <1>1, ChatOpsAssumption DEF Conv
  <1>3. outcome[job[w]] = "none"
    <2>1. job[w] \in Running
      BY DEF Running
    <2>2. job[w] \notin Concluded
      BY <2>1 DEF LedgerInv, JobsConserved
    <2> QED
      BY <1>1, <2>2 DEF Concluded
  <1> QED
    BY <1>1, <1>2, <1>3

\* An answered turn stays answered, and stays in its conversation.
LEMMA AnsweredForGood ==
  ASSUME TypeInv, LedgerInv, [Next]_vars, NEW t \in Answered
  PROVE  /\ t \in Handlers /\ pc[t] = "accepted" /\ t \in Answered'
         /\ Accepted(t)' /\ event'[t] = event[t] /\ Conv(t)' = Conv(t)
  <1>1. t \in Handlers /\ pc[t] = "accepted" /\ outcome[t] = "delivered"
    <2>1. t \in Handlers /\ outcome[t] = "delivered"
      BY DEF Answered
    <2>2. t \in Concluded
      BY <2>1 DEF Concluded
    <2> QED
      BY <2>1, <2>2 DEF LedgerInv, JobsConserved
  <1>2. pc'[t] = "accepted" /\ event'[t] = event[t]
    BY <1>1, AcceptedForGood
  <1>3. outcome'[t] = "delivered"
    <2>1. ASSUME NEW w \in Workers, Deliver(w) PROVE outcome'[t] = "delivered"
      <3>1. job[w] # None
        BY <2>1 DEF Deliver, TypeInv, TypeOK, WorkerTypeOK
      <3>2. job[w] # t /\ \E o : outcome' = [outcome EXCEPT ![job[w]] = o]
        BY <1>1, <2>1, <3>1, JobFacts DEF Deliver
      <3> QED
        BY <1>1, <3>2 DEF TypeInv, TypeOK, QueueTypeOK
    <2>2. CASE Restart
      BY <1>1, <2>2 DEF Restart, TypeInv, TypeOK, QueueTypeOK
    <2>3. ASSUME ~Restart, \A w \in Workers : ~Deliver(w) PROVE outcome' = outcome
      BY <2>3 DEF Next, HandlerStep, Arrive, Authorize, MarkSeen, Enqueue, Unmark,
         WorkerStep, Take, WorkerExit, Lookup, LoadHistory, RunFails, RunSucceeds, Remember,
         BeginShutdown, ReturnShutdown, ClockTick, Quiet, vars
    <2> QED
      BY <1>1, <2>1, <2>2, <2>3
  <1> QED
    BY <1>1, <1>2, <1>3 DEF Answered, Accepted, Conv

\* The turns answered before a handler's event came stay answered.
LEMMA PriorStep ==
  ASSUME TypeInv, LedgerInv, PriorAnswered, [Next]_vars
  PROVE  PriorAnswered'
  <1> USE DEF TypeInv, TypeOK, AdmissionTypeOK
  <1>1. ASSUME NEW h \in Handlers, NEW e \in Events, Arrive(h, e)
        PROVE  \A t \in prior'[h] : t \in Answered' /\ Conv(t)' = Conv(h)'
    <2>1. event'[h] = e /\ prior'[h] = {t \in Answered : Conv(t) = ConvOf[e]}
      BY <1>1 DEF Arrive
    <2>2. \A t \in Answered : t \in Answered' /\ Conv(t)' = Conv(t)
      BY AnsweredForGood
    <2> QED
      BY <2>1, <2>2 DEF Conv
  <1>2. ASSUME NEW h \in Handlers, \A e \in Events : ~Arrive(h, e)
        PROVE  /\ prior'[h] = prior[h] /\ event'[h] = event[h]
               /\ pc'[h] # "idle" => pc[h] # "idle"
    <2>1. ASSUME NEW g \in Handlers, NEW e \in Events, Arrive(g, e)
          PROVE  prior'[h] = prior[h] /\ event'[h] = event[h] /\ pc'[h] = pc[h]
      BY <1>2, <2>1 DEF Arrive
    <2>2. ASSUME NEW g \in Handlers, HandlerStep(g)
          PROVE  /\ prior' = prior /\ event' = event
                 /\ pc'[h] # "idle" => pc[h] # "idle"
      <3>1. /\ prior' = prior /\ event' = event
            /\ pc[g] # "idle" /\ \E x : pc' = [pc EXCEPT ![g] = x]
        BY <2>2 DEF HandlerStep, Authorize, MarkSeen, Enqueue, Unmark
      <3> QED
        BY <3>1
    <2>3. ASSUME NEW w \in Workers, WorkerStep(w)
          PROVE  pc' = pc /\ event' = event /\ prior' = prior
      BY <2>3 DEF WorkerStep, Take, WorkerExit, Lookup, LoadHistory, RunFails,
                  RunSucceeds, Remember, Deliver, admissionVars
    <2>4. CASE BeginShutdown \/ ReturnShutdown \/ ClockTick \/ UNCHANGED vars
      BY <2>4 DEF BeginShutdown, ReturnShutdown, ClockTick, vars, admissionVars
    <2>5. CASE Restart
      BY <2>5 DEF Restart
    <2> QED
      BY <2>1, <2>2, <2>3, <2>4, <2>5 DEF Next, Quiet
  <1>3. ASSUME NEW h \in Handlers, pc'[h] # "idle"
        PROVE  \A t \in prior'[h] : t \in Answered' /\ Conv(t)' = Conv(h)'
    <2>1. CASE \E e \in Events : Arrive(h, e)
      BY <1>1, <2>1
    <2>2. CASE \A e \in Events : ~Arrive(h, e)
      <3>1. /\ prior'[h] = prior[h] /\ event'[h] = event[h] /\ pc[h] # "idle"
        BY <1>2, <1>3, <2>2
      <3>2. \A t \in prior[h] : t \in Answered /\ Conv(t) = Conv(h)
        BY <3>1 DEF PriorAnswered
      <3>3. \A t \in Answered : t \in Answered' /\ Conv(t)' = Conv(t)
        BY AnsweredForGood
      <3>4. Conv(h)' = Conv(h)
        BY <3>1 DEF Conv
      <3> QED
        BY <3>1, <3>2, <3>3, <3>4
    <2> QED
      BY <2>1, <2>2
  <1> QED
    BY <1>3 DEF PriorAnswered

\* The job of a worker stays in its conversation.
LEMMA JobForGood ==
  ASSUME TypeInv, LedgerInv, [Next]_vars, NEW w \in Workers, job[w] # None
  PROVE  event'[job[w]] = event[job[w]]
  BY JobFacts, AcceptedForGood

\* A step that answers no one and writes no store.
LEMMA AnswersKept ==
  ASSUME TypeInv, LedgerInv, AnsweredKept, RememberedResumable, [Next]_vars,
         Answered' \subseteq Answered, UNCHANGED storeVars
  PROVE  AnsweredKept' /\ RememberedResumable'
  <1>1. RememberedResumable'
    BY DEF RememberedResumable, storeVars
  <1>2. ASSUME NEW t \in Answered'
        PROVE  /\ Accepted(t)' /\ event'[t] \in Events /\ Conv(t)' \in Convs
               /\ sessionOf'[Conv(t)'] # None /\ t \in snapshot'[sessionOf'[Conv(t)']]
    <2>1. /\ t \in Answered /\ event[t] \in Events /\ Conv(t) \in Convs
          /\ sessionOf[Conv(t)] # None /\ t \in snapshot[sessionOf[Conv(t)]]
      BY DEF AnsweredKept
    <2>2. Accepted(t)' /\ event'[t] = event[t] /\ Conv(t)' = Conv(t)
      BY <2>1, AnsweredForGood
    <2> QED
      BY <2>1, <2>2 DEF storeVars
  <1> QED
    BY <1>1, <1>2 DEF AnsweredKept

\* A step of someone else than the workers.
LEMMA FollowUntouched ==
  ASSUME TypeInv, LedgerInv, FollowInv, [Next]_vars,
         UNCHANGED <<workerVars, storeVars, outcome>>
  PROVE  AnsweredKept' /\ RememberedResumable' /\ \A w \in Workers : InStep(w)'
  <1>1. AnsweredKept' /\ RememberedResumable'
    BY AnswersKept DEF FollowInv, Answered
  <1>2. ASSUME NEW w \in Workers PROVE InStep(w)'
    <2>1. job[w] # None => Conv(job[w])' = Conv(job[w])
      BY JobForGood DEF Conv, workerVars
    <2>2. InStep(w)
      BY DEF FollowInv
    <2> QED
      BY <2>1, <2>2 DEF InStep, Session, workerVars, storeVars
  <1> QED
    BY <1>1, <1>2

\* Every step of the only worker.
LEMMA FollowWorker ==
  ASSUME OneWorker, ~StoreFaults, TypeInv, IsoInv, LedgerInv, FollowInv, [Next]_vars,
         NEW w \in Workers, WorkerStep(w)
  PROVE  AnsweredKept' /\ RememberedResumable' /\ \A v \in Workers : InStep(v)'
  <1> DEFINE j == job[w]
             c == Conv(job[w])
  <1>0. /\ event' = event /\ pc' = pc /\ InStep(w)
        /\ phase \in [Workers -> WorkerStates] /\ job \in [Workers -> Handlers \cup {None}]
        /\ resume \in [Workers -> Handlers \cup {None}]
        /\ loaded \in [Workers -> SUBSET Handlers]
        /\ reply \in [Workers -> {"none", "text", "error"}]
        /\ sessionOf \in [Convs -> Handlers \cup {None}]
        /\ snapshot \in [Handlers -> SUBSET Handlers]
        /\ outcome \in [Handlers -> JobOutcomes]
        /\ job[w] = None <=> phase[w] \in {"idle", "exited"}
        /\ AnsweredKept /\ RememberedResumable
    BY DEF WorkerStep, Take, WorkerExit, Lookup, LoadHistory, RunFails, RunSucceeds,
           Remember, Deliver, admissionVars, FollowInv, TypeInv, TypeOK, WorkerTypeOK,
           StoreTypeOK, QueueTypeOK
  <1>1. \A v \in Workers : v = w
    BY DEF OneWorker
  <1>2. j # None => /\ j \in Handlers /\ pc[j] = "accepted" /\ event[j] \in Events
                    /\ c \in Convs /\ outcome[j] = "none"
    BY JobFacts
  <1>3. CASE Take(w)
    <2>1. phase'[w] = "taken" /\ UNCHANGED <<storeVars, outcome>>
      BY <1>0, <1>3 DEF Take
    <2>2. InStep(w)'
      BY <2>1 DEF InStep
    <2> QED
      BY <1>0, <1>1, <2>1, <2>2, AnswersKept DEF Answered
  <1>4. CASE WorkerExit(w)
    <2>1. phase'[w] = "exited" /\ UNCHANGED <<storeVars, outcome>>
      BY <1>0, <1>4 DEF WorkerExit
    <2>2. InStep(w)'
      BY <2>1 DEF InStep
    <2> QED
      BY <1>0, <1>1, <2>1, <2>2, AnswersKept DEF Answered
  <1>5. CASE Lookup(w)
    <2>1. /\ phase'[w] = "starting" /\ UNCHANGED <<storeVars, outcome, job>>
          /\ resume'[w] = sessionOf[c]
      BY <1>0, <1>5 DEF Lookup, SessionKey
    <2>2. InStep(w)'
      BY <1>0, <2>1 DEF InStep, Conv, storeVars
    <2> QED
      BY <1>0, <1>1, <2>1, <2>2, AnswersKept DEF Answered
  <1>6. CASE LoadHistory(w)
    <2>1. /\ phase[w] = "starting" /\ phase'[w] = "running" /\ job[w] # None
          /\ UNCHANGED <<storeVars, outcome, job, resume>>
          /\ loaded'[w] = IF resume[w] = None THEN {} ELSE snapshot[resume[w]]
      BY <1>0, <1>6 DEF LoadHistory
    <2>2. resume[w] = sessionOf[c]
      BY <1>0, <2>1 DEF InStep
    <2>3. InStep(w)'
      BY <1>0, <2>1, <2>2 DEF InStep, Conv, storeVars
    <2> QED
      BY <1>0, <1>1, <2>1, <2>3, AnswersKept DEF Answered
  <1>7. CASE RunFails(w)
    <2>1. phase'[w] = "replying" /\ reply'[w] = "error" /\ UNCHANGED <<storeVars, outcome>>
      BY <1>0, <1>7 DEF RunFails
    <2>2. InStep(w)'
      BY <2>1 DEF InStep
    <2> QED
      BY <1>0, <1>1, <2>1, <2>2, AnswersKept DEF Answered
  <1>8. CASE RunSucceeds(w)
    <2>1. /\ phase[w] = "running" /\ phase'[w] = "remembering" /\ job[w] # None
          /\ UNCHANGED <<job, resume, loaded, sessionOf, outcome>>
          /\ snapshot' = [snapshot EXCEPT ![Session(w)] = NewHistory(w)]
      BY <1>0, <1>8 DEF RunSucceeds, MaybeWritten
    <2>2. /\ resume[w] = sessionOf[c]
          /\ loaded[w] = IF resume[w] = None THEN {} ELSE snapshot[resume[w]]
      BY <1>0, <2>1 DEF InStep
    <2>3. Session(w) \in Handlers
      BY <1>0, <1>2, <2>1 DEF Session
    <2>4. Conv(Session(w)) = c
      BY <1>2, <2>1, <2>2 DEF Session, IsoInv, IsoSessions
    <2>5. /\ snapshot'[Session(w)] = loaded[w] \cup {j}
          /\ \A s \in Handlers : s # Session(w) => snapshot'[s] = snapshot[s]
      BY <1>0, <2>1, <2>3 DEF NewHistory
    <2>6. ASSUME NEW d \in Convs, sessionOf[d] # None
          PROVE  sessionOf[d] \in Handlers /\ snapshot[sessionOf[d]] \subseteq snapshot'[sessionOf[d]]
      <3>1. sessionOf[d] \in Handlers
        BY <1>0, <2>6
      <3>2. CASE sessionOf[d] = Session(w)
        <4>1. d = c
          BY <2>4, <2>6, <3>2 DEF IsoInv, IsoSessions
        <4>2. resume[w] # None /\ Session(w) = resume[w]
          BY <2>2, <2>6, <4>1 DEF Session
        <4> QED
          BY <2>2, <2>5, <3>1, <3>2, <4>2
      <3>3. CASE sessionOf[d] # Session(w)
        BY <2>5, <3>1, <3>3
      <3> QED
        BY <3>1, <3>2, <3>3
    <2>7. RememberedResumable'
      <3>1. ASSUME NEW d \in Convs, sessionOf'[d] # None PROVE snapshot'[sessionOf'[d]] # {}
        <4>1. sessionOf'[d] = sessionOf[d] /\ snapshot[sessionOf[d]] # {}
          BY <1>0, <2>1, <3>1 DEF RememberedResumable
        <4> QED
          BY <2>6, <3>1, <4>1
      <3> QED
        BY <3>1 DEF RememberedResumable
    <2>8. AnsweredKept'
      <3>1. ASSUME NEW t \in Answered'
            PROVE  /\ Accepted(t)' /\ event'[t] \in Events /\ Conv(t)' \in Convs
                   /\ sessionOf'[Conv(t)'] # None /\ t \in snapshot'[sessionOf'[Conv(t)']]
        <4>1. t \in Answered
          BY <2>1 DEF Answered
        <4>2. /\ Accepted(t) /\ event[t] \in Events /\ Conv(t) \in Convs
              /\ sessionOf[Conv(t)] # None /\ t \in snapshot[sessionOf[Conv(t)]]
          BY <1>0, <4>1 DEF AnsweredKept
        <4>3. Conv(t)' = Conv(t) /\ Accepted(t)'
          BY <1>0, <4>2 DEF Conv, Accepted
        <4> QED
          BY <1>0, <2>1, <2>6, <4>2, <4>3
      <3> QED
        BY <3>1 DEF AnsweredKept
    <2>9. InStep(w)'
      <3>1. resume'[w] = sessionOf'[Conv(job[w])'] /\ job'[w] \in snapshot'[Session(w)']
        BY <1>0, <2>1, <2>2, <2>5 DEF Conv, Session
      <3> QED
        BY <2>1, <3>1 DEF InStep, Session, Conv
    <2> QED
      BY <1>1, <2>7, <2>8, <2>9
  <1>9. CASE Remember(w)
    <2>1. /\ phase[w] = "remembering" /\ phase'[w] = "replying" /\ job[w] # None
          /\ UNCHANGED <<job, resume, loaded, reply, snapshot, outcome>>
          /\ sessionOf' = [sessionOf EXCEPT ![c] = Session(w)]
      BY <1>0, <1>9 DEF Remember, MaybeWritten, SessionKey
    <2>2. resume[w] = sessionOf[c] /\ job[w] \in snapshot[Session(w)]
      BY <1>0, <2>1 DEF InStep
    <2>3. Session(w) \in Handlers /\ Session(w) # None
      BY <1>0, <1>2, <2>1, ChatOpsAssumption DEF Session
    <2>4. /\ sessionOf'[c] = Session(w)
          /\ \A d \in Convs : d # c => sessionOf'[d] = sessionOf[d]
          /\ sessionOf[c] # None => sessionOf'[c] = sessionOf[c]
      BY <1>0, <1>2, <2>1, <2>2 DEF Session
    <2>5. RememberedResumable'
      <3>1. ASSUME NEW d \in Convs, sessionOf'[d] # None PROVE snapshot'[sessionOf'[d]] # {}
        <4>1. CASE d = c
          BY <2>1, <2>2, <2>4, <4>1
        <4>2. CASE d # c
          BY <1>0, <2>1, <2>4, <3>1, <4>2 DEF RememberedResumable
        <4> QED
          BY <4>1, <4>2
      <3> QED
        BY <3>1 DEF RememberedResumable
    <2>6. AnsweredKept'
      <3>1. ASSUME NEW t \in Answered'
            PROVE  /\ Accepted(t)' /\ event'[t] \in Events /\ Conv(t)' \in Convs
                   /\ sessionOf'[Conv(t)'] # None /\ t \in snapshot'[sessionOf'[Conv(t)']]
        <4>1. t \in Answered
          BY <2>1 DEF Answered
        <4>2. /\ Accepted(t) /\ event[t] \in Events /\ Conv(t) \in Convs
              /\ sessionOf[Conv(t)] # None /\ t \in snapshot[sessionOf[Conv(t)]]
          BY <1>0, <4>1 DEF AnsweredKept
        <4>3. Conv(t)' = Conv(t) /\ Accepted(t)'
          BY <1>0, <4>2 DEF Conv, Accepted
        <4>4. sessionOf'[Conv(t)] = sessionOf[Conv(t)]
          BY <2>4, <4>2
        <4> QED
          BY <1>0, <2>1, <4>2, <4>3, <4>4
      <3> QED
        BY <3>1 DEF AnsweredKept
    <2>7. InStep(w)'
      <3>1. /\ sessionOf'[Conv(job[w])'] # None
            /\ job'[w] \in snapshot'[sessionOf'[Conv(job[w])']]
        BY <1>0, <2>1, <2>2, <2>3, <2>4 DEF Conv
      <3> QED
        BY <2>1, <3>1 DEF InStep, Conv
    <2> QED
      BY <1>1, <2>5, <2>6, <2>7
  <1>10. CASE Deliver(w)
    <2>1. /\ phase[w] = "replying" /\ job[w] # None /\ job'[w] = None
          /\ UNCHANGED storeVars
      BY <1>0, <1>10 DEF Deliver, Release
    <2>2. PICK o \in Outcomes(w) : outcome' = [outcome EXCEPT ![j] = o]
      BY <1>10 DEF Deliver
    <2>3. InStep(w)'
      BY <2>1 DEF InStep
    <2>4. CASE o = "delivered"
      <3>1. reply[w] = "text"
        BY <2>2, <2>4 DEF Outcomes
      <3>2. sessionOf[c] # None /\ j \in snapshot[sessionOf[c]]
        BY <1>0, <2>1, <3>1 DEF InStep
      <3>3. Answered' = Answered \cup {j}
        BY <1>0, <1>2, <2>1, <2>2, <2>4 DEF Answered
      <3>4. RememberedResumable'
        BY <1>0, <2>1 DEF RememberedResumable, storeVars
      <3>5. ASSUME NEW t \in Answered'
            PROVE  /\ Accepted(t)' /\ event'[t] \in Events /\ Conv(t)' \in Convs
                   /\ sessionOf'[Conv(t)'] # None /\ t \in snapshot'[sessionOf'[Conv(t)']]
        <4>1. /\ Accepted(t) /\ event[t] \in Events /\ Conv(t) \in Convs
              /\ sessionOf[Conv(t)] # None /\ t \in snapshot[sessionOf[Conv(t)]]
          BY <1>0, <1>2, <2>1, <3>2, <3>3 DEF AnsweredKept, Accepted
        <4>2. Conv(t)' = Conv(t) /\ Accepted(t)'
          BY <1>0, <4>1 DEF Conv, Accepted
        <4> QED
          BY <1>0, <2>1, <4>1, <4>2 DEF storeVars
      <3>6. AnsweredKept'
        BY <3>5 DEF AnsweredKept
      <3> QED
        BY <1>1, <2>3, <3>4, <3>6
    <2>5. CASE o # "delivered"
      <3>1. Answered' \subseteq Answered
        BY <1>0, <1>2, <2>1, <2>2, <2>5 DEF Answered
      <3> QED
        BY <1>0, <1>1, <2>1, <2>3, <3>1, AnswersKept
    <2> QED
      BY <2>4, <2>5
  <1> QED
    BY <1>3, <1>4, <1>5, <1>6, <1>7, <1>8, <1>9, <1>10 DEF WorkerStep

\* Every step keeps the sessions in step with the answers.
LEMMA FollowStep ==
  ASSUME OneWorker, ~StoreFaults, TypeInv, IsoInv, LedgerInv, FollowInv, [Next]_vars
  PROVE  FollowInv'
  <1>1. PriorAnswered'
    BY PriorStep DEF FollowInv
  <1>2. ASSUME NEW w \in Workers, WorkerStep(w)
        PROVE  AnsweredKept' /\ RememberedResumable' /\ \A v \in Workers : InStep(v)'
    BY <1>2, FollowWorker
  <1>3. CASE Restart
    <2>1. Answered' \subseteq Answered /\ UNCHANGED storeVars
      BY <1>3 DEF Restart, Answered, TypeInv, TypeOK, QueueTypeOK
    <2>2. AnsweredKept' /\ RememberedResumable'
      BY <2>1, AnswersKept DEF FollowInv
    <2>3. \A v \in Workers : InStep(v)'
      BY <1>3 DEF Restart, IdleWorkers, InStep
    <2> QED
      BY <1>1, <2>2, <2>3 DEF FollowInv
  <1>4. ASSUME ~Restart, \A w \in Workers : ~WorkerStep(w)
        PROVE  UNCHANGED <<workerVars, storeVars, outcome>>
    BY <1>4 DEF Next, HandlerStep, Arrive, Authorize, MarkSeen, Enqueue, Unmark,
       BeginShutdown, ReturnShutdown, ClockTick, Quiet, vars, workerVars, storeVars
  <1> QED
    BY <1>1, <1>2, <1>3, <1>4, FollowUntouched DEF FollowInv

\* With one worker and a home directory that can be read and written, every
\* follow-up resumes the session of its conversation and is run with all
\* turns of it that were answered before it came, for any number of handlers,
\* events and conversations and wherever the process restarts
\* (docs/SAFETY.md:16 to 18).
THEOREM FollowUpsContinue == OneWorker /\ ~StoreFaults => (Spec => []FollowUpsResume)
  <1> SUFFICES ASSUME OneWorker, ~StoreFaults PROVE Spec => []FollowUpsResume
    OBVIOUS
  <1>1. Init => WholeInv
    <2>1. Init => TypeInv
      BY TypeInit
    <2>2. Init => IsoInv
      BY DEF Init, IsoInv, IsoSessions, IsoSnapshots, IsoWorkers
    <2>3. Init => LedgerInv
      BY LedgerInit
    <2>4. Init => FollowInv
      <3>1. Init => Answered = {}
        BY DEF Init, Answered
      <3> QED
        BY <3>1 DEF Init, FollowInv, AnsweredKept, PriorAnswered, RememberedResumable, InStep
    <2> QED
      BY <2>1, <2>2, <2>3, <2>4 DEF WholeInv
  <1>2. WholeInv /\ [Next]_vars => WholeInv'
    BY TypeStep, IsoStep, LedgerStep, FollowStep DEF WholeInv
  <1>3. WholeInv => FollowUpsResume
    <2> SUFFICES ASSUME WholeInv PROVE FollowUpsResume
      OBVIOUS
    <2>1. ASSUME NEW w \in Workers, phase[w] = "running", NEW t \in prior[job[w]]
          PROVE  t \in loaded[w]
      <3>1. job[w] # None
        BY <2>1 DEF WholeInv, TypeInv, TypeOK, WorkerTypeOK
      <3>2. job[w] \in Handlers /\ pc[job[w]] = "accepted"
        BY <3>1, JobFacts DEF WholeInv
      <3>3. t \in Answered /\ Conv(t) = Conv(job[w])
        BY <2>1, <3>2 DEF WholeInv, FollowInv, PriorAnswered
      <3>4. sessionOf[Conv(t)] # None /\ t \in snapshot[sessionOf[Conv(t)]]
        BY <3>3 DEF WholeInv, FollowInv, AnsweredKept
      <3>5. /\ resume[w] = sessionOf[Conv(job[w])]
            /\ loaded[w] = IF resume[w] = None THEN {} ELSE snapshot[resume[w]]
        BY <2>1, <3>1 DEF WholeInv, FollowInv, InStep
      <3> QED
        BY <3>3, <3>4, <3>5
    <2>2. RememberedResumable
      BY DEF WholeInv, FollowInv
    <2> QED
      BY <2>1, <2>2 DEF FollowUpsResume, FollowUpContinues
  <1> QED
    BY <1>1, <1>2, <1>3, PTL DEF Spec
=============================================================================
