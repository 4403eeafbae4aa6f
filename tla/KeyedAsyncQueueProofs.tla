------------------------ MODULE KeyedAsyncQueueProofs ------------------------
(***************************************************************************)
(* Proofs about KeyedAsyncQueue for every set of keys and every finite set *)
(* of tasks: its type, the accounting of the two maps, serial order, and   *)
(* the safety half of the refinement of SerialQueue.                       *)
(***************************************************************************)
EXTENDS KeyedAsyncQueue, FiniteSetTheorems, TLAPS

(* The pending tasks of a key form a finite set, so their number counts    *)
(* (getQueueSize) and is 0 exactly when there are none.                    *)
LEMMA PendingFinite ==
    ASSUME NEW k \in Keys
    PROVE  /\ IsFiniteSet(Pending(k))
           /\ Cardinality(Pending(k)) \in Nat
           /\ Cardinality(Pending(k)) <= Cardinality(Tasks)
           /\ Cardinality(Pending(k)) = 0 <=> Pending(k) = {}
  <1>1. Pending(k) \subseteq Tasks
    BY DEF Pending
  <1>2. IsFiniteSet(Tasks)
    BY QueueAssumption
  <1>3. QED
    BY <1>1, <1>2, FS_Subset, FS_CardinalityType, FS_EmptySet

(* enqueue (lines 16-39) keeps every part of the invariant: the new task is *)
(* the last of its key, and nothing is earlier than a task because of it.  *)
LEMMA EnqueueInv ==
    ASSUME IInv, NEW t \in Tasks, NEW k \in Keys, Enqueue(t, k)
    PROVE  IInv'
  <1> USE DEF IInv
  <1>1. /\ stage[t] = "idle"
        /\ stage' = [stage EXCEPT ![t] = "chained"]
        /\ key' = [key EXCEPT ![t] = k]
        /\ sizes' = [sizes EXCEPT ![k] = sizes[k] + 1]
        /\ prev' = [prev EXCEPT ![t] = chains[k]]
        /\ chains' = [chains EXCEPT ![k] = t]
        /\ ticket' = [ticket EXCEPT ![t] = clock]
        /\ clock' = clock + 1
        /\ outcome' = outcome
    BY DEF Enqueue, TailOf, CurrentSize
  <1>2. Pending(k)' = Pending(k) \cup {t} /\ t \notin Pending(k)
    BY <1>1 DEF Pending, TypeOK
  <1>3. ASSUME NEW j \in Keys, j # k
        PROVE  Pending(j)' = Pending(j)
    BY <1>1, <1>3 DEF Pending, TypeOK, TicketShape
  <1>4. Cardinality(Pending(k)') = Cardinality(Pending(k)) + 1
    BY <1>2, PendingFinite, FS_AddElement
  <1>5. Pending(k)' \subseteq Tasks
    BY <1>2 DEF Pending
  <1>6. Cardinality(Pending(k)') <= Cardinality(Tasks)
    BY <1>5, QueueAssumption, FS_Subset
  <1>7. Accounting'
    <2>1. sizes'[k] = Cardinality(Pending(k)')
      BY <1>1, <1>4 DEF Accounting, getQueueSize, TypeOK
    <2>2. k \in activeKeys' /\ Pending(k)' # {}
      BY <1>1, <1>2, QueueAssumption DEF activeKeys, TypeOK
    <2>3. ASSUME NEW j \in Keys, j # k
          PROVE  /\ sizes'[j] = Cardinality(Pending(j)')
                 /\ j \in activeKeys' <=> Pending(j)' # {}
      BY <2>3, <1>1, <1>3 DEF Accounting, getQueueSize, activeKeys, TypeOK
    <2>4. QED
      BY <2>1, <2>2, <2>3 DEF Accounting, getQueueSize
  <1>8. TypeOK'
    <2>1. sizes[k] + 1 \in 0..Cardinality(Tasks)
      <3>1. Cardinality(Tasks) \in Nat
        BY QueueAssumption, FS_CardinalityType
      <3>2. sizes[k] = Cardinality(Pending(k))
        BY DEF Accounting, getQueueSize
      <3>3. Cardinality(Pending(k)) \in Nat
        BY PendingFinite
      <3>4. QED
        BY <3>1, <3>2, <3>3, <1>4, <1>6
    <2>2. QED
      BY <1>1, <2>1 DEF TypeOK, Stages
  <1>9. \A s \in Tasks : ~Earlier(t, s)'
    <2> SUFFICES ASSUME NEW s \in Tasks
                 PROVE  ~Earlier(t, s)'
      OBVIOUS
    <2>1. ticket'[t] = clock /\ key'[t] = k /\ clock \in Nat
      BY <1>1 DEF TypeOK
    <2>2. CASE s = t
      BY <2>1, <2>2 DEF Earlier
    <2>3. CASE s # t /\ stage[s] = "idle"
      <3>1. key'[s] = NoKey
        BY <2>3, <1>1 DEF TicketShape, TypeOK
      <3>2. QED
        BY <3>1, <2>1, QueueAssumption DEF Earlier
    <2>4. CASE s # t /\ stage[s] # "idle"
      <3>1. ticket'[s] = ticket[s] /\ ticket[s] < clock /\ ticket[s] \in Nat
        BY <2>4, <1>1 DEF TicketShape, TypeOK
      <3>2. QED
        BY <3>1, <2>1 DEF Earlier
    <2>5. QED
      BY <2>2, <2>3, <2>4
  <1>10. \A s, u \in Tasks : u # t => (Earlier(s, u)' <=> Earlier(s, u))
    <2> SUFFICES ASSUME NEW s \in Tasks, NEW u \in Tasks, u # t
                 PROVE  Earlier(s, u)' <=> Earlier(s, u)
      OBVIOUS
    <2>1. CASE s = t
      BY <2>1, <1>1, <1>9 DEF Earlier
    <2>2. CASE s # t
      BY <2>2, <1>1 DEF Earlier, TypeOK
    <2>3. QED
      BY <2>1, <2>2
  <1>11. \A s \in Tasks : Earlier(s, t)' <=> (stage[s] # "idle" /\ key[s] = k)
    <2> SUFFICES ASSUME NEW s \in Tasks
                 PROVE  Earlier(s, t)' <=> (stage[s] # "idle" /\ key[s] = k)
      OBVIOUS
    <2>1. CASE s = t
      BY <2>1, <1>1, <1>9
    <2>2. CASE s # t
      BY <2>2, <1>1 DEF Earlier, TypeOK, TicketShape
    <2>3. QED
      BY <2>1, <2>2
  <1>12. TicketShape'
    BY <1>1 DEF TicketShape, TypeOK
  <1>13. PrevShape'
    <2> SUFFICES ASSUME NEW u \in Tasks, stage'[u] # "idle"
                 PROVE  IF prev'[u] = NoTask
                        THEN \A s \in Tasks : Earlier(s, u)' => Released(s)'
                        ELSE /\ Earlier(prev[u], u)'
                             /\ \A s \in Tasks :
                                   Earlier(s, u)' => s = prev'[u] \/ Earlier(s, prev[u])'
      BY DEF PrevShape
    <2>1. \A s \in Tasks : Released(s) => Released(s)'
      BY <1>1 DEF Released, TypeOK
    <2>2. CASE u # t
      BY <2>2, <2>1, <1>1, <1>10 DEF PrevShape, Earlier, TypeOK
    <2>3. CASE u = t /\ chains[k] = NoTask
      <3>1. prev'[t] = NoTask
        BY <2>3, <1>1 DEF TypeOK
      <3>2. Pending(k) = {}
        BY <2>3 DEF Accounting, activeKeys
      <3>3. ASSUME NEW s \in Tasks, Earlier(s, t)'
            PROVE  Released(s)'
        BY <3>2, <3>3, <2>1, <1>11 DEF Pending, Released, TypeOK, Stages
      <3>4. QED
        BY <2>3, <3>1, <3>3
    <2>4. CASE u = t /\ chains[k] # NoTask
      <3>1. PICK p \in Tasks : p = chains[k]
        BY <2>4 DEF TypeOK
      <3>2. prev'[t] = p /\ p # t
        BY <2>4, <3>1, <1>1 DEF TypeOK, TailShape
      <3>3. Earlier(p, t)'
        BY <2>4, <3>1, <1>11 DEF TailShape
      <3>4. ASSUME NEW s \in Tasks, Earlier(s, t)'
            PROVE  s = p \/ Earlier(s, p)'
        BY <3>1, <3>2, <3>4, <2>4, <1>10, <1>11 DEF TailShape
      <3>5. Earlier(prev[t], t)'
        BY <3>2, <3>3 DEF Earlier
      <3>6. \A s \in Tasks : Earlier(s, p)' => Earlier(s, prev[t])'
        BY <3>2 DEF Earlier
      <3>7. prev'[t] # NoTask
        BY <3>2, QueueAssumption
      <3>8. QED
        BY <2>4, <3>2, <3>4, <3>5, <3>6, <3>7
    <2>5. QED
      BY <2>2, <2>3, <2>4
  <1>14. TailShape'
    <2> SUFFICES ASSUME NEW j \in Keys, chains'[j] # NoTask
                 PROVE  /\ stage'[chains'[j]] # "idle"
                        /\ key'[chains'[j]] = j
                        /\ \A s \in Tasks : (stage'[s] # "idle" /\ key'[s] = j)
                              => s = chains'[j] \/ Earlier(s, chains[j])'
      BY DEF TailShape
    <2>1. CASE j = k
      <3>1. chains'[j] = t /\ stage'[t] # "idle" /\ key'[t] = k
        BY <2>1, <1>1 DEF TypeOK
      <3>2. \A s \in Tasks : Earlier(s, chains[j])' <=> Earlier(s, t)'
        BY <3>1 DEF Earlier
      <3>3. ASSUME NEW s \in Tasks, stage'[s] # "idle", key'[s] = k, s # t
            PROVE  Earlier(s, t)'
        BY <3>3, <1>1, <1>11 DEF TypeOK
      <3>4. QED
        BY <2>1, <3>1, <3>2, <3>3
    <2>2. CASE j # k
      <3>1. PICK p \in Tasks : p = chains[j] /\ p = chains'[j]
        BY <2>2, <1>1 DEF TypeOK
      <3>2. p # t /\ stage[p] # "idle" /\ key[p] = j
        BY <3>1, <1>1, QueueAssumption DEF TailShape
      <3>3. stage'[p] # "idle" /\ key'[p] = j
        BY <3>2, <1>1 DEF TypeOK
      <3>4. ASSUME NEW s \in Tasks, stage'[s] # "idle", key'[s] = j
            PROVE  s = p \/ Earlier(s, p)'
        <4>1. s # t /\ stage[s] # "idle" /\ key[s] = j
          BY <3>4, <2>2, <1>1 DEF TypeOK
        <4>2. s = p \/ Earlier(s, p)
          BY <4>1, <3>1, QueueAssumption DEF TailShape
        <4>3. QED
          BY <4>2, <3>2, <1>10
      <3>5. \A s \in Tasks : Earlier(s, p)' => Earlier(s, chains[j])'
        BY <3>1 DEF Earlier
      <3>6. QED
        BY <3>1, <3>3, <3>4, <3>5
    <2>3. QED
      BY <2>1, <2>2
  <1>15. SerialOrder'
    <2>1. \A s \in Tasks : /\ FnSettled(s) => FnSettled(s)'
                           /\ Started(s)' => Started(s) /\ s # t
      BY <1>1 DEF FnSettled, Started, TypeOK
    <2>2. QED
      BY <2>1, <1>10 DEF SerialOrder
  <1>16. QED
    BY <1>7, <1>8, <1>12, <1>13, <1>14, <1>15

(* A step that changes no stage but moves one task on, and neither keys,   *)
(* tickets nor links, keeps TicketShape and does not change who is earlier. *)
LEMMA StageOnly ==
    ASSUME IInv, NEW t \in Tasks, NEW new \in Stages \ {"idle"},
           stage[t] # "idle",
           stage' = [stage EXCEPT ![t] = new],
           UNCHANGED <<key, prev, ticket, clock>>
    PROVE  /\ TicketShape'
           /\ \A s \in Tasks : stage'[s] = "idle" <=> stage[s] = "idle"
           /\ \A s, u \in Tasks : Earlier(s, u)' <=> Earlier(s, u)
  <1>1. \A s \in Tasks : stage'[s] = "idle" <=> stage[s] = "idle"
    BY DEF IInv, TypeOK
  <1>2. \A s, u \in Tasks : Earlier(s, u)' <=> Earlier(s, u)
    BY <1>1 DEF Earlier
  <1>3. TicketShape'
    BY <1>1 DEF IInv, TicketShape
  <1>4. QED
    BY <1>1, <1>2, <1>3

(* Under such a step that leaves `chains` alone too and un-releases nobody, *)
(* the links keep their shape.                                             *)
LEMMA LinksKept ==
    ASSUME IInv, NEW t \in Tasks, NEW new \in Stages \ {"idle"},
           stage[t] # "idle",
           Released(t) => new \in {"released", "resolved"},
           stage' = [stage EXCEPT ![t] = new],
           UNCHANGED <<key, prev, ticket, clock>>
    PROVE  /\ PrevShape'
           /\ chains' = chains => TailShape'
  <1>1. \A s \in Tasks : Released(s) => Released(s)'
    BY DEF IInv, TypeOK, Released
  <1>2. /\ \A s \in Tasks : stage'[s] = "idle" <=> stage[s] = "idle"
        /\ \A s, u \in Tasks : Earlier(s, u)' <=> Earlier(s, u)
    BY StageOnly
  <1>3. PrevShape'
    <2> SUFFICES ASSUME NEW u \in Tasks, stage'[u] # "idle"
                 PROVE  IF prev'[u] = NoTask
                        THEN \A s \in Tasks : Earlier(s, u)' => Released(s)'
                        ELSE /\ Earlier(prev[u], u)'
                             /\ \A s \in Tasks :
                                   Earlier(s, u)' => s = prev'[u] \/ Earlier(s, prev[u])'
      BY DEF PrevShape
    <2>1. CASE prev[u] = NoTask
      BY <2>1, <1>1, <1>2 DEF IInv, PrevShape
    <2>2. CASE prev[u] # NoTask
      <3>1. PICK p \in Tasks : p = prev[u] /\ p = prev'[u]
        BY <2>2 DEF IInv, TypeOK
      <3>2. Earlier(p, u)' /\ \A s \in Tasks : Earlier(s, u)' => s = p \/ Earlier(s, p)'
        BY <2>2, <3>1, <1>2 DEF IInv, PrevShape
      <3>3. QED
        BY <2>2, <3>1, <3>2 DEF Earlier
    <2>3. QED
      BY <2>1, <2>2
  <1>4. ASSUME chains' = chains
        PROVE  TailShape'
    <2> SUFFICES ASSUME NEW k \in Keys, chains'[k] # NoTask
                 PROVE  /\ stage'[chains'[k]] # "idle"
                        /\ key'[chains'[k]] = k
                        /\ \A s \in Tasks : (stage'[s] # "idle" /\ key'[s] = k)
                              => s = chains'[k] \/ Earlier(s, chains[k])'
      BY DEF TailShape
    <2>1. PICK p \in Tasks : p = chains[k] /\ p = chains'[k]
      BY <1>4 DEF IInv, TypeOK
    <2>2. /\ stage[p] # "idle" /\ key[p] = k
          /\ \A s \in Tasks : (stage[s] # "idle" /\ key[s] = k) => s = p \/ Earlier(s, p)
      BY <2>1, QueueAssumption DEF IInv, TailShape
    <2>3. /\ stage'[p] # "idle" /\ key'[p] = k
          /\ \A s \in Tasks : (stage'[s] # "idle" /\ key'[s] = k) => s = p \/ Earlier(s, p)'
      BY <2>2, <1>2
    <2>4. QED
      BY <2>1, <2>3 DEF Earlier
  <1>5. QED
    BY <1>3, <1>4

(* A step that leaves both maps alone and moves no task in or out of the   *)
(* pending set keeps the accounting.                                       *)
LEMMA AccountingKept ==
    ASSUME Accounting, chains' = chains, sizes' = sizes,
           \A k \in Keys : Pending(k)' = Pending(k)
    PROVE  Accounting'
  <1>1. ASSUME NEW k \in Keys
        PROVE  /\ sizes'[k] = Cardinality(Pending(k)')
               /\ k \in activeKeys' <=> Pending(k)' # {}
    <2>1. Pending(k)' = Pending(k) /\ sizes'[k] = sizes[k] /\ chains'[k] = chains[k]
      OBVIOUS
    <2>2. sizes[k] = Cardinality(Pending(k)) /\ (k \in activeKeys <=> Pending(k) # {})
      BY DEF Accounting, getQueueSize
    <2>3. k \in activeKeys' <=> k \in activeKeys
      BY <2>1 DEF activeKeys
    <2>4. Cardinality(Pending(k)') = Cardinality(Pending(k))
      BY <2>1
    <2>5. QED
      BY <2>1, <2>2, <2>3, <2>4
  <1>2. QED
    BY <1>1 DEF Accounting, getQueueSize

(* The reaction that calls fn (line 24): all functions of earlier tasks of  *)
(* the key have settled, whether the task was chained on one or not.       *)
LEMMA StartInv ==
    ASSUME IInv, NEW t \in Tasks, Start(t)
    PROVE  IInv'
  <1>1. /\ stage[t] = "chained"
        /\ PrevSettled(t)
        /\ stage' = [stage EXCEPT ![t] = "running"]
        /\ UNCHANGED <<key, prev, outcome, chains, sizes, ticket, clock>>
    BY DEF Start, StoredOutcome
  <1>2. "running" \in Stages \ {"idle"} /\ stage[t] # "idle" /\ ~Released(t)
    BY <1>1 DEF Stages, Released
  <1>3. /\ TicketShape'
        /\ \A s, u \in Tasks : Earlier(s, u)' <=> Earlier(s, u)
    BY <1>1, <1>2, StageOnly
  <1>4. PrevShape' /\ TailShape'
    BY <1>1, <1>2, LinksKept
  <1>5. TypeOK'
    BY <1>1 DEF IInv, TypeOK, Stages
  <1>6. \A k \in Keys : Pending(k)' = Pending(k)
    BY <1>1 DEF Pending, IInv, TypeOK
  <1>7. Accounting'
    BY <1>1, <1>6, AccountingKept DEF IInv
  <1>8. \A s \in Tasks : Earlier(s, t) => FnSettled(s)
    <2> SUFFICES ASSUME NEW s \in Tasks, Earlier(s, t)
                 PROVE  FnSettled(s)
      OBVIOUS
    <2>1. CASE prev[t] = NoTask
      BY <2>1, <1>2 DEF IInv, PrevShape, Released, FnSettled
    <2>2. CASE prev[t] # NoTask
      <3>1. PICK p \in Tasks : p = prev[t]
        BY <2>2 DEF IInv, TypeOK
      <3>2. stage[p] = "resolved"
        BY <2>2, <3>1, <1>1 DEF PrevSettled
      <3>3. s = p \/ Earlier(s, p)
        BY <2>2, <3>1, <1>2 DEF IInv, PrevShape
      <3>4. CASE s = p
        BY <3>2, <3>4 DEF FnSettled
      <3>5. CASE Earlier(s, p)
        BY <3>2, <3>5 DEF IInv, SerialOrder, Started
      <3>6. QED
        BY <3>3, <3>4, <3>5
    <2>3. QED
      BY <2>1, <2>2
  <1>9. \A s \in Tasks : /\ FnSettled(s) => FnSettled(s)'
                         /\ s # t => (Started(s)' <=> Started(s))
    BY <1>1 DEF FnSettled, Started, IInv, TypeOK
  <1>10. SerialOrder'
    BY <1>3, <1>8, <1>9 DEF IInv, SerialOrder
  <1>11. QED
    BY <1>3, <1>4, <1>5, <1>7, <1>10 DEF IInv

(* A task that is past its start moves on without its key, its ticket or   *)
(* any link changing: serial order cannot be disturbed.                    *)
LEMMA LaterStageSerial ==
    ASSUME IInv, NEW t \in Tasks, NEW new \in {"returned", "released", "resolved"},
           Started(t),
           stage' = [stage EXCEPT ![t] = new],
           UNCHANGED <<key, prev, ticket, clock>>
    PROVE  SerialOrder'
  <1>1. new \in Stages \ {"idle"} /\ stage[t] # "idle"
    BY DEF Stages, Started
  <1>2. \A s, u \in Tasks : Earlier(s, u)' <=> Earlier(s, u)
    BY <1>1, StageOnly
  <1>3. \A s \in Tasks : /\ FnSettled(s) => FnSettled(s)'
                         /\ Started(s)' <=> Started(s)
    BY DEF FnSettled, Started, IInv, TypeOK
  <1>4. QED
    BY <1>2, <1>3 DEF IInv, SerialOrder

(* fn's promise settles *)
LEMMA FinishInv ==
    ASSUME IInv, NEW t \in Tasks, Finish(t)
    PROVE  IInv'
  <1>1. PICK o \in {"fulfilled", "rejected"} : outcome' = [outcome EXCEPT ![t] = o]
    BY DEF Finish
  <1>2. /\ stage[t] = "running"
        /\ stage' = [stage EXCEPT ![t] = "returned"]
        /\ UNCHANGED <<key, prev, chains, sizes, ticket, clock>>
    BY DEF Finish
  <1>3. /\ "returned" \in Stages \ {"idle"}
        /\ stage[t] # "idle" /\ ~Released(t) /\ Started(t)
    BY <1>2 DEF Stages, Released, Started
  <1>4. TicketShape'
    BY <1>2, <1>3, StageOnly
  <1>5. PrevShape' /\ TailShape'
    BY <1>2, <1>3, LinksKept
  <1>6. TypeOK'
    BY <1>1, <1>2 DEF IInv, TypeOK, Stages, Outcomes
  <1>7. \A k \in Keys : Pending(k)' = Pending(k)
    BY <1>2 DEF Pending, IInv, TypeOK
  <1>8. Accounting'
    BY <1>2, <1>7, AccountingKept DEF IInv
  <1>9. SerialOrder'
    BY <1>2, <1>3, LaterStageSerial
  <1>10. QED
    BY <1>4, <1>5, <1>6, <1>8, <1>9 DEF IInv

(* The finally callback: the count drops by the one task that left, and    *)
(* the chain goes exactly when that task was the last.                     *)
LEMMA FinallyInv ==
    ASSUME IInv, NEW t \in Tasks, Finally(t)
    PROVE  IInv'
  <1>1. PICK k \in Keys : k = key[t]
    BY DEF Finally, IInv, TicketShape
  <1>2. /\ stage[t] = "returned"
        /\ stage' = [stage EXCEPT ![t] = "released"]
        /\ sizes' = [sizes EXCEPT ![k] = NewSize(k)]
        /\ chains' = IF Drained(k) THEN [chains EXCEPT ![k] = NoTask] ELSE chains
        /\ UNCHANGED <<key, prev, outcome, ticket, clock>>
    BY <1>1 DEF Finally
  <1>3. /\ "released" \in Stages \ {"idle"}
        /\ "released" \in {"released", "resolved"}
        /\ stage[t] # "idle" /\ Started(t)
    BY <1>2 DEF Stages, Started
  <1>4. TicketShape' /\ \A s, u \in Tasks : Earlier(s, u)' <=> Earlier(s, u)
    BY <1>2, <1>3, StageOnly
  <1>5. PrevShape' /\ (chains' = chains => TailShape')
    BY <1>2, <1>3, LinksKept
  <1>6. t \in Pending(k) /\ Pending(k)' = Pending(k) \ {t}
    BY <1>1, <1>2 DEF Pending, IInv, TypeOK
  <1>7. \A j \in Keys : j # k => Pending(j)' = Pending(j)
    BY <1>1, <1>2 DEF Pending, IInv, TypeOK
  <1>8. /\ Cardinality(Pending(k)') = Cardinality(Pending(k)) - 1
        /\ Cardinality(Pending(k)') = 0 <=> Pending(k)' = {}
        /\ Cardinality(Pending(k)) \in Nat \ {0}
    <2>1. Cardinality(Pending(k)) \in Nat \ {0}
      BY <1>6, PendingFinite
    <2>2. Cardinality(Pending(k) \ {t}) = Cardinality(Pending(k)) - 1
      BY <1>6, PendingFinite, FS_RemoveElement
    <2>3. IsFiniteSet(Pending(k) \ {t})
      BY PendingFinite, FS_RemoveElement
    <2>4. Cardinality(Pending(k) \ {t}) = 0 <=> Pending(k) \ {t} = {}
      BY <2>3, FS_EmptySet
    <2>5. QED
      BY <2>1, <2>2, <2>4, <1>6
  <1>9. /\ sizes[k] = Cardinality(Pending(k))
        /\ k \in activeKeys
    BY <1>6 DEF IInv, Accounting, getQueueSize
  <1>10. NewSize(k) = Cardinality(Pending(k)') /\ (Drained(k) <=> Pending(k)' = {})
    BY <1>8, <1>9 DEF NewSize, Drained
  <1>11. Accounting'
    <2>1. sizes'[k] = Cardinality(Pending(k)')
      BY <1>2, <1>10 DEF IInv, TypeOK
    <2>2. k \in activeKeys' <=> Pending(k)' # {}
      BY <1>2, <1>9, <1>10 DEF activeKeys, IInv, TypeOK
    <2>3. ASSUME NEW j \in Keys, j # k
          PROVE  /\ sizes'[j] = Cardinality(Pending(j)')
                 /\ j \in activeKeys' <=> Pending(j)' # {}
      <3>1. sizes'[j] = sizes[j] /\ chains'[j] = chains[j] /\ Pending(j)' = Pending(j)
        BY <2>3, <1>2, <1>7 DEF IInv, TypeOK
      <3>2. sizes[j] = Cardinality(Pending(j)) /\ (j \in activeKeys <=> Pending(j) # {})
        BY DEF IInv, Accounting, getQueueSize
      <3>3. j \in activeKeys' <=> j \in activeKeys
        BY <3>1 DEF activeKeys
      <3>4. Cardinality(Pending(j)') = Cardinality(Pending(j))
        BY <3>1
      <3>5. QED
        BY <3>1, <3>2, <3>3, <3>4
    <2>4. QED
      BY <2>1, <2>2, <2>3 DEF Accounting, getQueueSize
  <1>12. TailShape'
    <2>1. CASE Drained(k)
      <3> SUFFICES ASSUME NEW j \in Keys, chains'[j] # NoTask
                   PROVE  /\ stage'[chains'[j]] # "idle"
                          /\ key'[chains'[j]] = j
                          /\ \A s \in Tasks : (stage'[s] # "idle" /\ key'[s] = j)
                                => s = chains'[j] \/ Earlier(s, chains[j])'
        BY DEF TailShape
      <3>1. PICK p \in Tasks : p = chains[j] /\ p = chains'[j]
        BY <2>1, <1>2 DEF IInv, TypeOK
      <3>2. /\ stage[p] # "idle" /\ key[p] = j
            /\ \A s \in Tasks : (stage[s] # "idle" /\ key[s] = j) => s = p \/ Earlier(s, p)
        BY <3>1, QueueAssumption DEF IInv, TailShape
      <3>3. \A s \in Tasks : stage'[s] = "idle" <=> stage[s] = "idle"
        BY <1>2, <1>3, StageOnly
      <3>4. /\ stage'[p] # "idle" /\ key'[p] = j
            /\ \A s \in Tasks : (stage'[s] # "idle" /\ key'[s] = j) => s = p \/ Earlier(s, p)'
        BY <3>2, <3>3, <1>2, <1>4
      <3>5. QED
        BY <3>1, <3>4 DEF Earlier
    <2>2. CASE ~Drained(k)
      BY <2>2, <1>2, <1>5
    <2>3. QED
      BY <2>1, <2>2
  <1>13. TypeOK'
    <2>1. NewSize(k) \in 0..Cardinality(Tasks)
      <3>1. Cardinality(Tasks) \in Nat
        BY QueueAssumption, FS_CardinalityType
      <3>2. Cardinality(Pending(k)) <= Cardinality(Tasks)
        BY PendingFinite
      <3>3. QED
        BY <3>1, <3>2, <1>8, <1>10
    <2>2. QED
      BY <2>1, <1>2, <1>3 DEF IInv, TypeOK
  <1>14. SerialOrder'
    BY <1>2, <1>3, LaterStageSerial
  <1>15. QED
    BY <1>4, <1>5, <1>11, <1>12, <1>13, <1>14 DEF IInv

(* the stored promise settles *)
LEMMA ResolveInv ==
    ASSUME IInv, NEW t \in Tasks, Resolve(t)
    PROVE  IInv'
  <1>1. /\ stage[t] = "released"
        /\ stage' = [stage EXCEPT ![t] = "resolved"]
        /\ UNCHANGED <<key, prev, outcome, chains, sizes, ticket, clock>>
    BY DEF Resolve
  <1>2. /\ "resolved" \in Stages \ {"idle"}
        /\ "resolved" \in {"released", "resolved"}
        /\ stage[t] # "idle" /\ Started(t)
    BY <1>1 DEF Stages, Started
  <1>3. TicketShape'
    BY <1>1, <1>2, StageOnly
  <1>4. PrevShape' /\ TailShape'
    BY <1>1, <1>2, LinksKept
  <1>5. TypeOK'
    BY <1>1 DEF IInv, TypeOK, Stages
  <1>6. \A k \in Keys : Pending(k)' = Pending(k)
    BY <1>1 DEF Pending, IInv, TypeOK
  <1>7. Accounting'
    BY <1>1, <1>6, AccountingKept DEF IInv
  <1>8. SerialOrder'
    BY <1>1, <1>2, LaterStageSerial
  <1>9. QED
    BY <1>3, <1>4, <1>5, <1>7, <1>8 DEF IInv

(* The empty queue satisfies the invariant. *)
LEMMA InitInv == Init => IInv
  <1> SUFFICES ASSUME Init
               PROVE  IInv
    OBVIOUS
  <1>1. \A k \in Keys : Pending(k) = {}
    BY DEF Init, Pending
  <1>2. Accounting
    <2>1. ASSUME NEW k \in Keys
          PROVE  sizes[k] = Cardinality(Pending(k)) /\ (k \in activeKeys <=> Pending(k) # {})
      BY <1>1, FS_EmptySet DEF Init, activeKeys
    <2>2. QED
      BY <2>1 DEF Accounting, getQueueSize
  <1>3. TypeOK
    <2>1. Cardinality(Tasks) \in Nat
      BY QueueAssumption, FS_CardinalityType
    <2>2. QED
      BY <2>1 DEF Init, TypeOK, Stages, Outcomes
  <1>4. TicketShape /\ PrevShape /\ TailShape /\ SerialOrder
    BY DEF Init, TicketShape, PrevShape, TailShape, SerialOrder, Earlier
  <1>5. QED
    BY <1>2, <1>3, <1>4 DEF IInv

(* Every step keeps the invariant. *)
LEMMA NextInv == IInv /\ [Next]_vars => IInv'
  <1> SUFFICES ASSUME IInv, [Next]_vars
               PROVE  IInv'
    OBVIOUS
  <1>1. ASSUME NEW t \in Tasks, NEW k \in Keys, Enqueue(t, k)
        PROVE  IInv'
    BY <1>1, EnqueueInv
  <1>2. ASSUME NEW t \in Tasks, Step(t)
        PROVE  IInv'
    BY <1>2, StartInv, FinishInv, FinallyInv, ResolveInv DEF Step
  <1>3. CASE UNCHANGED vars
    <2>1. \A k \in Keys : Pending(k)' = Pending(k)
      BY <1>3 DEF vars, Pending
    <2>2. Accounting'
      BY <1>3, <2>1, AccountingKept DEF vars, IInv
    <2>3. QED
      BY <1>3, <2>2 DEF vars, IInv, TypeOK, TicketShape, PrevShape, TailShape, SerialOrder,
                       Earlier, Released, Started, FnSettled
  <1>4. QED
    BY <1>1, <1>2, <1>3 DEF Next

(* The invariant holds in every reachable state, for every finite set of   *)
(* calls and every set of keys.                                            *)
THEOREM Invariance == Spec => []IInv
  <1>1. Init => IInv
    BY InitInv
  <1>2. IInv /\ [Next]_vars => IInv'
    BY NextInv
  <1>3. QED
    BY <1>1, <1>2, PTL DEF Spec

(* Every variable of the queue keeps its type; in particular no count      *)
(* exceeds the number of calls made.                                       *)
THEOREM TypeCorrect == Spec => []TypeOK
  <1>1. IInv => TypeOK
    BY DEF IInv
  <1>2. QED
    BY <1>1, Invariance, PTL

(* getQueueSize and activeKeys tell the truth, whatever the interleaving   *)
(* of calls and reactions: no chain outlives its tasks, none is dropped    *)
(* while a task of its key is pending.                                     *)
THEOREM AccountingHolds == Spec => []Accounting
  <1>1. IInv => Accounting
    BY DEF IInv
  <1>2. QED
    BY <1>1, Invariance, PTL

(* The functions of one key are called one at a time and in the order of   *)
(* the calls of enqueue, for any number of keys and calls.                 *)
THEOREM SerialOrderHolds == Spec => []SerialOrder
  <1>1. IInv => SerialOrder
    BY DEF IInv
  <1>2. QED
    BY <1>1, Invariance, PTL

(* The stages map onto the serial queue's phases one by one. *)
LEMMA PhaseOf ==
    ASSUME NEW t \in Tasks, TypeOK
    PROVE  /\ phaseBar[t] = "idle" <=> stage[t] = "idle"
           /\ phaseBar[t] = "waiting" <=> stage[t] = "chained"
           /\ phaseBar[t] = "serving" <=> stage[t] = "running"
           /\ phaseBar[t] = "done" <=> FnSettled(t)
           /\ phaseBar[t] \in {"idle", "waiting", "serving", "done"}
  BY DEF phaseBar, FnSettled, TypeOK, Stages

(* Each reaction is a step of the serial queue or leaves it alone: calling *)
(* enqueue submits, calling fn serves, fn's settling completes, and the    *)
(* bookkeeping of finally and of the stored promise is invisible.          *)
LEMMA StepSimulates ==
    ASSUME IInv, [Next]_vars
    PROVE  [SQ!Next]_(SQ!sqVars)
  <1> USE DEF IInv
  <1>1. ASSUME NEW t \in Tasks, NEW k \in Keys, Enqueue(t, k)
        PROVE  SQ!Submit(t, k)
    BY <1>1 DEF Enqueue, SQ!Submit, phaseBar, TypeOK
  <1>2. ASSUME NEW t \in Tasks, Start(t)
        PROVE  SQ!Serve(t)
    <2>1. \A s \in Tasks : Earlier(s, t) => FnSettled(s)
      <3>1. IInv'
        BY <1>2, StartInv
      <3>2. /\ stage[t] = "chained" /\ stage' = [stage EXCEPT ![t] = "running"]
            /\ UNCHANGED <<key, ticket>>
        BY <1>2 DEF Start, StoredOutcome
      <3>3. \A s \in Tasks : Earlier(s, t) => Earlier(s, t)' /\ s # t
        BY <3>2 DEF Earlier, TypeOK
      <3>4. Started(t)'
        BY <3>2 DEF Started, TypeOK
      <3>5. \A s \in Tasks : s # t => (FnSettled(s)' <=> FnSettled(s))
        BY <3>2 DEF FnSettled, TypeOK
      <3>6. QED
        BY <3>1, <3>3, <3>4, <3>5 DEF SerialOrder
    <2>2. \A s \in Tasks : SQ!Ahead(s, t) => phaseBar[s] = "done"
      BY <2>1, PhaseOf DEF SQ!Ahead, Earlier
    <2>3. phaseBar[t] = "waiting"
      BY <1>2 DEF Start, phaseBar
    <2>4. phaseBar' = [phaseBar EXCEPT ![t] = "serving"]
      BY <1>2 DEF Start, StoredOutcome, phaseBar, TypeOK
    <2>5. UNCHANGED <<key, ticket, clock>>
      BY <1>2 DEF Start
    <2>6. QED
      BY <2>2, <2>3, <2>4, <2>5 DEF SQ!Serve
  <1>3. ASSUME NEW t \in Tasks, Finish(t)
        PROVE  SQ!Complete(t)
    BY <1>3 DEF Finish, SQ!Complete, phaseBar, TypeOK
  <1>4. ASSUME NEW t \in Tasks, Finally(t) \/ Resolve(t)
        PROVE  UNCHANGED SQ!sqVars
    BY <1>4 DEF Finally, Resolve, SQ!sqVars, phaseBar, TypeOK
  <1>5. CASE UNCHANGED vars
    BY <1>5 DEF vars, SQ!sqVars, phaseBar
  <1>6. QED
    BY <1>1, <1>2, <1>3, <1>4, <1>5 DEF Next, Step, SQ!Next

(* The promise chain implements the serial queue's safety part, for every  *)
(* set of keys and every finite set of calls.                              *)
THEOREM RefinesSerialQueue == Spec => SQ!Init /\ [][SQ!Next]_(SQ!sqVars)
  <1>1. Init => SQ!Init
    BY DEF Init, SQ!Init, phaseBar
  <1>2. IInv /\ [Next]_vars => [SQ!Next]_(SQ!sqVars)
    BY StepSimulates
  <1>3. QED
    BY <1>1, <1>2, Invariance, PTL DEF Spec
=============================================================================
