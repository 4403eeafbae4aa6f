------------------------ MODULE SessionManagerProofs ------------------------
(***************************************************************************)
(* Proofs about SessionManager.tla for any channels, messages and bounds:  *)
(* frozen snapshots do not leak, and a session that has answered is the    *)
(* one the session map names.                                              *)
(***************************************************************************)
EXTENDS SessionManager, TLAPS, FiniteSetTheorems

(* What the queue's actions do to the queue's variables. *)
LEMMA QueueTypes ==
    ASSUME SQ!TypeOK, NEW m \in Msgs
    PROVE  /\ \A k \in Objs : SQ!Submit(m, k) => SQ!TypeOK'
           /\ SQ!Serve(m) => SQ!TypeOK'
           /\ SQ!Complete(m) => SQ!TypeOK'
  BY DEF SQ!TypeOK, SQ!Phases, SQ!Submit, SQ!Serve, SQ!Complete

(* Objects are numbered from one. *)
LEMMA ObjsNat == Objs \subseteq Nat /\ None \notin Objs /\ None \in Nat
  BY SessionAssumption DEF Objs, None

(* The helpers return what the type invariant asks for. *)
LEMMA HelperTypes ==
    ASSUME TypeOK
    PROVE  /\ \A os : Aborted(os) \in [Msgs -> {"no", "now", "before"}]
           /\ \A os : Destroyed(os) \in [Objs -> Session]
           /\ \A os : \A o \in Objs : Destroyed(os)[o].id = obj[o].id
           /\ \A os : \A o \in Objs \ os : Destroyed(os)[o] = obj[o]
           /\ \A id \in Objs : Fresh(id) \in Session
           /\ \A id : Snapshot(id) \subseteq {id}
           /\ \A ids : Thawed(ids) \subseteq frozen
  <1>1. \A os : Aborted(os) \in [Msgs -> {"no", "now", "before"}]
    BY DEF Aborted, TypeOK
  <1>2. \A os : \A o \in Objs : [obj[o] EXCEPT !.status = "stopped", !.live = FALSE] \in Session
    BY DEF TypeOK, Session, Statuses
  <1>3. \A os : Destroyed(os) \in [Objs -> Session]
    BY <1>2 DEF Destroyed, TypeOK
  <1>4. \A os : \A o \in Objs : Destroyed(os)[o].id = obj[o].id
    BY DEF Destroyed, TypeOK, Session
  <1>5. \A os : \A o \in Objs \ os : Destroyed(os)[o] = obj[o]
    BY DEF Destroyed
  <1>6. \A id \in Objs : Fresh(id) \in Session
    BY DEF Fresh, Session, Statuses
  <1>7. \A id : Snapshot(id) \subseteq {id}
    BY DEF Snapshot
  <1>8. \A ids : Thawed(ids) \subseteq frozen
    BY DEF Thawed
  <1> QED BY <1>1, <1>3, <1>4, <1>5, <1>6, <1>7, <1>8

(* A session map of well-typed bindings is well typed, and names every       *)
(* session that is bound and not stopped.                                    *)
LEMMA MapTypes ==
    ASSUME NEW s \in [Channels -> Objs \cup {None}], NEW o \in [Objs -> Session]
    PROVE  /\ SessionMap(s, o) \in [Channels -> Objs \cup {None}]
           /\ \A c \in Channels : (s[c] # None /\ o[s[c]].status # "stopped")
                                      => SessionMap(s, o)[c] = o[s[c]].id
  BY DEF SessionMap, Session, None

(* The invariant holds before anything happened. *)
LEMMA InitInv == Init => IInv
<1> SUFFICES ASSUME Init PROVE IInv
  OBVIOUS
<1>1. TypeOK
  BY SessionAssumption DEF Init, TypeOK, Unmade, Session, Statuses, Objs, None, SQ!Init,
     SQ!TypeOK, SQ!Phases
<1>2. Numbered /\ OwnSession /\ BoundIsAlive /\ DownIsEmpty /\ NoSnapshotLeak
      /\ AnsweredSessionIsDurable
  BY DEF Init, Numbered, OwnSession, BoundIsAlive, DownIsEmpty, NoSnapshotLeak,
     AnsweredSessionIsDurable, None
<1> QED BY <1>1, <1>2 DEF IInv

(* enqueue keeps the types of what it touches. *)
LEMMA AcceptTypes ==
    ASSUME TypeOK, NEW m \in Msgs, NEW o \in Objs, NEW id \in Objs, Accept(m, o, id)
    PROVE  /\ SQ!TypeOK'
           /\ step' \in [Msgs -> {"idle"} \cup InFlight \cup Settled]
           /\ target' \in [Msgs -> Objs \cup {None}]
           /\ tries' \in [Msgs -> 0..MaxRetries]
           /\ step' = [step EXCEPT ![m] = "queued"]
           /\ target' = [target EXCEPT ![m] = o]
  <1>1. SQ!TypeOK'
    BY QueueTypes DEF TypeOK, Accept, QueueKey
  <1>2. /\ step' = [step EXCEPT ![m] = "queued"]
        /\ target' = [target EXCEPT ![m] = o]
        /\ tries' = tries
    BY DEF Accept
  <1> QED BY <1>1, <1>2 DEF TypeOK, InFlight, Waiting

(* What a step may do to the binding of channel d: drop it, keep it with an  *)
(* object that keeps its id and does not stop, or make it a new object.      *)
Dropped(d) == sessions'[d] = None

Kept(d) ==
    /\ sessions[d] # None
    /\ sessions'[d] = sessions[d]
    /\ obj'[sessions[d]].id = obj[sessions[d]].id
    /\ obj'[sessions[d]].status # "stopped"

Made(d) ==
    /\ sessions'[d] > next
    /\ sessions'[d] <= next'
    /\ obj'[sessions'[d]].status # "stopped"

Mapped(d) == diskMap'[d] = obj'[sessions'[d]].id

(* A step that drops, keeps or makes each binding, makes no object the       *)
(* session of two channels, and maps every channel it answers a message of. *)
Rebinds ==
    /\ \A d \in Channels : Dropped(d) \/ Kept(d) \/ Made(d)
    /\ \A d \in Channels : Kept(d) => Mapped(d) \/ diskMap'[d] = diskMap[d]
    /\ \A d, e \in Channels : (Made(d) /\ Made(e) /\ sessions'[d] = sessions'[e]) => d = e
    /\ \A m \in Msgs : target'[m] <= next'
    /\ \A m \in Msgs : step'[m] = "answered" =>
           /\ target'[m] = target[m]
           /\ step[m] = "answered" \/ \A d \in Channels : Kept(d) => Mapped(d)

(* Objects are numbers. *)
LEMMA Numbers ==
    ASSUME TypeOK
    PROVE  /\ next \in Nat
           /\ \A d \in Channels : sessions[d] \in Nat
           /\ \A m \in Msgs : target[m] \in Nat
  <1>1. Objs \cup {None} \subseteq Nat
    BY ObjsNat
  <1>2. next \in 0..MaxObjs /\ MaxObjs \in Nat
    BY SessionAssumption DEF TypeOK
  <1>3. /\ sessions \in [Channels -> Objs \cup {None}]
        /\ target \in [Msgs -> Objs \cup {None}]
    BY DEF TypeOK
  <1>4. next \in Nat
    BY <1>2
  <1> QED BY <1>1, <1>3, <1>4

(* What the parts of the invariant say that the steps below use. *)
LEMMA Facts ==
    ASSUME IInv
    PROVE  /\ TypeOK
           /\ next \in Nat
           /\ \A d \in Channels : sessions[d] \in Nat /\ sessions[d] <= next
           /\ \A d \in Channels : sessions[d] # None =>
                  sessions[d] \in Objs /\ obj[sessions[d]].id \in Objs
           /\ \A m \in Msgs : target[m] \in Nat /\ target[m] <= next
           /\ \A c, d \in Channels : (sessions[c] = sessions[d] /\ sessions[c] # None) => c = d
           /\ \A d \in Channels : sessions[d] # None => obj[sessions[d]].status # "stopped"
           /\ up = "down" => frozen = {} /\ \A d \in Channels : sessions[d] = None
           /\ \A i \in frozen : \E d \in Channels :
                  sessions[d] # None /\ obj[sessions[d]].id = i
  <1>1. TypeOK /\ Numbered /\ OwnSession /\ BoundIsAlive /\ DownIsEmpty /\ NoSnapshotLeak
    BY DEF IInv
  <1>2. \A d \in Channels : sessions[d] # None =>
            sessions[d] \in Objs /\ obj[sessions[d]].id \in Objs
    BY <1>1 DEF TypeOK
  <1>3. \A i \in frozen : \E d \in Channels : sessions[d] # None /\ obj[sessions[d]].id = i
    BY <1>1 DEF NoSnapshotLeak, Bound
  <1> QED BY <1>1, <1>2, <1>3, Numbers DEF Numbered, OwnSession, BoundIsAlive, DownIsEmpty

(* Rebinding preserves the part of the invariant that speaks of bindings. *)
LEMMA BindingStep ==
    ASSUME IInv, TypeOK', next <= next', Rebinds
    PROVE  Numbered' /\ OwnSession' /\ BoundIsAlive' /\ AnsweredSessionIsDurable'
  <1>1. /\ next \in Nat
        /\ \A d \in Channels : sessions[d] \in Nat /\ sessions[d] <= next
        /\ \A m \in Msgs : target[m] \in Nat /\ target[m] <= next
    BY Facts
  <1>2. /\ next' \in Nat
        /\ \A d \in Channels : sessions'[d] \in Nat
        /\ \A m \in Msgs : target'[m] \in Nat
    <2>1. Objs \cup {None} \subseteq Nat
      BY ObjsNat
    <2>2. /\ next' \in 0..MaxObjs
          /\ sessions' \in [Channels -> Objs \cup {None}]
          /\ target' \in [Msgs -> Objs \cup {None}]
      BY DEF TypeOK
    <2>3. next' \in Nat
      BY <2>2, SessionAssumption
    <2> QED BY <2>1, <2>2, <2>3
  <1>3. Numbered'
    BY <1>1, <1>2 DEF Rebinds, Numbered, Dropped, Kept, Made, None
  <1>4. OwnSession'
    BY <1>1, <1>2, Facts DEF Rebinds, OwnSession, Dropped, Kept, Made
  <1>5. BoundIsAlive'
    BY DEF Rebinds, BoundIsAlive, Dropped, Kept, Made
  <1>6. AnsweredSessionIsDurable'
    <2> SUFFICES ASSUME NEW m \in Msgs, NEW d \in Channels, step'[m] = "answered",
                        sessions'[d] = target'[m], sessions'[d] # None
                 PROVE  Mapped(d)
      BY DEF AnsweredSessionIsDurable, Mapped
    <2>1. Kept(d)
      BY <1>1, <1>2 DEF Rebinds, Dropped, Made
    <2>2. CASE step[m] = "answered"
      BY <2>1, <2>2 DEF Rebinds, IInv, AnsweredSessionIsDurable, Kept, Mapped
    <2>3. CASE step[m] # "answered"
      BY <2>1, <2>3 DEF Rebinds
    <2> QED BY <2>2, <2>3
  <1> QED BY <1>3, <1>4, <1>5, <1>6

(* A step of one message's turn leaves the bindings alone: it moves the      *)
(* message and changes at most the status of its object, never to stopped,   *)
(* and either answers nobody or writes the session map.                      *)
LEMMA TurnFrame ==
    ASSUME IInv, TypeOK', UNCHANGED <<up, sessions, next, frozen, target>>,
           \A o \in Objs : /\ obj'[o].id = obj[o].id
                           /\ obj[o].status # "stopped" => obj'[o].status # "stopped",
           \/ /\ diskMap' = diskMap
              /\ \A m \in Msgs : step'[m] = "answered" => step[m] = "answered"
           \/ obj' = obj /\ diskMap' = SessionMap(sessions, obj)
    PROVE  IInv'
  <1>1. \A d \in Channels : Dropped(d) \/ Kept(d)
    BY Facts DEF Dropped, Kept
  <1>2. obj \in [Objs -> Session] /\ sessions \in [Channels -> Objs \cup {None}]
    BY Facts DEF TypeOK
  <1>3. diskMap' = SessionMap(sessions, obj) /\ obj' = obj =>
            \A d \in Channels : Kept(d) => Mapped(d)
    BY <1>2, MapTypes DEF Kept, Mapped
  <1>4. \A d \in Channels : ~Made(d)
    BY Facts DEF Made
  <1>5. \A m \in Msgs : target'[m] <= next' /\ target'[m] = target[m]
    BY Facts
  <1>6. Rebinds
    BY <1>1, <1>3, <1>4, <1>5 DEF Rebinds
  <1>7. next <= next'
    BY Facts
  <1>8. DownIsEmpty'
    BY Facts DEF DownIsEmpty
  <1>9. NoSnapshotLeak'
    BY Facts DEF NoSnapshotLeak, Bound
  <1> QED BY <1>6, <1>7, <1>8, <1>9, BindingStep DEF IInv

(* A turn's change of status keeps every object's type, id and existence. *)
LEMMA StatusSet ==
    ASSUME TypeOK, NEW o, NEW st \in Statuses, st # "stopped",
           obj' = [obj EXCEPT ![o].status = st]
    PROVE  /\ obj' \in [Objs -> Session]
           /\ \A x \in Objs : /\ obj'[x].id = obj[x].id
                              /\ obj[x].status # "stopped" => obj'[x].status # "stopped"
           /\ sessions' = sessions =>
                 \A c \in Channels : sessions'[c] # None => obj'[sessions'[c]].id \in Objs
  <1>1. /\ obj' \in [Objs -> Session]
        /\ \A x \in Objs : /\ obj'[x].id = obj[x].id
                           /\ obj[x].status # "stopped" => obj'[x].status # "stopped"
    BY DEF TypeOK, Session
  <1>2. \A c \in Channels : sessions[c] # None =>
            sessions[c] \in Objs /\ obj[sessions[c]].id \in Objs
    BY DEF TypeOK
  <1> QED BY <1>1, <1>2

(* HistoryStore.append keeps the files well typed. *)
LEMMA HistTypes ==
    ASSUME TypeOK, NEW m \in Msgs, NEW role \in {"user", "assistant"}, Append1(m, role)
    PROVE  hist' \in [Objs -> Seq([role : {"user", "assistant"}, msg : Msgs])]
  <1> DEFINE Entry == [role : {"user", "assistant"}, msg : Msgs]
             i == obj[target[m]].id
             e == [role |-> role, msg |-> m]
  <1>1. e \in Entry
    OBVIOUS
  <1>2. hist \in [Objs -> Seq(Entry)]
    BY DEF TypeOK
  <1>3. hist' = [hist EXCEPT ![i] = Append(hist[i], e)]
    BY DEF Append1
  <1> HIDE DEF Entry, i, e
  <1>4. i \in Objs => Append(hist[i], e) \in Seq(Entry)
    <2>1. i \in Objs => hist[i] \in Seq(Entry)
      BY <1>2
    <2> QED BY <1>1, <2>1
  <1>5. hist' \in [Objs -> Seq(Entry)]
    BY <1>2, <1>3, <1>4
  <1> QED BY <1>5 DEF Entry

(* The steps of a turn: the queue serves it, the agent loop is attempted,    *)
(* returns, is retried or fails, and the turn is answered.                   *)
LEMMA TurnStepKeeps ==
    ASSUME IInv, NEW m \in Msgs, TurnStep(m)
    PROVE  IInv'
<1>1. TypeOK
  BY Facts
<1>2. \A st \in {"attempting", "backoff", "completing", "failing", "answered"} :
          /\ [step EXCEPT ![m] = st] \in [Msgs -> {"idle"} \cup InFlight \cup Settled]
          /\ st # "answered" =>
                \A x \in Msgs : [step EXCEPT ![m] = st][x] = "answered" => step[x] = "answered"
  BY <1>1 DEF TypeOK, InFlight, Waiting, Turn, Ending, Settled
<1>3. \A o \in Objs : obj' = obj => obj'[o].id = obj[o].id
                                     /\ (obj[o].status # "stopped" => obj'[o].status # "stopped")
  OBVIOUS
<1>4. UNCHANGED queue => SQ!TypeOK'
  BY <1>1 DEF TypeOK, queue, SQ!TypeOK, SQ!Phases
<1>5. CASE Begin(m)
  <2> DEFINE st == IF obj[target[m]].live THEN "running" ELSE StatusAfterThrow
             stp == IF obj[target[m]].live THEN "attempting" ELSE "failing"
  <2>1. /\ SQ!Serve(m) /\ Append1(m, "user")
        /\ step' = [step EXCEPT ![m] = stp]
        /\ obj' = [obj EXCEPT ![target[m]].status = st]
        /\ UNCHANGED <<up, restarts, sessions, next, frozen, diskMap, target, tries, abort>>
    BY <1>5 DEF Begin
  <2>2. st \in Statuses /\ st # "stopped" /\ stp \in {"attempting", "failing"}
    BY DEF StatusAfterThrow, Statuses
  <2> HIDE DEF st, stp
  <2>3. /\ obj' \in [Objs -> Session]
        /\ \A x \in Objs : /\ obj'[x].id = obj[x].id
                           /\ obj[x].status # "stopped" => obj'[x].status # "stopped"
        /\ \A c \in Channels : sessions'[c] # None => obj'[sessions'[c]].id \in Objs
    BY <1>1, <2>1, <2>2, StatusSet
  <2>4. TypeOK'
    <3>1. SQ!TypeOK'
      BY <1>1, <2>1, QueueTypes DEF TypeOK
    <3>2. hist' \in [Objs -> Seq([role : {"user", "assistant"}, msg : Msgs])]
      BY <1>1, <2>1, HistTypes
    <3>3. step' \in [Msgs -> {"idle"} \cup InFlight \cup Settled]
      BY <1>2, <2>1, <2>2
    <3> QED BY <1>1, <2>1, <2>3, <3>1, <3>2, <3>3 DEF TypeOK
  <2>5. \A x \in Msgs : step'[x] = "answered" => step[x] = "answered"
    BY <1>2, <2>1, <2>2
  <2> QED BY <2>1, <2>3, <2>4, <2>5, TurnFrame
<1>6. CASE RetryAttempt(m)
  <2>1. /\ step' = [step EXCEPT ![m] = "attempting"]
        /\ abort' = [abort EXCEPT ![m] = IF @ = "now" THEN "before" ELSE @]
        /\ UNCHANGED <<up, restarts, hist, target, tries>>
        /\ UNCHANGED <<sessions, obj, next, frozen, diskMap>>
        /\ UNCHANGED queue
    BY <1>6 DEF RetryAttempt, store
  <2>2. step' \in [Msgs -> {"idle"} \cup InFlight \cup Settled]
        /\ \A x \in Msgs : step'[x] = "answered" => step[x] = "answered"
    BY <1>2, <2>1
  <2>3. abort' \in [Msgs -> {"no", "now", "before"}]
    BY <1>1, <2>1 DEF TypeOK
  <2>4. TypeOK'
    BY <1>1, <1>4, <2>1, <2>2, <2>3 DEF TypeOK
  <2> QED BY <1>3, <2>1, <2>2, <2>4, TurnFrame
<1>7. CASE AttemptReturns(m)
  <2>1. /\ step' = [step EXCEPT ![m] = "completing"] /\ Append1(m, "assistant")
        /\ obj' = [obj EXCEPT ![target[m]].status = "idle"]
        /\ UNCHANGED <<up, restarts, sessions, next, frozen, diskMap, target, tries, abort>>
        /\ UNCHANGED queue
    BY <1>7 DEF AttemptReturns
  <2>2. /\ obj' \in [Objs -> Session]
        /\ \A x \in Objs : /\ obj'[x].id = obj[x].id
                           /\ obj[x].status # "stopped" => obj'[x].status # "stopped"
        /\ \A c \in Channels : sessions'[c] # None => obj'[sessions'[c]].id \in Objs
    BY <1>1, <2>1, StatusSet DEF Statuses
  <2>3. step' \in [Msgs -> {"idle"} \cup InFlight \cup Settled]
        /\ \A x \in Msgs : step'[x] = "answered" => step[x] = "answered"
    BY <1>2, <2>1
  <2>4. hist' \in [Objs -> Seq([role : {"user", "assistant"}, msg : Msgs])]
    BY <1>1, <2>1, HistTypes
  <2>5. TypeOK'
    BY <1>1, <1>4, <2>1, <2>2, <2>3, <2>4 DEF TypeOK
  <2> QED BY <2>1, <2>2, <2>3, <2>5, TurnFrame
<1>8. CASE AttemptRetried(m)
  <2>1. /\ tries[m] < MaxRetries /\ tries' = [tries EXCEPT ![m] = @ + 1]
        /\ step' = [step EXCEPT ![m] = "backoff"]
        /\ UNCHANGED <<up, restarts, hist, target, abort>>
        /\ UNCHANGED <<sessions, obj, next, frozen, diskMap>>
        /\ UNCHANGED queue
    BY <1>8 DEF AttemptRetried, store
  <2>2. step' \in [Msgs -> {"idle"} \cup InFlight \cup Settled]
        /\ \A x \in Msgs : step'[x] = "answered" => step[x] = "answered"
    BY <1>2, <2>1
  <2>3. tries' \in [Msgs -> 0..MaxRetries]
    <3>1. tries[m] + 1 \in 0..MaxRetries
      BY <1>1, <2>1, SessionAssumption DEF TypeOK
    <3> QED BY <1>1, <2>1, <3>1 DEF TypeOK
  <2>4. TypeOK'
    BY <1>1, <1>4, <2>1, <2>2, <2>3 DEF TypeOK
  <2> QED BY <1>3, <2>1, <2>2, <2>4, TurnFrame
<1>9. CASE AttemptFails(m)
  <2>1. /\ step' = [step EXCEPT ![m] = "failing"]
        /\ obj' = [obj EXCEPT ![target[m]].status = "error"]
        /\ UNCHANGED <<up, restarts, sessions, next, frozen, diskMap, hist, target, tries, abort>>
        /\ UNCHANGED queue
    BY <1>9 DEF AttemptFails, StatusAfterThrow
  <2>2. /\ obj' \in [Objs -> Session]
        /\ \A x \in Objs : /\ obj'[x].id = obj[x].id
                           /\ obj[x].status # "stopped" => obj'[x].status # "stopped"
        /\ \A c \in Channels : sessions'[c] # None => obj'[sessions'[c]].id \in Objs
    BY <1>1, <2>1, StatusSet DEF Statuses
  <2>3. step' \in [Msgs -> {"idle"} \cup InFlight \cup Settled]
        /\ \A x \in Msgs : step'[x] = "answered" => step[x] = "answered"
    BY <1>2, <2>1
  <2>4. TypeOK'
    BY <1>1, <1>4, <2>1, <2>2, <2>3 DEF TypeOK
  <2> QED BY <2>1, <2>2, <2>3, <2>4, TurnFrame
<1>10. CASE Answer(m)
  <2>1. /\ SQ!Complete(m)
        /\ step' = [step EXCEPT ![m] = "answered"]
        /\ diskMap' = SessionMap(sessions, obj)
        /\ tries' = [tries EXCEPT ![m] = 0]
        /\ abort' = [abort EXCEPT ![m] = "no"]
        /\ UNCHANGED <<up, restarts, sessions, obj, next, frozen, hist, target>>
    BY <1>10 DEF Answer, MapAfterTurn
  <2>2. SQ!TypeOK'
    BY <1>1, <2>1, QueueTypes DEF TypeOK
  <2>3. diskMap' \in [Channels -> Objs \cup {None}]
    BY <1>1, <2>1, MapTypes DEF TypeOK
  <2>4. /\ tries' \in [Msgs -> 0..MaxRetries]
        /\ abort' \in [Msgs -> {"no", "now", "before"}]
        /\ step' \in [Msgs -> {"idle"} \cup InFlight \cup Settled]
    BY <1>1, <1>2, <2>1, SessionAssumption DEF TypeOK
  <2>5. TypeOK'
    BY <1>1, <2>1, <2>2, <2>3, <2>4 DEF TypeOK
  <2> QED BY <1>3, <2>1, <2>5, TurnFrame
<1> QED BY <1>5, <1>6, <1>7, <1>8, <1>9, <1>10 DEF TurnStep, AttemptSettles

(* What a message that enqueue accepted leaves of the invariant to show. *)
LEMMA AcceptFrame ==
    ASSUME IInv, NEW m \in Msgs, step[m] = "idle", NEW o \in Objs, NEW id \in Objs,
           Accept(m, o, id), next' \in Nat, o <= next', next <= next'
    PROVE  /\ \A n \in Msgs : target'[n] <= next'
           /\ \A n \in Msgs : step'[n] = "answered" =>
                  step[n] = "answered" /\ target'[n] = target[n]
  <1>1. /\ step' = [step EXCEPT ![m] = "queued"]
        /\ target' = [target EXCEPT ![m] = o]
    BY DEF Accept
  <1>2. /\ step \in [Msgs -> {"idle"} \cup InFlight \cup Settled]
        /\ target \in [Msgs -> Objs \cup {None}]
    BY Facts DEF TypeOK
  <1>3. \A n \in Msgs : target'[n] = IF n = m THEN o ELSE target[n]
    BY <1>1, <1>2
  <1>4. \A n \in Msgs : step'[n] = IF n = m THEN "queued" ELSE step[n]
    BY <1>1, <1>2
  <1>5. next \in Nat /\ o \in Nat /\ \A n \in Msgs : target[n] \in Nat /\ target[n] <= next
    BY Facts, ObjsNat
  <1>6. \A n \in Msgs : step'[n] = "answered" => step[n] = "answered" /\ target'[n] = target[n]
    BY <1>3, <1>4
  <1> QED BY <1>3, <1>5, <1>6

(* The number a new object gets. *)
LEMMA NextObject ==
    ASSUME IInv, next + 1 \in Objs, next' = next + 1
    PROVE  /\ next' \in 0..MaxObjs /\ next' \in Nat
           /\ next < next' /\ next <= next' /\ next + 1 <= next' /\ next + 1 > next
           /\ \A d \in Channels : sessions[d] # next + 1
  BY SessionAssumption, Facts DEF Objs

(* handleMessage with the session the channel has *)
LEMMA HandleCurrentKeeps ==
    ASSUME IInv, NEW m \in Msgs, NEW c \in Channels, HandleMessage(m, c),
           HandleWithCurrent(m, c)
    PROVE  IInv'
<1> DEFINE o == sessions[c]
<1>1. /\ UNCHANGED <<up, restarts, hist>> /\ step[m] = "idle"
      /\ UNCHANGED <<sessions, obj, next, frozen, diskMap, abort>>
      /\ o # None /\ Accept(m, o, obj[o].id)
  BY DEF HandleMessage, HandleWithCurrent, store
<1>2. o \in Objs /\ obj[o].id \in Objs /\ o <= next' /\ next <= next' /\ next' \in Nat
  BY <1>1, Facts
<1>3. TypeOK'
  BY <1>1, <1>2, Facts, AcceptTypes DEF TypeOK
<1>4. /\ \A n \in Msgs : target'[n] <= next'
      /\ \A n \in Msgs : step'[n] = "answered" =>
             step[n] = "answered" /\ target'[n] = target[n]
  BY <1>1, <1>2, AcceptFrame
<1>5. \A d \in Channels : (Dropped(d) \/ Kept(d)) /\ ~Made(d)
  BY <1>1, Facts DEF Dropped, Kept, Made
<1>6. Rebinds
  BY <1>1, <1>4, <1>5 DEF Rebinds
<1>7. DownIsEmpty' /\ NoSnapshotLeak'
  BY <1>1 DEF IInv, DownIsEmpty, NoSnapshotLeak, Bound
<1> QED BY <1>2, <1>3, <1>6, <1>7, BindingStep DEF IInv

(* handleMessage with a new session *)
LEMMA HandleNewKeeps ==
    ASSUME IInv, NEW m \in Msgs, NEW c \in Channels, HandleMessage(m, c),
           HandleWithNew(m, c)
    PROVE  IInv'
<1> DEFINE o == next + 1
<1>1. /\ UNCHANGED <<up, restarts, hist, abort>> /\ step[m] = "idle" /\ up # "down"
      /\ o \in Objs /\ sessions[c] = None /\ Accept(m, o, o) /\ next' = o
      /\ frozen' = frozen \cup Snapshot(o)
      /\ obj' = [obj EXCEPT ![o] = Fresh(o)]
      /\ sessions' = [sessions EXCEPT ![c] = o]
      /\ diskMap' = SessionMap(sessions', obj')
  BY DEF HandleMessage, HandleWithNew, Running
<1>2. /\ next' \in 0..MaxObjs /\ next' \in Nat /\ next <= next' /\ o <= next' /\ o > next
      /\ \A d \in Channels : sessions[d] # o
  BY <1>1, NextObject
<1>3. TypeOK
  BY Facts
<1>4. /\ \A d \in Channels : sessions'[d] = IF d = c THEN o ELSE sessions[d]
      /\ \A x \in Objs : obj'[x] = IF x = o THEN Fresh(o) ELSE obj[x]
      /\ Fresh(o).id = o /\ Fresh(o).status = "idle"
  BY <1>1, <1>3 DEF TypeOK, Fresh
<1> HIDE DEF o
<1>5. /\ obj' \in [Objs -> Session] /\ sessions' \in [Channels -> Objs \cup {None}]
      /\ \A d \in Channels : sessions'[d] # None => obj'[sessions'[d]].id \in Objs
      /\ frozen' \subseteq Objs
  <2>1. Fresh(o) \in Session
    BY <1>1, <1>3, HelperTypes
  <2>2. obj' \in [Objs -> Session] /\ sessions' \in [Channels -> Objs \cup {None}]
    BY <1>1, <1>3, <2>1 DEF TypeOK
  <2>3. \A d \in Channels : sessions'[d] # None => obj'[sessions'[d]].id \in Objs
    BY <1>1, <1>2, <1>4, Facts
  <2>4. frozen' \subseteq Objs
    BY <1>1, <1>3 DEF TypeOK, Snapshot
  <2> QED BY <2>2, <2>3, <2>4
<1>6. diskMap' \in [Channels -> Objs \cup {None}]
  BY <1>1, <1>5, MapTypes
<1>7. TypeOK'
  BY <1>1, <1>2, <1>3, <1>5, <1>6, AcceptTypes DEF TypeOK
<1>8. /\ \A n \in Msgs : target'[n] <= next'
      /\ \A n \in Msgs : step'[n] = "answered" =>
             step[n] = "answered" /\ target'[n] = target[n]
  BY <1>1, <1>2, AcceptFrame
<1>9. \A d \in Channels : /\ d = c => Made(d)
                          /\ d # c => ~Made(d) /\ (Dropped(d) \/ Kept(d))
  <2>1. Made(c)
    BY <1>1, <1>2, <1>4 DEF Made
  <2>2. ASSUME NEW d \in Channels, d # c PROVE ~Made(d) /\ (Dropped(d) \/ Kept(d))
    BY <1>2, <1>4, <2>2, Facts DEF Made, Dropped, Kept
  <2> QED BY <2>1, <2>2
<1>10. \A d \in Channels : Kept(d) => Mapped(d)
  <2>1. diskMap' = SessionMap(sessions', obj')
    BY <1>1
  <2>2. \A d \in Channels : (sessions'[d] # None /\ obj'[sessions'[d]].status # "stopped")
                                => SessionMap(sessions', obj')[d] = obj'[sessions'[d]].id
    BY <1>5, MapTypes
  <2> QED BY <2>1, <2>2 DEF Kept, Mapped
<1>11. Rebinds
  BY <1>8, <1>9, <1>10 DEF Rebinds
<1>12. DownIsEmpty'
  BY <1>1 DEF DownIsEmpty
<1>13. NoSnapshotLeak'
  <2>1. \A i \in frozen : \E d \in Channels : sessions'[d] # None /\ obj'[sessions'[d]].id = i
    <3> SUFFICES ASSUME NEW i \in frozen
                 PROVE  \E d \in Channels : sessions'[d] # None /\ obj'[sessions'[d]].id = i
      OBVIOUS
    <3>1. PICK d \in Channels : sessions[d] # None /\ obj[sessions[d]].id = i
      BY Facts
    <3>2. sessions[d] \in Objs /\ sessions[d] # o /\ d # c
      BY <1>1, <1>2, <3>1, Facts
    <3> QED BY <1>4, <3>1, <3>2
  <2>2. sessions'[c] # None /\ obj'[sessions'[c]].id = o
    BY <1>1, <1>4, ObjsNat
  <2> QED BY <1>1, <2>1, <2>2 DEF NoSnapshotLeak, Bound, Snapshot
<1> QED BY <1>2, <1>7, <1>11, <1>12, <1>13, BindingStep DEF IInv

(* handleMessage with a rotated session *)
LEMMA HandleRotatedKeeps ==
    ASSUME IInv, NEW m \in Msgs, NEW c \in Channels, HandleMessage(m, c),
           HandleWithRotated(m, c)
    PROVE  IInv'
<1> DEFINE o == next + 1
           old == sessions[c]
<1>1. /\ UNCHANGED <<up, restarts, hist, diskMap>> /\ step[m] = "idle" /\ up # "down"
      /\ o \in Objs /\ old # None /\ Accept(m, o, o) /\ next' = o
      /\ frozen' = Thawed({obj[old].id}) \cup Snapshot(o)
      /\ abort' = Aborted({old})
      /\ obj' = [Destroyed({old}) EXCEPT ![o] = Fresh(o)]
      /\ sessions' = [sessions EXCEPT ![c] = o]
  BY DEF HandleMessage, HandleWithRotated, Running
<1>2. /\ next' \in 0..MaxObjs /\ next' \in Nat /\ next <= next' /\ o <= next' /\ o > next
      /\ \A d \in Channels : sessions[d] # o
  BY <1>1, NextObject
<1>3. TypeOK
  BY Facts
<1> HIDE DEF o
<1>4. /\ \A d \in Channels : sessions'[d] = IF d = c THEN o ELSE sessions[d]
      /\ \A x \in Objs : obj'[x] = IF x = o THEN Fresh(o) ELSE Destroyed({old})[x]
      /\ Fresh(o).id = o /\ Fresh(o).status = "idle"
      /\ Destroyed({old}) \in [Objs -> Session]
  <2>1. Destroyed({old}) \in [Objs -> Session]
    BY <1>3, HelperTypes
  <2>2. \A d \in Channels : sessions'[d] = IF d = c THEN o ELSE sessions[d]
    BY <1>1, <1>3 DEF TypeOK
  <2>3. \A x \in Objs : obj'[x] = IF x = o THEN Fresh(o) ELSE Destroyed({old})[x]
    BY <1>1, <2>1
  <2> QED BY <2>1, <2>2, <2>3 DEF Fresh
<1>5. \A d \in Channels \ {c} : sessions[d] # None =>
          /\ sessions[d] \in Objs /\ sessions'[d] = sessions[d]
          /\ obj'[sessions[d]] = obj[sessions[d]]
  <2> SUFFICES ASSUME NEW d \in Channels \ {c}, sessions[d] # None
               PROVE  /\ sessions[d] \in Objs /\ sessions'[d] = sessions[d]
                      /\ obj'[sessions[d]] = obj[sessions[d]]
    OBVIOUS
  <2>1. sessions[d] \in Objs \ {old} /\ sessions[d] # o
    BY <1>2, Facts
  <2>2. Destroyed({old})[sessions[d]] = obj[sessions[d]]
    BY <1>3, <2>1, HelperTypes
  <2> QED BY <1>4, <2>1, <2>2
<1>6. /\ obj' \in [Objs -> Session] /\ sessions' \in [Channels -> Objs \cup {None}]
      /\ \A d \in Channels : sessions'[d] # None => obj'[sessions'[d]].id \in Objs
      /\ frozen' \subseteq Objs
  <2>1. Fresh(o) \in Session
    BY <1>1, <1>3, HelperTypes
  <2>2. obj' \in [Objs -> Session]
    BY <1>1, <1>4, <2>1
  <2>3. sessions' \in [Channels -> Objs \cup {None}]
    BY <1>1, <1>3 DEF TypeOK
  <2>4. \A d \in Channels : sessions'[d] # None => obj'[sessions'[d]].id \in Objs
    <3>1. sessions'[c] = o /\ obj'[o].id = o /\ o \in Objs
      BY <1>1, <1>4
    <3>2. ASSUME NEW d \in Channels \ {c}, sessions'[d] # None
          PROVE  obj'[sessions'[d]].id \in Objs
      <4>1. sessions[d] # None /\ sessions'[d] = sessions[d]
        BY <1>4, <3>2
      <4>2. obj'[sessions[d]] = obj[sessions[d]] /\ obj[sessions[d]].id \in Objs
        BY <1>5, <4>1, Facts
      <4> QED BY <4>1, <4>2
    <3> QED BY <3>1, <3>2
  <2>5. frozen' \subseteq Objs
    BY <1>1, <1>3 DEF TypeOK, Snapshot, Thawed
  <2> QED BY <2>2, <2>3, <2>4, <2>5
<1>7. TypeOK'
  <2>1. abort' \in [Msgs -> {"no", "now", "before"}]
    BY <1>1, <1>3, HelperTypes
  <2>2. /\ SQ!TypeOK' /\ step' \in [Msgs -> {"idle"} \cup InFlight \cup Settled]
        /\ target' \in [Msgs -> Objs \cup {None}] /\ tries' \in [Msgs -> 0..MaxRetries]
    BY <1>1, <1>3, AcceptTypes
  <2>3. UNCHANGED <<up, restarts, hist, diskMap>>
    BY <1>1
  <2> QED BY <1>2, <1>3, <1>6, <2>1, <2>2, <2>3 DEF TypeOK
<1>8. /\ \A n \in Msgs : target'[n] <= next'
      /\ \A n \in Msgs : step'[n] = "answered" =>
             step[n] = "answered" /\ target'[n] = target[n]
  BY <1>1, <1>2, AcceptFrame
<1>9. \A d \in Channels : /\ d = c => Made(d) /\ ~Kept(d)
                          /\ d # c => ~Made(d) /\ (Dropped(d) \/ Kept(d))
  <2>1. Made(c) /\ ~Kept(c)
    BY <1>1, <1>2, <1>4 DEF Made, Kept
  <2>2. ASSUME NEW d \in Channels, d # c PROVE ~Made(d) /\ (Dropped(d) \/ Kept(d))
    BY <1>4, <1>5, <2>2, Facts DEF Made, Dropped, Kept
  <2> QED BY <2>1, <2>2
<1>10. diskMap' = diskMap
  BY <1>1
<1>11. Rebinds
  BY <1>8, <1>9, <1>10 DEF Rebinds
<1>12. DownIsEmpty'
  BY <1>1 DEF DownIsEmpty
<1>13. NoSnapshotLeak'
  <2>1. \A i \in frozen \ {obj[old].id} :
            \E d \in Channels : sessions'[d] # None /\ obj'[sessions'[d]].id = i
    <3> SUFFICES ASSUME NEW i \in frozen, i # obj[old].id
                 PROVE  \E d \in Channels : sessions'[d] # None /\ obj'[sessions'[d]].id = i
      OBVIOUS
    <3>1. PICK d \in Channels : sessions[d] # None /\ obj[sessions[d]].id = i
      BY Facts
    <3>2. d # c
      BY <3>1
    <3> QED BY <1>5, <3>1, <3>2
  <2>2. sessions'[c] # None /\ obj'[sessions'[c]].id = o
    BY <1>1, <1>4, ObjsNat
  <2>3. frozen' \subseteq (frozen \ {obj[old].id}) \cup {o}
    BY <1>1 DEF Snapshot, Thawed
  <2>4. \A i \in frozen' : \E d \in Channels : sessions'[d] # None /\ obj'[sessions'[d]].id = i
    BY <2>1, <2>2, <2>3
  <2> QED BY <2>4 DEF NoSnapshotLeak, Bound
<1> QED BY <1>2, <1>7, <1>11, <1>12, <1>13, BindingStep DEF IInv

(* handleMessage whose handoff cannot be written *)
LEMMA HandoffFailsKeeps ==
    ASSUME IInv, NEW m \in Msgs, NEW c \in Channels, HandleMessage(m, c), HandoffFails(m, c)
    PROVE  IInv'
<1>1. /\ UNCHANGED <<up, restarts, hist, sessions, obj, next, diskMap, target, tries, abort>>
      /\ UNCHANGED queue
      /\ frozen' = Thawed({obj[sessions[c]].id})
      /\ step' = [step EXCEPT ![m] = "rejected"]
  BY DEF HandleMessage, HandoffFails
<1>2. TypeOK /\ frozen' \subseteq frozen
  BY <1>1, Facts DEF Thawed
<1>3. step' \in [Msgs -> {"idle"} \cup InFlight \cup Settled]
      /\ \A n \in Msgs : step'[n] = "answered" => step[n] = "answered"
  BY <1>1, <1>2 DEF TypeOK, Settled
<1>4. TypeOK'
  <2>1. SQ!TypeOK'
    BY <1>1, <1>2 DEF TypeOK, queue, SQ!TypeOK, SQ!Phases
  <2> QED BY <1>1, <1>2, <1>3, <2>1 DEF TypeOK
<1>5. \A d \in Channels : (Dropped(d) \/ Kept(d)) /\ ~Made(d)
  BY <1>1, Facts DEF Dropped, Kept, Made
<1>6. next <= next' /\ \A n \in Msgs : target'[n] <= next' /\ target'[n] = target[n]
  BY <1>1, Facts
<1>7. Rebinds
  BY <1>1, <1>3, <1>5, <1>6 DEF Rebinds
<1>8. DownIsEmpty' /\ NoSnapshotLeak'
  <2>1. obj' = obj /\ sessions' = sessions /\ up' = up /\ frozen' \subseteq frozen
    BY <1>1, <1>2
  <2>2. DownIsEmpty'
    BY <2>1, Facts DEF DownIsEmpty
  <2>3. NoSnapshotLeak'
    BY <2>1, Facts DEF NoSnapshotLeak, Bound
  <2> QED BY <2>2, <2>3
<1> QED BY <1>4, <1>6, <1>7, <1>8, BindingStep DEF IInv

(* handleMessage *)
LEMMA HandleKeeps ==
    ASSUME IInv, NEW m \in Msgs, NEW c \in Channels, HandleMessage(m, c)
    PROVE  IInv'
  BY HandleCurrentKeeps, HandleNewKeeps, HandleRotatedKeeps, HandoffFailsKeeps
     DEF HandleMessage

(* interruptSession *)
LEMMA InterruptKeeps ==
    ASSUME IInv, NEW c \in Channels, interruptSession(c)
    PROVE  IInv'
<1>1. /\ abort' = Aborted({sessions[c]})
      /\ obj' = [obj EXCEPT ![sessions[c]].status = "idle"]
      /\ UNCHANGED <<up, restarts, sessions, next, frozen, diskMap, hist, step, target, tries>>
      /\ UNCHANGED queue
  BY DEF interruptSession
<1>2. TypeOK
  BY Facts
<1>3. /\ obj' \in [Objs -> Session]
      /\ \A x \in Objs : /\ obj'[x].id = obj[x].id
                         /\ obj[x].status # "stopped" => obj'[x].status # "stopped"
      /\ \A d \in Channels : sessions'[d] # None => obj'[sessions'[d]].id \in Objs
  BY <1>1, <1>2, StatusSet DEF Statuses
<1>4. abort' \in [Msgs -> {"no", "now", "before"}]
  BY <1>1, <1>2, HelperTypes
<1>5. SQ!TypeOK'
  BY <1>1, <1>2 DEF TypeOK, queue, SQ!TypeOK, SQ!Phases
<1>6. TypeOK'
  BY <1>1, <1>2, <1>3, <1>4, <1>5 DEF TypeOK
<1> QED BY <1>1, <1>3, <1>6, TurnFrame

(* Destroying the objects os of the channels in gone, with their snapshots:  *)
(* /clear, the cleanup timer and stop().                                     *)
LEMMA DestroyKeeps ==
    ASSUME IInv, NEW gone \in SUBSET Channels, NEW os,
           \A d \in Channels \ gone : sessions[d] # None => sessions[d] \notin os,
           \A i \in frozen' : i \in frozen /\ \A d \in gone : sessions[d] # None =>
                                                 i # obj[sessions[d]].id,
           sessions' = [c \in Channels |-> IF c \in gone THEN None ELSE sessions[c]],
           obj' = Destroyed(os), abort' = Aborted(os), up' \in {"up", "stopping"},
           UNCHANGED <<restarts, next, diskMap, hist, step, target, tries, queue>>
    PROVE  IInv'
<1>1. TypeOK
  BY Facts
<1>2. \A d \in Channels : sessions'[d] = IF d \in gone THEN None ELSE sessions[d]
  OBVIOUS
<1>3. \A d \in Channels \ gone : sessions[d] # None =>
          sessions[d] \in Objs /\ obj'[sessions[d]] = obj[sessions[d]]
  <2> SUFFICES ASSUME NEW d \in Channels \ gone, sessions[d] # None
               PROVE  sessions[d] \in Objs /\ obj'[sessions[d]] = obj[sessions[d]]
    OBVIOUS
  <2>1. sessions[d] \in Objs \ os
    BY Facts
  <2>2. Destroyed(os)[sessions[d]] = obj[sessions[d]]
    BY <1>1, <2>1, HelperTypes
  <2> QED BY <2>1, <2>2
<1>4. TypeOK'
  <2>1. SQ!TypeOK'
    BY <1>1 DEF TypeOK, queue, SQ!TypeOK, SQ!Phases
  <2>2. obj' \in [Objs -> Session] /\ abort' \in [Msgs -> {"no", "now", "before"}]
    BY <1>1, HelperTypes
  <2>3. sessions' \in [Channels -> Objs \cup {None}] /\ frozen' \subseteq Objs
    BY <1>1 DEF TypeOK
  <2>4. \A d \in Channels : sessions'[d] # None => obj'[sessions'[d]].id \in Objs
    BY <1>2, <1>3, Facts
  <2>5. up' \in {"up", "stopping", "down"}
    OBVIOUS
  <2> QED BY <1>1, <2>1, <2>2, <2>3, <2>4, <2>5 DEF TypeOK
<1>5. \A d \in Channels : (Dropped(d) \/ Kept(d)) /\ ~Made(d)
  <2> SUFFICES ASSUME NEW d \in Channels PROVE (Dropped(d) \/ Kept(d)) /\ ~Made(d)
    OBVIOUS
  <2>1. sessions[d] \in Nat /\ sessions[d] <= next /\ next \in Nat
    BY Facts
  <2>2. CASE sessions'[d] = None
    BY <2>1, <2>2 DEF Dropped, Made, None
  <2>3. CASE sessions'[d] # None
    <3>1. d \notin gone /\ sessions'[d] = sessions[d] /\ sessions[d] # None
      BY <1>2, <2>3
    <3>2. obj'[sessions[d]] = obj[sessions[d]] /\ obj[sessions[d]].status # "stopped"
      BY <1>3, <3>1, Facts
    <3> QED BY <2>1, <3>1, <3>2 DEF Kept, Made
  <2> QED BY <2>2, <2>3
<1>6. next <= next' /\ \A n \in Msgs : target'[n] <= next' /\ target'[n] = target[n]
  BY Facts
<1>7. diskMap' = diskMap /\ step' = step
  OBVIOUS
<1>8. Rebinds
  BY <1>5, <1>6, <1>7 DEF Rebinds
<1>9. DownIsEmpty'
  BY DEF DownIsEmpty
<1>10. NoSnapshotLeak'
  <2>1. \A i \in frozen' : \E d \in Channels : sessions'[d] # None /\ obj'[sessions'[d]].id = i
    <3> SUFFICES ASSUME NEW i \in frozen'
                 PROVE  \E d \in Channels : sessions'[d] # None /\ obj'[sessions'[d]].id = i
      OBVIOUS
    <3>1. PICK d \in Channels : sessions[d] # None /\ obj[sessions[d]].id = i
      BY Facts
    <3>2. d \notin gone
      BY <3>1
    <3> QED BY <1>2, <1>3, <3>1, <3>2
  <2> QED BY <2>1 DEF NoSnapshotLeak, Bound
<1> QED BY <1>4, <1>6, <1>8, <1>9, <1>10, BindingStep DEF IInv

(* /clear *)
LEMMA ClearKeeps ==
    ASSUME IInv, NEW c \in Channels, destroySession(c)
    PROVE  IInv'
<1> DEFINE os == {sessions[c]}
<1>1. /\ frozen' = frozen \ {obj[sessions[c]].id}
      /\ abort' = Aborted(os) /\ obj' = Destroyed(os)
      /\ sessions' = [sessions EXCEPT ![c] = None]
      /\ UNCHANGED <<restarts, next, diskMap, hist, step, target, tries, queue>>
      /\ up' \in {"up", "stopping"} /\ sessions[c] # None
  BY DEF destroySession, Running, Thawed
<1>2. sessions' = [d \in Channels |-> IF d \in {c} THEN None ELSE sessions[d]]
  <2>1. sessions \in [Channels -> Objs \cup {None}]
    BY Facts DEF TypeOK
  <2> QED BY <1>1, <2>1
<1>3. \A d \in Channels \ {c} : sessions[d] # None => sessions[d] \notin os
  BY Facts
<1>4. \A i \in frozen' : i \in frozen /\ \A d \in {c} : sessions[d] # None =>
                                             i # obj[sessions[d]].id
  BY <1>1
<1> HIDE DEF os
<1> QED BY <1>1, <1>2, <1>3, <1>4, DestroyKeeps

(* the cleanup timer *)
LEMMA CleanupKeeps ==
    ASSUME IInv, cleanupIdleSessions
    PROVE  IInv'
<1>1. PICK gone \in SUBSET {c \in Channels : Evictable(c)} :
          LET os == {sessions[c] : c \in gone} IN
          /\ up = "up"
          /\ frozen' = Thawed({obj[o].id : o \in os})
          /\ abort' = Aborted(os) /\ obj' = Destroyed(os)
          /\ sessions' = [c \in Channels |-> IF c \in gone THEN None ELSE sessions[c]]
          /\ UNCHANGED <<up, restarts, next, diskMap, hist, step, target, tries, queue>>
  BY DEF cleanupIdleSessions
<1> DEFINE os == {sessions[c] : c \in gone}
<1>2. /\ frozen' = frozen \ {obj[o].id : o \in os}
      /\ abort' = Aborted(os) /\ obj' = Destroyed(os)
      /\ sessions' = [c \in Channels |-> IF c \in gone THEN None ELSE sessions[c]]
      /\ UNCHANGED <<restarts, next, diskMap, hist, step, target, tries, queue>>
      /\ up' \in {"up", "stopping"}
  BY <1>1 DEF Thawed
<1>3. gone \in SUBSET Channels
  OBVIOUS
<1>4. \A d \in Channels \ gone : sessions[d] # None => sessions[d] \notin os
  BY <1>3, Facts
<1>5. \A i \in frozen' : i \in frozen /\ \A d \in gone : sessions[d] # None =>
                                             i # obj[sessions[d]].id
  BY <1>2
<1> HIDE DEF os
<1> QED BY <1>2, <1>3, <1>4, <1>5, DestroyKeeps

(* stop() *)
LEMMA StopKeeps ==
    ASSUME IInv, Stop
    PROVE  IInv'
<1>1. /\ frozen' = {} /\ up' \in {"up", "stopping"}
      /\ abort' = Aborted(Bound) /\ obj' = Destroyed(Bound)
      /\ sessions' = [c \in Channels |-> IF c \in Channels THEN None ELSE sessions[c]]
      /\ UNCHANGED <<restarts, next, diskMap, hist, step, target, tries, queue>>
  BY DEF Stop
<1>2. /\ \A d \in Channels \ Channels : sessions[d] # None => sessions[d] \notin Bound
      /\ \A i \in frozen' : i \in frozen /\ \A d \in Channels : sessions[d] # None =>
                                                i # obj[sessions[d]].id
      /\ Channels \in SUBSET Channels
  BY <1>1
<1> QED BY <1>1, <1>2, DestroyKeeps

(* process.exit or a crash *)
LEMMA ExitKeeps ==
    ASSUME IInv, Exit
    PROVE  IInv'
<1>1. /\ up' = "down" /\ frozen' = {}
      /\ sessions' = [c \in Channels |-> None]
      /\ step' = [m \in Msgs |-> IF step[m] \in InFlight THEN "lost" ELSE step[m]]
      /\ phase' = [m \in Msgs |-> IF phase[m] = "idle" THEN "idle" ELSE "done"]
      /\ tries' = [m \in Msgs |-> 0] /\ abort' = [m \in Msgs |-> "no"]
      /\ UNCHANGED <<restarts, obj, next, diskMap, hist, target, key, ticket, clock>>
  BY DEF Exit
<1>2. TypeOK
  BY Facts
<1>3. /\ step' \in [Msgs -> {"idle"} \cup InFlight \cup Settled]
      /\ \A m \in Msgs : step'[m] = "answered" => step[m] = "answered"
  BY <1>1, <1>2 DEF TypeOK, Settled
<1>4. SQ!TypeOK'
  BY <1>1, <1>2 DEF TypeOK, SQ!TypeOK, SQ!Phases
<1>5. /\ tries' \in [Msgs -> 0..MaxRetries]
      /\ abort' \in [Msgs -> {"no", "now", "before"}]
      /\ sessions' \in [Channels -> Objs \cup {None}]
      /\ \A c \in Channels : sessions'[c] = None
  BY <1>1, SessionAssumption
<1>6. TypeOK'
  BY <1>1, <1>2, <1>3, <1>4, <1>5 DEF TypeOK
<1>7. \A d \in Channels : Dropped(d) /\ ~Kept(d) /\ ~Made(d)
  BY <1>5, Facts DEF Dropped, Kept, Made, None
<1>8. next <= next' /\ \A n \in Msgs : target'[n] <= next' /\ target'[n] = target[n]
  BY <1>1, Facts
<1>9. Rebinds
  BY <1>3, <1>7, <1>8 DEF Rebinds
<1>10. DownIsEmpty' /\ NoSnapshotLeak'
  BY <1>1, <1>5 DEF DownIsEmpty, NoSnapshotLeak
<1> QED BY <1>6, <1>8, <1>9, <1>10, BindingStep DEF IInv

(* /resume *)
LEMMA AdoptKeeps ==
    ASSUME IInv, NEW c \in Channels, NEW i \in Objs, adoptSession(c, i)
    PROVE  IInv'
<1> DEFINE o == next + 1
           old == {sessions[c]} \ {None}
<1>1. /\ UNCHANGED <<up, restarts, hist, step, target, tries>> /\ UNCHANGED queue
      /\ up = "up" /\ o \in Objs /\ next' = o
      /\ frozen' = Thawed({obj[x].id : x \in old}) \cup Snapshot(i)
      /\ abort' = Aborted(old)
      /\ obj' = [Destroyed(old) EXCEPT ![o] = Fresh(i)]
      /\ sessions' = [sessions EXCEPT ![c] = o]
      /\ diskMap' = SessionMap(sessions', obj')
  BY DEF adoptSession
<1>2. /\ next' \in 0..MaxObjs /\ next' \in Nat /\ next <= next' /\ o <= next' /\ o > next
      /\ \A d \in Channels : sessions[d] # o
  BY <1>1, NextObject
<1>3. TypeOK
  BY Facts
<1>4. \A d \in Channels \ {c} : sessions[d] # None => sessions[d] \notin old
  BY Facts
<1>5. frozen' \subseteq (frozen \ {obj[x].id : x \in old}) \cup {i}
  BY <1>1 DEF Thawed, Snapshot
<1>6. sessions[c] # None => sessions[c] \in old
  OBVIOUS
<1> HIDE DEF o, old
<1>7. /\ \A d \in Channels : sessions'[d] = IF d = c THEN o ELSE sessions[d]
      /\ \A x \in Objs : obj'[x] = IF x = o THEN Fresh(i) ELSE Destroyed(old)[x]
      /\ Fresh(i).id = i /\ Fresh(i).status = "idle"
      /\ obj' \in [Objs -> Session]
      /\ sessions' \in [Channels -> Objs \cup {None}]
  <2>1. Destroyed(old) \in [Objs -> Session] /\ Fresh(i) \in Session
    BY <1>3, HelperTypes
  <2>2. /\ \A d \in Channels : sessions'[d] = IF d = c THEN o ELSE sessions[d]
        /\ sessions' \in [Channels -> Objs \cup {None}]
    BY <1>1, <1>3 DEF TypeOK
  <2>3. /\ \A x \in Objs : obj'[x] = IF x = o THEN Fresh(i) ELSE Destroyed(old)[x]
        /\ obj' \in [Objs -> Session]
    BY <1>1, <2>1
  <2> QED BY <2>2, <2>3 DEF Fresh
<1>8. ASSUME NEW d \in Channels \ {c}, sessions[d] # None
      PROVE  /\ sessions[d] \in Objs /\ sessions'[d] = sessions[d]
             /\ obj'[sessions[d]] = obj[sessions[d]]
  <2>1. sessions[d] \in Objs \ old /\ sessions[d] # o
    BY <1>2, <1>4, <1>8, Facts
  <2>2. Destroyed(old)[sessions[d]] = obj[sessions[d]]
    BY <1>3, <2>1, HelperTypes
  <2> QED BY <1>7, <2>1, <2>2
<1>9. sessions'[c] = o /\ obj'[o].id = i /\ obj'[o].status = "idle" /\ o # None
  BY <1>1, <1>7, ObjsNat
<1>10. TypeOK'
  <2>1. \A d \in Channels : sessions'[d] # None => obj'[sessions'[d]].id \in Objs
    <3>1. ASSUME NEW d \in Channels \ {c}, sessions'[d] # None
          PROVE  obj'[sessions'[d]].id \in Objs
      <4>1. sessions[d] # None
        BY <1>7, <3>1
      <4>2. sessions'[d] = sessions[d] /\ obj'[sessions[d]] = obj[sessions[d]]
            /\ obj[sessions[d]].id \in Objs
        BY <1>8, <4>1, Facts
      <4> QED BY <4>2
    <3> QED BY <1>9, <3>1
  <2>2. frozen' \subseteq Objs
    BY <1>3, <1>5 DEF TypeOK
  <2>3. diskMap' \in [Channels -> Objs \cup {None}]
    BY <1>1, <1>7, MapTypes
  <2>4. abort' \in [Msgs -> {"no", "now", "before"}]
    BY <1>1, <1>3, HelperTypes
  <2>5. SQ!TypeOK'
    BY <1>1, <1>3 DEF TypeOK, queue, SQ!TypeOK, SQ!Phases
  <2>6. UNCHANGED <<up, restarts, hist, step, target, tries>>
    BY <1>1
  <2> QED BY <1>2, <1>3, <1>7, <2>1, <2>2, <2>3, <2>4, <2>5, <2>6 DEF TypeOK
<1>11. \A d \in Channels : /\ d = c => Made(d)
                           /\ d # c => ~Made(d) /\ (Dropped(d) \/ Kept(d))
  <2>1. Made(c)
    BY <1>1, <1>2, <1>9 DEF Made
  <2>2. ASSUME NEW d \in Channels \ {c} PROVE ~Made(d) /\ (Dropped(d) \/ Kept(d))
    <3>1. sessions'[d] = sessions[d] /\ sessions[d] \in Nat /\ sessions[d] <= next
      BY <1>7, Facts
    <3>2. ~Made(d)
      BY <3>1, Facts DEF Made
    <3>3. CASE sessions[d] = None
      BY <3>1, <3>2, <3>3 DEF Dropped
    <3>4. CASE sessions[d] # None
      BY <1>8, <3>2, <3>4, Facts DEF Kept
    <3> QED BY <3>3, <3>4
  <2> QED BY <2>1, <2>2
<1>12. \A d \in Channels : Kept(d) => Mapped(d)
  <2>1. diskMap' = SessionMap(sessions', obj')
    BY <1>1
  <2>2. \A d \in Channels : (sessions'[d] # None /\ obj'[sessions'[d]].status # "stopped")
                                => SessionMap(sessions', obj')[d] = obj'[sessions'[d]].id
    BY <1>7, MapTypes
  <2> QED BY <2>1, <2>2 DEF Kept, Mapped
<1>13. Rebinds
  <2>1. step' = step /\ \A n \in Msgs : target'[n] = target[n] /\ target'[n] <= next'
    BY <1>1, <1>2, Facts
  <2> QED BY <1>11, <1>12, <2>1 DEF Rebinds
<1>14. DownIsEmpty'
  BY <1>1 DEF DownIsEmpty
<1>15. NoSnapshotLeak'
  <2>1. ASSUME NEW j \in frozen, j \notin {obj[x].id : x \in old}
        PROVE  \E d \in Channels : sessions'[d] # None /\ obj'[sessions'[d]].id = j
    <3>1. PICK d \in Channels : sessions[d] # None /\ obj[sessions[d]].id = j
      BY Facts
    <3>2. d # c
      BY <1>6, <2>1, <3>1
    <3> QED BY <1>8, <3>1, <3>2
  <2>2. \A j \in frozen' : \E d \in Channels : sessions'[d] # None /\ obj'[sessions'[d]].id = j
    BY <1>5, <1>9, <2>1
  <2> QED BY <2>2 DEF NoSnapshotLeak, Bound
<1> QED BY <1>2, <1>10, <1>13, <1>14, <1>15, BindingStep DEF IInv

(* restoreSessionMap: every channel is bound to an object of its own or to   *)
(* none, and nothing is frozen.                                              *)
LEMMA RestartKeeps ==
    ASSUME IInv, Restart
    PROVE  IInv'
<1> DEFINE n == Cardinality(Restored)
           made == (next + 1)..(next + n)
<1>1. TypeOK
  BY Facts
<1>2. n \in Nat
  <2>1. IsFiniteSet(Channels) /\ Restored \subseteq Channels
    BY SessionAssumption DEF Restored
  <2> QED BY <2>1, FS_Subset, FS_CardinalityType
<1>3. /\ up = "down" /\ up' = "up" /\ restarts < MaxRestarts /\ restarts' = restarts + 1
      /\ made \subseteq Objs /\ next' = next + n
      /\ UNCHANGED <<frozen, diskMap, hist, step, target, tries, abort>>
      /\ UNCHANGED queue
  BY DEF Restart
<1>4. PICK place \in [Restored -> made] :
        /\ \A c, d \in Restored : place[c] = place[d] => c = d
        /\ sessions' = [c \in Channels |-> IF c \in Restored THEN place[c] ELSE None]
        /\ obj' = [o \in Objs |-> IF \E c \in Restored : place[c] = o
                                  THEN Fresh(diskMap[CHOOSE c \in Restored : place[c] = o])
                                  ELSE obj[o]]
  BY DEF Restart
<1>5. \A c \in Restored : /\ diskMap[c] \in Objs /\ c \in Channels
                          /\ place[c] \in Objs /\ place[c] > next /\ place[c] <= next'
  <2>1. \A c \in Restored : diskMap[c] \in Objs /\ c \in Channels
    BY <1>1 DEF TypeOK, Restored
  <2>2. next \in Nat
    BY Facts
  <2>3. ASSUME NEW c \in Restored
        PROVE  place[c] \in Objs /\ place[c] > next /\ place[c] <= next'
    <3>1. place[c] \in made
      BY <1>4
    <3> QED BY <1>2, <1>3, <2>2, <3>1
  <2> QED BY <2>1, <2>3
<1>6. next' \in 0..MaxObjs /\ next' \in Nat /\ next <= next'
  <2>1. next \in Nat /\ next \in 0..MaxObjs
    BY <1>1, Facts DEF TypeOK
  <2>2. CASE n = 0
    BY <1>3, <2>1, <2>2
  <2>3. CASE n # 0
    <3>1. next + n \in made
      BY <1>2, <2>1, <2>3
    <3> QED BY <1>2, <1>3, <2>1, <3>1 DEF Objs
  <2> QED BY <2>2, <2>3
<1> HIDE DEF n, made
<1>7. \A c \in Restored : /\ sessions'[c] = place[c]
                          /\ obj'[place[c]] = Fresh(diskMap[c])
  <2> SUFFICES ASSUME NEW c \in Restored
               PROVE  sessions'[c] = place[c] /\ obj'[place[c]] = Fresh(diskMap[c])
    OBVIOUS
  <2>1. sessions'[c] = place[c]
    BY <1>4, <1>5
  <2> DEFINE b == CHOOSE d \in Restored : place[d] = place[c]
  <2>2. b \in Restored /\ place[b] = place[c]
    OBVIOUS
  <2>3. b = c
    BY <1>4, <2>2
  <2>4. obj'[place[c]] = Fresh(diskMap[b])
    BY <1>4, <1>5
  <2> QED BY <2>1, <2>3, <2>4
<1>8. \A c \in Channels \ Restored : sessions'[c] = None
  BY <1>4
<1>9. \A i \in Objs : Fresh(i) \in Session /\ Fresh(i).id = i /\ Fresh(i).status = "idle"
  BY <1>1, HelperTypes DEF Fresh
<1>10. TypeOK'
  <2>1. sessions' \in [Channels -> Objs \cup {None}]
    BY <1>4, <1>5
  <2>2. obj' \in [Objs -> Session]
    <3>1. ASSUME NEW o \in Objs PROVE obj'[o] \in Session
      <4>1. CASE \E c \in Restored : place[c] = o
        BY <1>5, <1>7, <1>9, <4>1
      <4>2. CASE ~\E c \in Restored : place[c] = o
        BY <1>1, <1>4, <4>2 DEF TypeOK
      <4> QED BY <4>1, <4>2
    <3>2. obj' = [o \in Objs |-> obj'[o]]
      BY <1>4
    <3> QED BY <3>1, <3>2
  <2>3. \A c \in Channels : sessions'[c] # None => obj'[sessions'[c]].id \in Objs
    BY <1>5, <1>7, <1>8, <1>9
  <2>4. restarts' \in 0..MaxRestarts
    BY <1>1, <1>3, SessionAssumption DEF TypeOK
  <2>5. SQ!TypeOK'
    BY <1>1, <1>3 DEF TypeOK, queue, SQ!TypeOK, SQ!Phases
  <2>6. up' \in {"up", "stopping", "down"}
    BY <1>3
  <2>7. UNCHANGED <<frozen, diskMap, hist, step, target, tries, abort>>
    BY <1>3
  <2> QED BY <1>1, <1>6, <2>1, <2>2, <2>3, <2>4, <2>5, <2>6, <2>7 DEF TypeOK
<1>11. \A d \in Channels : /\ ~Kept(d) /\ (Dropped(d) \/ Made(d))
                           /\ Made(d) => d \in Restored
  <2>1. \A d \in Channels : sessions[d] = None
    BY <1>3, Facts
  <2>2. \A d \in Channels : ~Kept(d)
    BY <2>1 DEF Kept
  <2>3. \A d \in Channels \ Restored : Dropped(d) /\ ~Made(d)
    BY <1>8, Facts DEF Dropped, Made, None
  <2>4. \A d \in Restored : Made(d)
    BY <1>5, <1>7, <1>9 DEF Made
  <2> QED BY <2>2, <2>3, <2>4
<1>12. Rebinds
  <2>1. step' = step /\ \A m \in Msgs : target'[m] = target[m] /\ target'[m] <= next'
    BY <1>3, <1>6, Facts
  <2>2. \A d, e \in Channels : (Made(d) /\ Made(e) /\ sessions'[d] = sessions'[e]) => d = e
    BY <1>4, <1>7, <1>11
  <2> QED BY <1>11, <2>1, <2>2 DEF Rebinds
<1>13. DownIsEmpty' /\ NoSnapshotLeak'
  <2>1. frozen' = {} /\ up' = "up"
    BY <1>3, Facts
  <2> QED BY <2>1 DEF DownIsEmpty, NoSnapshotLeak
<1> QED BY <1>6, <1>10, <1>12, <1>13, BindingStep DEF IInv

(* A step that changes nothing. *)
LEMMA StutterKeeps == IInv /\ UNCHANGED vars => IInv'
<1> SUFFICES ASSUME IInv, UNCHANGED vars PROVE IInv'
  OBVIOUS
<1>1. TypeOK'
  BY DEF IInv, vars, store, queue, TypeOK, SQ!TypeOK, SQ!Phases
<1>2. /\ obj' = obj /\ sessions' = sessions /\ next' = next /\ up' = up /\ frozen' = frozen
      /\ target' = target /\ step' = step /\ diskMap' = diskMap
  BY DEF vars, store
<1> QED BY <1>1, <1>2, TurnFrame

(* The invariant is inductive. *)
LEMMA Invariance == Spec => []IInv
<1>1. IInv /\ [Next]_vars => IInv'
  <2> SUFFICES ASSUME IInv, [Next]_vars PROVE IInv'
    OBVIOUS
  <2>1. ASSUME NEW m \in Msgs, NEW c \in Channels, HandleMessage(m, c) PROVE IInv'
    BY <2>1, HandleKeeps
  <2>2. ASSUME NEW m \in Msgs, TurnStep(m) PROVE IInv'
    BY <2>2, TurnStepKeeps
  <2>3. ASSUME NEW c \in Channels, interruptSession(c) PROVE IInv'
    BY <2>3, InterruptKeeps
  <2>4. ASSUME NEW c \in Channels, destroySession(c) PROVE IInv'
    BY <2>4, ClearKeeps
  <2>5. ASSUME NEW c \in Channels, NEW i \in Objs, adoptSession(c, i) PROVE IInv'
    BY <2>5, AdoptKeeps
  <2>6. CASE cleanupIdleSessions
    BY <2>6, CleanupKeeps
  <2>7. CASE Stop
    BY <2>7, StopKeeps
  <2>8. CASE Exit
    BY <2>8, ExitKeeps
  <2>9. CASE Restart
    BY <2>9, RestartKeeps
  <2>10. CASE UNCHANGED vars
    BY <2>10, StutterKeeps
  <2> QED BY <2>1, <2>2, <2>3, <2>4, <2>5, <2>6, <2>7, <2>8, <2>9, <2>10 DEF Next
<1> QED BY InitInv, <1>1, PTL DEF Spec

(* The lines of the queue: places are distinct, and who is served follows   *)
(* requests that are done, so each key has one at a time.                   *)
Line ==
    /\ \A r \in Msgs : phase[r] # "idle" => ticket[r] < clock
    /\ \A r, s \in Msgs : (phase[r] # "idle" /\ phase[s] # "idle" /\ ticket[r] = ticket[s]) => r = s
    /\ \A r, s \in Msgs : (phase[r] = "serving" /\ SQ!Ahead(s, r)) => phase[s] = "done"

LEMMA LineSteps ==
    ASSUME SQ!TypeOK, Line, NEW m \in Msgs
    PROVE  /\ \A k \in Objs : SQ!Submit(m, k) => Line'
           /\ SQ!Serve(m) => Line'
           /\ SQ!Complete(m) => Line'
<1>1. ASSUME NEW k \in Objs, SQ!Submit(m, k) PROVE Line'
  <2>1. /\ phase[m] = "idle" /\ clock' = clock + 1 /\ clock \in Nat
        /\ \A r \in Msgs : phase'[r] = IF r = m THEN "waiting" ELSE phase[r]
        /\ \A r \in Msgs : key'[r] = IF r = m THEN k ELSE key[r]
        /\ \A r \in Msgs : ticket'[r] = IF r = m THEN clock ELSE ticket[r]
        /\ \A r \in Msgs : ticket[r] \in Nat
    BY <1>1 DEF SQ!Submit, SQ!TypeOK
  <2> QED BY <2>1 DEF Line, SQ!Ahead
<1>2. ASSUME SQ!Serve(m) PROVE Line'
  <2>1. /\ phase[m] = "waiting" /\ UNCHANGED <<key, ticket, clock>>
        /\ \A s \in Msgs : SQ!Ahead(s, m) => phase[s] = "done"
        /\ \A r \in Msgs : phase'[r] = IF r = m THEN "serving" ELSE phase[r]
    BY <1>2 DEF SQ!Serve, SQ!TypeOK
  <2> QED BY <2>1 DEF Line, SQ!Ahead
<1>3. ASSUME SQ!Complete(m) PROVE Line'
  <2>1. /\ phase[m] = "serving" /\ UNCHANGED <<key, ticket, clock>>
        /\ \A r \in Msgs : phase'[r] = IF r = m THEN "done" ELSE phase[r]
    BY <1>3 DEF SQ!Complete, SQ!TypeOK
  <2> QED BY <2>1 DEF Line, SQ!Ahead
<1> QED BY <1>1, <1>2, <1>3

(* A message in the queue is keyed by the id of the object it is for, and   *)
(* while its turn runs its prompt is what the file of that id ends with.    *)
Keyed ==
    \A m \in Msgs : phase[m] \in {"waiting", "serving"} =>
        target[m] \in Objs /\ key[m] = obj[target[m]].id /\ key[m] \in Objs

PromptIsLast ==
    \A m \in Msgs : step[m] \in Turn =>
        /\ phase[m] = "serving"
        /\ Len(hist[key[m]]) > 0
        /\ hist[key[m]][Len(hist[key[m]])] = [role |-> "user", msg |-> m]

FollowInv == Line /\ Keyed /\ PromptIsLast /\ ReplyFollowsPrompt

LEMMA FollowInit == Init => FollowInv
  BY DEF Init, FollowInv, Line, Keyed, PromptIsLast, ReplyFollowsPrompt, SQ!Init, Turn

(* A step that writes no history and begins no turn: no object that is a    *)
(* target changes its id.                                                   *)
LEMMA FollowFrame ==
    ASSUME IInv, FollowInv, Line', hist' = hist,
           \A m \in Msgs : step'[m] \in Turn =>
               step[m] \in Turn /\ phase'[m] = phase[m] /\ key'[m] = key[m],
           \A m \in Msgs : phase'[m] \in {"waiting", "serving"} =>
               \/ /\ phase[m] \in {"waiting", "serving"}
                  /\ target'[m] = target[m] /\ key'[m] = key[m]
                  /\ obj'[target[m]].id = obj[target[m]].id
               \/ target'[m] \in Objs /\ key'[m] = obj'[target'[m]].id /\ key'[m] \in Objs
    PROVE  FollowInv'
<1>1. Keyed'
  BY DEF FollowInv, Keyed
<1>2. PromptIsLast'
  BY DEF FollowInv, PromptIsLast
<1>3. ReplyFollowsPrompt'
  BY DEF FollowInv, ReplyFollowsPrompt
<1> QED BY <1>1, <1>2, <1>3 DEF FollowInv

(* What is appended to a file, and that nobody else's turn is in it. *)
LEMMA FollowAppend ==
    ASSUME IInv, FollowInv, NEW m \in Msgs, NEW role \in {"user", "assistant"}, Append1(m, role),
           phase[m] \in {"waiting", "serving"}, Line', SQ!TypeOK', phase'[m] = "serving",
           UNCHANGED <<key, target>>,
           \A n \in Msgs : n # m => step'[n] = step[n] /\ phase'[n] = phase[n],
           step'[m] \in Turn => role = "user",
           role = "assistant" => step[m] \in Turn,
           \A o \in Objs : obj'[o].id = obj[o].id
    PROVE  FollowInv'
<1> DEFINE Entry == [role : {"user", "assistant"}, msg : Msgs]
           e == [role |-> role, msg |-> m]
<1>1. PICK i \in Objs : i = key[m] /\ i = obj[target[m]].id
  BY DEF FollowInv, Keyed
<1>2. hist \in [Objs -> Seq(Entry)]
  BY Facts DEF TypeOK
<1>3. e \in Entry
  OBVIOUS
<1>4. hist' = [hist EXCEPT ![i] = Append(hist[i], e)]
  BY <1>1 DEF Append1
<1>5. PICK len \in Nat : len = Len(hist[i])
  BY <1>2
<1> HIDE DEF Entry
<1>6. /\ \A j \in Objs : j # i => hist'[j] = hist[j]
      /\ hist'[i] = Append(hist[i], e) /\ hist[i] \in Seq(Entry)
  BY <1>2, <1>4
<1>7. /\ Len(hist'[i]) = len + 1 /\ hist'[i][len + 1] = e
      /\ \A n \in 1..len : hist'[i][n] = hist[i][n]
  BY <1>3, <1>5, <1>6
<1>8. Keyed'
  BY <1>1 DEF FollowInv, Keyed
<1>9. PromptIsLast'
  <2> SUFFICES ASSUME NEW n \in Msgs, step'[n] \in Turn
               PROVE  /\ phase'[n] = "serving"
                      /\ Len(hist'[key[n]]) > 0
                      /\ hist'[key[n]][Len(hist'[key[n]])] = [role |-> "user", msg |-> n]
    BY DEF PromptIsLast
  <2>1. CASE n = m
    <3>1. role = "user" /\ phase'[m] = "serving"
      BY <2>1
    <3>2. hist'[key[n]] = hist'[i]
      BY <1>1, <2>1
    <3>3. Len(hist'[i]) = len + 1 /\ hist'[i][len + 1] = [role |-> "user", msg |-> n]
      BY <1>7, <2>1, <3>1
    <3> QED BY <1>5, <2>1, <3>1, <3>2, <3>3
  <2>2. CASE n # m
    <3>1. step[n] \in Turn /\ phase'[n] = "serving" /\ phase[n] = "serving"
      BY <2>2 DEF FollowInv, PromptIsLast
    <3>2. key[n] # i
      <4>1. Line' /\ phase'[m] = "serving" /\ key' = key
        OBVIOUS
      <4>2. ticket'[n] \in Nat /\ ticket'[m] \in Nat
        BY DEF SQ!TypeOK
      <4>3. ticket'[n] # ticket'[m]
        BY <2>2, <3>1, <4>1 DEF Line
      <4>4. ticket'[n] < ticket'[m] \/ ticket'[m] < ticket'[n]
        BY <4>2, <4>3
      <4>5. ASSUME key[n] = key[m] PROVE SQ!Ahead(n, m)' \/ SQ!Ahead(m, n)'
        BY <3>1, <4>1, <4>4, <4>5 DEF SQ!Ahead
      <4> QED BY <1>1, <3>1, <4>1, <4>5 DEF Line
    <3>3. key[n] \in Objs
      BY <3>1 DEF FollowInv, Keyed
    <3>4. hist'[key[n]] = hist[key[n]]
      BY <1>6, <3>2, <3>3
    <3> QED BY <3>1, <3>4 DEF FollowInv, PromptIsLast
  <2> QED BY <2>1, <2>2
<1>10. ReplyFollowsPrompt'
  <2> SUFFICES ASSUME NEW j \in Objs, NEW n \in 1..Len(hist'[j]), hist'[j][n].role = "assistant"
               PROVE  n > 1 /\ hist'[j][n - 1] = [role |-> "user", msg |-> hist'[j][n].msg]
    BY DEF ReplyFollowsPrompt
  <2>1. CASE j # i
    BY <1>6, <2>1 DEF FollowInv, ReplyFollowsPrompt
  <2>2. CASE j = i /\ n # len + 1
    <3>1. n \in 1..len /\ hist[i][n].role = "assistant"
      BY <1>5, <1>7, <2>2
    <3>2. n > 1 /\ hist[i][n - 1] = [role |-> "user", msg |-> hist[i][n].msg]
      BY <1>5, <3>1 DEF FollowInv, ReplyFollowsPrompt
    <3>3. n - 1 \in 1..len
      BY <1>5, <3>1, <3>2
    <3> QED BY <1>7, <2>2, <3>1, <3>2, <3>3
  <2>3. CASE j = i /\ n = len + 1
    <3>1. role = "assistant"
      BY <1>7, <2>3
    <3>2. len > 0 /\ hist[i][len] = [role |-> "user", msg |-> m]
      BY <1>1, <1>5, <3>1 DEF FollowInv, PromptIsLast
    <3>3. n > 1 /\ n - 1 = len /\ len \in 1..len
      BY <1>5, <2>3, <3>2
    <3> QED BY <1>7, <2>3, <3>2, <3>3
  <2> QED BY <2>1, <2>2, <2>3
<1> QED BY <1>8, <1>9, <1>10 DEF FollowInv

(* handleMessage queues a message for an object under that object's id. *)
LEMMA FollowAccept ==
    ASSUME IInv, FollowInv, NEW m \in Msgs, step[m] = "idle", hist' = hist,
           NEW o \in Objs, NEW id \in Objs, Accept(m, o, id), obj'[o].id = id,
           \A x \in Objs : x <= next => obj'[x].id = obj[x].id
    PROVE  FollowInv'
<1>1. TypeOK /\ SQ!TypeOK
  BY Facts DEF TypeOK
<1>2. SQ!Submit(m, id) /\ step' = [step EXCEPT ![m] = "queued"] /\ target' = [target EXCEPT ![m] = o]
  BY DEF Accept, QueueKey
<1>3. Line'
  BY <1>1, <1>2, LineSteps DEF FollowInv
<1>4. /\ \A n \in Msgs : step'[n] = IF n = m THEN "queued" ELSE step[n]
      /\ \A n \in Msgs : target'[n] = IF n = m THEN o ELSE target[n]
      /\ \A n \in Msgs : phase'[n] = IF n = m THEN "waiting" ELSE phase[n]
      /\ \A n \in Msgs : key'[n] = IF n = m THEN id ELSE key[n]
  BY <1>1, <1>2 DEF TypeOK, SQ!TypeOK, SQ!Submit
<1>5. ASSUME NEW n \in Msgs, step'[n] \in Turn
      PROVE  step[n] \in Turn /\ phase'[n] = phase[n] /\ key'[n] = key[n]
  BY <1>4, <1>5 DEF Turn
<1>6. ASSUME NEW n \in Msgs, phase'[n] \in {"waiting", "serving"}
      PROVE  \/ /\ phase[n] \in {"waiting", "serving"}
                /\ target'[n] = target[n] /\ key'[n] = key[n]
                /\ obj'[target[n]].id = obj[target[n]].id
             \/ target'[n] \in Objs /\ key'[n] = obj'[target'[n]].id /\ key'[n] \in Objs
  <2>1. CASE n = m
    BY <1>4, <2>1
  <2>2. CASE n # m
    <3>1. phase[n] \in {"waiting", "serving"}
      BY <1>4, <1>6, <2>2
    <3>2. target[n] \in Objs /\ target[n] <= next
      BY <3>1, Facts DEF FollowInv, Keyed
    <3> QED BY <1>4, <2>2, <3>1, <3>2
  <2> QED BY <2>1, <2>2
<1> QED BY <1>3, <1>5, <1>6, FollowFrame

LEMMA FollowHandle ==
    ASSUME IInv, FollowInv, NEW m \in Msgs, NEW c \in Channels, HandleMessage(m, c)
    PROVE  FollowInv'
<1>1. hist' = hist /\ step[m] = "idle" /\ TypeOK
  BY Facts DEF HandleMessage
<1>2. CASE HandleWithCurrent(m, c)
  <2>1. obj' = obj /\ sessions[c] # None /\ Accept(m, sessions[c], obj[sessions[c]].id)
    BY <1>2 DEF HandleWithCurrent, store
  <2>2. sessions[c] \in Objs /\ obj[sessions[c]].id \in Objs
    BY <2>1, Facts
  <2> QED BY <1>1, <2>1, <2>2, FollowAccept
<1>3. CASE HandleWithNew(m, c)
  <2>1. next + 1 \in Objs /\ obj' = [obj EXCEPT ![next + 1] = Fresh(next + 1)] /\ Accept(m, next + 1, next + 1)
    BY <1>3 DEF HandleWithNew
  <2>2. obj'[next + 1].id = next + 1 /\ \A x \in Objs : x <= next => obj'[x].id = obj[x].id
    BY <1>1, <2>1, Facts DEF TypeOK, Fresh
  <2> QED BY <1>1, <2>1, <2>2, FollowAccept
<1>4. CASE HandleWithRotated(m, c)
  <2>1. /\ next + 1 \in Objs /\ Accept(m, next + 1, next + 1)
        /\ obj' = [Destroyed({sessions[c]}) EXCEPT ![next + 1] = Fresh(next + 1)]
    BY <1>4 DEF HandleWithRotated
  <2>2. /\ Destroyed({sessions[c]}) \in [Objs -> Session]
        /\ \A x \in Objs : Destroyed({sessions[c]})[x].id = obj[x].id
    BY <1>1, HelperTypes
  <2>3. Fresh(next + 1).id = next + 1 /\ \A x \in Objs : x <= next => x # next + 1
    BY Facts, ObjsNat DEF Fresh
  <2>4. \A x \in Objs : obj'[x] = IF x = next + 1 THEN Fresh(next + 1) ELSE Destroyed({sessions[c]})[x]
    BY <2>1, <2>2
  <2>5. obj'[next + 1].id = next + 1 /\ \A x \in Objs : x <= next => obj'[x].id = obj[x].id
    BY <2>1, <2>2, <2>3, <2>4
  <2> QED BY <1>1, <2>1, <2>5, FollowAccept
<1>5. CASE HandoffFails(m, c)
  <2>1. step' = [step EXCEPT ![m] = "rejected"] /\ UNCHANGED <<obj, target>> /\ UNCHANGED queue
    BY <1>5 DEF HandoffFails
  <2>2. \A n \in Msgs : step'[n] \in Turn => step[n] \in Turn
    BY <1>1, <2>1 DEF TypeOK, Turn
  <2>3. Line'
    BY <2>1 DEF FollowInv, Line, queue, SQ!Ahead
  <2> QED BY <1>1, <2>1, <2>2, <2>3, FollowFrame DEF queue
<1> QED BY <1>2, <1>3, <1>4, <1>5 DEF HandleMessage

(* The steps of a turn. *)
LEMMA FollowTurn ==
    ASSUME IInv, FollowInv, NEW m \in Msgs, TurnStep(m)
    PROVE  FollowInv'
<1>1. TypeOK /\ SQ!TypeOK /\ SQ!TypeOK'
  BY Facts, TurnStepKeeps DEF TypeOK, IInv
<1>2. ASSUME NEW st \in Statuses, obj' = [obj EXCEPT ![target[m]].status = st]
      PROVE  \A o \in Objs : obj'[o].id = obj[o].id
  BY <1>1, <1>2 DEF TypeOK, Session
<1>3. \A st : step' = [step EXCEPT ![m] = st] => \A n \in Msgs : step'[n] = IF n = m THEN st ELSE step[n]
  BY <1>1 DEF TypeOK
<1>4. UNCHANGED queue => Line'
  BY DEF FollowInv, Line, queue, SQ!Ahead
<1>5. CASE Begin(m)
  <2> DEFINE st == IF obj[target[m]].live THEN "running" ELSE StatusAfterThrow
             stp == IF obj[target[m]].live THEN "attempting" ELSE "failing"
  <2>1. /\ SQ!Serve(m) /\ Append1(m, "user") /\ step' = [step EXCEPT ![m] = stp]
        /\ obj' = [obj EXCEPT ![target[m]].status = st] /\ target' = target
    BY <1>5 DEF Begin
  <2>2. st \in Statuses
    BY DEF StatusAfterThrow, Statuses
  <2> HIDE DEF st, stp
  <2>3. /\ phase[m] = "waiting" /\ phase'[m] = "serving" /\ key' = key
        /\ \A n \in Msgs : n # m => phase'[n] = phase[n]
    BY <1>1, <2>1 DEF SQ!Serve, SQ!TypeOK
  <2>4. Line'
    BY <1>1, <2>1, LineSteps DEF FollowInv
  <2>5. /\ \A n \in Msgs : n # m => step'[n] = step[n] /\ phase'[n] = phase[n]
        /\ \A o \in Objs : obj'[o].id = obj[o].id
    BY <1>2, <1>3, <2>1, <2>2, <2>3
  <2> QED BY <1>1, <2>1, <2>3, <2>4, <2>5, FollowAppend
<1>6. CASE RetryAttempt(m)
  <2>1. /\ step[m] = "backoff" /\ step' = [step EXCEPT ![m] = "attempting"]
        /\ UNCHANGED <<hist, target, obj>> /\ UNCHANGED queue
    BY <1>6 DEF RetryAttempt, store
  <2>2. \A n \in Msgs : step'[n] \in Turn => step[n] \in Turn
    BY <1>3, <2>1 DEF Turn
  <2> QED BY <1>4, <2>1, <2>2, FollowFrame DEF queue
<1>7. CASE AttemptReturns(m)
  <2>1. /\ step[m] = "attempting" /\ step' = [step EXCEPT ![m] = "completing"] /\ Append1(m, "assistant")
        /\ obj' = [obj EXCEPT ![target[m]].status = "idle"] /\ target' = target /\ UNCHANGED queue
    BY <1>7 DEF AttemptReturns
  <2>2. phase[m] = "serving" /\ phase' = phase /\ key' = key /\ step[m] \in Turn
    BY <2>1 DEF FollowInv, PromptIsLast, Turn, queue
  <2>3. /\ \A n \in Msgs : n # m => step'[n] = step[n] /\ phase'[n] = phase[n]
        /\ \A o \in Objs : obj'[o].id = obj[o].id
        /\ step'[m] \notin Turn
    BY <1>2, <1>3, <2>1, <2>2 DEF Statuses, Turn
  <2> QED BY <1>1, <1>4, <2>1, <2>2, <2>3, FollowAppend
<1>8. CASE AttemptRetried(m)
  <2>1. /\ step[m] = "attempting" /\ step' = [step EXCEPT ![m] = "backoff"]
        /\ UNCHANGED <<hist, target, obj>> /\ UNCHANGED queue
    BY <1>8 DEF AttemptRetried, store
  <2>2. \A n \in Msgs : step'[n] \in Turn => step[n] \in Turn
    BY <1>3, <2>1 DEF Turn
  <2> QED BY <1>4, <2>1, <2>2, FollowFrame DEF queue
<1>9. CASE AttemptFails(m)
  <2>1. /\ step' = [step EXCEPT ![m] = "failing"] /\ obj' = [obj EXCEPT ![target[m]].status = "error"]
        /\ UNCHANGED <<hist, target>> /\ UNCHANGED queue
    BY <1>9 DEF AttemptFails, StatusAfterThrow
  <2>2. \A n \in Msgs : step'[n] \in Turn => step[n] \in Turn
    BY <1>3, <2>1 DEF Turn
  <2>3. \A o \in Objs : obj'[o].id = obj[o].id
    BY <1>2, <2>1 DEF Statuses
  <2>4. \A n \in Msgs : phase[n] \in {"waiting", "serving"} => obj'[target[n]].id = obj[target[n]].id
    BY <2>3 DEF FollowInv, Keyed
  <2> QED BY <1>4, <2>1, <2>2, <2>4, FollowFrame DEF queue
<1>10. CASE Answer(m)
  <2>1. /\ SQ!Complete(m) /\ step' = [step EXCEPT ![m] = "answered"]
        /\ UNCHANGED <<hist, target, obj>>
    BY <1>10 DEF Answer
  <2>2. Line'
    BY <1>1, <2>1, LineSteps DEF FollowInv
  <2>3. \A n \in Msgs : /\ key'[n] = key[n] /\ phase'[n] = IF n = m THEN "done" ELSE phase[n]
                        /\ step'[n] = IF n = m THEN "answered" ELSE step[n]
    BY <1>1, <1>3, <2>1 DEF SQ!Complete, SQ!TypeOK
  <2>4. \A n \in Msgs : step'[n] \in Turn => n # m /\ step[n] \in Turn
    BY <2>3 DEF Turn
  <2> QED BY <2>1, <2>2, <2>3, <2>4, FollowFrame
<1> QED BY <1>5, <1>6, <1>7, <1>8, <1>9, <1>10 DEF TurnStep, AttemptSettles

(* The other operations of the manager leave turns, queue and files alone,  *)
(* and no object that was made changes its id.                              *)
LEMMA FollowRest ==
    ASSUME IInv, FollowInv, UNCHANGED <<hist, step, target>>, UNCHANGED queue,
           \A x \in Objs : x <= next => obj'[x].id = obj[x].id
    PROVE  FollowInv'
<1>1. Line'
  BY DEF FollowInv, Line, queue, SQ!Ahead
<1>2. \A n \in Msgs : phase[n] \in {"waiting", "serving"} => obj'[target[n]].id = obj[target[n]].id
  BY Facts DEF FollowInv, Keyed
<1> QED BY <1>1, <1>2, FollowFrame DEF queue

LEMMA FollowStep == IInv /\ FollowInv /\ [Next]_vars => FollowInv'
<1> SUFFICES ASSUME IInv, FollowInv, [Next]_vars PROVE FollowInv'
  OBVIOUS
<1>0. /\ TypeOK /\ next \in Nat
      /\ \A os : \A o \in Objs : Destroyed(os)[o].id = obj[o].id
      /\ \A os : Destroyed(os) \in [Objs -> Session]
  BY Facts, HelperTypes
<1>1. ASSUME NEW m \in Msgs, NEW c \in Channels, HandleMessage(m, c) PROVE FollowInv'
  BY <1>1, FollowHandle
<1>2. ASSUME NEW m \in Msgs, TurnStep(m) PROVE FollowInv'
  BY <1>2, FollowTurn
<1>3. ASSUME NEW c \in Channels, interruptSession(c) PROVE FollowInv'
  <2>1. /\ obj' = [obj EXCEPT ![sessions[c]].status = "idle"]
        /\ UNCHANGED <<hist, step, target>> /\ UNCHANGED queue
    BY <1>3 DEF interruptSession
  <2>2. \A x \in Objs : obj'[x].id = obj[x].id
    BY <1>0, <2>1 DEF TypeOK, Session
  <2> QED BY <2>1, <2>2, FollowRest
<1>4. ASSUME NEW c \in Channels, destroySession(c) PROVE FollowInv'
  BY <1>0, <1>4, FollowRest DEF destroySession
<1>5. ASSUME NEW c \in Channels, NEW i \in Objs, adoptSession(c, i) PROVE FollowInv'
  <2>1. PICK os : obj' = [Destroyed(os) EXCEPT ![next + 1] = Fresh(i)]
    BY <1>5 DEF adoptSession
  <2>2. \A x \in Objs : x <= next => x # next + 1
    BY <1>0, ObjsNat
  <2>3. \A x \in Objs : x <= next => obj'[x] = Destroyed(os)[x]
    BY <1>0, <2>1, <2>2
  <2>4. UNCHANGED <<hist, step, target>> /\ UNCHANGED queue
    BY <1>5 DEF adoptSession
  <2> QED BY <1>0, <2>3, <2>4, FollowRest
<1>6. CASE cleanupIdleSessions
  BY <1>0, <1>6, FollowRest DEF cleanupIdleSessions
<1>7. CASE Stop
  BY <1>0, <1>7, FollowRest DEF Stop
<1>8. CASE Exit
  <2>1. /\ step' = [m \in Msgs |-> IF step[m] \in InFlight THEN "lost" ELSE step[m]]
        /\ phase' = [m \in Msgs |-> IF phase[m] = "idle" THEN "idle" ELSE "done"]
        /\ UNCHANGED <<obj, hist, target, key, ticket, clock>>
    BY <1>8 DEF Exit
  <2>2. Line'
    BY <2>1 DEF FollowInv, Line, SQ!Ahead
  <2>3. \A n \in Msgs : step'[n] \notin Turn /\ phase'[n] \notin {"waiting", "serving"}
    BY <2>1 DEF Turn, InFlight
  <2> QED BY <2>1, <2>2, <2>3, FollowFrame
<1>9. CASE Restart
  <2>1. /\ UNCHANGED <<hist, step, target>> /\ UNCHANGED queue
    BY <1>9 DEF Restart
  <2>2. PICK place \in [Restored -> (next + 1)..(next + Cardinality(Restored))] :
            obj' = [o \in Objs |-> IF \E c \in Restored : place[c] = o
                                   THEN Fresh(diskMap[CHOOSE c \in Restored : place[c] = o])
                                   ELSE obj[o]]
    BY <1>9 DEF Restart
  <2>3. \A c \in Restored : ~(place[c] <= next)
    BY <1>0, <2>2
  <2>4. \A x \in Objs : x <= next => obj'[x] = obj[x]
    BY <2>2, <2>3
  <2> QED BY <2>1, <2>4, FollowRest
<1>10. CASE UNCHANGED vars
  BY <1>10, FollowRest DEF vars, store
<1> QED BY <1>1, <1>2, <1>3, <1>4, <1>5, <1>6, <1>7, <1>8, <1>9, <1>10 DEF Next

(* One turn at a time is in an object. *)
LEMMA OneTurn ==
    ASSUME IInv, FollowInv, NEW m \in Msgs, NEW n \in Msgs,
           step[m] \in Turn, step[n] \in Turn, target[m] = target[n]
    PROVE  m = n
<1>1. phase[m] = "serving" /\ phase[n] = "serving"
  BY DEF FollowInv, PromptIsLast
<1>4. key[m] = obj[target[m]].id /\ key[n] = obj[target[n]].id
  BY <1>1 DEF FollowInv, Keyed
<1>2. SQ!TypeOK
  BY Facts DEF TypeOK
<1>3. ticket[m] < ticket[n] \/ ticket[n] < ticket[m] \/ ticket[m] = ticket[n]
  BY <1>2 DEF SQ!TypeOK
<1> QED BY <1>1, <1>3, <1>4 DEF FollowInv, Line, SQ!Ahead

(* A turn in an object that calls itself idle has been interrupted. *)
IdleWasInterrupted ==
    \A m \in Msgs : step[m] \in Turn /\ obj[target[m]].status = "idle" => abort[m] # "no"

(* A step that begins no turn, takes no interrupt back and leaves the       *)
(* objects of the turns as they are, or not idle.                           *)
LEMMA IdleFrame ==
    ASSUME IdleWasInterrupted,
           \A n \in Msgs : step'[n] \in Turn =>
               /\ step[n] \in Turn /\ target'[n] = target[n]
               /\ abort'[n] = "no" => abort[n] = "no"
               /\ obj'[target[n]].status = "idle" => obj[target[n]].status = "idle"
    PROVE  IdleWasInterrupted'
  BY DEF IdleWasInterrupted

LEMMA IdleTurn ==
    ASSUME IInv, FollowInv, IdleWasInterrupted, NEW m \in Msgs, TurnStep(m)
    PROVE  IdleWasInterrupted'
<1>1. /\ TypeOK /\ \A n \in Msgs : step[n] \in Turn => target[n] \in Objs
      /\ phase[m] = "waiting" => target[m] \in Objs
  BY Facts DEF FollowInv, Keyed, PromptIsLast
<1>2. \A st : step' = [step EXCEPT ![m] = st] => \A n \in Msgs : step'[n] = IF n = m THEN st ELSE step[n]
  BY <1>1 DEF TypeOK
<1>3. \A st : obj' = [obj EXCEPT ![target[m]].status = st] =>
          \A o \in Objs : obj'[o].status = IF o = target[m] THEN st ELSE obj[o].status
  BY <1>1 DEF TypeOK, Session
<1>4. CASE Begin(m)
  <2> DEFINE st == IF obj[target[m]].live THEN "running" ELSE StatusAfterThrow
             stp == IF obj[target[m]].live THEN "attempting" ELSE "failing"
  <2>1. /\ phase[m] = "waiting" /\ step' = [step EXCEPT ![m] = stp]
        /\ obj' = [obj EXCEPT ![target[m]].status = st] /\ UNCHANGED <<target, abort>>
    BY <1>4 DEF Begin, SQ!Serve
  <2>2. st # "idle"
    BY DEF StatusAfterThrow
  <2> HIDE DEF st, stp
  <2>3. \A n \in Msgs : n # m => step'[n] = step[n]
    BY <1>2, <2>1
  <2>4. \A o \in Objs : obj'[o].status = IF o = target[m] THEN st ELSE obj[o].status
    BY <1>1, <2>1 DEF TypeOK, Session
  <2>5. \A o \in Objs : obj'[o].status = "idle" => o # target[m] /\ obj[o].status = "idle"
    BY <2>2, <2>4
  <2> QED BY <1>1, <2>1, <2>3, <2>5 DEF IdleWasInterrupted
<1>5. CASE RetryAttempt(m)
  <2>1. /\ step[m] = "backoff" /\ step' = [step EXCEPT ![m] = "attempting"]
        /\ abort' = [abort EXCEPT ![m] = IF @ = "now" THEN "before" ELSE @]
        /\ UNCHANGED <<obj, target>>
    BY <1>5 DEF RetryAttempt, store
  <2>2. \A n \in Msgs : step'[n] \in Turn => step[n] \in Turn
    BY <1>2, <2>1 DEF Turn
  <2>3. \A n \in Msgs : abort'[n] = "no" => abort[n] = "no"
    BY <1>1, <2>1 DEF TypeOK
  <2> QED BY <2>1, <2>2, <2>3, IdleFrame
<1>6. CASE AttemptReturns(m)
  <2>1. /\ step[m] = "attempting" /\ step' = [step EXCEPT ![m] = "completing"]
        /\ obj' = [obj EXCEPT ![target[m]].status = "idle"] /\ UNCHANGED <<target, abort>>
    BY <1>6 DEF AttemptReturns
  <2>2. ASSUME NEW n \in Msgs, step'[n] \in Turn
        PROVE  step[n] \in Turn /\ obj'[target[n]].status = obj[target[n]].status
    <3>3. step'[n] = IF n = m THEN "completing" ELSE step[n]
      BY <1>2, <2>1
    <3>1. n # m /\ step[n] \in Turn /\ step[m] \in Turn
      BY <2>1, <2>2, <3>3 DEF Turn
    <3>2. target[n] # target[m]
      BY <3>1, OneTurn
    <3> QED BY <1>1, <1>3, <2>1, <3>1, <3>2
  <2> QED BY <2>1, <2>2, IdleFrame
<1>7. CASE AttemptRetried(m)
  <2>1. /\ step[m] = "attempting" /\ step' = [step EXCEPT ![m] = "backoff"]
        /\ UNCHANGED <<obj, target, abort>>
    BY <1>7 DEF AttemptRetried, store
  <2>2. \A n \in Msgs : step'[n] \in Turn => step[n] \in Turn
    BY <1>2, <2>1 DEF Turn
  <2> QED BY <2>1, <2>2, IdleFrame
<1>8. CASE AttemptFails(m)
  <2>1. /\ step' = [step EXCEPT ![m] = "failing"] /\ obj' = [obj EXCEPT ![target[m]].status = "error"]
        /\ UNCHANGED <<target, abort>>
    BY <1>8 DEF AttemptFails, StatusAfterThrow
  <2>2. \A n \in Msgs : step'[n] \in Turn => step[n] \in Turn
    BY <1>2, <2>1 DEF Turn
  <2>3. \A o \in Objs : obj'[o].status = "idle" => obj[o].status = "idle"
    BY <1>3, <2>1
  <2> QED BY <1>1, <2>1, <2>2, <2>3, IdleFrame
<1>9. CASE Answer(m)
  <2>1. /\ step' = [step EXCEPT ![m] = "answered"] /\ abort' = [abort EXCEPT ![m] = "no"]
        /\ UNCHANGED <<obj, target>>
    BY <1>9 DEF Answer
  <2>2. ASSUME NEW n \in Msgs, step'[n] \in Turn PROVE n # m /\ step[n] \in Turn
    <3>1. step'[n] = IF n = m THEN "answered" ELSE step[n]
      BY <1>2, <2>1
    <3> QED BY <2>2, <3>1 DEF Turn
  <2>3. \A n \in Msgs : n # m => abort'[n] = abort[n]
    BY <1>1, <2>1 DEF TypeOK
  <2> QED BY <2>1, <2>2, <2>3, IdleFrame
<1> QED BY <1>4, <1>5, <1>6, <1>7, <1>8, <1>9 DEF TurnStep, AttemptSettles

(* What the manager does to an object whose turn is under way: it stays as  *)
(* it is or is destroyed, and an interrupt is never taken back.             *)
LEMMA IdleRest ==
    ASSUME IInv, FollowInv, IdleWasInterrupted,
           \A n \in Msgs : step'[n] \in Turn => step[n] \in Turn /\ target'[n] = target[n],
           abort' = abort \/ \E os : abort' = Aborted(os),
           \A x \in Objs : x <= next => obj'[x] = obj[x] \/ \E os : obj'[x] = Destroyed(os)[x]
    PROVE  IdleWasInterrupted'
<1>1. \A n \in Msgs : abort'[n] = "no" => abort[n] = "no"
  BY DEF Aborted
<1>2. \A n \in Msgs : step[n] \in Turn => target[n] \in Objs /\ target[n] <= next
  BY Facts DEF FollowInv, Keyed, PromptIsLast
<1>3. obj \in [Objs -> Session]
  BY Facts DEF TypeOK
<1>4. \A os : \A x \in Objs : Destroyed(os)[x].status = "idle" => obj[x].status = "idle"
  BY <1>3 DEF Destroyed, Session
<1>5. \A x \in Objs : x <= next /\ obj'[x].status = "idle" => obj[x].status = "idle"
  BY <1>4
<1> QED BY <1>1, <1>2, <1>5, IdleFrame

LEMMA IdleStep == IInv /\ FollowInv /\ IdleWasInterrupted /\ [Next]_vars => IdleWasInterrupted'
<1> SUFFICES ASSUME IInv, FollowInv, IdleWasInterrupted, [Next]_vars PROVE IdleWasInterrupted'
  OBVIOUS
<1>0. /\ TypeOK /\ next \in Nat
      /\ \A os : Destroyed(os) \in [Objs -> Session]
      /\ \A x \in Objs : x <= next => x # next + 1
  BY Facts, HelperTypes, ObjsNat
<1>1. ASSUME NEW m \in Msgs, NEW c \in Channels, HandleMessage(m, c) PROVE IdleWasInterrupted'
  <2>1. step[m] = "idle" /\ (Accept(m, sessions[c], obj[sessions[c]].id)
                             \/ Accept(m, next + 1, next + 1)
                             \/ (step' = [step EXCEPT ![m] = "rejected"] /\ target' = target))
    BY <1>1 DEF HandleMessage, HandleWithCurrent, HandleWithNew, HandleWithRotated, HandoffFails
  <2>2. \A n \in Msgs : step'[n] \in Turn => n # m /\ step[n] \in Turn
    BY <1>0, <2>1 DEF Accept, TypeOK, Turn
  <2>3. \A n \in Msgs : n # m => target'[n] = target[n]
    BY <1>0, <2>1 DEF Accept, TypeOK
  <2>4. \A n \in Msgs : step'[n] \in Turn => step[n] \in Turn /\ target'[n] = target[n]
    BY <2>2, <2>3
  <2>5. CASE HandleWithCurrent(m, c)
    BY <2>4, <2>5, IdleRest DEF HandleWithCurrent, store
  <2>6. CASE HandleWithNew(m, c)
    <3>1. abort' = abort /\ obj' = [obj EXCEPT ![next + 1] = Fresh(next + 1)]
      BY <2>6 DEF HandleWithNew
    <3>2. \A x \in Objs : x <= next => obj'[x] = obj[x]
      BY <1>0, <3>1
    <3> QED BY <2>4, <3>1, <3>2, IdleRest
  <2>7. CASE HandleWithRotated(m, c)
    <3>1. /\ abort' = Aborted({sessions[c]})
          /\ obj' = [Destroyed({sessions[c]}) EXCEPT ![next + 1] = Fresh(next + 1)]
      BY <2>7 DEF HandleWithRotated
    <3>2. \A x \in Objs : x <= next => obj'[x] = Destroyed({sessions[c]})[x]
      BY <1>0, <3>1
    <3> QED BY <2>4, <3>1, <3>2, IdleRest
  <2>8. CASE HandoffFails(m, c)
    BY <2>4, <2>8, IdleRest DEF HandoffFails
  <2> QED BY <1>1, <2>5, <2>6, <2>7, <2>8 DEF HandleMessage
<1>2. ASSUME NEW m \in Msgs, TurnStep(m) PROVE IdleWasInterrupted'
  BY <1>2, IdleTurn
<1>3. ASSUME NEW c \in Channels, interruptSession(c) PROVE IdleWasInterrupted'
  <2>1. /\ Attempting(sessions[c]) /\ abort' = Aborted({sessions[c]})
        /\ obj' = [obj EXCEPT ![sessions[c]].status = "idle"] /\ UNCHANGED <<step, target>>
    BY <1>3 DEF interruptSession
  <2>2. PICK m \in Msgs : target[m] = sessions[c] /\ step[m] = "attempting"
    BY <2>1 DEF Attempting
  <2>3. ASSUME NEW n \in Msgs, step[n] \in Turn, obj'[target[n]].status = "idle"
        PROVE  abort'[n] # "no"
    <3>1. CASE target[n] = sessions[c]
      <4>1. n = m
        BY <2>2, <2>3, <3>1, OneTurn DEF Turn
      <4> QED BY <2>1, <2>2, <4>1 DEF Aborted
    <3>2. CASE target[n] # sessions[c]
      <4>1. obj[target[n]].status = "idle"
        BY <2>1, <2>3, <3>2
      <4>2. abort[n] # "no" /\ abort'[n] = abort[n]
        BY <2>1, <2>3, <3>2, <4>1 DEF IdleWasInterrupted, Aborted
      <4> QED BY <4>2
    <3> QED BY <3>1, <3>2
  <2> QED BY <2>1, <2>3 DEF IdleWasInterrupted
<1>4. ASSUME NEW c \in Channels, destroySession(c) PROVE IdleWasInterrupted'
  BY <1>4, IdleRest DEF destroySession
<1>5. ASSUME NEW c \in Channels, NEW i \in Objs, adoptSession(c, i) PROVE IdleWasInterrupted'
  <2>1. PICK os : abort' = Aborted(os) /\ obj' = [Destroyed(os) EXCEPT ![next + 1] = Fresh(i)]
    BY <1>5 DEF adoptSession
  <2>2. \A x \in Objs : x <= next => obj'[x] = Destroyed(os)[x]
    BY <1>0, <2>1
  <2>3. UNCHANGED <<step, target>>
    BY <1>5 DEF adoptSession
  <2> QED BY <2>1, <2>2, <2>3, IdleRest
<1>6. CASE cleanupIdleSessions
  <2>1. PICK os : abort' = Aborted(os) /\ obj' = Destroyed(os)
    BY <1>6 DEF cleanupIdleSessions
  <2> QED BY <1>6, <2>1, IdleRest DEF cleanupIdleSessions
<1>7. CASE Stop
  BY <1>7, IdleRest DEF Stop
<1>8. CASE Exit
  <2>1. \A n \in Msgs : step'[n] \notin Turn
    BY <1>8 DEF Exit, Turn, InFlight
  <2> QED BY <2>1 DEF IdleWasInterrupted
<1>9. CASE Restart
  <2>1. UNCHANGED <<step, target, abort>>
    BY <1>9 DEF Restart
  <2>2. PICK place \in [Restored -> (next + 1)..(next + Cardinality(Restored))] :
            obj' = [o \in Objs |-> IF \E c \in Restored : place[c] = o
                                   THEN Fresh(diskMap[CHOOSE c \in Restored : place[c] = o])
                                   ELSE obj[o]]
    BY <1>9 DEF Restart
  <2>3. \A c \in Restored : ~(place[c] <= next)
    BY <1>0, <2>2
  <2>4. \A x \in Objs : x <= next => obj'[x] = obj[x]
    BY <2>2, <2>3
  <2> QED BY <2>1, <2>4, IdleRest
<1>10. CASE UNCHANGED vars
  BY <1>10 DEF vars, store, IdleWasInterrupted
<1> QED BY <1>1, <1>2, <1>3, <1>4, <1>5, <1>6, <1>7, <1>8, <1>9, <1>10 DEF Next

(* The variables keep their types in every state of the manager: objects,    *)
(* bindings, files, the queue and the progress of every message.             *)
THEOREM TypeCorrect == Spec => []TypeOK
<1>1. IInv => TypeOK
  BY DEF IInv
<1> QED BY <1>1, Invariance, PTL

(* No path of the manager leaves a frozen memory snapshot behind, for any    *)
(* number of channels, messages, objects, retries and restarts.              *)
THEOREM SnapshotsBelong == Spec => []NoSnapshotLeak
<1>1. IInv => NoSnapshotLeak
  BY DEF IInv
<1> QED BY <1>1, Invariance, PTL

(* Whatever was rotated, adopted, interrupted, evicted or lost before, the   *)
(* session that has answered is the one the session map names.               *)
THEOREM AnswersAreDurable == Spec => []AnsweredSessionIsDurable
<1>1. IInv => AnsweredSessionIsDurable
  BY DEF IInv
<1> QED BY <1>1, Invariance, PTL

(* In a session's file every answer directly follows its prompt, whichever   *)
(* objects carry the id: the queue is keyed by the id, which no object that  *)
(* was made ever changes.                                                    *)
THEOREM RepliesFollow == Spec => []ReplyFollowsPrompt
<1>1. FollowInv => ReplyFollowsPrompt
  BY DEF FollowInv
<1> QED BY <1>1, Invariance, FollowInit, FollowStep, PTL DEF Spec

(* Idle eviction never takes a session whose turn is under way and was not   *)
(* interrupted, for any channels, messages and retries.                      *)
THEOREM EvictionSpares == Spec => EvictionSparesTurns
<1> DEFINE Spares == cleanupIdleSessions =>
             \A c \in Channels, m \in Msgs :
                 (sessions[c] # None /\ sessions'[c] = None /\ target[m] = sessions[c])
                     => (step[m] \in Turn => abort[m] # "no")
<1>1. Init => IdleWasInterrupted
  BY DEF Init, IdleWasInterrupted, Turn
<1>2. IdleWasInterrupted /\ [Next]_vars => [Spares]_vars
  <2> SUFFICES ASSUME IdleWasInterrupted, cleanupIdleSessions,
                      NEW c \in Channels, NEW m \in Msgs, sessions[c] # None, sessions'[c] = None,
                      target[m] = sessions[c], step[m] \in Turn
               PROVE  abort[m] # "no"
    OBVIOUS
  <2>1. Evictable(c)
    BY DEF cleanupIdleSessions
  <2> QED BY <2>1 DEF Evictable, IdleWasInterrupted
<1>3. Spec => [][Spares]_vars
  BY <1>1, <1>2, Invariance, FollowInit, FollowStep, IdleStep, PTL DEF Spec
<1> QED BY <1>3 DEF EvictionSparesTurns
=============================================================================
