--------------------------- MODULE SessionManager ---------------------------
(***************************************************************************)
(* SessionManager and Session (src/session/manager.ts, session.ts) in one  *)
(* process, with the history store, the rotator and the session map they   *)
(* keep on disk.  A channel is bound to a Session object; messages are     *)
(* queued under the object's session id, and a queued closure keeps the    *)
(* object it was made with, whatever the channel is bound to when it runs. *)
(* Two objects may carry one session id: a session restored or adopted is  *)
(* a new object over an old history.                                       *)
(*                                                                         *)
(* One action is what the event loop runs between two awaits.  The API     *)
(* backend without failover is modelled: one ApiExecutor per object, whose *)
(* execute is withRetry over attempts.  The queue is SerialQueue, which    *)
(* KeyedAsyncQueue.tla implements.                                         *)
(***************************************************************************)
EXTENDS Naturals, Sequences, FiniteSets

CONSTANTS Channels,    \* channel ids
          Clearable,   \* channels whose user has /clear
          Resumable,   \* channels whose user has /resume (the CLI's)
          Msgs,        \* calls of handleMessage
          MaxObjs,     \* bound: Session objects ever constructed
          MaxRestarts, \* bound: starts of the program after the first
          MaxTurns,    \* rotation.maxTurns
          MaxHistory,  \* session.maxHistoryMessages
          MaxRetries,  \* withRetry's maxRetries in ApiExecutor.execute
          MemoryKept   \* formatForPrompt has something to freeze

ASSUME SessionAssumption ==
    /\ IsFiniteSet(Msgs) /\ IsFiniteSet(Channels)
    /\ Clearable \subseteq Channels /\ Resumable \subseteq Channels
    /\ MaxObjs \in Nat /\ MaxRestarts \in Nat /\ MaxRetries \in Nat
    /\ MaxTurns \in Nat \ {0} /\ MaxHistory \in Nat \ {0}
    /\ MemoryKept \in BOOLEAN

VARIABLES up,        \* up | stopping (between stop() and process.exit) | down
          restarts,  \* starts so far
          sessions,  \* Channels -> Session object, None when the map has no entry
          obj,       \* Session objects
          next,      \* objects constructed so far
          frozen,    \* keys of frozenMemorySnapshots
          hist,      \* session id -> its JSONL file
          diskMap,   \* session-map.json: Channels -> session id or None
          step,      \* Msgs -> where its handleMessage is
          target,    \* Msgs -> the object its closure holds
          tries,     \* Msgs -> retries made
          abort,     \* Msgs -> no | now (this attempt's signal) | before
          phase, key, ticket, clock   \* the queue (SerialQueue)

Objs == 1..MaxObjs
None == 0

(* A session id is named by the object it was first made for. *)
SQ == INSTANCE SerialQueue WITH Keys <- Objs, Requests <- Msgs, NoKey <- None

store == <<sessions, obj, next, frozen, diskMap>>
queue == <<phase, key, ticket, clock>>
vars == <<up, restarts, store, hist, step, target, tries, abort, queue>>

Statuses == {"idle", "running", "error", "stopped"}
Waiting  == {"queued"}
Turn     == {"attempting", "backoff"}
Ending   == {"completing", "failing"}
Settled  == {"answered", "rejected", "lost"}
InFlight == Waiting \cup Turn \cup Ending

Session == [id : Objs \cup {None}, status : Statuses, live : BOOLEAN]

TypeOK ==
    /\ up \in {"up", "stopping", "down"}
    /\ restarts \in 0..MaxRestarts
    /\ sessions \in [Channels -> Objs \cup {None}]
    /\ obj \in [Objs -> Session]
    /\ next \in 0..MaxObjs
    /\ frozen \subseteq Objs
    /\ hist \in [Objs -> Seq([role : {"user", "assistant"}, msg : Msgs])]
    /\ diskMap \in [Channels -> Objs \cup {None}]
    /\ step \in [Msgs -> {"idle"} \cup InFlight \cup Settled]
    /\ target \in [Msgs -> Objs \cup {None}]
    /\ tries \in [Msgs -> 0..MaxRetries]
    /\ abort \in [Msgs -> {"no", "now", "before"}]
    /\ \A c \in Channels : sessions[c] # None => obj[sessions[c]].id \in Objs
    /\ SQ!TypeOK

(* new Session({id}) *)
Fresh(id) == [id |-> id, status |-> "idle", live |-> TRUE]

Unmade == [id |-> None, status |-> "stopped", live |-> FALSE]

Init ==
    /\ up = "up"
    /\ restarts = 0
    /\ sessions = [c \in Channels |-> None]
    /\ obj = [o \in Objs |-> Unmade]
    /\ next = 0
    /\ frozen = {}
    /\ hist = [i \in Objs |-> <<>>]
    /\ diskMap = [c \in Channels |-> None]
    /\ step = [m \in Msgs |-> "idle"]
    /\ target = [m \in Msgs |-> None]
    /\ tries = [m \in Msgs |-> 0]
    /\ abort = [m \in Msgs |-> "no"]
    /\ SQ!Init
-----------------------------------------------------------------------------
(* Helpers of the manager *)

(* saveSessionMap: every binding whose session is not stopped *)
SessionMap(s, o) ==
    [c \in Channels |-> IF s[c] # None /\ o[s[c]].status # "stopped"
                        THEN o[s[c]].id ELSE None]

(* session.interrupt() on the objects os: an attempt that runs gets its     *)
(* signal, and only then does the status change                            *)
Attempting(o) == \E m \in Msgs : target[m] = o /\ step[m] = "attempting"

Aborted(os) ==
    [m \in Msgs |-> IF target[m] \in os /\ step[m] = "attempting" THEN "now" ELSE abort[m]]

(* session.destroy(): interrupt, then stopped and without its executor *)
Destroyed(os) ==
    [o \in Objs |-> IF o \in os THEN [obj[o] EXCEPT !.status = "stopped", !.live = FALSE]
                                ELSE obj[o]]

(* Mutant: frozenMemorySnapshots.delete left out. *)
Thawed_Kept(ids) == frozen

(* frozenMemorySnapshots after delete(id) for the ids given *)
Thawed(ids) == frozen \ ids

(* what freezing a snapshot for id adds *)
Snapshot(id) == IF MemoryKept THEN {id} ELSE {}

(* Promise reactions run before the next event does: nothing else happens   *)
(* while the queue has a closure ready to be called.                         *)
Drained ==
    \A m \in Msgs : step[m] = "queued" =>
        \E s \in Msgs : SQ!Ahead(s, m) /\ phase[s] # "done"

Running == up \in {"up", "stopping"} /\ Drained

Bound == {sessions[c] : c \in Channels} \ {None}

(* shouldRotate by the number of messages, as many as load(limit) returns *)
TurnsUsedUp(o) ==
    LET len == Len(hist[obj[o].id])
    IN  (IF len > MaxHistory THEN MaxHistory ELSE len) >= MaxTurns

(* Mutant: the queue is keyed by the Session object. *)
QueueKey_Object(o, id) == o

(* the key session o with session id `id` is queued under *)
QueueKey(o, id) == id

(* queue.enqueue(session.id, closure over o) *)
Accept(m, o, id) ==
    /\ SQ!Submit(m, QueueKey(o, id))
    /\ step' = [step EXCEPT ![m] = "queued"]
    /\ target' = [target EXCEPT ![m] = o]
    /\ UNCHANGED tries
-----------------------------------------------------------------------------
(* handleMessage: the session the channel has is used, made or rotated, and *)
(* the turn is queued, all before anything is awaited.                     *)

HandleWithCurrent(m, c) ==
    /\ sessions[c] # None
    /\ obj[sessions[c]].status # "stopped"
    /\ ~TurnsUsedUp(sessions[c])
    /\ Accept(m, sessions[c], obj[sessions[c]].id)
    /\ UNCHANGED <<store, abort>>

(* getOrCreateSession makes one *)
HandleWithNew(m, c) ==
    LET o == next + 1 IN
    /\ sessions[c] = None
    /\ o \in Objs
    /\ next' = o
    /\ frozen' = frozen \cup Snapshot(o)
    /\ obj' = [obj EXCEPT ![o] = Fresh(o)]
    /\ sessions' = [sessions EXCEPT ![c] = o]
    /\ diskMap' = SessionMap(sessions', obj')
    /\ Accept(m, o, o)
    /\ UNCHANGED abort

(* rotateSession, because the turns are used up or, which may be so at any   *)
(* time, because of the age; the session map is not written here            *)
HandleWithRotated(m, c) ==
    LET old == sessions[c]
        o   == next + 1
    IN
    /\ old # None
    /\ o \in Objs
    /\ next' = o
    /\ frozen' = Thawed({obj[old].id}) \cup Snapshot(o)
    /\ abort' = Aborted({old})
    /\ obj' = [Destroyed({old}) EXCEPT ![o] = Fresh(o)]
    /\ sessions' = [sessions EXCEPT ![c] = o]
    /\ Accept(m, o, o)
    /\ UNCHANGED diskMap

(* saveHandoff throws (disk full, permissions): the message is rejected, the *)
(* old session stays, its snapshot is gone                                   *)
HandoffFails(m, c) ==
    /\ sessions[c] # None
    /\ frozen' = Thawed({obj[sessions[c]].id})
    /\ step' = [step EXCEPT ![m] = "rejected"]
    /\ UNCHANGED <<sessions, obj, next, diskMap, target, tries, abort, queue>>

HandleMessage(m, c) ==
    /\ Running
    /\ step[m] = "idle"
    /\ \/ HandleWithCurrent(m, c)
       \/ HandleWithNew(m, c)
       \/ HandleWithRotated(m, c)
       \/ HandoffFails(m, c)
    /\ UNCHANGED <<up, restarts, hist>>
-----------------------------------------------------------------------------
(* sendMessage, run by the queue *)

Append1(m, role) ==
    hist' = [hist EXCEPT ![obj[target[m]].id] = Append(@, [role |-> role, msg |-> m])]

StatusAfterThrow == "error"

(* The user's message is written and the executor is called: nobody listens *)
(* to executor:start, so awaiting that hook lets no other event in.  The     *)
(* agent loop begins with an AbortController of its own.  createExecutor     *)
(* returns apiExecutorInstance, which is null once the object is destroyed:  *)
(* `executor.execute` is then a TypeError, caught at once.                   *)
Begin(m) ==
    LET live == obj[target[m]].live IN
    /\ SQ!Serve(m)
    /\ step' = [step EXCEPT ![m] = IF live THEN "attempting" ELSE "failing"]
    /\ obj' = [obj EXCEPT ![target[m]].status = IF live THEN "running" ELSE StatusAfterThrow]
    /\ Append1(m, "user")
    /\ UNCHANGED <<up, restarts, sessions, next, frozen, diskMap, target, tries, abort>>

(* the delay is over: _executeAgentLoop runs again, with a new signal *)
RetryAttempt(m) ==
    /\ step[m] = "backoff"
    /\ step' = [step EXCEPT ![m] = "attempting"]
    /\ abort' = [abort EXCEPT ![m] = IF @ = "now" THEN "before" ELSE @]
    /\ UNCHANGED <<up, restarts, store, hist, target, tries, queue>>

(* it returns: the answer is written, the completion hooks are awaited *)
AttemptReturns(m) ==
    /\ step[m] = "attempting"
    /\ step' = [step EXCEPT ![m] = "completing"]
    /\ Append1(m, "assistant")
    /\ obj' = [obj EXCEPT ![target[m]].status = "idle"]
    /\ UNCHANGED <<up, restarts, sessions, next, frozen, diskMap, target, tries, abort, queue>>

(* it throws and withRetry goes on; "Request aborted" is classified unknown, *)
(* which is retryable                                                        *)
AttemptRetried(m) ==
    /\ step[m] = "attempting"
    /\ tries[m] < MaxRetries
    /\ tries' = [tries EXCEPT ![m] = @ + 1]
    /\ step' = [step EXCEPT ![m] = "backoff"]
    /\ UNCHANGED <<up, restarts, store, hist, target, abort, queue>>

(* it throws and withRetry gives up *)
AttemptFails(m) ==
    /\ step[m] = "attempting"
    /\ tries[m] = MaxRetries \/ abort[m] # "now"
    /\ step' = [step EXCEPT ![m] = "failing"]
    /\ obj' = [obj EXCEPT ![target[m]].status = StatusAfterThrow]
    /\ UNCHANGED <<up, restarts, sessions, next, frozen, diskMap, hist, target, tries, abort, queue>>

(* Mutant: a turn that failed never settles. *)
Settling_NotFailed(m) == step[m] = "completing"

(* the completion or error hooks are through *)
Settling(m) == step[m] \in Ending

(* Mutant: saveSessionMap only when a session is created. *)
MapAfterTurn_Kept == diskMap

MapAfterTurn == SessionMap(sessions, obj)

(* sendMessage returns; the closure saves the session map and is done *)
Answer(m) ==
    /\ Settling(m)
    /\ SQ!Complete(m)
    /\ step' = [step EXCEPT ![m] = "answered"]
    /\ diskMap' = MapAfterTurn
    /\ tries' = [tries EXCEPT ![m] = 0]
    /\ abort' = [abort EXCEPT ![m] = "no"]
    /\ UNCHANGED <<up, restarts, sessions, obj, next, frozen, hist, target>>
-----------------------------------------------------------------------------
(* The other operations of the manager *)

interruptSession(c) ==
    /\ Running
    /\ sessions[c] # None
    /\ Attempting(sessions[c])
    /\ abort' = Aborted({sessions[c]})
    /\ obj' = [obj EXCEPT ![sessions[c]].status = "idle"]
    /\ UNCHANGED <<up, restarts, sessions, next, frozen, diskMap, hist, step, target, tries, queue>>

(* /clear *)
destroySession(c) ==
    /\ Running
    /\ c \in Clearable
    /\ sessions[c] # None
    /\ frozen' = Thawed({obj[sessions[c]].id})
    /\ abort' = Aborted({sessions[c]})
    /\ obj' = Destroyed({sessions[c]})
    /\ sessions' = [sessions EXCEPT ![c] = None]
    /\ UNCHANGED <<up, restarts, next, diskMap, hist, step, target, tries, queue>>

(* /resume: the channel gets a new object over the history of session id i *)
adoptSession(c, i) ==
    LET o   == next + 1
        old == {sessions[c]} \ {None}
    IN
    /\ up = "up" /\ Drained
    /\ c \in Resumable
    /\ hist[i] # <<>>
    /\ o \in Objs
    /\ next' = o
    /\ frozen' = Thawed({obj[x].id : x \in old}) \cup Snapshot(i)
    /\ abort' = Aborted(old)
    /\ obj' = [Destroyed(old) EXCEPT ![o] = Fresh(i)]
    /\ sessions' = [sessions EXCEPT ![c] = o]
    /\ diskMap' = SessionMap(sessions', obj')
    /\ UNCHANGED <<up, restarts, hist, step, target, tries, queue>>

(* Mutant: idle time alone decides. *)
Evictable_ByTime(c) == sessions[c] # None

Evictable(c) ==
    /\ sessions[c] # None
    /\ obj[sessions[c]].status = "idle"

(* the cleanup timer takes those of the idle sessions whose last activity is *)
(* idleTimeoutMs ago, which any of them may be; the map is not written      *)
cleanupIdleSessions ==
    \E gone \in SUBSET {c \in Channels : Evictable(c)} :
        LET os == {sessions[c] : c \in gone} IN
        /\ up = "up" /\ Drained
        /\ gone # {}
        /\ frozen' = Thawed({obj[o].id : o \in os})
        /\ abort' = Aborted(os)
        /\ obj' = Destroyed(os)
        /\ sessions' = [c \in Channels |-> IF c \in gone THEN None ELSE sessions[c]]
        /\ UNCHANGED <<up, restarts, next, diskMap, hist, step, target, tries, queue>>
-----------------------------------------------------------------------------
(* The life of the process *)

(* stop(), called by shutdown, which then awaits disconnect and workers *)
Stop ==
    /\ up = "up" /\ Drained
    /\ up' = "stopping"
    /\ abort' = Aborted(Bound)
    /\ obj' = Destroyed(Bound)
    /\ sessions' = [c \in Channels |-> None]
    /\ frozen' = {}
    /\ UNCHANGED <<restarts, next, diskMap, hist, step, target, tries, queue>>

(* process.exit, or a crash at any moment: memory is gone, files stay *)
Exit ==
    /\ up # "down"
    /\ up' = "down"
    /\ sessions' = [c \in Channels |-> None]
    /\ frozen' = {}
    /\ step' = [m \in Msgs |-> IF step[m] \in InFlight THEN "lost" ELSE step[m]]
    /\ phase' = [m \in Msgs |-> IF phase[m] = "idle" THEN "idle" ELSE "done"]
    /\ tries' = [m \in Msgs |-> 0]
    /\ abort' = [m \in Msgs |-> "no"]
    /\ UNCHANGED <<restarts, obj, next, diskMap, hist, target, key, ticket, clock>>

(* the entries of session-map.json whose session has a history *)
Restored == {c \in Channels : diskMap[c] # None /\ hist[diskMap[c]] # <<>>}

(* start(): restoreSessionMap makes an object for each of them *)
Restart ==
    LET made == (next + 1)..(next + Cardinality(Restored)) IN
    /\ up = "down"
    /\ restarts < MaxRestarts
    /\ made \subseteq Objs
    /\ up' = "up"
    /\ restarts' = restarts + 1
    /\ next' = next + Cardinality(Restored)
    /\ \E place \in [Restored -> made] :
          /\ \A c, d \in Restored : place[c] = place[d] => c = d
          /\ sessions' = [c \in Channels |-> IF c \in Restored THEN place[c] ELSE None]
          /\ obj' = [o \in Objs |-> IF \E c \in Restored : place[c] = o
                                    THEN Fresh(diskMap[CHOOSE c \in Restored : place[c] = o])
                                    ELSE obj[o]]
    /\ UNCHANGED <<frozen, diskMap, hist, step, target, tries, abort, queue>>
-----------------------------------------------------------------------------
AttemptSettles(m) == AttemptReturns(m) \/ AttemptRetried(m) \/ AttemptFails(m)

TurnStep(m) == Begin(m) \/ RetryAttempt(m) \/ AttemptSettles(m) \/ Answer(m)

Next ==
    \/ \E m \in Msgs : (\E c \in Channels : HandleMessage(m, c)) \/ TurnStep(m)
    \/ \E c \in Channels : interruptSession(c) \/ destroySession(c)
    \/ \E c \in Channels, i \in Objs : adoptSession(c, i)
    \/ cleanupIdleSessions
    \/ Stop
    \/ Exit
    \/ Restart

Spec == Init /\ [][Next]_vars

(* The event loop resumes what is ready, and an attempt settles: its request *)
(* has a timeout and its stream a watchdog.  Nobody must send, interrupt,    *)
(* stop or restart.                                                          *)
Fairness == \A m \in Msgs :
    /\ WF_vars(Begin(m))
    /\ WF_vars(RetryAttempt(m))
    /\ WF_vars(AttemptSettles(m))
    /\ WF_vars(Answer(m))

FairSpec == Spec /\ Fairness
-----------------------------------------------------------------------------
(* Every frozen memory snapshot belongs to a session some channel is bound  *)
(* to: no path that drops a binding (rotation that fails half way, /clear,   *)
(* /resume over another session, idle eviction, stop) leaves one behind.    *)
NoSnapshotLeak == frozen \subseteq {obj[o].id : o \in Bound}

(* Once a turn has been answered in the session its channel is bound to,    *)
(* session-map.json names that session for the channel: a restart from then *)
(* on brings the conversation back, also when the binding came from a       *)
(* rotation, which does not write the map itself.                           *)
AnsweredSessionIsDurable ==
    \A m \in Msgs, c \in Channels :
        (step[m] = "answered" /\ sessions[c] = target[m] /\ sessions[c] # None)
            => diskMap[c] = obj[sessions[c]].id

(* In a session's file an answer directly follows the prompt it answers,    *)
(* whichever objects carry the session id: a session adopted by a second    *)
(* channel while a turn of it runs, or restored, does not interleave turns. *)
ReplyFollowsPrompt ==
    \A i \in Objs : \A n \in 1..Len(hist[i]) :
        hist[i][n].role = "assistant"
            => n > 1 /\ hist[i][n - 1] = [role |-> "user", msg |-> hist[i][n].msg]

(* Idle eviction never takes a session whose turn is under way, unless the  *)
(* user interrupted that turn (it then calls itself idle and may go on).    *)
EvictionSparesTurns ==
    [][cleanupIdleSessions =>
         \A c \in Channels, m \in Msgs :
             (sessions[c] # None /\ sessions'[c] = None /\ target[m] = sessions[c])
                 => (step[m] \in Turn => abort[m] # "no")]_vars

(* Every queued message is answered or lost with the process: an interrupt, *)
(* a session destroyed under it, failing attempts before it in its session  *)
(* or a restart never leave it (and whatever is queued behind it) waiting.  *)
EveryMessageSettles ==
    \A m \in Msgs : (step[m] = "queued") ~> (step[m] \in {"answered", "lost"})
-----------------------------------------------------------------------------
(* What makes NoSnapshotLeak and AnsweredSessionIsDurable inductive          *)
(* (SessionManagerProofs.tla): objects are numbered as they are made, a      *)
(* channel's session is its own and is not stopped, and a program that is    *)
(* down has none.                                                            *)
Numbered ==
    /\ \A c \in Channels : sessions[c] <= next
    /\ \A m \in Msgs : target[m] <= next

OwnSession ==
    \A c, d \in Channels : (sessions[c] = sessions[d] /\ sessions[c] # None) => c = d

BoundIsAlive == \A c \in Channels : sessions[c] # None => obj[sessions[c]].status # "stopped"

DownIsEmpty == up = "down" => frozen = {} /\ \A c \in Channels : sessions[c] = None

IInv ==
    /\ TypeOK
    /\ Numbered
    /\ OwnSession
    /\ BoundIsAlive
    /\ DownIsEmpty
    /\ NoSnapshotLeak
    /\ AnsweredSessionIsDurable
-----------------------------------------------------------------------------
(* A statement of the documentation that the code does not keep.            *)

(* "Sessions and memory survive restarts": while the program shuts down it  *)
(* does not forget which session a channel has.                             *)
ShutdownKeepsMap ==
    [][\A c \in Channels : (up = "stopping" /\ diskMap[c] # None) => diskMap'[c] # None]_vars
=============================================================================
