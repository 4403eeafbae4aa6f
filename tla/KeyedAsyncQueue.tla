--------------------------- MODULE KeyedAsyncQueue ---------------------------
(***************************************************************************)
(* The per-key promise chain of src/queue/keyed-async-queue.ts at the      *)
(* grain of its promise reactions.  A task is one call of enqueue; its     *)
(* stages are the promises that call creates:                              *)
(*   chained   prev.then(() => fn()) is registered, fn not called          *)
(*   running   fn was called, its promise is pending                       *)
(*   returned  that promise settled, the finally callback has not run      *)
(*   released  finally ran; the caller's promise `next` is settled         *)
(*   resolved  the stored promise next.then(() => {}, () => {}) is settled *)
(* JavaScript runs one reaction at a time, and between two reactions any   *)
(* other callback of the program may call enqueue: each reaction is one    *)
(* action here.                                                            *)
(***************************************************************************)
EXTENDS Naturals, FiniteSets

CONSTANTS Keys,      \* session ids
          Tasks,     \* calls of enqueue
          NoKey,     \* key of a task not enqueued yet
          NoTask,    \* "the map has no entry": Promise.resolve() is used instead
          HungKeys   \* keys whose functions may never settle

ASSUME QueueAssumption ==
    /\ IsFiniteSet(Tasks)
    /\ NoKey \notin Keys
    /\ NoTask \notin Tasks
    /\ HungKeys \subseteq Keys

VARIABLES stage,    \* Tasks -> how far its promises are
          key,      \* Tasks -> the key it was enqueued under
          prev,     \* Tasks -> the task whose stored promise it was chained on
          outcome,  \* Tasks -> how fn's promise settled
          chains,   \* this.chains: Keys -> task whose stored promise is the tail
          sizes,    \* this.sizes: Keys -> count, 0 when the map has no entry
          ticket,   \* Tasks -> order of the enqueue calls (no counterpart in the code)
          clock     \* next ticket

vars == <<stage, key, prev, outcome, chains, sizes, ticket, clock>>

Stages == {"idle", "chained", "running", "returned", "released", "resolved"}
Outcomes == {"none", "fulfilled", "rejected"}

TypeOK ==
    /\ stage \in [Tasks -> Stages]
    /\ key \in [Tasks -> Keys \cup {NoKey}]
    /\ prev \in [Tasks -> Tasks \cup {NoTask}]
    /\ outcome \in [Tasks -> Outcomes]
    /\ chains \in [Keys -> Tasks \cup {NoTask}]
    /\ sizes \in [Keys -> 0..Cardinality(Tasks)]
    /\ ticket \in [Tasks -> Nat]
    /\ clock \in Nat

Init ==
    /\ stage = [t \in Tasks |-> "idle"]
    /\ key = [t \in Tasks |-> NoKey]
    /\ prev = [t \in Tasks |-> NoTask]
    /\ outcome = [t \in Tasks |-> "none"]
    /\ chains = [k \in Keys |-> NoTask]
    /\ sizes = [k \in Keys |-> 0]
    /\ ticket = [t \in Tasks |-> 0]
    /\ clock = 0
-----------------------------------------------------------------------------
(* this.sizes.get(key) || 0 *)
CurrentSize(k) == sizes[k]

(* Mutant: one chain for the whole queue instead of one per key. *)
Tail_AnyKey(k) ==
    IF \E j \in Keys : chains[j] # NoTask
    THEN chains[CHOOSE j \in Keys : chains[j] # NoTask]
    ELSE NoTask

(* this.chains.get(key), NoTask standing for Promise.resolve() *)
TailOf(k) == chains[k]

(* enqueue(key, fn), up to its return *)
Enqueue(t, k) ==
    /\ stage[t] = "idle"
    /\ stage' = [stage EXCEPT ![t] = "chained"]
    /\ key' = [key EXCEPT ![t] = k]
    /\ sizes' = [sizes EXCEPT ![k] = CurrentSize(k) + 1]
    /\ prev' = [prev EXCEPT ![t] = TailOf(k)]
    /\ chains' = [chains EXCEPT ![k] = t]
    /\ ticket' = [ticket EXCEPT ![t] = clock]
    /\ clock' = clock + 1
    /\ UNCHANGED outcome

(* Mutant: `next` itself is stored, and rejects whatever is chained on it. *)
StoredOutcome_Next(o) == o

(* how the stored promise settles, given how `next` did: both handlers of   *)
(* next.then(() => {}, () => {}) return undefined                          *)
StoredOutcome(o) == "fulfilled"

(* the promise t was chained on is settled *)
PrevSettled(t) == prev[t] # NoTask => stage[prev[t]] = "resolved"

(* The reaction prev.then(() => fn()): fn is called when prev fulfilled; a  *)
(* rejected prev would reject t's own promise without calling fn.          *)
Start(t) ==
    /\ stage[t] = "chained"
    /\ PrevSettled(t)
    /\ IF prev[t] # NoTask => StoredOutcome(outcome[prev[t]]) = "fulfilled"
       THEN /\ stage' = [stage EXCEPT ![t] = "running"]
            /\ UNCHANGED outcome
       ELSE /\ stage' = [stage EXCEPT ![t] = "returned"]
            /\ outcome' = [outcome EXCEPT ![t] = "rejected"]
    /\ UNCHANGED <<key, prev, chains, sizes, ticket, clock>>

(* fn's promise settles, one way or the other *)
Finish(t) ==
    /\ stage[t] = "running"
    /\ stage' = [stage EXCEPT ![t] = "returned"]
    /\ \E o \in {"fulfilled", "rejected"} : outcome' = [outcome EXCEPT ![t] = o]
    /\ UNCHANGED <<key, prev, chains, sizes, ticket, clock>>

(* (this.sizes.get(key) || 1) - 1 *)
NewSize(k) == IF sizes[k] = 0 THEN 0 ELSE sizes[k] - 1

(* Mutant: newSize < 0, so the last task leaves its chain behind. *)
Drained_OffByOne(k) == NewSize(k) < 0

(* Mutant: finally always deletes the chain. *)
Drained_Always(k) == TRUE

(* newSize <= 0 *)
Drained(k) == NewSize(k) = 0

(* the finally callback; a map entry deleted reads as 0 and as NoTask *)
Finally(t) ==
    /\ stage[t] = "returned"
    /\ stage' = [stage EXCEPT ![t] = "released"]
    /\ sizes' = [sizes EXCEPT ![key[t]] = NewSize(key[t])]
    /\ chains' = IF Drained(key[t])
                 THEN [chains EXCEPT ![key[t]] = NoTask]
                 ELSE chains
    /\ UNCHANGED <<key, prev, outcome, ticket, clock>>

(* the stored promise settles *)
Resolve(t) ==
    /\ stage[t] = "released"
    /\ stage' = [stage EXCEPT ![t] = "resolved"]
    /\ UNCHANGED <<key, prev, outcome, chains, sizes, ticket, clock>>

Step(t) == Start(t) \/ Finish(t) \/ Finally(t) \/ Resolve(t)

Next == \E t \in Tasks : (\E k \in Keys : Enqueue(t, k)) \/ Step(t)

(* The event loop runs every reaction that is ready.  A function settles   *)
(* in the end unless its key is one of those allowed to hang; nobody is    *)
(* obliged to call enqueue.                                                *)
Fairness ==
    \A t \in Tasks :
        /\ WF_vars(Start(t))
        /\ WF_vars(Finally(t))
        /\ WF_vars(Resolve(t))
        /\ WF_vars(Finish(t) /\ key[t] \notin HungKeys)

Spec == Init /\ [][Next]_vars

FairSpec == Spec /\ Fairness
-----------------------------------------------------------------------------
getQueueSize(k) == sizes[k]

activeKeys == {k \in Keys : chains[k] # NoTask}

(* enqueued tasks of k whose finally has not run *)
Pending(k) == {t \in Tasks : key[t] = k /\ stage[t] \in {"chained", "running", "returned"}}

Started(t) == stage[t] \notin {"idle", "chained"}
FnSettled(t) == stage[t] \in {"returned", "released", "resolved"}

(* s was enqueued under t's key before t *)
Earlier(s, t) == stage[s] # "idle" /\ key[s] = key[t] /\ ticket[s] < ticket[t]
Released(t) == stage[t] \in {"released", "resolved"}
-----------------------------------------------------------------------------
(* The two maps tell the truth between any two reactions: getQueueSize     *)
(* counts exactly the calls whose finally has not run, and a key has a     *)
(* chain exactly while there are some.  A count that drifts up keeps a key *)
(* forever (activeKeys never returns to 0); one that drifts down deletes a *)
(* chain that has live tasks, and the next call starts beside them.        *)
Accounting ==
    \A k \in Keys :
        /\ getQueueSize(k) = Cardinality(Pending(k))
        /\ k \in activeKeys <=> Pending(k) # {}

(* "messages for same session run one-at-a-time", in the order enqueue was *)
(* called: a task's function is called only when the functions of all      *)
(* earlier tasks of its key have settled, also across the moment where     *)
(* finally deleted the chain and a new call began a fresh one.             *)
SerialOrder ==
    \A s, t \in Tasks : (Earlier(s, t) /\ Started(t)) => FnSettled(s)

(* "messages for different sessions run in parallel", "errors do not       *)
(* propagate to next in chain": every task of a key whose own functions    *)
(* settle is answered, although functions of the other keys hang forever   *)
(* and functions before it reject.                                         *)
Progress ==
    \A t \in Tasks :
        (stage[t] = "chained" /\ key[t] \notin HungKeys) ~> (stage[t] = "resolved")

(* The queue implements SerialQueue: a task is served from the call of fn  *)
(* until fn's promise settles.                                             *)
phaseBar ==
    [t \in Tasks |-> CASE stage[t] = "idle"    -> "idle"
                       [] stage[t] = "chained" -> "waiting"
                       [] stage[t] = "running" -> "serving"
                       [] OTHER                -> "done"]

SQ == INSTANCE SerialQueue WITH Requests <- Tasks, phase <- phaseBar

(* Every behaviour of the promise chain is one of the serial queue's,      *)
(* including its promise that the request at the head of a line is served. *)
ImplementsSerialQueue == SQ!Spec
-----------------------------------------------------------------------------
(* Why the chain serves in order, whatever the maps have forgotten: the     *)
(* tail of a key is its latest task; a task chained on another is its      *)
(* immediate successor; a task that found no chain came when every task    *)
(* before it had been released.  Inductive together with Accounting and    *)
(* SerialOrder (KeyedAsyncQueueProofs.tla).                                *)
TicketShape ==
    /\ \A t \in Tasks : IF stage[t] = "idle"
                        THEN key[t] = NoKey
                        ELSE key[t] \in Keys /\ ticket[t] < clock
    /\ \A s, t \in Tasks :
           (s # t /\ stage[s] # "idle" /\ stage[t] # "idle") => ticket[s] # ticket[t]

PrevShape ==
    \A t \in Tasks : stage[t] # "idle" =>
        IF prev[t] = NoTask
        THEN \A s \in Tasks : Earlier(s, t) => Released(s)
        ELSE /\ Earlier(prev[t], t)
             /\ \A s \in Tasks : Earlier(s, t) => s = prev[t] \/ Earlier(s, prev[t])

TailShape ==
    \A k \in Keys : chains[k] # NoTask =>
        /\ stage[chains[k]] # "idle"
        /\ key[chains[k]] = k
        /\ \A s \in Tasks :
               (stage[s] # "idle" /\ key[s] = k) => s = chains[k] \/ Earlier(s, chains[k])

IInv == TypeOK /\ TicketShape /\ PrevShape /\ TailShape /\ Accounting /\ SerialOrder
=============================================================================
