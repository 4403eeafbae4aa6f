----------------------------- MODULE SerialQueue -----------------------------
(***************************************************************************)
(* What KeyedAsyncQueue (src/queue/keyed-async-queue.ts) promises, with no *)
(* promise chain in it: the requests submitted under one key are served    *)
(* one at a time, in the order they were submitted, whatever becomes of    *)
(* each of them, and requests of different keys do not wait for each       *)
(* other.  KeyedAsyncQueue.tla is shown to implement this module and       *)
(* SessionManager.tla uses it as its queue.                                *)
(***************************************************************************)
EXTENDS Naturals

CONSTANTS Keys,      \* queue keys: the session ids
          Requests,  \* calls of enqueue, each submitted at most once
          NoKey      \* key of a request not submitted yet

VARIABLES phase,   \* Requests -> idle | waiting | serving | done
          key,     \* Requests -> the key it was submitted under
          ticket,  \* Requests -> its place in the order of submission
          clock    \* the next place

sqVars == <<phase, key, ticket, clock>>

Phases == {"idle", "waiting", "serving", "done"}

TypeOK ==
    /\ phase \in [Requests -> Phases]
    /\ key \in [Requests -> Keys \cup {NoKey}]
    /\ ticket \in [Requests -> Nat]
    /\ clock \in Nat

Init ==
    /\ phase = [r \in Requests |-> "idle"]
    /\ key = [r \in Requests |-> NoKey]
    /\ ticket = [r \in Requests |-> 0]
    /\ clock = 0

(* s was submitted under r's key before r *)
Ahead(s, r) ==
    /\ phase[s] # "idle"
    /\ key[s] = key[r]
    /\ ticket[s] < ticket[r]

Submit(r, k) ==
    /\ phase[r] = "idle"
    /\ phase' = [phase EXCEPT ![r] = "waiting"]
    /\ key' = [key EXCEPT ![r] = k]
    /\ ticket' = [ticket EXCEPT ![r] = clock]
    /\ clock' = clock + 1

Serve(r) ==
    /\ phase[r] = "waiting"
    /\ \A s \in Requests : Ahead(s, r) => phase[s] = "done"
    /\ phase' = [phase EXCEPT ![r] = "serving"]
    /\ UNCHANGED <<key, ticket, clock>>

Complete(r) ==
    /\ phase[r] = "serving"
    /\ phase' = [phase EXCEPT ![r] = "done"]
    /\ UNCHANGED <<key, ticket, clock>>

Next == \E r \in Requests : (\E k \in Keys : Submit(r, k)) \/ Serve(r) \/ Complete(r)

(* A request at the head of its key's line is served; nothing is promised  *)
(* about when the work it stands for completes.                            *)
Fairness == \A r \in Requests : WF_sqVars(Serve(r))

Spec == Init /\ [][Next]_sqVars /\ Fairness
=============================================================================
