------------------------------ MODULE Provider ------------------------------
(***************************************************************************)
(* How an ApiExecutor asks its provider: executor/error-classifier.ts,     *)
(* credential-pool.ts, rate-limit-tracker.ts and max-tokens.ts with the    *)
(* part of api-executor.ts between a request and what becomes of it.  A    *)
(* refused key is cooled or disabled and the request made again with the   *)
(* next one, without a turn; what the headers said is kept for the whole   *)
(* executor, whichever key they were about.                                *)
(***************************************************************************)
EXTENDS Integers, FiniteSets

CONSTANTS
    KeyCount,      \* credentials of the pool
    ApiErrors,     \* what a provider may answer: [status, code, texts]
    Waits,         \* what its headers may ask for: 0 for nothing
    KeyCooldown,   \* RATE_LIMIT_COOLDOWN_MS
    Retries,       \* maxRetries of withRetry
    Baseline, BumpStep, Ceiling,   \* token limits of the model
    BumpAfterHits, \* BUMP_AFTER_HITS
    MaxNow,        \* bound: instants
    MaxRefusals    \* bound: refusals of one turn

ASSUME ProviderAssumption ==
    /\ KeyCount \in Nat \ {0}
    /\ Waits \subseteq Nat /\ 0 \in Waits
    /\ KeyCooldown \in Nat \ {0} /\ Retries \in Nat
    /\ Baseline \in Nat /\ BumpStep \in Nat \ {0} /\ Ceiling \in Nat /\ Baseline <= Ceiling
    /\ BumpAfterHits \in Nat \ {0}

Keys == 0..(KeyCount - 1)

VARIABLES
    time,       \* Date.now()
    at,         \* "idle", "top" (of the loop), "sleeping", "asking" or "backoff"
    wakeAt,     \* end of the sleep
    attempt,    \* attempt of withRetry
    keyStatus,  \* CredentialState.status
    coolUntil,  \* CredentialState.coolDownUntil
    current,    \* currentIndex of the pool
    live,       \* the credential applied to the options
    retryAt,    \* RateLimitTracker.retryAfterAt
    cap, hits,  \* TokenBudget
    refusals,   \* history: keys refused since the turn or the attempt began, with began
    began,
    refusedAt,  \* history: when and why each key was last refused
    spent       \* history: keys in use when the pool had no other

providerVars == <<time, at, wakeAt, attempt, keyStatus, coolUntil, current, live, retryAt, cap,
                  hits, refusals, began, refusedAt, spent>>

poolVars == <<keyStatus, coolUntil, current, live, spent, refusedAt>>

NeverRefused == -1

ProviderInit ==
    /\ time = 0
    /\ at = "idle"
    /\ wakeAt = 0
    /\ attempt = 0
    /\ keyStatus = [k \in Keys |-> "active"]
    /\ coolUntil = [k \in Keys |-> 0]
    /\ current = 0
    /\ live = 0
    /\ retryAt = 0
    /\ cap = Baseline
    /\ hits = 0
    /\ refusals = 0
    /\ began = 0
    /\ refusedAt = [k \in Keys |-> [when |-> NeverRefused, why |-> "none"]]
    /\ spent = {}

-----------------------------------------------------------------------------
\* classifyApiError: the status decides, then the code in the body, then the texts that match, in
\* this order.
ByStatus(e) ==
    CASE e.status \in {401, 403} -> "auth"
      [] e.status = 402 -> "billing"
      [] e.status = 429 -> "rate_limit"
      [] e.status = 413 -> "payload_too_large"
      [] e.status = 404 /\ "model_not_found" \in e.texts -> "model_not_found"
      [] e.status = 400 -> IF "context_overflow" \in e.texts THEN "context_overflow" ELSE "format_error"
      [] e.status = 422 -> "format_error"
      [] e.status \in {503, 529} -> "overloaded"
      [] e.status >= 500 -> "server_error"
      [] OTHER -> "none"

Layers == <<"billing", "rate_limit", "context_overflow", "auth", "timeout">>

ByText(e) ==
    LET matching == {i \in DOMAIN Layers : Layers[i] \in e.texts}
    IN  IF matching = {} THEN "unknown" ELSE Layers[CHOOSE i \in matching : \A j \in matching : i <= j]

classifyApiError(e) ==
    IF ByStatus(e) # "none" THEN ByStatus(e)
    ELSE IF e.code # "none" THEN e.code
    ELSE ByText(e)

Retryable(reason) == reason \in {"rate_limit", "overloaded", "server_error", "timeout", "unknown"}
ShouldCompress(reason) == reason \in {"context_overflow", "payload_too_large"}
RotateReasons == {"rate_limit", "billing", "auth"}

-----------------------------------------------------------------------------
Refreshed == [k \in Keys |-> IF keyStatus[k] = "cooling" /\ coolUntil[k] <= time THEN "active" ELSE keyStatus[k]]

\* A rotation that leaves the refused key as it is.
Marked_Not(reason) == Refreshed

\* The states after the cooled ones are back and the current key is cooled or disabled.
Marked(reason) == [Refreshed EXCEPT ![current] = IF reason = "rate_limit" THEN "cooling" ELSE "disabled"]

\* Round robin from the one after the current; the current key itself comes last.
findNextActive(states) ==
    LET active == {step \in 1..KeyCount : states[(current + step) % KeyCount] = "active"}
    IN  IF active = {} THEN NeverRefused
        ELSE (current + CHOOSE s \in active : \A t \in active : s <= t) % KeyCount

shouldSleepBeforeNext == IF retryAt > time THEN retryAt - time ELSE 0

\* The rejected attempt is made again after a backoff, or execute rejects.
Throw(reason) ==
    /\ IF Retryable(reason) /\ attempt < Retries
       THEN at' = "backoff" /\ attempt' = attempt + 1
       ELSE at' = "idle" /\ attempt' = 0
    /\ refusals' = 0
    /\ began' = time

ExecuteRequest ==
    /\ at = "idle"
    /\ at' = "top"
    /\ refusals' = 0
    /\ began' = time
    /\ UNCHANGED <<time, wakeAt, attempt, retryAt, cap, hits, poolVars>>

Backoff ==
    /\ at = "backoff"
    /\ at' = "top"
    /\ UNCHANGED <<time, wakeAt, attempt, retryAt, cap, hits, refusals, began, poolVars>>

\* The top of the loop: sleep if the headers asked for it, else make the request.
Request ==
    /\ at = "top"
    /\ IF shouldSleepBeforeNext > 0
       THEN at' = "sleeping" /\ wakeAt' = time + shouldSleepBeforeNext
       ELSE at' = "asking" /\ UNCHANGED wakeAt
    /\ UNCHANGED <<time, attempt, retryAt, cap, hits, refusals, began, poolVars>>

Awake ==
    /\ at = "sleeping"
    /\ time >= wakeAt
    /\ at' = "asking"
    /\ UNCHANGED <<time, wakeAt, attempt, retryAt, cap, hits, refusals, began, poolVars>>

\* update: a header that is missing leaves what was known.
Headers(wait) == retryAt' = IF wait > 0 THEN time + wait ELSE retryAt

\* An error that is about the key: rotate and ask again with the next, or give up without one.
Rotate(reason) ==
    LET next == findNextActive(Marked(reason))
    IN  /\ keyStatus' = Marked(reason)
        /\ coolUntil' = IF reason = "rate_limit" THEN [coolUntil EXCEPT ![current] = time + KeyCooldown] ELSE coolUntil
        /\ refusedAt' = [refusedAt EXCEPT ![live] = [when |-> time, why |-> reason]]
        /\ IF next = NeverRefused
           THEN /\ spent' = spent \cup {live}
                /\ Throw(reason)
                /\ UNCHANGED <<current, live, cap, hits>>
           ELSE /\ current' = next
                /\ live' = next
                /\ cap' = Baseline /\ hits' = 0
                /\ spent' = spent \ {live}
                /\ at' = "top"
                /\ refusals' = refusals + 1
                /\ UNCHANGED <<attempt, began>>

Refused(e, wait) ==
    LET reason == classifyApiError(e)
    IN  /\ at = "asking"
        /\ refusals < MaxRefusals
        /\ Headers(wait)
        /\ \/ /\ e.status \in {400, 413} /\ ShouldCompress(reason)
              /\ at' = "top"
              /\ UNCHANGED <<attempt, cap, hits, refusals, began, poolVars>>
           \/ /\ ~(e.status \in {400, 413} /\ ShouldCompress(reason))
              /\ reason \in RotateReasons
              /\ Rotate(reason)
           \/ /\ ~(e.status \in {400, 413} /\ ShouldCompress(reason))
              /\ reason \notin RotateReasons
              /\ Throw(reason)
              /\ UNCHANGED <<cap, hits, poolVars>>
        /\ UNCHANGED <<time, wakeAt>>

\* observeStopReason
Bumped == IF cap + BumpStep <= Ceiling THEN cap + BumpStep ELSE Ceiling

Observe(cut) ==
    IF ~cut THEN hits' = 0 /\ UNCHANGED cap
    ELSE IF hits + 1 >= BumpAfterHits /\ cap < Ceiling THEN hits' = 0 /\ cap' = Bumped
    ELSE hits' = (IF hits < BumpAfterHits THEN hits + 1 ELSE hits) /\ UNCHANGED cap

\* An answer: cut off by its token limit or not, the last of the execution or not.
Answered(wait, cut, last) ==
    /\ at = "asking"
    /\ Headers(wait)
    /\ keyStatus' = IF keyStatus[current] = "cooling" THEN [keyStatus EXCEPT ![current] = "active"] ELSE keyStatus
    /\ refusedAt' = [refusedAt EXCEPT ![live] = [when |-> NeverRefused, why |-> "none"]]
    /\ Observe(cut)
    /\ at' = IF last THEN "idle" ELSE "top"
    /\ attempt' = IF last THEN 0 ELSE attempt
    /\ refusals' = 0
    /\ began' = time
    /\ spent' = spent \ {live}
    /\ UNCHANGED <<time, wakeAt, coolUntil, current, live>>

Advance ==
    /\ time < MaxNow
    /\ time' = time + 1
    /\ UNCHANGED <<at, wakeAt, attempt, retryAt, cap, hits, refusals, began, poolVars>>

ProviderNext ==
    \/ ExecuteRequest \/ Backoff \/ Request \/ Awake \/ Advance
    \/ \E e \in ApiErrors, wait \in Waits : Refused(e, wait)
    \/ \E wait \in Waits, cut, last \in BOOLEAN : Answered(wait, cut, last)

ProviderSpec == ProviderInit /\ [][ProviderNext]_providerVars

-----------------------------------------------------------------------------
Barred(k) == \/ refusedAt[k].why \in {"billing", "auth"}
             \/ refusedAt[k].why = "rate_limit" /\ time < refusedAt[k].when + KeyCooldown

\* A request is made with a key that was billed out, revoked or limited a moment ago only when the
\* pool had no other key at that time (credential-pool.ts:9-11).
BarredKeySpared == at = "asking" /\ Barred(live) => live \in spent

\* One turn is refused by each key once, unless a whole cooldown passes meanwhile: the loop that asks
\* again without taking a turn (api-executor.ts:513) goes on only if time does.
RefusalsBounded == refusals > KeyCount => time - began >= KeyCooldown

\* A refused key is given a rest and the others their turn, and the loop that asks again comes to an end.
KeysRotate == BarredKeySpared /\ RefusalsBounded
=============================================================================
