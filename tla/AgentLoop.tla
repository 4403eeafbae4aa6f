----------------------------- MODULE AgentLoop -----------------------------
(***************************************************************************)
(* One ApiExecutor (src/executor/api-executor.ts): execute() retries        *)
(* _executeAgentLoop, which asks the model, runs the tools it calls for and *)
(* asks again until an answer is accepted or a cap stops it.  Executions of *)
(* one executor follow one another (its session's turns are queued), so the *)
(* counters of the object are those of the attempt that runs.               *)
(*                                                                          *)
(* One action is what runs between two awaits.  What the model says, whether *)
(* a tool fails, what the verifier thinks and how large the history is are  *)
(* choices; of the messages only the tool calls without a result are kept,  *)
(* those of the attempt: what an earlier one left is in History.tla.        *)
(***************************************************************************)
EXTENDS Naturals, Sequences

CONSTANTS Tools,         \* names of tools a model may call
          Registered,    \* those that the registry has
          WebSearch,     \* the tool that is capped
          Essential,     \* firstTurnToolsOnly of the model's profile, {} for all
          Batches,       \* the tool calls an answer may hold: sequences of names
          MaxRuns,       \* bound: calls of execute
          MaxTurns,      \* maxTurns of the profile
          MaxRetries,    \* withRetry's maxRetries
          MaxExpansions, \* cap on toolExpansions
          MaxContinues,  \* cap on continueInjections
          MaxFakes,      \* cap on fakeAnswerInjections
          MaxVerifies,   \* FACTUAL_VERIFIER_MAX_RETRIES
          MaxSearches,   \* WEB_SEARCH_MAX_USES
          SummaryAt,     \* consecutiveErrors at which a summary is asked for
          CriticalAt     \* similar turns that the loop detector stops at

ASSUME ToolsAssumption ==
    /\ Registered \subseteq Tools /\ Essential \subseteq Registered
    /\ Batches \subseteq Seq(Tools) \ {<<>>}

ASSUME CapsAssumption ==
    /\ MaxRuns \in Nat /\ MaxTurns \in Nat \ {0} /\ MaxRetries \in Nat
    /\ MaxExpansions \in Nat /\ MaxContinues \in Nat /\ MaxFakes \in Nat
    /\ MaxVerifies \in Nat /\ MaxSearches \in Nat
    /\ SummaryAt \in Nat \ {0} /\ CriticalAt \in Nat

VARIABLES pc,         \* where the execution is
          runs,       \* executions begun
          tries,      \* retries made by the execution
          route,      \* the model that chooseRoute names for its prompt
          model,      \* options.model
          original,   \* originalModel
          aborted,    \* the attempt's AbortController has been aborted
          turns,      \* turns
          final,      \* finalContent
          used,       \* usedToolNames
          expansions, \* toolExpansions
          errors,     \* consecutiveErrors
          lastSig,    \* lastToolCallSig
          repeats,    \* duplicateCallCount
          searches,   \* webSearchCount
          verifies,   \* factualVerifierRetries
          continues,  \* continueInjections
          fakes,      \* fakeAnswerInjections
          toolFailed, \* lastToolFailedSignal
          recorded,   \* turns in the loop detector's window
          batch,      \* tool calls of the turn still to be run
          hadError,   \* turnHadError
          open,       \* tool calls of the attempt without a result in the history
          hint,       \* pendingRecoveryHint
          request,    \* the request being made
          asked,      \* history: requests of the attempt, overflows apart
          owed,       \* history: a hint of the attempt no request has carried
          overflowed  \* history: the last response was a context overflow

execution == <<runs, tries, route, original>>
counters  == <<used, expansions, errors, lastSig, repeats, searches, verifies,
               continues, fakes, toolFailed, recorded>>
turn      == <<batch, hadError, open>>
history   == <<asked, owed, overflowed>>
vars == <<pc, execution, model, aborted, turns, final, counters, turn, hint, request, history>>

Models  == {"primary", "cheap"}
NoSig   == <<>>
Answers == {"none", "answer", "flagged", "stopped", "exhausted", "failed"}

(* the AbortController exists *)
Attempting == {"top", "waiting", "asking", "tools", "verifying"}

Request == [model : Models, tools : SUBSET Tools, hint : BOOLEAN,
            context : {"graduated", "emergency"}]

NoRequest == [model |-> "primary", tools |-> {}, hint |-> FALSE, context |-> "graduated"]

TypeOK ==
    /\ pc \in {"idle", "backoff"} \cup Attempting
    /\ runs \in 0..MaxRuns /\ tries \in 0..MaxRetries
    /\ route \in Models /\ model \in Models /\ original \in Models
    /\ aborted \in BOOLEAN /\ turns \in 0..MaxTurns /\ final \in Answers
    /\ used \in SUBSET Tools /\ expansions \in 0..MaxExpansions
    /\ errors \in Nat /\ repeats \in Nat /\ searches \in Nat
    /\ lastSig \in Batches \cup {NoSig}
    /\ verifies \in 0..MaxVerifies /\ continues \in 0..MaxContinues /\ fakes \in 0..MaxFakes
    /\ toolFailed \in BOOLEAN /\ recorded \in Nat
    /\ batch \in Seq(Tools) /\ hadError \in BOOLEAN /\ open \in Nat
    /\ hint \in BOOLEAN /\ request \in Request
    /\ asked \in Nat /\ owed \in BOOLEAN /\ overflowed \in BOOLEAN

Init ==
    /\ pc = "idle" /\ runs = 0 /\ tries = 0
    /\ route = "primary" /\ model = "primary" /\ original = "primary"
    /\ aborted = FALSE /\ turns = 0 /\ final = "none"
    /\ used = {} /\ expansions = 0 /\ errors = 0 /\ lastSig = NoSig /\ repeats = 0
    /\ searches = 0 /\ verifies = 0 /\ continues = 0 /\ fakes = 0
    /\ toolFailed = FALSE /\ recorded = 0
    /\ batch = <<>> /\ hadError = FALSE /\ open = 0
    /\ hint = FALSE /\ request = NoRequest
    /\ asked = 0 /\ owed = FALSE /\ overflowed = FALSE
-----------------------------------------------------------------------------
(* An attempt begins and ends *)

(* per-execution state *)
StartCounters ==
    /\ used' = {} /\ expansions' = 0 /\ errors' = 0 /\ lastSig' = NoSig /\ repeats' = 0
    /\ searches' = 0 /\ verifies' = 0 /\ continues' = 0 /\ fakes' = 0
    /\ toolFailed' = FALSE /\ recorded' = 0

(* _executeAgentLoop up to its loop: the preflight's buildMessages consumes   *)
(* a hint that the last request of an earlier attempt staged                  *)
Begin(rt) ==
    /\ pc' = "top"
    /\ aborted' = FALSE
    /\ StartCounters
    /\ original' = model
    /\ model' = IF rt = "cheap" THEN "cheap" ELSE model
    /\ turns' = 0
    /\ final' = "none"
    /\ hint' = FALSE
    /\ open' = 0
    /\ asked' = 0 /\ owed' = FALSE
    /\ UNCHANGED <<batch, hadError, request, overflowed>>

execute(rt) ==
    /\ pc = "idle"
    /\ runs < MaxRuns
    /\ runs' = runs + 1
    /\ tries' = 0
    /\ route' = rt
    /\ Begin(rt)

(* the backoff is over *)
Retry ==
    /\ pc = "backoff"
    /\ Begin(route)
    /\ UNCHANGED <<runs, tries, route>>

(* the finally block *)
ModelAfter == original

(* the attempt returns f *)
Return(f) ==
    /\ pc' = "idle"
    /\ final' = f
    /\ model' = ModelAfter
    /\ UNCHANGED execution

(* Mutant: retries are not counted. *)
TriesAfter_Uncounted == tries

TriesAfter == tries + 1

(* the attempt throws; "Request aborted" is retryable like any unknown error *)
Throw(retryable) ==
    LET again == retryable /\ tries < MaxRetries IN
    /\ pc' = IF again THEN "backoff" ELSE "idle"
    /\ tries' = IF again THEN TriesAfter ELSE tries
    /\ final' = "failed"
    /\ model' = ModelAfter
    /\ UNCHANGED <<runs, route, original>>

(* kill(), from the session's interrupt() *)
kill ==
    /\ pc \in Attempting
    /\ ~aborted
    /\ aborted' = TRUE
    /\ UNCHANGED <<pc, execution, model, turns, final, counters, turn, hint, request, history>>
-----------------------------------------------------------------------------
(* The request *)

(* pendingRecoveryHint after buildMessages *)
HintAfterBuild == FALSE

(* the tools a request offers: none on the last turn *)
Offered ==
    IF turns >= MaxTurns - 1 THEN {}
    ELSE IF Essential = {} THEN Registered
    ELSE Essential \cup (used \cap Registered)

(* the messages are built, and compressed by the level of their size *)
Compose ==
    /\ pc = "top"
    /\ turns < MaxTurns
    /\ pc' = "waiting"
    /\ \E level \in {"graduated", "emergency"} :
          request' = [model |-> model, tools |-> Offered, hint |-> hint, context |-> level]
    /\ hint' = HintAfterBuild
    /\ UNCHANGED <<execution, model, aborted, turns, final, counters, turn, history>>

(* the summary and the wait for the rate limit are over *)
Send ==
    /\ pc = "waiting"
    /\ \/ /\ ~aborted
          /\ pc' = "asking"
          /\ asked' = asked + 1
          /\ owed' = FALSE
          /\ UNCHANGED <<execution, model, final>>
       \/ /\ aborted
          /\ Throw(TRUE)
          /\ UNCHANGED <<asked, owed>>
    /\ UNCHANGED <<aborted, turns, counters, turn, hint, request, overflowed>>

(* the turns are used up *)
Exhaust ==
    /\ pc = "top"
    /\ turns = MaxTurns
    /\ Return(IF final = "none" THEN "exhausted" ELSE final)
    /\ UNCHANGED <<aborted, turns, counters, turn, hint, request, history>>

(* 413, or 400 that names the context: what forceCompress returns is assigned *)
(* and the loop begins again, without a turn                                  *)
Overflow ==
    /\ pc = "asking"
    /\ pc' = "top"
    /\ request' = [request EXCEPT !.context = "emergency"]
    /\ asked' = asked - 1
    /\ overflowed' = TRUE
    /\ UNCHANGED <<execution, model, aborted, turns, final, counters, turn, hint, owed>>

(* any other error response, a failing connection, an abort, or the watchdog's *)
(* kill                                                                        *)
RequestFails ==
    /\ pc = "asking"
    /\ \E retryable \in BOOLEAN : (aborted => retryable) /\ Throw(retryable)
    /\ overflowed' = FALSE
    /\ UNCHANGED <<aborted, turns, counters, turn, hint, request, asked, owed>>
-----------------------------------------------------------------------------
(* The answer: g when one of the stream's guards cut it short *)

Answer(g) ==
    /\ pc = "asking"
    /\ hint' = (g \/ hint)
    /\ owed' = g
    /\ overflowed' = FALSE
    /\ UNCHANGED <<aborted, request, asked>>

MayCall == turns < MaxTurns - 1

Names(b) == {b[i] : i \in DOMAIN b}

(* the registered tools it calls that the attempt has not used *)
Missing(b) == (Names(b) \cap Registered) \ (Essential \cup used)

Expands(b) == Missing(b) # {} /\ expansions < MaxExpansions

(* the answer is dropped and the model asked again with the tools it wants *)
AnswerExpands(g, b) ==
    /\ Answer(g)
    /\ MayCall
    /\ Expands(b)
    /\ pc' = "top"
    /\ used' = used \cup Missing(b)
    /\ expansions' = expansions + 1
    /\ UNCHANGED <<execution, model, turns, final, errors, lastSig, repeats, searches,
                   verifies, continues, fakes, toolFailed, recorded, turn>>

(* Mutant: repeated calls are answered for ever. *)
StopsRepeat_Never(n) == FALSE

StopsRepeat(n) == n >= 2

(* the calls of the last turn again: a correction in place of their results, *)
(* then the end                                                              *)
AnswerRepeats(g, b) ==
    /\ Answer(g)
    /\ MayCall
    /\ ~Expands(b)
    /\ b = lastSig
    /\ repeats' = repeats + 1
    /\ IF StopsRepeat(repeats + 1)
       THEN Return(IF final = "none" THEN "stopped" ELSE final)
       ELSE pc' = "top" /\ UNCHANGED <<execution, model, final>>
    /\ UNCHANGED <<turns, used, expansions, errors, lastSig, searches, verifies,
                   continues, fakes, toolFailed, recorded, turn>>

(* other calls, or the same tools with other arguments *)
AnswerCalls(g, b) ==
    /\ Answer(g)
    /\ MayCall
    /\ ~Expands(b)
    /\ pc' = "tools"
    /\ repeats' = 0
    /\ lastSig' = b
    /\ batch' = b
    /\ hadError' = FALSE
    /\ open' = open + Len(b)
    /\ UNCHANGED <<execution, model, turns, final, used, expansions, errors, searches,
                   verifies, continues, fakes, toolFailed, recorded>>
-----------------------------------------------------------------------------
(* The tools *)

(* Mutant: a search over the cap gets no result. *)
Results_Uncapped(capped) == IF capped THEN 0 ELSE 1

(* tool messages pushed for one call that does not break off the attempt *)
Results(capped) == 1

(* one call: its arguments do not parse, or it is a search over the cap, or it *)
(* runs                                                                        *)
RunTool(parses, fails) ==
    LET tool   == Head(batch)
        search == parses /\ tool = WebSearch
        capped == search /\ searches + 1 > MaxSearches
    IN
    /\ pc = "tools"
    /\ batch # <<>>
    /\ tool \notin Registered => fails
    /\ batch' = Tail(batch)
    /\ used' = used \cup {tool}
    /\ searches' = IF search THEN searches + 1 ELSE searches
    /\ hadError' = (hadError \/ (parses /\ (capped \/ fails)))
    /\ open' = open - Results(capped)
    /\ UNCHANGED <<pc, execution, model, aborted, turns, final, expansions, errors, lastSig,
                   repeats, verifies, continues, fakes, toolFailed, recorded, hint, request, history>>

(* a callback throws, or the file that a long result is spilled to cannot be *)
(* written: the attempt ends, and the calls that were not answered by then    *)
(* stay in the history.  Its counters are not read again.                     *)
ToolBreaks(parses, retryable) ==
    /\ pc = "tools"
    /\ batch # <<>>
    /\ aborted => retryable
    /\ Throw(retryable)
    /\ batch' = <<>>
    /\ open' = IF parses THEN open ELSE open - Results(FALSE)
    /\ UNCHANGED <<aborted, turns, counters, hadError, hint, request, history>>

(* consecutiveErrors after the batch *)
ErrorsAfter == IF hadError THEN errors + 1 ELSE 0

(* Mutant: the turn after the summary may fail too. *)
GivesUp_Late(n) == n > SummaryAt + 1

GivesUp(n) == n > SummaryAt

(* the results are in: the model is asked again, for a summary after           *)
(* SummaryAt failing turns; another failing turn or the loop detector ends it  *)
AfterTools ==
    /\ pc = "tools"
    /\ batch = <<>>
    /\ toolFailed' = hadError
    /\ errors' = ErrorsAfter
    /\ \/ /\ GivesUp(ErrorsAfter)
          /\ Return(IF final = "none" THEN "stopped" ELSE final)
          /\ UNCHANGED <<turns, recorded>>
       \/ /\ ErrorsAfter < SummaryAt
          /\ recorded' = recorded + 1
          /\ recorded + 1 >= CriticalAt
          /\ Return("stopped")
          /\ UNCHANGED turns
       \/ /\ ~GivesUp(ErrorsAfter)
          /\ recorded' = IF ErrorsAfter = SummaryAt THEN recorded ELSE recorded + 1
          /\ pc' = "top"
          /\ turns' = turns + 1
          /\ UNCHANGED <<execution, model, final>>
    /\ UNCHANGED <<aborted, used, expansions, lastSig, repeats, searches, verifies,
                   continues, fakes, turn, hint, request, history>>
-----------------------------------------------------------------------------
(* An answer without calls, or on the last turn, where they are ignored *)

NextTurn == pc' = "top" /\ turns' = turns + 1 /\ UNCHANGED <<execution, model>>

(* "I will ...": told to do it now *)
AnswerPromises(g) ==
    /\ Answer(g)
    /\ continues < MaxContinues
    /\ continues' = continues + 1
    /\ NextTurn
    /\ UNCHANGED <<final, used, expansions, errors, lastSig, repeats, searches, verifies,
                   fakes, toolFailed, recorded, turn>>

(* an answer made up after a tool failed: told so *)
AnswerFabricates(g) ==
    /\ Answer(g)
    /\ toolFailed
    /\ fakes < MaxFakes
    /\ fakes' = fakes + 1
    /\ toolFailed' = FALSE
    /\ NextTurn
    /\ UNCHANGED <<final, used, expansions, errors, lastSig, repeats, searches, verifies,
                   continues, recorded, turn>>

MayVerify == verifies < MaxVerifies

(* accepted, or left to the verifier when something in it looks risky; the    *)
(* content may be empty                                                       *)
AnswerEnds(g) ==
    /\ Answer(g)
    /\ \/ \E f \in {"none", "answer"} : Return(f)
       \/ /\ MayVerify
          /\ pc' = "verifying"
          /\ final' = "answer"
          /\ UNCHANGED <<execution, model>>
    /\ UNCHANGED <<turns, counters, turn>>

(* the verifier passes the answer or breaks down *)
VerifierPasses ==
    /\ pc = "verifying"
    /\ Return("answer")
    /\ UNCHANGED <<aborted, turns, counters, turn, hint, request, history>>

(* it fails the answer: a correction and another turn *)
VerifierFails ==
    /\ pc = "verifying"
    /\ final' = "flagged"
    /\ verifies' = verifies + 1
    /\ NextTurn
    /\ UNCHANGED <<aborted, used, expansions, errors, lastSig, repeats, searches, continues,
                   fakes, toolFailed, recorded, turn, hint, request, history>>
-----------------------------------------------------------------------------
StreamEnds ==
    \E g \in BOOLEAN :
        \/ \E b \in Batches : AnswerExpands(g, b) \/ AnswerRepeats(g, b) \/ AnswerCalls(g, b)
        \/ AnswerPromises(g) \/ AnswerFabricates(g) \/ AnswerEnds(g)

Response == Overflow \/ RequestFails \/ StreamEnds

Tool == \E parses, fails \in BOOLEAN : RunTool(parses, fails) \/ ToolBreaks(parses, fails)

Verdict == VerifierPasses \/ VerifierFails

Next ==
    \/ \E rt \in Models : execute(rt)
    \/ Retry \/ Compose \/ Send \/ Exhaust \/ Response \/ Tool \/ AfterTools \/ Verdict
    \/ kill

Spec == Init /\ [][Next]_vars

(* Every await ends: fetch and the stream by the watchdog and the timeouts of *)
(* the runtime, a tool by its own, the verifier as an executor of its own.    *)
(* Nobody must send a prompt or interrupt.                                    *)
Fairness ==
    /\ WF_vars(Retry) /\ WF_vars(Compose) /\ WF_vars(Send) /\ WF_vars(Exhaust)
    /\ WF_vars(Response) /\ WF_vars(Tool) /\ WF_vars(AfterTools) /\ WF_vars(Verdict)

FairSpec == Spec /\ Fairness
-----------------------------------------------------------------------------
(* An attempt makes a bounded number of requests, whatever the model answers: *)
(* neither the expansions nor the corrections of a repeated call, which take  *)
(* no turn, ask for ever.                                                     *)
RequestsBounded == asked < 2 * MaxTurns + MaxExpansions

(* Every call an attempt has taken into the history has a result there when   *)
(* it asks again or ends, on whichever path the call was answered, and only   *)
(* an attempt that fails leaves calls without one.                            *)
CallsAnswered ==
    /\ pc \in {"top", "waiting", "asking", "verifying"} => open = 0
    /\ pc \in {"idle", "backoff"} /\ open > 0 => final = "failed"

(* After SummaryAt failing turns in a row one more may fail, and none after   *)
(* it: the attempt has ended.                                                 *)
ErrorsStop == errors > SummaryAt => errors = SummaryAt + 1 /\ pc \in {"idle", "backoff"}

(* A request names the model its prompt was routed to, through any number of  *)
(* executions, failures and retries.                                          *)
RoutedModel == pc \in {"waiting", "asking"} => request.model = route

(* A recovery hint goes with the next request of its attempt, and with no     *)
(* other.                                                                     *)
HintSentOnce == [][pc = "waiting" /\ pc' = "asking" => request.hint = owed]_vars

(* An answer is dropped for an expansion only when it calls for a tool the    *)
(* request did not offer.                                                     *)
ExpandsForMissing ==
    [][expansions' = expansions + 1 => ~(used' \ used \subseteq request.tools)]_vars

(* Every execution settles, unless the provider goes on to answer that the    *)
(* context is too long.                                                       *)
Settles == <>[]~overflowed => (pc # "idle" ~> pc = "idle")

(* "retry with compressed context": the request after an overflow holds what  *)
(* the emergency compression made.                                            *)
RetryIsCompressed ==
    [][pc = "waiting" /\ pc' = "asking" /\ overflowed => request.context = "emergency"]_vars
=============================================================================
