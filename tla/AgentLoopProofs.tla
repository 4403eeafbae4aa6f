-------------------------- MODULE AgentLoopProofs --------------------------
(***************************************************************************)
(* Proofs about AgentLoop.tla and about the history its requests are made  *)
(* of, History.tla, for any tools, any answers, any caps and any sizes.    *)
(*                                                                         *)
(* Safe is inductive by itself; each of RequestsCounted, ModelKept,        *)
(* HintKept and OfferKept is over Safe, and Budget is why the requests of  *)
(* an attempt are bounded: a turn, an expansion or a repetition pays for   *)
(* each of them.                                                           *)
(*                                                                         *)
(* In HistInv a history is of clean messages, its calls come before their  *)
(* results, and until the first answer it ends in the prompt with at most  *)
(* two blocks before it.  Pruning, splitting, exchanging the middle for a  *)
(* marker, sanitizing and merging each keep what a request needs of that.  *)
(***************************************************************************)
EXTENDS AgentLoop, History, SequenceLemmas

(* TypeOK in parts small enough for the provers *)
TypeControl ==
    /\ pc \in {"idle", "backoff"} \cup Attempting
    /\ runs \in 0..MaxRuns /\ tries \in 0..MaxRetries
    /\ route \in Models /\ model \in Models /\ original \in Models
    /\ turns \in 0..MaxTurns /\ final \in Answers

TypeCounters ==
    /\ used \in SUBSET Tools /\ expansions \in 0..MaxExpansions
    /\ errors \in Nat /\ repeats \in Nat /\ searches \in Nat
    /\ lastSig \in Batches \cup {NoSig}
    /\ verifies \in 0..MaxVerifies /\ continues \in 0..MaxContinues /\ fakes \in 0..MaxFakes
    /\ recorded \in Nat

TypeTurn == batch \in Seq(Tools) /\ open \in Nat /\ asked \in Nat

TypeFlags ==
    /\ aborted \in BOOLEAN /\ toolFailed \in BOOLEAN /\ hadError \in BOOLEAN
    /\ hint \in BOOLEAN /\ owed \in BOOLEAN /\ overflowed \in BOOLEAN

TypeRequest == request \in Request

(* Where an attempt is, it has turns left for what it does there. *)
TurnsLeft ==
    /\ pc \in {"waiting", "asking", "verifying"} => turns < MaxTurns
    /\ pc = "tools" => turns < MaxTurns - 1
    /\ pc = "verifying" => verifies < MaxVerifies
    /\ pc = "asking" => asked >= 1

(* The calls without a result are those still to be run, or left by a tool   *)
(* step that broke off the attempt.                                          *)
CallsOpen == (pc = "tools" => open = Len(batch)) /\ CallsAnswered

(* What requests have been made for: two a turn at most, one of them for the *)
(* repetition of a call, and one an expansion.                               *)
Budget == 2 * turns + expansions + (IF turns < MaxTurns - 1 THEN repeats ELSE 0)

RequestsCounted ==
    /\ pc \in Attempting => repeats <= 1
    /\ pc \in {"top", "waiting"} /\ turns < MaxTurns => asked <= Budget
    /\ pc \in {"asking", "verifying"} => asked <= Budget + 1
    /\ pc = "tools" => asked <= 2 * turns + expansions + 2

(* The model of the prompt in an attempt, the first model between attempts. *)
ModelKept ==
    /\ pc \notin Attempting => model = "primary"
    /\ pc \in Attempting => original = "primary" /\ model = route

(* A staged hint is one that is owed, and a request takes it along. *)
HintKept ==
    /\ pc \in {"top", "tools", "verifying"} => hint = owed
    /\ pc = "waiting" => request.hint = owed /\ hint = FALSE
    /\ pc = "asking" => hint = FALSE /\ owed = FALSE

(* The tools a request offers are still those of the expansion's test. *)
OfferKept == pc \in {"waiting", "asking"} => request.tools = Offered

Safe == TypeControl /\ TypeCounters /\ TypeTurn /\ TypeFlags
        /\ TypeRequest /\ TurnsLeft /\ CallsOpen /\ ErrorsStop

IInv == Safe /\ RequestsCounted /\ RequestsBounded /\ ModelKept /\ RoutedModel
        /\ HintKept /\ OfferKept
-----------------------------------------------------------------------------
(* An executor begins with the invariant. *)
LEMMA InitInv == Init => IInv
<1> SUFFICES ASSUME Init PROVE IInv
  OBVIOUS
<1> USE CapsAssumption DEF Init
<1>1. TypeRequest
  BY DEF TypeRequest, Request, NoRequest, Models
<1>2. TypeControl
  BY DEF TypeControl, Attempting, Models, Answers
<1>7. TypeTurn
  BY DEF TypeTurn
<1>8. TypeFlags
  BY DEF TypeFlags
<1>3. TypeCounters
  BY DEF TypeCounters, NoSig
<1>4. TurnsLeft /\ CallsOpen /\ ErrorsStop
  BY DEF TurnsLeft, CallsOpen, CallsAnswered, ErrorsStop
<1>5. RequestsCounted /\ RequestsBounded
  BY DEF RequestsCounted, RequestsBounded, Budget, Attempting
<1>6. ModelKept /\ RoutedModel /\ HintKept /\ OfferKept
  BY DEF ModelKept, RoutedModel, HintKept, OfferKept, Attempting
<1> QED BY <1>1, <1>2, <1>3, <1>4, <1>5, <1>6, <1>7, <1>8 DEF IInv, Safe

(* Types, turns, open calls and errors need nothing but one another. *)
LEMMA SafeStep == Safe /\ [Next]_vars => Safe'
<1> SUFFICES ASSUME Safe, [Next]_vars PROVE Safe'
  OBVIOUS
<1> USE CapsAssumption DEF Safe, execution, counters, turn, history
<1>1. ASSUME NEW rt \in Models, execute(rt) PROVE Safe'
  <2>1. TypeControl' /\ TypeTurn' /\ TurnsLeft' /\ CallsOpen'
    BY <1>1 DEF execute, Begin, StartCounters, TypeControl, TypeCounters, TypeTurn,
       TurnsLeft,
       CallsOpen, CallsAnswered, MayCall, Attempting, Models, Answers
  <2>2. TypeCounters' /\ ErrorsStop'
    BY <1>1 DEF execute, Begin, StartCounters, TypeCounters, TurnsLeft, ErrorsStop
  <2>3. TypeFlags'
    BY <1>1 DEF execute, Begin, StartCounters, TypeFlags
  <2>4. TypeRequest'
    BY <1>1 DEF execute, Begin, StartCounters, TypeRequest
  <2> QED BY <2>1, <2>2, <2>3, <2>4
<1>2. ASSUME Retry PROVE Safe'
  <2>1. TypeControl' /\ TypeTurn' /\ TurnsLeft' /\ CallsOpen'
    BY <1>2 DEF Retry, Begin, StartCounters, TypeControl, TypeCounters, TypeTurn,
       TurnsLeft,
       CallsOpen, CallsAnswered, MayCall, Attempting, Models, Answers
  <2>2. TypeCounters' /\ ErrorsStop'
    BY <1>2 DEF Retry, Begin, StartCounters, TypeCounters, TurnsLeft, ErrorsStop
  <2>3. TypeFlags'
    BY <1>2 DEF Retry, Begin, StartCounters, TypeFlags
  <2>4. TypeRequest'
    BY <1>2 DEF Retry, Begin, StartCounters, TypeRequest
  <2> QED BY <2>1, <2>2, <2>3, <2>4
<1>3. ASSUME Compose PROVE Safe'
  <2>1. TypeControl' /\ TypeTurn' /\ TurnsLeft' /\ CallsOpen'
    BY <1>3 DEF Compose, HintAfterBuild, TypeControl, TypeCounters, TypeTurn, TurnsLeft,
       CallsOpen, CallsAnswered, MayCall, Attempting, Models, Answers
  <2>2. TypeCounters' /\ ErrorsStop'
    BY <1>3 DEF Compose, HintAfterBuild, TypeCounters, TurnsLeft, ErrorsStop
  <2>3. TypeFlags'
    BY <1>3 DEF Compose, HintAfterBuild, TypeFlags
  <2>4. TypeRequest'
    <3>1. Offered \in SUBSET Tools
      BY ToolsAssumption DEF Offered, TypeCounters
    <3>2. hint \in BOOLEAN /\ model \in Models
      BY DEF TypeFlags, TypeControl
    <3>3. PICK level \in {"graduated", "emergency"} :
            request' = [model |-> model, tools |-> Offered, hint |-> hint, context |-> level]
      BY <1>3 DEF Compose
    <3> QED BY <3>1, <3>2, <3>3, Zenon DEF TypeRequest, Request
  <2> QED BY <2>1, <2>2, <2>3, <2>4
<1>4. ASSUME Send PROVE Safe'
  <2>1. TypeControl' /\ TypeTurn' /\ TurnsLeft' /\ CallsOpen'
    BY <1>4 DEF Send, Throw, TriesAfter, ModelAfter, TypeControl, TypeCounters,
       TypeTurn, TurnsLeft,
       CallsOpen, CallsAnswered, MayCall, Attempting, Models, Answers
  <2>2. TypeCounters' /\ ErrorsStop'
    BY <1>4 DEF Send, Throw, TriesAfter, ModelAfter, TypeCounters, TurnsLeft, ErrorsStop
  <2>3. TypeFlags'
    BY <1>4 DEF Send, Throw, TriesAfter, ModelAfter, TypeFlags
  <2>4. TypeRequest'
    BY <1>4 DEF Send, Throw, TriesAfter, ModelAfter, TypeRequest
  <2> QED BY <2>1, <2>2, <2>3, <2>4
<1>5. ASSUME Exhaust PROVE Safe'
  <2>1. TypeControl' /\ TypeTurn' /\ TurnsLeft' /\ CallsOpen'
    BY <1>5 DEF Exhaust, Return, ModelAfter, TypeControl, TypeCounters, TypeTurn,
       TurnsLeft,
       CallsOpen, CallsAnswered, MayCall, Attempting, Models, Answers
  <2>2. TypeCounters' /\ ErrorsStop'
    BY <1>5 DEF Exhaust, Return, ModelAfter, TypeCounters, TurnsLeft, ErrorsStop
  <2>3. TypeFlags'
    BY <1>5 DEF Exhaust, Return, ModelAfter, TypeFlags
  <2>4. TypeRequest'
    BY <1>5 DEF Exhaust, Return, ModelAfter, TypeRequest
  <2> QED BY <2>1, <2>2, <2>3, <2>4
<1>6. ASSUME Overflow PROVE Safe'
  <2>1. TypeControl' /\ TypeTurn' /\ TurnsLeft' /\ CallsOpen'
    <3>1. asked' \in Nat
      BY <1>6 DEF Overflow, TypeTurn, TurnsLeft
    <3>2. TypeControl' /\ TurnsLeft'
      BY <1>6 DEF Overflow, TypeControl, TurnsLeft, Attempting
    <3> QED BY <1>6, <3>1, <3>2 DEF Overflow, TypeTurn, CallsOpen, CallsAnswered
  <2>2. TypeCounters' /\ ErrorsStop'
    BY <1>6 DEF Overflow, TypeCounters, TurnsLeft, ErrorsStop
  <2>3. TypeFlags'
    BY <1>6 DEF Overflow, TypeFlags
  <2>4. TypeRequest'
    BY <1>6 DEF Overflow, TypeRequest, Request
  <2> QED BY <2>1, <2>2, <2>3, <2>4
<1>7. ASSUME RequestFails PROVE Safe'
  <2>1. TypeControl' /\ TypeTurn' /\ TurnsLeft' /\ CallsOpen'
    BY <1>7 DEF RequestFails, Throw, TriesAfter, ModelAfter, TypeControl,
       TypeCounters, TypeTurn, TurnsLeft,
       CallsOpen, CallsAnswered, MayCall, Attempting, Models, Answers
  <2>2. TypeCounters' /\ ErrorsStop'
    BY <1>7 DEF RequestFails, Throw, TriesAfter, ModelAfter, TypeCounters, TurnsLeft,
       ErrorsStop
  <2>3. TypeFlags'
    BY <1>7 DEF RequestFails, Throw, TriesAfter, ModelAfter, TypeFlags
  <2>4. TypeRequest'
    BY <1>7 DEF RequestFails, Throw, TriesAfter, ModelAfter, TypeRequest
  <2> QED BY <2>1, <2>2, <2>3, <2>4
<1>8. ASSUME NEW g \in BOOLEAN, NEW b \in Batches, AnswerExpands(g, b) PROVE Safe'
  <2>1. TypeControl' /\ TypeTurn' /\ TurnsLeft' /\ CallsOpen'
    BY <1>8 DEF AnswerExpands, Answer, Expands, TypeControl, TypeCounters, TypeTurn,
       TurnsLeft,
       CallsOpen, CallsAnswered, MayCall, Attempting, Models, Answers
  <2>2. TypeCounters' /\ ErrorsStop'
    <3>1. Missing(b) \in SUBSET Tools
      BY ToolsAssumption DEF Missing
    <3> QED BY <1>8, <3>1 DEF AnswerExpands, Expands, TypeCounters, ErrorsStop, Answer
  <2>3. TypeFlags'
    BY <1>8 DEF AnswerExpands, Answer, Expands, TypeFlags
  <2>4. TypeRequest'
    BY <1>8 DEF AnswerExpands, Answer, Expands, TypeRequest
  <2> QED BY <2>1, <2>2, <2>3, <2>4
<1>9. ASSUME NEW g \in BOOLEAN, NEW b \in Batches, AnswerRepeats(g, b) PROVE Safe'
  <2>1. TypeControl' /\ TypeTurn' /\ TurnsLeft' /\ CallsOpen'
    BY <1>9 DEF AnswerRepeats, Answer, StopsRepeat, Return, ModelAfter, TypeControl,
       TypeCounters, TypeTurn, TurnsLeft,
       CallsOpen, CallsAnswered, MayCall, Attempting, Models, Answers
  <2>2. TypeCounters' /\ ErrorsStop'
    BY <1>9 DEF AnswerRepeats, Answer, StopsRepeat, Return, ModelAfter, TypeCounters,
       TurnsLeft, ErrorsStop
  <2>3. TypeFlags'
    BY <1>9 DEF AnswerRepeats, Answer, StopsRepeat, Return, ModelAfter, TypeFlags
  <2>4. TypeRequest'
    BY <1>9 DEF AnswerRepeats, Answer, StopsRepeat, Return, ModelAfter, TypeRequest
  <2> QED BY <2>1, <2>2, <2>3, <2>4
<1>10. ASSUME NEW g \in BOOLEAN, NEW b \in Batches, AnswerCalls(g, b) PROVE Safe'
  <2>1. TypeControl' /\ TypeTurn' /\ TurnsLeft' /\ CallsOpen'
    BY <1>10, ToolsAssumption DEF AnswerCalls, Answer, TypeControl, TypeCounters,
       TypeTurn, TurnsLeft,
       CallsOpen, CallsAnswered, MayCall, Attempting, Models, Answers
  <2>2. TypeCounters' /\ ErrorsStop'
    BY <1>10 DEF AnswerCalls, Answer, TypeCounters, TurnsLeft, ErrorsStop
  <2>3. TypeFlags'
    BY <1>10 DEF AnswerCalls, Answer, TypeFlags
  <2>4. TypeRequest'
    BY <1>10 DEF AnswerCalls, Answer, TypeRequest
  <2> QED BY <2>1, <2>2, <2>3, <2>4
<1>11. ASSUME NEW g \in BOOLEAN, AnswerPromises(g) PROVE Safe'
  <2>1. TypeControl' /\ TypeTurn' /\ TurnsLeft' /\ CallsOpen'
    BY <1>11 DEF AnswerPromises, Answer, NextTurn, TypeControl, TypeCounters,
       TypeTurn, TurnsLeft,
       CallsOpen, CallsAnswered, MayCall, Attempting, Models, Answers
  <2>2. TypeCounters' /\ ErrorsStop'
    BY <1>11 DEF AnswerPromises, Answer, NextTurn, TypeCounters, TurnsLeft, ErrorsStop
  <2>3. TypeFlags'
    BY <1>11 DEF AnswerPromises, Answer, NextTurn, TypeFlags
  <2>4. TypeRequest'
    BY <1>11 DEF AnswerPromises, Answer, NextTurn, TypeRequest
  <2> QED BY <2>1, <2>2, <2>3, <2>4
<1>12. ASSUME NEW g \in BOOLEAN, AnswerFabricates(g) PROVE Safe'
  <2>1. TypeControl' /\ TypeTurn' /\ TurnsLeft' /\ CallsOpen'
    BY <1>12 DEF AnswerFabricates, Answer, NextTurn, TypeControl, TypeCounters,
       TypeTurn, TurnsLeft,
       CallsOpen, CallsAnswered, MayCall, Attempting, Models, Answers
  <2>2. TypeCounters' /\ ErrorsStop'
    BY <1>12 DEF AnswerFabricates, Answer, NextTurn, TypeCounters, TurnsLeft, ErrorsStop
  <2>3. TypeFlags'
    BY <1>12 DEF AnswerFabricates, Answer, NextTurn, TypeFlags
  <2>4. TypeRequest'
    BY <1>12 DEF AnswerFabricates, Answer, NextTurn, TypeRequest
  <2> QED BY <2>1, <2>2, <2>3, <2>4
<1>13. ASSUME NEW g \in BOOLEAN, AnswerEnds(g) PROVE Safe'
  <2>1. TypeControl' /\ TypeTurn' /\ TurnsLeft' /\ CallsOpen'
    BY <1>13 DEF AnswerEnds, MayVerify, Answer, Return, ModelAfter, TypeControl,
       TypeCounters,
       TypeTurn, TurnsLeft,
       CallsOpen, CallsAnswered, MayCall, Attempting, Models, Answers
  <2>2. TypeCounters' /\ ErrorsStop'
    BY <1>13 DEF AnswerEnds, MayVerify, Answer, Return, ModelAfter, TypeCounters,
       TurnsLeft,
       ErrorsStop
  <2>3. TypeFlags'
    BY <1>13 DEF AnswerEnds, MayVerify, Answer, Return, ModelAfter, TypeFlags
  <2>4. TypeRequest'
    BY <1>13 DEF AnswerEnds, MayVerify, Answer, Return, ModelAfter, TypeRequest
  <2> QED BY <2>1, <2>2, <2>3, <2>4
<1>14. ASSUME NEW parses \in BOOLEAN, NEW fails \in BOOLEAN, RunTool(parses, fails) PROVE Safe'
  <2>1. TypeControl' /\ TypeTurn' /\ TurnsLeft' /\ CallsOpen'
    BY <1>14, ToolsAssumption DEF RunTool, Results, TypeControl, TypeCounters,
       TypeTurn, TurnsLeft,
       CallsOpen, CallsAnswered, MayCall, Attempting, Models, Answers
  <2>2. TypeCounters' /\ ErrorsStop'
    <3>1. Head(batch) \in Tools
      BY <1>14 DEF RunTool, TypeTurn
    <3>2. searches' \in Nat
      BY <1>14 DEF RunTool, TypeCounters
    <3>3. used' \in SUBSET Tools
      BY <1>14, <3>1 DEF RunTool, TypeCounters
    <3> QED BY <1>14, <3>2, <3>3 DEF RunTool, TypeCounters, ErrorsStop
  <2>3. TypeFlags'
    BY <1>14 DEF RunTool, Results, TypeFlags
  <2>4. TypeRequest'
    BY <1>14 DEF RunTool, Results, TypeRequest
  <2> QED BY <2>1, <2>2, <2>3, <2>4
<1>15. ASSUME AfterTools PROVE Safe'
  <2>1. TypeControl' /\ TypeTurn' /\ TurnsLeft' /\ CallsOpen'
    BY <1>15 DEF AfterTools, ErrorsAfter, GivesUp, Return, ModelAfter, TypeControl,
       TypeCounters, TypeTurn, TurnsLeft,
       CallsOpen, CallsAnswered, MayCall, Attempting, Models, Answers
  <2>2. TypeCounters' /\ ErrorsStop'
    BY <1>15 DEF AfterTools, ErrorsAfter, GivesUp, Return, ModelAfter, TypeCounters,
       TurnsLeft, ErrorsStop
  <2>3. TypeFlags'
    BY <1>15 DEF AfterTools, ErrorsAfter, GivesUp, Return, ModelAfter, TypeFlags
  <2>4. TypeRequest'
    BY <1>15 DEF AfterTools, ErrorsAfter, GivesUp, Return, ModelAfter, TypeRequest
  <2> QED BY <2>1, <2>2, <2>3, <2>4
<1>16. ASSUME VerifierPasses PROVE Safe'
  <2>1. TypeControl' /\ TypeTurn' /\ TurnsLeft' /\ CallsOpen'
    BY <1>16 DEF VerifierPasses, Return, ModelAfter, TypeControl, TypeCounters,
       TypeTurn, TurnsLeft,
       CallsOpen, CallsAnswered, MayCall, Attempting, Models, Answers
  <2>2. TypeCounters' /\ ErrorsStop'
    BY <1>16 DEF VerifierPasses, Return, ModelAfter, TypeCounters, TurnsLeft, ErrorsStop
  <2>3. TypeFlags'
    BY <1>16 DEF VerifierPasses, Return, ModelAfter, TypeFlags
  <2>4. TypeRequest'
    BY <1>16 DEF VerifierPasses, Return, ModelAfter, TypeRequest
  <2> QED BY <2>1, <2>2, <2>3, <2>4
<1>17. ASSUME VerifierFails PROVE Safe'
  <2>1. TypeControl' /\ TypeTurn' /\ TurnsLeft' /\ CallsOpen'
    BY <1>17 DEF VerifierFails, NextTurn, TypeControl, TypeCounters, TypeTurn,
       TurnsLeft,
       CallsOpen, CallsAnswered, MayCall, Attempting, Models, Answers
  <2>2. TypeCounters' /\ ErrorsStop'
    BY <1>17 DEF VerifierFails, NextTurn, TypeCounters, TurnsLeft, ErrorsStop
  <2>3. TypeFlags'
    BY <1>17 DEF VerifierFails, NextTurn, TypeFlags
  <2>4. TypeRequest'
    BY <1>17 DEF VerifierFails, NextTurn, TypeRequest
  <2> QED BY <2>1, <2>2, <2>3, <2>4
<1>18. ASSUME kill PROVE Safe'
  <2>1. TypeControl' /\ TypeTurn' /\ TurnsLeft' /\ CallsOpen'
    BY <1>18 DEF kill, TypeControl, TypeCounters, TypeTurn, TurnsLeft,
       CallsOpen, CallsAnswered, MayCall, Attempting, Models, Answers
  <2>2. TypeCounters' /\ ErrorsStop'
    BY <1>18 DEF kill, TypeCounters, TurnsLeft, ErrorsStop
  <2>3. TypeFlags'
    BY <1>18 DEF kill, TypeFlags
  <2>4. TypeRequest'
    BY <1>18 DEF kill, TypeRequest
  <2> QED BY <2>1, <2>2, <2>3, <2>4
<1>19. ASSUME NEW parses \in BOOLEAN, NEW retryable \in BOOLEAN, ToolBreaks(parses, retryable) PROVE Safe'
  <2>1. TypeControl'
    BY <1>19 DEF ToolBreaks, Throw, TriesAfter, ModelAfter, TypeControl, Attempting, Answers
  <2>2. open' \in Nat
    <3>1. open = Len(batch) /\ Len(batch) \in Nat \ {0}
      BY <1>19 DEF ToolBreaks, CallsOpen, TypeTurn
    <3> QED BY <1>19, <3>1 DEF ToolBreaks, Results
  <2>3. TypeTurn' /\ TurnsLeft' /\ CallsOpen'
    <3>1. pc' \in {"idle", "backoff"} /\ final' = "failed" /\ batch' = <<>> /\ asked' = asked
      BY <1>19 DEF ToolBreaks, Throw
    <3> QED BY <2>2, <3>1 DEF TypeTurn, TurnsLeft, CallsOpen, CallsAnswered
  <2>4. TypeCounters' /\ ErrorsStop'
    BY <1>19 DEF ToolBreaks, Throw, TypeCounters, ErrorsStop
  <2>5. TypeFlags' /\ TypeRequest'
    BY <1>19 DEF ToolBreaks, Throw, TypeFlags, TypeRequest
  <2> QED BY <2>1, <2>3, <2>4, <2>5
<1>20. ASSUME UNCHANGED vars PROVE Safe'
  <2>1. TypeControl' /\ TypeTurn' /\ TurnsLeft' /\ CallsOpen'
    BY <1>20 DEF vars, TypeControl, TypeCounters, TypeTurn, TurnsLeft,
       CallsOpen, CallsAnswered, MayCall, Attempting, Models, Answers
  <2>2. TypeCounters' /\ ErrorsStop'
    BY <1>20 DEF vars, TypeCounters, TurnsLeft, ErrorsStop
  <2>3. TypeFlags'
    BY <1>20 DEF vars, TypeFlags
  <2>4. TypeRequest'
    BY <1>20 DEF vars, TypeRequest
  <2> QED BY <2>1, <2>2, <2>3, <2>4
<1> QED
  BY <1>1, <1>2, <1>3, <1>4, <1>5, <1>6, <1>7, <1>8, <1>9, <1>10, <1>11, <1>12,
     <1>13, <1>14, <1>15, <1>16, <1>17, <1>18, <1>19, <1>20 DEF Next, Response, StreamEnds,
     Tool, Verdict

(* Safe has the type invariant in it, taken apart. *)
LEMMA SafeIsTyped == Safe => TypeOK
  BY DEF Safe, TypeOK, TypeControl, TypeCounters, TypeTurn, TypeFlags, TypeRequest

(* The budget of requests, over the types and the turns. *)
LEMMA CountStep ==
    Safe /\ RequestsCounted /\ RequestsBounded /\ [Next]_vars
    => RequestsCounted' /\ RequestsBounded'
<1> SUFFICES ASSUME Safe, RequestsCounted, RequestsBounded, [Next]_vars
             PROVE  RequestsCounted' /\ RequestsBounded'
  OBVIOUS
<1>0. /\ MaxTurns \in Nat \ {0} /\ MaxExpansions \in Nat
      /\ turns \in 0..MaxTurns /\ expansions \in 0..MaxExpansions /\ repeats \in Nat
      /\ asked \in Nat
  BY CapsAssumption DEF Safe, TypeControl, TypeCounters, TypeTurn
<1> DEFINE Goal == RequestsCounted' /\ RequestsBounded'
<1> USE <1>0 DEF RequestsCounted, RequestsBounded, Budget, Attempting, Safe, TurnsLeft,
       execution, counters, turn, history
<1>1. ASSUME NEW rt \in Models, execute(rt) PROVE Goal
  BY <1>1 DEF execute, Begin, StartCounters, MayCall
<1>2. ASSUME Retry PROVE Goal
  BY <1>2 DEF Retry, Begin, StartCounters, MayCall
<1>3. ASSUME Compose PROVE Goal
  BY <1>3 DEF Compose, HintAfterBuild, MayCall
<1>4. ASSUME Send PROVE Goal
  BY <1>4 DEF Send, Throw, TriesAfter, ModelAfter, MayCall
<1>5. ASSUME Exhaust PROVE Goal
  BY <1>5 DEF Exhaust, Return, ModelAfter, MayCall
<1>6. ASSUME Overflow PROVE Goal
  BY <1>6 DEF Overflow, MayCall
<1>7. ASSUME RequestFails PROVE Goal
  BY <1>7 DEF RequestFails, Throw, TriesAfter, ModelAfter, MayCall
<1>8. ASSUME NEW g \in BOOLEAN, NEW b \in Batches, AnswerExpands(g, b) PROVE Goal
  BY <1>8 DEF AnswerExpands, Answer, Expands, MayCall
<1>9. ASSUME NEW g \in BOOLEAN, NEW b \in Batches, AnswerRepeats(g, b) PROVE Goal
  BY <1>9 DEF AnswerRepeats, Answer, StopsRepeat, Return, ModelAfter, MayCall
<1>10. ASSUME NEW g \in BOOLEAN, NEW b \in Batches, AnswerCalls(g, b) PROVE Goal
  BY <1>10 DEF AnswerCalls, Answer, MayCall
<1>11. ASSUME NEW g \in BOOLEAN, AnswerPromises(g) PROVE Goal
  BY <1>11 DEF AnswerPromises, Answer, NextTurn, MayCall
<1>12. ASSUME NEW g \in BOOLEAN, AnswerFabricates(g) PROVE Goal
  BY <1>12 DEF AnswerFabricates, Answer, NextTurn, MayCall
<1>13. ASSUME NEW g \in BOOLEAN, AnswerEnds(g) PROVE Goal
  BY <1>13 DEF AnswerEnds, MayVerify, Answer, Return, ModelAfter, MayCall
<1>14. ASSUME NEW parses \in BOOLEAN, NEW fails \in BOOLEAN, RunTool(parses, fails) PROVE Goal
  BY <1>14 DEF RunTool, Results, MayCall
<1>15. ASSUME AfterTools PROVE Goal
  BY <1>15 DEF AfterTools, ErrorsAfter, GivesUp, Return, ModelAfter, MayCall
<1>16. ASSUME VerifierPasses PROVE Goal
  BY <1>16 DEF VerifierPasses, Return, ModelAfter, MayCall
<1>17. ASSUME VerifierFails PROVE Goal
  BY <1>17 DEF VerifierFails, NextTurn, MayCall
<1>18. ASSUME kill PROVE Goal
  BY <1>18 DEF kill, MayCall
<1>19. ASSUME NEW parses \in BOOLEAN, NEW retryable \in BOOLEAN, ToolBreaks(parses, retryable) PROVE Goal
  BY <1>19 DEF ToolBreaks, Throw, TriesAfter, ModelAfter, MayCall
<1>20. ASSUME UNCHANGED vars PROVE Goal
  BY <1>20 DEF vars, MayCall
<1> QED
  BY <1>1, <1>2, <1>3, <1>4, <1>5, <1>6, <1>7, <1>8, <1>9, <1>10, <1>11, <1>12,
     <1>13, <1>14, <1>15, <1>16, <1>17, <1>18, <1>19, <1>20 DEF Next, Response, StreamEnds,
     Tool, Verdict

(* The model of the prompt, through failures and retries. *)
LEMMA ModelStep ==
    Safe /\ ModelKept /\ RoutedModel /\ [Next]_vars => ModelKept' /\ RoutedModel'
<1> SUFFICES ASSUME Safe, ModelKept, RoutedModel, [Next]_vars
             PROVE  ModelKept' /\ RoutedModel'
  OBVIOUS
<1>0. request \in Request /\ route \in Models
  BY DEF Safe, TypeRequest, TypeControl
<1> DEFINE Goal == ModelKept' /\ RoutedModel'
<1> USE <1>0 DEF ModelKept, RoutedModel, Attempting, Models, Request,
       execution, counters, turn, history
<1>1. ASSUME NEW rt \in Models, execute(rt) PROVE Goal
  BY <1>1 DEF execute, Begin, StartCounters
<1>2. ASSUME Retry PROVE Goal
  BY <1>2 DEF Retry, Begin, StartCounters
<1>3. ASSUME Compose PROVE Goal
  BY <1>3 DEF Compose, HintAfterBuild
<1>4. ASSUME Send PROVE Goal
  BY <1>4 DEF Send, Throw, TriesAfter, ModelAfter
<1>5. ASSUME Exhaust PROVE Goal
  BY <1>5 DEF Exhaust, Return, ModelAfter
<1>6. ASSUME Overflow PROVE Goal
  BY <1>6 DEF Overflow
<1>7. ASSUME RequestFails PROVE Goal
  BY <1>7 DEF RequestFails, Throw, TriesAfter, ModelAfter
<1>8. ASSUME NEW g \in BOOLEAN, NEW b \in Batches, AnswerExpands(g, b) PROVE Goal
  BY <1>8 DEF AnswerExpands, Answer, Expands
<1>9. ASSUME NEW g \in BOOLEAN, NEW b \in Batches, AnswerRepeats(g, b) PROVE Goal
  BY <1>9 DEF AnswerRepeats, Answer, StopsRepeat, Return, ModelAfter
<1>10. ASSUME NEW g \in BOOLEAN, NEW b \in Batches, AnswerCalls(g, b) PROVE Goal
  BY <1>10 DEF AnswerCalls, Answer
<1>11. ASSUME NEW g \in BOOLEAN, AnswerPromises(g) PROVE Goal
  BY <1>11 DEF AnswerPromises, Answer, NextTurn
<1>12. ASSUME NEW g \in BOOLEAN, AnswerFabricates(g) PROVE Goal
  BY <1>12 DEF AnswerFabricates, Answer, NextTurn
<1>13. ASSUME NEW g \in BOOLEAN, AnswerEnds(g) PROVE Goal
  BY <1>13 DEF AnswerEnds, MayVerify, Answer, Return, ModelAfter
<1>14. ASSUME NEW parses \in BOOLEAN, NEW fails \in BOOLEAN, RunTool(parses, fails) PROVE Goal
  BY <1>14 DEF RunTool, Results
<1>15. ASSUME AfterTools PROVE Goal
  BY <1>15 DEF AfterTools, ErrorsAfter, GivesUp, Return, ModelAfter
<1>16. ASSUME VerifierPasses PROVE Goal
  BY <1>16 DEF VerifierPasses, Return, ModelAfter
<1>17. ASSUME VerifierFails PROVE Goal
  BY <1>17 DEF VerifierFails, NextTurn
<1>18. ASSUME kill PROVE Goal
  BY <1>18 DEF kill
<1>19. ASSUME NEW parses \in BOOLEAN, NEW retryable \in BOOLEAN, ToolBreaks(parses, retryable) PROVE Goal
  BY <1>19 DEF ToolBreaks, Throw, TriesAfter, ModelAfter
<1>20. ASSUME UNCHANGED vars PROVE Goal
  BY <1>20 DEF vars
<1> QED
  BY <1>1, <1>2, <1>3, <1>4, <1>5, <1>6, <1>7, <1>8, <1>9, <1>10, <1>11, <1>12,
     <1>13, <1>14, <1>15, <1>16, <1>17, <1>18, <1>19, <1>20 DEF Next, Response, StreamEnds,
     Tool, Verdict

(* Hints: a request is composed with the one that is owed and sent with it. *)
LEMMA HintStep == Safe /\ HintKept /\ [Next]_vars => HintKept'
<1> SUFFICES ASSUME Safe, HintKept, [Next]_vars PROVE HintKept'
  OBVIOUS
<1> USE DEF HintKept, Safe, TypeFlags, execution, counters, turn, history
<1>1. ASSUME NEW rt \in Models, execute(rt) PROVE HintKept'
  BY <1>1 DEF execute, Begin, StartCounters
<1>2. ASSUME Retry PROVE HintKept'
  BY <1>2 DEF Retry, Begin, StartCounters
<1>3. ASSUME Compose PROVE HintKept'
  BY <1>3 DEF Compose, HintAfterBuild
<1>4. ASSUME Send PROVE HintKept'
  BY <1>4 DEF Send, Throw, TriesAfter, ModelAfter
<1>5. ASSUME Exhaust PROVE HintKept'
  BY <1>5 DEF Exhaust, Return, ModelAfter
<1>6. ASSUME Overflow PROVE HintKept'
  BY <1>6 DEF Overflow
<1>7. ASSUME RequestFails PROVE HintKept'
  BY <1>7 DEF RequestFails, Throw, TriesAfter, ModelAfter
<1>8. ASSUME NEW g \in BOOLEAN, NEW b \in Batches, AnswerExpands(g, b) PROVE HintKept'
  BY <1>8 DEF AnswerExpands, Answer, Expands
<1>9. ASSUME NEW g \in BOOLEAN, NEW b \in Batches, AnswerRepeats(g, b) PROVE HintKept'
  BY <1>9 DEF AnswerRepeats, Answer, StopsRepeat, Return, ModelAfter
<1>10. ASSUME NEW g \in BOOLEAN, NEW b \in Batches, AnswerCalls(g, b) PROVE HintKept'
  BY <1>10 DEF AnswerCalls, Answer
<1>11. ASSUME NEW g \in BOOLEAN, AnswerPromises(g) PROVE HintKept'
  BY <1>11 DEF AnswerPromises, Answer, NextTurn
<1>12. ASSUME NEW g \in BOOLEAN, AnswerFabricates(g) PROVE HintKept'
  BY <1>12 DEF AnswerFabricates, Answer, NextTurn
<1>13. ASSUME NEW g \in BOOLEAN, AnswerEnds(g) PROVE HintKept'
  BY <1>13 DEF AnswerEnds, MayVerify, Answer, Return, ModelAfter
<1>14. ASSUME NEW parses \in BOOLEAN, NEW fails \in BOOLEAN, RunTool(parses, fails) PROVE HintKept'
  BY <1>14 DEF RunTool, Results
<1>15. ASSUME AfterTools PROVE HintKept'
  BY <1>15 DEF AfterTools, ErrorsAfter, GivesUp, Return, ModelAfter
<1>16. ASSUME VerifierPasses PROVE HintKept'
  BY <1>16 DEF VerifierPasses, Return, ModelAfter
<1>17. ASSUME VerifierFails PROVE HintKept'
  BY <1>17 DEF VerifierFails, NextTurn
<1>18. ASSUME kill PROVE HintKept'
  BY <1>18 DEF kill
<1>19. ASSUME NEW parses \in BOOLEAN, NEW retryable \in BOOLEAN, ToolBreaks(parses, retryable) PROVE HintKept'
  BY <1>19 DEF ToolBreaks, Throw, TriesAfter, ModelAfter
<1>20. ASSUME UNCHANGED vars PROVE HintKept'
  BY <1>20 DEF vars
<1> QED
  BY <1>1, <1>2, <1>3, <1>4, <1>5, <1>6, <1>7, <1>8, <1>9, <1>10, <1>11, <1>12,
     <1>13, <1>14, <1>15, <1>16, <1>17, <1>18, <1>19, <1>20 DEF Next, Response, StreamEnds,
     Tool, Verdict

(* The tools that a request offers, until its answer is there. *)
LEMMA OfferStep == Safe /\ OfferKept /\ [Next]_vars => OfferKept'
<1> SUFFICES ASSUME Safe, OfferKept, [Next]_vars PROVE OfferKept'
  OBVIOUS
<1> USE DEF OfferKept, Offered, execution, counters, turn, history
<1>1. ASSUME NEW rt \in Models, execute(rt) PROVE OfferKept'
  BY <1>1 DEF execute, Begin, StartCounters
<1>2. ASSUME Retry PROVE OfferKept'
  BY <1>2 DEF Retry, Begin, StartCounters
<1>3. ASSUME Compose PROVE OfferKept'
  BY <1>3 DEF Compose, HintAfterBuild
<1>4. ASSUME Send PROVE OfferKept'
  BY <1>4 DEF Send, Throw, TriesAfter, ModelAfter
<1>5. ASSUME Exhaust PROVE OfferKept'
  BY <1>5 DEF Exhaust, Return, ModelAfter
<1>6. ASSUME Overflow PROVE OfferKept'
  BY <1>6 DEF Overflow
<1>7. ASSUME RequestFails PROVE OfferKept'
  BY <1>7 DEF RequestFails, Throw, TriesAfter, ModelAfter
<1>8. ASSUME NEW g \in BOOLEAN, NEW b \in Batches, AnswerExpands(g, b) PROVE OfferKept'
  BY <1>8 DEF AnswerExpands, Answer, Expands
<1>9. ASSUME NEW g \in BOOLEAN, NEW b \in Batches, AnswerRepeats(g, b) PROVE OfferKept'
  BY <1>9 DEF AnswerRepeats, Answer, StopsRepeat, Return, ModelAfter
<1>10. ASSUME NEW g \in BOOLEAN, NEW b \in Batches, AnswerCalls(g, b) PROVE OfferKept'
  BY <1>10 DEF AnswerCalls, Answer
<1>11. ASSUME NEW g \in BOOLEAN, AnswerPromises(g) PROVE OfferKept'
  BY <1>11 DEF AnswerPromises, Answer, NextTurn
<1>12. ASSUME NEW g \in BOOLEAN, AnswerFabricates(g) PROVE OfferKept'
  BY <1>12 DEF AnswerFabricates, Answer, NextTurn
<1>13. ASSUME NEW g \in BOOLEAN, AnswerEnds(g) PROVE OfferKept'
  BY <1>13 DEF AnswerEnds, MayVerify, Answer, Return, ModelAfter
<1>14. ASSUME NEW parses \in BOOLEAN, NEW fails \in BOOLEAN, RunTool(parses, fails) PROVE OfferKept'
  BY <1>14 DEF RunTool, Results
<1>15. ASSUME AfterTools PROVE OfferKept'
  BY <1>15 DEF AfterTools, ErrorsAfter, GivesUp, Return, ModelAfter
<1>16. ASSUME VerifierPasses PROVE OfferKept'
  BY <1>16 DEF VerifierPasses, Return, ModelAfter
<1>17. ASSUME VerifierFails PROVE OfferKept'
  BY <1>17 DEF VerifierFails, NextTurn
<1>18. ASSUME kill PROVE OfferKept'
  BY <1>18 DEF kill
<1>19. ASSUME NEW parses \in BOOLEAN, NEW retryable \in BOOLEAN, ToolBreaks(parses, retryable) PROVE OfferKept'
  BY <1>19 DEF ToolBreaks, Throw, TriesAfter, ModelAfter
<1>20. ASSUME UNCHANGED vars PROVE OfferKept'
  BY <1>20 DEF vars
<1> QED
  BY <1>1, <1>2, <1>3, <1>4, <1>5, <1>6, <1>7, <1>8, <1>9, <1>10, <1>11, <1>12,
     <1>13, <1>14, <1>15, <1>16, <1>17, <1>18, <1>19, <1>20 DEF Next, Response, StreamEnds,
     Tool, Verdict

(* Nothing else counts an expansion. *)
LEMMA OnlyExpansions ==
    ASSUME Safe, [Next]_vars, expansions' = expansions + 1
    PROVE  \E g \in BOOLEAN, b \in Batches : AnswerExpands(g, b)
<1>0. expansions \in Nat
  BY CapsAssumption DEF Safe, TypeCounters
<1> DEFINE Goal == \E g \in BOOLEAN, b \in Batches : AnswerExpands(g, b)
<1> USE <1>0 DEF counters
<1>1. ASSUME NEW rt \in Models, execute(rt) PROVE Goal
  BY <1>1 DEF execute, Begin, StartCounters
<1>2. ASSUME Retry PROVE Goal
  BY <1>2 DEF Retry, Begin, StartCounters
<1>3. ASSUME Compose PROVE Goal
  BY <1>3 DEF Compose, HintAfterBuild
<1>4. ASSUME Send PROVE Goal
  BY <1>4 DEF Send, Throw, TriesAfter, ModelAfter
<1>5. ASSUME Exhaust PROVE Goal
  BY <1>5 DEF Exhaust, Return, ModelAfter
<1>6. ASSUME Overflow PROVE Goal
  BY <1>6 DEF Overflow
<1>7. ASSUME RequestFails PROVE Goal
  BY <1>7 DEF RequestFails, Throw, TriesAfter, ModelAfter
<1>8. ASSUME NEW g \in BOOLEAN, NEW b \in Batches, AnswerExpands(g, b) PROVE Goal
  BY <1>8 DEF AnswerExpands, Answer, Expands
<1>9. ASSUME NEW g \in BOOLEAN, NEW b \in Batches, AnswerRepeats(g, b) PROVE Goal
  BY <1>9 DEF AnswerRepeats, Answer, StopsRepeat, Return, ModelAfter
<1>10. ASSUME NEW g \in BOOLEAN, NEW b \in Batches, AnswerCalls(g, b) PROVE Goal
  BY <1>10 DEF AnswerCalls, Answer
<1>11. ASSUME NEW g \in BOOLEAN, AnswerPromises(g) PROVE Goal
  BY <1>11 DEF AnswerPromises, Answer, NextTurn
<1>12. ASSUME NEW g \in BOOLEAN, AnswerFabricates(g) PROVE Goal
  BY <1>12 DEF AnswerFabricates, Answer, NextTurn
<1>13. ASSUME NEW g \in BOOLEAN, AnswerEnds(g) PROVE Goal
  BY <1>13 DEF AnswerEnds, MayVerify, Answer, Return, ModelAfter
<1>14. ASSUME NEW parses \in BOOLEAN, NEW fails \in BOOLEAN, RunTool(parses, fails) PROVE Goal
  BY <1>14 DEF RunTool, Results
<1>15. ASSUME AfterTools PROVE Goal
  BY <1>15 DEF AfterTools, ErrorsAfter, GivesUp, Return, ModelAfter
<1>16. ASSUME VerifierPasses PROVE Goal
  BY <1>16 DEF VerifierPasses, Return, ModelAfter
<1>17. ASSUME VerifierFails PROVE Goal
  BY <1>17 DEF VerifierFails, NextTurn
<1>18. ASSUME kill PROVE Goal
  BY <1>18 DEF kill
<1>19. ASSUME NEW parses \in BOOLEAN, NEW retryable \in BOOLEAN, ToolBreaks(parses, retryable) PROVE Goal
  BY <1>19 DEF ToolBreaks, Throw, TriesAfter, ModelAfter
<1>20. ASSUME UNCHANGED vars PROVE Goal
  BY <1>20 DEF vars
<1> QED
  BY <1>1, <1>2, <1>3, <1>4, <1>5, <1>6, <1>7, <1>8, <1>9, <1>10, <1>11, <1>12,
     <1>13, <1>14, <1>15, <1>16, <1>17, <1>18, <1>19, <1>20 DEF Next, Response, StreamEnds,
     Tool, Verdict

(* Every step keeps the invariant. *)
LEMMA InvStep == IInv /\ [Next]_vars => IInv'
  BY SafeStep, CountStep, ModelStep, HintStep, OfferStep DEF IInv

(* The invariant holds of every behaviour. *)
LEMMA Invariance == Spec => []IInv
  BY InitInv, InvStep, PTL DEF Spec
-----------------------------------------------------------------------------
(* Every variable keeps to its type, so every cap of the loop keeps: no more  *)
(* turns, retries, expansions, nudges or verifications than allowed.          *)
THEOREM TypeCorrect == Spec => []TypeOK
<1>1. IInv => TypeOK
  BY SafeIsTyped DEF IInv
<1> QED BY Invariance, <1>1, PTL

(* An attempt only asks again with every call it made answered, and only one  *)
(* that fails leaves calls without a result (api-executor.ts, the tool loop). *)
THEOREM EveryCallAnswered == Spec => []CallsAnswered
<1>1. IInv => CallsAnswered
  BY DEF IInv, Safe, CallsOpen, CallsAnswered
<1> QED BY Invariance, <1>1, PTL

(* An attempt asks less often than twice a turn and once an expansion.        *)
THEOREM BoundedRequests == Spec => []RequestsBounded
<1>1. IInv => RequestsBounded
  BY DEF IInv
<1> QED BY Invariance, <1>1, PTL

(* A turn that fails after the summary was asked for is the last.             *)
THEOREM FailingTurnsStop == Spec => []ErrorsStop
<1>1. IInv => ErrorsStop
  BY DEF IInv, Safe
<1> QED BY Invariance, <1>1, PTL

(* Each request names the model its prompt was routed to.                     *)
THEOREM RequestsRouted == Spec => []RoutedModel
<1>1. IInv => RoutedModel
  BY DEF IInv
<1> QED BY Invariance, <1>1, PTL

(* A recovery hint goes with the next request and no other.                   *)
THEOREM HintsSentOnce == Spec => HintSentOnce
<1>1. IInv /\ [Next]_vars => [pc = "waiting" /\ pc' = "asking" => request.hint = owed]_vars
  BY DEF IInv, HintKept
<1> QED BY Invariance, <1>1, PTL DEF Spec, HintSentOnce

(* For a profile with essential tools, an answer is only dropped for an       *)
(* expansion when the request did not offer a tool it calls.                  *)
THEOREM ExpansionsNeeded == Essential # {} => (Spec => ExpandsForMissing)
<1> SUFFICES ASSUME Essential # {} PROVE Spec => ExpandsForMissing
  OBVIOUS
<1> DEFINE Need == expansions' = expansions + 1 => ~(used' \ used \subseteq request.tools)
<1>1. IInv /\ [Next]_vars => [Need]_vars
  <2> SUFFICES ASSUME IInv, Next, expansions' = expansions + 1
               PROVE  ~(used' \ used \subseteq request.tools)
    OBVIOUS
  <2>1. MaxTurns \in Nat /\ turns \in Nat
    BY CapsAssumption DEF IInv, Safe, TypeControl
  <2>2. PICK g \in BOOLEAN, b \in Batches : AnswerExpands(g, b)
    BY OnlyExpansions DEF IInv
  <2>3. PICK t : t \in Missing(b)
    BY <2>2 DEF AnswerExpands, Expands
  <2>4. t \in Registered /\ t \notin Essential /\ t \notin used /\ t \in used'
    BY <2>2, <2>3 DEF AnswerExpands, Missing
  <2>5. request.tools = Essential \cup (used \cap Registered)
    BY <2>1, <2>2 DEF IInv, OfferKept, Offered, AnswerExpands, Answer, MayCall
  <2> QED BY <2>4, <2>5
<1> QED BY Invariance, <1>1, PTL DEF Spec, ExpandsForMissing

-----------------------------------------------------------------------------
(* What messages are about, apart from the auxiliary blocks. *)
PlainItem ==
    {<<"nudge">>, <<"duplicate">>} \cup {<<"prompt", n>> : n \in Nat}
    \cup {<<"result", r>> : r \in Contents} \cup {<<"pruned", n>> : n \in Nat}
AuxItem == {<<"aux", n>> : n \in Nat}

HistMessage ==
    [role : {"system", "user", "assistant", "tool"}, kind : {"live", "aux", "marker", "plain"},
     text : SUBSET (PlainItem \cup AuxItem), calls : SUBSET Nat, of : Nat, size : Nat]

(* The messages a history may have while it is at prompt p. *)
Clean(p) ==
    {m \in HistMessage : /\ m.role = "system" <=> m.kind # "plain"
                         /\ m.kind = "aux" => m = Aux(p)
                         /\ m.kind # "aux" => m.text \subseteq PlainItem
                         /\ m.calls # {} => m.role = "assistant"}

AuxBlocks == {Aux(p) : p \in Prompts}

(* Such an item is not about a block. *)
LEMMA PlainNotAux == \A t \in PlainItem : t[1] # "aux"
  BY DEF PlainItem

(* What messages are about is one of these items. *)
LEMMA PlainItems ==
    /\ <<"nudge">> \in PlainItem /\ <<"duplicate">> \in PlainItem
    /\ \A n \in Nat : <<"prompt", n>> \in PlainItem /\ <<"pruned", n>> \in PlainItem /\ <<"aux", n>> \in AuxItem
    /\ \A r \in Contents : <<"result", r>> \in PlainItem
  BY DEF PlainItem, AuxItem

(* The parts of a clean message, *)
LEMMA CleanType ==
    ASSUME NEW p, NEW m \in Clean(p)
    PROVE  /\ m \in HistMessage
           /\ m.role = "system" <=> m.kind # "plain"
           /\ m.kind = "aux" => m = Aux(p)
           /\ m.kind # "aux" => m.text \subseteq PlainItem
           /\ m.calls # {} => m.role = "assistant"
  BY DEF Clean

(* and of any message. *)
LEMMA MessageType ==
    ASSUME NEW m \in HistMessage
    PROVE  /\ m.role \in {"system", "user", "assistant", "tool"} /\ m.kind \in {"live", "aux", "marker", "plain"}
           /\ m.text \in SUBSET (PlainItem \cup AuxItem) /\ m.calls \in SUBSET Nat /\ m.of \in Nat /\ m.size \in Nat
  BY DEF HistMessage

(* The messages the executor makes. *)
LEMMA MadeMessages ==
    ASSUME NEW p \in Nat
    PROVE  /\ Live \in Clean(p) /\ Said \in Clean(p) /\ Aux(p) \in Clean(p)
           /\ User(<<"nudge">>) \in Clean(p) /\ \A n \in Nat : User(<<"prompt", n>>) \in Clean(p)
           /\ \A c \in SUBSET Nat : Calling(c) \in Clean(p)
           /\ \A c \in Nat, r \in Contents : Result(c, r) \in Clean(p)
           /\ \A items \in SUBSET PlainItem : Marker(items) \in Clean(p)
<1> USE HistoryAssumption DEF Msg, NoCall
<1>1. Live \in Clean(p) /\ Said \in Clean(p)
  BY DEF Live, Said, Clean, HistMessage
<1>2. Aux(p) \in Clean(p)
  <2>1. {<<"aux", p>>} \in SUBSET (PlainItem \cup AuxItem)
    BY PlainItems
  <2>2. Aux(p) \in HistMessage
    BY <2>1 DEF Aux, HistMessage
  <2> QED BY <2>2 DEF Aux, Clean
<1>3. ASSUME NEW t \in PlainItem PROVE User(t) \in Clean(p)
  <2>1. {t} \in SUBSET (PlainItem \cup AuxItem) /\ {t} \subseteq PlainItem
    OBVIOUS
  <2>2. User(t) \in HistMessage
    BY <2>1 DEF User, HistMessage
  <2> QED BY <2>1, <2>2 DEF User, Clean
<1>4. ASSUME NEW c \in SUBSET Nat PROVE Calling(c) \in Clean(p)
  BY DEF Calling, Clean, HistMessage
<1>5. ASSUME NEW c \in Nat, NEW r \in Contents PROVE Result(c, r) \in Clean(p)
  <2>1. {<<"result", r>>} \in SUBSET (PlainItem \cup AuxItem) /\ {<<"result", r>>} \subseteq PlainItem /\ Size[r] \in Nat
    BY PlainItems
  <2>2. Result(c, r) \in HistMessage
    BY <2>1 DEF Result, HistMessage
  <2> QED BY <2>1, <2>2 DEF Result, Clean
<1>6. ASSUME NEW items \in SUBSET PlainItem PROVE Marker(items) \in Clean(p)
  <2>1. items \in SUBSET (PlainItem \cup AuxItem)
    OBVIOUS
  <2>2. Marker(items) \in HistMessage
    BY <2>1 DEF Marker, HistMessage
  <2> QED BY <2>1, <2>2 DEF Marker, Clean
<1> QED BY <1>1, <1>2, <1>3, <1>4, <1>5, <1>6, PlainItems

(* A block is a system message of its own kind. *)
LEMMA AuxKind == \A m \in AuxBlocks : m.kind = "aux" /\ m.role = "system"
  BY DEF AuxBlocks, Aux, Msg

(* Two sequences joined, place by place. *)
JoinOf(w, a, b) ==
    /\ DOMAIN w = 1..(Len(a) + Len(b))
    /\ \A i \in 1..Len(a) : w[i] = a[i]
    /\ \A i \in 1..Len(b) : w[Len(a) + i] = b[i]
    /\ \A k \in 1..(Len(a) + Len(b)) : k \in 1..Len(a) \/ \E i \in 1..Len(b) : k = Len(a) + i

(* Joining does that. *)
LEMMA JoinShape ==
    ASSUME NEW V, NEW a \in Seq(V), NEW b \in Seq(V)
    PROVE  /\ a \o b \in Seq(V) /\ Len(a \o b) = Len(a) + Len(b)
           /\ JoinOf(a \o b, a, b)
<1>1. /\ a \o b \in Seq(V) /\ Len(a \o b) = Len(a) + Len(b) /\ DOMAIN (a \o b) = 1..(Len(a) + Len(b))
      /\ \A i \in 1..Len(a) : (a \o b)[i] = a[i]
      /\ \A i \in 1..Len(b) : (a \o b)[Len(a) + i] = b[i]
  OBVIOUS
<1>2. ASSUME NEW k \in 1..(Len(a) + Len(b)) PROVE k \in 1..Len(a) \/ \E i \in 1..Len(b) : k = Len(a) + i
  <2>1. Len(a) \in Nat /\ Len(b) \in Nat
    OBVIOUS
  <2>2. k \notin 1..Len(a) => k - Len(a) \in 1..Len(b) /\ k = Len(a) + (k - Len(a))
    BY <2>1
  <2> QED BY <2>2
<1> QED BY <1>1, <1>2 DEF JoinOf

(* The calls that have a result, and where calls and results are. *)
ResultsIn(msgs) == {msgs[i].of : i \in {j \in DOMAIN msgs : msgs[j].role = "tool"}}
CallsFirst(msgs) == \A i, j \in DOMAIN msgs : msgs[i].role = "tool" /\ msgs[i].of \in msgs[j].calls => j < i
Called(msgs) == \A i \in DOMAIN msgs : msgs[i].role = "tool" => \E j \in 1..(i - 1) : msgs[i].of \in msgs[j].calls
Asks(msgs, p) == \E i \in DOMAIN msgs : msgs[i].role = "user" /\ <<"prompt", p>> \in msgs[i].text

(* Two histories joined have the calls and results of both, *)
LEMMA JoinSets ==
    ASSUME NEW V, NEW a \in Seq(V), NEW b \in Seq(V)
    PROVE  /\ Known(a \o b) = Known(a) \cup Known(b)
           /\ ResultsIn(a \o b) = ResultsIn(a) \cup ResultsIn(b)
<1> DEFINE w == a \o b
           n == Len(a)
           m == Len(b)
<1>1. JoinOf(w, a, b)
  BY JoinShape
<1>2. n \in Nat /\ m \in Nat /\ DOMAIN a = 1..n /\ DOMAIN b = 1..m
  OBVIOUS
<1> HIDE DEF w, n, m
<1>3. /\ DOMAIN w = 1..(n + m)
      /\ \A i \in 1..n : w[i] = a[i]
      /\ \A i \in 1..m : w[n + i] = b[i]
      /\ \A k \in 1..(n + m) : k \in 1..n \/ \E i \in 1..m : k = n + i
  BY <1>1 DEF JoinOf, n, m
<1>4. \A i \in 1..n : i \in 1..(n + m)
  BY <1>2
<1>5. \A i \in 1..m : n + i \in 1..(n + m)
  BY <1>2
<1>6. \A x : x \in Known(w) <=> \E k \in 1..(n + m) : x \in w[k].calls
  BY <1>3 DEF Known
<1>7. \A x : (x \in Known(a) <=> \E k \in 1..n : x \in a[k].calls) /\ (x \in Known(b) <=> \E k \in 1..m : x \in b[k].calls)
  BY <1>2 DEF Known
<1>8. \A x : x \in Known(w) <=> x \in Known(a) \/ x \in Known(b)
  BY <1>3, <1>4, <1>5, <1>6, <1>7
<1>9. \A x : x \in ResultsIn(w) <=> \E k \in 1..(n + m) : w[k].role = "tool" /\ x = w[k].of
  BY <1>3 DEF ResultsIn
<1>10. \A x : /\ x \in ResultsIn(a) <=> \E k \in 1..n : a[k].role = "tool" /\ x = a[k].of
              /\ x \in ResultsIn(b) <=> \E k \in 1..m : b[k].role = "tool" /\ x = b[k].of
  BY <1>2 DEF ResultsIn
<1>11. \A x : x \in ResultsIn(w) <=> x \in ResultsIn(a) \/ x \in ResultsIn(b)
  BY <1>3, <1>4, <1>5, <1>9, <1>10
<1> QED BY <1>8, <1>11 DEF w

(* their calls first if no call of the second has its result in the first, *)
LEMMA JoinCallsFirst ==
    ASSUME NEW V, NEW a \in Seq(V), NEW b \in Seq(V)
    PROVE  CallsFirst(a \o b) <=> CallsFirst(a) /\ CallsFirst(b) /\ ResultsIn(a) \cap Known(b) = {}
<1> DEFINE w == a \o b
           n == Len(a)
           m == Len(b)
<1>1. JoinOf(w, a, b)
  BY JoinShape
<1>2. n \in Nat /\ m \in Nat /\ DOMAIN a = 1..n /\ DOMAIN b = 1..m
  OBVIOUS
<1> HIDE DEF w, n, m
<1>3. /\ DOMAIN w = 1..(n + m)
      /\ \A i \in 1..n : w[i] = a[i]
      /\ \A i \in 1..m : w[n + i] = b[i]
      /\ \A k \in 1..(n + m) : k \in 1..n \/ \E i \in 1..m : k = n + i
  BY <1>1 DEF JoinOf, n, m
<1>4. \A i \in 1..n : i \in 1..(n + m)
  BY <1>2
<1>5. \A i \in 1..m : n + i \in 1..(n + m)
  BY <1>2
<1>6. ASSUME CallsFirst(w) PROVE CallsFirst(a) /\ CallsFirst(b) /\ ResultsIn(a) \cap Known(b) = {}
  <2>1. CallsFirst(a)
    BY <1>2, <1>3, <1>4, <1>6 DEF CallsFirst
  <2>2. ASSUME NEW i \in 1..m, NEW j \in 1..m, b[i].role = "tool", b[i].of \in b[j].calls PROVE j < i
    <3>1. n + j < n + i
      BY <1>3, <1>5, <1>6, <2>2 DEF CallsFirst
    <3> QED BY <1>2, <3>1
  <2>3. CallsFirst(b)
    BY <1>2, <2>2 DEF CallsFirst
  <2>4. ASSUME NEW i \in 1..n, NEW j \in 1..m, a[i].role = "tool", a[i].of \in b[j].calls PROVE FALSE
    <3>1. n + j < i
      BY <1>3, <1>4, <1>5, <1>6, <2>4 DEF CallsFirst
    <3> QED BY <1>2, <3>1
  <2>5. ResultsIn(a) \cap Known(b) = {}
    BY <1>2, <2>4 DEF ResultsIn, Known
  <2> QED BY <2>1, <2>3, <2>5
<1>7. ASSUME CallsFirst(a), CallsFirst(b), ResultsIn(a) \cap Known(b) = {} PROVE CallsFirst(w)
  <2>1. ASSUME NEW k \in 1..(n + m), NEW l \in 1..(n + m), w[k].role = "tool", w[k].of \in w[l].calls PROVE l < k
    <3>1. CASE k \in 1..n /\ l \in 1..n
      BY <1>2, <1>3, <1>7, <2>1, <3>1 DEF CallsFirst
    <3>2. CASE k \in 1..n /\ l \notin 1..n
      <4>1. PICK j \in 1..m : l = n + j
        BY <1>3, <3>2
      <4>2. a[k].of \in ResultsIn(a) /\ a[k].of \in Known(b)
        BY <1>2, <1>3, <2>1, <3>2, <4>1 DEF ResultsIn, Known
      <4> QED BY <1>7, <4>2
    <3>3. CASE k \notin 1..n /\ l \in 1..n
      BY <1>2, <3>3
    <3>4. CASE k \notin 1..n /\ l \notin 1..n
      <4>1. PICK i \in 1..m : k = n + i
        BY <1>3, <3>4
      <4>2. PICK j \in 1..m : l = n + j
        BY <1>3, <3>4
      <4>3. j < i
        BY <1>2, <1>3, <1>7, <2>1, <4>1, <4>2 DEF CallsFirst
      <4> QED BY <1>2, <4>1, <4>2, <4>3
    <3> QED BY <3>1, <3>2, <3>3, <3>4
  <2> QED BY <1>3, <2>1 DEF CallsFirst
<1> QED BY <1>6, <1>7 DEF w

(* and the prompt that the second asks. *)
LEMMA JoinAsks ==
    ASSUME NEW V, NEW a \in Seq(V), NEW b \in Seq(V), NEW p, Asks(b, p)
    PROVE  Asks(a \o b, p)
<1> DEFINE w == a \o b
<1>1. JoinOf(w, a, b)
  BY JoinShape
<1>2. Len(a) \in Nat /\ Len(b) \in Nat /\ DOMAIN b = 1..Len(b)
  OBVIOUS
<1> HIDE DEF w
<1>3. PICK i \in 1..Len(b) : b[i].role = "user" /\ <<"prompt", p>> \in b[i].text
  BY <1>2 DEF Asks
<1>4. Len(a) + i \in DOMAIN w /\ w[Len(a) + i] = b[i]
  BY <1>1, <1>2 DEF JoinOf
<1>5. Asks(w, p)
  BY <1>3, <1>4 DEF Asks
<1> QED BY <1>5 DEF w

(* t has messages of s, in their order, perhaps with fewer calls. *)
Selects(h, t, s) ==
    /\ h \in [1..Len(t) -> 1..Len(s)]
    /\ \A j, k \in 1..Len(t) : j < k => h[j] < h[k]
    /\ \A j \in 1..Len(t) : t[j].role = s[h[j]].role /\ t[j].of = s[h[j]].of /\ t[j].calls \subseteq s[h[j]].calls

(* So calls are still before results, and there are no new ones. *)
LEMMA SelectsKeeps ==
    ASSUME NEW V, NEW s \in Seq(V), NEW t \in Seq(V), NEW h, Selects(h, t, s)
    PROVE  /\ Known(t) \subseteq Known(s) /\ ResultsIn(t) \subseteq ResultsIn(s)
           /\ CallsFirst(s) => CallsFirst(t)
<1> DEFINE n == Len(s)
           m == Len(t)
<1>1. n \in Nat /\ m \in Nat /\ DOMAIN s = 1..n /\ DOMAIN t = 1..m
  OBVIOUS
<1> HIDE DEF n, m
<1>2. /\ h \in [1..m -> 1..n] /\ \A j, k \in 1..m : j < k => h[j] < h[k]
      /\ \A j \in 1..m : t[j].role = s[h[j]].role /\ t[j].of = s[h[j]].of /\ t[j].calls \subseteq s[h[j]].calls
  BY DEF Selects, n, m
<1>3. \A j \in 1..m : h[j] \in 1..n
  BY <1>2
<1>4. Known(t) \subseteq Known(s)
  BY <1>1, <1>2, <1>3 DEF Known
<1>5. ResultsIn(t) \subseteq ResultsIn(s)
  BY <1>1, <1>2, <1>3 DEF ResultsIn
<1>6. ASSUME CallsFirst(s), NEW i \in 1..m, NEW j \in 1..m, t[i].role = "tool", t[i].of \in t[j].calls PROVE j < i
  <2>1. h[j] < h[i]
    BY <1>1, <1>2, <1>3, <1>6 DEF CallsFirst
  <2>2. i < j => h[i] < h[j]
    BY <1>2
  <2>3. h[i] \in 1..n /\ h[j] \in 1..n
    BY <1>3
  <2> QED BY <1>1, <2>1, <2>2, <2>3
<1>7. CallsFirst(s) => CallsFirst(t)
  BY <1>1, <1>6 DEF CallsFirst
<1> QED BY <1>4, <1>5, <1>7

(* A filter keeps all of this. *)
LEMMA OnlySelects ==
    ASSUME NEW V, NEW s \in Seq(V), NEW S
    PROVE  /\ Only(s, S) \in Seq(V)
           /\ Known(Only(s, S)) \subseteq Known(s) /\ ResultsIn(Only(s, S)) \subseteq ResultsIn(s)
           /\ CallsFirst(s) => CallsFirst(Only(s, S))
<1>1. Only(s, S) \in Seq(V)
  BY OnlyType
<1>2. PICK h : Picks(h, Only(s, S), s, S, Len(s))
  BY OnlyPicks
<1>3. Selects(h, Only(s, S), s)
  BY <1>2 DEF Picks, Selects
<1> QED BY <1>1, <1>3, SelectsKeeps

(* A subsequence, place by place. *)
LEMMA SubSeqShape ==
    ASSUME NEW V, NEW s \in Seq(V), NEW a \in 1..(Len(s) + 1), NEW b \in (a - 1)..Len(s)
    PROVE  /\ SubSeq(s, a, b) \in Seq(V) /\ Len(SubSeq(s, a, b)) = (b - a) + 1
           /\ \A i \in 1..((b - a) + 1) : SubSeq(s, a, b)[i] = s[(a + i) - 1]
<1>1. Len(s) \in Nat /\ a \in Nat /\ b \in Nat /\ a >= 1 /\ b <= Len(s) /\ a <= b + 1 /\ \A i \in 1..Len(s) : s[i] \in V
  OBVIOUS
<1>2. \A i \in 1..((b - a) + 1) : (a + i) - 1 \in 1..Len(s)
  BY <1>1
<1>3. SubSeq(s, a, b) = [i \in 1..((b - a) + 1) |-> s[(a + i) - 1]]
  BY <1>1
<1>4. PICK n, f : n = (b - a) + 1 /\ f = SubSeq(s, a, b)
  OBVIOUS
<1>5. n \in Nat /\ f = [i \in 1..n |-> s[(a + i) - 1]]
  BY <1>1, <1>3, <1>4
<1>6. \A i \in 1..n : s[(a + i) - 1] \in V
  BY <1>1, <1>2, <1>4
<1>7. f \in Seq(V) /\ Len(f) = n /\ \A i \in 1..n : f[i] = s[(a + i) - 1]
  BY <1>5, <1>6
<1> QED BY <1>4, <1>7

Altered(l, t, c, z) == [l EXCEPT !.text = t, !.calls = c, !.size = z]

(* A message with another text, other calls and another size. *)
LEMMA AlteredMessage ==
    ASSUME NEW l \in HistMessage, NEW t \in SUBSET (PlainItem \cup AuxItem), NEW c \in SUBSET Nat, NEW z \in Nat
    PROVE  /\ Altered(l, t, c, z) \in HistMessage
           /\ Altered(l, t, c, z).role = l.role /\ Altered(l, t, c, z).kind = l.kind /\ Altered(l, t, c, z).of = l.of
           /\ Altered(l, t, c, z).text = t /\ Altered(l, t, c, z).calls = c /\ Altered(l, t, c, z).size = z
  BY DEF HistMessage, Altered

(* What merging makes of one more message: it is added, or becomes part of the last. *)
Adds(x, d, m) == x = Append(d, m)
JoinsLast(x, d, m) ==
    LET n == Len(d)
    IN  /\ n \in Nat \ {0} /\ Len(x) = n /\ m.role \in {"user", "assistant"}
        /\ \A i \in 1..(n - 1) : x[i] = d[i]
        /\ d[n].role = m.role /\ x[n].role = m.role /\ x[n].kind = d[n].kind
        /\ x[n].text = d[n].text \cup m.text /\ x[n].calls = d[n].calls \cup m.calls

(* Merging does one or the other. *)
LEMMA MergedShape ==
    ASSUME NEW p, NEW d \in Seq(Clean(p)), NEW m \in Clean(p), NEW x, x = Merged(d, m)
    PROVE  x \in Seq(Clean(p)) /\ (Adds(x, d, m) \/ JoinsLast(x, d, m))
<1> DEFINE n == Len(d)
           l == d[n]
           y == [l EXCEPT !.text = @ \cup m.text, !.calls = @ \cup m.calls, !.size = @ + m.size]
<1>1. CASE d # <<>> /\ Last(d).role = m.role /\ m.role \in {"user", "assistant"}
  <2>1. n \in Nat \ {0} /\ l \in Clean(p) /\ Last(d) = l
    BY <1>1 DEF Last
  <2>2. x = Append(Front(d), y)
    BY <1>1, <2>1 DEF Merged
  <2>3. Front(d) \in Seq(Clean(p)) /\ Len(Front(d)) = n - 1 /\ \A i \in 1..(n - 1) : Front(d)[i] = d[i]
    <3>1. Front(d) = SubSeq(d, 1, n - 1)
      BY DEF Front
    <3>2. 1 \in 1..(Len(d) + 1) /\ n - 1 \in (1 - 1)..Len(d) /\ ((n - 1) - 1) + 1 = n - 1
      BY <2>1
    <3>3. /\ SubSeq(d, 1, n - 1) \in Seq(Clean(p)) /\ Len(SubSeq(d, 1, n - 1)) = ((n - 1) - 1) + 1
          /\ \A i \in 1..(((n - 1) - 1) + 1) : SubSeq(d, 1, n - 1)[i] = d[(1 + i) - 1]
      BY <3>2, SubSeqShape
    <3>4. \A i \in 1..(n - 1) : (1 + i) - 1 = i
      BY <2>1
    <3> HIDE DEF n
    <3> QED BY <3>1, <3>2, <3>3, <3>4
  <2> HIDE DEF n, l
  <2>4. l \in HistMessage /\ m \in HistMessage
    BY <2>1, CleanType
  <2>5. y \in HistMessage /\ y.role = l.role /\ y.kind = l.kind /\ y.text = l.text \cup m.text /\ y.calls = l.calls \cup m.calls
    <3>1. l.role \in {"system", "user", "assistant", "tool"} /\ l.kind \in {"live", "aux", "marker", "plain"}
          /\ l.text \cup m.text \in SUBSET (PlainItem \cup AuxItem) /\ l.calls \cup m.calls \in SUBSET Nat
          /\ l.of \in Nat /\ l.size + m.size \in Nat
      BY <2>4, MessageType
    <3>2. PICK t, c, z : t = l.text \cup m.text /\ c = l.calls \cup m.calls /\ z = l.size + m.size
      OBVIOUS
    <3>3. y = Altered(l, t, c, z)
      BY <3>2 DEF Altered
    <3> HIDE DEF y
    <3>4. t \in SUBSET (PlainItem \cup AuxItem) /\ c \in SUBSET Nat /\ z \in Nat
      BY <3>1, <3>2
    <3>5. y \in HistMessage /\ y.role = l.role /\ y.kind = l.kind /\ y.text = t /\ y.calls = c
      BY <2>4, <3>3, <3>4, AlteredMessage
    <3> QED BY <3>2, <3>5
  <2> HIDE DEF y
  <2>6. l.role = m.role /\ l.kind = "plain" /\ m.kind = "plain" /\ l.text \subseteq PlainItem /\ m.text \subseteq PlainItem
    BY <1>1, <2>1, <2>4, CleanType, MessageType
  <2>7. y.calls # {} => y.role = "assistant"
    BY <2>1, <2>5, <2>6, CleanType
  <2>8. y \in Clean(p)
    BY <2>5, <2>6, <2>7, <1>1, <2>1 DEF Clean
  <2>9. x \in Seq(Clean(p)) /\ Len(x) = n /\ x[n] = y /\ \A i \in 1..(n - 1) : x[i] = d[i]
    <3>1. n - 1 \in Nat /\ (n - 1) + 1 = n
      BY <2>1
    <3> DEFINE f == Front(d)
    <3> HIDE DEF f
    <3>2. f \in Seq(Clean(p)) /\ Len(f) = n - 1 /\ \A i \in 1..(n - 1) : f[i] = d[i]
      BY <2>3 DEF f
    <3>3. x = Append(f, y)
      BY <2>2 DEF f
    <3>4. x \in Seq(Clean(p)) /\ Len(x) = (n - 1) + 1 /\ x[(n - 1) + 1] = y /\ \A i \in 1..(n - 1) : x[i] = f[i]
      BY <2>8, <3>1, <3>2, <3>3
    <3> QED BY <3>1, <3>2, <3>4
  <2>10. JoinsLast(x, d, m)
    BY <1>1, <2>1, <2>5, <2>6, <2>9 DEF JoinsLast, n, l
  <2> QED BY <2>9, <2>10
<1>2. CASE ~(d # <<>> /\ Last(d).role = m.role /\ m.role \in {"user", "assistant"})
  <2>1. x = Append(d, m)
    BY <1>2 DEF Merged
  <2> QED BY <2>1 DEF Adds
<1> QED BY <1>1, <1>2

(* What x, made of d by one more message, has of both. *)
Grown(x, d, m, p, q) ==
    /\ x \in Seq(Clean(p))
    /\ Known(x) = Known(d) \cup m.calls
    /\ ResultsIn(x) = ResultsIn(d) \cup IF m.role = "tool" THEN {m.of} ELSE {}
    /\ CallsFirst(d) /\ ResultsIn(d) \cap m.calls = {} => CallsFirst(x)
    /\ Called(d) /\ (m.role = "tool" => m.of \in Known(d)) => Called(x)
    /\ Asks(d, q) \/ (m.role = "user" /\ <<"prompt", q>> \in m.text) => Asks(x, q)
BlocksGrown(x, d, m) == Blocks(x) = IF m \in AuxBlocks THEN Append(Blocks(d), m) ELSE Blocks(d)

(* A message that is added, *)
LEMMA AddedMessage ==
    ASSUME NEW p, NEW d \in Seq(Clean(p)), NEW m \in Clean(p), NEW x \in Seq(Clean(p)), Adds(x, d, m), NEW q
    PROVE  Grown(x, d, m, p, q)
<1> DEFINE n == Len(d)
<1>1. /\ n \in Nat /\ DOMAIN d = 1..n /\ DOMAIN x = 1..(n + 1) /\ x[n + 1] = m /\ \A i \in 1..n : x[i] = d[i]
  BY DEF Adds
<1> HIDE DEF n
<1>2. \A i \in 1..(n + 1) : i \in 1..n \/ i = n + 1
  BY <1>1
<1>3. n + 1 \in 1..(n + 1) /\ \A i \in 1..n : i \in 1..(n + 1)
  BY <1>1
<1>0. m.calls # {} => m.role = "assistant"
  BY CleanType
<1>4. \A c : c \in Known(x) <=> c \in Known(d) \/ c \in m.calls
  <2>1. \A c : c \in Known(x) <=> \E k \in 1..(n + 1) : c \in x[k].calls
    BY <1>1 DEF Known
  <2>2. \A c : c \in Known(d) <=> \E k \in 1..n : c \in d[k].calls
    BY <1>1 DEF Known
  <2> QED BY <1>1, <1>2, <1>3, <2>1, <2>2
<1>5. \A c : c \in ResultsIn(x) <=> c \in ResultsIn(d) \/ (m.role = "tool" /\ c = m.of)
  <2>1. \A c : c \in ResultsIn(x) <=> \E k \in 1..(n + 1) : x[k].role = "tool" /\ c = x[k].of
    BY <1>1 DEF ResultsIn
  <2>2. \A c : c \in ResultsIn(d) <=> \E k \in 1..n : d[k].role = "tool" /\ c = d[k].of
    BY <1>1 DEF ResultsIn
  <2> QED BY <1>1, <1>2, <1>3, <2>1, <2>2
<1>6. ASSUME CallsFirst(d), ResultsIn(d) \cap m.calls = {} PROVE CallsFirst(x)
  <2>1. ASSUME NEW i \in 1..(n + 1), NEW j \in 1..(n + 1), x[i].role = "tool", x[i].of \in x[j].calls PROVE j < i
    <3>1. CASE i \in 1..n /\ j \in 1..n
      BY <1>1, <1>6, <2>1, <3>1 DEF CallsFirst
    <3>2. CASE i \in 1..n /\ j = n + 1
      <4>1. d[i].of \in ResultsIn(d) /\ d[i].of \in m.calls
        BY <1>1, <2>1, <3>2 DEF ResultsIn
      <4> QED BY <1>6, <4>1
    <3>3. CASE i = n + 1 /\ j \in 1..n
      BY <1>1, <3>3
    <3>4. CASE i = n + 1 /\ j = n + 1
      BY <1>0, <1>1, <2>1, <3>4
    <3> QED BY <1>2, <3>1, <3>2, <3>3, <3>4
  <2> QED BY <1>1, <2>1 DEF CallsFirst
<1>7. ASSUME Called(d), m.role = "tool" => m.of \in Known(d) PROVE Called(x)
  <2>1. ASSUME NEW i \in 1..(n + 1), x[i].role = "tool" PROVE \E j \in 1..(i - 1) : x[i].of \in x[j].calls
    <3>1. CASE i \in 1..n
      <4>1. PICK j \in 1..(i - 1) : d[i].of \in d[j].calls
        BY <1>1, <1>7, <2>1, <3>1 DEF Called
      <4>2. j \in 1..n
        BY <1>1, <3>1
      <4> QED BY <1>1, <3>1, <4>1, <4>2
    <3>2. CASE i = n + 1
      <4>1. PICK j \in 1..n : m.of \in d[j].calls
        BY <1>1, <1>7, <2>1, <3>2 DEF Known
      <4>2. j \in 1..(i - 1)
        BY <1>1, <3>2
      <4> QED BY <1>1, <3>2, <4>1, <4>2
    <3> QED BY <1>2, <3>1, <3>2
  <2> QED BY <1>1, <2>1 DEF Called
<1>8. Asks(d, q) \/ (m.role = "user" /\ <<"prompt", q>> \in m.text) => Asks(x, q)
  BY <1>1, <1>3 DEF Asks
<1> QED BY <1>4, <1>5, <1>6, <1>7, <1>8 DEF Grown

(* and one that becomes part of the last. *)
LEMMA JoinedMessage ==
    ASSUME NEW p, NEW d \in Seq(Clean(p)), NEW m \in Clean(p), NEW x \in Seq(Clean(p)), JoinsLast(x, d, m), NEW q
    PROVE  Grown(x, d, m, p, q)
<1> DEFINE n == Len(d)
<1>1. /\ n \in Nat \ {0} /\ DOMAIN d = 1..n /\ DOMAIN x = 1..n /\ m.role # "tool"
      /\ \A i \in 1..(n - 1) : x[i] = d[i]
      /\ x[n].role = m.role /\ d[n].role = m.role
      /\ x[n].text = d[n].text \cup m.text /\ x[n].calls = d[n].calls \cup m.calls
  BY DEF JoinsLast
<1> HIDE DEF n
<1>2. n \in 1..n /\ \A i \in 1..n : i \in 1..(n - 1) \/ i = n
  BY <1>1
<1>3. \A i \in 1..(n - 1) : i \in 1..n
  BY <1>1
<1>4. \A c : c \in Known(x) <=> c \in Known(d) \/ c \in m.calls
  <2>1. \A c : c \in Known(x) <=> \E k \in 1..n : c \in x[k].calls
    BY <1>1 DEF Known
  <2>2. \A c : c \in Known(d) <=> \E k \in 1..n : c \in d[k].calls
    BY <1>1 DEF Known
  <2> QED BY <1>1, <1>2, <1>3, <2>1, <2>2
<1>5. \A i \in 1..n : x[i].role = d[i].role /\ d[i].calls \subseteq x[i].calls /\ d[i].text \subseteq x[i].text
  BY <1>1, <1>2
<1>6. \A i \in 1..n : x[i].role = "tool" => x[i] = d[i]
  BY <1>1, <1>2
<1>7. \A c : c \in ResultsIn(x) <=> c \in ResultsIn(d)
  <2>1. \A c : c \in ResultsIn(x) <=> \E k \in 1..n : x[k].role = "tool" /\ c = x[k].of
    BY <1>1 DEF ResultsIn
  <2>2. \A c : c \in ResultsIn(d) <=> \E k \in 1..n : d[k].role = "tool" /\ c = d[k].of
    BY <1>1 DEF ResultsIn
  <2> QED BY <1>5, <1>6, <2>1, <2>2
<1>8. ASSUME CallsFirst(d), ResultsIn(d) \cap m.calls = {} PROVE CallsFirst(x)
  <2>1. ASSUME NEW i \in 1..n, NEW j \in 1..n, x[i].role = "tool", x[i].of \in x[j].calls PROVE j < i
    <3>1. x[i] = d[i] /\ d[i].role = "tool"
      BY <1>5, <1>6, <2>1
    <3>2. d[i].of \in ResultsIn(d)
      BY <1>1, <3>1 DEF ResultsIn
    <3>3. d[i].of \in d[j].calls
      BY <1>1, <1>2, <1>8, <2>1, <3>1, <3>2
    <3> QED BY <1>1, <1>8, <3>1, <3>3 DEF CallsFirst
  <2> QED BY <1>1, <2>1 DEF CallsFirst
<1>9. ASSUME Called(d) PROVE Called(x)
  <2>1. ASSUME NEW i \in 1..n, x[i].role = "tool" PROVE \E j \in 1..(i - 1) : x[i].of \in x[j].calls
    <3>1. x[i] = d[i] /\ d[i].role = "tool"
      BY <1>5, <1>6, <2>1
    <3>2. PICK j \in 1..(i - 1) : d[i].of \in d[j].calls
      BY <1>1, <1>9, <3>1 DEF Called
    <3>3. j \in 1..n
      BY <1>1
    <3> QED BY <1>5, <3>1, <3>2, <3>3
  <2> QED BY <1>1, <2>1 DEF Called
<1>10. Asks(d, q) => Asks(x, q)
  BY <1>1, <1>5 DEF Asks
<1>11. m.role = "user" /\ <<"prompt", q>> \in m.text => Asks(x, q)
  BY <1>1, <1>2 DEF Asks
<1> QED BY <1>1, <1>4, <1>7, <1>8, <1>9, <1>10, <1>11 DEF Grown

(* The blocks are what they were: only messages of users and assistants are merged. *)
LEMMA MergedBlocks ==
    ASSUME NEW p, NEW d \in Seq(Clean(p)), NEW m \in Clean(p), NEW x \in Seq(Clean(p)), Adds(x, d, m) \/ JoinsLast(x, d, m)
    PROVE  Blocks(x) = IF m \in AuxBlocks THEN Append(Blocks(d), m) ELSE Blocks(d)
<1>0. \A e \in Seq(Clean(p)) : Blocks(e) = Only(e, AuxBlocks)
  BY DEF Blocks, AuxBlocks
<1>1. CASE Adds(x, d, m)
  <2>1. Only(Append(d, m), AuxBlocks) = IF m \in AuxBlocks THEN Append(Only(d, AuxBlocks), m) ELSE Only(d, AuxBlocks)
    BY OnlyAppend
  <2> QED BY <1>0, <1>1, <2>1 DEF Adds
<1>2. CASE JoinsLast(x, d, m)
  <2> DEFINE n == Len(d)
  <2>1. /\ n \in Nat \ {0} /\ Len(x) = n /\ m.role # "system"
        /\ \A i \in 1..(n - 1) : x[i] = d[i]
        /\ x[n].role # "system" /\ d[n].role # "system"
    BY <1>2 DEF JoinsLast
  <2>2. m \notin AuxBlocks /\ x[n] \notin AuxBlocks /\ d[n] \notin AuxBlocks
    BY <2>1, AuxKind
  <2>3. \A i \in 1..n : i \in 1..(n - 1) \/ i = n
    BY <2>1
  <2>4. \A i \in 1..Len(x) : (x[i] \in AuxBlocks <=> d[i] \in AuxBlocks) /\ (x[i] \in AuxBlocks => x[i] = d[i])
    BY <2>1, <2>2, <2>3
  <2> HIDE DEF n
  <2>5. Len(x) = Len(d)
    BY <2>1 DEF n
  <2>6. Only(x, AuxBlocks) = Only(d, AuxBlocks)
    BY <2>4, <2>5, OnlySame
  <2> QED BY <1>0, <2>2, <2>6
<1> QED BY <1>1, <1>2

(* One step of merging. *)
LEMMA MergeStep ==
    ASSUME NEW p, NEW d \in Seq(Clean(p)), NEW m \in Clean(p), NEW q
    PROVE  Grown(Merged(d, m), d, m, p, q) /\ BlocksGrown(Merged(d, m), d, m)
<1> DEFINE x == Merged(d, m)
<1> HIDE DEF x
<1>0. x = Merged(d, m)
  BY DEF x
<1>1. x \in Seq(Clean(p)) /\ (Adds(x, d, m) \/ JoinsLast(x, d, m))
  BY <1>0, MergedShape
<1>2. Blocks(x) = IF m \in AuxBlocks THEN Append(Blocks(d), m) ELSE Blocks(d)
  BY <1>1, MergedBlocks
<1>3. ASSUME Adds(x, d, m) PROVE Grown(x, d, m, p, q)
  BY <1>1, <1>3, AddedMessage
<1>4. ASSUME JoinsLast(x, d, m) PROVE Grown(x, d, m, p, q)
  BY <1>1, <1>4, JoinedMessage
<1> QED BY <1>1, <1>2, <1>3, <1>4 DEF BlocksGrown, x

(* What merging has made of the messages up to each of them. *)
Merges(g, k, V) ==
    /\ g \in [0..Len(k) -> Seq(V)] /\ g[0] = <<>>
    /\ \A i \in 1..Len(k) : g[i] = Merged(g[i - 1], k[i])

(* Merging takes these steps. *)
LEMMA MergeUnfolds ==
    ASSUME NEW p, NEW k \in Seq(Clean(p))
    PROVE  \E g : Merges(g, k, Clean(p)) /\ mergeConsecutiveSameRole(k) = g[Len(k)]
<1> DEFINE n == Len(k)
           V == Clean(p)
           W == Seq(V)
           step == [i \in 1..n |-> [x \in W |-> Merged(x, k[i])]]
<1>1. n \in Nat /\ \A i \in 1..n : k[i] \in V
  OBVIOUS
<1>2. \A x \in W, m \in V : Merged(x, m) \in W
  BY MergedShape
<1>0. <<>> \in W
  OBVIOUS
<1>4. mergeConsecutiveSameRole(k) = (CHOOSE g : g = [i \in 0..n |-> IF i = 0 THEN <<>> ELSE Merged(g[i - 1], k[i])])[n]
  BY DEF mergeConsecutiveSameRole
<1> HIDE DEF n, V, W
<1>3. step \in StepsOver(n, W)
  BY <1>1, <1>2 DEF StepsOver
<1>a. \A x \in W, i \in 1..n : step[i][x] = Merged(x, k[i])
  OBVIOUS
<1> HIDE DEF step
<1>5. PICK g : Takes(g, n, W, <<>>, step)
  BY <1>0, <1>1, <1>3, Recursion
<1>6. /\ g \in [0..n -> W] /\ g[0] = <<>>
      /\ \A i \in 1..n : g[i] = Merged(g[i - 1], k[i])
  BY <1>1, <1>a, <1>5 DEF Takes
<1>7. g = [i \in 0..n |-> IF i = 0 THEN <<>> ELSE Merged(g[i - 1], k[i])]
  BY <1>1, <1>6
<1> DEFINE h == CHOOSE h : h = [i \in 0..n |-> IF i = 0 THEN <<>> ELSE Merged(h[i - 1], k[i])]
<1>8. h = [i \in 0..n |-> IF i = 0 THEN <<>> ELSE Merged(h[i - 1], k[i])]
  BY <1>7
<1>9. mergeConsecutiveSameRole(k) = h[n]
  BY <1>4
<1> HIDE DEF h
<1>10. h[0] = <<>>
  BY <1>1, <1>8
<1>13. \A i \in 1..n : h[i - 1] \in W => h[i] = step[i][h[i - 1]]
  BY <1>1, <1>a, <1>8
<1>11. \A i \in 0..n : h[i] = g[i]
  BY <1>1, <1>5, <1>10, <1>13, OneRun
<1>12. mergeConsecutiveSameRole(k) = g[n]
  BY <1>1, <1>9, <1>11
<1> QED BY <1>6, <1>12 DEF n, V, W, Merges

(* What d, merged from the first n messages of k, has of them. *)
HasOf(d, k, n, p, q) ==
    /\ d \in Seq(Clean(p))
    /\ \A c : c \in Known(d) <=> \E i \in 1..n : c \in k[i].calls
    /\ \A c : c \in ResultsIn(d) <=> \E i \in 1..n : k[i].role = "tool" /\ c = k[i].of
    /\ CallsFirst(k) => CallsFirst(d)
    /\ Called(k) => Called(d)
    /\ \A i \in 1..n : k[i].role = "user" /\ <<"prompt", q>> \in k[i].text => Asks(d, q)

(* And of one message more. *)
LEMMA HasOfStep ==
    ASSUME NEW p, NEW k \in Seq(Clean(p)), NEW n \in 1..Len(k), NEW q, NEW d, HasOf(d, k, n - 1, p, q)
    PROVE  HasOf(Merged(d, k[n]), k, n, p, q)
<1> DEFINE x == Merged(d, k[n])
           m == k[n]
<1>1. /\ d \in Seq(Clean(p))
      /\ \A c : c \in Known(d) <=> \E i \in 1..(n - 1) : c \in k[i].calls
      /\ \A c : c \in ResultsIn(d) <=> \E i \in 1..(n - 1) : k[i].role = "tool" /\ c = k[i].of
      /\ CallsFirst(k) => CallsFirst(d)
      /\ Called(k) => Called(d)
      /\ \A i \in 1..(n - 1) : k[i].role = "user" /\ <<"prompt", q>> \in k[i].text => Asks(d, q)
  BY DEF HasOf
<1>2. n \in Nat /\ m \in Clean(p) /\ n \in DOMAIN k /\ \A i \in 1..(n - 1) : i \in DOMAIN k
  OBVIOUS
<1>3. \A i \in 1..n : i \in 1..(n - 1) \/ i = n
  BY <1>2
<1>4. n \in 1..n /\ \A i \in 1..(n - 1) : i \in 1..n /\ i < n
  BY <1>2
<1> HIDE DEF x
<1>5. /\ x \in Seq(Clean(p))
      /\ Known(x) = Known(d) \cup m.calls
      /\ ResultsIn(x) = ResultsIn(d) \cup IF m.role = "tool" THEN {m.of} ELSE {}
      /\ CallsFirst(d) /\ ResultsIn(d) \cap m.calls = {} => CallsFirst(x)
      /\ Called(d) /\ (m.role = "tool" => m.of \in Known(d)) => Called(x)
      /\ Asks(d, q) \/ (m.role = "user" /\ <<"prompt", q>> \in m.text) => Asks(x, q)
  <2>1. Grown(x, d, m, p, q)
    BY <1>1, <1>2, MergeStep DEF x
  <2> HIDE DEF m
  <2> QED BY <2>1 DEF Grown
<1>6. \A c : c \in Known(x) <=> \E i \in 1..n : c \in k[i].calls
  BY <1>1, <1>3, <1>4, <1>5
<1>7. \A c : c \in ResultsIn(x) <=> \E i \in 1..n : k[i].role = "tool" /\ c = k[i].of
  BY <1>1, <1>3, <1>4, <1>5
<1>8. ASSUME CallsFirst(k) PROVE CallsFirst(x)
  <2>1. ASSUME NEW c \in ResultsIn(d), c \in m.calls PROVE FALSE
    <3>1. PICK i \in 1..(n - 1) : k[i].role = "tool" /\ c = k[i].of
      BY <1>1, <2>1
    <3>2. n < i
      BY <1>2, <1>8, <2>1, <3>1 DEF CallsFirst
    <3> QED BY <1>2, <1>4, <3>2
  <2> QED BY <1>1, <1>5, <1>8, <2>1
<1>9. ASSUME Called(k) PROVE Called(x)
  <2>1. m.role = "tool" => \E j \in 1..(n - 1) : m.of \in k[j].calls
    BY <1>2, <1>9 DEF Called
  <2> QED BY <1>1, <1>5, <1>9, <2>1
<1>10. ASSUME NEW i \in 1..n, k[i].role = "user", <<"prompt", q>> \in k[i].text PROVE Asks(x, q)
  BY <1>1, <1>3, <1>5, <1>10
<1> QED BY <1>5, <1>6, <1>7, <1>8, <1>9, <1>10 DEF HasOf, x

(* Merging keeps calls before results, every call and result, the blocks and the prompt. *)
LEMMA MergeSound ==
    ASSUME NEW p, NEW k \in Seq(Clean(p)), NEW q, NEW z, z = mergeConsecutiveSameRole(k)
    PROVE  /\ z \in Seq(Clean(p)) /\ Known(z) = Known(k) /\ ResultsIn(z) = ResultsIn(k)
           /\ CallsFirst(k) => CallsFirst(z)
           /\ Called(k) => Called(z)
           /\ Asks(k, q) => Asks(z, q)
           /\ Blocks(z) = Blocks(k)
<1> DEFINE n == Len(k)
           V == Clean(p)
<1>0. n \in Nat /\ DOMAIN k = 1..n /\ \A i \in 1..n : k[i] \in V
  OBVIOUS
<1>1. PICK g : Merges(g, k, V) /\ z = g[n]
  BY MergeUnfolds
<1>2. PICK w : Lets(w, k, AuxBlocks, V) /\ Only(k, AuxBlocks) = w[n]
  BY OnlyUnfolds
<1>3. /\ g \in [0..n -> Seq(V)] /\ g[0] = <<>> /\ \A i \in 1..n : g[i] = Merged(g[i - 1], k[i])
  BY <1>1 DEF Merges
<1>4. w[0] = <<>> /\ \A i \in 1..n : w[i] = IF k[i] \in AuxBlocks THEN Append(w[i - 1], k[i]) ELSE w[i - 1]
  BY <1>2 DEF Lets
<1>5. HasOf(<<>>, k, 0, p, q)
  BY DEF HasOf, Known, ResultsIn, CallsFirst, Called
<1>6. Blocks(<<>>) = <<>>
  BY OnlyEmpty DEF Blocks
<1>7. ASSUME NEW i \in 1..n, HasOf(g[i - 1], k, i - 1, p, q), Blocks(g[i - 1]) = w[i - 1]
      PROVE  HasOf(g[i], k, i, p, q) /\ Blocks(g[i]) = w[i]
  <2>1. i - 1 \in 0..n /\ g[i - 1] \in Seq(V) /\ g[i] = Merged(g[i - 1], k[i]) /\ k[i] \in V
    BY <1>0, <1>3
  <2>2. HasOf(g[i], k, i, p, q)
    BY <1>7, <2>1, HasOfStep
  <2>3. Blocks(g[i]) = IF k[i] \in AuxBlocks THEN Append(Blocks(g[i - 1]), k[i]) ELSE Blocks(g[i - 1])
    <3>1. BlocksGrown(Merged(g[i - 1], k[i]), g[i - 1], k[i])
      BY <2>1, MergeStep
    <3> QED BY <2>1, <3>1 DEF BlocksGrown
  <2> QED BY <1>4, <1>7, <2>2, <2>3
<1> HIDE DEF n
<1> DEFINE Good == {i \in 0..n : HasOf(g[i], k, i, p, q) /\ Blocks(g[i]) = w[i]}
<1>8. 0 \in Good
  BY <1>0, <1>3, <1>4, <1>5, <1>6
<1>9. ASSUME NEW i \in 1..n, i - 1 \in Good PROVE i \in Good
  BY <1>0, <1>7, <1>9
<1> HIDE DEF Good
<1>10. \A i \in 0..n : i \in Good
  BY <1>0, <1>8, <1>9, InductionUpTo
<1>11. n \in Good
  BY <1>0, <1>10
<1>12. HasOf(z, k, n, p, q) /\ Blocks(z) = w[n]
  BY <1>1, <1>11 DEF Good, n
<1>13. Blocks(k) = w[n]
  BY <1>2 DEF Blocks, AuxBlocks, n
<1>14. /\ z \in Seq(Clean(p))
       /\ \A c : c \in Known(z) <=> \E i \in 1..n : c \in k[i].calls
       /\ \A c : c \in ResultsIn(z) <=> \E i \in 1..n : k[i].role = "tool" /\ c = k[i].of
       /\ CallsFirst(k) => CallsFirst(z)
       /\ Called(k) => Called(z)
       /\ \A i \in 1..n : k[i].role = "user" /\ <<"prompt", q>> \in k[i].text => Asks(z, q)
  BY <1>12 DEF HasOf
<1>15. \A c : c \in Known(k) <=> \E i \in 1..n : c \in k[i].calls
  BY <1>0 DEF Known
<1>16. \A c : c \in ResultsIn(k) <=> \E i \in 1..n : k[i].role = "tool" /\ c = k[i].of
  BY <1>0 DEF ResultsIn
<1>17. Asks(k, q) => Asks(z, q)
  BY <1>0, <1>14 DEF Asks
<1>18. Known(z) = Known(k) /\ ResultsIn(z) = ResultsIn(k)
  BY <1>14, <1>15, <1>16
<1> QED BY <1>12, <1>13, <1>14, <1>17, <1>18

(* The end of a history at the first request of an attempt: the blocks made for it and the prompt. *)
Opening(b, p) ==
    /\ b \in Seq(Clean(p)) /\ Len(b) \in 1..3
    /\ b[Len(b)] = User(<<"prompt", p>>)
    /\ \A i \in 1..(Len(b) - 1) : b[i] = Aux(p)
NoBlock(a) == \A i \in DOMAIN a : a[i].kind # "aux"
Opens(msgs, p) == \E a, b \in Seq(Clean(p)) : msgs = a \o b /\ Opening(b, p) /\ NoBlock(a)

(* What is left of that once messages were pruned: where the prompt and the blocks are. *)
OpensLate(msgs, p) ==
    /\ Len(msgs) \in Nat \ {0}
    /\ msgs[Len(msgs)] = User(<<"prompt", p>>)
    /\ \A i \in 1..Len(msgs) : msgs[i].kind = "aux" => i + 3 > Len(msgs)

(* An opening has no results and nothing the request leaves out. *)
LEMMA OpeningKinds ==
    ASSUME NEW p, NEW b, Opening(b, p), NEW i \in 1..Len(b)
    PROVE  b[i].role = "user" \/ b[i].kind = "aux"
<1>1. CASE i = Len(b)
  BY <1>1 DEF Opening, User, Msg
<1>2. CASE i # Len(b)
  <2>1. i \in 1..(Len(b) - 1)
    BY <1>2 DEF Opening
  <2>2. b[i] = Aux(p)
    BY <2>1 DEF Opening
  <2> QED BY <2>2 DEF Aux, Msg
<1> QED BY <1>1, <1>2

(* A history with its opening is such a history. *)
LEMMA OpensIsLate ==
    ASSUME NEW p, NEW msgs, Opens(msgs, p)
    PROVE  OpensLate(msgs, p)
<1>1. PICK a, b \in Seq(Clean(p)) : msgs = a \o b /\ Opening(b, p) /\ NoBlock(a)
  BY DEF Opens
<1> DEFINE n == Len(a)
           m == Len(b)
<1>2. n \in Nat /\ m \in 1..3 /\ b[m] = User(<<"prompt", p>>)
  BY <1>1 DEF Opening
<1>3. JoinOf(msgs, a, b) /\ Len(msgs) = n + m /\ DOMAIN a = 1..n
  BY <1>1, JoinShape
<1> HIDE DEF n, m
<1>4. /\ \A i \in 1..n : msgs[i] = a[i]
      /\ \A i \in 1..m : msgs[n + i] = b[i]
      /\ \A k \in 1..(n + m) : k \in 1..n \/ \E i \in 1..m : k = n + i
  BY <1>3 DEF JoinOf, n, m
<1>5. Len(msgs) \in Nat \ {0} /\ msgs[Len(msgs)] = User(<<"prompt", p>>)
  <2>1. m \in 1..m
    BY <1>2
  <2> QED BY <1>2, <1>3, <1>4, <2>1
<1>6. ASSUME NEW k \in 1..(n + m), msgs[k].kind = "aux" PROVE k + 3 > n + m
  <2>1. k \notin 1..n
    BY <1>1, <1>3, <1>4, <1>6 DEF NoBlock
  <2>2. PICK i \in 1..m : k = n + i
    BY <1>4, <2>1
  <2> QED BY <1>2, <2>2
<1> QED BY <1>3, <1>5, <1>6 DEF OpensLate

(* buildMessages keeps every block and the messages of the conversation. *)
LEMMA BuildSound ==
    ASSUME NEW p \in Nat, NEW msgs \in Seq(Clean(p)), NEW raw, raw = buildMessages(msgs)
    PROVE  /\ raw \in Seq(Clean(p)) /\ ResultsIn(raw) \subseteq ResultsIn(msgs)
           /\ CallsFirst(msgs) => CallsFirst(raw)
           /\ Blocks(raw) = Blocks(msgs)
           /\ Opens(msgs, p) => Opens(raw, p)
<1> DEFINE K == {m \in ToSet(msgs) : m.role # "system" \/ m.kind \in {"marker", "aux"}}
           t == Only(msgs, K)
           e == <<Live>>
<1>1. raw = e \o t
  BY DEF buildMessages
<1>2. /\ t \in Seq(Clean(p)) /\ ResultsIn(t) \subseteq ResultsIn(msgs)
      /\ CallsFirst(msgs) => CallsFirst(t)
  BY OnlySelects
<1>3. Live \in Clean(p) /\ Live.calls = {} /\ Live.role = "system" /\ Live.kind = "live"
  BY MadeMessages DEF Live, Msg
<1>4. e \in Seq(Clean(p)) /\ Len(e) = 1 /\ DOMAIN e = {1} /\ e[1] = Live
  BY <1>3
<1>5. ResultsIn(e) = {} /\ Known(e) = {} /\ CallsFirst(e)
  BY <1>3, <1>4 DEF ResultsIn, Known, CallsFirst
<1> HIDE DEF t, e
<1>6. /\ raw \in Seq(Clean(p)) /\ ResultsIn(raw) = ResultsIn(e) \cup ResultsIn(t)
      /\ CallsFirst(raw) <=> CallsFirst(e) /\ CallsFirst(t) /\ ResultsIn(e) \cap Known(t) = {}
  BY <1>1, <1>2, <1>4, JoinShape, JoinSets, JoinCallsFirst
<1>7. Only(e, AuxBlocks) = <<>>
  <2>1. \A i \in 1..Len(e) : e[i] \notin AuxBlocks
    BY <1>3, <1>4, AuxKind
  <2> QED BY <1>4, <2>1, OnlyNone
<1>8. Only(t, AuxBlocks) = Only(msgs, AuxBlocks)
  <2>1. \A i \in 1..Len(msgs) : msgs[i] \in AuxBlocks => msgs[i] \in K
    BY AuxKind DEF ToSet
  <2> HIDE DEF K
  <2> QED BY <2>1, OnlyOnly DEF t
<1>9. Blocks(raw) = Blocks(msgs)
  <2>1. Only(e \o t, AuxBlocks) = Only(e, AuxBlocks) \o Only(t, AuxBlocks)
    BY <1>2, <1>4, OnlyJoin
  <2>2. Only(msgs, AuxBlocks) \in Seq(Clean(p))
    BY OnlyType
  <2>3. Only(raw, AuxBlocks) = Only(msgs, AuxBlocks)
    BY <1>1, <1>7, <1>8, <2>1, <2>2
  <2> QED BY <2>3 DEF Blocks, AuxBlocks
<1>10. ASSUME Opens(msgs, p) PROVE Opens(raw, p)
  <2>1. PICK a, b \in Seq(Clean(p)) : msgs = a \o b /\ Opening(b, p) /\ NoBlock(a)
    BY <1>10 DEF Opens
  <2>2. \A i \in 1..Len(b) : b[i] \in K
    <3>1. JoinOf(msgs, a, b)
      BY <2>1, JoinShape
    <3>2. ASSUME NEW i \in 1..Len(b) PROVE b[i] \in ToSet(msgs)
      <4>1. Len(a) + i \in DOMAIN msgs /\ msgs[Len(a) + i] = b[i]
        BY <3>1 DEF JoinOf
      <4> QED BY <4>1 DEF ToSet
    <3> QED BY <2>1, <3>2, OpeningKinds
  <2> HIDE DEF K
  <2> DEFINE c == Only(a, K)
  <2>3. Only(b, K) = b
    BY <2>2, OnlyAll
  <2>4. t = c \o b
    <3>1. Only(a \o b, K) = Only(a, K) \o Only(b, K)
      BY <2>1, OnlyJoin
    <3> QED BY <2>1, <2>3, <3>1 DEF t
  <2>5. PICK h : Picks(h, c, a, K, Len(a))
    BY OnlyPicks
  <2>6. c \in Seq(Clean(p)) /\ NoBlock(c)
    <3>1. c \in Seq(Clean(p))
      BY OnlyType
    <3>2. \A i \in 1..Len(c) : h[i] \in 1..Len(a) /\ c[i] = a[h[i]]
      BY <2>5 DEF Picks
    <3> HIDE DEF c
    <3>3. DOMAIN c = 1..Len(c) /\ DOMAIN a = 1..Len(a)
      BY <3>1
    <3>4. NoBlock(c)
      BY <2>1, <3>2, <3>3 DEF NoBlock
    <3> QED BY <3>1, <3>4
  <2> HIDE DEF c
  <2>7. e \o c \in Seq(Clean(p)) /\ JoinOf(e \o c, e, c) /\ (e \o c) \o b = e \o (c \o b)
    <3>1. (e \o c) \o b = e \o (c \o b)
      BY <1>4, <2>1, <2>6
    <3> QED BY <1>4, <2>6, <3>1, JoinShape
  <2>8. NoBlock(e \o c)
    <3>1. \A i \in 1..Len(e) : e[i].kind # "aux"
      BY <1>3, <1>4
    <3>2. \A i \in 1..Len(c) : c[i].kind # "aux"
      BY <2>6 DEF NoBlock
    <3> DEFINE u == e \o c
    <3>3. JoinOf(u, e, c)
      BY <2>7
    <3> HIDE DEF u
    <3>4. ASSUME NEW k \in DOMAIN u PROVE u[k].kind # "aux"
      <4>1. CASE k \in 1..Len(e)
        BY <3>1, <3>3, <4>1 DEF JoinOf
      <4>2. CASE k \notin 1..Len(e)
        <5>1. PICK i \in 1..Len(c) : k = Len(e) + i
          BY <3>3, <4>2 DEF JoinOf
        <5> QED BY <3>2, <3>3, <5>1 DEF JoinOf
      <4> QED BY <4>1, <4>2
    <3> QED BY <3>4 DEF NoBlock, u
  <2>9. raw = (e \o c) \o b
    BY <1>1, <2>4, <2>7
  <2> QED BY <2>1, <2>7, <2>8, <2>9 DEF Opens
<1> QED BY <1>2, <1>5, <1>6, <1>9, <1>10

Rewritten(m, t) == [m EXCEPT !.text = t, !.size = 1]

(* A message with another text and size. *)
LEMMA RewrittenMessage ==
    ASSUME NEW m \in HistMessage, NEW t \in SUBSET (PlainItem \cup AuxItem)
    PROVE  Rewritten(m, t) \in HistMessage
<1>1. 1 \in Nat
  OBVIOUS
<1> QED BY <1>1 DEF HistMessage, Rewritten

(* pruneToolOutputs changes nothing but the texts of results. *)
LEMMA PruneSound ==
    ASSUME NEW p \in Nat, NEW msgs \in Seq(Clean(p)), NEW q, q = pruneToolOutputs(msgs)
    PROVE  /\ q \in Seq(Clean(p)) /\ Len(q) = Len(msgs)
           /\ Known(q) \subseteq Known(msgs) /\ ResultsIn(q) \subseteq ResultsIn(msgs)
           /\ CallsFirst(msgs) => CallsFirst(q)
           /\ Blocks(q) = Blocks(msgs)
           /\ OpensLate(msgs, p) => OpensLate(q, p)
<1> DEFINE n == Len(msgs)
<1>1. n \in Nat /\ DOMAIN msgs = 1..n /\ \A i \in 1..n : msgs[i] \in Clean(p)
  OBVIOUS
<1>2. /\ DOMAIN q = 1..n /\ q = [i \in 1..n |-> q[i]]
      /\ \A i \in 1..n :
            \/ q[i] = msgs[i]
            \/ msgs[i].role = "tool" /\ q[i] = [msgs[i] EXCEPT !.text = {<<"duplicate">>}, !.size = 1]
            \/ msgs[i].role = "tool" /\ q[i] = [msgs[i] EXCEPT !.text = {<<"pruned", msgs[i].of>>}, !.size = 1]
  BY <1>1 DEF pruneToolOutputs
<1> HIDE DEF n
<1>3. ASSUME NEW i \in 1..n
      PROVE  /\ q[i] \in Clean(p)
             /\ q[i].role = msgs[i].role /\ q[i].of = msgs[i].of /\ q[i].calls = msgs[i].calls /\ q[i].kind = msgs[i].kind
             /\ msgs[i].role # "tool" => q[i] = msgs[i]
  <2>1. CASE q[i] = msgs[i]
    BY <1>1, <2>1
  <2>2. ASSUME msgs[i].role = "tool", NEW t \in PlainItem, q[i] = [msgs[i] EXCEPT !.text = {t}, !.size = 1]
        PROVE  /\ q[i] \in Clean(p)
               /\ q[i].role = msgs[i].role /\ q[i].of = msgs[i].of /\ q[i].calls = msgs[i].calls /\ q[i].kind = msgs[i].kind
    <3>1. PICK m : m = msgs[i]
      OBVIOUS
    <3>2. m \in Clean(p) /\ m \in HistMessage /\ m.role = "tool"
      BY <1>1, <2>2, <3>1, CleanType
    <3>3. q[i] = [m EXCEPT !.text = {t}, !.size = 1]
      BY <2>2, <3>1
    <3>4. /\ q[i].role = m.role /\ q[i].of = m.of /\ q[i].calls = m.calls /\ q[i].kind = m.kind /\ q[i].text = {t}
      BY <3>2, <3>3 DEF HistMessage
    <3>5. q[i] \in HistMessage
      <4>1. {t} \in SUBSET (PlainItem \cup AuxItem)
        BY <2>2
      <4>2. q[i] = Rewritten(m, {t})
        BY <3>3 DEF Rewritten
      <4> QED BY <3>2, <4>1, <4>2, RewrittenMessage
    <3>6. m.kind = "plain" /\ m.calls = {}
      BY <3>2, CleanType, MessageType
    <3>7. q[i] \in Clean(p)
      BY <3>2, <3>4, <3>5, <3>6 DEF Clean
    <3> QED BY <3>1, <3>4, <3>7
  <2>3. msgs[i].of \in Nat
    BY <1>1, CleanType, MessageType
  <2>4. <<"duplicate">> \in PlainItem /\ <<"pruned", msgs[i].of>> \in PlainItem
    BY <2>3, PlainItems
  <2> QED BY <1>2, <2>1, <2>2, <2>4
<1>4. q \in Seq(Clean(p)) /\ Len(q) = n
  <2>1. q \in [1..n -> Clean(p)]
    BY <1>2, <1>3
  <2> QED BY <1>1, <2>1
<1> DEFINE h == [i \in 1..n |-> i]
<1>5. Selects(h, q, msgs)
  <2>1. Len(q) = n /\ Len(msgs) = n
    BY <1>4 DEF n
  <2>2. h \in [1..n -> 1..n] /\ \A i \in 1..n : h[i] = i
    OBVIOUS
  <2> HIDE DEF h
  <2> QED BY <1>3, <2>1, <2>2 DEF Selects
<1> HIDE DEF h
<1>6. /\ Known(q) \subseteq Known(msgs) /\ ResultsIn(q) \subseteq ResultsIn(msgs)
      /\ CallsFirst(msgs) => CallsFirst(q)
  BY <1>4, <1>5, SelectsKeeps
<1>7. Only(q, AuxBlocks) = Only(msgs, AuxBlocks)
  <2>1. ASSUME NEW i \in 1..n
        PROVE  (q[i] \in AuxBlocks <=> msgs[i] \in AuxBlocks) /\ (q[i] \in AuxBlocks => q[i] = msgs[i])
    <3>1. CASE msgs[i].role = "tool"
      BY <1>3, <3>1, AuxKind
    <3>2. CASE msgs[i].role # "tool"
      BY <1>3, <3>2
    <3> QED BY <3>1, <3>2
  <2>2. Len(q) = n /\ Len(msgs) = n
    BY <1>4 DEF n
  <2> QED BY <1>4, <2>1, <2>2, OnlySame
<1>8. ASSUME OpensLate(msgs, p) PROVE OpensLate(q, p)
  <2>1. /\ n \in Nat \ {0} /\ msgs[n] = User(<<"prompt", p>>) /\ \A i \in 1..n : msgs[i].kind = "aux" => i + 3 > n
    BY <1>8 DEF OpensLate, n
  <2>2. n \in 1..n /\ msgs[n].role = "user"
    BY <2>1 DEF User, Msg
  <2>3. q[n] = msgs[n]
    BY <1>3, <2>2
  <2> QED BY <1>3, <1>4, <2>1, <2>3 DEF OpensLate
<1> QED BY <1>4, <1>6, <1>7, <1>8 DEF n, Blocks, AuxBlocks

(* Where a tail begins: at the front, or behind a message it did not have to hold. *)
LEMMA TailStartType ==
    ASSUME NEW V, NEW msgs \in Seq(V), NEW budget
    PROVE  /\ TailStart(msgs, budget) \in 1..(Len(msgs) + 1)
           /\ TailStart(msgs, budget) # 1 => Len(msgs) - TailStart(msgs, budget) + 1 >= 3
<1> DEFINE n == Len(msgs)
           Kept(j) == \/ j = Len(msgs) + 1
                      \/ Len(msgs) - j < MinTail
                      \/ Tokens(SubSeq(msgs, j, Len(msgs))) <= budget
           Right(i) == Kept(i) /\ (i = 1 \/ ~Kept(i - 1))
           T == {i \in 1..(n + 1) : Kept(i)}
           from == CHOOSE i \in 1..(n + 1) : Right(i)
<1>1. TailStart(msgs, budget) = from
  BY DEF TailStart
<1>2. n \in Nat /\ n + 1 \in T
  OBVIOUS
<1>3. \A j : Len(msgs) - j < MinTail => Kept(j)
  OBVIOUS
<1> HIDE DEF Kept
<1>4. PICK l \in T : \A j \in T : l <= j
  <2>1. T \in SUBSET Nat /\ T # {}
    BY <1>2
  <2> HIDE DEF T
  <2> QED BY <2>1, LeastNatural
<1>5. l \in 1..(n + 1) /\ Right(l)
  <2>1. l \in 1..(n + 1) /\ Kept(l)
    BY <1>4
  <2>2. l # 1 => l - 1 \in 1..(n + 1) /\ ~(l <= l - 1)
    BY <1>2, <2>1
  <2>3. l # 1 => ~Kept(l - 1)
    BY <1>4, <2>2
  <2> QED BY <2>1, <2>3
<1>6. from \in 1..(n + 1) /\ Right(from)
  BY <1>5
<1> HIDE DEF from
<1>7. ASSUME from # 1 PROVE n - from + 1 >= 3
  <2>1. ~Kept(from - 1)
    BY <1>6, <1>7
  <2>2. ~(n - (from - 1) < MinTail)
    BY <1>3, <2>1
  <2>3. MinTail \in Nat /\ MinTail >= 3 /\ from \in Nat
    BY <1>2, <1>6, HistoryAssumption
  <2> QED BY <1>2, <2>2, <2>3
<1> QED BY <1>1, <1>6, <1>7

(* The head is a part of the history. *)
LEMMA HeadLengthType ==
    ASSUME NEW V, NEW msgs \in Seq(V)
    PROVE  HeadLength(msgs) \in 0..Len(msgs)
<1> DEFINE n == Len(msgs)
           others == {i \in DOMAIN msgs : msgs[i].role # "system"}
           system == IF others = {} THEN n ELSE (CHOOSE i \in others : \A j \in others : i <= j) - 1
<1>1. n \in Nat /\ others \subseteq 1..n
  OBVIOUS
<1>2. HeadLength(msgs) = IF system + HeadCount <= n THEN system + HeadCount ELSE n
  BY DEF HeadLength
<1> HIDE DEF n, others
<1>3. system \in 0..n
  <2>1. CASE others = {}
    BY <1>1, <2>1
  <2>2. CASE others # {}
    <3>1. \E i \in others : \A j \in others : i <= j
      <4>1. others \in SUBSET Nat
        BY <1>1
      <4> QED BY <2>2, <4>1, LeastNatural
    <3>2. (CHOOSE i \in others : \A j \in others : i <= j) \in others
      BY <3>1
    <3>3. system = (CHOOSE i \in others : \A j \in others : i <= j) - 1
      BY <2>2
    <3>4. PICK e : e = (CHOOSE i \in others : \A j \in others : i <= j)
      OBVIOUS
    <3>5. e \in 1..n /\ system = e - 1
      BY <1>1, <3>2, <3>3, <3>4
    <3> QED BY <1>1, <3>5
  <2> QED BY <2>1, <2>2
<1>4. HeadCount \in Nat
  BY HistoryAssumption
<1> HIDE DEF system
<1>5. HeadLength(msgs) \in 0..n
  BY <1>1, <1>2, <1>3, <1>4
<1> QED BY <1>5 DEF n

(* A sequence cut in two. *)
LEMMA Cut ==
    ASSUME NEW V, NEW s \in Seq(V), NEW k \in 0..Len(s)
    PROVE  /\ SubSeq(s, 1, k) \in Seq(V) /\ SubSeq(s, k + 1, Len(s)) \in Seq(V)
           /\ Len(SubSeq(s, 1, k)) = k /\ Len(SubSeq(s, k + 1, Len(s))) = Len(s) - k
           /\ s = SubSeq(s, 1, k) \o SubSeq(s, k + 1, Len(s))
<1> DEFINE n == Len(s)
           a == SubSeq(s, 1, k)
           b == SubSeq(s, k + 1, n)
<1>1. n \in Nat /\ k \in Nat /\ k <= n
  OBVIOUS
<1>2. a \in Seq(V) /\ Len(a) = k /\ \A i \in 1..k : a[i] = s[i]
  <2>1. 1 \in 1..(Len(s) + 1) /\ k \in (1 - 1)..Len(s) /\ (k - 1) + 1 = k
    BY <1>1
  <2>2. /\ a \in Seq(V) /\ Len(a) = (k - 1) + 1 /\ \A i \in 1..((k - 1) + 1) : a[i] = s[(1 + i) - 1]
    BY <2>1, SubSeqShape
  <2>3. \A i \in 1..k : (1 + i) - 1 = i
    BY <1>1
  <2> QED BY <2>1, <2>2, <2>3
<1>3. b \in Seq(V) /\ Len(b) = n - k /\ \A i \in 1..(n - k) : b[i] = s[k + i]
  <2>1. k + 1 \in 1..(Len(s) + 1) /\ n \in ((k + 1) - 1)..Len(s) /\ (n - (k + 1)) + 1 = n - k
    BY <1>1
  <2>2. b \in Seq(V) /\ Len(b) = (n - (k + 1)) + 1 /\ \A i \in 1..((n - (k + 1)) + 1) : b[i] = s[((k + 1) + i) - 1]
    BY <2>1, SubSeqShape
  <2>3. \A i \in 1..(n - k) : ((k + 1) + i) - 1 = k + i
    BY <1>1
  <2> QED BY <2>1, <2>2, <2>3
<1> HIDE DEF a, b
<1>4. a \o b \in Seq(V) /\ Len(a \o b) = n /\ JoinOf(a \o b, a, b)
  <2>1. a \o b \in Seq(V) /\ Len(a \o b) = Len(a) + Len(b) /\ JoinOf(a \o b, a, b)
    BY <1>2, <1>3, JoinShape
  <2> QED BY <1>1, <1>2, <1>3, <2>1
<1>5. \A i \in 1..n : (a \o b)[i] = s[i]
  <2>1. \A i \in 1..n : i \in 1..k \/ \E j \in 1..(n - k) : i = k + j
    <3>1. ASSUME NEW i \in 1..n, i \notin 1..k PROVE i - k \in 1..(n - k) /\ i = k + (i - k)
      BY <1>1, <3>1
    <3> QED BY <3>1
  <2> DEFINE w == a \o b
  <2>0. JoinOf(w, a, b)
    BY <1>4
  <2> HIDE DEF w
  <2>2. /\ \A i \in 1..k : w[i] = a[i]
        /\ \A i \in 1..(n - k) : w[k + i] = b[i]
    BY <1>2, <1>3, <2>0 DEF JoinOf
  <2> HIDE DEF n
  <2>3. ASSUME NEW i \in 1..n PROVE w[i] = s[i]
    <3>1. CASE i \in 1..k
      BY <1>2, <2>2, <3>1
    <3>2. CASE i \notin 1..k
      <4>1. PICK j \in 1..(n - k) : i = k + j
        BY <2>1, <3>2
      <4>2. w[k + j] = b[j] /\ b[j] = s[k + j]
        BY <1>3, <2>2, <4>1
      <4> QED BY <4>1, <4>2
    <3> QED BY <3>1, <3>2
  <2> QED BY <2>3 DEF w
<1>6. s = a \o b
  <2> DEFINE w == a \o b
  <2> HIDE DEF w
  <2>1. w \in Seq(V) /\ Len(w) = Len(s) /\ \A i \in 1..Len(s) : w[i] = s[i]
    BY <1>4, <1>5 DEF w
  <2>2. w = s
    BY <2>1
  <2> QED BY <2>2 DEF w
<1> QED BY <1>2, <1>3, <1>6 DEF a, b, n

(* The parts of a history: head, middle and tail, and a middle only before a tail of three. *)
PartsOf(s, q, p) ==
    /\ s.head \in Seq(Clean(p)) /\ s.middle \in Seq(Clean(p)) /\ s.tail \in Seq(Clean(p))
    /\ q = s.head \o (s.middle \o s.tail)
    /\ s.middle # <<>> => Len(s.tail) >= 3

(* Splitting cuts the pruned history into them. *)
LEMMA SplitParts ==
    ASSUME NEW p \in Nat, NEW msgs \in Seq(Clean(p)), NEW level
    PROVE  PartsOf(Split(msgs, level), pruneToolOutputs(msgs), p)
<1> DEFINE q == pruneToolOutputs(msgs)
           head == HeadLength(q)
           rest == SubSeq(q, head + 1, Len(q))
           from == TailStart(rest, IF level = "emergency" THEN EmergencyBudget ELSE TailBudget)
           s == Split(msgs, level)
<1>1. s = [head |-> SubSeq(q, 1, head), middle |-> SubSeq(rest, 1, from - 1), tail |-> SubSeq(rest, from, Len(rest))]
  BY DEF Split
<1>2. q \in Seq(Clean(p))
  BY PruneSound
<1> HIDE DEF q, s
<1>3. head \in 0..Len(q)
  BY <1>2, HeadLengthType
<1> HIDE DEF head
<1>4. SubSeq(q, 1, head) \in Seq(Clean(p)) /\ rest \in Seq(Clean(p)) /\ q = SubSeq(q, 1, head) \o rest
  BY <1>2, <1>3, Cut
<1> HIDE DEF rest
<1>5. from \in 1..(Len(rest) + 1) /\ (from # 1 => Len(rest) - from + 1 >= 3)
  BY <1>4, TailStartType
<1> HIDE DEF from
<1>6. from - 1 \in 0..Len(rest) /\ (from - 1) + 1 = from /\ Len(rest) \in Nat
  BY <1>4, <1>5
<1>7. /\ SubSeq(rest, 1, from - 1) \in Seq(Clean(p)) /\ SubSeq(rest, from, Len(rest)) \in Seq(Clean(p))
      /\ Len(SubSeq(rest, 1, from - 1)) = from - 1 /\ Len(SubSeq(rest, from, Len(rest))) = Len(rest) - (from - 1)
      /\ rest = SubSeq(rest, 1, from - 1) \o SubSeq(rest, from, Len(rest))
  <2>1. PICK k : k = from - 1
    OBVIOUS
  <2>2. k \in 0..Len(rest) /\ k + 1 = from
    BY <1>6, <2>1
  <2>3. /\ SubSeq(rest, 1, k) \in Seq(Clean(p)) /\ SubSeq(rest, k + 1, Len(rest)) \in Seq(Clean(p))
        /\ Len(SubSeq(rest, 1, k)) = k /\ Len(SubSeq(rest, k + 1, Len(rest))) = Len(rest) - k
        /\ rest = SubSeq(rest, 1, k) \o SubSeq(rest, k + 1, Len(rest))
    BY <1>4, <2>2, Cut
  <2> QED BY <2>1, <2>2, <2>3
<1>8. s.head = SubSeq(q, 1, head) /\ s.middle = SubSeq(rest, 1, from - 1) /\ s.tail = SubSeq(rest, from, Len(rest))
  BY <1>1
<1>9. ASSUME s.middle # <<>> PROVE Len(s.tail) >= 3
  <2>1. from # 1
    BY <1>6, <1>7, <1>8, <1>9
  <2> QED BY <1>5, <1>6, <1>7, <1>8, <2>1
<1>10. PartsOf(s, q, p)
  BY <1>4, <1>7, <1>8, <1>9 DEF PartsOf
<1> QED BY <1>10 DEF s, q

Stripped(m, c) == [m EXCEPT !.calls = c]

(* An assistant's message with fewer calls. *)
LEMMA StrippedMessage ==
    ASSUME NEW p, NEW m \in Clean(p), NEW c \in SUBSET m.calls, m.role = "assistant"
    PROVE  /\ Stripped(m, c) \in Clean(p) /\ Stripped(m, c).role = m.role /\ Stripped(m, c).of = m.of
           /\ Stripped(m, c).calls = c /\ Stripped(m, c).text = m.text
<1>1. m \in HistMessage /\ m.kind = "plain" /\ m.text \subseteq PlainItem
  <2>1. m.kind \in {"live", "aux", "marker", "plain"}
    BY CleanType, MessageType
  <2> QED BY <2>1, CleanType
<1>2. c \in SUBSET Nat
  BY <1>1, MessageType
<1>3. /\ Stripped(m, c) \in HistMessage
      /\ Stripped(m, c).role = m.role /\ Stripped(m, c).of = m.of
      /\ Stripped(m, c).calls = c /\ Stripped(m, c).text = m.text /\ Stripped(m, c).kind = m.kind
  BY <1>1, <1>2 DEF HistMessage, Stripped
<1>4. Stripped(m, c) \in Clean(p)
  BY <1>1, <1>3 DEF Clean
<1> QED BY <1>3, <1>4

(* What the sanitizer makes of the message at a place. *)
LEMMA FilteredMessage ==
    ASSUME NEW p, NEW msgs \in Seq(Clean(p)), NEW i \in DOMAIN msgs, NEW f, f = Filtered(msgs, i)
    PROVE  /\ f \in Clean(p) /\ f.role = msgs[i].role /\ f.of = msgs[i].of /\ f.calls \subseteq msgs[i].calls
           /\ msgs[i].role # "assistant" => f = msgs[i]
           /\ \A j \in DOMAIN msgs : msgs[j].of \in msgs[i].calls => msgs[j].of \in f.calls
<1> DEFINE answered == {msgs[j].of : j \in DOMAIN msgs}
           m == msgs[i]
           last == \A j \in DOMAIN msgs : msgs[j].role = "assistant" => j <= i
<1>1. m \in Clean(p)
  OBVIOUS
<1>2. f = IF m.role # "assistant" \/ last THEN m ELSE [m EXCEPT !.calls = @ \cap answered]
  BY DEF Filtered
<1>3. \A j \in DOMAIN msgs : msgs[j].of \in answered
  OBVIOUS
<1> HIDE DEF m, last, answered
<1>4. CASE m.role # "assistant" \/ last
  BY <1>1, <1>2, <1>4 DEF m
<1>5. CASE ~(m.role # "assistant" \/ last)
  <2>1. f = Stripped(m, m.calls \cap answered) /\ m.calls \cap answered \in SUBSET m.calls /\ m.role = "assistant"
    BY <1>2, <1>5 DEF Stripped
  <2>2. f \in Clean(p) /\ f.role = m.role /\ f.of = m.of /\ f.calls = m.calls \cap answered
    BY <1>1, <2>1, StrippedMessage
  <2> QED BY <1>3, <2>1, <2>2 DEF m
<1> QED BY <1>4, <1>5

(* The messages that stay, filtered. *)
LEMMA StayingSound ==
    ASSUME NEW p \in Nat, NEW msgs \in Seq(Clean(p)), NEW places, places = Staying(msgs),
           NEW k, k = [j \in DOMAIN places |-> Filtered(msgs, places[j])]
    PROVE  /\ k \in Seq(Clean(p)) /\ ResultsIn(k) \subseteq ResultsIn(msgs)
           /\ CallsFirst(msgs) => CallsFirst(k) /\ Called(k)
           /\ \A q : Asks(msgs, q) => Asks(k, q)
           /\ Blocks(k) = Blocks(msgs)
<1> DEFINE n == Len(msgs)
           T == {i \in DOMAIN msgs : i \notin Orphans(msgs) /\ ~Emptied(msgs, i)}
           ids == [i \in 1..n |-> i]
           f == [i \in 1..n |-> Filtered(msgs, i)]
<1>1. n \in Nat /\ DOMAIN msgs = 1..n /\ \A i \in 1..n : msgs[i] \in Clean(p)
  OBVIOUS
<1>2. ids \in Seq(1..n) /\ Len(ids) = n /\ \A i \in 1..n : ids[i] = i
  BY <1>1
<1>3. places = Only(ids, T)
  BY <1>1 DEF Staying
<1>4. \A i \in 1..n :
          /\ f[i] \in Clean(p) /\ f[i].role = msgs[i].role /\ f[i].of = msgs[i].of /\ f[i].calls \subseteq msgs[i].calls
          /\ msgs[i].role # "assistant" => f[i] = msgs[i]
          /\ \A j \in 1..n : msgs[j].of \in msgs[i].calls => msgs[j].of \in f[i].calls
  <2>1. ASSUME NEW i \in 1..n
        PROVE  /\ f[i] \in Clean(p) /\ f[i].role = msgs[i].role /\ f[i].of = msgs[i].of /\ f[i].calls \subseteq msgs[i].calls
               /\ msgs[i].role # "assistant" => f[i] = msgs[i]
               /\ \A j \in DOMAIN msgs : msgs[j].of \in msgs[i].calls => msgs[j].of \in f[i].calls
    <3>1. f[i] = Filtered(msgs, i) /\ i \in DOMAIN msgs
      BY <1>1
    <3> HIDE DEF f
    <3> QED BY <3>1, FilteredMessage
  <2> HIDE DEF n, f
  <2> QED BY <1>1, <2>1
<1>5. \A i \in 1..n : i \in T <=> /\ msgs[i].role = "tool" => \E j \in 1..n : msgs[i].of \in msgs[j].calls
                                  /\ msgs[i].calls # {} => f[i].calls # {}
  <2>1. ASSUME NEW i \in 1..n
        PROVE  i \in T <=> /\ msgs[i].role = "tool" => \E j \in 1..n : msgs[i].of \in msgs[j].calls
                           /\ msgs[i].calls # {} => f[i].calls # {}
    <3>1. f[i] = Filtered(msgs, i) /\ i \in DOMAIN msgs
      BY <1>1
    <3>2. i \in Orphans(msgs) <=> msgs[i].role = "tool" /\ ~\E j \in 1..n : msgs[i].of \in msgs[j].calls
      BY <1>1 DEF Orphans, Known
    <3>3. Emptied(msgs, i) <=> msgs[i].calls # {} /\ f[i].calls = {}
      BY <3>1 DEF Emptied
    <3> HIDE DEF n, f
    <3> QED BY <3>1, <3>2, <3>3
  <2> QED BY <2>1
<1>6. PICK h : Picks(h, Only(ids, T), ids, T, Len(ids))
  BY <1>2, OnlyPicks
<1>7. f \in Seq(Clean(p)) /\ Len(f) = n /\ \A i \in 1..n : f[i] = Filtered(msgs, i)
  BY <1>1, <1>4
<1>8. places \in Seq(1..n)
  <2> HIDE DEF ids, T, n
  <2> QED BY <1>2, <1>3, OnlyType
<1> DEFINE m == Len(places)
<1>9. m \in Nat /\ DOMAIN places = 1..m /\ \A j \in 1..m : places[j] \in 1..n
  BY <1>8
<1> HIDE DEF T, ids, n
<1>10. /\ \A j \in 1..m : places[j] \in T
       /\ \A j, l \in 1..m : j < l => places[j] < places[l]
       /\ \A i \in 1..n : i \in T => \E j \in 1..m : places[j] = i
  <2>1. /\ h \in [1..m -> 1..n]
        /\ \A j \in 1..m : places[j] = ids[h[j]] /\ ids[h[j]] \in T
        /\ \A j, l \in 1..m : j < l => h[j] < h[l]
        /\ \A i \in 1..n : ids[i] \in T => \E j \in 1..m : h[j] = i
    BY <1>2, <1>3, <1>6 DEF Picks
  <2>2. \A j \in 1..m : h[j] \in 1..n /\ places[j] = h[j]
    BY <1>2, <2>1
  <2> HIDE DEF m
  <2> QED BY <1>2, <2>1, <2>2
<1>11. k \in Seq(Clean(p)) /\ Len(k) = m /\ DOMAIN k = 1..m /\ \A j \in 1..m : k[j] = f[places[j]]
  <2>1. k = [j \in 1..m |-> f[places[j]]]
    BY <1>7, <1>9
  <2> HIDE DEF m, f
  <2>2. \A j \in 1..m : f[places[j]] \in Clean(p)
    BY <1>4, <1>9
  <2> QED BY <1>9, <2>1, <2>2
<1> HIDE DEF f, m
<1>12. Selects(places, k, msgs)
  <2>1. ASSUME NEW j \in 1..m
        PROVE  k[j].role = msgs[places[j]].role /\ k[j].of = msgs[places[j]].of /\ k[j].calls \subseteq msgs[places[j]].calls
    <3>1. PICK i \in 1..n : i = places[j] /\ k[j] = f[i]
      BY <1>9, <1>11
    <3>2. f[i].role = msgs[i].role /\ f[i].of = msgs[i].of /\ f[i].calls \subseteq msgs[i].calls
      BY <1>4
    <3> QED BY <3>1, <3>2
  <2>2. places \in [1..m -> 1..n]
    <3>1. places = [j \in 1..m |-> places[j]]
      BY <1>8, <1>9
    <3> QED BY <1>9, <3>1
  <2> QED BY <1>10, <1>11, <2>1, <2>2 DEF Selects, n
<1>13. ResultsIn(k) \subseteq ResultsIn(msgs) /\ (CallsFirst(msgs) => CallsFirst(k))
  BY <1>11, <1>12, SelectsKeeps
<1>14. ASSUME CallsFirst(msgs), NEW j \in 1..m, k[j].role = "tool"
       PROVE  \E l \in 1..(j - 1) : k[j].of \in k[l].calls
  <2> DEFINE i == places[j]
  <2>1. i \in 1..n /\ i \in T /\ msgs[i].role = "tool" /\ msgs[i].of = k[j].of
    <3>1. i \in 1..n /\ i \in T /\ k[j] = f[i]
      BY <1>9, <1>10, <1>11
    <3> HIDE DEF i
    <3>2. f[i].role = msgs[i].role /\ f[i].of = msgs[i].of
      BY <1>4, <3>1
    <3> QED BY <1>14, <3>1, <3>2
  <2> HIDE DEF i
  <2>2. PICK a \in 1..n : msgs[i].of \in msgs[a].calls
    BY <1>5, <2>1
  <2>3. a < i /\ msgs[i].of \in f[a].calls
    BY <1>1, <1>4, <1>14, <2>1, <2>2 DEF CallsFirst
  <2>4. msgs[a].role = "assistant"
    <3>1. msgs[a] \in Clean(p) /\ msgs[a].calls # {}
      BY <1>1, <2>2
    <3> QED BY <3>1, CleanType
  <2>5. a \in T
    BY <1>5, <2>2, <2>3, <2>4
  <2>6. PICK l \in 1..m : places[l] = a
    BY <1>10, <2>5
  <2>7. k[j].of \in k[l].calls
    BY <1>11, <2>1, <2>3, <2>6
  <2>8. l < j
    <3>1. j < l => i < a
      BY <1>10, <2>6 DEF i
    <3>2. l = j => i = a
      BY <2>6 DEF i
    <3> QED BY <1>1, <1>9, <2>1, <2>3, <3>1, <3>2
  <2>9. l \in 1..(j - 1)
    BY <1>9, <2>8
  <2> QED BY <2>7, <2>9
<1>15. CallsFirst(msgs) => Called(k)
  BY <1>11, <1>14 DEF Called
<1>16. ASSUME NEW q, Asks(msgs, q) PROVE Asks(k, q)
  <2>1. PICK i \in 1..n : msgs[i].role = "user" /\ <<"prompt", q>> \in msgs[i].text
    BY <1>1, <1>16 DEF Asks
  <2>2. f[i] = msgs[i]
    BY <1>4, <2>1
  <2>3. i \in T
    BY <1>5, <2>1, <2>2
  <2>4. PICK j \in 1..m : places[j] = i
    BY <1>10, <2>3
  <2> QED BY <1>11, <2>1, <2>2, <2>4 DEF Asks
<1>17. Blocks(k) = Blocks(msgs)
  <2>1. ASSUME NEW i \in 1..n
        PROVE  (f[i] \in AuxBlocks <=> msgs[i] \in AuxBlocks) /\ (msgs[i] \in AuxBlocks => f[i] = msgs[i] /\ i \in T)
    <3>1. f[i] \in AuxBlocks => msgs[i].role = "system"
      BY <1>4, AuxKind
    <3>2. msgs[i] \in AuxBlocks => msgs[i].role = "system"
      BY AuxKind
    <3>3. msgs[i].role = "system" => f[i] = msgs[i] /\ i \in T
      BY <1>4, <1>5
    <3> QED BY <3>1, <3>2, <3>3
  <2>2. LET q == Only([i \in 1..Len(msgs) |-> i], T)
        IN  Only([j \in DOMAIN q |-> f[q[j]]], AuxBlocks) = Only(msgs, AuxBlocks)
    <3>1. \A i \in 1..Len(msgs) : (f[i] \in AuxBlocks <=> msgs[i] \in AuxBlocks) /\ (msgs[i] \in AuxBlocks => f[i] = msgs[i] /\ i \in T)
      BY <2>1 DEF n
    <3> QED BY <1>7, <3>1, OnlyPlaces DEF n
  <2>3. Only([j \in DOMAIN places |-> f[places[j]]], AuxBlocks) = Only(msgs, AuxBlocks)
    BY <1>3, <2>2 DEF ids, n
  <2>4. k = [j \in DOMAIN places |-> f[places[j]]]
    BY <1>7, <1>9
  <2> QED BY <2>3, <2>4 DEF Blocks, AuxBlocks
<1> QED BY <1>11, <1>13, <1>15, <1>16, <1>17

(* The sanitizer: every result that is left has its call before it. *)
LEMMA SanitizeSound ==
    ASSUME NEW p \in Nat, NEW msgs \in Seq(Clean(p)), NEW z, z = sanitizeMessages(msgs)
    PROVE  /\ z \in Seq(Clean(p)) /\ ResultsIn(z) \subseteq ResultsIn(msgs)
           /\ CallsFirst(msgs) => CallsFirst(z) /\ Called(z)
           /\ \A q : Asks(msgs, q) => Asks(z, q)
           /\ Blocks(z) = Blocks(msgs)
<1>1. PICK places : places = Staying(msgs)
  OBVIOUS
<1>2. PICK k : k = [j \in DOMAIN places |-> Filtered(msgs, places[j])]
  OBVIOUS
<1>3. z = mergeConsecutiveSameRole(k)
  BY <1>1, <1>2 DEF sanitizeMessages
<1>4. /\ k \in Seq(Clean(p)) /\ ResultsIn(k) \subseteq ResultsIn(msgs)
      /\ CallsFirst(msgs) => CallsFirst(k) /\ Called(k)
      /\ \A q : Asks(msgs, q) => Asks(k, q)
      /\ Blocks(k) = Blocks(msgs)
  BY <1>1, <1>2, StayingSound
<1>5. \A q : /\ z \in Seq(Clean(p)) /\ ResultsIn(z) = ResultsIn(k)
             /\ CallsFirst(k) => CallsFirst(z)
             /\ Called(k) => Called(z)
             /\ Asks(k, q) => Asks(z, q)
             /\ Blocks(z) = Blocks(k)
  <2> TAKE q
  <2> QED BY <1>3, <1>4, MergeSound
<1> QED BY <1>4, <1>5

(* A history that ends in the prompt asks it. *)
LEMMA LateAsks ==
    ASSUME NEW p, NEW msgs \in Seq(Clean(p)), OpensLate(msgs, p)
    PROVE  Asks(msgs, p)
<1>1. Len(msgs) \in DOMAIN msgs /\ msgs[Len(msgs)].role = "user" /\ msgs[Len(msgs)].text = {<<"prompt", p>>}
  BY DEF OpensLate, User, Msg
<1> QED BY <1>1 DEF Asks

(* Two histories, one behind the other. *)
Behind(w, a, b) ==
    /\ Known(w) = Known(a) \cup Known(b) /\ ResultsIn(w) = ResultsIn(a) \cup ResultsIn(b)
    /\ CallsFirst(w) <=> CallsFirst(a) /\ CallsFirst(b) /\ ResultsIn(a) \cap Known(b) = {}
    /\ Only(w, AuxBlocks) = Only(a, AuxBlocks) \o Only(b, AuxBlocks)

(* Joining does that. *)
LEMMA JoinBehind ==
    ASSUME NEW V, NEW a \in Seq(V), NEW b \in Seq(V)
    PROVE  Behind(a \o b, a, b)
<1>1. Known(a \o b) = Known(a) \cup Known(b) /\ ResultsIn(a \o b) = ResultsIn(a) \cup ResultsIn(b)
  BY JoinSets
<1>2. CallsFirst(a \o b) <=> CallsFirst(a) /\ CallsFirst(b) /\ ResultsIn(a) \cap Known(b) = {}
  BY JoinCallsFirst
<1>3. Only(a \o b, AuxBlocks) = Only(a, AuxBlocks) \o Only(b, AuxBlocks)
  BY OnlyJoin
<1> QED BY <1>1, <1>2, <1>3 DEF Behind

SameJoins(a, b, c) == (a \o b) \o c = a \o (b \o c)

(* Joining is associative. *)
LEMMA JoinAgain ==
    ASSUME NEW V, NEW a \in Seq(V), NEW b \in Seq(V), NEW c \in Seq(V)
    PROVE  SameJoins(a, b, c)
  BY DEF SameJoins

(* A part of a history in which calls come first, exchanged for messages that have no calls and no results. *)
LEMMA Exchanged ==
    ASSUME NEW V, NEW a \in Seq(V), NEW m \in Seq(V), NEW e \in Seq(V), NEW b \in Seq(V),
           Known(e) = {}, ResultsIn(e) = {}, CallsFirst(e)
    PROVE  /\ ResultsIn(a \o (e \o b)) \subseteq ResultsIn(a \o (m \o b))
           /\ CallsFirst(a \o (m \o b)) => CallsFirst(a \o (e \o b))
<1>1. m \o b \in Seq(V) /\ e \o b \in Seq(V)
  BY JoinShape
<1>2. Behind(m \o b, m, b) /\ Behind(e \o b, e, b)
  BY JoinBehind
<1> DEFINE old == m \o b
           new == e \o b
<1>4. old \in Seq(V) /\ new \in Seq(V) /\ Known(new) \subseteq Known(old) /\ ResultsIn(new) \subseteq ResultsIn(old)
      /\ (CallsFirst(old) => CallsFirst(new))
  <2> HIDE DEF old, new
  <2>1. Behind(old, m, b) /\ Behind(new, e, b)
    BY <1>2 DEF old, new
  <2>2. old \in Seq(V) /\ new \in Seq(V)
    BY <1>1 DEF old, new
  <2> QED BY <2>1, <2>2 DEF Behind
<1> HIDE DEF old, new
<1>5. Behind(a \o old, a, old) /\ Behind(a \o new, a, new)
  BY <1>4, JoinBehind
<1>7. ResultsIn(a \o new) \subseteq ResultsIn(a \o old) /\ (CallsFirst(a \o old) => CallsFirst(a \o new))
  BY <1>4, <1>5 DEF Behind
<1> QED BY <1>7 DEF old, new

(* The blocks are the same if the exchanged part has none, and so is the prompt. *)
Exchange(q, z, a, m, e, b) == q = a \o (m \o b) /\ z = a \o (e \o b)

LEMMA ExchangedLate ==
    ASSUME NEW p, NEW a \in Seq(Clean(p)), NEW m \in Seq(Clean(p)), NEW e \in Seq(Clean(p)), NEW b \in Seq(Clean(p)),
           Len(b) >= 3, NoBlock(e), NEW q, NEW z, Exchange(q, z, a, m, e, b), OpensLate(q, p)
    PROVE  Blocks(z) = Blocks(q) /\ Asks(z, p)
<1> DEFINE V == Clean(p)
           old == m \o b
           new == e \o b
           l == Len(a)
           k == Len(m)
           n == Len(b)
<1>0. q = a \o (m \o b) /\ z = a \o (e \o b) /\ \A i \in 1..Len(e) : e[i].kind # "aux"
  BY DEF Exchange, NoBlock
<1>1. /\ old \in Seq(V) /\ Len(old) = k + n /\ JoinOf(old, m, b)
      /\ new \in Seq(V)
  BY JoinShape
<1>2. l \in Nat /\ k \in Nat /\ n \in Nat /\ n >= 3 /\ DOMAIN b = 1..n
  OBVIOUS
<1> HIDE DEF old, new
<1>3. q \in Seq(V) /\ Len(q) = l + (k + n) /\ JoinOf(q, a, old)
  <2>1. a \o old \in Seq(V) /\ Len(a \o old) = Len(a) + Len(old) /\ JoinOf(a \o old, a, old)
    BY <1>1, JoinShape
  <2> QED BY <1>0, <1>1, <2>1 DEF old
<1>4. \A i \in 1..(k + n) : q[l + i] = old[i]
  BY <1>1, <1>3 DEF JoinOf
<1>5. /\ \A i \in 1..k : old[i] = m[i]
      /\ \A i \in 1..n : old[k + i] = b[i]
  BY <1>1 DEF JoinOf
<1>6. ASSUME NEW i \in 1..k PROVE m[i].kind # "aux"
  <2>1. i \in 1..(k + n) /\ l + i \in 1..Len(q) /\ (l + i) + 3 <= Len(q)
    BY <1>2, <1>3
  <2>2. q[l + i] = m[i]
    BY <1>4, <1>5, <2>1
  <2>3. q[l + i].kind # "aux"
    <3>1. q[l + i].kind = "aux" => (l + i) + 3 > Len(q)
      BY <2>1 DEF OpensLate
    <3> QED BY <1>2, <1>3, <2>1, <3>1
  <2> QED BY <2>2, <2>3
<1>7. Only(m, AuxBlocks) = <<>> /\ Only(e, AuxBlocks) = <<>>
  <2>1. \A i \in 1..Len(m) : m[i] \notin AuxBlocks
    BY <1>6, AuxKind
  <2>2. \A i \in 1..Len(e) : e[i] \notin AuxBlocks
    BY <1>0, AuxKind
  <2> QED BY <2>1, <2>2, OnlyNone
<1>8. Only(a \o new, AuxBlocks) = Only(a \o old, AuxBlocks)
  <2>1. /\ Only(a \o new, AuxBlocks) = Only(a, AuxBlocks) \o Only(new, AuxBlocks)
        /\ Only(a \o old, AuxBlocks) = Only(a, AuxBlocks) \o Only(old, AuxBlocks)
    <3>1. Behind(a \o new, a, new) /\ Behind(a \o old, a, old)
      BY <1>1, JoinBehind
    <3> QED BY <3>1 DEF Behind
  <2>2. /\ Only(new, AuxBlocks) = Only(e, AuxBlocks) \o Only(b, AuxBlocks)
        /\ Only(old, AuxBlocks) = Only(m, AuxBlocks) \o Only(b, AuxBlocks)
    <3>1. Behind(e \o b, e, b) /\ Behind(m \o b, m, b)
      BY JoinBehind
    <3> QED BY <3>1 DEF Behind, new, old
  <2> QED BY <1>7, <2>1, <2>2
<1>9. Blocks(a \o new) = Blocks(q)
  BY <1>0, <1>8 DEF Blocks, AuxBlocks, old
<1>10. Asks(b, p)
  <2>1. n \in 1..n /\ k + n \in 1..(k + n) /\ l + (k + n) = Len(q)
    BY <1>2, <1>3
  <2>2. b[n] = q[Len(q)]
    BY <1>4, <1>5, <2>1
  <2>3. b[n].role = "user" /\ b[n].text = {<<"prompt", p>>}
    BY <2>2 DEF OpensLate, User, Msg
  <2> QED BY <1>2, <2>1, <2>3 DEF Asks
<1>11. Asks(a \o new, p)
  <2>1. Asks(new, p)
    BY <1>10, JoinAsks DEF new
  <2> QED BY <1>1, <2>1, JoinAsks
<1> QED BY <1>0, <1>9, <1>11 DEF new

(* What compression leaves of a history, with any summary that is none of blocks. *)
LEMMA CompressedSound ==
    ASSUME NEW p \in Nat, NEW msgs \in Seq(Clean(p)), NEW level, NEW merged \in Seq(SUBSET PlainItem),
           NEW z, z = Compressed(msgs, level, merged)
    PROVE  /\ z \in Seq(Clean(p)) /\ ResultsIn(z) \subseteq ResultsIn(msgs)
           /\ CallsFirst(msgs) => CallsFirst(z) /\ Called(z)
           /\ OpensLate(msgs, p) => Asks(z, p) /\ Blocks(z) = Blocks(msgs)
<1> DEFINE items == UNION {merged[i] : i \in DOMAIN merged}
<1>1. PICK s : s = Split(msgs, level)
  OBVIOUS
<1>2. PICK q : q = pruneToolOutputs(msgs)
  OBVIOUS
<1>3. /\ s.head \in Seq(Clean(p)) /\ s.middle \in Seq(Clean(p)) /\ s.tail \in Seq(Clean(p))
      /\ q = s.head \o (s.middle \o s.tail)
      /\ s.middle # <<>> => Len(s.tail) >= 3
  BY <1>1, <1>2, SplitParts DEF PartsOf
<1>4. /\ q \in Seq(Clean(p)) /\ ResultsIn(q) \subseteq ResultsIn(msgs)
      /\ CallsFirst(msgs) => CallsFirst(q)
      /\ Blocks(q) = Blocks(msgs)
      /\ OpensLate(msgs, p) => OpensLate(q, p)
  BY <1>2, PruneSound
<1>5. z = IF s.middle = <<>> THEN sanitizeMessages(s.head \o s.tail)
          ELSE sanitizeMessages(s.head \o <<Marker(items)>> \o s.tail)
  BY <1>1 DEF Compressed
<1>6. Marker(items) \in Clean(p)
  <2>1. items \in SUBSET PlainItem
    BY DEF items
  <2> QED BY <2>1, MadeMessages
<1> HIDE DEF items
<1>7. PICK a, m, b, e : /\ a = s.head /\ m = s.middle /\ b = s.tail /\ e = <<Marker(items)>>
  OBVIOUS
<1>8. /\ e \in Seq(Clean(p)) /\ Known(e) = {} /\ ResultsIn(e) = {} /\ CallsFirst(e)
      /\ \A i \in 1..Len(e) : e[i].kind # "aux"
  <2>1. Len(e) = 1 /\ DOMAIN e = {1} /\ e[1] = Marker(items) /\ e \in Seq(Clean(p))
    BY <1>6, <1>7
  <2>2. Marker(items).calls = {} /\ Marker(items).role = "system" /\ Marker(items).kind = "marker"
    BY DEF Marker, Msg
  <2> QED BY <2>1, <2>2 DEF Known, ResultsIn, CallsFirst
<1>9. PICK y : y = IF m = <<>> THEN q ELSE a \o (e \o b)
  OBVIOUS
<1>10. a \in Seq(Clean(p)) /\ m \in Seq(Clean(p)) /\ b \in Seq(Clean(p)) /\ q = a \o (m \o b) /\ (m # <<>> => Len(b) >= 3)
  BY <1>3, <1>7
<1>11. z = sanitizeMessages(y)
  <2>1. CASE m = <<>>
    <3>1. a \o (m \o b) = a \o b
      BY <1>10, <2>1
    <3> QED BY <1>5, <1>7, <1>9, <1>10, <2>1, <3>1
  <2>2. CASE m # <<>>
    <3>1. (a \o e) \o b = a \o (e \o b)
      <4>1. SameJoins(a, e, b)
        BY <1>8, <1>10, JoinAgain
      <4> QED BY <4>1 DEF SameJoins
    <3> QED BY <1>5, <1>7, <1>9, <2>2, <3>1
  <2> QED BY <2>1, <2>2
<1>12. /\ y \in Seq(Clean(p)) /\ ResultsIn(y) \subseteq ResultsIn(q)
       /\ CallsFirst(q) => CallsFirst(y)
       /\ OpensLate(q, p) => Asks(y, p) /\ Blocks(y) = Blocks(q)
  <2>1. CASE m = <<>>
    BY <1>4, <1>9, <2>1, LateAsks
  <2>2. CASE m # <<>>
    <3>1. y = a \o (e \o b)
      BY <1>9, <2>2
    <3>2. y \in Seq(Clean(p))
      <4>1. e \o b \in Seq(Clean(p))
        BY <1>8, <1>10, JoinShape
      <4> QED BY <1>10, <3>1, <4>1, JoinShape
    <3>3. ResultsIn(y) \subseteq ResultsIn(q) /\ (CallsFirst(q) => CallsFirst(y))
      BY <1>8, <1>10, <3>1, Exchanged
    <3>4. OpensLate(q, p) => Asks(y, p) /\ Blocks(y) = Blocks(q)
      <4>1. ASSUME OpensLate(q, p) PROVE Blocks(y) = Blocks(q) /\ Asks(y, p)
        <5>1. Len(b) >= 3 /\ e \in Seq(Clean(p)) /\ NoBlock(e)
          <6>1. e \in Seq(Clean(p)) /\ DOMAIN e = 1..Len(e)
            BY <1>8
          <6> QED BY <1>8, <1>10, <2>2, <6>1 DEF NoBlock
        <5>2. /\ a \in Seq(Clean(p)) /\ m \in Seq(Clean(p)) /\ b \in Seq(Clean(p))
              /\ Exchange(q, y, a, m, e, b)
          BY <1>10, <3>1 DEF Exchange
        <5> QED BY <4>1, <5>1, <5>2, ExchangedLate
      <4> QED BY <4>1
    <3> QED BY <3>2, <3>3, <3>4
  <2> QED BY <2>1, <2>2
<1>13. /\ z \in Seq(Clean(p)) /\ ResultsIn(z) \subseteq ResultsIn(y)
       /\ CallsFirst(y) => CallsFirst(z) /\ Called(z)
       /\ Asks(y, p) => Asks(z, p)
       /\ Blocks(z) = Blocks(y)
  BY <1>11, <1>12, SanitizeSound
<1> QED BY <1>4, <1>12, <1>13

(* A summary is of messages that are no blocks. *)
LEMMA SummaryPlain ==
    ASSUME NEW p, NEW msgs \in Seq(Clean(p)), NEW old \in Seq(SUBSET PlainItem)
    PROVE  mergeWithExistingSummary(old, Summary(msgs)) \in Seq(SUBSET PlainItem)
<1>1. Summary(msgs) \in SUBSET PlainItem
  <2>1. ASSUME NEW i \in DOMAIN msgs, msgs[i].role # "system" PROVE msgs[i].text \subseteq PlainItem
    <3>1. msgs[i] \in Clean(p)
      OBVIOUS
    <3>2. msgs[i].kind = "plain"
      BY <2>1, <3>1, CleanType
    <3> QED BY <3>1, <3>2, CleanType
  <2> QED BY <2>1 DEF Summary
<1> DEFINE all == Append(old, Summary(msgs))
<1>2. all \in Seq(SUBSET PlainItem) /\ all # <<>>
  BY <1>1
<1> HIDE DEF all
<1>3. Tail(all) \in Seq(SUBSET PlainItem)
  BY <1>2
<1> QED BY <1>2, <1>3 DEF mergeWithExistingSummary, all

(* What a request has of the messages it is made of. *)
Kept(z, raw, p) ==
    /\ z \in Seq(Clean(p)) /\ ResultsIn(z) \subseteq ResultsIn(raw)
    /\ CallsFirst(raw) => CallsFirst(z)
    /\ Opens(raw, p) => Asks(z, p) /\ Blocks(z) = Blocks(raw)

(* A request that is as the history is, *)
LEMMA RawKept ==
    ASSUME NEW p, NEW raw \in Seq(Clean(p))
    PROVE  Kept(raw, raw, p)
  BY OpensIsLate, LateAsks DEF Kept

(* one that is compressed, *)
LEMMA CompressedKept ==
    ASSUME NEW p \in Nat, NEW raw \in Seq(Clean(p)), NEW level, NEW merged \in Seq(SUBSET PlainItem),
           NEW z, z = Compressed(raw, level, merged)
    PROVE  Kept(z, raw, p) /\ (CallsFirst(raw) => Called(z))
<1>1. /\ z \in Seq(Clean(p)) /\ ResultsIn(z) \subseteq ResultsIn(raw)
      /\ CallsFirst(raw) => CallsFirst(z) /\ Called(z)
      /\ OpensLate(raw, p) => Asks(z, p) /\ Blocks(z) = Blocks(raw)
  BY CompressedSound
<1> QED BY <1>1, OpensIsLate DEF Kept

(* the summary of what it leaves out, *)
LEMMA MiddleSummary ==
    ASSUME NEW p \in Nat, NEW raw \in Seq(Clean(p)), NEW level, NEW old \in Seq(SUBSET PlainItem)
    PROVE  mergeWithExistingSummary(old, Summary(Split(raw, level).middle)) \in Seq(SUBSET PlainItem)
<1>1. PICK m : m = Split(raw, level).middle
  OBVIOUS
<1>2. m \in Seq(Clean(p))
  BY <1>1, SplitParts DEF PartsOf
<1> QED BY <1>1, <1>2, SummaryPlain

(* and one that is compressed as far as it needs without a model. *)
LEMMA SyncSound ==
    ASSUME NEW p \in Nat, NEW raw \in Seq(Clean(p)), cached \in Seq(SUBSET PlainItem), NEW r, r = compressSync(raw)
    PROVE  /\ Kept(r.msgs, raw, p) /\ r.cached \in Seq(SUBSET PlainItem)
           /\ shouldCompress(raw) \notin {"none", "prune_only"} /\ CallsFirst(raw) => Called(r.msgs)
           /\ shouldCompress(raw) = "none" => r.msgs = raw
<1>1. PICK level : level = shouldCompress(raw)
  OBVIOUS
<1>2. PICK merged : merged = IF Split(raw, level).middle = <<>> THEN cached
                             ELSE mergeWithExistingSummary(cached, Summary(Split(raw, level).middle))
  OBVIOUS
<1>3. r = CASE level = "none" -> [msgs |-> raw, cached |-> cached]
            [] level = "prune_only" -> [msgs |-> pruneToolOutputs(raw), cached |-> cached]
            [] OTHER -> [msgs |-> Compressed(raw, level, merged), cached |-> merged]
  BY <1>1, <1>2 DEF compressSync
<1>4. merged \in Seq(SUBSET PlainItem)
  BY <1>2, MiddleSummary
<1>5. CASE level = "none"
  <2>1. r.msgs = raw /\ r.cached = cached
    BY <1>3, <1>5
  <2> QED BY <1>1, <1>5, <2>1, RawKept
<1>6. CASE level = "prune_only"
  <2>1. r.msgs = pruneToolOutputs(raw) /\ r.cached = cached
    BY <1>3, <1>6
  <2>2. PICK q : q = r.msgs
    OBVIOUS
  <2>3. /\ q \in Seq(Clean(p)) /\ ResultsIn(q) \subseteq ResultsIn(raw)
        /\ CallsFirst(raw) => CallsFirst(q)
        /\ Blocks(q) = Blocks(raw)
        /\ OpensLate(raw, p) => OpensLate(q, p)
    BY <2>1, <2>2, PruneSound
  <2>4. Kept(q, raw, p)
    BY <2>3, OpensIsLate, LateAsks DEF Kept
  <2> QED BY <1>1, <1>6, <2>1, <2>2, <2>4
<1>7. CASE level \notin {"none", "prune_only"}
  <2>1. r.msgs = Compressed(raw, level, merged) /\ r.cached = merged
    BY <1>3, <1>7
  <2>2. PICK z : z = r.msgs
    OBVIOUS
  <2>3. Kept(z, raw, p) /\ (CallsFirst(raw) => Called(z))
    BY <1>4, <2>1, <2>2, CompressedKept
  <2> QED BY <1>1, <1>4, <1>7, <2>1, <2>2, <2>3
<1> QED BY <1>5, <1>6, <1>7

(* Messages without calls and results. *)
Mute(e) == Known(e) = {} /\ ResultsIn(e) = {} /\ CallsFirst(e)

(* Messages none of which calls or is a result, *)
LEMMA MuteWhen ==
    ASSUME NEW e, \A i \in DOMAIN e : e[i].calls = {} /\ e[i].role # "tool"
    PROVE  Mute(e)
  BY DEF Mute, Known, ResultsIn, CallsFirst

(* behind others. *)
LEMMA MuteBehind ==
    ASSUME NEW V, NEW a \in Seq(V), NEW e \in Seq(V), Mute(e), NEW w, w = a \o e
    PROVE  w \in Seq(V) /\ ResultsIn(w) = ResultsIn(a) /\ (CallsFirst(a) => CallsFirst(w))
<1>1. Behind(w, a, e)
  BY JoinBehind
<1>2. w \in Seq(V)
  BY JoinShape
<1> QED BY <1>1, <1>2 DEF Behind, Mute

(* Trimming keeps the end of a history. *)
LEMMA TrimSound ==
    ASSUME NEW p, NEW msgs \in Seq(Clean(p)), msgs # <<>>, NEW z, z = Trimmed(msgs)
    PROVE  /\ z \in Seq(Clean(p)) /\ ResultsIn(z) \subseteq ResultsIn(msgs)
           /\ CallsFirst(msgs) => CallsFirst(z)
<1> DEFINE n == Len(msgs)
           Enough(i) == Len(msgs) - i + 1 <= MinKeep \/ Tokens(SubSeq(msgs, i, Len(msgs))) <= TrimBudget
           T == {i \in 1..n : Enough(i)}
           from == CHOOSE i \in 1..n : Enough(i) /\ \A j \in 1..(i - 1) : ~Enough(j)
<1>1. z = SubSeq(msgs, from, n)
  BY DEF Trimmed
<1>2. n \in Nat \ {0}
  OBVIOUS
<1>3. n \in T
  <2>1. n \in 1..n /\ Len(msgs) - n + 1 = 1 /\ 1 <= MinKeep
    BY <1>2, HistoryAssumption
  <2> QED BY <2>1
<1> HIDE DEF Enough
<1>4. PICK l \in T : \A j \in T : l <= j
  <2>1. T \in SUBSET Nat /\ T # {}
    BY <1>3
  <2> HIDE DEF T
  <2> QED BY <2>1, LeastNatural
<1>5. l \in 1..n /\ Enough(l) /\ \A j \in 1..(l - 1) : ~Enough(j)
  <2>1. l \in 1..n /\ Enough(l)
    BY <1>4
  <2>2. \A j \in 1..(l - 1) : j \in 1..n /\ ~(l <= j)
    BY <1>2, <2>1
  <2> QED BY <1>4, <2>1, <2>2
<1>6. from \in 1..n
  BY <1>5
<1> HIDE DEF from
<1>7. PICK k : k = from - 1
  OBVIOUS
<1>8. k \in 0..Len(msgs) /\ k + 1 = from
  BY <1>2, <1>6, <1>7
<1>9. PICK a, b : a = SubSeq(msgs, 1, k) /\ b = SubSeq(msgs, k + 1, Len(msgs))
  OBVIOUS
<1>10. a \in Seq(Clean(p)) /\ b \in Seq(Clean(p)) /\ msgs = a \o b
  BY <1>8, <1>9, Cut
<1>11. Behind(msgs, a, b)
  BY <1>10, JoinBehind
<1>12. z = b
  BY <1>1, <1>8, <1>9
<1> QED BY <1>10, <1>11, <1>12 DEF Behind

(* Without its blocks a history is one for any prompt. *)
LEMMA UnblockedSound ==
    ASSUME NEW o, NEW msgs \in Seq(Clean(o)), NEW p, NEW z, z = Unblocked(msgs)
    PROVE  /\ z \in Seq(Clean(p)) /\ NoBlock(z) /\ ResultsIn(z) \subseteq ResultsIn(msgs)
           /\ CallsFirst(msgs) => CallsFirst(z)
<1> DEFINE S == {m \in ToSet(msgs) : m.kind # "aux"}
<1>1. z = Only(msgs, S)
  BY DEF Unblocked
<1>2. PICK h : Picks(h, Only(msgs, S), msgs, S, Len(msgs))
  BY OnlyPicks
<1>3. /\ Only(msgs, S) \in Seq(Clean(o)) /\ ResultsIn(Only(msgs, S)) \subseteq ResultsIn(msgs)
      /\ CallsFirst(msgs) => CallsFirst(Only(msgs, S))
  BY OnlySelects
<1>4. \A i \in 1..Len(z) : z[i] \in S
  BY <1>1, <1>2 DEF Picks
<1>5. \A i \in 1..Len(z) : z[i] \in Clean(o) /\ z[i].kind # "aux"
  BY <1>1, <1>3, <1>4
<1> HIDE DEF S
<1>6. \A i \in 1..Len(z) : z[i] \in Clean(p)
  BY <1>5 DEF Clean
<1>7. Len(z) \in Nat /\ DOMAIN z = 1..Len(z) /\ z = [i \in 1..Len(z) |-> z[i]]
  BY <1>1, <1>3
<1>8. z \in Seq(Clean(p))
  BY <1>6, <1>7
<1>9. NoBlock(z)
  BY <1>5, <1>7 DEF NoBlock
<1> QED BY <1>1, <1>3, <1>8, <1>9

(* What an attempt starts with. *)
Started(z, h, p) ==
    /\ z \in Seq(Clean(p)) /\ ResultsIn(z) \subseteq ResultsIn(h)
    /\ CallsFirst(h) => CallsFirst(z)
    /\ Opens(z, p)

(* The blocks of an attempt and its prompt. *)
UpTo(k, n, x) == Len(k) \in 0..n /\ \A i \in 1..Len(k) : k[i] = x

Maybe(some, x) == IF some THEN <<x>> ELSE <<>>

(* A block or none, *)
LEMMA UpToOne ==
    ASSUME NEW V, NEW x \in V, NEW some \in BOOLEAN, NEW k, k = Maybe(some, x)
    PROVE  k \in Seq(V) /\ UpTo(k, 1, x)
<1>1. CASE some
  <2>1. k = <<x>>
    BY <1>1 DEF Maybe
  <2>2. Len(k) = 1 /\ k[1] = x /\ k \in Seq(V)
    BY <2>1
  <2> QED BY <2>2 DEF UpTo
<1>2. CASE ~some
  BY <1>2 DEF UpTo, Maybe
<1> QED BY <1>1, <1>2

(* and two of that. *)
LEMMA UpToTwo ==
    ASSUME NEW V, NEW x, NEW a \in Seq(V), NEW b \in Seq(V), UpTo(a, 1, x), UpTo(b, 1, x), NEW k, k = a \o b
    PROVE  k \in Seq(V) /\ UpTo(k, 2, x)
<1>1. k \in Seq(V) /\ Len(k) = Len(a) + Len(b) /\ JoinOf(k, a, b)
  BY JoinShape
<1>2. \A i \in 1..Len(k) : k[i] = x
  BY <1>1 DEF JoinOf, UpTo
<1>3. Len(k) \in 0..2
  BY <1>1 DEF UpTo
<1> QED BY <1>1, <1>2, <1>3 DEF UpTo

(* They are an opening. *)
LEMMA OpeningMade ==
    ASSUME NEW p \in Nat, NEW b, \E helped, complex \in BOOLEAN :
               b = ((IF helped THEN <<Aux(p)>> ELSE <<>>) \o (IF complex THEN <<Aux(p)>> ELSE <<>>)) \o <<User(<<"prompt", p>>)>>
    PROVE  Opening(b, p) /\ Mute(b)
<1>1. PICK x, u : x = Aux(p) /\ u = User(<<"prompt", p>>)
  OBVIOUS
<1>2. x \in Clean(p) /\ u \in Clean(p) /\ x.calls = {} /\ x.role = "system" /\ u.calls = {} /\ u.role = "user"
  <2>1. x.calls = {} /\ x.role = "system" /\ u.calls = {} /\ u.role = "user"
    BY <1>1 DEF Aux, User, Msg
  <2> QED BY <1>1, <2>1, MadeMessages
<1>3. PICK helped \in BOOLEAN, complex \in BOOLEAN :
         b = (Maybe(helped, x) \o Maybe(complex, x)) \o <<u>>
  BY <1>1 DEF Maybe
<1>7. PICK k1, k2, e : k1 = Maybe(helped, x) /\ k2 = Maybe(complex, x) /\ e = <<u>>
  OBVIOUS
<1>8. PICK k : k = k1 \o k2
  OBVIOUS
<1>16. PICK V : V = Clean(p)
  OBVIOUS
<1>17. x \in V /\ u \in V
  BY <1>2, <1>16
<1>9. k1 \in Seq(V) /\ UpTo(k1, 1, x) /\ k2 \in Seq(V) /\ UpTo(k2, 1, x)
  BY <1>7, <1>17, UpToOne
<1>10. k \in Seq(V) /\ UpTo(k, 2, x)
  BY <1>8, <1>9, UpToTwo
<1>11. e \in Seq(V) /\ Len(e) = 1 /\ e[1] = u
  BY <1>7, <1>17
<1>12. b = k \o e
  BY <1>3, <1>7, <1>8
<1>13. b \in Seq(V) /\ Len(b) = Len(k) + Len(e) /\ JoinOf(b, k, e)
  BY <1>10, <1>11, <1>12, JoinShape
<1> DEFINE n == Len(k)
<1>14. n \in 0..2 /\ \A i \in 1..n : k[i] = x
  BY <1>10 DEF UpTo
<1> HIDE DEF n
<1>15. /\ Len(b) = n + 1 /\ DOMAIN b = 1..(n + 1)
       /\ \A i \in 1..n : b[i] = k[i]
       /\ b[n + 1] = e[1]
  <2>1. 1 \in 1..Len(e)
    BY <1>11
  <2> QED BY <1>11, <1>13, <2>1 DEF JoinOf, n
<1>4. Opening(b, p)
  <2>1. Len(b) \in 1..3 /\ Len(b) - 1 = n
    BY <1>14, <1>15
  <2>2. b[Len(b)] = User(<<"prompt", p>>) /\ \A i \in 1..n : b[i] = Aux(p)
    BY <1>1, <1>11, <1>14, <1>15
  <2> QED BY <1>13, <1>16, <2>1, <2>2 DEF Opening
<1>5. \A i \in DOMAIN b : b[i] \in {x, u}
  <2>1. \A i \in 1..(n + 1) : i \in 1..n \/ i = n + 1
    BY <1>14
  <2> QED BY <1>11, <1>14, <1>15, <2>1
<1>6. Mute(b)
  BY <1>2, <1>5, MuteWhen
<1> QED BY <1>4, <1>6

(* BeginAttempt does that, whatever prompt the history was at. *)
LEMMA BeginSound ==
    ASSUME NEW s \in Sessions, NEW o \in Nat, NEW p \in Nat, hist[s] \in Seq(Clean(o)),
           cached \in Seq(SUBSET PlainItem), BeginAttempt(s, p)
    PROVE  /\ \E z : hist' = [hist EXCEPT ![s] = z] /\ Started(z, hist[s], p)
           /\ cached' \in Seq(SUBSET PlainItem)
<1>1. PICK h : h = hist[s]
  OBVIOUS
<1>2. PICK raw : raw = buildMessages(h)
  OBVIOUS
<1>3. PICK r : r = IF shouldCompress(raw) = "none" THEN [msgs |-> h, cached |-> cached] ELSE compressSync(raw)
  OBVIOUS
<1>4. PICK helped \in BOOLEAN, complex \in BOOLEAN :
        LET plan == override = "on" \/ (override = "none" /\ complex)
            blocks == (IF helped THEN <<Aux(p)>> ELSE <<>>) \o (IF plan THEN <<Aux(p)>> ELSE <<>>)
        IN  /\ hist' = [hist EXCEPT ![s] = Unblocked(r.msgs) \o blocks \o <<User(<<"prompt", p>>)>>]
            /\ cached' = r.cached
  BY <1>1, <1>2, <1>3 DEF BeginAttempt
<1>5. PICK plan \in BOOLEAN : plan = (override = "on" \/ (override = "none" /\ complex))
  OBVIOUS
<1>6. PICK k : k = (IF helped THEN <<Aux(p)>> ELSE <<>>) \o (IF plan THEN <<Aux(p)>> ELSE <<>>)
  OBVIOUS
<1>7. PICK e : e = <<User(<<"prompt", p>>)>>
  OBVIOUS
<1>8. PICK b : b = k \o e
  OBVIOUS
<1>9. Opening(b, p) /\ Mute(b)
  BY <1>6, <1>7, <1>8, OpeningMade
<1>10. PICK a : a = Unblocked(r.msgs)
  OBVIOUS
<1>11. hist' = [hist EXCEPT ![s] = a \o k \o e] /\ cached' = r.cached
  BY <1>4, <1>5, <1>6, <1>7, <1>10
<1>12. PICK m : m = r.msgs
  OBVIOUS
<1>13. m \in Seq(Clean(o)) /\ ResultsIn(m) \subseteq ResultsIn(h) /\ (CallsFirst(h) => CallsFirst(m)) /\ r.cached \in Seq(SUBSET PlainItem)
  <2>1. CASE shouldCompress(raw) = "none"
    BY <1>1, <1>3, <1>12, <2>1
  <2>2. CASE shouldCompress(raw) # "none"
    <3>1. h \in Seq(Clean(o)) /\ r = compressSync(raw)
      BY <1>1, <1>3, <2>2
    <3>2. raw \in Seq(Clean(o)) /\ ResultsIn(raw) \subseteq ResultsIn(h) /\ (CallsFirst(h) => CallsFirst(raw))
      BY <1>2, <3>1, BuildSound
    <3>3. Kept(r.msgs, raw, o) /\ r.cached \in Seq(SUBSET PlainItem)
      BY <3>1, <3>2, SyncSound
    <3> QED BY <1>12, <3>2, <3>3 DEF Kept
  <2> QED BY <2>1, <2>2
<1>14. /\ a \in Seq(Clean(p)) /\ NoBlock(a) /\ ResultsIn(a) \subseteq ResultsIn(m)
       /\ CallsFirst(m) => CallsFirst(a)
  BY <1>10, <1>12, <1>13, UnblockedSound
<1>15. a \o k \o e = a \o b
  <2>1. PICK V, x, u : V = Clean(p) /\ x = Aux(p) /\ u = User(<<"prompt", p>>)
    OBVIOUS
  <2>2. x \in V /\ u \in V
    BY <2>1, MadeMessages
  <2>5. e = <<u>> /\ k = (IF helped THEN <<x>> ELSE <<>>) \o (IF plan THEN <<x>> ELSE <<>>)
    BY <1>6, <1>7, <2>1
  <2>6. e \in Seq(V) /\ k \in Seq(V)
    BY <2>2, <2>5
  <2>3. a \in Seq(V) /\ k \in Seq(V) /\ e \in Seq(V)
    BY <1>14, <2>1, <2>6
  <2>4. SameJoins(a, k, e)
    BY <2>3, JoinAgain
  <2> QED BY <1>8, <2>4 DEF SameJoins
<1>16. PICK z : z = a \o b
  OBVIOUS
<1>17. b \in Seq(Clean(p))
  BY <1>9 DEF Opening
<1>18. z \in Seq(Clean(p)) /\ ResultsIn(z) = ResultsIn(a) /\ (CallsFirst(a) => CallsFirst(z))
  BY <1>9, <1>14, <1>16, <1>17, MuteBehind
<1>19. Opens(z, p)
  BY <1>9, <1>14, <1>16, <1>17 DEF Opens
<1>20. Started(z, h, p)
  BY <1>13, <1>14, <1>18, <1>19 DEF Started
<1> QED BY <1>1, <1>11, <1>13, <1>15, <1>16, <1>20

LoopPcs == {"idle", "top", "summarizing", "asked", "backoff"}

HistTypes ==
    /\ called \in Nat /\ prompted \in Nat
    /\ cached \in Seq(SUBSET PlainItem)
    /\ DOMAIN hist = Sessions /\ DOMAIN sent = Sessions /\ DOMAIN pending = Sessions
    /\ loop \in [Sessions -> [pc : LoopPcs, prompt : Nat, attempts : Nat, rounds : Nat]]

(* A history h of a session at l, when so many calls have been made. *)
HistoryOf(l, h, calls) ==
    /\ h \in Seq(Clean(l.prompt)) /\ ResultsIn(h) \subseteq 0..calls /\ CallsFirst(h)
    /\ l.pc \in {"top", "summarizing", "asked"} /\ l.rounds = 0 => Opens(h, l.prompt)

(* The request z made of it. *)
RequestOf(l, h, z) ==
    LET raw == buildMessages(h)
    IN  /\ Kept(z, raw, l.prompt)
        /\ z = raw \/ shouldCompress(raw) \in {"none", "prune_only"} \/ Called(z)

SessionSound(l, h, z, w, calls) ==
    /\ HistoryOf(l, h, calls)
    /\ l.pc = "summarizing" => w = buildMessages(h)
    /\ l.pc = "asked" => RequestOf(l, h, z)

HistInv == HistTypes /\ \A s \in Sessions : SessionSound(loop[s], hist[s], sent[s], pending[s], called)

(* What holds of a session when so many calls were made holds when there are more. *)
LEMMA MoreCalls ==
    ASSUME NEW l, NEW h, NEW z, NEW w, NEW n \in Nat, NEW m \in Nat, n <= m, SessionSound(l, h, z, w, n)
    PROVE  SessionSound(l, h, z, w, m)
<1>1. 0..n \subseteq 0..m
  OBVIOUS
<1> QED BY <1>1 DEF SessionSound, HistoryOf

(* A step of a session leaves the others as they are. *)
OnlyOf(s, f, g) == DOMAIN g = DOMAIN f /\ \A t \in Sessions : t # s => g[t] = f[t]

(* So it keeps the invariant if it keeps that of its session. *)
LEMMA OneSession ==
    ASSUME HistInv, HistTypes', called <= called', NEW s \in Sessions,
           OnlyOf(s, loop, loop'), OnlyOf(s, hist, hist'), OnlyOf(s, sent, sent'), OnlyOf(s, pending, pending'),
           SessionSound(loop'[s], hist'[s], sent'[s], pending'[s], called')
    PROVE  HistInv'
<1>1. ASSUME NEW t \in Sessions PROVE SessionSound(loop'[t], hist'[t], sent'[t], pending'[t], called')
  <2>1. CASE t = s
    BY <2>1
  <2>2. CASE t # s
    <3>1. SessionSound(loop[t], hist[t], sent[t], pending[t], called)
      BY DEF HistInv
    <3>2. called \in Nat /\ called' \in Nat
      BY DEF HistInv, HistTypes
    <3>3. SessionSound(loop[t], hist[t], sent[t], pending[t], called')
      BY <3>1, <3>2, MoreCalls
    <3> QED BY <2>2, <3>3 DEF OnlyOf
  <2> QED BY <2>1, <2>2
<1> QED BY <1>1 DEF HistInv

(* What is known of a session before its step. *)
LEMMA OfSession ==
    ASSUME HistInv, NEW s \in Sessions, NEW l, l = loop[s], NEW h, h = hist[s], NEW raw, raw = buildMessages(h)
    PROVE  /\ l \in [pc : LoopPcs, prompt : Nat, attempts : Nat, rounds : Nat]
           /\ l.prompt \in Nat /\ called \in Nat /\ cached \in Seq(SUBSET PlainItem)
           /\ h \in Seq(Clean(l.prompt)) /\ ResultsIn(h) \subseteq 0..called /\ CallsFirst(h)
           /\ raw \in Seq(Clean(l.prompt)) /\ CallsFirst(raw)
           /\ l.pc \in {"top", "summarizing", "asked"} /\ l.rounds = 0 => Opens(h, l.prompt)
           /\ l.pc = "summarizing" => pending[s] = raw
           /\ l.pc = "asked" => RequestOf(l, h, sent[s])
<1>1. SessionSound(l, h, sent[s], pending[s], called) /\ HistTypes
  BY DEF HistInv
<1>2. l \in [pc : LoopPcs, prompt : Nat, attempts : Nat, rounds : Nat] /\ l.prompt \in Nat
  BY <1>1 DEF HistTypes
<1>3. h \in Seq(Clean(l.prompt)) /\ CallsFirst(h)
  BY <1>1 DEF SessionSound, HistoryOf
<1>4. raw \in Seq(Clean(l.prompt)) /\ CallsFirst(raw)
  BY <1>2, <1>3, BuildSound
<1> QED BY <1>1, <1>2, <1>3, <1>4 DEF SessionSound, HistoryOf, HistTypes

(* The invariant holds at first, and each action keeps it. *)
LEMMA HistInitial ==
    ASSUME HistoryInit
    PROVE  HistInv
<1> USE DEF HistoryInit
<1>1. HistTypes
  <2>1. loop \in [Sessions -> [pc : LoopPcs, prompt : Nat, attempts : Nat, rounds : Nat]]
    BY DEF LoopPcs
  <2> QED BY <2>1 DEF HistTypes
<1>2. ASSUME NEW s \in Sessions PROVE SessionSound(loop[s], hist[s], sent[s], pending[s], called)
  <2>1. hist[s] = <<>> /\ loop[s].pc = "idle"
    OBVIOUS
  <2>2. Mute(<<>>)
    BY MuteWhen
  <2>3. HistoryOf(loop[s], hist[s], called)
    BY <2>1, <2>2 DEF HistoryOf, Mute
  <2> QED BY <2>1, <2>3 DEF SessionSound
<1> QED BY <1>1, <1>2 DEF HistInv

(* A history an attempt starts with, when the session is at it. *)
LEMMA AttemptBegins ==
    ASSUME HistInv, NEW s \in Sessions, NEW p \in Nat, BeginAttempt(s, p),
           NEW l \in [pc : LoopPcs, prompt : Nat, attempts : Nat, rounds : Nat],
           l.pc = "top", l.prompt = p, loop' = [loop EXCEPT ![s] = l],
           prompted' \in Nat, UNCHANGED <<sent, pending, called>>
    PROVE  HistInv'
<1>1. PICK o, h, raw : o = loop[s] /\ h = hist[s] /\ raw = buildMessages(h)
  OBVIOUS
<1>2. /\ o.prompt \in Nat /\ called \in Nat /\ cached \in Seq(SUBSET PlainItem)
      /\ h \in Seq(Clean(o.prompt)) /\ ResultsIn(h) \subseteq 0..called /\ CallsFirst(h)
  BY <1>1, OfSession
<1>3. /\ \E z : hist' = [hist EXCEPT ![s] = z] /\ Started(z, hist[s], p)
      /\ cached' \in Seq(SUBSET PlainItem)
  BY <1>1, <1>2, BeginSound
<1>4. PICK z : hist' = [hist EXCEPT ![s] = z] /\ Started(z, h, p)
  BY <1>1, <1>3
<1>5. /\ DOMAIN hist = Sessions /\ DOMAIN sent = Sessions /\ DOMAIN pending = Sessions
      /\ loop \in [Sessions -> [pc : LoopPcs, prompt : Nat, attempts : Nat, rounds : Nat]]
  BY DEF HistInv, HistTypes
<1>6. HistTypes'
  BY <1>2, <1>3, <1>4, <1>5 DEF HistTypes
<1>7. hist'[s] = z /\ loop'[s] = l
  BY <1>4, <1>5
<1>8. HistoryOf(l, z, called)
  BY <1>2, <1>4 DEF Started, HistoryOf
<1>9. SessionSound(loop'[s], hist'[s], sent'[s], pending'[s], called')
  BY <1>7, <1>8 DEF SessionSound
<1>10. OnlyOf(s, loop, loop') /\ OnlyOf(s, hist, hist') /\ OnlyOf(s, sent, sent') /\ OnlyOf(s, pending, pending')
  BY <1>4, <1>5 DEF OnlyOf
<1>11. called <= called'
  BY <1>2
<1> QED BY <1>6, <1>9, <1>10, <1>11, OneSession

LEMMA StartPromptKeeps ==
    ASSUME HistInv, NEW s \in Sessions, StartPrompt(s)
    PROVE  HistInv'
<1>1. PICK p, l : p = prompted + 1 /\ l = [pc |-> "top", prompt |-> p, attempts |-> 1, rounds |-> 0]
  OBVIOUS
<1>2. p \in Nat
  BY <1>1 DEF HistInv, HistTypes
<1>3. l \in [pc : LoopPcs, prompt : Nat, attempts : Nat, rounds : Nat] /\ l.pc = "top" /\ l.prompt = p
  BY <1>1, <1>2 DEF LoopPcs
<1>4. BeginAttempt(s, p) /\ loop' = [loop EXCEPT ![s] = l] /\ prompted' \in Nat /\ UNCHANGED <<sent, pending, called>>
  BY <1>1, <1>2 DEF StartPrompt
<1> QED BY <1>2, <1>3, <1>4, AttemptBegins

LEMMA RetryPromptKeeps ==
    ASSUME HistInv, NEW s \in Sessions, RetryPrompt(s)
    PROVE  HistInv'
<1>1. PICK o : o = loop[s]
  OBVIOUS
<1>2. o \in [pc : LoopPcs, prompt : Nat, attempts : Nat, rounds : Nat] /\ prompted \in Nat
  BY <1>1 DEF HistInv, HistTypes
<1>3. PICK l : l = [o EXCEPT !.pc = "top", !.attempts = @ + 1, !.rounds = 0]
  OBVIOUS
<1>4. l \in [pc : LoopPcs, prompt : Nat, attempts : Nat, rounds : Nat] /\ l.pc = "top" /\ l.prompt = o.prompt
  <2>1. PICK n : n = o.attempts + 1
    OBVIOUS
  <2>2. n \in Nat /\ "top" \in LoopPcs
    BY <1>2, <2>1 DEF LoopPcs
  <2>3. l = [o EXCEPT !.pc = "top", !.attempts = n, !.rounds = 0]
    BY <1>3, <2>1
  <2>4. /\ l = [pc |-> "top", prompt |-> o.prompt, attempts |-> n, rounds |-> 0]
    BY <1>2, <2>3
  <2> QED BY <1>2, <2>2, <2>4
<1>5. loop' = [loop EXCEPT ![s] = l]
  BY <1>1, <1>3 DEF RetryPrompt
<1>6. BeginAttempt(s, o.prompt) /\ prompted' \in Nat /\ UNCHANGED <<sent, pending, called>>
  BY <1>1, <1>2 DEF RetryPrompt
<1> QED BY <1>2, <1>4, <1>5, <1>6, AttemptBegins

(* A request is made, of the history as it is. *)
LEMMA RequestMade ==
    ASSUME HistInv, NEW s \in Sessions, loop[s].pc \in {"top", "summarizing"},
           loop' = [loop EXCEPT ![s].pc = "asked"], NEW z, sent' = [sent EXCEPT ![s] = z],
           RequestOf(loop[s], hist[s], z), OnlyOf(s, pending, pending'), cached' \in Seq(SUBSET PlainItem),
           UNCHANGED <<hist, called, prompted>>
    PROVE  HistInv'
<1>1. PICK o, h, raw : o = loop[s] /\ h = hist[s] /\ raw = buildMessages(h)
  OBVIOUS
<1>2. /\ o \in [pc : LoopPcs, prompt : Nat, attempts : Nat, rounds : Nat] /\ called \in Nat
      /\ h \in Seq(Clean(o.prompt)) /\ ResultsIn(h) \subseteq 0..called /\ CallsFirst(h)
      /\ o.pc \in {"top", "summarizing", "asked"} /\ o.rounds = 0 => Opens(h, o.prompt)
  BY <1>1, OfSession
<1>3. PICK l : l = [o EXCEPT !.pc = "asked"]
  OBVIOUS
<1>4. l \in [pc : LoopPcs, prompt : Nat, attempts : Nat, rounds : Nat] /\ l.pc = "asked" /\ l.prompt = o.prompt /\ l.rounds = o.rounds
  BY <1>2, <1>3 DEF LoopPcs
<1>5. /\ DOMAIN hist = Sessions /\ DOMAIN sent = Sessions /\ DOMAIN pending = Sessions /\ prompted \in Nat
      /\ loop \in [Sessions -> [pc : LoopPcs, prompt : Nat, attempts : Nat, rounds : Nat]]
  BY DEF HistInv, HistTypes
<1>6. loop' = [loop EXCEPT ![s] = l]
  BY <1>1, <1>3
<1>7. loop'[s] = l /\ sent'[s] = z /\ hist'[s] = h /\ called' = called
  BY <1>1, <1>5, <1>6
<1>8. HistTypes'
  <2>1. loop' \in [Sessions -> [pc : LoopPcs, prompt : Nat, attempts : Nat, rounds : Nat]]
    BY <1>4, <1>5, <1>6
  <2>2. DOMAIN hist' = Sessions /\ DOMAIN sent' = Sessions /\ DOMAIN pending' = Sessions
    BY <1>5 DEF OnlyOf
  <2> QED BY <1>2, <1>5, <2>1, <2>2 DEF HistTypes
<1>9. HistoryOf(l, h, called)
  BY <1>1, <1>2, <1>4 DEF HistoryOf
<1>10. RequestOf(l, h, z)
  BY <1>1, <1>4 DEF RequestOf
<1>11. SessionSound(loop'[s], hist'[s], sent'[s], pending'[s], called')
  BY <1>4, <1>7, <1>9, <1>10 DEF SessionSound
<1>12. OnlyOf(s, loop, loop') /\ OnlyOf(s, hist, hist') /\ OnlyOf(s, sent, sent') /\ called <= called'
  BY <1>2, <1>5, <1>6 DEF OnlyOf
<1> QED BY <1>8, <1>11, <1>12, OneSession

LEMMA SendRequestKeeps ==
    ASSUME HistInv, NEW s \in Sessions, SendRequest(s)
    PROVE  HistInv'
<1>1. PICK o, h, raw : o = loop[s] /\ h = hist[s] /\ raw = buildMessages(h)
  OBVIOUS
<1>2. /\ o.prompt \in Nat /\ raw \in Seq(Clean(o.prompt)) /\ CallsFirst(raw) /\ cached \in Seq(SUBSET PlainItem)
  BY <1>1, OfSession
<1>3. PICK r : r = compressSync(raw)
  OBVIOUS
<1>4. /\ Kept(r.msgs, raw, o.prompt) /\ r.cached \in Seq(SUBSET PlainItem)
      /\ shouldCompress(raw) \notin {"none", "prune_only"} /\ CallsFirst(raw) => Called(r.msgs)
      /\ shouldCompress(raw) = "none" => r.msgs = raw
  BY <1>2, <1>3, SyncSound
<1>5. RequestOf(o, h, r.msgs)
  BY <1>1, <1>2, <1>4 DEF RequestOf
<1>6. /\ loop[s].pc = "top" /\ loop' = [loop EXCEPT ![s].pc = "asked"]
      /\ sent' = [sent EXCEPT ![s] = r.msgs] /\ cached' = r.cached
      /\ UNCHANGED <<hist, pending, called, prompted>>
  BY <1>1, <1>3 DEF SendRequest
<1>7. OnlyOf(s, pending, pending')
  BY <1>6 DEF OnlyOf
<1> QED BY <1>1, <1>4, <1>5, <1>6, <1>7, RequestMade

LEMMA SkipCompressionKeeps ==
    ASSUME HistInv, NEW s \in Sessions, SkipCompression(s)
    PROVE  HistInv'
<1>1. PICK o, h, raw : o = loop[s] /\ h = hist[s] /\ raw = buildMessages(h)
  OBVIOUS
<1>2. /\ o.prompt \in Nat /\ raw \in Seq(Clean(o.prompt)) /\ cached \in Seq(SUBSET PlainItem)
  BY <1>1, OfSession
<1>3. RequestOf(o, h, raw)
  BY <1>1, <1>2, RawKept DEF RequestOf
<1>4. /\ loop[s].pc = "top" /\ loop' = [loop EXCEPT ![s].pc = "asked"]
      /\ sent' = [sent EXCEPT ![s] = raw] /\ cached' = cached
      /\ UNCHANGED <<hist, pending, called, prompted>>
  BY <1>1 DEF SkipCompression
<1>5. OnlyOf(s, pending, pending')
  BY <1>4 DEF OnlyOf
<1> QED BY <1>1, <1>2, <1>3, <1>4, <1>5, RequestMade

LEMMA EndCompressionKeeps ==
    ASSUME HistInv, NEW s \in Sessions, EndCompression(s)
    PROVE  HistInv'
<1>1. PICK o, h, raw : o = loop[s] /\ h = hist[s] /\ raw = buildMessages(h)
  OBVIOUS
<1>2. loop[s].pc = "summarizing"
  BY DEF EndCompression
<1>3. /\ o.prompt \in Nat /\ raw \in Seq(Clean(o.prompt)) /\ CallsFirst(raw) /\ cached \in Seq(SUBSET PlainItem)
      /\ o.pc = "summarizing" => pending[s] = raw
  BY <1>1, OfSession
<1>4. PICK middle : middle = Split(raw, "full").middle
  OBVIOUS
<1>5. PICK merged : merged = mergeWithExistingSummary(cached, Summary(middle))
  OBVIOUS
<1>6. merged \in Seq(SUBSET PlainItem)
  BY <1>3, <1>4, <1>5, MiddleSummary
<1>7. PICK z : z = Compressed(raw, "full", merged)
  OBVIOUS
<1>8. Kept(z, raw, o.prompt) /\ (CallsFirst(raw) => Called(z))
  BY <1>3, <1>6, <1>7, CompressedKept
<1>9. RequestOf(o, h, z)
  BY <1>1, <1>3, <1>8 DEF RequestOf
<1>10. /\ sent' = [sent EXCEPT ![s] = z] /\ cached' \in {cached, merged}
       /\ pending' = [pending EXCEPT ![s] = <<>>] /\ loop' = [loop EXCEPT ![s].pc = "asked"]
       /\ UNCHANGED <<hist, called, prompted>>
  BY <1>1, <1>2, <1>3, <1>4, <1>5, <1>7 DEF EndCompression
<1>11. cached' \in Seq(SUBSET PlainItem)
  BY <1>3, <1>6, <1>10
<1>12. OnlyOf(s, pending, pending')
  BY <1>10 DEF OnlyOf
<1> QED BY <1>1, <1>2, <1>9, <1>10, <1>11, <1>12, RequestMade

LEMMA BeginCompressionKeeps ==
    ASSUME HistInv, NEW s \in Sessions, BeginCompression(s)
    PROVE  HistInv'
<1>1. PICK o, h, raw : o = loop[s] /\ h = hist[s] /\ raw = buildMessages(h)
  OBVIOUS
<1>2. /\ o \in [pc : LoopPcs, prompt : Nat, attempts : Nat, rounds : Nat] /\ called \in Nat /\ cached \in Seq(SUBSET PlainItem)
      /\ h \in Seq(Clean(o.prompt)) /\ ResultsIn(h) \subseteq 0..called /\ CallsFirst(h)
      /\ o.pc \in {"top", "summarizing", "asked"} /\ o.rounds = 0 => Opens(h, o.prompt)
  BY <1>1, OfSession
<1>3. /\ o.pc = "top" /\ loop' = [loop EXCEPT ![s].pc = "summarizing"] /\ pending' = [pending EXCEPT ![s] = raw]
      /\ UNCHANGED <<hist, sent, cached, called, prompted>>
  BY <1>1 DEF BeginCompression
<1>4. PICK l : l = [o EXCEPT !.pc = "summarizing"]
  OBVIOUS
<1>5. l \in [pc : LoopPcs, prompt : Nat, attempts : Nat, rounds : Nat] /\ l.pc = "summarizing" /\ l.prompt = o.prompt /\ l.rounds = o.rounds
  BY <1>2, <1>4 DEF LoopPcs
<1>6. /\ DOMAIN hist = Sessions /\ DOMAIN sent = Sessions /\ DOMAIN pending = Sessions /\ prompted \in Nat
      /\ loop \in [Sessions -> [pc : LoopPcs, prompt : Nat, attempts : Nat, rounds : Nat]]
  BY DEF HistInv, HistTypes
<1>7. loop' = [loop EXCEPT ![s] = l]
  BY <1>1, <1>3, <1>4
<1>8. HistTypes'
  BY <1>2, <1>3, <1>5, <1>6, <1>7 DEF HistTypes
<1>9. HistoryOf(l, h, called)
  BY <1>2, <1>3, <1>5 DEF HistoryOf
<1>10. SessionSound(l, h, sent'[s], raw, called)
  BY <1>1, <1>5, <1>9 DEF SessionSound
<1>11. loop'[s] = l /\ hist'[s] = h /\ pending'[s] = raw /\ called' = called
  BY <1>1, <1>3, <1>6, <1>7
<1>12. OnlyOf(s, loop, loop') /\ OnlyOf(s, hist, hist') /\ OnlyOf(s, sent, sent') /\ OnlyOf(s, pending, pending') /\ called <= called'
  BY <1>2, <1>3, <1>6, <1>7 DEF OnlyOf
<1> QED BY <1>8, <1>10, <1>11, <1>12, OneSession

(* The session goes on with a longer or a shorter history, at a later round or at none. *)
LEMMA HistoryGoesOn ==
    ASSUME HistInv, NEW s \in Sessions, NEW h, hist' = [hist EXCEPT ![s] = h],
           NEW l \in [pc : LoopPcs, prompt : Nat, attempts : Nat, rounds : Nat], loop' = [loop EXCEPT ![s] = l],
           l.pc \in {"idle", "backoff"} \/ (l.pc = "top" /\ l.rounds # 0),
           called' \in Nat, called <= called', h \in Seq(Clean(l.prompt)), ResultsIn(h) \subseteq 0..called', CallsFirst(h),
           sent' = [sent EXCEPT ![s] = <<>>], UNCHANGED <<pending, cached, prompted>>
    PROVE  HistInv'
<1>1. /\ DOMAIN hist = Sessions /\ DOMAIN sent = Sessions /\ DOMAIN pending = Sessions /\ prompted \in Nat
      /\ cached \in Seq(SUBSET PlainItem)
      /\ loop \in [Sessions -> [pc : LoopPcs, prompt : Nat, attempts : Nat, rounds : Nat]]
  BY DEF HistInv, HistTypes
<1>2. HistTypes'
  BY <1>1 DEF HistTypes
<1>3. HistoryOf(l, h, called')
  BY DEF HistoryOf
<1>4. SessionSound(l, h, sent'[s], pending'[s], called')
  BY <1>3 DEF SessionSound
<1>5. loop'[s] = l /\ hist'[s] = h
  BY <1>1
<1>6. OnlyOf(s, loop, loop') /\ OnlyOf(s, hist, hist') /\ OnlyOf(s, sent, sent') /\ OnlyOf(s, pending, pending')
  BY <1>1 DEF OnlyOf
<1> QED BY <1>2, <1>4, <1>5, <1>6, OneSession

(* The results of the n calls after c. *)
Returns(t, c, n) == \E returned \in [1..n -> Contents] : t = [i \in 1..n |-> Result(c + i, returned[i])]

(* They are clean, and of these calls. *)
LEMMA ResultsOf ==
    ASSUME NEW p \in Nat, NEW c \in Nat, NEW n \in Nat, NEW t, Returns(t, c, n)
    PROVE  /\ t \in Seq(Clean(p)) /\ Known(t) = {} /\ CallsFirst(t)
           /\ ResultsIn(t) \subseteq 0..(c + n)
<1>0. PICK returned \in [1..n -> Contents] : t = [i \in 1..n |-> Result(c + i, returned[i])]
  BY DEF Returns
<1>1. \A i \in 1..n : c + i \in Nat /\ c + i \in 0..(c + n) /\ returned[i] \in Contents
  OBVIOUS
<1>2. ASSUME NEW i \in 1..n
      PROVE  /\ t[i] \in Clean(p) /\ t[i].of = c + i /\ t[i].calls = {}
  <2>1. PICK m, r : m = c + i /\ r = returned[i]
    OBVIOUS
  <2>2. m \in Nat /\ r \in Contents /\ t[i] = Result(m, r)
    BY <1>0, <1>1, <2>1
  <2>3. Result(m, r) \in Clean(p)
    BY <2>2, MadeMessages
  <2>4. Result(m, r).of = m /\ Result(m, r).calls = {}
    BY DEF Result, Msg
  <2> QED BY <2>1, <2>2, <2>3, <2>4
<1>3. DOMAIN t = 1..n /\ t = [i \in 1..n |-> t[i]]
  BY <1>0
<1>4. t \in Seq(Clean(p))
  <2>1. n \in Nat
    OBVIOUS
  <2> QED BY <1>2, <1>3, <2>1
<1>5. Known(t) = {} /\ CallsFirst(t)
  BY <1>2, <1>3 DEF Known, CallsFirst
<1>6. ResultsIn(t) \subseteq 0..(c + n)
  BY <1>1, <1>2, <1>3 DEF ResultsIn
<1> QED BY <1>4, <1>5, <1>6

(* n calls, with the results of the first k of them, behind a history. *)
LEMMA CallsAdded ==
    ASSUME NEW p \in Nat, NEW h \in Seq(Clean(p)), NEW c \in Nat, ResultsIn(h) \subseteq 0..c, CallsFirst(h),
           NEW n \in Nat \ {0}, NEW k \in 0..n, NEW e, e = <<Calling((c + 1)..(c + n))>>,
           NEW t, Returns(t, c, k), NEW z, z = h \o e \o t
    PROVE  z \in Seq(Clean(p)) /\ ResultsIn(z) \subseteq 0..(c + n) /\ CallsFirst(z)
<1>2. PICK g : g = h \o e
  OBVIOUS
<1>3. z = g \o t
  BY <1>2
<1>4. c + n \in Nat /\ c <= c + n /\ k \in Nat /\ c + k <= c + n /\ c + k \in Nat
  OBVIOUS
<1>5. e \in Seq(Clean(p)) /\ Known(e) = (c + 1)..(c + n) /\ ResultsIn(e) = {} /\ CallsFirst(e)
  <2>1. PICK ids : ids = (c + 1)..(c + n)
    OBVIOUS
  <2>2. ids \in SUBSET Nat
    BY <1>4, <2>1
  <2>3. Calling(ids) \in Clean(p) /\ Calling(ids).calls = ids /\ Calling(ids).role = "assistant"
    BY <2>2, MadeMessages DEF Calling, Msg
  <2>4. Len(e) = 1 /\ DOMAIN e = {1} /\ e[1] = Calling(ids) /\ e \in Seq(Clean(p))
    BY <2>1, <2>3
  <2>5. \A x : x \in Known(e) <=> x \in ids
    BY <2>3, <2>4 DEF Known
  <2>6. ResultsIn(e) = {} /\ CallsFirst(e)
    BY <2>3, <2>4 DEF ResultsIn, CallsFirst
  <2> QED BY <2>1, <2>4, <2>5, <2>6
<1>6. t \in Seq(Clean(p)) /\ Known(t) = {} /\ CallsFirst(t) /\ ResultsIn(t) \subseteq 0..(c + k)
  BY <1>4, ResultsOf
<1>7. Behind(g, h, e) /\ g \in Seq(Clean(p))
  BY <1>2, <1>5, JoinBehind, JoinShape
<1>8. Behind(z, g, t) /\ z \in Seq(Clean(p))
  BY <1>3, <1>6, <1>7, JoinBehind, JoinShape
<1>9. ResultsIn(h) \cap Known(e) = {}
  <2>1. \A x \in 0..c : x \notin (c + 1)..(c + n)
    BY <1>4
  <2> QED BY <1>5, <2>1
<1>10. CallsFirst(g) /\ ResultsIn(g) = ResultsIn(h)
  BY <1>5, <1>7, <1>9 DEF Behind
<1>11. CallsFirst(z) /\ ResultsIn(z) = ResultsIn(h) \cup ResultsIn(t)
  BY <1>6, <1>8, <1>10 DEF Behind
<1>12. ResultsIn(z) \subseteq 0..(c + n)
  <2>1. 0..c \subseteq 0..(c + n) /\ 0..(c + k) \subseteq 0..(c + n)
    BY <1>4
  <2> QED BY <1>6, <1>11, <2>1
<1> QED BY <1>8, <1>11, <1>12

LEMMA AddCallsKeeps ==
    ASSUME HistInv, NEW s \in Sessions, NEW n \in 1..(Cardinality(Calls) - called), NEW k \in 0..n,
           AddCalls(s, n, k)
    PROVE  \E z : /\ hist' = [hist EXCEPT ![s] = z] /\ z \in Seq(Clean(loop[s].prompt))
                  /\ ResultsIn(z) \subseteq 0..called' /\ CallsFirst(z)
                  /\ called' \in Nat /\ called <= called'
<1>1. PICK o, h, raw, c : o = loop[s] /\ h = hist[s] /\ raw = buildMessages(h) /\ c = called
  OBVIOUS
<1>2. /\ o.prompt \in Nat /\ c \in Nat
      /\ h \in Seq(Clean(o.prompt)) /\ ResultsIn(h) \subseteq 0..c /\ CallsFirst(h)
  BY <1>1, OfSession
<1>3. PICK returned \in [1..k -> Contents] :
        /\ hist' = [hist EXCEPT ![s] = @ \o <<Calling((called + 1)..(called + n))>>
                                         \o [i \in 1..k |-> Result(called + i, returned[i])]]
        /\ called' = called + n
  BY DEF AddCalls
<1>4. Cardinality(Calls) \in Nat
  BY HistoryAssumption, FS_CardinalityType
<1>5. n \in Nat \ {0} /\ c + n \in Nat /\ c <= c + n
  BY <1>1, <1>2, <1>4
<1>6. PICK e, t, z : /\ e = <<Calling((c + 1)..(c + n))>> /\ z = h \o e \o t
                     /\ t = [i \in 1..k |-> Result(c + i, returned[i])]
  OBVIOUS
<1>7. Returns(t, c, k)
  BY <1>6 DEF Returns
<1>8. z \in Seq(Clean(o.prompt)) /\ ResultsIn(z) \subseteq 0..(c + n) /\ CallsFirst(z)
  BY <1>2, <1>5, <1>6, <1>7, CallsAdded
<1>9. hist' = [hist EXCEPT ![s] = z] /\ called' = c + n
  BY <1>1, <1>3, <1>6
<1> QED BY <1>1, <1>5, <1>8, <1>9

LEMMA CallsToolsKeeps ==
    ASSUME HistInv, NEW s \in Sessions, CallsTools(s)
    PROVE  HistInv'
<1>1. PICK o, h, raw : o = loop[s] /\ h = hist[s] /\ raw = buildMessages(h)
  OBVIOUS
<1>2. o \in [pc : LoopPcs, prompt : Nat, attempts : Nat, rounds : Nat]
  BY <1>1, OfSession
<1>3. PICK n \in 1..(Cardinality(Calls) - called) : AddCalls(s, n, n) /\ n \in 0..n
  <2>1. called \in Nat /\ Cardinality(Calls) \in Nat
    BY <1>1, OfSession, HistoryAssumption, FS_CardinalityType
  <2> QED BY <2>1 DEF CallsTools
<1>4. PICK z : /\ hist' = [hist EXCEPT ![s] = z] /\ z \in Seq(Clean(o.prompt))
               /\ ResultsIn(z) \subseteq 0..called' /\ CallsFirst(z)
               /\ called' \in Nat /\ called <= called'
  BY <1>1, <1>3, AddCallsKeeps
<1>5. PICK l : l = [o EXCEPT !.pc = "top", !.rounds = @ + 1]
  OBVIOUS
<1>6. /\ l \in [pc : LoopPcs, prompt : Nat, attempts : Nat, rounds : Nat]
      /\ l.pc = "top" /\ l.rounds # 0 /\ l.prompt = o.prompt
  <2>1. PICK k : k = o.rounds + 1
    OBVIOUS
  <2>2. k \in Nat /\ k # 0 /\ "top" \in LoopPcs
    BY <1>2, <2>1 DEF LoopPcs
  <2>3. l = [pc |-> "top", prompt |-> o.prompt, attempts |-> o.attempts, rounds |-> k]
    BY <1>2, <1>5, <2>1
  <2> QED BY <1>2, <2>2, <2>3
<1>7. loop' = [loop EXCEPT ![s] = l] /\ sent' = [sent EXCEPT ![s] = <<>>] /\ UNCHANGED <<pending, cached, prompted>>
  BY <1>1, <1>5 DEF CallsTools
<1> QED BY <1>4, <1>6, <1>7, HistoryGoesOn

LEMMA NudgedKeeps ==
    ASSUME HistInv, NEW s \in Sessions, Nudged(s)
    PROVE  HistInv'
<1>1. PICK o, h, raw : o = loop[s] /\ h = hist[s] /\ raw = buildMessages(h)
  OBVIOUS
<1>2. /\ o \in [pc : LoopPcs, prompt : Nat, attempts : Nat, rounds : Nat] /\ o.prompt \in Nat /\ called \in Nat
      /\ h \in Seq(Clean(o.prompt)) /\ ResultsIn(h) \subseteq 0..called /\ CallsFirst(h)
  BY <1>1, OfSession
<1>3. PICK e : e = <<Said, User(<<"nudge">>)>>
  OBVIOUS
<1>4. PICK z : z = h \o e
  OBVIOUS
<1>5. hist' = [hist EXCEPT ![s] = z]
  BY <1>1, <1>3, <1>4 DEF Nudged
<1>6. e \in Seq(Clean(o.prompt)) /\ Mute(e)
  <2>1. PICK x, u : x = Said /\ u = User(<<"nudge">>)
    OBVIOUS
  <2>2. x \in Clean(o.prompt) /\ u \in Clean(o.prompt)
    BY <1>2, <2>1, MadeMessages
  <2>3. x.calls = {} /\ x.role = "assistant" /\ u.calls = {} /\ u.role = "user"
    BY <2>1 DEF Said, User, Msg
  <2>4. Len(e) = 2 /\ DOMAIN e = {1, 2} /\ e[1] = x /\ e[2] = u /\ e \in Seq(Clean(o.prompt))
    BY <1>3, <2>1, <2>2
  <2>5. Mute(e)
    BY <2>3, <2>4, MuteWhen
  <2> QED BY <2>4, <2>5
<1>7. z \in Seq(Clean(o.prompt)) /\ ResultsIn(z) = ResultsIn(h) /\ (CallsFirst(h) => CallsFirst(z))
  BY <1>2, <1>4, <1>6, MuteBehind
<1>8. PICK l : l = [o EXCEPT !.pc = "top", !.rounds = @ + 1]
  OBVIOUS
<1>9. /\ l \in [pc : LoopPcs, prompt : Nat, attempts : Nat, rounds : Nat]
      /\ l.pc = "top" /\ l.rounds # 0 /\ l.prompt = o.prompt
  <2>1. PICK k : k = o.rounds + 1
    OBVIOUS
  <2>2. k \in Nat /\ k # 0 /\ "top" \in LoopPcs
    BY <1>2, <2>1 DEF LoopPcs
  <2>3. l = [pc |-> "top", prompt |-> o.prompt, attempts |-> o.attempts, rounds |-> k]
    BY <1>2, <1>8, <2>1
  <2> QED BY <1>2, <2>2, <2>3
<1>10. /\ loop' = [loop EXCEPT ![s] = l] /\ sent' = [sent EXCEPT ![s] = <<>>]
       /\ UNCHANGED <<pending, cached, prompted>> /\ called' = called
  BY <1>1, <1>8 DEF Nudged
<1>11. called' \in Nat /\ called <= called' /\ ResultsIn(z) \subseteq 0..called'
  BY <1>2, <1>7, <1>10
<1> QED BY <1>2, <1>5, <1>7, <1>9, <1>10, <1>11, HistoryGoesOn

LEMMA FinalAnswerKeeps ==
    ASSUME HistInv, NEW s \in Sessions, FinalAnswer(s)
    PROVE  HistInv'
<1>1. PICK o, h, raw : o = loop[s] /\ h = hist[s] /\ raw = buildMessages(h)
  OBVIOUS
<1>2. /\ o \in [pc : LoopPcs, prompt : Nat, attempts : Nat, rounds : Nat] /\ o.prompt \in Nat /\ called \in Nat
      /\ h \in Seq(Clean(o.prompt)) /\ ResultsIn(h) \subseteq 0..called /\ CallsFirst(h)
  BY <1>1, OfSession
<1>3. PICK g, z : g = Append(h, Said) /\ z = Trimmed(g)
  OBVIOUS
<1>4. hist' = [hist EXCEPT ![s] = z]
  BY <1>1, <1>3 DEF FinalAnswer
<1>5. g \in Seq(Clean(o.prompt)) /\ g # <<>> /\ ResultsIn(g) = ResultsIn(h) /\ CallsFirst(g)
  <2>1. PICK x, e : x = Said /\ e = <<x>>
    OBVIOUS
  <2>2. x \in Clean(o.prompt)
    BY <1>2, <2>1, MadeMessages
  <2>3. x.calls = {} /\ x.role = "assistant"
    BY <2>1 DEF Said, Msg
  <2>4. Len(e) = 1 /\ DOMAIN e = {1} /\ e[1] = x /\ e \in Seq(Clean(o.prompt))
    BY <2>1, <2>2
  <2>5. Mute(e)
    BY <2>3, <2>4, MuteWhen
  <2>6. g = h \o e
    <3>1. /\ g \in Seq(Clean(o.prompt)) /\ Len(g) = Len(h) + 1 /\ \A i \in 1..Len(h) : g[i] = h[i]
          /\ g[Len(h) + 1] = x
      BY <1>2, <1>3, <2>1, <2>2
    <3>2. /\ h \o e \in Seq(Clean(o.prompt)) /\ Len(h \o e) = Len(h) + Len(e) /\ JoinOf(h \o e, h, e)
      BY <1>2, <2>4, JoinShape
    <3> DEFINE w == h \o e
    <3> HIDE DEF w
    <3>3. w \in Seq(Clean(o.prompt)) /\ Len(w) = Len(h) + 1 /\ \A i \in 1..Len(h) : w[i] = h[i]
      BY <2>4, <3>2 DEF w, JoinOf
    <3>4. w[Len(h) + 1] = x
      <4>1. 1 \in 1..Len(e)
        BY <2>4
      <4> QED BY <2>4, <3>2, <4>1 DEF w, JoinOf
    <3>5. Len(h) \in Nat /\ \A i \in 1..(Len(h) + 1) : i \in 1..Len(h) \/ i = Len(h) + 1
      BY <1>2
    <3>6. Len(g) = Len(w) /\ \A i \in 1..Len(g) : g[i] = w[i]
      BY <3>1, <3>3, <3>4, <3>5
    <3>7. g = w
      BY <3>1, <3>3, <3>6
    <3> QED BY <3>7 DEF w
  <2>7. g # <<>>
    BY <1>2, <1>3, <2>1, <2>2
  <2> QED BY <1>2, <2>4, <2>5, <2>6, <2>7, MuteBehind
<1>6. z \in Seq(Clean(o.prompt)) /\ ResultsIn(z) \subseteq ResultsIn(g) /\ (CallsFirst(g) => CallsFirst(z))
  BY <1>3, <1>5, TrimSound
<1>7. PICK l : l = [o EXCEPT !.pc = "idle"]
  OBVIOUS
<1>8. l \in [pc : LoopPcs, prompt : Nat, attempts : Nat, rounds : Nat] /\ l.pc = "idle" /\ l.prompt = o.prompt
  BY <1>2, <1>7 DEF LoopPcs
<1>9. /\ loop' = [loop EXCEPT ![s] = l] /\ sent' = [sent EXCEPT ![s] = <<>>]
      /\ UNCHANGED <<pending, cached, prompted>> /\ called' = called
  BY <1>1, <1>7 DEF FinalAnswer
<1>10. called' \in Nat /\ called <= called' /\ ResultsIn(z) \subseteq 0..called'
  BY <1>2, <1>5, <1>6, <1>9
<1> QED BY <1>4, <1>5, <1>6, <1>8, <1>9, <1>10, HistoryGoesOn

LEMMA AttemptFailsKeeps ==
    ASSUME HistInv, NEW s \in Sessions, AttemptFails(s)
    PROVE  HistInv'
<1>1. PICK o, h, raw : o = loop[s] /\ h = hist[s] /\ raw = buildMessages(h)
  OBVIOUS
<1>2. /\ o \in [pc : LoopPcs, prompt : Nat, attempts : Nat, rounds : Nat] /\ o.prompt \in Nat /\ called \in Nat
      /\ h \in Seq(Clean(o.prompt)) /\ ResultsIn(h) \subseteq 0..called /\ CallsFirst(h)
  BY <1>1, OfSession
<1>3. PICK place \in {"backoff", "idle"} : loop' = [loop EXCEPT ![s].pc = place]
  BY DEF AttemptFails, Failing
<1>4. PICK l : l = [o EXCEPT !.pc = place]
  OBVIOUS
<1>5. /\ l \in [pc : LoopPcs, prompt : Nat, attempts : Nat, rounds : Nat]
      /\ l.pc \in {"idle", "backoff"} /\ l.prompt = o.prompt
  BY <1>2, <1>4 DEF LoopPcs
<1>6. DOMAIN hist = Sessions /\ hist' = hist
  BY DEF HistInv, HistTypes, AttemptFails
<1>7. /\ loop' = [loop EXCEPT ![s] = l] /\ sent' = [sent EXCEPT ![s] = <<>>]
      /\ UNCHANGED <<hist, pending, cached, prompted>> /\ called' = called
  BY <1>1, <1>3, <1>4 DEF AttemptFails
<1>8. called' \in Nat /\ called <= called'
  BY <1>2, <1>7
<1> QED
  <2>1. HistTypes /\ HistTypes'
    BY <1>5, <1>7 DEF HistInv, HistTypes
  <2>2. loop'[s] = l /\ hist'[s] = h
    BY <1>1, <1>7, <2>1 DEF HistTypes
  <2>3. SessionSound(loop'[s], hist'[s], sent'[s], pending'[s], called')
    BY <1>2, <1>5, <1>7, <2>2 DEF SessionSound, HistoryOf
  <2>4. OnlyOf(s, loop, loop') /\ OnlyOf(s, hist, hist') /\ OnlyOf(s, sent, sent') /\ OnlyOf(s, pending, pending')
    BY <1>7, <2>1 DEF HistTypes, OnlyOf
  <2> QED BY <1>8, <2>1, <2>3, <2>4, OneSession

LEMMA ToolsBreakKeeps ==
    ASSUME HistInv, NEW s \in Sessions, ToolsBreak(s)
    PROVE  HistInv'
<1>1. PICK o, h, raw : o = loop[s] /\ h = hist[s] /\ raw = buildMessages(h)
  OBVIOUS
<1>2. o \in [pc : LoopPcs, prompt : Nat, attempts : Nat, rounds : Nat]
  BY <1>1, OfSession
<1>0. PICK n \in 1..(Cardinality(Calls) - called) : \E k \in 0..n : AddCalls(s, n, k)
  BY DEF ToolsBreak
<1>3. PICK k \in 0..n : AddCalls(s, n, k)
  BY <1>0
<1>4. PICK z : /\ hist' = [hist EXCEPT ![s] = z] /\ z \in Seq(Clean(o.prompt))
               /\ ResultsIn(z) \subseteq 0..called' /\ CallsFirst(z)
               /\ called' \in Nat /\ called <= called'
  BY <1>1, <1>3, AddCallsKeeps
<1>5. PICK place \in {"backoff", "idle"} : loop' = [loop EXCEPT ![s].pc = place]
  BY DEF ToolsBreak, Failing
<1>6. PICK l : l = [o EXCEPT !.pc = place]
  OBVIOUS
<1>7. /\ l \in [pc : LoopPcs, prompt : Nat, attempts : Nat, rounds : Nat]
      /\ l.pc \in {"idle", "backoff"} /\ l.prompt = o.prompt
  BY <1>2, <1>6 DEF LoopPcs
<1>8. loop' = [loop EXCEPT ![s] = l] /\ sent' = [sent EXCEPT ![s] = <<>>] /\ UNCHANGED <<pending, cached, prompted>>
  BY <1>1, <1>5, <1>6 DEF ToolsBreak
<1> QED BY <1>4, <1>7, <1>8, HistoryGoesOn

(* HistInv is inductive. *)
LEMMA HistStep ==
    ASSUME HistInv, [HistoryNext]_historyVars
    PROVE  HistInv'
<1>1. ASSUME UNCHANGED historyVars PROVE HistInv'
  BY <1>1 DEF HistInv, HistTypes, historyVars
<1>2. ASSUME SetPlanModeOverride PROVE HistInv'
  BY <1>2 DEF SetPlanModeOverride, HistInv, HistTypes
<1>3. ASSUME NEW s \in Sessions, StartPrompt(s) PROVE HistInv'
  BY <1>3, StartPromptKeeps
<1>4. ASSUME NEW s \in Sessions, RetryPrompt(s) PROVE HistInv'
  BY <1>4, RetryPromptKeeps
<1>5. ASSUME NEW s \in Sessions, SendRequest(s) PROVE HistInv'
  BY <1>5, SendRequestKeeps
<1>6. ASSUME NEW s \in Sessions, SkipCompression(s) PROVE HistInv'
  BY <1>6, SkipCompressionKeeps
<1>7. ASSUME NEW s \in Sessions, BeginCompression(s) PROVE HistInv'
  BY <1>7, BeginCompressionKeeps
<1>8. ASSUME NEW s \in Sessions, EndCompression(s) PROVE HistInv'
  BY <1>8, EndCompressionKeeps
<1>9. ASSUME NEW s \in Sessions, CallsTools(s) PROVE HistInv'
  BY <1>9, CallsToolsKeeps
<1>10. ASSUME NEW s \in Sessions, Nudged(s) PROVE HistInv'
  BY <1>10, NudgedKeeps
<1>11. ASSUME NEW s \in Sessions, FinalAnswer(s) PROVE HistInv'
  BY <1>11, FinalAnswerKeeps
<1>12. ASSUME NEW s \in Sessions, AttemptFails(s) PROVE HistInv'
  BY <1>12, AttemptFailsKeeps
<1>13. ASSUME NEW s \in Sessions, ToolsBreak(s) PROVE HistInv'
  BY <1>13, ToolsBreakKeeps
<1> QED
  BY <1>1, <1>2, <1>3, <1>4, <1>5, <1>6, <1>7, <1>8, <1>9, <1>10, <1>11, <1>12, <1>13 DEF HistoryNext

(* A request of clean messages has no blocks but those of its prompt. *)
LEMMA CleanTexts ==
    ASSUME NEW p \in Nat, NEW z \in Seq(Clean(p))
    PROVE  {t \in Texts(z) : t[1] = "aux"} \subseteq {<<"aux", p>>}
<1>1. ASSUME NEW i \in DOMAIN z, NEW t \in z[i].text, t[1] = "aux" PROVE t = <<"aux", p>>
  <2>1. z[i] \in Clean(p)
    OBVIOUS
  <2>2. z[i].kind # "aux" => t \in PlainItem
    BY <2>1, CleanType
  <2>3. z[i].kind = "aux"
    BY <1>1, <2>2, PlainNotAux
  <2>4. z[i] = Aux(p)
    BY <2>1, <2>3, CleanType
  <2> QED BY <2>4 DEF Aux, Msg
<1> QED BY <1>1 DEF Texts

(* What the invariant says of a request is RequestSound. *)
LEMMA HistImplies ==
    ASSUME HistInv
    PROVE  RequestSound
<1>1. ASSUME NEW s \in Sessions, loop[s].pc = "asked"
      PROVE  /\ {t \in Texts(sent[s]) : t[1] = "aux"} \subseteq {<<"aux", loop[s].prompt>>}
             /\ loop[s].rounds = 0 => Asks(sent[s], loop[s].prompt) /\ Blocks(sent[s]) = Blocks(hist[s])
             /\ \/ sent[s] = buildMessages(hist[s])
                \/ shouldCompress(buildMessages(hist[s])) \in {"none", "prune_only"}
                \/ Called(sent[s])
  <2>1. PICK l, h, raw, z : l = loop[s] /\ h = hist[s] /\ raw = buildMessages(h) /\ z = sent[s]
    OBVIOUS
  <2>2. /\ l.prompt \in Nat /\ h \in Seq(Clean(l.prompt))
        /\ l.pc \in {"top", "summarizing", "asked"} /\ l.rounds = 0 => Opens(h, l.prompt)
        /\ l.pc = "asked" => RequestOf(l, h, z)
    BY <2>1, OfSession
  <2>3. Kept(z, raw, l.prompt) /\ (z = raw \/ shouldCompress(raw) \in {"none", "prune_only"} \/ Called(z))
    BY <1>1, <2>1, <2>2 DEF RequestOf
  <2>4. {t \in Texts(z) : t[1] = "aux"} \subseteq {<<"aux", l.prompt>>}
    BY <2>2, <2>3, CleanTexts DEF Kept
  <2>5. Blocks(raw) = Blocks(h) /\ (Opens(h, l.prompt) => Opens(raw, l.prompt))
    BY <2>1, <2>2, BuildSound
  <2>6. l.rounds = 0 => Asks(z, l.prompt) /\ Blocks(z) = Blocks(h)
    BY <1>1, <2>1, <2>2, <2>3, <2>5 DEF Kept
  <2> QED BY <2>1, <2>3, <2>4, <2>6
<1>2. OwnContext
  BY <1>1 DEF OwnContext, Asked, Asks
<1>3. ResultsHaveCalls
  BY <1>1 DEF ResultsHaveCalls, Asked, Called
<1> QED BY <1>2, <1>3 DEF RequestSound

(* For any histories, sizes and budgets, a request has its own prompt and blocks, and a compressed one no result   *)
(* without its call before it (api-executor.ts:362-366, message-sanitizer.ts:50-91).                              *)
THEOREM RequestSoundCorrect == HistorySpec => []RequestSound
<1>1. HistoryInit => HistInv
  BY HistInitial
<1>2. HistInv /\ [HistoryNext]_historyVars => HistInv'
  BY HistStep
<1>3. HistInv => RequestSound
  BY HistImplies
<1> QED BY <1>1, <1>2, <1>3, PTL DEF HistorySpec
=============================================================================
