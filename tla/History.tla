------------------------------ MODULE History ------------------------------
(***************************************************************************)
(* The conversation history of the ApiExecutors of several sessions and    *)
(* what a request makes of it: executor/context-compressor.ts, message-    *)
(* sanitizer.ts, plan-mode-detector.ts, and the part of api-executor.ts    *)
(* that adds messages, builds a request and trims.  The compressor is one  *)
(* module with its own state, whichever session it works for.              *)
(*                                                                         *)
(* A message is its role, what it is about, its calls and its size.        *)
(***************************************************************************)
EXTENDS Naturals, Sequences, SequencesExt, FiniteSets, Filter

CONSTANTS
    Sessions,
    Prompts,        \* bound: 1..n, prompts of all sessions
    Calls,          \* bound: 1..n, tool calls of all sessions
    Contents,       \* what a tool may return
    Size,           \* its tokens, [Contents -> Nat]
    LiveSize,       \* tokens of the system prompt
    Worth,          \* a result over so many tokens is summarised (100)
    Thresholds,     \* tokens at which each level begins: [prune, protect, full, emergency]
    HeadCount,      \* messages protected after the system prompt (3)
    MinTail,        \* MIN_TAIL_MESSAGES
    TailBudget, EmergencyBudget,   \* tokens of a protected tail
    TrimBudget, MinKeep,           \* TRIM_BUDGET_TOKENS, MIN_KEEP_MESSAGES
    MaxMerged,      \* summaries that fit into MERGED_SUMMARY_MAX_CHARS
    MaxAttempts,    \* withRetry
    MaxRounds       \* bound: answers of an attempt

\* A prompt and two blocks before it are never more than a protected tail.
ASSUME HistoryAssumption ==
    /\ IsFiniteSet(Prompts) /\ Prompts = 1..Cardinality(Prompts)
    /\ IsFiniteSet(Calls)
    /\ Size \in [Contents -> Nat] /\ LiveSize \in Nat
    /\ HeadCount \in Nat /\ MinTail \in Nat /\ MinTail >= 3 /\ MinKeep \in Nat \ {0}

VARIABLES
    hist,       \* conversationHistory
    loop,       \* per session: [pc, prompt, attempts, rounds]
    sent,       \* the request that was made last
    pending,    \* the messages an asynchronous compression works on
    cached,     \* cachedSummary: the summaries merged in it
    lowSavings, \* consecutiveLowSavings
    override,   \* manualOverride of plan mode
    prompted,   \* prompts made
    called      \* calls made

historyVars == <<hist, loop, sent, pending, cached, lowSavings, override, prompted, called>>

NoCall == 0

Msg(role, kind, text, calls, of, size) ==
    [role |-> role, kind |-> kind, text |-> text, calls |-> calls, of |-> of, size |-> size]

Live          == Msg("system", "live", {}, {}, NoCall, LiveSize)
Aux(p)        == Msg("system", "aux", {<<"aux", p>>}, {}, NoCall, 1)
User(item)    == Msg("user", "plain", {item}, {}, NoCall, 1)
Said          == Msg("assistant", "plain", {}, {}, NoCall, 1)
Calling(c)    == Msg("assistant", "plain", {}, c, NoCall, 1)
Result(c, r)  == Msg("tool", "plain", {<<"result", r>>}, {}, c, Size[r])
Marker(items) == Msg("system", "marker", items, {}, NoCall, 1)

Tokens(msgs) ==
    LET sum[i \in 0..Len(msgs)] == IF i = 0 THEN 0 ELSE sum[i - 1] + msgs[i].size
    IN  sum[Len(msgs)]

HistoryInit ==
    /\ hist = [s \in Sessions |-> <<>>]
    /\ loop = [s \in Sessions |-> [pc |-> "idle", prompt |-> 0, attempts |-> 0, rounds |-> 0]]
    /\ sent = [s \in Sessions |-> <<>>]
    /\ pending = [s \in Sessions |-> <<>>]
    /\ cached = <<>>
    /\ lowSavings = 0
    /\ override = "none"
    /\ prompted = 0
    /\ called = 0

-----------------------------------------------------------------------------
\* buildMessages: the live system prompt, and of the others only markers and auxiliary blocks.
buildMessages(msgs) ==
    <<Live>> \o Only(msgs, {m \in ToSet(msgs) : m.role # "system" \/ m.kind \in {"marker", "aux"}})

shouldCompress(msgs) ==
    LET n == Tokens(msgs)
    IN  CASE n >= Thresholds.emergency -> "emergency"
          [] n >= Thresholds.full -> "full"
          [] n >= Thresholds.protect -> "prune_and_protect"
          [] n >= Thresholds.prune -> "prune_only"
          [] OTHER -> "none"

Known(msgs) == UNION {msgs[i].calls : i \in DOMAIN msgs}

\* Of equal results the newest is kept; a long one becomes a line about it, however new it is.
pruneToolOutputs(msgs) ==
    [i \in DOMAIN msgs |->
        IF msgs[i].role # "tool" THEN msgs[i]
        ELSE IF \E j \in DOMAIN msgs : j > i /\ msgs[j].role = "tool" /\ msgs[j].text = msgs[i].text
        THEN [msgs[i] EXCEPT !.text = {<<"duplicate">>}, !.size = 1]
        ELSE IF msgs[i].of \in Known(msgs) /\ msgs[i].size > Worth
        THEN [msgs[i] EXCEPT !.text = {<<"pruned", msgs[i].of>>}, !.size = 1]
        ELSE msgs[i]]

\* The leading system messages and the first of the conversation.
HeadLength(msgs) ==
    LET others == {i \in DOMAIN msgs : msgs[i].role # "system"}
        system == IF others = {} THEN Len(msgs) ELSE (CHOOSE i \in others : \A j \in others : i <= j) - 1
    IN  IF system + HeadCount <= Len(msgs) THEN system + HeadCount ELSE Len(msgs)

\* protectTail: what fits into the budget, and MinTail messages in any case.
TailStart(msgs, budget) ==
    CHOOSE i \in 1..(Len(msgs) + 1) :
        LET Kept(j) == \/ j = Len(msgs) + 1
                       \/ Len(msgs) - j < MinTail
                       \/ Tokens(SubSeq(msgs, j, Len(msgs))) <= budget
        IN  Kept(i) /\ (i = 1 \/ ~Kept(i - 1))

\* Both summaries leave out the system messages.
Summary(msgs) == UNION {IF msgs[i].role = "system" THEN {} ELSE msgs[i].text : i \in DOMAIN msgs}

mergeWithExistingSummary(old, new) ==
    LET all == Append(old, new)
    IN  IF Len(all) <= MaxMerged THEN all ELSE Tail(all)

\* Results whose call is gone.
Orphans(msgs) == {i \in DOMAIN msgs : msgs[i].role = "tool" /\ msgs[i].of \notin Known(msgs)}

\* The calls that stay: those with a result, and all of the last assistant's.
Filtered(msgs, i) ==
    LET answered == {msgs[j].of : j \in DOMAIN msgs}
        last == \A j \in DOMAIN msgs : msgs[j].role = "assistant" => j <= i
    IN  IF msgs[i].role # "assistant" \/ last THEN msgs[i]
        ELSE [msgs[i] EXCEPT !.calls = @ \cap answered]

\* An assistant's message that has lost all its calls is dropped if it says nothing.
Emptied(msgs, i) == msgs[i].calls # {} /\ Filtered(msgs, i).calls = {}

Merged(done, m) ==
    IF done # <<>> /\ Last(done).role = m.role /\ m.role \in {"user", "assistant"}
    THEN Append(Front(done), [Last(done) EXCEPT !.text = @ \cup m.text, !.calls = @ \cup m.calls, !.size = @ + m.size])
    ELSE Append(done, m)

mergeConsecutiveSameRole(msgs) ==
    LET upTo[n \in 0..Len(msgs)] == IF n = 0 THEN <<>> ELSE Merged(upTo[n - 1], msgs[n])
    IN  upTo[Len(msgs)]

\* The places of the messages that stay.
Staying(msgs) ==
    Only([i \in DOMAIN msgs |-> i], {i \in DOMAIN msgs : i \notin Orphans(msgs) /\ ~Emptied(msgs, i)})

sanitizeMessages(msgs) ==
    LET places == Staying(msgs)
    IN  mergeConsecutiveSameRole([k \in DOMAIN places |-> Filtered(msgs, places[k])])

\* The three parts of a history at a level: head, middle, tail.
Split(msgs, level) ==
    LET pruned == pruneToolOutputs(msgs)
        head == HeadLength(pruned)
        rest == SubSeq(pruned, head + 1, Len(pruned))
        from == TailStart(rest, IF level = "emergency" THEN EmergencyBudget ELSE TailBudget)
    IN  [head |-> SubSeq(pruned, 1, head), middle |-> SubSeq(rest, 1, from - 1), tail |-> SubSeq(rest, from, Len(rest))]

\* What becomes of a history and of the cached summary, given the summary of the middle.
Compressed(msgs, level, merged) ==
    LET parts == Split(msgs, level)
    IN  IF parts.middle = <<>> THEN sanitizeMessages(parts.head \o parts.tail)
        ELSE sanitizeMessages(parts.head \o <<Marker(UNION {merged[i] : i \in DOMAIN merged})>> \o parts.tail)

compressSync(msgs) ==
    LET level == shouldCompress(msgs)
        middle == Split(msgs, level).middle
        merged == IF middle = <<>> THEN cached ELSE mergeWithExistingSummary(cached, Summary(middle))
    IN  CASE level = "none" -> [msgs |-> msgs, cached |-> cached]
          [] level = "prune_only" -> [msgs |-> pruneToolOutputs(msgs), cached |-> cached]
          [] OTHER -> [msgs |-> Compressed(msgs, level, merged), cached |-> merged]

-----------------------------------------------------------------------------
\* The history that the blocks of earlier prompts are left in.
Unblocked_All(msgs) == msgs

\* injectAuxiliaryContext: the blocks of earlier prompts are taken out.
Unblocked(msgs) == Only(msgs, {m \in ToSet(msgs) : m.kind # "aux"})

\* An attempt begins: preflight compression, auxiliary blocks, the prompt.  Plan mode adds a block
\* if it is forced for the next prompt, whose prompt that may be, or if the prompt looks complex.
BeginAttempt(s, p) ==
    LET raw == buildMessages(hist[s])
        preflight == IF shouldCompress(raw) = "none" THEN [msgs |-> hist[s], cached |-> cached] ELSE compressSync(raw)
    IN  \E helped, complex \in BOOLEAN :
          LET plan == override = "on" \/ (override = "none" /\ complex)
              blocks == (IF helped THEN <<Aux(p)>> ELSE <<>>) \o (IF plan THEN <<Aux(p)>> ELSE <<>>)
          IN  /\ hist' = [hist EXCEPT ![s] = Unblocked(preflight.msgs) \o blocks \o <<User(<<"prompt", p>>)>>]
              /\ cached' = preflight.cached
              /\ override' = "none"

StartPrompt(s) ==
    /\ loop[s].pc = "idle"
    /\ prompted < Cardinality(Prompts)
    /\ prompted' = prompted + 1
    /\ BeginAttempt(s, prompted + 1)
    /\ loop' = [loop EXCEPT ![s] = [pc |-> "top", prompt |-> prompted + 1, attempts |-> 1, rounds |-> 0]]
    /\ UNCHANGED <<sent, pending, lowSavings, called>>

RetryPrompt(s) ==
    /\ loop[s].pc = "backoff"
    /\ BeginAttempt(s, loop[s].prompt)
    /\ loop' = [loop EXCEPT ![s].pc = "top", ![s].attempts = @ + 1, ![s].rounds = 0]
    /\ UNCHANGED <<sent, pending, lowSavings, prompted, called>>

\* /plan on, off or auto, for the next message.
SetPlanModeOverride ==
    /\ \A s \in Sessions : loop[s].pc = "idle"
    /\ \E force \in {"none", "on", "off"} : override' = force
    /\ UNCHANGED <<hist, loop, sent, pending, cached, lowSavings, prompted, called>>

\* A request that needs no summary from a model.
SendRequest(s) ==
    LET raw == buildMessages(hist[s])
    IN  /\ loop[s].pc = "top"
        /\ shouldCompress(raw) # "full"
        /\ LET result == compressSync(raw)
           IN  sent' = [sent EXCEPT ![s] = result.msgs] /\ cached' = result.cached
        /\ loop' = [loop EXCEPT ![s].pc = "asked"]
        /\ UNCHANGED <<hist, pending, lowSavings, override, prompted, called>>

\* Twice in a row little was saved: the request is made as it is, once.
SkipCompression(s) ==
    LET raw == buildMessages(hist[s])
    IN  /\ loop[s].pc = "top"
        /\ shouldCompress(raw) = "full"
        /\ lowSavings >= 2
        /\ lowSavings' = 0
        /\ sent' = [sent EXCEPT ![s] = raw]
        /\ loop' = [loop EXCEPT ![s].pc = "asked"]
        /\ UNCHANGED <<hist, pending, cached, override, prompted, called>>

\* compress: a model is asked for a summary of the middle.
BeginCompression(s) ==
    LET raw == buildMessages(hist[s])
    IN  /\ loop[s].pc = "top"
        /\ shouldCompress(raw) = "full"
        /\ lowSavings < 2
        /\ pending' = [pending EXCEPT ![s] = raw]
        /\ loop' = [loop EXCEPT ![s].pc = "summarizing"]
        /\ UNCHANGED <<hist, sent, cached, lowSavings, override, prompted, called>>

\* Its answer, or the fallback when it fails or failed not long ago: either is about the middle.  It
\* is merged with what the summary of the process is by then.
EndCompression(s) ==
    LET raw == pending[s]
        middle == Split(raw, "full").middle
        merged == mergeWithExistingSummary(cached, Summary(middle))
        msgs == Compressed(raw, "full", merged)
    IN  /\ loop[s].pc = "summarizing"
        /\ sent' = [sent EXCEPT ![s] = msgs]
        /\ IF middle = <<>> THEN UNCHANGED <<cached, lowSavings>>
           ELSE /\ cached' = merged
                /\ lowSavings' = IF 10 * (Tokens(raw) - Tokens(msgs)) < Tokens(raw) THEN lowSavings + 1 ELSE 0
        /\ pending' = [pending EXCEPT ![s] = <<>>]
        /\ loop' = [loop EXCEPT ![s].pc = "asked"]
        /\ UNCHANGED <<hist, override, prompted, called>>

\* The answer calls n tools, and the first k of them give results before anything else is added.
AddCalls(s, n, k) ==
    \E returned \in [1..k -> Contents] :
        /\ hist' = [hist EXCEPT ![s] = @ \o <<Calling((called + 1)..(called + n))>>
                                         \o [i \in 1..k |-> Result(called + i, returned[i])]]
        /\ called' = called + n

\* Each call gives a result, and the model is asked again.
CallsTools(s) ==
    /\ loop[s].pc = "asked"
    /\ loop[s].rounds < MaxRounds
    /\ \E n \in 1..(Cardinality(Calls) - called) : AddCalls(s, n, n)
    /\ loop' = [loop EXCEPT ![s].pc = "top", ![s].rounds = @ + 1]
    /\ sent' = [sent EXCEPT ![s] = <<>>]
    /\ UNCHANGED <<pending, cached, lowSavings, override, prompted>>

\* A promise, a fabricated or a refuted answer: it is kept, and the model told to do better.
Nudged(s) ==
    /\ loop[s].pc = "asked"
    /\ loop[s].rounds < MaxRounds
    /\ hist' = [hist EXCEPT ![s] = @ \o <<Said, User(<<"nudge">>)>>]
    /\ loop' = [loop EXCEPT ![s].pc = "top", ![s].rounds = @ + 1]
    /\ sent' = [sent EXCEPT ![s] = <<>>]
    /\ UNCHANGED <<pending, cached, lowSavings, override, prompted, called>>

\* The oldest messages are dropped one by one, whatever they are.
Trimmed(msgs) ==
    LET Enough(i) == Len(msgs) - i + 1 <= MinKeep \/ Tokens(SubSeq(msgs, i, Len(msgs))) <= TrimBudget
        from == CHOOSE i \in 1..Len(msgs) : Enough(i) /\ \A j \in 1..(i - 1) : ~Enough(j)
    IN  SubSeq(msgs, from, Len(msgs))

FinalAnswer(s) ==
    /\ loop[s].pc = "asked"
    /\ hist' = [hist EXCEPT ![s] = Trimmed(Append(@, Said))]
    /\ loop' = [loop EXCEPT ![s].pc = "idle"]
    /\ sent' = [sent EXCEPT ![s] = <<>>]
    /\ UNCHANGED <<pending, cached, lowSavings, override, prompted, called>>

\* An attempt throws: a retry after a while, or the end.
Failing(s) ==
    \E again \in BOOLEAN :
        /\ again => loop[s].attempts < MaxAttempts
        /\ loop' = [loop EXCEPT ![s].pc = IF again THEN "backoff" ELSE "idle"]

\* A request that fails leaves the history as it is.
AttemptFails(s) ==
    /\ loop[s].pc = "asked"
    /\ Failing(s)
    /\ sent' = [sent EXCEPT ![s] = <<>>]
    /\ UNCHANGED <<hist, pending, cached, lowSavings, override, prompted, called>>

\* A callback or the spilling of a result throws: the calls from there on stay without results.
ToolsBreak(s) ==
    /\ loop[s].pc = "asked"
    /\ loop[s].rounds < MaxRounds
    /\ \E n \in 1..(Cardinality(Calls) - called) : \E k \in 0..n : AddCalls(s, n, k)
    /\ Failing(s)
    /\ sent' = [sent EXCEPT ![s] = <<>>]
    /\ UNCHANGED <<pending, cached, lowSavings, override, prompted>>

HistoryNext ==
    \/ SetPlanModeOverride
    \/ \E s \in Sessions :
         \/ StartPrompt(s) \/ RetryPrompt(s) \/ SendRequest(s) \/ SkipCompression(s)
         \/ BeginCompression(s) \/ EndCompression(s) \/ CallsTools(s) \/ Nudged(s)
         \/ FinalAnswer(s) \/ AttemptFails(s) \/ ToolsBreak(s)

HistorySpec == HistoryInit /\ [][HistoryNext]_historyVars

-----------------------------------------------------------------------------
Asked(s) == loop[s].pc = "asked"
Texts(msgs) == UNION {msgs[i].text : i \in DOMAIN msgs}

\* The auxiliary blocks among messages.
Blocks(msgs) == Only(msgs, {Aux(p) : p \in Prompts})

\* However much is compressed, the first request of an attempt has its prompt and the blocks made
\* for it word for word, and no request has those of another prompt (api-executor.ts:362-366, 1011).
OwnContext ==
    \A s \in Sessions : Asked(s) =>
        /\ {t \in Texts(sent[s]) : t[1] = "aux"} \subseteq {<<"aux", loop[s].prompt>>}
        /\ loop[s].rounds = 0 =>
             /\ \E i \in DOMAIN sent[s] : sent[s][i].role = "user" /\ <<"prompt", loop[s].prompt>> \in sent[s][i].text
             /\ Blocks(sent[s]) = Blocks(hist[s])

\* A request that was compressed, and not only pruned, has no result without its call before it.
ResultsHaveCalls ==
    \A s \in Sessions :
        LET raw == buildMessages(hist[s])
        IN  Asked(s) /\ sent[s] # raw /\ shouldCompress(raw) \notin {"none", "prune_only"} =>
              \A i \in DOMAIN sent[s] : sent[s][i].role = "tool" =>
                  \E j \in 1..(i - 1) : sent[s][i].of \in sent[s][j].calls

\* What a request is made of: the prompt and blocks it is for, and calls before their results.
RequestSound == OwnContext /\ ResultsHaveCalls
=============================================================================
