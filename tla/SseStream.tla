----------------------------- MODULE SseStream -----------------------------
(***************************************************************************)
(* One streamed answer (parseSSEStream of api-executor.ts) with what looks *)
(* at it: executor/think-filter.ts, rolling-hash.ts, short-sentence-       *)
(* detector.ts and stream-watchdog.ts.  Text comes in pieces: a '<', the   *)
(* rest of an opening, a closing or another tag, a sentence, a fence, a    *)
(* protocol token; the patterns of an empty promise are a choice.          *)
(***************************************************************************)
EXTENDS Naturals, Sequences, SequencesExt, FiniteSets

CONSTANTS
    Sentences,      \* sentences a model may say
    Others,         \* the other pieces: a subset of {"<", "tag>", "/tag>", "b>", "fence", "dsml"}
    MaxPieces,      \* bound: pieces of an answer
    CascadeMin,     \* CASCADE_MIN_CONTENT, in pieces
    NgramHits, NgramMin,             \* threshold and minBufferSize of the rolling hash
    ShortHits, Preamble, RecentWindow,     \* threshold, preambleLimit and recentWindow of the short sentences
    WarnAt, AbortAt, KillAt          \* the watchdog's times

ASSUME SseAssumption ==
    /\ Others \subseteq {"<", "tag>", "/tag>", "b>", "fence", "dsml"}
    /\ Sentences \cap {"<", "tag>", "/tag>", "b>", "fence", "dsml"} = {}

VARIABLES
    reading,     \* "read", "cancelling" (a guard awaits cancel), "ended" or "thrown"
    pieces,      \* history: the pieces that came
    filter,      \* state of the think filter
    held,        \* its buffer
    thought,     \* its reasoning
    content,     \* content
    shown,       \* what onText has been given
    guard,       \* abortedByGuard
    fenced,      \* inCodeFence of the rolling hash
    shortFenced, \* inCodeFence of the short sentences
    recent,      \* their window
    silent,      \* time since the last tick
    stall,       \* how far the watchdog has gone: "none", "warn", "abort" or "kill"
    cancelled,   \* reader.cancel() has been called; the read ends if it does not hang
    toolCall     \* the last tool call: "none", "named", or "argued" when arguments have come

sseVars == <<reading, pieces, filter, held, thought, content, shown, guard, fenced,
             shortFenced, recent, silent, stall, cancelled, toolCall>>

textVars  == <<pieces, filter, held, thought, content, shown, fenced, shortFenced, recent>>

SseInit ==
    /\ reading = "read"
    /\ pieces = <<>>
    /\ filter = "NORMAL"
    /\ held = <<>>
    /\ thought = <<>>
    /\ content = <<>>
    /\ shown = <<>>
    /\ guard = "none"
    /\ fenced = FALSE
    /\ shortFenced = FALSE
    /\ recent = <<>>
    /\ silent = 0
    /\ stall = "none"
    /\ cancelled = FALSE
    /\ toolCall = "none"

-----------------------------------------------------------------------------
Goes(to, out, keep, think) == [to |-> to, out |-> out, held |-> keep, thought |-> think]

\* A filter that forgets the thought when a tag may be closing.
Thinking_Forgets(p) ==
    IF p = "<" THEN Goes("MAYBE_CLOSE", <<>>, <<p>>, thought) ELSE Goes("IN_THINK", <<>>, Append(held, p), thought)

\* Inside a thought.
Thinking(p) ==
    IF p = "<" THEN Goes("MAYBE_CLOSE", <<>>, <<p>>, thought \o held)
    ELSE Goes("IN_THINK", <<>>, Append(held, p), thought)

\* ThinkFilter.feed: where a piece leads, what comes out, what is held and what is thought.
Feed(p) ==
    CASE filter = "NORMAL" ->
           IF p = "<" THEN Goes("MAYBE_OPEN", <<>>, <<p>>, thought) ELSE Goes("NORMAL", <<p>>, <<>>, thought)
      [] filter = "MAYBE_OPEN" ->
           IF p = "tag>" THEN Goes("IN_THINK", <<>>, <<>>, thought)
           ELSE Goes("NORMAL", Append(held, p), <<>>, thought)
      [] filter = "IN_THINK" -> Thinking(p)
      [] filter = "MAYBE_CLOSE" ->
           IF p = "/tag>" /\ held = <<"<">> THEN Goes("NORMAL", <<>>, <<>>, thought)
           ELSE IF p \in {"tag>", "/tag>", "b>"} THEN Goes("IN_THINK", <<>>, <<>>, thought \o Append(held, p))
           ELSE Goes("MAYBE_CLOSE", <<>>, Append(held, p), thought)

Toggled(flag, out) == IF Cardinality({i \in DOMAIN out : out[i] = "fence"}) % 2 = 1 THEN ~flag ELSE flag

Count(x, seq) == Cardinality({i \in DOMAIN seq : seq[i] = x})

\* RollingHashDetector.feed: outside a fence all that is not in the index yet is indexed, what was
\* said inside the fence too, so what is new by this piece is looked for in all of the text.
NgramRepeats(text, out) ==
    /\ ~Toggled(fenced, out)
    /\ Len(text) >= NgramMin
    /\ \E i \in DOMAIN out : out[i] \in Sentences /\ Count(out[i], text) >= NgramHits

\* ShortSentenceDetector.feed: only at the beginning of an answer, and never in a fence.
Sentence(p) == p \in Sentences
Windowed(out) ==
    LET all == recent \o SelectSeq(out, Sentence)
    IN  IF Len(all) <= RecentWindow THEN all ELSE SubSeq(all, Len(all) - RecentWindow + 1, Len(all))

ShortSees(text, out) == Len(text) < Preamble /\ ~Toggled(shortFenced, out)

\* The count of a sentence includes the one that the window is about to drop.
ShortRepeats(text, out) ==
    /\ ShortSees(text, out)
    /\ \E i \in DOMAIN out : Sentence(out[i]) /\ Count(out[i], recent \o SelectSeq(out, Sentence)) >= ShortHits

\* The first guard that sees something wrong in the text, in this order; promised: three empty
\* promises are counted in it.
Guarding(text, out, promised) ==
    CASE Len(text) >= CascadeMin /\ promised -> "cascade"
      [] "dsml" \in {text[i] : i \in DOMAIN text} -> "dsml-leak"
      [] NgramRepeats(text, out) -> "ngram-repeat"
      [] ShortRepeats(text, out) -> "short-sentence-repeat"
      [] OTHER -> "none"

\* tick: not after the soft abort.
SignOfLife == IF stall \in {"abort", "kill"} THEN UNCHANGED <<silent, stall>> ELSE silent' = 0 /\ stall' = "none"

\* A chunk with a piece of text.
Text(p) ==
    LET fed == Feed(p)
        text == content \o fed.out
    IN  /\ reading = "read" /\ ~cancelled
        /\ Len(pieces) < MaxPieces
        /\ SignOfLife
        /\ pieces' = Append(pieces, p)
        /\ filter' = fed.to /\ held' = fed.held /\ thought' = fed.thought
        /\ content' = text
        /\ shown' = shown \o fed.out
        /\ \E promised \in BOOLEAN :
             LET g == IF fed.out = <<>> THEN "none" ELSE Guarding(text, fed.out, promised)
                 hashed == fed.out # <<>> /\ g \notin {"cascade", "dsml-leak"}
                 short == hashed /\ g # "ngram-repeat"
             IN  /\ guard' = g
                 /\ fenced' = IF hashed THEN Toggled(fenced, fed.out) ELSE fenced
                 /\ IF ~short THEN UNCHANGED <<shortFenced, recent>>
                    ELSE IF Len(text) >= Preamble THEN recent' = <<>> /\ UNCHANGED shortFenced
                    ELSE /\ shortFenced' = Toggled(shortFenced, fed.out)
                         /\ recent' = IF ShortSees(text, fed.out) THEN Windowed(fed.out) ELSE recent
                 /\ IF g = "none" THEN UNCHANGED <<reading, cancelled>>
                    ELSE reading' = "cancelling" /\ cancelled' = TRUE
        /\ UNCHANGED toolCall

\* A chunk of a tool call: its name first, then its arguments.
CallPiece ==
    /\ reading = "read" /\ ~cancelled
    /\ SignOfLife
    /\ \/ toolCall' = "named"
       \/ toolCall # "none" /\ toolCall' = "argued"
    /\ UNCHANGED <<reading, guard, cancelled, textVars>>

\* A comment, a malformed chunk, reasoning: it only shows that the stream lives.
KeepAlive ==
    /\ reading = "read" /\ ~cancelled
    /\ SignOfLife
    /\ UNCHANGED <<reading, guard, cancelled, toolCall, textVars>>

\* The watchdog's timers; the last cancels the body, whose reader forbids it, and aborts the fetch.
Silence ==
    /\ reading \in {"read", "cancelling"}
    /\ silent < KillAt
    /\ silent' = silent + 1
    /\ stall' = CASE silent + 1 = KillAt -> "kill"
                  [] silent + 1 = AbortAt -> "abort"
                  [] silent + 1 = WarnAt -> "warn"
                  [] OTHER -> stall
    /\ cancelled' = (cancelled \/ silent + 1 = AbortAt)
    /\ UNCHANGED <<reading, guard, toolCall, textVars>>

\* flush of the filter, and of the guard what the watchdog has to add; the cut is not shown.
StreamFinish ==
    LET out == IF filter = "MAYBE_OPEN" THEN held ELSE <<>>
    IN  /\ reading' = "ended"
        /\ guard' = IF guard = "none" /\ stall \in {"abort", "kill"} THEN "stall" ELSE guard
        /\ content' = content \o out
        /\ shown' = IF guard = "none" THEN shown \o out ELSE shown
        /\ thought' = IF filter \in {"IN_THINK", "MAYBE_CLOSE"} THEN thought \o held ELSE thought
        /\ held' = <<>> /\ filter' = "NORMAL"
        /\ UNCHANGED <<pieces, fenced, shortFenced, recent, silent, stall, cancelled, toolCall>>

\* The stream ends by itself, or the watchdog's cancel ends the read.
StreamDone == reading = "read" /\ StreamFinish

\* The cancel of a guard returns.
CancelReturns == reading = "cancelling" /\ StreamFinish

\* After the kill the read, or the cancel, is rejected: the attempt fails.
ReadRejected ==
    /\ reading = "read"
    /\ stall = "kill"
    /\ reading' = "thrown"
    /\ UNCHANGED <<guard, silent, stall, cancelled, toolCall, textVars>>

SseNext ==
    \/ \E p \in Sentences \cup Others : Text(p)
    \/ CallPiece \/ KeepAlive \/ Silence \/ StreamDone \/ CancelReturns \/ ReadRejected

SseSpec == SseInit /\ [][SseNext]_sseVars

-----------------------------------------------------------------------------
\* What is said, thought and held.
Kept == content \o thought \o held

\* Wherever the pieces are cut and whenever the stream ends, every sentence that came is said or
\* thought once, and the user has been shown all that the history will say, unless
\* a guard cut the answer (think-filter.ts:3, api-executor.ts:1305).
TextAccounted ==
    /\ \A x \in Sentences \cup {"fence", "b>", "dsml"} : Count(x, Kept) = Count(x, pieces)
    /\ guard \in {"none", "stall"} => shown = content
    /\ IsPrefix(shown, content)
=============================================================================
