----------------------------- MODULE ChunkText -----------------------------
(***************************************************************************)
(* DiscordChannel.chunkText, channel/discord.ts: a long text is cut at     *)
(* line ends into messages of Discord's size; an open code fence or italic *)
(* is closed at the end of a message and the fence opened again in the     *)
(* next.  One step is one iteration of the loop over lines, or of the loop *)
(* that cuts a line too long for any message.  A line is its length, and   *)
(* whether it is a fence or has an odd number of stars.                    *)
(***************************************************************************)
EXTENDS Naturals, Sequences, FiniteSets, Filter

CONSTANTS
    LineKinds,   \* lines texts are made of: [len, fence, star]
    MaxLines,    \* bound: lines of a text
    MAX_CHARS,
    MAX_LINES,
    FenceLength  \* length of a fence line

\* A fence longer than a message is left out: the code cuts it like any line, and closes nothing.
ASSUME ChunkAssumption ==
    /\ MAX_CHARS \in Nat \ {0} /\ MAX_LINES \in Nat /\ FenceLength \in Nat /\ MaxLines \in Nat
    /\ LineKinds \subseteq [len : Nat, fence : BOOLEAN, star : BOOLEAN]
    /\ \A l \in LineKinds : l.len > MAX_CHARS => ~l.fence

VARIABLES
    text,          \* the lines to chunk
    line,          \* the line the loop is at
    remaining,     \* characters of a too long line still to cut, 0 outside that loop
    currentLines,
    currentLength,
    messages,      \* chunks
    over           \* chunkText returned

chunkVars == <<text, line, remaining, currentLines, currentLength, messages, over>>

Chars(ls) ==
    LET upTo[n \in 0..Len(ls)] == IF n = 0 THEN 0 ELSE upTo[n - 1] + ls[n].len
    IN  upTo[Len(ls)]
Joined(ls) == IF ls = << >> THEN 0 ELSE Chars(ls) + Len(ls) - 1

ChunkInit ==
    /\ text \in {t \in UNION {[1..n -> LineKinds] : n \in 1..MaxLines} : Joined(t) > MAX_CHARS}
    /\ line = 1
    /\ remaining = 0
    /\ currentLines = << >>
    /\ currentLength = 0
    /\ messages = << >>
    /\ over = FALSE

Odd(n) == n % 2 = 1
getOpenFence(ls) == Odd(Cardinality({i \in DOMAIN ls : ls[i].fence}))
hasOpenItalic(ls) == Odd(Cardinality({i \in DOMAIN ls : ls[i].star}))

Reopened == [len |-> FenceLength, fence |-> TRUE, star |-> FALSE, line |-> 0]
Message(ls) == [lines |-> ls, closed |-> getOpenFence(ls), italic |-> hasOpenItalic(ls)]

\* A flush that forgets the fence it closed.
flush_Forgets(s) ==
    IF s.lines = << >> THEN s ELSE [lines |-> << >>, length |-> 0, messages |-> Append(s.messages, Message(s.lines))]

\* flush(): what has been gathered becomes a message, and the next begins with its open fence.
flush(s) ==
    IF s.lines = << >> THEN s
    ELSE [lines |-> IF getOpenFence(s.lines) THEN <<Reopened>> ELSE << >>,
          length |-> IF getOpenFence(s.lines) THEN FenceLength + 1 ELSE 0,
          messages |-> Append(s.messages, Message(s.lines))]

Gathered == [lines |-> currentLines, length |-> currentLength, messages |-> messages]
Becomes(s) ==
    /\ currentLines' = s.lines
    /\ currentLength' = s.length
    /\ messages' = s.messages

Numbered(l, i) == [len |-> l.len, fence |-> l.fence, star |-> l.star, line |-> i]
Next1 == text[line]
addedLength == IF currentLines = << >> THEN Next1.len ELSE Next1.len + 1
Full == (currentLength + addedLength > MAX_CHARS \/ Len(currentLines) >= MAX_LINES) /\ currentLines # << >>
IfFull == IF Full THEN flush(Gathered) ELSE Gathered

\* A line that fits into a message of its own.
AddLine ==
    /\ ~over /\ line <= Len(text) /\ remaining = 0
    /\ Next1.len <= MAX_CHARS
    /\ LET s == IfFull
       IN  Becomes([s EXCEPT !.lines = Append(@, Numbered(Next1, line)), !.length = @ + addedLength])
    /\ line' = line + 1
    /\ UNCHANGED <<text, remaining, over>>

\* One that does not: enter the loop that cuts it.
EnterCut ==
    /\ ~over /\ line <= Len(text) /\ remaining = 0
    /\ Next1.len > MAX_CHARS
    /\ Becomes(IfFull)
    /\ remaining' = Next1.len
    /\ UNCHANGED <<text, line, over>>

\* The stars of a cut line fall into one of its slices.
Slice(n, star) == [len |-> n, fence |-> FALSE, star |-> star, line |-> line]

\* An iteration of that loop: a full slice is a message by itself, the last one is gathered.
CutSlice ==
    /\ remaining > 0
    /\ LET s == flush(Gathered)
       IN  IF remaining <= MAX_CHARS
           THEN /\ Becomes([s EXCEPT !.lines = Append(@, Slice(remaining, Next1.star)), !.length = remaining])
                /\ remaining' = 0
                /\ line' = line + 1
           ELSE /\ Becomes([s EXCEPT !.messages =
                              Append(@, [lines |-> <<Slice(MAX_CHARS, FALSE)>>, closed |-> FALSE, italic |-> FALSE])])
                /\ remaining' = remaining - MAX_CHARS
                /\ UNCHANGED line
    /\ UNCHANGED <<text, over>>

\* The last flush.
Return ==
    /\ ~over /\ line > Len(text)
    /\ Becomes(flush(Gathered))
    /\ over' = TRUE
    /\ UNCHANGED <<text, line, remaining>>

ChunkNext == AddLine \/ EnterCut \/ CutSlice \/ Return

ChunkSpec == ChunkInit /\ [][ChunkNext]_chunkVars

-----------------------------------------------------------------------------
Posted(m) == Joined(m.lines) + (IF m.closed THEN 4 ELSE 0) + (IF m.italic THEN 1 ELSE 0)

\* Lines of the text with these numbers, whole or in slices; a reopened fence has none.
OfLines(ns) == [len : Nat, fence : BOOLEAN, star : BOOLEAN, line : ns]
Own(ls) == Only(ls, OfLines(Nat \ {0}))

\* What the messages hold of the text, one after the other.
PostedLines(ms) ==
    LET upTo[n \in 0..Len(ms)] == IF n = 0 THEN << >> ELSE upTo[n - 1] \o Own(ms[n].lines)
    IN  upTo[Len(ms)]

\* The k-th line is inside a fence, or opens one.
inFence(ls, k) == Odd(Cardinality({i \in 1..k : ls[i].fence}))

\* The messages together hold the text, each line once and in its order, a line too long for one
\* message in consecutive slices, and a line of code is in a fence of its own message wherever
\* the text was cut: only the slices of a too long line lose theirs.
TextKept ==
    over =>
      LET posted == PostedLines(messages)
      IN  /\ \A i, j \in DOMAIN posted : i < j => posted[i].line <= posted[j].line
          /\ \A n \in DOMAIN text : Chars(Only(posted, OfLines({n}))) = text[n].len
          /\ \A i \in DOMAIN messages : \A k \in DOMAIN messages[i].lines :
               LET l == messages[i].lines[k]
               IN  l.line # 0 /\ ~l.fence /\ text[l.line].len <= MAX_CHARS
                     => (inFence(messages[i].lines, k) <=> inFence(text, l.line))

\* discord.ts:23 calls MAX_CHARS one of the "Discord message size limits": no message is longer.
MessagesFit == \A i \in DOMAIN messages : Posted(messages[i]) <= MAX_CHARS
=============================================================================
