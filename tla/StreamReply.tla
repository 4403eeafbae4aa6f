---------------------------- MODULE StreamReply ----------------------------
(***************************************************************************)
(* handlers/message-handler.ts: the handler of one channel message, with   *)
(* the progress tracker and the execution counter it keeps up to date.     *)
(* While the session runs, its text chunks go to Discord as one message    *)
(* that is edited on a timer, with a cursor at its end, and every tool use *)
(* closes that message.  The handlers of a channel share its Session       *)
(* object: each of them hears every turn while it listens.                 *)
(* Edits of one handler reach Discord in the order they are made (the REST *)
(* client queues them); a send or an edit may fail.                        *)
(***************************************************************************)
EXTENDS Naturals, Sequences, FiniteSets

CONSTANTS
    Handlers,         \* messages to handle
    ChannelOf,        \* the channel of each
    MaxEditFailures,  \* MAX_EDIT_FAILURES
    MaxChunks,        \* bound: text chunks over all turns
    MaxTools,         \* bound: tool uses over all turns
    MaxEdits          \* bound: edits of one handler in flight

VARIABLES
    h,        \* the local variables of each handler
    posts,    \* streamed messages on Discord: [by, text, cursor]
    queue,    \* per channel: handlers whose turn runs (first) or waits
    known,    \* channels with a session
    chunks,   \* chunks emitted
    tools,    \* tool uses emitted
    active,   \* state.activeExecutorCount
    tracked,  \* tasks with a progress interval
    sink,     \* the handler whose channel progress goes to
    beside     \* history: handlers whose result came beside a send, a timer or foreign text

streamVars == <<h, posts, queue, known, chunks, tools, active, tracked, sink, beside>>

NoOne == "none"
Channels == {ChannelOf[x] : x \in Handlers}
NewHandler == [pc |-> "new", msg |-> 0, buf |-> << >>, sending |-> << >>, stuck |-> FALSE,
          timer |-> FALSE, pending |-> FALSE, fails |-> 0, edits |-> << >>, listening |-> FALSE]

StreamInit ==
    /\ h = [x \in Handlers |-> NewHandler]
    /\ posts = << >>
    /\ queue = [c \in Channels |-> << >>]
    /\ known \in {{}, Channels}   \* a restart may have restored the sessions
    /\ chunks = 0
    /\ tools = 0
    /\ active = 0
    /\ tracked = {}
    /\ sink = NoOne
    /\ beside = {}

\* The tracker: one sink for all tasks, that of the message that came last.
StartTask(x) == tracked' = tracked \cup {x} /\ sink' = x
CompleteTask(x) == tracked' = tracked \ {x}

\* From sendTyping to the call of the session manager: the listeners go onto the session the
\* channel has at that moment, if it has one.
Begin(x) ==
    LET c == ChannelOf[x]
    IN  /\ h[x].pc = "new"
        /\ h' = [h EXCEPT ![x].pc = "turn", ![x].listening = c \in known]
        /\ queue' = [queue EXCEPT ![c] = Append(@, x)]
        /\ known' = known \cup {c}
        /\ active' = active + 1
        /\ StartTask(x)
        /\ UNCHANGED <<posts, chunks, tools, beside>>

scheduleEdit(r) ==
    IF r.fails >= MaxEditFailures \/ r.timer THEN r ELSE [r EXCEPT !.timer = TRUE, !.pending = TRUE]

\* A chunk extends the buffer; the first one of a message claims the slot and sends.  A send that
\* was rejected keeps the slot for good.
textHandler(r, chunk) ==
    IF r.msg # 0 THEN scheduleEdit([r EXCEPT !.buf = Append(@, chunk)])
    ELSE IF r.sending # << >> \/ r.stuck THEN [r EXCEPT !.buf = Append(@, chunk)]
    ELSE [r EXCEPT !.buf = <<chunk>>, !.sending = <<<<chunk>>>>]

Hears(x, c) == h[x].listening /\ ChannelOf[x] = c
Settled(x) == h[x].pc \in {"finalEdit", "closing"}

\* session.emit('text'): every handler that listens to the session.
EmitText(c) ==
    /\ queue[c] # << >>
    /\ chunks < MaxChunks
    /\ chunks' = chunks + 1
    /\ h' = [x \in Handlers |-> IF Hears(x, c) THEN textHandler(h[x], chunks + 1) ELSE h[x]]
    /\ beside' = beside \cup {x \in Handlers : Hears(x, c) /\ Settled(x)}
    /\ UNCHANGED <<posts, queue, known, tools, active, tracked, sink>>

Edit(r, kind, cursor) ==
    [r EXCEPT !.edits = Append(@, [kind |-> kind, msg |-> r.msg, text |-> r.buf, cursor |-> cursor])]

Streaming(r) == r.msg # 0 /\ r.buf # << >>

toolUseHandler(r) == IF Streaming(r) THEN Edit(r, "tool", FALSE) ELSE r

\* session.emit('tool_use').
EmitTool(c) ==
    /\ queue[c] # << >>
    /\ tools < MaxTools
    /\ tools' = tools + 1
    /\ h' = [x \in Handlers |-> IF Hears(x, c) THEN toolUseHandler(h[x]) ELSE h[x]]
    /\ UNCHANGED <<posts, queue, known, chunks, active, tracked, sink, beside>>

\* discord.send of the first chunk returns an id.
SendEnds(x) ==
    /\ h[x].sending # << >>
    /\ LET sent == Head(h[x].sending)
           r == [h[x] EXCEPT !.sending = Tail(@), !.msg = Len(posts) + 1]
       IN  /\ posts' = Append(posts, [by |-> x, text |-> sent, cursor |-> TRUE])
           /\ h' = [h EXCEPT ![x] = IF r.buf # sent THEN scheduleEdit(r) ELSE r]
    /\ UNCHANGED <<queue, known, chunks, tools, active, tracked, sink, beside>>

\* It returns nothing (no such channel), or it is rejected.
SendFails(x) ==
    /\ h[x].sending # << >>
    /\ \E rejected \in BOOLEAN : h' = [h EXCEPT ![x].sending = Tail(@), ![x].stuck = rejected]
    /\ UNCHANGED <<posts, queue, known, chunks, tools, active, tracked, sink, beside>>

\* The edit timer, and flushEdit up to its await.
TimerFires(x) ==
    LET r == [h[x] EXCEPT !.timer = FALSE]
    IN  /\ h[x].timer
        /\ Len(r.edits) < MaxEdits
        /\ h' = [h EXCEPT ![x] = IF r.pending /\ Streaming(r) /\ r.fails < MaxEditFailures
                                   THEN Edit([r EXCEPT !.pending = FALSE], "timed", TRUE)
                                   ELSE r]
        /\ UNCHANGED <<posts, queue, known, chunks, tools, active, tracked, sink, beside>>

\* After the final edit: the timer is stopped and the execution is over for the counter.
Closing(r) == [r EXCEPT !.pc = "closing", !.timer = FALSE]
TrackEnd(n) == IF n = 0 THEN 0 ELSE n - 1

\* editMessage returns: whether the edit took is what it says, and whoever awaited it goes on.
EditEnds(x) ==
    /\ h[x].edits # << >>
    /\ LET e == Head(h[x].edits)
           r == [h[x] EXCEPT !.edits = Tail(@)]
       IN  \E ok \in BOOLEAN :
             /\ posts' = IF ok THEN [posts EXCEPT ![e.msg].text = e.text, ![e.msg].cursor = e.cursor]
                         ELSE posts
             /\ beside' = IF e.kind # "timed" /\ (~ok \/ r.edits # << >>) THEN beside \cup {x} ELSE beside
             /\ h' = [h EXCEPT ![x] =
                        CASE e.kind = "timed" -> IF ok THEN r ELSE [r EXCEPT !.fails = @ + 1]
                          [] e.kind = "tool" -> [r EXCEPT !.msg = 0, !.buf = << >>]
                          [] e.kind = "final" -> Closing(r)]
             /\ IF e.kind = "final" THEN active' = TrackEnd(active) /\ CompleteTask(x)
                ELSE UNCHANGED <<active, tracked>>
    /\ UNCHANGED <<queue, known, chunks, tools, sink>>

\* A handler that leaves the streamed message as the last timer left it.
TurnReturns_NoFinal(c) ==
    /\ queue[c] # << >>
    /\ LET x == Head(queue[c])
       IN  /\ queue' = [queue EXCEPT ![c] = Tail(@)]
           /\ beside' = IF h[x].timer \/ h[x].sending # << >> THEN beside \cup {x} ELSE beside
           /\ h' = [h EXCEPT ![x] = Closing(h[x])]
           /\ active' = TrackEnd(active)
           /\ CompleteTask(x)
    /\ UNCHANGED <<posts, known, chunks, tools, sink>>

\* sessionManager.handleMessage resolves for the first of the queue: the streamed message, if
\* there is one, is edited once more without its cursor.
TurnReturns(c) ==
    /\ queue[c] # << >>
    /\ LET x == Head(queue[c])
       IN  /\ queue' = [queue EXCEPT ![c] = Tail(@)]
           /\ beside' = IF h[x].timer \/ h[x].sending # << >> THEN beside \cup {x} ELSE beside
           /\ IF Streaming(h[x])
              THEN /\ h' = [h EXCEPT ![x] = Edit([h[x] EXCEPT !.pc = "finalEdit"], "final", FALSE)]
                   /\ UNCHANGED <<active, tracked>>
              ELSE /\ h' = [h EXCEPT ![x] = Closing(h[x])]
                   /\ active' = TrackEnd(active)
                   /\ CompleteTask(x)
    /\ UNCHANGED <<posts, known, chunks, tools, sink>>

\* The finally block.
Finally(r) == [r EXCEPT !.pc = "done", !.listening = FALSE, !.timer = FALSE]

\* handleMessage rejects: only the finally block runs, so the execution stays counted and its
\* progress interval goes on.
TurnRejects(c) ==
    /\ queue[c] # << >>
    /\ LET x == Head(queue[c])
       IN  /\ queue' = [queue EXCEPT ![c] = Tail(@)]
           /\ h' = [h EXCEPT ![x] = [Finally(h[x]) EXCEPT !.pc = "failed"]]
    /\ UNCHANGED <<posts, known, chunks, tools, active, tracked, sink, beside>>

\* The summary, the reply as a message of its own, the broadcast and the finally block.
Finish(x) ==
    /\ h[x].pc = "closing"
    /\ h' = [h EXCEPT ![x] = Finally(h[x])]
    /\ UNCHANGED <<posts, queue, known, chunks, tools, active, tracked, sink, beside>>

StreamNext ==
    \/ \E x \in Handlers : Begin(x) \/ SendEnds(x) \/ SendFails(x) \/ TimerFires(x) \/ EditEnds(x) \/ Finish(x)
    \/ \E c \in Channels : EmitText(c) \/ EmitTool(c) \/ TurnReturns(c) \/ TurnRejects(c)

StreamSpec == StreamInit /\ [][StreamNext]_streamVars

-----------------------------------------------------------------------------
\* However the chunks fall around the first send, it is sent once (message-handler.ts:102), and
\* no chunk is shown twice by one handler.
OneFirstSend ==
    /\ \A x \in Handlers : Len(h[x].sending) <= 1
    /\ \A i, j \in DOMAIN posts : i < j /\ posts[i].by = posts[j].by =>
         \A a \in DOMAIN posts[i].text, b \in DOMAIN posts[j].text : posts[i].text[a] < posts[j].text[b]

Quiet(x) == h[x].pc = "done" /\ h[x].edits = << >> /\ h[x].sending = << >> /\ ~h[x].timer

\* When all is quiet again no streamed message shows the cursor, unless the result came beside a
\* send, an edit or a timer, text of another turn was heard after it, or Discord refused the edit.
CursorUnlessRaced ==
    \A i \in DOMAIN posts : Quiet(posts[i].by) /\ posts[i].by \notin beside => ~posts[i].cursor

\* What a channel sees of a stream: one message per text, each chunk once, and no cursor left.
ReplySound == OneFirstSend /\ CursorUnlessRaced
=============================================================================
