---------------------------- MODULE MessageDedup ----------------------------
(***************************************************************************)
(* The memory of Discord message ids, channel/message-dedup.ts, with the   *)
(* part of channel/discord.ts that drives it: connect loads the file,      *)
(* each gateway message is looked up and recorded, a timer saves what      *)
(* changed, disconnect saves once more.  A save takes its snapshot at once *)
(* and ends later; a crash loses what no finished save held.               *)
(***************************************************************************)
EXTENDS Integers, Sequences, FiniteSets, Filter

CONSTANTS
    Messages,    \* ids the gateway delivers, and delivers again
    Window,      \* windowMs
    MaxEntries,  \* maxEntries
    MaxTime,     \* bound: instants of the clock
    MaxStarts    \* bound: starts of the process

ASSUME DedupAssumption ==
    /\ IsFiniteSet(Messages)
    /\ Window \in Nat \ {0}
    /\ MaxEntries \in Nat \ {0}
    /\ MaxTime \in Nat
    /\ MaxStarts \in Nat

VARIABLES
    now,        \* Date.now()
    stage,      \* "down", "up" (connected) or "closing" (disconnect awaits its save)
    starts,     \* starts so far
    entries,    \* the Map: [id, at], oldest insertion first
    dirty,      \* something changed since a save
    file,       \* persistPath
    writes,     \* saves in flight: [content, final]
    handledAt,  \* history: when each id was last let through, Never at first
    forgotten   \* history: ids dropped inside their window, by capacity or a restart

dedupVars == <<now, stage, starts, entries, dirty, file, writes, handledAt, forgotten>>

Never == -1
Held(es) == {es[i] : i \in DOMAIN es}
Ids(es) == {es[i].id : i \in DOMAIN es}

DedupInit ==
    /\ now = 0
    /\ stage = "down"
    /\ starts = 0
    /\ entries = << >>
    /\ dirty = FALSE
    /\ file = << >>
    /\ writes = {}
    /\ handledAt = [m \in Messages |-> Never]
    /\ forgotten = {}

NotStale(e) == now - e.at < Window

\* A prune that also drops what still is in its window.
pruneStale_Early(es) == Only(es, {e \in Held(es) : now = e.at})

\* pruneStale deletes from the front and stops at the first entry in its window.
pruneStale(es) ==
    LET fresh == {i \in DOMAIN es : NotStale(es[i])}
    IN  IF fresh = {} THEN << >>
        ELSE SubSeq(es, CHOOSE i \in fresh : \A j \in fresh : i <= j, Len(es))

\* Eviction from the front until maxEntries are left.
Evict(es) == IF Len(es) > MaxEntries THEN SubSeq(es, Len(es) - MaxEntries + 1, Len(es)) ELSE es

\* recordInternal: the entry moves to the end, so that insertion order is age.
recordInternal(es, m) ==
    Evict(Append(Only(es, {e \in Held(es) : e.id # m}), [id |-> m, at |-> now]))

\* The gateway delivers m, for the first time or again, and isDuplicate decides.
Deliver(m) ==
    /\ stage \in {"up", "closing"}
    /\ LET kept == pruneStale(entries)
           seen == m \in Ids(kept)
           after == IF seen THEN kept ELSE recordInternal(kept, m)
       IN  /\ entries' = after
           /\ dirty' = (dirty \/ after # entries)
           /\ handledAt' = IF seen THEN handledAt ELSE [handledAt EXCEPT ![m] = now]
           /\ forgotten' = IF seen THEN forgotten
                           ELSE (forgotten \ {m}) \cup (Ids(kept) \ Ids(after))
    /\ UNCHANGED <<now, stage, starts, file, writes>>

\* flush up to its await: prune, snapshot, begin the write.
BeginWrite(final) ==
    /\ entries' = pruneStale(entries)
    /\ dirty' = (dirty \/ entries' # entries)
    /\ writes' = writes \cup {[content |-> entries', final |-> final]}

\* The timer of startAutoFlush.  A save ends long before the next is due: bound: one at a time.
AutoFlush ==
    /\ stage = "up"
    /\ dirty
    /\ writes = {}
    /\ BeginWrite(FALSE)
    /\ UNCHANGED <<now, stage, starts, file, handledAt, forgotten>>

\* atomicWrite renames the file into place and flush resumes: dirty is cleared, whatever has
\* been recorded since the snapshot.
WriteEnds(w) ==
    /\ w \in writes
    /\ writes' = writes \ {w}
    /\ file' = w.content
    /\ dirty' = FALSE
    /\ UNCHANGED <<now, stage, starts, entries, handledAt, forgotten>>

\* The write fails: the error is logged and dirty stays as it is.
WriteFails(w) ==
    /\ w \in writes
    /\ writes' = writes \ {w}
    /\ UNCHANGED <<now, stage, starts, entries, dirty, file, handledAt, forgotten>>

\* disconnect stops the timer and awaits one last save.
Disconnect ==
    /\ stage = "up"
    /\ stage' = "closing"
    /\ BeginWrite(TRUE)
    /\ UNCHANGED <<now, starts, file, handledAt, forgotten>>

Down ==
    /\ stage' = "down"
    /\ entries' = << >>
    /\ dirty' = FALSE
    /\ writes' = {}
    /\ UNCHANGED <<now, starts, file, handledAt, forgotten>>

\* The last save is over, the client is destroyed and the process exits.
Exit ==
    /\ stage = "closing"
    /\ \A w \in writes : ~w.final
    /\ Down

Crash ==
    /\ stage # "down"
    /\ Down

\* load, before the client logs in: lines in their window, the newest maxEntries of them.
Connect ==
    /\ stage = "down"
    /\ starts < MaxStarts
    /\ stage' = "up"
    /\ starts' = starts + 1
    /\ entries' = Evict(Only(file, {e \in Held(file) : now - e.at <= Window}))
    /\ forgotten' = forgotten \cup {m \in Messages : handledAt[m] # Never /\ [id |-> m, at |-> handledAt[m]] \notin Held(entries')}
    /\ UNCHANGED <<now, dirty, file, writes, handledAt>>

Tick ==
    /\ now < MaxTime
    /\ now' = now + 1
    /\ UNCHANGED <<stage, starts, entries, dirty, file, writes, handledAt, forgotten>>

DedupNext ==
    \/ \E m \in Messages : Deliver(m)
    \/ \E w \in writes : WriteEnds(w) \/ WriteFails(w)
    \/ AutoFlush \/ Disconnect \/ Exit \/ Crash \/ Connect \/ Tick

DedupSpec == DedupInit /\ [][DedupNext]_dedupVars

-----------------------------------------------------------------------------
\* A message is let through a second time only after its window, or when capacity or a restart
\* made the program forget it (a RESUME that replays messages must not be answered twice).
HandledOnce ==
    [][\A m \in Messages : handledAt'[m] # handledAt[m] /\ handledAt[m] # Never
                              => now - handledAt[m] >= Window \/ m \in forgotten]_dedupVars
=============================================================================
