----------------------------- MODULE Autonomous -----------------------------
(***************************************************************************)
(* The autonomous tasks of manamir: TaskStore (an event log on disk and its *)
(* replay), Scheduler, AutonomousWorker and UserCron of                     *)
(* src/autonomous/.  A process is the bot or the terminal, each with its    *)
(* own memory over the same two files, tasks.jsonl and cron.json.           *)
(*                                                                         *)
(* An action is one synchronous handler; a crash may fall between any two   *)
(* and inside a cron tick, and may leave a torn line at the end of the log. *)
(* The gates of onTick are awaited, but they settle without an event of     *)
(* their own, so a tick is one step up to handleMessage, whose result is    *)
(* Finish; a tick whose gates do not pass changes nothing.  Both processes  *)
(* ask for the bot's lock file, which the terminal never holds.  The pause  *)
(* and the backoff after a task are left out: they are awaited after        *)
(* processing is cleared, and nothing waits for them.                       *)
(***************************************************************************)
EXTENDS Naturals, FiniteSets, SequencesExt, FiniteSetsExt

CONSTANTS Procs,         \* processes on the data directory
          Holders,       \* those that hold the lock the gate asks for: the bot
          RequireGate,   \* requireGate
          Entries,       \* names of cron entries
          MaxTasks,      \* bound: tasks ever added
          MaxBoots,      \* bound: starts of a process
          MaxSlot,       \* bound: times that a schedule matches
          CompactAt,     \* compactThreshold
          MaxConcurrent, \* maxConcurrentTasks
          MaxPerHour     \* maxTasksPerHour, 0 for no cap

ASSUME AutonomousAssumption ==
    /\ IsFiniteSet(Procs) /\ IsFiniteSet(Entries)
    /\ Holders \subseteq Procs /\ RequireGate \in BOOLEAN
    /\ MaxTasks \in Nat /\ MaxBoots \in Nat /\ MaxSlot \in Nat
    /\ CompactAt \in Nat /\ MaxPerHour \in Nat /\ MaxConcurrent \in Nat \ {0}

VARIABLES up, boots,  \* Procs -> is it running; starts so far
          held,       \* isLockHeld() of data/manamir.lock
          tasks,      \* Procs -> the tasks in memory, Tasks -> status
          made,       \* task ids given out, in the order of createdAt
          log,        \* tasks.jsonl: its lines, and whether the last is torn
          count,      \* Procs -> appendedLines
          running,    \* Procs -> runningCount
          recent,     \* Procs -> startTimestamps within the hour
          paused,     \* Procs -> the scheduler's flag
          busy,       \* Procs -> the task its worker processes, None if none
          now,        \* times that have passed
          cron,       \* Procs -> nextRunAt of the entries, None if absent
          cronFile,   \* cron.json
          unsaved,    \* Procs -> a tick fired and has not saved yet
          runs,       \* history: Tasks -> executions begun
          fired,      \* history: Entries -> time -> times fired
          glued,      \* history: an event was written onto a torn line
          cutShort    \* history: a crash fell inside a cron tick

Tasks == 1..MaxTasks
Slots == 1..MaxSlot
None == 0

worker == <<running, recent, paused, busy>>
clockwork == <<now, cron, cronFile, unsaved, fired>>
vars == <<up, boots, held, tasks, made, log, count, worker, clockwork, runs, glued, cutShort>>

Finished == {"completed", "failed", "cancelled"}
Statuses == {"none", "pending", "running"} \cup Finished

Torn == [kind |-> "torn", id |-> None, status |-> "none"]
Event == [kind : {"add", "update", "delete"}, id : Tasks, status : Statuses]

TypeOK ==
    /\ up \in [Procs -> BOOLEAN] /\ boots \in 0..MaxBoots /\ held \in BOOLEAN
    /\ tasks \in [Procs -> [Tasks -> Statuses]] /\ made \in 0..MaxTasks
    /\ log \in [lines : Seq(Event \cup {Torn}), torn : BOOLEAN]
    /\ count \in [Procs -> Nat] /\ running \in [Procs -> Nat] /\ recent \in [Procs -> Nat]
    /\ paused \in [Procs -> BOOLEAN] /\ busy \in [Procs -> Tasks \cup {None}]
    /\ now \in 0..MaxSlot
    /\ cron \in [Procs -> [Entries -> 0..MaxSlot + 1]] /\ cronFile \in [Entries -> 0..MaxSlot + 1]
    /\ unsaved \in [Procs -> BOOLEAN]
    /\ runs \in [Tasks -> Nat] /\ fired \in [Entries -> [Slots -> Nat]]
    /\ glued \in BOOLEAN /\ cutShort \in BOOLEAN

NoTasks == [t \in Tasks |-> "none"]

Init ==
    /\ up = [p \in Procs |-> FALSE] /\ boots = 0 /\ held = FALSE
    /\ tasks = [p \in Procs |-> NoTasks] /\ made = 0
    /\ log = [lines |-> <<>>, torn |-> FALSE]
    /\ count = [p \in Procs |-> 0]
    /\ running = [p \in Procs |-> 0] /\ recent = [p \in Procs |-> 0]
    /\ paused = [p \in Procs |-> FALSE] /\ busy = [p \in Procs |-> None]
    /\ now = 0
    /\ cron = [p \in Procs |-> [e \in Entries |-> None]]
    /\ cronFile = [e \in Entries |-> None]
    /\ unsaved = [p \in Procs |-> FALSE]
    /\ runs = [t \in Tasks |-> 0] /\ fired = [e \in Entries |-> [s \in Slots |-> 0]]
    /\ glued = FALSE /\ cutShort = FALSE
-----------------------------------------------------------------------------
(* TaskStore *)

Added(t) == [kind |-> "add", id |-> t, status |-> "pending"]
Updated(t, s) == [kind |-> "update", id |-> t, status |-> s]
Deleted(t) == [kind |-> "delete", id |-> t, status |-> "none"]

(* A line that does not parse is skipped. *)
applyEvent(ts, ev) ==
    CASE ev.kind \in {"add", "delete"} -> [ts EXCEPT ![ev.id] = ev.status]
      [] ev.kind = "update" -> [ts EXCEPT ![ev.id] = IF @ = "none" THEN @ ELSE ev.status]
      [] OTHER -> ts

Replay(lines) ==
    LET after[n \in 0..Len(lines)] ==
            IF n = 0 THEN NoTasks ELSE applyEvent(after[n - 1], lines[n])
    IN  after[Len(lines)]

(* Mutant: compaction keeps the unfinished tasks only. *)
Surviving_Unfinished(ts) == {t \in Tasks : ts[t] \in {"pending", "running"}}

(* the tasks compaction writes an add for *)
Surviving(ts) == {t \in Tasks : ts[t] # "none"}

(* one line for each of them, whose order no replay can tell *)
compact(ts) ==
    LET ids == SetToSeq(Surviving(ts))
    IN  [lines |-> [i \in 1..Len(ids) |-> [Added(ids[i]) EXCEPT !.status = ts[ids[i]]]],
         torn  |-> FALSE]

(* appendFileSync: what follows a torn line becomes part of it *)
Append1(lg, ev) ==
    [lines |-> IF lg.torn THEN lg.lines ELSE Append(lg.lines, ev), torn |-> FALSE]

(* recordAdd, recordUpdate or recordDelete on [ts, lg, n]: memory, log and   *)
(* the count of lines                                                        *)
record(s, ev) ==
    LET ts == applyEvent(s.ts, ev) IN
    IF s.n + 1 > CompactAt
    THEN [ts |-> ts, lg |-> compact(ts), n |-> Cardinality(Surviving(ts))]
    ELSE [ts |-> ts, lg |-> Append1(s.lg, ev), n |-> s.n + 1]

recordAll(s, events) ==
    LET after[n \in 0..Len(events)] ==
            IF n = 0 THEN s ELSE record(after[n - 1], events[n])
    IN  after[Len(events)]

Store(p, events) ==
    LET s == recordAll([ts |-> tasks[p], lg |-> log, n |-> count[p]], events) IN
    /\ tasks' = [tasks EXCEPT ![p] = s.ts]
    /\ log' = s.lg
    /\ count' = [count EXCEPT ![p] = s.n]
    /\ glued' = (glued \/ log.torn)

(* load(): the tasks that were running when the process died *)
Stale(ts) == {t \in Tasks : ts[t] = "running"}

(* Mutant: load queues them again. *)
AfterCrash_Requeued == "pending"

(* what load() makes of them *)
AfterCrash == "failed"
-----------------------------------------------------------------------------
(* Scheduler and worker *)

Free(p) == up[p] /\ ~unsaved[p]

(* acquireLock(), by a process whose lock it is, then the constructors:     *)
(* load(), a fresh scheduler and worker, and cron.json                       *)
Boot(p) ==
    LET found == Replay(log.lines)
        ts == [t \in Tasks |-> IF t \in Stale(found) THEN AfterCrash ELSE found[t]]
        shrink == Stale(found) # {} \/ Len(log.lines) > CompactAt
    IN
    /\ ~up[p]
    /\ boots < MaxBoots
    /\ p \in Holders => ~held
    /\ up' = [up EXCEPT ![p] = TRUE]
    /\ held' = (held \/ p \in Holders)
    /\ boots' = boots + 1
    /\ tasks' = [tasks EXCEPT ![p] = ts]
    /\ log' = IF shrink THEN compact(ts) ELSE log
    /\ count' = [count EXCEPT ![p] = IF shrink THEN Cardinality(Surviving(ts)) ELSE Len(log.lines)]
    /\ cron' = [cron EXCEPT ![p] = cronFile]
    /\ UNCHANGED <<made, worker, now, cronFile, unsaved, runs, fired, glued, cutShort>>

addTask(p) ==
    /\ made < MaxTasks
    /\ made' = made + 1
    /\ Store(p, <<Added(made + 1)>>)

(* /task add, /task plan and /auto add *)
UserAdds(p) ==
    /\ Free(p)
    /\ addTask(p)
    /\ UNCHANGED <<up, boots, held, worker, clockwork, runs, cutShort>>

canExecute(p) ==
    /\ ~paused[p]
    /\ running[p] < MaxConcurrent
    /\ MaxPerHour = 0 \/ recent[p] < MaxPerHour

(* The gate chain.  Its second gate passes until the process ends.          *)
checkGates == RequireGate => held

Pending(p) == {t \in Tasks : tasks[p][t] = "pending"}

(* onTick up to handleMessage: all tasks have the same priority, so the      *)
(* oldest pending one is marked running and executed, if the gates pass      *)
onTick(p) ==
    LET t == Min(Pending(p)) IN
    /\ Free(p)
    /\ busy[p] = None
    /\ canExecute(p)
    /\ Pending(p) # {}
    /\ checkGates
    /\ busy' = [busy EXCEPT ![p] = t]
    /\ running' = [running EXCEPT ![p] = @ + 1]
    /\ recent' = [recent EXCEPT ![p] = @ + 1]
    /\ runs' = [runs EXCEPT ![t] = @ + 1]
    /\ Store(p, <<Updated(t, "running")>>)
    /\ UNCHANGED <<up, boots, held, made, paused, clockwork, cutShort>>

(* runningCount after t of p stops being running *)
Decremented(p, t) ==
    [running EXCEPT ![p] = IF tasks[p][t] = "running" /\ @ > 0 THEN @ - 1 ELSE @]

(* markCompleted and markFailed take only what is still running *)
Marked(p, t, s) == IF tasks[p][t] = "running" THEN <<Updated(t, s)>> ELSE <<>>

(* handleMessage returned, returned an error or threw *)
Finish(p, s) ==
    LET t == busy[p] IN
    /\ Free(p)
    /\ t # None
    /\ busy' = [busy EXCEPT ![p] = None]
    /\ IF Marked(p, t, s) = <<>>
       THEN UNCHANGED <<running, tasks, log, count, glued>>
       ELSE /\ running' = Decremented(p, t)
            /\ Store(p, Marked(p, t, s))
    /\ UNCHANGED <<up, boots, held, made, recent, paused, clockwork, runs, cutShort>>

(* the turn of a task that was running goes on *)
cancelTask(p, t) ==
    /\ Free(p)
    /\ tasks[p][t] \in {"pending", "running"}
    /\ running' = Decremented(p, t)
    /\ Store(p, <<Updated(t, "cancelled")>>)
    /\ UNCHANGED <<up, boots, held, made, recent, paused, busy, clockwork, runs, cutShort>>

PauseOrResume(p) ==
    /\ Free(p)
    /\ paused' = [paused EXCEPT ![p] = ~@]
    /\ UNCHANGED <<up, boots, held, tasks, made, log, count, running, recent, busy, clockwork, runs, glued, cutShort>>

(* Mutant: startTimestamps are not pruned. *)
Aged_Kept(n) == n

(* pruneStartTimestamps: the oldest start drops out of the hour *)
Aged(n) == n - 1

HourPasses(p) ==
    /\ Free(p)
    /\ recent[p] > 0
    /\ recent' = [recent EXCEPT ![p] = Aged(@)]
    /\ UNCHANGED <<up, boots, held, tasks, made, log, count, running, paused, busy, clockwork, runs, glued, cutShort>>

(* prune: any of the finished tasks may be old enough *)
prune(p) ==
    \E old \in SUBSET {t \in Tasks : tasks[p][t] \in Finished} :
        LET ids == SetToSeq(old) IN
        /\ Free(p)
        /\ old # {}
        /\ Store(p, [i \in 1..Len(ids) |-> Deleted(ids[i])])
        /\ UNCHANGED <<up, boots, held, made, worker, clockwork, runs, cutShort>>
-----------------------------------------------------------------------------
(* UserCron *)

(* add() and remove(), each with its save() *)
SetEntry(p, e, next) ==
    /\ Free(p)
    /\ cron' = [cron EXCEPT ![p][e] = next]
    /\ cronFile' = cron'[p]
    /\ UNCHANGED <<up, boots, held, tasks, made, log, count, worker, now, unsaved, runs, fired, glued, cutShort>>

CronAdd(p, e) == SetEntry(p, e, now + 1)
CronRemove(p, e) == cron[p][e] # None /\ SetEntry(p, e, None)

Due(p) == {e \in Entries : cron[p][e] # None /\ cron[p][e] <= now}

(* tick(), one entry: nextRunAt moves on, then the task is added *)
CronFire(p, e) ==
    /\ up[p]
    /\ e \in Due(p)
    /\ fired' = [fired EXCEPT ![e][cron[p][e]] = @ + 1]
    /\ cron' = [cron EXCEPT ![p][e] = now + 1]
    /\ addTask(p)
    /\ unsaved' = [unsaved EXCEPT ![p] = TRUE]
    /\ UNCHANGED <<up, boots, held, worker, now, cronFile, runs, cutShort>>

(* Mutant: what was fired is not written. *)
Saved_Stale(p) == cronFile

Saved(p) == cron[p]

(* tick(), its end *)
CronSave(p) ==
    /\ up[p] /\ unsaved[p]
    /\ Due(p) = {} \/ made = MaxTasks
    /\ cronFile' = Saved(p)
    /\ unsaved' = [unsaved EXCEPT ![p] = FALSE]
    /\ UNCHANGED <<up, boots, held, tasks, made, log, count, worker, now, cron, runs, fired, glued, cutShort>>

SlotPasses ==
    /\ now < MaxSlot
    /\ \A p \in Procs : ~unsaved[p]
    /\ now' = now + 1
    /\ UNCHANGED <<up, boots, held, tasks, made, log, count, worker, cron, cronFile, unsaved, runs, fired, glued, cutShort>>

(* The process ends: memory is gone; an append under way may be cut.  Its   *)
(* lock file counts as held on only if its PID is some other program's now.  *)
Crash(p) ==
    /\ up[p]
    /\ up' = [up EXCEPT ![p] = FALSE]
    /\ held' \in IF p \in Holders THEN {FALSE, held} ELSE {held}
    /\ log' \in {log, [lines |-> IF log.torn THEN log.lines ELSE Append(log.lines, Torn),
                       torn |-> TRUE]}
    /\ tasks' = [tasks EXCEPT ![p] = NoTasks]
    /\ count' = [count EXCEPT ![p] = 0]
    /\ running' = [running EXCEPT ![p] = 0]
    /\ recent' = [recent EXCEPT ![p] = 0]
    /\ paused' = [paused EXCEPT ![p] = FALSE]
    /\ busy' = [busy EXCEPT ![p] = None]
    /\ cron' = [cron EXCEPT ![p] = [e \in Entries |-> None]]
    /\ unsaved' = [unsaved EXCEPT ![p] = FALSE]
    /\ cutShort' = (cutShort \/ unsaved[p])
    /\ UNCHANGED <<boots, made, now, cronFile, runs, fired, glued>>
(* The lock file is removed, or too old for a while: its holder slept, and  *)
(* touches it when it wakes.                                                 *)
LockChanges ==
    /\ held \/ \E p \in Holders : up[p]
    /\ held' = ~held
    /\ UNCHANGED <<up, boots, tasks, made, log, count, worker, clockwork, runs, glued, cutShort>>
-----------------------------------------------------------------------------
Next ==
    \/ \E p \in Procs :
          \/ Boot(p) \/ Crash(p)
          \/ UserAdds(p) \/ onTick(p) \/ prune(p) \/ PauseOrResume(p) \/ HourPasses(p)
          \/ \E s \in {"completed", "failed"} : Finish(p, s)
          \/ \E t \in Tasks : cancelTask(p, t)
          \/ \E e \in Entries : CronAdd(p, e) \/ CronRemove(p, e) \/ CronFire(p, e)
          \/ CronSave(p)
    \/ SlotPasses \/ LockChanges

Spec == Init /\ [][Next]_vars

(* The heartbeat and cron timers tick, the hour passes, and a turn returns   *)
(* (SessionManager.tla).  Nobody must add, cancel, pause, resume or restart. *)
Fairness == \A p \in Procs :
    /\ WF_vars(onTick(p))
    /\ WF_vars(\E s \in {"completed", "failed"} : Finish(p, s))
    /\ WF_vars(HourPasses(p))
    /\ WF_vars(\E e \in Entries : CronFire(p, e))
    /\ WF_vars(CronSave(p))

FairSpec == Spec /\ Fairness
-----------------------------------------------------------------------------
(* At any moment the log replays to the tasks in memory, through every       *)
(* compaction and the recovery after a crash: a crash loses no task and no   *)
(* status but those that were written onto a torn line.                      *)
Recoverable == \A p \in Procs : up[p] => glued \/ Replay(log.lines) = tasks[p]

(* "so the worker doesn't double-execute": no task is executed twice.        *)
ExecutedOnce == \A t \in Tasks : runs[t] <= 1

(* Across crashes and restarts, cancellations and pruning, a task is         *)
(* executed twice only if its record was written onto a torn line.           *)
OnceUnlessTorn == glued \/ ExecutedOnce

(* Unless a crash cuts a tick short, an entry fires once for each time.     *)
CronOnce == cutShort \/ \A e \in Entries, s \in Slots : fired[e][s] <= 1

(* A pending task is executed, cancelled or lost with its process, unless    *)
(* the scheduler is paused or the lock is seen not held: neither the cap on  *)
(* starts, nor cancelled tasks, nor cron ticks hold it up for ever.          *)
PendingRuns ==
    \A p \in Procs, t \in Tasks :
        (tasks[p][t] = "pending") ~> (tasks[p][t] # "pending" \/ paused[p] \/ ~checkGates)
=============================================================================
