# Formal model of manamir

manamir is a long-running LLM agent: one Node process (a daemon behind Discord and a WebSocket, or a terminal) takes
messages, queues them per session, runs an agent loop for each against an OpenAI-compatible API, executes the tools
the model calls, and keeps sessions, histories, tasks, memories and skills in files under one data directory. A second
process may share that directory.

The modules here translate the parts whose correctness depends on order, concurrency, failure and restarts. Each
module names its source in its header, and `PROJECT.json` maps every definition to the lines it stands for.

Paths below are relative to the repository's inner `src/`.

## Inventory

| Component | State | Operations | What is hard about it | What makes it correct |
|---|---|---|---|---|
| Keyed async queue `queue/keyed-async-queue.ts` | `chains`, `sizes` per key | `enqueue`, and the promise reactions it creates | a call arrives between the `finally` that drops a chain and the settling of its stored promise; functions reject or hang | per-key order, one at a time, maps that tell the truth, no hang of one key holding another |
| Session manager `session/manager.ts`, `session.ts` | channel -> Session object, frozen memory snapshots, `session-map.json` | handleMessage, create, rotate, adopt, interrupt, destroy, idle cleanup, stop, restore | all of them run between the awaits of a turn; closures in the queue keep the object they were made with; rotation fails half way; crash and restart | an answered session is found again after a restart, no snapshot outlives its session, every message settles, turns of one file do not interleave |
| History and rotation `session/history.ts`, `rotator.ts` | one JSONL file per session id | append, load, shouldRotate, handoff | two objects over one file | an answer follows its prompt |
| Instance lock `core/lock.ts` | the lock file with a PID and an mtime | acquire, heartbeat, release | several processes, crashes, suspended processes, recycled PIDs | mutual exclusion, and no lockout for ever |
| Process start and shutdown `index.ts`, `autonomous/cron.ts`, `gate-chain.ts` | timers, the chain of fired jobs, the lock | main, a refused start, a failed login, signals, shutdowns | two signals start two shutdowns; work goes on between their awaits | the lock covers everything that can still work |
| Task store, scheduler, worker `autonomous/task-store.ts`, `scheduler.ts`, `worker.ts` | an event log and its replay; counts of running and recent tasks; the task in hand | add, mark, cancel, pause, prune, compact, load, tick | torn lines, compaction, cancellation under a running turn, caps that must open again, two processes | memory and log agree, nothing executed twice, places given back |
| User cron `autonomous/user-cron.ts` | entries with `nextRunAt`, `cron.json` | add, remove, tick | firing is in memory before it is on disk | one firing a time |
| Agent loop `executor/api-executor.ts`, `utils/retry.ts` | counters of the attempt, the history, the model in use, a staged hint, an AbortController | execute with retries, request, stream, expansions, tool calls, nudges, verifier, kill | a dozen ways to go round the loop, four of them without counting a turn; retries over the state a failed attempt left | calls are answered before the next request of the attempt, the loop ends |
| History of the executor `executor/context-compressor.ts`, `message-sanitizer.ts`, `plan-mode-detector.ts` | messages, a module-global summary, auxiliary blocks | build, compress, summarise, sanitize, trim | sessions share the compressor; cuts through pairs; blocks of a prompt that failed | a request holds its prompt, what it needs, and nothing of another prompt |
| Streamed answers `parseSSEStream`, `think-filter.ts`, `rolling-hash.ts`, `short-sentence-detector.ts`, `stream-watchdog.ts` | buffers, windows, timers | read, filter, guard, stall, finish | tags split over chunks; a guard and a timer cut the same stream | what is shown and kept is what came |
| Providers and credentials `executor/failover.ts`, `credential-pool.ts`, `error-classifier.ts`, `rate-limit-tracker.ts`, `max-tokens.ts` | cooldowns, keys, what headers asked for | execute over providers, rotate, sleep | callers sleep while others change what they sleep for; a loop of requests outside the count of turns | cooldowns are kept, keys take turns, the loop ends |
| CLI executor `executor/auth-executor.ts` | the child process, buffers | spawn, read, time out, kill, retry | timeout, watchdog, interrupt and retry share one field | no process is left behind |
| Message deduplication `channel/message-dedup.ts` | ids seen, dirty flag, file | record, prune, flush, load | a save racing a record; a crash between saves | a message is handled once |
| Discord channel, message handler `channel/discord.ts`, `handlers/message-handler.ts` | the message being edited, the chunk being filled | send, edit on a timer, finish; cut a text | an edit racing the first send; fences across cuts | the reply ends up in the channel; no text is lost |
| WebSocket server, notifications `comms/ws-server.ts`, `notifications.ts`, `progress.ts` | clients and last pongs; limits per channel | authenticate, heartbeat; notify | timers and messages; awaits between channels | a living client is kept; limits hold |
| Agents `agents/coordinator.ts`, `sub-agent.ts` | phases, agents at work, mailbox names | run, retry, abort, spawn | an abort between phases and retries | no agent starts after an abort, success means all phases |
| File tools, checkpoints `tools/builtin/read.ts`, `edit.ts`, `write.ts`, `checkpoint.ts`, `tools/file-state.ts` | what was seen of a file; a shadow repository | read, write, edit; snapshot, restore | the check and the rename are apart; snapshots are skipped | nothing unseen is replaced; a restore can be undone |
| Images `multimodal/image-processor.ts`, `discord-image-handler.ts` | one OCR worker, temporary files | create, recognise, time out, shut down | creations that end late; several messages at once | no dead or leaked worker, each text its own image's |
| Monitoring `hooks/registry.ts`, `monitoring/error-monitor.ts`, `autonomous/daily-log.ts`, `utils/cost-tracker.ts` | records, alert flags, a day's log, costs | emit, flush, alert, distil | windows that slide, days that change, crashes | alerts neither lost nor flooding; sums that add up |
| Skills `skills/store.ts`, `sync.ts`, `skill-synth.ts`, `skill_manage` | SKILL.md with its hash and author, the manifest, the slot of extraction | create, patch, scan, count; sync; extract | calls and the user's editor come between a check and a rename | a later check knows the user's text; one extraction |
| Memory and self-review `memory/store.ts`, `autonomous/self-review.ts` | files, an index, three caches, the slot of review | save, load, inject, review | three caches over one directory; the tool takes any name, a lesson's too; saves that fail half way | lessons are found, and stored once |
| Prompts, profile, security, command line, configuration, tool registry, heartbeat | tables and files | text and I/O | little concurrency | see "Not modelled" |

A message goes channel -> deduplication -> handler -> `SessionManager.handleMessage` -> `KeyedAsyncQueue` ->
`Session.sendMessage` -> executor (failover -> `ApiExecutor.execute` -> provider) -> tools, and back as a stream that
the handler edits into the channel. The worker's tick goes the same way from the task store. Hooks at the end of an
execution feed monitoring, skill extraction and self-review. The lock is taken once, before anything else.

## Modules

| Module | Models | State and actions |
|---|---|---|
| `SerialQueue` | the abstract queue: per key, in order, one at a time | `Submit`, `Serve`, `Complete`; `SessionManager` uses these as its queue |
| `KeyedAsyncQueue` | the promise chain that implements it | a task's stage says which of the promises of its `enqueue` has settled; `Enqueue`, `Start` (the `then` reaction), `Finish` (the function settles), `Finally`, `Resolve` (the stored promise). `phaseBar` is the refinement mapping |
| `SessionManager` | manager, Session, rotation, history, map; composed with `SerialQueue` | `obj` are Session objects and `sessions` the bindings, kept apart because closures hold objects. One action is what runs between two awaits: `HandleMessage` (with get, create or rotate), `Begin` (the closure up to its first request), `AttemptReturns`/`AttemptRetried`/`AttemptFails`, `RetryAttempt`, `Answer` (history, map, settle), and `interruptSession`, `destroySession`, `adoptSession`, `cleanupIdleSessions`, `Stop`, `Exit`, `Restart` |
| `Lock` | the lock file | `acquireLock` as the system calls it makes: `Look`, `Read`, `Judge`, `Unlink`, `Open`, `Write`; `Touch`, `releaseLock`; the environment `Killed`, `Stall`, `Resume`, `Recycle`, `GrowStale` |
| `Autonomous` | task store, scheduler, worker, cron | `log` is the file with its torn tail, `tasks` each process's memory; `Store` is the record-apply-append-compact path every handler goes through. `CronFire` and `CronSave` are apart because a crash can fall between them. `held` is whether the lock file the gate asks for is held by a living process, `onTick` ends before a task when it is not |
| `AgentLoop` | one executor | `pc` names the await the loop is in: `waiting` (summary, rate limit), `asking` (fetch and stream), `tools`, `verifying`, `backoff`. One action for each way an answer leaves the stream. Only the number of this attempt's unanswered calls is kept of the history; `ToolBreaks` is a throw of a callback, or of the file a long result is spilled to, outside the inner `try`. `History` has the calls such an attempt leaves |
| `History` | that history, of several sessions over one compressor | a message is its role, prompt, calls and size. `SendRequest` builds, prunes, summarises and sanitizes; `BeginCompression`/`EndCompression` are around the await of the summary; `Trimmed` is the trim of `FinalAnswer` |
| `SseStream` | one streamed answer | an answer is a sequence of pieces (parts of tags, sentences, a fence); `Text` runs a piece through filter and guards, `Silence` is the watchdog's timers, `CancelReturns` the await of a guard that cuts |
| `Failover` | calls over a list of providers | `TryProvider`, `SleepUntilCooled`, `WakeUp`, `Succeeds`, `Fails` (with `Penalise`), `GiveUp`; a sleeper keeps the provider it found |
| `Provider` | keys, waits, token cap of one executor | `classifyApiError` over status, code and texts in the code's order; `Refused` rotates the pool, `Awake` and `Backoff` are the two waits |
| `CliExecutor` | attempts of a child process | `child` per attempt, the fields the attempts share; `Kill` is the SIGTERM, `ForceKill` the timer after it |
| `MessageDedup` | ids seen and their file | a save is `BeginWrite` (snapshot) and `WriteEnds` or `WriteFails`; `Crash`, `Connect` |
| `StreamReply` | handlers that stream into a channel | handlers of a channel hear every turn of its session; `SendEnds`, `EditEnds` and `TimerFires` race `TurnReturns` |
| `ChunkText` | `chunkText` as a loop | one step per line or per slice of a line too long; a line is its length, whether it is a fence, whether it has an odd number of stars |
| `WsServer` | clients and the heartbeat | time in heartbeats; `Pong` counts also while a socket closes |
| `Notifications` | overlapping `notify` calls | a step is one channel, up to the await of the sink |
| `Daemon` | start and shutdown | `Boot`, `Connected`, `Signal`, `StopAll`, `Disconnected`, `Release`; jobs and gate checks go on beside them |
| `Coordinator` | the four phases | `Execute`, `PhaseEnds`, `abort`, `spawnAgent`; an agent at work retries as its executor does |
| `FileTools` | one file and what the tools know of it | an update is a check (`BeginWrite`, `BeginEdit`) and a rename (`EndUpdate`); `ChangedOutside` comes between, with any mtime up to now (`mv`, `cp -p`) |
| `Checkpoint` | a work tree and its shadow commits | `snapshot`, `restore` with the snapshot before it, `Restart` |
| `Ocr` | the worker and the images of messages | `Create` to `SetParameters` with timeout and failure; per message `Download` to `Deliver`; `Shutdown`, `Terminate` |
| `Monitoring` | hooks, error monitor, daily log, costs | the events of executions, lines of the log that fail, ticks of a clock with days, crashes |
| `SkillStore` | one skill and overlapping calls | reading and checking is one step, the rename another; the user's editor comes between. `saved` and `since` are history: what creates and edits have put there, and what stood there since a call's check |
| `SkillSync` | the seeding of a bundled skill | `syncSkills` with copies that fail and a manifest that a crash loses; the user writes and removes |
| `SkillSynth` | extraction of skills | runs that end, the timer, the model, the slot and the row of failures |
| `Memory` | memories, index, caches, lessons | a memory is its name (kind, key, instant), the time it was made and who wrote the file last. `SaveMemory` takes names of its own, of any file there, or made up in a lesson's form. Saves are synchronous, and end in one of four ways: done, with the index not written, with the file cut short, or with nothing done (`Writes`). `Die` restarts the process, which puts a missing preset back. Names made in one instant are one name, as in the code |
| `MCKeyedAsyncQueue`, `MCSessionManager`, `MCLock`, `MCAutonomous`, `MCAgentLoop` | instances | one component each |
| `MCMessaging` | `MessageDedup`, `StreamReply`, `WsServer`, `Notifications`, `Daemon`, `ChunkText`, `Failover`, `Provider`, `CliExecutor`, `History`, `SseStream` | these share no state: `part` chooses which of them a behaviour moves, so that their state spaces add up and do not multiply |
| `MCToolbox` | `Coordinator`, `FileTools`, `Checkpoint`, `Ocr`, `Monitoring`, `SkillStore`, `SkillSync`, `SkillSynth`, `Memory` | as above |
| `MCChunk`, `MCHistory` | line kinds, sizes and thresholds for the two | |
| `Filter` | `filter` of arrays | what it keeps of a sequence, as a recursive function the provers can unfold |
| `SequenceLemmas` | | induction over numbers, recursive functions and `Filter`: what an append, a cut or a filter leaves in order; the lemmas about data the proofs share |
| `*Proofs` | proofs | see "Proved" |

`SessionManager` sees an executor as an attempt that returns, is retried or fails; `AgentLoop` is what is inside one
attempt, `Provider` what is inside one of its requests, `SseStream` inside its answer, `History` behind the messages it
sends; `CliExecutor` is the other backend. `KeyedAsyncQueue => SerialQueue` is what allows `SessionManager` to use the
abstract queue.

## Runs

| Run | Module, cfg | Shows |
|---|---|---|
| `keyed_queue` | `MCKeyedAsyncQueue` | the maps agree with the live calls (`Accounting`), order within a key (`SerialOrder`), every task of a key whose own functions settle is answered though another key hangs (`Progress`), and the chain implements the abstract queue with its fairness (`ImplementsSerialQueue`) |
| `session_manager` | `MCSessionManager` | snapshots (`NoSnapshotLeak`), answered sessions in the map (`AnsweredSessionIsDurable`), answers after their prompts (`ReplyFollowsPrompt`), eviction that spares turns (`EvictionSparesTurns`) and settling of messages (`EveryMessageSettles`), over every interleaving of the manager's operations with a turn, a crash and a restart |
| `lock` | `MCLock` | exclusion (`MutualExclusion`) and visibility of the holder (`HolderIsSeen`) when starts do not overlap, and that no orphaned file blocks for ever (`NoLockout`) |
| `autonomous` | `MCAutonomous` | log and memory agree (`Recoverable`), nothing runs twice (`OnceUnlessTorn`, `CronOnce`) or stays pending while the lock file is held (`PendingRuns`), through crashes, torn lines and compaction |
| `agent_loop` | `MCAgentLoop` | an attempt's calls are answered before its next request, and only a failed one leaves some without a result (`CallsAnswered`), requests have a bound (`RequestsBounded`), failing turns stop (`ErrorsStop`), an execution settles (`Settles`) |
| `messaging` | `MCMessaging` | `HandledOnce`: a message is handled again only where the code admits to forgetting it. `ReplySound`: a stream is posted once per message, a handler shows each chunk in one message only and in order, and no cursor is left unless the result raced a send, an edit or a timer. `LivingClientKept`, `Quota`, `LockCoversWork`. `TextKept`: the chunks of every text carry its lines, fences closed and reopened. `CooldownKept`, `KeysRotate`, `NoOrphan`. `RequestSound`: a request has its prompt, pairs of calls and results, and no block of another prompt. `TextAccounted`: what is shown, kept and thought is what came |
| `toolbox` | `MCToolbox` | `PipelineSound`, `SeenBeforeReplaced`, `RestoreUndoable`, `OcrSound`, `MonitorSound`, `EditSparesUser`, `UserWins`, `OneExtraction`, `MemorySound`, each stated at the end of its module |
| `stop_keeps_map`, `lock_overlap`, `tasks_twice`, `overflow_retry`, `chunk_size` | violations | the deviations below |

In `messaging` and `toolbox` the clocks, inputs and calls are bounded and the parts stop when they are used up, so
deadlock is not checked there; in the other runs a system that was stopped, or has answered all there is, may stop
too.

### Bounds, and why they are enough

- Queue: three calls, two keys, one of which may hang. Three calls let a key drain, lose its chain and start a new one
  while an old stored promise is unsettled, with the other key active.
- Sessions: two channels, two messages, three Session objects, one retry, one restart, rotation after two turns. Two
  objects suffice for a rotation or an adoption under a running turn, the third for what a restart or a second
  rotation makes. Two messages are one running turn and one queued behind it.
- Lock: three runs and three ids: a crashed holder, one that starts and one that comes next; an id can go to a
  stranger while both runs hold others.
- Tasks: two tasks, one cron entry, three starts of the process, compaction after three lines: a compaction, a torn
  line and a recovery all fall into one behaviour. One start an hour makes the cap bite.
- Agent loop: three turns (two with tools, the last without), two expansions, every other cap one, two executions with
  one retry each. A tool that is always offered, the capped search, one that must be expanded for, and one the
  registry lacks. The real caps (2 or 3) only add rounds of the same kind, and the proofs cover all of them.
- Messaging: three ids, room for two and a window of two instants, so that both ways of forgetting occur, over two
  starts; two handlers on one channel; two WebSocket clients and four heartbeats with a timeout of two; two channels,
  two overlapping notifications; one job, two gates, two signals; every text of up to four lines against messages of
  eight characters and three lines, so that a fence, a star and a line too long for any message meet a cut in each
  order; two callers on two providers; two keys, six errors that differ in what the classifier looks at, and waits of
  none or two instants; two CLI attempts of two lines; two sessions with two prompts and two tool calls in all, with
  thresholds low enough that each level of compression is reached; every answer of four pieces.
- Toolbox: four phases with a retry; two overlapping updates; two files and three commits; two messages of two images
  (one of them over the limit) and two workers; four events over two days, so that a window fills, empties and fills
  again, the costs moving apart from the rest; two calls on a skill with a harmless and a critical text; three
  releases of the bundle; four runs for a limit of two failures; a note that lands on the index, one name made up in a
  lesson's form, three saves, and a day of two instants of which there are three, so that a second lesson can fall
  within a day and after it; two runs that end.

Every bound is a CONSTANT in a guard, named `bound:` where it is declared. Symmetry is used for the sessions of
`messaging` and the updates of `toolbox`, which no operator orders or picks by name; for the rest, permuting such wide
states costs TLC more than the states it saves.

### Fairness

The event loop runs what is ready, hence weak fairness of each continuation: promise reactions, timers, the step after
an await. An await is assumed to end only where the code or the runtime ends it: `fetch` and the stream by the
watchdog and the HTTP client's timeouts, tools by their own timeouts, the verifier because it is an executor of its
own. No user, interrupt, crash or restart is ever required to happen. A function of the queue may hang (`HungKeys`),
the provider may answer "context too long" for ever (`Settles` is conditional on it not doing so), and a paused
scheduler may stay paused. `messaging` and `toolbox` check safety only: their specifications state no fairness.

## Proved

All theorems hold for every value of the constants that satisfies the module's assumptions: finite sets of messages,
tasks and channels, natural-number caps, marker values outside the sets they mark. Each component has a type invariant
among its theorems; the types are not checked again by the runs.

- **Queue** (`KeyedAsyncQueueProofs`: `TypeCorrect`, `AccountingHolds`, `SerialOrderHolds`, `RefinesSerialQueue`).
  `SerialOrder` is not inductive: a call that finds no chain starts at once. `IInv` adds why that is right: the tail of
  a key is its latest task (`TailShape`), a task chained on another is its immediate successor, and one that found no
  chain came when all before it were released (`PrevShape`); `Accounting` connects "no chain" with "none live".
- **Sessions** (`SessionManagerProofs`: `TypeCorrect`, `SnapshotsBelong`, `AnswersAreDurable`, `RepliesFollow`,
  `EvictionSpares`). `IInv` adds that objects are numbered as made, a channel's object is its own, bound objects are
  not stopped and a program that is down has none. Without `OwnSession` a destroyed object could stop another
  channel's; without `BoundIsAlive` the saved map would skip a live binding. `FollowInv` carries the order of a
  history: a message in the queue is keyed by the id of its object (`Keyed`), the queue serves one message of a key
  (`Line`), and while a turn runs its prompt is what the file ends with (`PromptIsLast`), also when rotation or
  adoption has put two objects over the file. Eviction rests on a session with a turn being idle only after an
  interrupt.
- **Lock** (`MessagingProofs`: `LockTypeCorrect`, `Exclusion`, `HolderSeen`). In an orderly environment (`Orderly`:
  starts one after the other, and no holder is suspended while another acquires) a run past its judgement coexists with
  no holder.
  The assumption is needed: `lock_overlap` drops it and finds two holders.
- **Tasks and cron** (`AutonomousProofs`: `TasksTypeCorrect`, `RecoverableCorrect`, `OnceUnlessTornCorrect`,
  `CronOnceCorrect`), for one process (`Procs = {bot}`; with two `OnceUnlessTorn` is false, as `tasks_twice` shows).
  The replay of a log is a recursive function: an append applies one more event (`ReplayAppend`), a torn line none
  (`ReplayTorn`), and what compaction writes replays to what it was made from (`CompactReplays`). So memory is the
  replay of the log (`Recoverable`), also after a crash, until an event has been written onto a torn line.
  `OnceUnlessTorn` needs more: what was executed is not pending in the log, and what was not made is not in it
  (`BegunOnce`).
  `CronOnceCorrect`: as long as no crash has cut a tick short, the entry in memory is due after every time it fired
  for, and so is the one on disk unless a save is owed (`CronInv`); without the clause about the file a restart could
  bring a fired time back.
- **Agent loop** (`AgentLoopProofs`: `TypeCorrect`, `EveryCallAnswered`, `BoundedRequests`, `FailingTurnsStop`,
  `RequestsRouted`, `HintsSentOnce`, `ExpansionsNeeded`; the last three have no run). `Safe` is inductive by itself:
  types, turns left at each await, and that the open calls are those still to be run, which only a throw leaves.
  `RequestsCounted` relates the requests to a budget of two a turn and one an expansion; the IF in `Budget` is what
  makes the bound strict, as the last turn cannot be spent on a repetition. `ModelKept` says where `options.model` may
  differ from the first; `OfferKept` that the tools an answer is compared with are still those of its request.
- **History** (`AgentLoopProofs`: `RequestSoundCorrect`). `HistInv`: messages are clean, a call comes before its
  results, and until the first answer the history ends in the prompt with its blocks before it (`Opens`), so that a
  compression cannot reach them: `HistoryAssumption` asks for a protected tail of three messages, and the code keeps
  six. One lemma says what each pass keeps of that: building, pruning, splitting, summarizing, sanitizing, merging
  and trimming (`BuildSound`, `PruneSound`, `SplitParts`, `ExchangedLate`, `SanitizeSound`, `MergeSound`, `TrimSound`),
  and `BeginSound` chains them. That calls precede results is claimed of compressed requests only, as in the run.
- **Messaging** (`MessagingProofs`). `LivingClientKeptCorrect`: a client that looks silent was asked (`SilentWasAsked`).
  `LockCoversWorkCorrect`: before the start and after the end everything is quiet, in between the lock is ours.
  `CooldownKeptCorrect`: calls are where their records say (`CallsSane`), and a cooldown not reset still stands as it
  was given (`PenaltyStands`). `NoOrphanCorrect`: only the latest attempt has a process (`OneChild`).
  `KeysRotateCorrect`: the key in use rests only if the pool had no other (`SparedOrSpent`), and within one turn and
  one cooldown each refusal puts one more key out of use, so that refusals are counted by the cardinality of the keys
  that are out (`RefusalsCounted`). The next key is found as the least in a circle, whose existence is the
  well-foundedness of the naturals. `ReplySoundCorrect`: what a handler still holds, in its buffer or in the send in
  flight, is later than all that its posts show or will show (`InOrder`, which counts the edits in flight as texts of
  their post), its message is its latest post (`Placed`), and unless a race is on record only that post can have a
  cursor, none after the final edit (`Tidy`). Each action of one handler leaves the others' three alone (`StreamFrame`).
  `QuotaHolds`: the times a channel keeps are those of all its deliveries but the first few, and these are out of every
  window that can still be asked for (`KeptTimes`): deliveries are in the order of the clock, so a filter by age drops
  only a front (`OnlyTail`); a text within its window is remembered (`Remembered`).
  `HandledOnceHolds`: no id is twice in memory (`OneOfEach`), and one handled within its window that was not forgotten
  for want of room is in it (`Known`): the pruning stops at the first entry within the window, and the entries are in
  order of age. `TextAccountedCorrect`: the sentences read are in the filter's hold, in a thought or shown, counted
  piece by piece over the concatenation of what came (`Accounted`), and only a possible tag is held (`HeldForTag`);
  sentences are taken to be no parts of tags (`SseAssumption`). `TextKeptCorrect`: the messages so
  far and the one being filled hold the lines read, in order and with all their characters but those still to cut, and
  the last message has a fence open exactly if the text has one there (`Gathers`).
  Also `StreamTypeCorrect`, `WsTypeCorrect`, `FailoverTypeCorrect`, `CliTypeCorrect`.
- **Tools** (`ToolProofs`). `PipelineSoundCorrect`: one agent of a phase at a time, and what the steps inside and
  outside a phase hold (`OnePhaseAgent`, `InPhase`, `OutsidePhase`). `SeenBeforeReplacedCorrect`: what an
  update under way is about to replace was seen, came after its check, or is no newer than the last read
  (`UpdatesChecked`), and what was read last was seen and lies in the past (`StateIsPast`).
  `RestoreUndoableCorrect` needs only the types of commits: both halves are about one step. `OcrCorrect`: the pool
  (`PoolSound`), the readers' workers (`ReadersSound`), and files and blocks (`ImagesSound`) are three invariants that
  need one another's types. `MonitorSoundCorrect`: the flag of a code is up
  exactly while its window is at the threshold, for a critical one while it is not empty (`FlagIsSize`), so an alert of
  a warning is a step up to the threshold; and an error
  logged on a day is one more in the sum over the days (`LoggedOneMore`). Also
  `CoordinatorTypeCorrect`, `FileTypeCorrect`, `CheckpointTypeCorrect`.
- **Skills and memory** (`SkillProofs`). `EditSparesUserCorrect`: a hash that stands anywhere, in the file or in what a
  call would write or write back, is that of a text a create or an edit had put there (`CallTraced`), so a check that
  passes without force has one before it or a skill without a hash, and what comes later is on record (`MayReplace`).
  Without the clause on back-ups a roll-back could bring a hash from nowhere. `UserWinsCorrect`: what is the user's is
  not what the manifest says (`MineIsKnown`). `OneExtractionCorrect`: the slot is taken exactly while one run is under
  way, and the row of failures disables (`SlotHeld`, `FailuresDisable`). `MemoryCorrect`: a file name belongs
  to one memory, on disk and in the shared cache (`OneEach`), both know every lesson whose file holds
  (`Knows`; a rewrite by the tool keeps its name), each store knows what it wrote (`Own`), the index follows the files
  unless a save failed (`Listed`): together `StoreInv`. `LessonsInv` puts every lesson of misuse at or before now, which
  the check against the last day needs, and two of one misuse a day apart. Also `SkillTypeCorrect`, `SynthTypeCorrect`.

Only model-checked:

- liveness and everything with fairness (`Progress`, `EveryMessageSettles`, `NoLockout`, `PendingRuns`, `Settles`),
  and `SerialQueue`'s fairness in the refinement;
- the violations, which are single behaviours TLC finds.

Every safety invariant of a passing run has its theorem.

What is computed over sequences is proved without the library's induction theorems, which take an operator as a
parameter and have no prover here: a counterexample to a fact about numbers would have a least one (`LeastNatural`),
so `InductionUpTo`, `Recursion` and `OneRun` are stated for a set of numbers and a function of steps.

## Deviations found

With a run that shows it (details in `PROJECT.json`):

1. `stop_keeps_map`: a turn that ends between `stop()` and `process.exit` writes an empty session map.
2. `lock_overlap`: two processes that start together both take the lock.
3. `tasks_twice`: the bot and the terminal on one data directory both execute a pending task.
4. `overflow_retry`: the emergency compression is assigned to a local that the next iteration rebuilds; the overflowing
   request is sent again unchanged, and a persistent overflow is asked for ever, as no turn is counted.
5. `chunk_size`: closing and reopening fences is not counted, so a message can be longer than Discord accepts.

Seen while modelling; the models do what the code does, and the properties except these cases:

- Sessions. `session/session.ts:345`: a message queued behind the turn of a session that is rotated away ends as a
  TypeError. `executor/api-executor.ts:984`: "Request aborted" is retryable, so an interrupted turn runs again.
  `handlers/message-handler.ts`: a rejected `handleMessage` never lowers the count of active executions.
- Deduplication. `channel/message-dedup.ts:123`: the flush clears `dirty` after its await, also for an entry recorded
  meanwhile.
- Streaming. `handlers/message-handler.ts:198`: an edit timer or a late first send leaves or puts back the cursor. The
  sink of `comms/progress.ts` is one for the process: overlapping handlers report into the latest.
- WebSocket. A client that authenticates more than a minute after connecting is dropped at the next heartbeat, as its
  last pong is counted from the connection.
- History. `executor/context-compressor.ts:211` replaces every long result, also the one just obtained (:216 says not
  the last six). `message-sanitizer.ts:60`: the last assistant message keeps calls whose results were dropped. The
  summary is a global of the module, so one session's can be merged into another's.
- Stream guards. `think-filter.ts:68`: a "<" in a thought before the closing tag makes the filter miss the tag.
  `rolling-hash.ts:104`: code is indexed when its fence closes. `StreamStalledError` is never thrown.
- Providers. `executor/api-executor.ts:513`: with a Retry-After of a minute or more a key is active again before that
  wait is over, and the loop that asks with the next key does not end. `failover.ts`: a sleeper that wakes clears a
  cooldown renewed meanwhile.
- CLI executor. `auth-executor.ts:115`: a last line without its newline is dropped. `:274`: the SIGKILL is only sent
  to a process that was not told to stop, which it always was; it can hit the process of the next attempt.
- Agent loop. `executor/api-executor.ts:608`: with a profile that offers all tools (`essentialTools` empty) the
  comparison starts from no tools, so the first call of each of the first three registered tools is dropped and asked
  for again; `ExpansionsNeeded` therefore assumes essential tools. A hint staged by the last request of an execution is
  consumed by the preflight `buildMessages` of the next one and never sent; `HintSentOnce` is about one attempt.
  `TodoTracker` is dead code. `:753`, `:763`: a long result is spilled to a file, and callbacks run, outside the inner
  `try`; a throw there leaves the call without a result, and the retry asks again with it in the history. `AgentLoop`
  counts the calls of one attempt, `History` has the ones left over in what is sent.
- Tasks. `cli.ts:161`: the terminal's lock gate asks for the lock file of the bot (`cli.ts:130` takes another), so a
  terminal without a bot beside it never executes a task. `autonomous/user-cron.ts:191` says entries are advanced
  "BEFORE firing so a crash doesn't double-fire"; the advance is saved after the tick, so a crash inside one does.
  `autonomous/task-store.ts` says each line is parsed on its own; the append that follows a torn line is joined to it
  and lost as well. The documented parallelism of autonomous tasks is never more than one, because the worker's
  `processing` flag admits one task; the cap of starts an hour begins anew at a restart.
- Agents. `agents/coordinator.ts:336`: `abort()` kills the agent at work, whose error is retryable, so it asks again.
- File tools. `tools/file-state.ts:67` refuses only a newer mtime: a file moved in with an older one, or written in the
  instant of the read, passes as fresh, and its unseen text is replaced.
- Tools. `checkpoint.ts:107`: nothing resets `turnSnapshots`, so after the first snapshot of a process the action
  creates none, though it says so. `resetReadTracker` and `notifyFileWrite` have no caller.
- Images. A worker whose parameters could not be set is forgotten and never terminated; two messages can have the same
  temporary file in one millisecond.
- Monitoring. `error-monitor.ts:227`: under the threshold the flag is lowered before it is looked at, so every
  critical event alerts again, within one window too, and at the threshold none does (`MonitorSound` states both). A
  line of the daily log that cannot be written is still counted in the statistics of the day
  (`autonomous/daily-log.ts:88`). `errors.jsonl` is replaced by what is in memory at the first flush after a restart.
  The summary of the daily log is not saved.
- Skills. `skills/store.ts:142`, `:166`: the check and the rename are apart, so an edit of the user in between is
  replaced without force, and a bump of the usage count under way writes the text it loaded back; `EditSparesUser`
  excuses only what came after the check. A patch leaves `content_hash` as it was; the policy of the guard blocks
  skills of the user; extracted skills get the trust of the user's. `sync.ts:203`: what a failed copy left is taken
  for a customized skill at the next sync and never completed.
- Memory. Three stores cache one directory, so what `save_memory` writes is not in the prompts of sessions that start
  later in the process; it may take the name of a lesson or of the preset, and then rewrites a file whose old text the
  shared store goes on injecting. An index that could not be written leaves a memory on disk unlisted, until the next
  save. A memory named MEMORY is overwritten by the index. Lessons of misuse are stored and never
  injected.

## Not modelled

- Texts, prompts, formatting and their tables: prompts and profile, security and redaction, frontmatter, skill
  discovery and recommendation, report texts, the classifier's patterns (a set of layers that match is its input).
- Command line and configuration: interactive input and parsing. The terminal as a second process is an environment of
  `Lock` and of `tasks_twice`.
- Tool registry and policy: tables built once, a constant of `AgentLoop`. The other built-in tools are calls of
  external programs; the mailbox carries no messages and `moa.ts` has no state.
- Heartbeat and planner: a timer that adds a prompt, and a prompt whose answer is added to the task store.
- A second manager over one `session-map.json`, and torn lines in a session's history: see the notes under `hazards`
  in `PROJECT.json`. Failing appends and rewrites of the task log.
- Delays of the worker after a task: they are awaited after `processing` is cleared, and nothing waits for them.
- The Discord gateway, tesseract, git, the WebSocket library and the Claude CLI are external: modelled from how the
  code uses them.
- Composition: the parts of `messaging` and `toolbox` are checked beside one another, not together. What they would
  exchange (a reply, a request, a prompt) is a choice in each of them, which covers what the neighbour can do. The one
  composition is `SessionManager` with its queue.

## Where to go on

1. An abstract executor that `AgentLoop` refines and `SessionManager` uses, as `SerialQueue` is for the queue; then
   `Failover` over it, with the histories and abort signals that its callers share.
2. What the theorems assume, weakened: `Recoverable` for a log whose appends can fail, `RepliesFollow` beside a second
   manager over the same files.
3. Liveness of the parts of `MCMessaging`: a dirty entry is saved, a slept-for provider is tried, a stream ends.
