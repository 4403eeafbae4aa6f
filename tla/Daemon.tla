------------------------------- MODULE Daemon -------------------------------
(***************************************************************************)
(* index.ts: how the process starts and stops, with the legacy Cron of     *)
(* autonomous/cron.ts and the GateChain.  main() runs to its first await   *)
(* in one step; signals are only heard once it has finished; every signal  *)
(* starts a shutdown of its own, and the first to end ends the process.    *)
(***************************************************************************)
EXTENDS Naturals, Sequences, FiniteSets

CONSTANTS
    Jobs,         \* cron jobs
    Gates,        \* gates of the chain, as a sequence
    MaxSignals,   \* bound: signals
    MaxQueue,     \* bound: fired jobs in the chain
    MaxFires      \* bound: cron timers that fire

VARIABLES
    pc,         \* "boot", "connecting" (await discord.connect), "ready", "gone"
    lock,       \* the instance lock is ours
    timers,     \* intervals that run: jobs, "userCron", "worker", "ws"
    chain,      \* fired jobs of Cron, the first one running
    fires,      \* cron timers that fired
    turn,       \* a message is being worked on
    listening,  \* the Discord client delivers messages
    shutdowns,  \* shutdown calls, by the await they are in
    signals,    \* signals so far
    stopping,   \* state.isShuttingDown
    check       \* the gate the worker's tick evaluates, 0 when none

daemonVars == <<pc, lock, timers, chain, fires, turn, listening, shutdowns, signals, stopping, check>>

DaemonInit ==
    /\ pc = "boot"
    /\ lock = FALSE
    /\ timers = {}
    /\ chain = << >>
    /\ fires = 0
    /\ turn = FALSE
    /\ listening = FALSE
    /\ shutdowns = << >>
    /\ signals = 0
    /\ stopping = FALSE
    /\ check = 0

\* process.exit: memory and timers are gone.
Gone ==
    /\ pc' = "gone"
    /\ lock' = FALSE
    /\ timers' = {}
    /\ chain' = << >>
    /\ turn' = FALSE
    /\ listening' = FALSE
    /\ shutdowns' = << >>
    /\ check' = 0
    /\ UNCHANGED <<fires, signals, stopping>>

\* What main starts: the worker and the user cron in autonomous mode, and the cron jobs.
Started(enabled) == Jobs \cup (IF enabled THEN {"worker", "userCron"} ELSE {})

\* main up to discord.connect: the lock is tried before anything is started.
Boot(enabled) ==
    /\ pc = "boot"
    /\ pc' = "connecting"
    /\ lock' = TRUE
    /\ timers' = Started(enabled)
    /\ UNCHANGED <<chain, fires, turn, listening, shutdowns, signals, stopping, check>>

\* The configuration has errors, or another instance holds the lock.
Refuse ==
    /\ pc = "boot"
    /\ Gone

\* ClientReady: messages are delivered, the WebSocket server starts, the signals are handled.
Connected ==
    /\ pc = "connecting"
    /\ pc' = "ready"
    /\ listening' = TRUE
    /\ timers' = timers \cup {"ws"}
    /\ UNCHANGED <<lock, chain, fires, turn, shutdowns, signals, stopping, check>>

\* The login fails: main rejects, the lock is released and the process exits.
LoginFails ==
    /\ pc = "connecting"
    /\ Gone

Running == pc \in {"connecting", "ready"}

\* A job's interval fires: enqueue chains it.
JobFires(j) ==
    /\ Running
    /\ j \in timers \cap Jobs
    /\ fires < MaxFires
    /\ Len(chain) < MaxQueue
    /\ fires' = fires + 1
    /\ chain' = Append(chain, j)
    /\ UNCHANGED <<pc, lock, timers, turn, listening, shutdowns, signals, stopping, check>>

\* The running job settles, with an error or without; the next in the chain begins.
JobEnds ==
    /\ chain # << >>
    /\ chain' = Tail(chain)
    /\ UNCHANGED <<pc, lock, timers, fires, turn, listening, shutdowns, signals, stopping, check>>

\* The worker's tick evaluates the gates one after the other, each awaited: the first that
\* refuses ends it, and when all pass a task starts.
TickBegins ==
    /\ Running
    /\ "worker" \in timers
    /\ check = 0
    /\ ~turn
    /\ check' = 1
    /\ UNCHANGED <<pc, lock, timers, chain, fires, turn, listening, shutdowns, signals, stopping>>

\* The gates index.ts adds.
GatePasses(g) ==
    CASE g = "lock" -> lock
      [] g = "not_shutting_down" -> ~stopping
      [] OTHER -> TRUE

EvaluateGate ==
    /\ check > 0
    /\ IF ~GatePasses(Gates[check]) THEN check' = 0 /\ UNCHANGED turn
       ELSE IF check < Len(Gates) THEN check' = check + 1 /\ UNCHANGED turn
       ELSE check' = 0 /\ turn' = TRUE
    /\ UNCHANGED <<pc, lock, timers, chain, fires, listening, shutdowns, signals, stopping>>

\* A message of a user.
MessageArrives ==
    /\ listening
    /\ ~turn
    /\ turn' = TRUE
    /\ UNCHANGED <<pc, lock, timers, chain, fires, listening, shutdowns, signals, stopping, check>>

TurnEnds ==
    /\ turn
    /\ turn' = FALSE
    /\ UNCHANGED <<pc, lock, timers, chain, fires, listening, shutdowns, signals, stopping, check>>

\* SIGINT or SIGTERM: shutdown up to its first await, hooks.emit.  Before main has finished the
\* default action ends the process, and the lock file stays for the next start to judge.
Signal ==
    /\ signals < MaxSignals
    /\ signals' = signals + 1
    /\ \/ /\ pc = "ready"
          /\ shutdowns' = Append(shutdowns, "hooks")
          /\ UNCHANGED <<pc, lock, timers, chain, fires, turn, listening, stopping, check>>
       \/ /\ pc = "connecting"
          /\ pc' = "gone"
          /\ timers' = {}
          /\ chain' = << >>
          /\ turn' = FALSE
          /\ check' = 0
          /\ UNCHANGED <<lock, fires, listening, shutdowns, stopping>>

\* The hooks are done: everything with a timer stops, sessions are dropped, Discord disconnects.
StopAll(i) ==
    /\ shutdowns[i] = "hooks"
    /\ shutdowns' = [shutdowns EXCEPT ![i] = "disconnect"]
    /\ stopping' = TRUE
    /\ timers' = {}
    /\ UNCHANGED <<pc, lock, chain, fires, turn, listening, signals, check>>

\* The client is destroyed; then the OCR workers are terminated.
Disconnected(i) ==
    /\ shutdowns[i] = "disconnect"
    /\ shutdowns' = [shutdowns EXCEPT ![i] = "workers"]
    /\ listening' = FALSE
    /\ UNCHANGED <<pc, lock, timers, chain, fires, turn, signals, stopping, check>>

\* A shutdown that gives the lock back before it awaits the rest.
Release_Early(i) ==
    /\ shutdowns[i] = "disconnect"
    /\ lock
    /\ lock' = FALSE
    /\ UNCHANGED <<pc, timers, chain, fires, turn, listening, shutdowns, signals, stopping, check>>

\* releaseLock and process.exit(0), with no await in between.
Release(i) ==
    /\ shutdowns[i] = "workers"
    /\ Gone

DaemonNext ==
    \/ \E enabled \in BOOLEAN : Boot(enabled)
    \/ Refuse \/ Connected \/ LoginFails
    \/ \E j \in Jobs : JobFires(j)
    \/ JobEnds \/ TickBegins \/ EvaluateGate \/ MessageArrives \/ TurnEnds \/ Signal
    \/ \E i \in DOMAIN shutdowns : StopAll(i) \/ Disconnected(i) \/ Release(i)

DaemonSpec == DaemonInit /\ [][DaemonNext]_daemonVars

-----------------------------------------------------------------------------
\* While anything of this process can still work, a timer, a job, a turn, a listener or a check of
\* the gates, the lock is held: whatever awaits the shutdowns of an impatient user are in, another
\* process never works beside this one.
LockCoversWork ==
    timers # {} \/ chain # << >> \/ turn \/ listening \/ check > 0 => lock
=============================================================================
