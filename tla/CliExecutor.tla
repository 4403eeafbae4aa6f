---------------------------- MODULE CliExecutor ----------------------------
(***************************************************************************)
(* executor/auth-executor.ts: one execution through the Claude CLI.  Each  *)
(* attempt spawns a child process; its output is read line by line, and    *)
(* what it says is kept in fields of the executor that the attempts of     *)
(* withRetry share, while the callbacks of each belong to its own process. *)
(***************************************************************************)
EXTENDS Naturals, FiniteSets

CONSTANTS
    MaxRetries,  \* retries of withRetry (2)
    MaxOutput    \* bound: lines of one process

ASSUME CliAssumption == MaxRetries \in Nat /\ MaxOutput \in Nat

VARIABLES
    launch,   \* attempts begun
    outcome,   \* of the current attempt: "running", "resolved", "rejected", "retry" (backoff)
    child,     \* per attempt: [pc, lines, partial, term]: state of its process, lines printed,
               \* a last line without its end, told to stop
    process,   \* this.process: the attempt whose process it is, 0 when null
    killed,    \* this.process.killed
    watchdog,  \* the attempt whose idle watchdog is armed, 0 when none
    deadlines, \* attempts whose timeout is armed
    printed,   \* accumulatedText: the attempts whose text it holds
    result,    \* lastResultEvent: [of, error], of = 0 when null
    answer,    \* what execute resolved or rejected with: [kind, of]
    killers    \* SIGKILL timers that run

cliVars == <<launch, outcome, child, process, killed, watchdog, deadlines, printed, result, answer, killers>>

Attempts == 1..(MaxRetries + 1)
NoChild == [pc |-> "none", lines |-> 0, partial |-> FALSE, term |-> FALSE]
NoAnswer == [kind |-> "none", of |-> 0]

CliInit ==
    /\ launch = 0
    /\ outcome = "retry"
    /\ child = [a \in Attempts |-> NoChild]
    /\ process = 0
    /\ killed = FALSE
    /\ watchdog = 0
    /\ deadlines = {}
    /\ printed = {}
    /\ result = [of |-> 0, error |-> FALSE]
    /\ answer = NoAnswer
    /\ killers = 0

\* _executeOnce: spawn, the timeout, the watchdog; the buffer is emptied, the rest is kept.
Spawn ==
    /\ outcome = "retry"
    /\ launch < MaxRetries + 1
    /\ LET a == launch + 1
       IN  /\ launch' = a
           /\ child' = [child EXCEPT ![a].pc = "running"]
           /\ process' = a
           /\ killed' = FALSE
           /\ watchdog' = a
           /\ deadlines' = deadlines \cup {a}
    /\ outcome' = "running"
    /\ UNCHANGED <<printed, result, answer, killers>>

\* reject: tried again if the error is a passing one and attempts are left.
Reject(passing, of) ==
    IF outcome # "running" THEN UNCHANGED <<outcome, answer>>
    ELSE IF passing /\ launch < MaxRetries + 1 THEN outcome' = "retry" /\ UNCHANGED answer
    ELSE outcome' = "rejected" /\ answer' = [kind |-> "error", of |-> of]

Resolve(kind, of) ==
    IF outcome # "running" THEN UNCHANGED <<outcome, answer>>
    ELSE outcome' = "resolved" /\ answer' = [kind |-> kind, of |-> of]

\* A line of output: text, or the result event; any data arms the watchdog again.
Prints(a) ==
    /\ child[a].pc = "running"
    /\ child[a].lines < MaxOutput
    /\ ~child[a].partial
    /\ watchdog' = a
    /\ child' = [child EXCEPT ![a].lines = @ + 1]
    /\ \/ printed' = printed \cup {a} /\ UNCHANGED result
       \/ \E error \in BOOLEAN : result' = [of |-> a, error |-> error] /\ UNCHANGED printed
    /\ UNCHANGED <<launch, outcome, process, killed, deadlines, answer, killers>>

\* The result event without the end of its line: it stays in the buffer.
PrintsPart(a) ==
    /\ child[a].pc = "running"
    /\ child[a].lines < MaxOutput
    /\ ~child[a].partial
    /\ watchdog' = a
    /\ child' = [child EXCEPT ![a].lines = @ + 1, ![a].partial = TRUE]
    /\ UNCHANGED <<launch, outcome, process, killed, deadlines, printed, result, answer, killers>>

\* kill(): SIGTERM to the process in the field, which is marked as killed by that.
Kill ==
    /\ IF process # 0 /\ ~killed
       THEN /\ killed' = TRUE
            /\ killers' = killers + 1
            /\ child' = [child EXCEPT ![process].term = TRUE]
       ELSE UNCHANGED <<killed, killers, child>>
    /\ watchdog' = 0

\* The timeout without the kill.
TimesOut_Lets(a) ==
    /\ a \in deadlines /\ deadlines' = deadlines \ {a}
    /\ child[a].pc = "running"
    /\ Reject(FALSE, a)
    /\ UNCHANGED <<launch, process, killed, killers, child, watchdog, printed, result>>

\* The timeout of an attempt, or the watchdog: neither is tried again.
TimesOut(a) ==
    /\ \/ a \in deadlines /\ deadlines' = deadlines \ {a}
       \/ a = watchdog /\ UNCHANGED deadlines
    /\ child[a].pc = "running"
    /\ Kill
    /\ Reject(FALSE, a)
    /\ UNCHANGED <<launch, process, printed, result>>

\* interrupt() of the session.
Interrupted ==
    /\ process # 0
    /\ Kill
    /\ UNCHANGED <<launch, outcome, process, deadlines, printed, result, answer>>

\* Five seconds after SIGTERM: SIGKILL to the process in the field, if it is not marked as killed,
\* which the one that got the SIGTERM always is.
ForceKill ==
    /\ killers > 0
    /\ killers' = killers - 1
    /\ IF process # 0 /\ ~killed
       THEN killed' = TRUE /\ child' = [child EXCEPT ![process].term = TRUE]
       ELSE UNCHANGED <<killed, child>>
    /\ UNCHANGED <<launch, outcome, process, watchdog, deadlines, printed, result, answer>>

\* 'close': the process is gone, with code 0 or another; one that was told to stop never with 0.
Closes(a) ==
    /\ child[a].pc \in {"running", "unspawned"}
    /\ child' = [child EXCEPT ![a].pc = "closed"]
    /\ deadlines' = deadlines \ {a}
    /\ watchdog' = 0
    /\ process' = 0
    /\ \E failed, passing \in BOOLEAN :
         /\ child[a].term \/ child[a].pc = "unspawned" => failed
         /\ IF result.of # 0
            THEN IF result.error THEN Reject(passing, result.of) ELSE Resolve("result", result.of)
            ELSE IF failed THEN Reject(passing, a)
            ELSE Resolve("text", a)
    /\ UNCHANGED <<launch, killed, printed, result, killers>>

\* 'error': the process could not be spawned; 'close' follows.
SpawnFails(a) ==
    /\ child[a].pc = "running"
    /\ child[a].lines = 0
    /\ child' = [child EXCEPT ![a].pc = "unspawned"]
    /\ deadlines' = deadlines \ {a}
    /\ watchdog' = 0
    /\ Reject(FALSE, a)
    /\ UNCHANGED <<launch, process, killed, printed, result, killers>>

CliNext ==
    \/ Spawn \/ Interrupted \/ ForceKill
    \/ \E a \in Attempts : Prints(a) \/ PrintsPart(a) \/ TimesOut(a) \/ Closes(a) \/ SpawnFails(a)

CliSpec == CliInit /\ [][CliNext]_cliVars

-----------------------------------------------------------------------------
\* Whatever times out, fails or is interrupted, a process that runs is the one in the field, where
\* kill finds it, and once execute has settled it was told to stop (auth-executor.ts:79, 88, 98).
NoOrphan ==
    \A a \in Attempts : child[a].pc = "running" =>
        /\ a = launch /\ process = a
        /\ outcome # "running" => child[a].term
=============================================================================
