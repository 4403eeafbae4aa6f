---------------------------- MODULE Coordinator ----------------------------
(***************************************************************************)
(* agents/coordinator.ts and agents/sub-agent.ts: a task goes through four *)
(* phases, each run by a fresh agent that gets the results of earlier ones *)
(* in its prompt; a phase is retried, and abort() kills the agent at work. *)
(* An agent is an API executor of its own, which retries by itself.  The   *)
(* commands /agent coordinate and /agent spawn of handlers/                *)
(* command-handler.ts each make a coordinator: Coordinate stands for the   *)
(* first, the members of Spawns for the others.                            *)
(*                                                                         *)
(* Nothing in the program sends mailbox messages or calls abort(): abort   *)
(* is modelled as the interface it is, the messages are left out.          *)
(***************************************************************************)
EXTENDS Naturals, Sequences, FiniteSets

CONSTANTS Spawns,            \* /agent spawn commands
          MaxPhaseRetries,   \* maxRetries of the coordinator
          MaxAgentTries      \* attempts of one execution, withRetry in the executor

VARIABLES currentPhase, step, attempt, prompt, phaseResults, aborted,
          agents,     \* the agents at work and what each is doing (_activeAgents)
          known,      \* mailbox.knownAgents
          outcome,    \* what execute() returned
          command,    \* how far each /agent command is
          listed      \* activeCoordinators of the command handler

coordinatorVars == <<currentPhase, step, attempt, prompt, phaseResults, aborted, agents, known, outcome, command, listed>>

Coordinate == "coordinate"
Commands == {Coordinate} \cup Spawns
Phases == <<"research", "synthesis", "implementation", "verification">>
PhaseNames == {Phases[i] : i \in DOMAIN Phases}

ASSUME CoordinatorAssumption ==
    /\ MaxPhaseRetries \in Nat /\ MaxAgentTries \in Nat \ {0}
    /\ Spawns \cap (PhaseNames \cup {Coordinate}) = {}

(* what the prompt of a phase carries besides the task *)
Carries == [research |-> {}, synthesis |-> {"research"}, implementation |-> {"synthesis"},
            verification |-> {"synthesis", "implementation"}]

(* the agent of a phase is named after it, the one of /agent spawn after its command *)
Agent == [running |-> TRUE, doing |-> "attempt", aborted |-> FALSE, tries |-> 1]

CoordinatorInit ==
    /\ currentPhase = "idle" /\ step = 0 /\ attempt = 0 /\ aborted = FALSE
    /\ prompt = [carries |-> {}, failures |-> 0]
    /\ phaseResults = <<>>
    /\ agents = [a \in {} |-> Agent]
    /\ known = {}
    /\ outcome = "none"
    /\ command = [c \in Commands |-> "new"]
    /\ listed = {}

pipeline == <<currentPhase, step, attempt, prompt, phaseResults, aborted, outcome>>
-----------------------------------------------------------------------------
(* Sub-agents *)

Enlist(a) ==
    /\ agents' = [x \in DOMAIN agents \cup {a} |-> IF x = a THEN Agent ELSE agents[x]]
    /\ known' = known \cup {a}

Dismiss(a) ==
    /\ agents' = [x \in DOMAIN agents \ {a} |-> agents[x]]
    /\ known' = known \ {a}

(* kill() aborts the attempt under way, if there is one, and forgets that the agent runs *)
Killed(agent) == [agent EXCEPT !.running = FALSE, !.aborted = @ \/ agent.doing = "attempt"]

(* the attempt fails, by itself or as "Request aborted", an unknown error like
   others: it is tried again after a pause *)
Retries(a) ==
    /\ a \in DOMAIN agents /\ agents[a].doing = "attempt" /\ agents[a].tries < MaxAgentTries
    /\ agents' = [agents EXCEPT ![a].doing = "backoff"]
    /\ UNCHANGED <<pipeline, known, command, listed>>

(* a new attempt has a controller of its own *)
TriesAgain(a) ==
    /\ a \in DOMAIN agents /\ agents[a].doing = "backoff"
    /\ agents' = [agents EXCEPT ![a].doing = "attempt", ![a].aborted = FALSE, ![a].tries = @ + 1]
    /\ UNCHANGED <<pipeline, known, command, listed>>
-----------------------------------------------------------------------------
(* The pipeline *)

Finish(success) ==
    /\ outcome' = IF success THEN "success" ELSE "failure"
    /\ command' = [command EXCEPT ![Coordinate] = "done"]
    /\ listed' = listed \ {Coordinate}

(* runPhase, up to the run of its agent *)
RunPhase(i, failures) ==
    /\ step' = i
    /\ attempt' = failures
    /\ currentPhase' = Phases[i]
    /\ prompt' = [carries |-> Carries[Phases[i]], failures |-> failures]

(* Mutant: the abort is looked at after a phase but not between its attempts. *)
MayRetry_Always == attempt < MaxPhaseRetries

(* another attempt at the phase: not after the last one, and not after an abort *)
MayRetry == attempt < MaxPhaseRetries /\ ~aborted

(* execute, with the synchronous start of the first phase *)
Execute ==
    /\ command[Coordinate] = "announced"
    /\ command' = [command EXCEPT ![Coordinate] = "running"]
    /\ aborted' = FALSE
    /\ phaseResults' = <<>>
    /\ RunPhase(1, 0)
    /\ Enlist(Phases[1])
    /\ UNCHANGED <<outcome, listed>>

(* the agent of the phase is done: its result is kept; the phase is tried again,
   the next one starts, or the pipeline ends *)
PhaseEnds(ok) ==
    LET name == Phases[step]
        others == [x \in DOMAIN agents \ {name} |-> agents[x]] IN
    /\ command[Coordinate] = "running"
    /\ name \in DOMAIN agents /\ agents[name].doing = "attempt"
    /\ phaseResults' = Append(phaseResults, [phase |-> name, ok |-> ok])
    /\ UNCHANGED aborted
    /\ \/ /\ ~ok /\ MayRetry
          /\ RunPhase(step, attempt + 1)
          /\ Enlist(name)
          /\ UNCHANGED <<outcome, command, listed>>
       \/ /\ ok /\ ~aborted /\ step < Len(Phases)
          /\ RunPhase(step + 1, 0)
          /\ agents' = [x \in DOMAIN others \cup {Phases[step + 1]} |-> IF x = Phases[step + 1] THEN Agent ELSE others[x]]
          /\ known' = (known \ {name}) \cup {Phases[step + 1]}
          /\ UNCHANGED <<outcome, command, listed>>
       \/ /\ ok /\ ~aborted /\ step = Len(Phases)
          /\ currentPhase' = "complete"
          /\ Dismiss(name)
          /\ Finish(TRUE)
          /\ UNCHANGED <<step, attempt, prompt>>
       \/ /\ (ok /\ aborted) \/ (~ok /\ ~MayRetry)
          /\ Dismiss(name)
          /\ Finish(FALSE)
          /\ UNCHANGED <<currentPhase, step, attempt, prompt>>

abort ==
    /\ command[Coordinate] = "running" /\ ~aborted
    /\ aborted' = TRUE
    /\ currentPhase' = "failed"
    /\ agents' = [x \in DOMAIN agents |-> IF x \in PhaseNames /\ agents[x].running THEN Killed(agents[x]) ELSE agents[x]]
    /\ UNCHANGED <<step, attempt, prompt, phaseResults, known, outcome, command, listed>>
-----------------------------------------------------------------------------
(* /agent *)

(* the coordinator is listed, and the announcement goes out; when sending it
   fails the command ends there and the coordinator stays listed *)
Announce(c, sent) ==
    /\ command[c] = "new"
    /\ listed' = listed \cup {c}
    /\ command' = [command EXCEPT ![c] = IF sent THEN "announced" ELSE "done"]
    /\ UNCHANGED <<pipeline, agents, known>>

spawnAgent(c) ==
    /\ c \in Spawns /\ command[c] = "announced"
    /\ command' = [command EXCEPT ![c] = "running"]
    /\ Enlist(c)
    /\ UNCHANGED <<pipeline, listed>>

SpawnedEnds(c) ==
    /\ c \in Spawns \cap DOMAIN agents /\ agents[c].doing = "attempt"
    /\ command' = [command EXCEPT ![c] = "done"]
    /\ listed' = listed \ {c}
    /\ Dismiss(c)
    /\ UNCHANGED pipeline

CoordinatorNext ==
    \/ \E c \in Commands, sent \in BOOLEAN : Announce(c, sent)
    \/ Execute
    \/ \E ok \in BOOLEAN : PhaseEnds(ok)
    \/ abort
    \/ \E c \in Spawns : spawnAgent(c) \/ SpawnedEnds(c)
    \/ \E a \in Spawns \cup PhaseNames : Retries(a) \/ TriesAgain(a)

CoordinatorSpec == CoordinatorInit /\ [][CoordinatorNext]_coordinatorVars
-----------------------------------------------------------------------------
Passed(p) == \E r \in DOMAIN phaseResults : phaseResults[r] = [phase |-> p, ok |-> TRUE]

(* agents/coordinator.ts, over execute, the retry loop, abort and the agents:  *)
(* once aborted no agent of a phase counts as running, so none was started     *)
(* since; what the prompt of a phase carries has been produced, with one note  *)
(* per failed attempt; success is reported exactly when every phase has a      *)
(* passing result and no abort came; and when the pipeline has ended no agent  *)
(* of it is at work or known to the mailbox, so none is left to be paid for.   *)
PipelineSound ==
    /\ aborted => \A a \in DOMAIN agents \cap PhaseNames : ~agents[a].running
    /\ step > 0 => /\ \A p \in prompt.carries : Passed(p)
                   /\ outcome = "none" => prompt.failures = Cardinality({r \in DOMAIN phaseResults : phaseResults[r].phase = Phases[step]})
    /\ outcome = "success" => ~aborted /\ \A p \in PhaseNames : Passed(p)
    /\ outcome # "none" => (DOMAIN agents \cup known) \cap PhaseNames = {}
    /\ known = DOMAIN agents
=============================================================================
