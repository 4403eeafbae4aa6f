--------------------------- MODULE ToolProofs ---------------------------
(***************************************************************************)
(* Proofs about agents and tools: Coordinator.tla, for any retries and any *)
(* spawned agents, FileTools.tla, for any updates, texts and times,        *)
(* Checkpoint.tla, for any number of checkpoints and any names of files,   *)
(* Ocr.tla, for any posts, images and workers, and Monitoring.tla, for any *)
(* threshold, window, length of a day and number of events.                *)
(***************************************************************************)
EXTENDS Coordinator, FileTools, Checkpoint, Ocr, Monitoring, SequenceLemmas

(* Coordinator.tla *)

Result == [phase: PhaseNames, ok: BOOLEAN]
AgentRecord == [running: BOOLEAN, doing: {"attempt", "backoff"}, aborted: BOOLEAN, tries: Nat]

CoordinatorTypes ==
    /\ step \in 0..4 /\ attempt \in Nat /\ aborted \in BOOLEAN
    /\ phaseResults \in Seq(Result)
    /\ agents \in [DOMAIN agents -> AgentRecord]
    /\ DOMAIN agents \subseteq Spawns \cup PhaseNames
    /\ known = DOMAIN agents
    /\ command \in [Commands -> {"new", "announced", "running", "done"}]
    /\ outcome \in {"none", "success", "failure"}

(* The results a phase has so far. *)
Of(p) == {r \in DOMAIN phaseResults : phaseResults[r].phase = p}

(* The pipeline has at most one agent, that of the phase it is in, and     *)
(* after an abort that one does not count as running.                      *)
OnePhaseAgent ==
    /\ DOMAIN agents \cap PhaseNames = IF command[Coordinate] = "running" THEN {Phases[step]} ELSE {}
    /\ aborted => \A a \in DOMAIN agents \cap PhaseNames : ~agents[a].running

(* A phase that runs follows phases that passed, is the first of those     *)
(* that have no result yet, and has one result for every failed attempt.   *)
InPhase ==
    command[Coordinate] = "running" =>
        /\ step \in 1..4 /\ outcome = "none"
        /\ prompt = [carries |-> Carries[Phases[step]], failures |-> attempt]
        /\ Cardinality(Of(Phases[step])) = attempt
        /\ \A j \in 1..4 : j > step => Of(Phases[j]) = {}
        /\ \A j \in 1..4 : j < step => Passed(Phases[j])

(* Outside of a phase it has not begun, or it has an outcome. *)
OutsidePhase ==
    /\ command[Coordinate] \in {"new", "announced"} => outcome = "none"
    /\ command[Coordinate] # "running" /\ outcome = "none" => step = 0
    /\ step > 0 => \A p \in prompt.carries : Passed(p)
    /\ outcome = "success" => ~aborted /\ \A p \in PhaseNames : Passed(p)

CoordinatorInv == CoordinatorTypes /\ OnePhaseAgent /\ InPhase /\ OutsidePhase

(* The phases are four, and a prompt only carries what earlier ones made. *)
LEMMA PhaseFacts ==
    /\ \A i \in 1..4 : Phases[i] \in PhaseNames
    /\ \A p \in PhaseNames : \E i \in 1..4 : p = Phases[i]
    /\ \A i, j \in 1..4 : Phases[i] = Phases[j] => i = j
    /\ Len(Phases) = 4
<1>1. Phases = <<"research", "synthesis", "implementation", "verification">>
  BY DEF Phases
<1>2. DOMAIN Phases = 1..4 /\ Len(Phases) = 4
  BY <1>1
<1>3. PhaseNames = {Phases[i] : i \in 1..4}
  BY <1>2 DEF PhaseNames
<1>4. \A i, j \in 1..4 : Phases[i] = Phases[j] => i = j
  BY <1>1
<1> QED BY <1>2, <1>3, <1>4

LEMMA CarriedEarlier ==
    ASSUME NEW i \in 1..4, NEW p \in Carries[Phases[i]]
    PROVE  \E j \in 1..4 : j < i /\ p = Phases[j]
<1>1. /\ Phases[1] = "research" /\ Phases[2] = "synthesis"
      /\ Phases[3] = "implementation" /\ Phases[4] = "verification"
  BY DEF Phases
<1>2. CASE i = 1
  <2>1. Carries[Phases[i]] = {}
    BY <1>1, <1>2 DEF Carries
  <2> QED BY <2>1
<1>3. CASE i = 2
  <2>1. Carries[Phases[i]] = {Phases[1]}
    BY <1>1, <1>3 DEF Carries
  <2> QED BY <1>3, <2>1
<1>4. CASE i = 3
  <2>1. Carries[Phases[i]] = {Phases[2]}
    BY <1>1, <1>4 DEF Carries
  <2> QED BY <1>4, <2>1
<1>5. CASE i = 4
  <2>1. Carries[Phases[i]] = {Phases[2], Phases[3]}
    BY <1>1, <1>5 DEF Carries
  <2> QED BY <1>5, <2>1
<1> QED BY <1>2, <1>3, <1>4, <1>5

(* One more result: of its own phase one more, of others as many, and what *)
(* had passed still has.                                                   *)
LEMMA OneMoreResult ==
    ASSUME phaseResults \in Seq(Result), NEW name \in PhaseNames, NEW ok \in BOOLEAN,
           phaseResults' = Append(phaseResults, [phase |-> name, ok |-> ok])
    PROVE  /\ phaseResults' \in Seq(Result)
           /\ Cardinality(Of(name)) \in Nat
           /\ Cardinality(Of(name)') = Cardinality(Of(name)) + 1
           /\ \A p \in PhaseNames : p # name => Of(p)' = Of(p)
           /\ \A p \in PhaseNames : Passed(p) => Passed(p)'
           /\ ok => Passed(name)'
<1> DEFINE new == Len(phaseResults) + 1
<1>1. phaseResults' \in Seq(Result)
  BY DEF Result
<1>2. /\ DOMAIN phaseResults = 1..Len(phaseResults) /\ Len(phaseResults) \in Nat
      /\ DOMAIN phaseResults' = 1..new
      /\ \A r \in DOMAIN phaseResults : r \in DOMAIN phaseResults' /\ phaseResults'[r] = phaseResults[r]
      /\ phaseResults'[new] = [phase |-> name, ok |-> ok]
  OBVIOUS
<1>3. Of(name)' = Of(name) \cup {new} /\ new \notin Of(name)
  BY <1>2 DEF Of
<1>4. IsFiniteSet(1..Len(phaseResults)) /\ Of(name) \subseteq 1..Len(phaseResults)
  BY <1>2, FS_Interval DEF Of
<1>5. IsFiniteSet(Of(name))
  BY <1>4, FS_Subset
<1>6. Cardinality(Of(name)) \in Nat
  BY <1>5, FS_CardinalityType
<1>7. Cardinality(Of(name)') = Cardinality(Of(name)) + 1
  BY <1>3, <1>5, FS_AddElement
<1>8. ASSUME NEW p \in PhaseNames, p # name PROVE Of(p)' = Of(p)
  BY <1>2, <1>8 DEF Of
<1>9. ASSUME NEW p \in PhaseNames, Passed(p) PROVE Passed(p)'
  BY <1>2, <1>9 DEF Passed
<1>10. ASSUME ok PROVE Passed(name)'
  BY <1>2, <1>10 DEF Passed
<1> QED BY <1>1, <1>6, <1>7, <1>8, <1>9, <1>10

LEMMA CoordinatorInitInv == CoordinatorInit => CoordinatorInv
<1> SUFFICES ASSUME CoordinatorInit PROVE CoordinatorInv
  OBVIOUS
<1>1. DOMAIN agents = {} /\ agents \in [DOMAIN agents -> AgentRecord] /\ phaseResults \in Seq(Result)
  BY DEF CoordinatorInit
<1>2. command[Coordinate] = "new"
  BY DEF CoordinatorInit, Commands
<1>3. /\ step = 0 /\ attempt = 0 /\ ~aborted /\ aborted \in BOOLEAN /\ known = {} /\ outcome = "none"
      /\ command \in [Commands -> {"new", "announced", "running", "done"}]
  BY ZenonT(20) DEF CoordinatorInit
<1>4. CoordinatorTypes
  BY <1>1, <1>3 DEF CoordinatorTypes
<1> QED
  BY <1>1, <1>2, <1>3, <1>4 DEF CoordinatorInv, OnePhaseAgent, InPhase, OutsidePhase

(* Agents that come and go. *)
LEMMA AgentTyped == Agent \in AgentRecord
  BY DEF Agent, AgentRecord

LEMMA EnlistTyped ==
    ASSUME CoordinatorTypes, NEW a \in Spawns \cup PhaseNames, Enlist(a)
    PROVE  /\ DOMAIN agents' = DOMAIN agents \cup {a} /\ known' = DOMAIN agents'
           /\ agents' \in [DOMAIN agents' -> AgentRecord]
           /\ DOMAIN agents' \subseteq Spawns \cup PhaseNames
           /\ \A x \in DOMAIN agents : x # a => agents'[x] = agents[x]
  BY AgentTyped DEF Enlist, CoordinatorTypes

LEMMA DismissTyped ==
    ASSUME CoordinatorTypes, NEW a, Dismiss(a)
    PROVE  /\ DOMAIN agents' = DOMAIN agents \ {a} /\ known' = DOMAIN agents'
           /\ agents' \in [DOMAIN agents' -> AgentRecord]
           /\ DOMAIN agents' \subseteq Spawns \cup PhaseNames
           /\ \A x \in DOMAIN agents' : agents'[x] = agents[x]
  BY DEF Dismiss, CoordinatorTypes

(* A step that leaves the pipeline and its agent's standing alone. *)
LEMMA PipelineKept ==
    ASSUME CoordinatorInv, UNCHANGED pipeline, CoordinatorTypes',
           command'[Coordinate] = command[Coordinate],
           DOMAIN agents' \cap PhaseNames = DOMAIN agents \cap PhaseNames,
           \A a \in DOMAIN agents' \cap PhaseNames : agents'[a].running = agents[a].running
    PROVE  CoordinatorInv'
<1>1. OnePhaseAgent'
  BY DEF CoordinatorInv, OnePhaseAgent, pipeline
<1>2. InPhase'
  BY DEF CoordinatorInv, InPhase, Of, Passed, pipeline
<1>3. OutsidePhase'
  BY DEF CoordinatorInv, OutsidePhase, Passed, pipeline
<1> QED BY <1>1, <1>2, <1>3 DEF CoordinatorInv

(* The commands of /agent spawn and the attempts of an agent. *)
LEMMA OtherStep ==
    ASSUME CoordinatorInv
    PROVE  /\ \A c \in Commands, sent \in BOOLEAN : Announce(c, sent) => CoordinatorInv'
           /\ \A c \in Spawns : spawnAgent(c) \/ SpawnedEnds(c) => CoordinatorInv'
           /\ \A a \in Spawns \cup PhaseNames : Retries(a) \/ TriesAgain(a) => CoordinatorInv'
<1>0. /\ Coordinate \notin Spawns /\ Spawns \cap PhaseNames = {} /\ Coordinate \in Commands
      /\ Spawns \subseteq Commands
  BY CoordinatorAssumption DEF Commands
<1>1. ASSUME NEW c \in Commands, NEW sent \in BOOLEAN, Announce(c, sent) PROVE CoordinatorInv'
  <2>1. CoordinatorTypes'
    BY <1>1 DEF Announce, pipeline, CoordinatorInv, CoordinatorTypes
  <2>2. CASE c # Coordinate
    <3>1. command'[Coordinate] = command[Coordinate]
      BY <1>0, <1>1, <2>2 DEF Announce, CoordinatorInv, CoordinatorTypes
    <3> QED BY <1>1, <2>1, <3>1, PipelineKept DEF Announce
  <2>3. CASE c = Coordinate
    <3>1. command[Coordinate] = "new" /\ command'[Coordinate] \in {"announced", "done"}
          /\ UNCHANGED <<pipeline, agents, known>>
      BY <1>0, <1>1, <2>3 DEF Announce, CoordinatorInv, CoordinatorTypes
    <3>2. outcome = "none" /\ step = 0
      BY <3>1 DEF CoordinatorInv, OutsidePhase
    <3> QED BY <2>1, <3>1, <3>2
            DEF CoordinatorInv, OnePhaseAgent, InPhase, OutsidePhase, pipeline, Passed
  <2> QED BY <2>2, <2>3
<1>2. ASSUME NEW c \in Spawns, spawnAgent(c) PROVE CoordinatorInv'
  <2>1. Enlist(c) /\ UNCHANGED pipeline /\ command' = [command EXCEPT ![c] = "running"]
    BY <1>2 DEF spawnAgent
  <2>2. CoordinatorTypes'
    BY <1>0, <2>1, EnlistTyped DEF CoordinatorInv, CoordinatorTypes, pipeline
  <2>3. command'[Coordinate] = command[Coordinate]
    BY <1>0, <2>1 DEF CoordinatorInv, CoordinatorTypes
  <2>4. /\ DOMAIN agents' = DOMAIN agents \cup {c}
        /\ \A x \in DOMAIN agents : x # c => agents'[x] = agents[x]
    BY <2>1, EnlistTyped DEF CoordinatorInv
  <2> QED BY <1>0, <2>1, <2>2, <2>3, <2>4, PipelineKept
<1>3. ASSUME NEW c \in Spawns, SpawnedEnds(c) PROVE CoordinatorInv'
  <2>1. Dismiss(c) /\ UNCHANGED pipeline /\ command' = [command EXCEPT ![c] = "done"]
    BY <1>3 DEF SpawnedEnds
  <2>2. CoordinatorTypes'
    BY <1>0, <2>1, DismissTyped DEF CoordinatorInv, CoordinatorTypes, pipeline
  <2>3. command'[Coordinate] = command[Coordinate]
    BY <1>0, <2>1 DEF CoordinatorInv, CoordinatorTypes
  <2>4. /\ DOMAIN agents' = DOMAIN agents \ {c}
        /\ \A x \in DOMAIN agents' : agents'[x] = agents[x]
    BY <2>1, DismissTyped DEF CoordinatorInv
  <2> QED BY <1>0, <2>1, <2>2, <2>3, <2>4, PipelineKept
<1>4. ASSUME NEW a \in Spawns \cup PhaseNames, Retries(a) \/ TriesAgain(a) PROVE CoordinatorInv'
  <2>1. /\ a \in DOMAIN agents /\ UNCHANGED <<pipeline, known, command>>
        /\ \/ agents' = [agents EXCEPT ![a].doing = "backoff"]
           \/ agents' = [agents EXCEPT ![a].doing = "attempt", ![a].aborted = FALSE, ![a].tries = @ + 1]
    BY <1>4 DEF Retries, TriesAgain
  <2>2. agents \in [DOMAIN agents -> AgentRecord]
    BY DEF CoordinatorInv, CoordinatorTypes
  <2>3. DOMAIN agents' = DOMAIN agents
    BY <2>1
  <2>4. \A x \in DOMAIN agents : agents'[x].running = agents[x].running
    BY <2>1, <2>2 DEF AgentRecord
  <2>5. agents' \in [DOMAIN agents' -> AgentRecord]
    BY <2>1, <2>2 DEF AgentRecord
  <2>6. CoordinatorTypes'
    BY <2>1, <2>3, <2>5 DEF CoordinatorInv, CoordinatorTypes, pipeline
  <2> QED BY <2>1, <2>3, <2>4, <2>6, PipelineKept
<1> QED BY <1>1, <1>2, <1>3, <1>4

(* The pipeline begins with its first phase and no result. *)
LEMMA ExecuteStep == CoordinatorInv /\ Execute => CoordinatorInv'
<1> SUFFICES ASSUME CoordinatorInv, Execute PROVE CoordinatorInv'
  OBVIOUS
<1>0. Coordinate \in Commands /\ Phases[1] \in PhaseNames /\ 1 \in 1..4
  BY PhaseFacts DEF Commands
<1>1. /\ command[Coordinate] = "announced" /\ command' = [command EXCEPT ![Coordinate] = "running"]
      /\ aborted' = FALSE /\ phaseResults' = << >> /\ outcome' = outcome
      /\ step' = 1 /\ attempt' = 0 /\ prompt' = [carries |-> Carries[Phases[1]], failures |-> 0]
      /\ Enlist(Phases[1])
  BY DEF Execute, RunPhase
<1>2. command'[Coordinate] = "running"
  BY <1>0, <1>1 DEF CoordinatorInv, CoordinatorTypes
<1>3. outcome = "none" /\ DOMAIN agents \cap PhaseNames = {}
  BY <1>1 DEF CoordinatorInv, OutsidePhase, OnePhaseAgent
<1>4. CoordinatorTypes'
  <2>1. CoordinatorTypes
    BY DEF CoordinatorInv
  <2>2. /\ agents' \in [DOMAIN agents' -> AgentRecord] /\ known' = DOMAIN agents'
        /\ DOMAIN agents' \subseteq Spawns \cup PhaseNames
    BY <1>0, <1>1, <2>1, EnlistTyped
  <2>3. command' \in [Commands -> {"new", "announced", "running", "done"}]
    BY <1>1, <2>1 DEF CoordinatorTypes
  <2>4. phaseResults' \in Seq(Result)
    BY <1>1
  <2>5. step' \in 0..4 /\ attempt' \in Nat /\ outcome' \in {"none", "success", "failure"}
    BY <1>1, <2>1 DEF CoordinatorTypes
  <2>6. aborted' \in BOOLEAN
    BY <1>1, Zenon
  <2> QED BY <2>2, <2>3, <2>4, <2>5, <2>6 DEF CoordinatorTypes
<1>5. DOMAIN agents' = DOMAIN agents \cup {Phases[1]}
  BY <1>0, <1>1, EnlistTyped DEF CoordinatorInv
<1>6. OnePhaseAgent'
  BY <1>0, <1>1, <1>2, <1>3, <1>5 DEF OnePhaseAgent
<1>7. \A p \in PhaseNames : Of(p)' = {}
  BY <1>1 DEF Of
<1>8. InPhase'
  <2>1. Cardinality(Of(Phases[1])') = 0
    BY <1>0, <1>7, FS_EmptySet
  <2>2. \A j \in 1..4 : Of(Phases[j])' = {}
    BY <1>7, PhaseFacts
  <2>3. step' = 1 /\ outcome' = "none" /\ prompt' = [carries |-> Carries[Phases[step']], failures |-> attempt']
    BY <1>1, <1>3
  <2>4. Cardinality(Of(Phases[step])') = attempt'
    BY <1>1, <2>1, <2>3 DEF Of
  <2> QED BY <2>2, <2>3, <2>4 DEF InPhase, Of
<1>9. OutsidePhase'
  <2>1. \A p \in prompt'.carries : FALSE
    BY <1>0, <1>1, CarriedEarlier
  <2> QED BY <1>1, <1>2, <1>3, <2>1 DEF OutsidePhase
<1> QED BY <1>4, <1>6, <1>8, <1>9 DEF CoordinatorInv

(* A result of the phase at work: the phase again, the next one, or the end. *)
LEMMA PhaseEndsStep ==
    ASSUME CoordinatorInv, NEW ok \in BOOLEAN, PhaseEnds(ok)
    PROVE  CoordinatorInv'
<1>0. Coordinate \in Commands /\ command[Coordinate] = "running" /\ step \in 1..4
  BY DEF PhaseEnds, Commands, CoordinatorInv, InPhase
<1>10. PICK name \in PhaseNames : name = Phases[step]
  BY <1>0, PhaseFacts
<1>1. /\ step \in 1..4 /\ outcome = "none"
      /\ Cardinality(Of(name)) = attempt
      /\ \A j \in 1..4 : j > step => Of(Phases[j]) = {}
      /\ \A j \in 1..4 : j < step => Passed(Phases[j])
      /\ prompt = [carries |-> Carries[name], failures |-> attempt]
      /\ attempt \in Nat
  BY <1>0, <1>10, PhaseFacts DEF CoordinatorInv, InPhase, CoordinatorTypes
<1>2. DOMAIN agents \cap PhaseNames = {name}
  BY <1>0, <1>10 DEF CoordinatorInv, OnePhaseAgent
<1>3. phaseResults' = Append(phaseResults, [phase |-> name, ok |-> ok]) /\ aborted' = aborted
  BY <1>10 DEF PhaseEnds
<1>4. /\ phaseResults' \in Seq(Result)
      /\ Cardinality(Of(name)') = attempt + 1
      /\ \A p \in PhaseNames : p # name => Of(p)' = Of(p)
      /\ \A p \in PhaseNames : Passed(p) => Passed(p)'
      /\ ok => Passed(name)'
  BY <1>1, <1>3, OneMoreResult DEF CoordinatorInv, CoordinatorTypes
<1>5. \A j \in 1..4 : j < step => Passed(Phases[j])'
  BY <1>1, <1>4, PhaseFacts
<1>6. \A j \in 1..4 : j > step => Of(Phases[j])' = {}
  BY <1>1, <1>4, <1>10, PhaseFacts
<1>7. CASE /\ ~ok /\ MayRetry /\ RunPhase(step, attempt + 1) /\ Enlist(name)
           /\ UNCHANGED <<outcome, command>>
  <2>1. /\ step' = step /\ attempt' = attempt + 1 /\ ~aborted
        /\ prompt' = [carries |-> Carries[name], failures |-> attempt + 1]
    BY <1>7, <1>10 DEF RunPhase, MayRetry
  <2>2. DOMAIN agents' = DOMAIN agents \cup {name}
    BY <1>1, <1>7, EnlistTyped DEF CoordinatorInv
  <2>3. CoordinatorTypes'
    <3>1. CoordinatorTypes
      BY DEF CoordinatorInv
    <3>2. /\ agents' \in [DOMAIN agents' -> AgentRecord] /\ known' = DOMAIN agents'
          /\ DOMAIN agents' \subseteq Spawns \cup PhaseNames
      BY <1>1, <1>7, <3>1, EnlistTyped
    <3>3. step' \in 0..4 /\ attempt' \in Nat
      BY <1>1, <2>1
    <3>4. UNCHANGED <<aborted, command, outcome>>
      BY <1>3, <1>7
    <3> QED BY <1>4, <3>1, <3>2, <3>3, <3>4 DEF CoordinatorTypes
  <2>4. OnePhaseAgent'
    BY <1>0, <1>2, <1>3, <1>7, <2>1, <2>2, <1>10 DEF OnePhaseAgent
  <2>5. InPhase'
    <3>1. UNCHANGED <<step, command, outcome>>
      BY <1>7, <2>1
    <3>2. Cardinality(Of(Phases[step])') = attempt'
      BY <1>4, <2>1, <1>10
    <3>3. /\ prompt' = [carries |-> Carries[Phases[step']], failures |-> attempt']
          /\ step' \in 1..4 /\ outcome' = "none"
      BY <1>1, <2>1, <3>1, <1>10
    <3> QED BY <1>5, <1>6, <3>1, <3>2, <3>3 DEF InPhase, Of, Passed
  <2>6. \A p \in prompt'.carries : Passed(p)'
    BY <1>1, <1>5, <2>1, CarriedEarlier, <1>10
  <2>7. OutsidePhase'
    BY <1>0, <1>1, <1>7, <2>6 DEF OutsidePhase
  <2> QED BY <2>3, <2>4, <2>5, <2>7 DEF CoordinatorInv
<1>8. CASE /\ ok /\ ~aborted /\ step < Len(Phases) /\ RunPhase(step + 1, 0)
           /\ agents' = [x \in (DOMAIN agents \ {name}) \cup {Phases[step + 1]} |->
                           IF x = Phases[step + 1] THEN Agent ELSE [y \in DOMAIN agents \ {name} |-> agents[y]][x]]
           /\ known' = (known \ {name}) \cup {Phases[step + 1]}
           /\ UNCHANGED <<outcome, command>>
  <2>2. step + 1 \in 1..4 /\ step + 1 > step
    BY <1>1, <1>8, PhaseFacts
  <2>12. PICK next \in PhaseNames : next = Phases[step + 1]
    BY <2>2, PhaseFacts
  <2>1. /\ step' = step + 1 /\ attempt' = 0
        /\ prompt' = [carries |-> Carries[next], failures |-> 0]
    BY <1>8, <2>12 DEF RunPhase
  <2>3. next # name
    BY <1>1, <1>10, <2>2, <2>12, PhaseFacts
  <2>4. /\ DOMAIN agents' = (DOMAIN agents \ {name}) \cup {next}
        /\ agents' \in [DOMAIN agents' -> AgentRecord]
    BY <1>8, AgentTyped, <2>12 DEF CoordinatorInv, CoordinatorTypes
  <2>5. CoordinatorTypes'
    <3>1. CoordinatorTypes
      BY DEF CoordinatorInv
    <3>2. UNCHANGED <<aborted, command, outcome>>
      BY <1>3, <1>8
    <3>3. known' = DOMAIN agents' /\ DOMAIN agents' \subseteq Spawns \cup PhaseNames
      BY <1>8, <2>2, <2>4, <3>1, <2>12 DEF CoordinatorTypes
    <3>4. step' \in 0..4 /\ attempt' \in Nat
      BY <2>1, <2>2
    <3> QED BY <1>4, <2>4, <3>1, <3>2, <3>3, <3>4 DEF CoordinatorTypes
  <2>6. DOMAIN agents' \cap PhaseNames = {next}
    BY <1>2, <2>2, <2>3, <2>4
  <2>7. OnePhaseAgent'
    BY <1>0, <1>3, <1>8, <2>1, <2>6, <2>12 DEF OnePhaseAgent
  <2>8. ASSUME NEW j \in 1..4, j < step + 1 PROVE Passed(Phases[j])'
    <3>1. CASE j = step
      BY <1>4, <1>8, <3>1, <1>10 DEF Passed
    <3>2. CASE j < step
      BY <1>5, <3>2
    <3> QED BY <1>1, <2>8, <3>1, <3>2
  <2>9. Cardinality({r \in DOMAIN phaseResults' : phaseResults'[r].phase = next}) = 0
    <3>1. step + 1 > step
      BY <1>1
    <3>2. {r \in DOMAIN phaseResults' : phaseResults'[r].phase = next} = {}
      BY <1>6, <2>2, <3>1, <2>12 DEF Of
    <3> QED BY <3>2, FS_EmptySet
  <2>10. InPhase'
    <3>1. UNCHANGED <<command, outcome>>
      BY <1>8
    <3>2. /\ prompt' = [carries |-> Carries[Phases[step']], failures |-> attempt']
          /\ step' \in 1..4 /\ outcome' = "none"
      BY <1>1, <2>1, <2>2, <3>1, <2>12
    <3>3. Cardinality({r \in DOMAIN phaseResults' : phaseResults'[r].phase = Phases[step']}) = attempt'
      BY <2>1, <2>9, <2>12
    <3>4. \A j \in 1..4 : j > step' => Of(Phases[j])' = {}
      BY <1>1, <1>6, <2>1
    <3>5. \A j \in 1..4 : j < step' => Passed(Phases[j])'
      BY <2>1, <2>8
    <3> QED BY <3>2, <3>3, <3>4, <3>5 DEF InPhase, Of
  <2>11. \A p \in prompt'.carries : Passed(p)'
    BY <2>1, <2>2, <2>8, CarriedEarlier, <2>12
  <2>13. OutsidePhase'
    BY <1>0, <1>1, <1>8, <2>11 DEF OutsidePhase
  <2> QED BY <2>5, <2>7, <2>10, <2>13 DEF CoordinatorInv
<1>9. CASE /\ Dismiss(name) /\ UNCHANGED <<step, attempt, prompt>>
           /\ \/ ok /\ ~aborted /\ step = Len(Phases) /\ Finish(TRUE)
              \/ Finish(FALSE)
  <2>1. /\ command' = [command EXCEPT ![Coordinate] = "done"] /\ outcome' \in {"success", "failure"}
    BY <1>9 DEF Finish
  <2>2. command'[Coordinate] = "done"
    BY <1>0, <2>1 DEF CoordinatorInv, CoordinatorTypes
  <2>3. DOMAIN agents' = DOMAIN agents \ {name}
    BY <1>9, DismissTyped DEF CoordinatorInv
  <2>4. CoordinatorTypes'
    <3>1. CoordinatorTypes
      BY DEF CoordinatorInv
    <3>2. /\ agents' \in [DOMAIN agents' -> AgentRecord] /\ known' = DOMAIN agents'
          /\ DOMAIN agents' \subseteq Spawns \cup PhaseNames
      BY <1>9, <3>1, DismissTyped
    <3>3. command' \in [Commands -> {"new", "announced", "running", "done"}]
      BY <2>1, <3>1 DEF CoordinatorTypes
    <3>4. UNCHANGED <<step, attempt, aborted>>
      BY <1>3, <1>9
    <3> QED BY <1>4, <2>1, <3>1, <3>2, <3>3, <3>4 DEF CoordinatorTypes
  <2>5. OnePhaseAgent' /\ InPhase'
    BY <1>2, <2>2, <2>3 DEF OnePhaseAgent, InPhase
  <2>6. \A p \in prompt'.carries : Passed(p)'
    BY <1>1, <1>5, <1>9, CarriedEarlier, <1>10
  <2>7. ASSUME outcome' = "success" PROVE ~aborted' /\ \A p \in PhaseNames : Passed(p)'
    <3>1. ok /\ ~aborted /\ step = 4
      BY <1>9, <2>7, PhaseFacts DEF Finish
    <3>2. ASSUME NEW j \in 1..4 PROVE Passed(Phases[j])'
      <4>1. CASE j = step
        BY <1>4, <3>1, <4>1, <1>10 DEF Passed
      <4>2. CASE j < step
        BY <1>5, <4>2
      <4> QED BY <3>1, <4>1, <4>2
    <3> QED BY <1>3, <3>1, <3>2, PhaseFacts
  <2>8. OutsidePhase'
    BY <2>1, <2>2, <2>6, <2>7 DEF OutsidePhase
  <2> QED BY <2>4, <2>5, <2>8 DEF CoordinatorInv
<1> QED
  BY <1>7, <1>8, <1>9, <1>10 DEF PhaseEnds

LEMMA AbortStep == CoordinatorInv /\ abort => CoordinatorInv'
<1> SUFFICES ASSUME CoordinatorInv, abort PROVE CoordinatorInv'
  OBVIOUS
<1>1. /\ aborted' = TRUE /\ command[Coordinate] = "running"
      /\ agents' = [x \in DOMAIN agents |-> IF x \in PhaseNames /\ agents[x].running THEN Killed(agents[x]) ELSE agents[x]]
      /\ UNCHANGED <<step, attempt, prompt, phaseResults, known, outcome, command>>
  BY DEF abort
<1>2. agents \in [DOMAIN agents -> AgentRecord]
  BY DEF CoordinatorInv, CoordinatorTypes
<1>3. \A x \in DOMAIN agents : Killed(agents[x]) \in AgentRecord /\ ~Killed(agents[x]).running
  BY <1>2 DEF Killed, AgentRecord
<1>4. DOMAIN agents' = DOMAIN agents /\ agents' \in [DOMAIN agents' -> AgentRecord]
  BY <1>1, <1>2, <1>3
<1>5. \A x \in DOMAIN agents' \cap PhaseNames : ~agents'[x].running
  BY <1>1, <1>3
<1>6. CoordinatorTypes'
  BY <1>1, <1>4 DEF CoordinatorInv, CoordinatorTypes
<1>7. OnePhaseAgent'
  BY <1>1, <1>4, <1>5 DEF CoordinatorInv, OnePhaseAgent
<1>8. InPhase'
  BY <1>1 DEF CoordinatorInv, InPhase, Of, Passed
<1>9. outcome = "none"
  BY <1>1 DEF CoordinatorInv, InPhase
<1>10. OutsidePhase'
  BY <1>1, <1>9 DEF CoordinatorInv, OutsidePhase, Passed
<1> QED BY <1>6, <1>7, <1>8, <1>10 DEF CoordinatorInv

LEMMA CoordinatorInvStep == CoordinatorInv /\ [CoordinatorNext]_coordinatorVars => CoordinatorInv'
<1> SUFFICES ASSUME CoordinatorInv, [CoordinatorNext]_coordinatorVars PROVE CoordinatorInv'
  OBVIOUS
<1>1. CASE UNCHANGED coordinatorVars
  BY <1>1 DEF coordinatorVars, CoordinatorInv, CoordinatorTypes, OnePhaseAgent, InPhase, OutsidePhase,
              Of, Passed
<1> QED BY <1>1, OtherStep, ExecuteStep, PhaseEndsStep, AbortStep DEF CoordinatorNext

LEMMA InvGivesSound == CoordinatorInv => PipelineSound
<1> SUFFICES ASSUME CoordinatorInv PROVE PipelineSound
  OBVIOUS
<1>1. aborted => \A a \in DOMAIN agents \cap PhaseNames : ~agents[a].running
  BY DEF CoordinatorInv, OnePhaseAgent
<1>2. ASSUME step > 0, outcome = "none"
      PROVE  prompt.failures = Cardinality({r \in DOMAIN phaseResults : phaseResults[r].phase = Phases[step]})
  <2>1. command[Coordinate] = "running"
    BY <1>2 DEF CoordinatorInv, OutsidePhase, CoordinatorTypes
  <2> QED BY <2>1 DEF CoordinatorInv, InPhase, Of
<1>3. ASSUME outcome # "none" PROVE (DOMAIN agents \cup known) \cap PhaseNames = {}
  <2>1. command[Coordinate] # "running"
    BY <1>3 DEF CoordinatorInv, InPhase
  <2> QED BY <2>1 DEF CoordinatorInv, OnePhaseAgent, CoordinatorTypes
<1> QED BY <1>1, <1>2, <1>3 DEF CoordinatorInv, OutsidePhase, CoordinatorTypes, PipelineSound

(* The pipeline, its agents and the commands keep their types. *)
THEOREM CoordinatorTypeCorrect == CoordinatorSpec => []CoordinatorTypes
<1>1. CoordinatorInv => CoordinatorTypes
  BY DEF CoordinatorInv
<1> QED
  BY <1>1, CoordinatorInitInv, CoordinatorInvStep, PTL DEF CoordinatorSpec

(* No agent of a phase is started after an abort or left at the end, a     *)
(* prompt carries what has been produced, and success means every phase    *)
(* passed (agents/coordinator.ts), for any retries and spawned agents.     *)
THEOREM PipelineSoundCorrect == CoordinatorSpec => []PipelineSound
  BY InvGivesSound, CoordinatorInitInv, CoordinatorInvStep, PTL DEF CoordinatorSpec
-----------------------------------------------------------------------------
(* FileTools.tla *)

FileTypes ==
    /\ file \in [text: Texts \cup {NoText}, mtime: Nat]
    /\ now \in Nat
    /\ fileState \in [text: Texts \cup {NoText}, mtime: Nat, view: Views \cup {"none"}]
    /\ update \in [Updates -> [active: BOOLEAN, base: Texts \cup {NoText}, text: Texts \cup {NoText},
                               replaced: SUBSET (Texts \cup {NoText})]]
    /\ seen \subseteq Texts \cup {NoText}

(* No mtime is from later than now, and what was read or written has been  *)
(* seen.                                                                   *)
StateIsPast ==
    /\ fileState.mtime <= now /\ file.mtime <= now
    /\ fileState.view # "none" => fileState.text \in seen

(* An update that passed its check may end at any time.                    *)
MayReplace(u) == file.text \in seen \cup update[u].replaced \cup {NoText} \/ file.mtime <= fileState.mtime

UpdatesChecked == \A u \in Updates : update[u].active => MayReplace(u)

FileInv == FileTypes /\ StateIsPast /\ UpdatesChecked

LEMMA FileInitInv == FileInit => FileInv
<1> SUFFICES ASSUME FileInit PROVE FileInv
  OBVIOUS
<1>1. update \in [Updates -> [active: BOOLEAN, base: Texts \cup {NoText}, text: Texts \cup {NoText},
                              replaced: SUBSET (Texts \cup {NoText})]]
  BY DEF FileInit, NoUpdate
<1>2. \A u \in Updates : ~update[u].active
  BY DEF FileInit, NoUpdate
<1> QED BY <1>1, <1>2 DEF FileInit, FileInv, FileTypes, StateIsPast, UpdatesChecked, NoState

(* The staleness check: a fresh text has been seen, unless its mtime is no *)
(* later than that of the last read or write.                              *)
LEMMA FreshWasSeen ==
    ASSUME FileInv, checkFileStaleness
    PROVE  file.text \in seen \/ file.mtime <= fileState.mtime
  BY DEF FileInv, FileTypes, StateIsPast, checkFileStaleness, Views

(* A call that begins where it may replace the text. *)
LEMMA StartsStep ==
    ASSUME FileInv, NEW u \in Updates, NEW text \in Texts, Starts(u, text),
           file.text \in seen \cup {NoText} \/ file.mtime <= fileState.mtime
    PROVE  FileInv'
<1> DEFINE r == [active |-> TRUE, base |-> file.text, text |-> text, replaced |-> {}]
<1>1. r \in [active: BOOLEAN, base: Texts \cup {NoText}, text: Texts \cup {NoText},
             replaced: SUBSET (Texts \cup {NoText})]
  BY DEF FileInv, FileTypes
<1>2. update' = [update EXCEPT ![u] = r] /\ UNCHANGED <<file, now, fileState, seen>>
  BY DEF Starts
<1> HIDE DEF r
<1>3. FileTypes'
  BY <1>1, <1>2 DEF FileInv, FileTypes
<1>4. UpdatesChecked'
  BY <1>2 DEF FileInv, FileTypes, UpdatesChecked, MayReplace
<1>5. StateIsPast'
  BY <1>2 DEF FileInv, StateIsPast
<1> QED BY <1>3, <1>4, <1>5 DEF FileInv

LEMMA FileInvStep == FileInv /\ [FileNext]_fileVars => FileInv'
<1> SUFFICES ASSUME FileInv, [FileNext]_fileVars PROVE FileInv'
  OBVIOUS
<1> DEFINE Update == [active: BOOLEAN, base: Texts \cup {NoText}, text: Texts \cup {NoText},
                      replaced: SUBSET (Texts \cup {NoText})]
<1>0. /\ file.text \in Texts \cup {NoText} /\ file.mtime \in Nat /\ now \in Nat
      /\ fileState.mtime \in Nat
      /\ \A u \in Updates : update[u] \in Update
  BY DEF FileInv, FileTypes
<1>1. ASSUME NEW view \in Views, Read(view) PROVE FileInv'
  <2>1. /\ fileState' = [text |-> file.text, mtime |-> file.mtime, view |-> view]
        /\ seen' = seen \cup {file.text} /\ UNCHANGED <<file, now, update>>
    BY <1>1 DEF Read
  <2>2. FileTypes'
    BY <1>0, <2>1 DEF FileInv, FileTypes
  <2>3. StateIsPast'
    BY <1>0, <2>1 DEF FileInv, StateIsPast
  <2>4. UpdatesChecked'
    BY <2>1 DEF UpdatesChecked, MayReplace
  <2> QED BY <2>2, <2>3, <2>4 DEF FileInv
<1>2. ASSUME NEW view \in Views, ReadUnchanged(view) PROVE FileInv'
  BY <1>2 DEF ReadUnchanged, FileInv, FileTypes, StateIsPast, UpdatesChecked, MayReplace
<1>3. ASSUME NEW u \in Updates, NEW text \in Texts, BeginWrite(u, text) \/ BeginEdit(u, text) PROVE FileInv'
  <2>1. file.text \in seen \cup {NoText} \/ file.mtime <= fileState.mtime
    BY <1>3, FreshWasSeen DEF BeginWrite, BeginEdit
  <2>2. Starts(u, text)
    BY <1>3 DEF BeginWrite, BeginEdit
  <2> QED BY <2>1, <2>2, StartsStep
<1>4. ASSUME NEW u \in Updates, EndUpdate(u) PROVE FileInv'
  <2> DEFINE t == update[u].text
  <2>1. t \in Texts \cup {NoText}
    BY <1>0
  <2>2. /\ file' = [text |-> t, mtime |-> now]
        /\ fileState' = [text |-> t, mtime |-> now, view |-> "whole"]
        /\ update' = [v \in Updates |-> IF v = u THEN NoUpdate
                       ELSE IF update[v].active THEN [update[v] EXCEPT !.replaced = @ \cup {t}] ELSE update[v]]
        /\ seen' = seen \cup {t} /\ now' = now
    BY <1>4 DEF EndUpdate
  <2> HIDE DEF t
  <2>3. \A v \in Updates : [update[v] EXCEPT !.replaced = @ \cup {t}] \in Update
    BY <1>0, <2>1
  <2>4. NoUpdate \in Update
    BY DEF NoUpdate
  <2>5. update' \in [Updates -> Update]
    BY <1>0, <2>2, <2>3, <2>4
  <2>6. FileTypes'
    BY <1>0, <2>1, <2>2, <2>5 DEF FileInv, FileTypes, Views
  <2>7. StateIsPast'
    BY <1>0, <2>2 DEF StateIsPast
  <2>8. UpdatesChecked'
    BY <2>2 DEF UpdatesChecked, MayReplace
  <2> QED BY <2>6, <2>7, <2>8 DEF FileInv
<1>5. ASSUME NEW text \in Texts \cup {NoText}, NEW mtime \in 0..now, ChangedOutside(text, mtime)
      PROVE  FileInv'
  <2>1. /\ file' = [text |-> text, mtime |-> mtime] /\ mtime \in Nat /\ mtime <= now
        /\ update' = [v \in Updates |-> IF update[v].active THEN [update[v] EXCEPT !.replaced = @ \cup {text}] ELSE update[v]]
        /\ UNCHANGED <<now, fileState, seen>>
    BY <1>0, <1>5 DEF ChangedOutside
  <2>2. \A v \in Updates : [update[v] EXCEPT !.replaced = @ \cup {text}] \in Update
    BY <1>0
  <2>3. update' \in [Updates -> Update]
    BY <1>0, <2>1, <2>2
  <2>4. FileTypes'
    BY <1>0, <2>1, <2>3 DEF FileInv, FileTypes
  <2>5. StateIsPast'
    BY <1>0, <2>1 DEF FileInv, StateIsPast
  <2>6. ASSUME NEW v \in Updates, update'[v].active PROVE text \in update'[v].replaced
    <3>1. update[v].active
      BY <2>1, <2>6
    <3>2. update'[v] = [update[v] EXCEPT !.replaced = @ \cup {text}]
      BY <2>1, <3>1
    <3> QED BY <1>0, <3>2
  <2>7. UpdatesChecked'
    BY <2>1, <2>6 DEF UpdatesChecked, MayReplace
  <2> QED BY <2>4, <2>5, <2>7 DEF FileInv
<1>6. CASE Tick
  BY <1>0, <1>6 DEF Tick, FileInv, FileTypes, StateIsPast, UpdatesChecked, MayReplace
<1>7. CASE UNCHANGED fileVars
  BY <1>7 DEF fileVars, FileInv, FileTypes, StateIsPast, UpdatesChecked, MayReplace
<1> QED
  BY <1>1, <1>2, <1>3, <1>4, <1>5, <1>6, <1>7 DEF FileNext

(* The file and what the tools know of it keep their types. *)
THEOREM FileTypeCorrect == FileSpec => []FileTypes
<1>1. FileInv => FileTypes
  BY DEF FileInv
<1> QED
  BY <1>1, FileInitInv, FileInvStep, PTL DEF FileSpec

(* A write or an edit only replaces what a tool has returned or written,   *)
(* what came after its check, or a text whose mtime is no later than that  *)
(* of the last read (tools/file-state.ts:67), for any number of            *)
(* overlapping calls.                                                      *)
THEOREM SeenBeforeReplacedCorrect == FileSpec => SeenBeforeReplaced
<1>1. FileInv => \A u \in Updates : update[u].active => MayReplace(u)
  BY DEF FileInv, UpdatesChecked
<1>2. FileInv /\ [FileNext]_fileVars
        => [\A u \in Updates : update[u].active /\ ~update'[u].active =>
              file.text \in seen \cup update[u].replaced \cup {NoText} \/ file.mtime <= fileState.mtime]_fileVars
  BY <1>1 DEF MayReplace
<1> QED
  BY <1>2, FileInitInv, FileInvStep, PTL DEF FileSpec, SeenBeforeReplaced
-----------------------------------------------------------------------------
(* Checkpoint.tla *)

CheckpointTypes ==
    /\ tree \in Trees
    /\ commits \in Seq(Trees)
    /\ turnSnapshots \in BOOLEAN

(* The repository is made by its first use. *)
LEMMA RepoTyped ==
    ASSUME CheckpointTypes
    PROVE  ensureRepo \in Seq(Trees) /\ Len(ensureRepo) \in Nat \ {0}
<1>1. CASE commits = << >>
  BY <1>1 DEF CheckpointTypes, ensureRepo
<1>2. CASE commits # << >>
  BY <1>2 DEF CheckpointTypes, ensureRepo
<1> QED BY <1>1, <1>2

(* A tree and a commit make a tree. *)
LEMMA CheckoutTyped ==
    ASSUME tree \in Trees, NEW commit \in Trees
    PROVE  Checkout(commit) \in Trees
<1>1. PICK S \in SUBSET Files : tree \in [S -> FileTexts]
  BY DEF Trees
<1>2. PICK T \in SUBSET Files : commit \in [T -> FileTexts]
  BY DEF Trees
<1>3. Checkout(commit) \in [S \cup T -> FileTexts]
  BY <1>1, <1>2 DEF Checkout
<1> QED BY <1>3 DEF Trees

LEMMA CheckpointInitInv == CheckpointInit => CheckpointTypes
<1> SUFFICES ASSUME CheckpointInit PROVE CheckpointTypes
  OBVIOUS
<1>1. commits \in Seq(Trees)
  BY DEF CheckpointInit
<1> QED BY <1>1 DEF CheckpointInit, CheckpointTypes

LEMMA CheckpointTypesStep == CheckpointTypes /\ [CheckpointNext]_checkpointVars => CheckpointTypes'
<1> SUFFICES ASSUME CheckpointTypes, [CheckpointNext]_checkpointVars PROVE CheckpointTypes'
  OBVIOUS
<1>0. ensureRepo \in Seq(Trees) /\ Len(ensureRepo) \in Nat \ {0} /\ tree \in Trees
  BY RepoTyped DEF CheckpointTypes
<1>1. CASE snapshot
  <2>1. commits' \in {ensureRepo, Append(ensureRepo, tree)} /\ tree' = tree
    BY <1>1 DEF snapshot
  <2>2. commits' \in Seq(Trees)
    BY <1>0, <2>1
  <2>3. turnSnapshots' \in BOOLEAN
    BY <1>1 DEF snapshot, CheckpointTypes
  <2> QED BY <1>0, <2>1, <2>2, <2>3 DEF CheckpointTypes
<1>2. ASSUME NEW i \in 1..MaxCommits, NEW failed \in BOOLEAN, restore(i, failed) PROVE CheckpointTypes'
  <2>1. ensureRepo[i] \in Trees
    <3> DEFINE repo == ensureRepo
    <3>1. i \in DOMAIN repo
      BY <1>2 DEF restore
    <3>2. repo \in Seq(Trees)
      BY <1>0
    <3> HIDE DEF repo
    <3>3. repo[i] \in Trees
      BY <3>1, <3>2
    <3> QED BY <3>3 DEF repo
  <2>2. tree' = Checkout(ensureRepo[i]) /\ turnSnapshots' = turnSnapshots
        /\ commits' \in {ensureRepo, Append(ensureRepo, tree)}
    BY <1>2 DEF restore, preRestoreSnapshot
  <2>3. tree' \in Trees
    BY <1>0, <2>1, <2>2, CheckoutTyped
  <2>4. commits' \in Seq(Trees)
    BY <1>0, <2>2
  <2> QED BY <2>2, <2>3, <2>4 DEF CheckpointTypes
<1>3. CASE Show
  BY <1>0, <1>3 DEF Show, CheckpointTypes
<1>4. CASE Work \/ Restart
  BY <1>4 DEF Work, Restart, CheckpointTypes
<1>5. CASE UNCHANGED checkpointVars
  BY <1>5 DEF checkpointVars, CheckpointTypes
<1> QED BY <1>1, <1>2, <1>3, <1>4, <1>5 DEF CheckpointNext

(* What was there before a restore is a commit after it, the head before   *)
(* or a new one, and the commit asked for is what the work tree holds.     *)
LEMMA RestoreStep ==
    ASSUME CheckpointTypes, NEW i \in 1..MaxCommits, restore(i, FALSE)
    PROVE  /\ \E k \in DOMAIN commits' : commits'[k] = tree
           /\ \A f \in DOMAIN commits'[i] : f \in DOMAIN tree' /\ tree'[f] = commits'[i][f]
<1>0. ensureRepo \in Seq(Trees) /\ Len(ensureRepo) \in Nat \ {0} /\ tree \in Trees
  BY RepoTyped DEF CheckpointTypes
<1> DEFINE repo == ensureRepo
<1>1. /\ i \in DOMAIN repo
      /\ commits' = IF tree # repo[Len(repo)] THEN Append(repo, tree) ELSE repo
      /\ tree' = Checkout(repo[i])
  BY DEF restore, preRestoreSnapshot, Dirty
<1> HIDE DEF repo
<1>2. repo \in Seq(Trees) /\ Len(repo) \in Nat \ {0}
  BY <1>0 DEF repo
<1>3. commits'[i] = repo[i]
  BY <1>0, <1>1, <1>2
<1>4. \E k \in DOMAIN commits' : commits'[k] = tree
  <2>1. CASE tree # repo[Len(repo)]
    <3>1. Len(repo) + 1 \in DOMAIN commits' /\ commits'[Len(repo) + 1] = tree
      BY <1>0, <1>1, <1>2, <2>1
    <3> QED BY <3>1
  <2>2. CASE tree = repo[Len(repo)]
    <3>1. Len(repo) \in DOMAIN commits' /\ commits'[Len(repo)] = tree
      BY <1>1, <1>2, <2>2
    <3> QED BY <3>1
  <2> QED BY <2>1, <2>2
<1>5. \A f \in DOMAIN repo[i] : f \in DOMAIN tree' /\ tree'[f] = repo[i][f]
  BY <1>1 DEF Checkout
<1> QED BY <1>3, <1>4, <1>5

(* The trees and commits keep their types. *)
THEOREM CheckpointTypeCorrect == CheckpointSpec => []CheckpointTypes
  BY CheckpointInitInv, CheckpointTypesStep, PTL DEF CheckpointSpec

(* Unless git failed, a restore can be undone                              *)
(* (tools/builtin/checkpoint.ts:144), for any files, texts and commits.    *)
THEOREM RestoreUndoableCorrect == CheckpointSpec => RestoreUndoable
<1> DEFINE Undoable ==
      answer'.action = "restore" =>
         /\ \E i \in DOMAIN commits' : commits'[i] = tree
         /\ \A f \in DOMAIN commits'[answer'.commit] : f \in DOMAIN tree' /\ tree'[f] = commits'[answer'.commit][f]
<1>1. CheckpointTypes /\ CheckpointNext => Undoable
  <2> SUFFICES ASSUME CheckpointTypes, CheckpointNext, answer'.action = "restore" PROVE Undoable
    OBVIOUS
  <2>1. PICK i \in 1..MaxCommits, failed \in BOOLEAN : restore(i, failed)
    BY DEF CheckpointNext, snapshot, Show, Work, Restart, NoAnswer
  <2>2. failed = FALSE /\ answer'.commit = i
    BY <2>1 DEF restore
  <2> QED BY <2>1, <2>2, RestoreStep
<1>2. CheckpointTypes /\ [CheckpointNext]_checkpointVars => [Undoable]_checkpointVars
  BY <1>1
<1> QED
  BY <1>2, CheckpointInitInv, CheckpointTypesStep, PTL DEF CheckpointSpec, RestoreUndoable
-----------------------------------------------------------------------------
(* Ocr.tla *)

PoolTypes ==
    /\ workerPool \in Workers \cup {NoWorker}
    /\ creation \in [Workers -> {"unused", "creating", "setting", "ready", "rejected", "unset"}]
    /\ thread \in [Workers -> {"none", "starting", "alive", "dead"}]
    /\ down \in BOOLEAN

(* The entry holds no rejected creation, and every worker that lives or is on *)
(* its way is the entry's, one that the shutdown ends, or one left unset.     *)
PoolSound ==
    /\ workerPool # NoWorker => creation[workerPool] \in {"creating", "setting", "ready"}
    /\ \A w \in Workers :
        /\ thread[w] = "alive" => w \in {workerPool} \cup ending \cup draining \/ creation[w] = "unset"
        /\ creation[w] = "creating" => w \in {workerPool} \cup draining /\ thread[w] = "starting"
        /\ creation[w] \in {"setting", "ready", "unset"} /\ ~down => thread[w] = "alive"
    /\ ~down => ending = {} /\ draining = {}

(* Who reads has a worker that was ready. *)
ReadersSound ==
    \A p \in Posts : /\ stage[p] \in {"waiting", "reading"} => onWorker[p] \in Workers
                     /\ stage[p] = "reading" => creation[onWorker[p]] = "ready"

Image == Posts \X Nat
File == (Nat \X Nat) \cup {NoFile}
Stages == {"next", "writing", "processing", "recognizing", "waiting", "reading", "postprocess", "delivered"}
Kinds == {"failed", "meta", "text", "corrected", "skipped"}
BlockOf == [as : Kinds, of : Image \cup {NoFile}, file : File]

PostTypes ==
    /\ stage \in [Posts -> Stages] /\ onWorker \in [Posts -> Workers \cup {NoWorker}]
    /\ path \in [Posts -> File] /\ source \in [Posts -> Image \cup {NoFile}]
    /\ blocks \in [Posts -> Seq(BlockOf)]
    /\ millis \in Nat
    /\ tmp = [f \in DOMAIN tmp |-> tmp[f]]
    /\ \A f \in DOMAIN tmp : tmp[f] \in Seq(Image) /\ Len(tmp[f]) > 0

(* A file holds the post's own image, or several were written to its name. *)
Shared(f) == Len(tmp[f]) > 1
OwnFile(p) == path[p] \in DOMAIN tmp /\ (Shared(path[p]) \/ tmp[path[p]] = << <<p, Current(p)>> >>)

Written == {"processing", "recognizing", "waiting", "reading", "postprocess"}

ImagesSound ==
    \A p \in Posts :
        /\ stage[p] \in Written => OwnFile(p)
        /\ stage[p] \in {"reading", "postprocess"}
              \/ (stage[p] \in {"recognizing", "waiting"} /\ source[p] # NoFile)
           => source[p] = <<p, Current(p)>> \/ Shared(path[p])
        /\ \A i \in DOMAIN blocks[p] :
              blocks[p][i].as \in {"text", "corrected"} =>
                  blocks[p][i].file \in DOMAIN tmp
                  /\ (blocks[p][i].of = <<p, i>> \/ Shared(blocks[p][i].file))

OcrInv == PoolTypes /\ PoolSound /\ ReadersSound /\ PostTypes /\ ImagesSound

LEMMA OcrInitInv == OcrInit => OcrInv
<1> SUFFICES ASSUME OcrInit PROVE OcrInv
  OBVIOUS
<1>1. PoolTypes /\ PoolSound /\ ReadersSound
  BY OcrAssumption DEF OcrInit, PoolTypes, PoolSound, ReadersSound
<1>2. PostTypes
  <2>1. tmp = << >> /\ DOMAIN tmp = {}
    BY DEF OcrInit
  <2>2. tmp = [f \in DOMAIN tmp |-> tmp[f]]
    BY <2>1
  <2>3. << >> \in Seq(BlockOf)
    OBVIOUS
  <2>4. \A f \in DOMAIN tmp : tmp[f] \in Seq(Image) /\ Len(tmp[f]) > 0
    BY <2>1
  <2>7. blocks = [q \in Posts |-> << >>]
    BY DEF OcrInit
  <2>5. /\ stage \in [Posts -> Stages] /\ onWorker \in [Posts -> Workers \cup {NoWorker}]
        /\ path \in [Posts -> File] /\ source \in [Posts -> Image \cup {NoFile}]
        /\ millis \in Nat
    BY DEF OcrInit, File, Stages
  <2>6. blocks \in [Posts -> Seq(BlockOf)]
    <3> DEFINE none == << >>
    <3>1. blocks = [q \in Posts |-> none] /\ none \in Seq(BlockOf)
      BY <2>3, <2>7
    <3> HIDE DEF none
    <3> QED BY <3>1
  <2> QED BY <2>2, <2>4, <2>5, <2>6 DEF PostTypes
<1>3. ImagesSound
  BY DEF OcrInit, ImagesSound, Written
<1> QED BY <1>1, <1>2, <1>3 DEF OcrInv

(* The steps of the worker and of the shutdown leave the posts alone. *)
LEMMA PoolSteps ==
    ASSUME OcrInv, UNCHANGED <<postVars, millis>>,
           \/ \E w \in Workers : Created(w) \/ CreateFails(w) \/ CreateTimeout(w) \/ Terminate(w)
           \/ \E w \in Workers, ok \in BOOLEAN : SetParameters(w, ok)
           \/ Shutdown
    PROVE  OcrInv'
<1>0. PoolTypes /\ PoolSound /\ ReadersSound /\ PostTypes /\ ImagesSound
  BY DEF OcrInv
<1>1. PostTypes' /\ ImagesSound'
  BY <1>0 DEF PostTypes, ImagesSound, OwnFile, Shared, Current, postVars
<1>3. ASSUME NEW w \in Workers, Created(w) PROVE PoolTypes' /\ PoolSound' /\ ReadersSound'
  BY <1>0, <1>3 DEF Created, PoolTypes, PoolSound, ReadersSound, postVars
<1>4. ASSUME NEW w \in Workers, CreateFails(w) PROVE PoolTypes' /\ PoolSound' /\ ReadersSound'
  BY <1>0, <1>4 DEF CreateFails, Reject, PoolTypes, PoolSound, ReadersSound, postVars
<1>5. ASSUME NEW w \in Workers, CreateTimeout(w) PROVE PoolTypes' /\ PoolSound' /\ ReadersSound'
  BY <1>0, <1>5 DEF CreateTimeout, Reject, PoolTypes, PoolSound, ReadersSound, postVars
<1>6. ASSUME NEW w \in Workers, Terminate(w) PROVE PoolTypes' /\ PoolSound' /\ ReadersSound'
  BY <1>0, <1>6 DEF Terminate, PoolTypes, PoolSound, ReadersSound, postVars
<1>7. ASSUME NEW w \in Workers, NEW ok \in BOOLEAN, SetParameters(w, ok)
      PROVE  PoolTypes' /\ PoolSound' /\ ReadersSound'
  BY <1>0, <1>7 DEF SetParameters, PoolTypes, PoolSound, ReadersSound, postVars
<1>8. ASSUME Shutdown PROVE PoolTypes' /\ PoolSound' /\ ReadersSound'
  BY <1>0, <1>8 DEF Shutdown, PoolTypes, PoolSound, ReadersSound, postVars
<1> QED BY <1>1, <1>3, <1>4, <1>5, <1>6, <1>7, <1>8 DEF OcrInv

(* A block that is added says what it is of; the others stay.  *)
LEMMA BlockStep ==
    ASSUME OcrInv, NEW p \in Posts, NEW as \in Kinds, NEW of \in Image \cup {NoFile}, Block(p, as, of),
           as \in {"text", "corrected"} =>
               path[p] \in DOMAIN tmp /\ (of = <<p, Current(p)>> \/ Shared(path[p]))
    PROVE  /\ blocks' \in [Posts -> Seq(BlockOf)]
           /\ \A q \in Posts \ {p} : blocks'[q] = blocks[q]
           /\ \A q \in Posts : \A i \in DOMAIN blocks'[q] :
                  blocks'[q][i].as \in {"text", "corrected"} =>
                      blocks'[q][i].file \in DOMAIN tmp
                      /\ (blocks'[q][i].of = <<q, i>> \/ Shared(blocks'[q][i].file))
<1> DEFINE new == [as |-> as, of |-> of, file |-> path[p]]
<1>1. new \in BlockOf /\ blocks \in [Posts -> Seq(BlockOf)] /\ blocks[p] \in Seq(BlockOf)
  BY DEF OcrInv, PostTypes, BlockOf
<1>2. blocks' = [blocks EXCEPT ![p] = Append(blocks[p], new)]
  BY DEF Block
<1> HIDE DEF new
<1>3. Append(blocks[p], new) \in Seq(BlockOf)
  BY <1>1
<1>4. blocks' \in [Posts -> Seq(BlockOf)] /\ \A q \in Posts \ {p} : blocks'[q] = blocks[q]
  BY <1>1, <1>2, <1>3
<1>5. blocks'[p] = Append(blocks[p], new)
  BY <1>1, <1>2
<1>6. ASSUME NEW q \in Posts, NEW i \in DOMAIN blocks'[q], blocks'[q][i].as \in {"text", "corrected"}
      PROVE  blocks'[q][i].file \in DOMAIN tmp
             /\ (blocks'[q][i].of = <<q, i>> \/ Shared(blocks'[q][i].file))
  <2>1. CASE q # p
    BY <1>4, <1>6, <2>1 DEF OcrInv, ImagesSound
  <2>2. CASE q = p /\ i \in DOMAIN blocks[p]
    <3>1. blocks'[q][i] = blocks[q][i]
      BY <1>1, <1>5, <2>2
    <3> QED BY <1>6, <2>2, <3>1 DEF OcrInv, ImagesSound
  <2>3. CASE q = p /\ i = Current(p)
    <3>1. blocks'[q][i] = new
      BY <1>1, <1>5, <2>3 DEF Current
    <3>2. new.as = as /\ new.of = of /\ new.file = path[p]
      BY DEF new
    <3> QED BY <1>6, <2>3, <3>1, <3>2
  <2>4. q = p => i \in DOMAIN blocks[p] \/ i = Current(p)
    BY <1>1, <1>5, <1>6 DEF Current
  <2> QED BY <2>1, <2>2, <2>3, <2>4
<1> QED BY <1>4, <1>6

LEMMA GoesStep ==
    ASSUME stage \in [Posts -> Stages], NEW p \in Posts, NEW name \in Stages, Goes(p, name)
    PROVE  /\ stage' \in [Posts -> Stages] /\ stage'[p] = name
           /\ \A q \in Posts \ {p} : stage'[q] = stage[q]
BY DEF Goes

(* A post that goes on to its next image adds a block. *)
LEMMA NextImage ==
    ASSUME OcrInv, NEW p \in Posts, NEW as \in Kinds, NEW of \in Image \cup {NoFile}, Block(p, as, of),
           as \in {"text", "corrected"} =>
               path[p] \in DOMAIN tmp /\ (of = <<p, Current(p)>> \/ Shared(path[p])),
           \/ stage' = stage /\ stage[p] = "next"
           \/ Goes(p, "next") \/ Goes(p, "delivered"),
           UNCHANGED <<poolVars, onWorker, tmp, path, source, millis, down, ending, draining>>
    PROVE  OcrInv'
<1>0. PoolTypes /\ PoolSound /\ ReadersSound /\ PostTypes /\ ImagesSound
  BY DEF OcrInv
<1>1. PoolTypes' /\ PoolSound'
  BY <1>0 DEF PoolTypes, PoolSound, poolVars
<1>2. /\ stage' \in [Posts -> Stages] /\ ~(stage'[p] \in Written)
      /\ \A q \in Posts \ {p} : stage'[q] = stage[q]
  <2>0. stage \in [Posts -> Stages]
    BY <1>0 DEF PostTypes
  <2>1. CASE stage' = stage /\ stage[p] = "next"
    BY <2>0, <2>1 DEF Written
  <2>2. CASE Goes(p, "next")
    <3>1. "next" \in Stages /\ "next" \notin Written
      BY DEF Written, Stages
    <3> QED BY <2>0, <2>2, <3>1, GoesStep
  <2>3. CASE Goes(p, "delivered")
    <3>1. "delivered" \in Stages /\ "delivered" \notin Written
      BY DEF Written, Stages
    <3> QED BY <2>0, <2>3, <3>1, GoesStep
  <2> QED BY <2>1, <2>2, <2>3
<1>3. ReadersSound'
  <2>1. creation' = creation /\ onWorker' = onWorker
    BY DEF poolVars
  <2>2. ~(stage'[p] \in {"waiting", "reading"})
    BY <1>2 DEF Written
  <2> QED BY <1>0, <1>2, <2>1, <2>2 DEF ReadersSound
<1>4. /\ blocks' \in [Posts -> Seq(BlockOf)]
      /\ \A q \in Posts \ {p} : blocks'[q] = blocks[q]
      /\ \A q \in Posts : \A i \in DOMAIN blocks'[q] :
             blocks'[q][i].as \in {"text", "corrected"} =>
                 blocks'[q][i].file \in DOMAIN tmp
                 /\ (blocks'[q][i].of = <<q, i>> \/ Shared(blocks'[q][i].file))
  BY BlockStep
<1>5. PostTypes'
  BY <1>0, <1>2, <1>4 DEF PostTypes
<1>6. ImagesSound'
  <2> SUFFICES ASSUME NEW q \in Posts
               PROVE  /\ stage'[q] \in Written => OwnFile(q)'
                      /\ stage'[q] \in {"reading", "postprocess"}
                            \/ (stage'[q] \in {"recognizing", "waiting"} /\ source'[q] # NoFile)
                         => source'[q] = <<q, Current(q)'>> \/ Shared(path[q])'
    BY <1>4 DEF ImagesSound, Shared
  <2>1. CASE q = p
    BY <1>2, <2>1 DEF Written
  <2>2. CASE q # p
    BY <1>0, <1>2, <1>4, <2>2 DEF ImagesSound, OwnFile, Shared, Current
  <2> QED BY <2>1, <2>2
<1> QED BY <1>1, <1>3, <1>5, <1>6 DEF OcrInv

(* A step of a post within one image, with no file written. *)
LEMMA WithinImage ==
    ASSUME OcrInv, NEW p \in Posts, NEW name \in Stages, Goes(p, name),
           UNCHANGED <<tmp, path, blocks, millis>>,
           source' \in [Posts -> Image \cup {NoFile}], \A q \in Posts \ {p} : source'[q] = source[q],
           onWorker' \in [Posts -> Workers \cup {NoWorker}],
           name \in Written => OwnFile(p),
           name \in {"reading", "postprocess"} \/ (name \in {"recognizing", "waiting"} /\ source'[p] # NoFile)
              => source'[p] = <<p, Current(p)>> \/ Shared(path[p])
    PROVE  PostTypes' /\ ImagesSound'
<1>0. PostTypes /\ ImagesSound
  BY DEF OcrInv
<1>1. /\ stage' \in [Posts -> Stages] /\ stage'[p] = name
      /\ \A q \in Posts \ {p} : stage'[q] = stage[q]
  BY <1>0 DEF Goes, PostTypes
<1>2. PostTypes'
  BY <1>0, <1>1 DEF PostTypes
<1>3. ImagesSound'
  <2> SUFFICES ASSUME NEW q \in Posts
               PROVE  /\ stage'[q] \in Written => OwnFile(q)
                      /\ stage'[q] \in {"reading", "postprocess"}
                            \/ (stage'[q] \in {"recognizing", "waiting"} /\ source'[q] # NoFile)
                         => source'[q] = <<q, Current(q)>> \/ Shared(path[q])
                      /\ \A i \in DOMAIN blocks[q] :
                            blocks[q][i].as \in {"text", "corrected"} =>
                                blocks[q][i].file \in DOMAIN tmp
                                /\ (blocks[q][i].of = <<q, i>> \/ Shared(blocks[q][i].file))
    BY DEF ImagesSound, OwnFile, Shared, Current
  <2>1. CASE q = p
    BY <1>0, <1>1, <2>1 DEF ImagesSound
  <2>2. CASE q # p
    BY <1>0, <1>1, <2>2 DEF ImagesSound
  <2> QED BY <2>1, <2>2
<1> QED BY <1>2, <1>3

(* What is read, once it is. *)
LEMMA ReadsOwn ==
    ASSUME ImagesSound, NEW p \in Posts, stage[p] \in {"reading", "postprocess"}
    PROVE  source[p] = <<p, Current(p)>> \/ Shared(path[p])
BY DEF ImagesSound

(* What is read from the file of a post. *)
LEMMA ReadsFile ==
    ASSUME PostTypes, NEW p \in Posts, OwnFile(p)
    PROVE  Last(tmp[path[p]]) \in Image /\ (Last(tmp[path[p]]) = <<p, Current(p)>> \/ Shared(path[p]))
<1>1. tmp[path[p]] \in Seq(Image) /\ Len(tmp[path[p]]) > 0
  BY DEF PostTypes, OwnFile
<1>2. Last(tmp[path[p]]) = tmp[path[p]][Len(tmp[path[p]])]
  BY DEF Last
<1>3. Last(tmp[path[p]]) \in Image
  BY <1>1, <1>2
<1>4. tmp[path[p]] = << <<p, Current(p)>> >> => Last(tmp[path[p]]) = <<p, Current(p)>>
  BY <1>2
<1> QED BY <1>3, <1>4 DEF OwnFile

(* The pool without a step of its own. *)
LEMMA PoolStays ==
    ASSUME OcrInv, UNCHANGED <<poolVars, down, ending, draining>>
    PROVE  PoolTypes' /\ PoolSound'
BY DEF OcrInv, PoolTypes, PoolSound, poolVars

LEMMA AppendImage ==
    ASSUME NEW s \in Seq(Image), NEW e \in Image
    PROVE  /\ Append(s, e) \in Seq(Image) /\ Len(Append(s, e)) = Len(s) + 1
           /\ Len(s) \in Nat
           /\ Len(s) = 0 => Append(s, e) = <<e>>
<1>1. Append(s, e) \in Seq(Image) /\ Len(Append(s, e)) = Len(s) + 1 /\ Len(s) \in Nat
  OBVIOUS
<1>2. ASSUME Len(s) = 0 PROVE Append(s, e) = <<e>>
  <2>1. s = << >>
    BY <1>2
  <2> QED BY <2>1
<1> QED BY <1>1, <1>2

(* A file name gets another image; no file loses one. *)
LEMMA WriteFileStep ==
    ASSUME OcrInv, NEW p \in Posts, WriteFile(p)
    PROVE  OcrInv'
<1>0. PostTypes /\ ImagesSound /\ ReadersSound /\ stage \in [Posts -> Stages] /\ "processing" \in Stages
  BY DEF OcrInv, PostTypes, Stages
<1> DEFINE f == path[p]
           image == <<p, Current(p)>>
           old == IF f \in DOMAIN tmp THEN tmp[f] ELSE << >>
<1>1. Len(blocks[p]) \in Nat
  BY <1>0 DEF PostTypes
<1>2. image \in Image
  BY <1>1 DEF Image, Current
<1>3. old \in Seq(Image)
  BY <1>0 DEF PostTypes
<1>4. tmp' = [g \in DOMAIN tmp \cup {f} |-> IF g # f THEN tmp[g] ELSE Append(old, image)]
  BY DEF WriteFile
<1>5. /\ DOMAIN tmp' = DOMAIN tmp \cup {f} /\ tmp'[f] = Append(old, image)
      /\ \A g \in DOMAIN tmp \ {f} : tmp'[g] = tmp[g]
  BY <1>4
<1>6. UNCHANGED <<poolVars, onWorker, path, source, blocks, millis, down, ending, draining>>
  BY DEF WriteFile
<1>7. PoolTypes' /\ PoolSound'
  BY <1>6, PoolStays
<1>8. /\ stage' \in [Posts -> Stages] /\ stage'[p] = "processing"
      /\ \A q \in Posts \ {p} : stage'[q] = stage[q]
  BY <1>0, GoesStep DEF WriteFile
<1>9. ReadersSound'
  BY <1>0, <1>6, <1>8 DEF ReadersSound, poolVars
<1> HIDE DEF image, old, f
<1>10. /\ Append(old, image) \in Seq(Image) /\ Len(Append(old, image)) = Len(old) + 1
       /\ Len(old) \in Nat
       /\ Len(old) = 0 => Append(old, image) = <<image>>
  BY <1>2, <1>3, AppendImage
<1>11. PostTypes'
  <2>1. tmp' = [g \in DOMAIN tmp' |-> tmp'[g]]
    BY <1>4
  <2>2. \A g \in DOMAIN tmp' : tmp'[g] \in Seq(Image) /\ Len(tmp'[g]) > 0
    <3> SUFFICES ASSUME NEW g \in DOMAIN tmp' PROVE tmp'[g] \in Seq(Image) /\ Len(tmp'[g]) > 0
      OBVIOUS
    <3>1. CASE g = f
      BY <1>5, <1>10, <3>1
    <3>2. CASE g # f
      BY <1>0, <1>5, <3>2 DEF PostTypes
    <3> QED BY <3>1, <3>2
  <2> QED BY <1>0, <1>6, <1>8, <2>1, <2>2 DEF PostTypes
<1>12. ASSUME NEW g \in DOMAIN tmp, Len(tmp[g]) > 1 PROVE Len(tmp'[g]) > 1
  <2>1. CASE g = f
    BY <1>5, <1>10, <1>12, <2>1 DEF old
  <2>2. CASE g # f
    BY <1>5, <1>12, <2>2
  <2> QED BY <2>1, <2>2
<1>13. f \in DOMAIN tmp => Len(tmp'[f]) > 1
  <2>1. f \in DOMAIN tmp => Len(old) > 0
    BY <1>0 DEF PostTypes, old
  <2> QED BY <1>5, <1>10, <2>1
<1>14. ASSUME NEW q \in Posts, OwnFile(q) PROVE OwnFile(q)'
  <2>1. path[q] \in DOMAIN tmp /\ (Shared(path[q]) \/ tmp[path[q]] = << <<q, Current(q)>> >>)
    BY <1>14 DEF OwnFile
  <2>2. CASE path[q] = f
    BY <1>5, <1>6, <1>13, <2>1, <2>2 DEF OwnFile, Shared, Current
  <2>3. CASE path[q] # f
    BY <1>5, <1>6, <1>12, <2>1, <2>3 DEF OwnFile, Shared, Current
  <2> QED BY <2>2, <2>3
<1>15. OwnFile(p)'
  <2>1. CASE f \in DOMAIN tmp
    BY <1>5, <1>6, <1>13, <2>1 DEF OwnFile, Shared, f
  <2>2. CASE f \notin DOMAIN tmp
    <3>1. Len(old) = 0
      BY <2>2 DEF old
    <3>2. tmp'[f] = <<image>>
      BY <1>5, <1>10, <3>1
    <3> QED BY <1>5, <1>6, <3>2 DEF OwnFile, Current, image, f
  <2> QED BY <2>1, <2>2
<1>16. ImagesSound'
  <2> SUFFICES ASSUME NEW q \in Posts
               PROVE  /\ stage'[q] \in Written => OwnFile(q)'
                      /\ stage'[q] \in {"reading", "postprocess"}
                            \/ (stage'[q] \in {"recognizing", "waiting"} /\ source'[q] # NoFile)
                         => source'[q] = <<q, Current(q)'>> \/ Shared(path[q])'
                      /\ \A i \in DOMAIN blocks[q] :
                            blocks[q][i].as \in {"text", "corrected"} =>
                                blocks[q][i].file \in DOMAIN tmp'
                                /\ (blocks[q][i].of = <<q, i>> \/ Shared(blocks[q][i].file)')
    BY <1>6 DEF ImagesSound, Shared
  <2>1. \A i \in DOMAIN blocks[q] :
            blocks[q][i].as \in {"text", "corrected"} =>
                blocks[q][i].file \in DOMAIN tmp'
                /\ (blocks[q][i].of = <<q, i>> \/ Shared(blocks[q][i].file)')
    <3> SUFFICES ASSUME NEW i \in DOMAIN blocks[q], blocks[q][i].as \in {"text", "corrected"}
                 PROVE  blocks[q][i].file \in DOMAIN tmp'
                        /\ (blocks[q][i].of = <<q, i>> \/ Shared(blocks[q][i].file)')
      OBVIOUS
    <3>1. blocks[q][i].file \in DOMAIN tmp /\ (blocks[q][i].of = <<q, i>> \/ Shared(blocks[q][i].file))
      BY <1>0 DEF ImagesSound
    <3>2. DOMAIN tmp \subseteq DOMAIN tmp'
      BY <1>5
    <3>3. CASE blocks[q][i].of = <<q, i>>
      BY <3>1, <3>2, <3>3
    <3>4. CASE Shared(blocks[q][i].file)
      <4>1. Len(tmp'[blocks[q][i].file]) > 1
        BY <1>12, <3>1, <3>4 DEF Shared
      <4> QED BY <1>6, <3>1, <3>2, <4>1 DEF Shared
    <3> QED BY <3>1, <3>3, <3>4
  <2>2. CASE q = p
    BY <1>8, <1>15, <2>1, <2>2
  <2>3. CASE q # p
    <3>1. stage[q] \in Written => OwnFile(q)
      BY <1>0 DEF ImagesSound
    <3>2. stage[q] \in {"reading", "postprocess"}
             \/ (stage[q] \in {"recognizing", "waiting"} /\ source[q] # NoFile)
          => source[q] = <<q, Current(q)>> \/ Shared(path[q])
      BY <1>0 DEF ImagesSound
    <3>3. stage[q] \in Written /\ Shared(path[q]) => Shared(path[q])'
      BY <1>6, <1>12, <3>1 DEF OwnFile, Shared
    <3> QED BY <1>6, <1>8, <1>14, <2>1, <2>3, <3>1, <3>2, <3>3 DEF Written, Current
  <2> QED BY <2>2, <2>3
<1> QED BY <1>7, <1>9, <1>11, <1>16 DEF OcrInv

(* The steps of a post, one image after the other. *)
LEMMA PostSteps ==
    ASSUME OcrInv, NEW p \in Posts
    PROVE  /\ Download(p) \/ DownloadFails(p) \/ WriteFile(p) \/ GetWorker(p) \/ Recognize(p)
                 \/ FallbackMeta(p) \/ Recognized(p) \/ Deliver(p) => OcrInv'
           /\ \A ok \in BOOLEAN : Preprocess(p, ok) \/ Postprocess(p, ok) => OcrInv'
<1>0. /\ PoolTypes /\ PoolSound /\ ReadersSound /\ PostTypes /\ ImagesSound
      /\ stage \in [Posts -> Stages] /\ source \in [Posts -> Image \cup {NoFile}]
      /\ onWorker \in [Posts -> Workers \cup {NoWorker}]
  BY DEF OcrInv, PostTypes
<1>1. ASSUME Download(p) PROVE OcrInv'
  <2>1. Goes(p, "writing") /\ "writing" \in Stages /\ "writing" \notin Written
        /\ UNCHANGED <<poolVars, onWorker, tmp, blocks, millis, down, ending, draining>>
        /\ path' = [path EXCEPT ![p] = <<millis, Current(p)>>]
        /\ source' = [source EXCEPT ![p] = NoFile]
    BY <1>1 DEF Download, Stages, Written
  <2>2. /\ stage' \in [Posts -> Stages] /\ stage'[p] = "writing"
        /\ \A q \in Posts \ {p} : stage'[q] = stage[q]
    BY <1>0, <2>1, GoesStep
  <2>3. <<millis, Current(p)>> \in File
    BY <1>0 DEF PostTypes, Current, File
  <2>4. /\ path' \in [Posts -> File] /\ source' \in [Posts -> Image \cup {NoFile}]
        /\ \A q \in Posts \ {p} : path'[q] = path[q] /\ source'[q] = source[q]
    BY <1>0, <2>1, <2>3 DEF PostTypes
  <2>5. PoolTypes' /\ PoolSound'
    BY <2>1, PoolStays
  <2>6. ReadersSound'
    BY <1>0, <2>1, <2>2 DEF ReadersSound, poolVars
  <2>7. PostTypes'
    BY <1>0, <2>1, <2>2, <2>4 DEF PostTypes
  <2>8. ImagesSound'
    <3> SUFFICES ASSUME NEW q \in Posts
                 PROVE  /\ stage'[q] \in Written => OwnFile(q)'
                        /\ stage'[q] \in {"reading", "postprocess"}
                              \/ (stage'[q] \in {"recognizing", "waiting"} /\ source'[q] # NoFile)
                           => source'[q] = <<q, Current(q)'>> \/ Shared(path[q])'
      BY <1>0, <2>1 DEF ImagesSound, Shared
    <3>1. CASE q = p
      BY <2>1, <2>2, <3>1
    <3>2. CASE q # p
      BY <1>0, <2>1, <2>2, <2>4, <3>2 DEF ImagesSound, OwnFile, Shared, Current
    <3> QED BY <3>1, <3>2
  <2> QED BY <2>5, <2>6, <2>7, <2>8 DEF OcrInv
<1>2. ASSUME DownloadFails(p) PROVE OcrInv'
  <2>1. Block(p, "failed", NoFile) /\ "failed" \in Kinds
        /\ UNCHANGED <<poolVars, stage, onWorker, tmp, path, source, millis, down, ending, draining>>
        /\ stage[p] = "next"
    BY <1>2 DEF DownloadFails, Kinds, At
  <2> QED BY <2>1, NextImage
<1>3. ASSUME WriteFile(p) PROVE OcrInv'
  BY <1>3, WriteFileStep
<1>4. ASSUME GetWorker(p) PROVE OcrInv'
  <2>1. /\ stage[p] = "recognizing" /\ Goes(p, "waiting") /\ "waiting" \in Stages
        /\ UNCHANGED <<tmp, path, source, blocks, millis, down, ending, draining>>
    BY <1>4 DEF GetWorker, Stages, At
  <2>2. /\ stage' \in [Posts -> Stages] /\ stage'[p] = "waiting"
        /\ \A q \in Posts \ {p} : stage'[q] = stage[q]
    BY <1>0, <2>1, GoesStep
  <2>3. PICK w \in Workers :
            /\ onWorker' = [onWorker EXCEPT ![p] = w]
            /\ \/ workerPool # NoWorker /\ UNCHANGED poolVars
               \/ workerPool = NoWorker /\ creation[w] = "unused" /\ Create(w)
    BY <1>0, <1>4 DEF GetWorker, PoolTypes
  <2>4. PoolTypes' /\ PoolSound'
    <3>1. CASE UNCHANGED poolVars
      BY <2>1, <3>1, PoolStays
    <3>2. CASE workerPool = NoWorker /\ creation[w] = "unused" /\ Create(w)
      BY <1>0, <2>1, <3>2, OcrAssumption DEF Create, PoolTypes, PoolSound
    <3> QED BY <2>3, <3>1, <3>2
  <2>5. ReadersSound'
    <3>1. \A v \in Workers : creation[v] = "ready" => creation'[v] = "ready"
      BY <1>0, <2>3 DEF Create, PoolTypes, poolVars
    <3>2. onWorker'[p] = w /\ \A q \in Posts \ {p} : onWorker'[q] = onWorker[q]
      BY <1>0, <2>3
    <3> QED BY <1>0, <2>2, <3>1, <3>2 DEF ReadersSound
  <2>6. /\ onWorker' \in [Posts -> Workers \cup {NoWorker}]
        /\ source' \in [Posts -> Image \cup {NoFile}] /\ source' = source
    BY <1>0, <2>1, <2>3
  <2>7. OwnFile(p) /\ (source[p] # NoFile => source[p] = <<p, Current(p)>> \/ Shared(path[p]))
    BY <1>0, <2>1 DEF ImagesSound, Written
  <2>8. PostTypes' /\ ImagesSound'
    BY <2>1, <2>6, <2>7, WithinImage
  <2> QED BY <2>4, <2>5, <2>8 DEF OcrInv
<1>5. ASSUME Recognize(p) PROVE OcrInv'
  <2>1. /\ stage[p] = "waiting" /\ creation[onWorker[p]] = "ready" /\ Goes(p, "reading") /\ "reading" \in Stages
        /\ UNCHANGED <<poolVars, onWorker, tmp, path, blocks, millis, down, ending, draining>>
        /\ source' = [source EXCEPT ![p] = IF source[p] = NoFile THEN Last(tmp[path[p]]) ELSE source[p]]
    BY <1>5 DEF Recognize, Stages, At
  <2>2. /\ stage' \in [Posts -> Stages] /\ stage'[p] = "reading"
        /\ \A q \in Posts \ {p} : stage'[q] = stage[q]
    BY <1>0, <2>1, GoesStep
  <2>3. OwnFile(p) /\ (source[p] # NoFile => source[p] = <<p, Current(p)>> \/ Shared(path[p]))
    BY <1>0, <2>1 DEF ImagesSound, Written
  <2>4. Last(tmp[path[p]]) \in Image /\ (Last(tmp[path[p]]) = <<p, Current(p)>> \/ Shared(path[p]))
    BY <1>0, <2>3, ReadsFile
  <2>5. /\ source' \in [Posts -> Image \cup {NoFile}] /\ \A q \in Posts \ {p} : source'[q] = source[q]
        /\ source'[p] = <<p, Current(p)>> \/ Shared(path[p])
    BY <1>0, <2>1, <2>3, <2>4
  <2>6. PostTypes' /\ ImagesSound'
    BY <1>0, <2>1, <2>3, <2>5, WithinImage
  <2>7. PoolTypes' /\ PoolSound'
    BY <2>1, PoolStays
  <2>8. ReadersSound'
    BY <1>0, <2>1, <2>2 DEF ReadersSound, poolVars
  <2> QED BY <2>6, <2>7, <2>8 DEF OcrInv
<1>6. ASSUME FallbackMeta(p) PROVE OcrInv'
  <2>1. /\ Block(p, "meta", NoFile) /\ "meta" \in Kinds /\ Goes(p, "next")
        /\ UNCHANGED <<poolVars, onWorker, tmp, path, source, millis, down, ending, draining>>
    BY <1>6 DEF FallbackMeta, Kinds
  <2> QED BY <2>1, NextImage
<1>7. ASSUME Recognized(p) PROVE OcrInv'
  <2>1. /\ stage[p] = "reading" /\ Goes(p, "postprocess") /\ "postprocess" \in Stages
        /\ UNCHANGED <<poolVars, onWorker, tmp, path, source, blocks, millis, down, ending, draining>>
    BY <1>7 DEF Recognized, Stages, At
  <2>2. /\ stage' \in [Posts -> Stages] /\ stage'[p] = "postprocess"
        /\ \A q \in Posts \ {p} : stage'[q] = stage[q]
    BY <1>0, <2>1, GoesStep
  <2>3. OwnFile(p) /\ (source[p] = <<p, Current(p)>> \/ Shared(path[p]))
    <3>1. OwnFile(p)
      BY <1>0, <2>1 DEF ImagesSound, Written
    <3>2. source[p] = <<p, Current(p)>> \/ Shared(path[p])
      <4>1. stage[p] \in {"reading", "postprocess"}
        BY <2>1
      <4> QED BY <1>0, <4>1, ReadsOwn
    <3> QED BY <3>1, <3>2
  <2>4. PostTypes' /\ ImagesSound'
    BY <1>0, <2>1, <2>3, WithinImage
  <2>5. PoolTypes' /\ PoolSound'
    BY <2>1, PoolStays
  <2>6. ReadersSound'
    BY <1>0, <2>1, <2>2 DEF ReadersSound, poolVars
  <2> QED BY <2>4, <2>5, <2>6 DEF OcrInv
<1>8. ASSUME Deliver(p) PROVE OcrInv'
  <2>1. /\ stage[p] = "next" /\ Goes(p, "delivered") /\ "delivered" \in Stages /\ "delivered" \notin Written
        /\ UNCHANGED <<poolVars, onWorker, tmp, path, source, millis, down, ending, draining>>
    BY <1>8 DEF Deliver, At, Stages, Written
  <2>2. CASE ImagesOf[p] > MaxImages
    <3>1. Block(p, "skipped", NoFile) /\ "skipped" \in Kinds
      BY <1>8, <2>2 DEF Deliver, Kinds
    <3> QED BY <2>1, <3>1, NextImage
  <2>3. CASE ~(ImagesOf[p] > MaxImages)
    <3>1. blocks' = blocks
      BY <1>8, <2>3 DEF Deliver
    <3>2. PostTypes' /\ ImagesSound'
      BY <1>0, <2>1, <3>1, WithinImage
    <3>3. PoolTypes' /\ PoolSound'
      BY <2>1, PoolStays
    <3>4. /\ stage'[p] = "delivered" /\ \A q \in Posts \ {p} : stage'[q] = stage[q]
      BY <1>0, <2>1, GoesStep
    <3>5. ReadersSound'
      BY <1>0, <2>1, <3>4 DEF ReadersSound, poolVars
    <3> QED BY <3>2, <3>3, <3>5 DEF OcrInv
  <2> QED BY <2>2, <2>3
<1>9. ASSUME NEW ok \in BOOLEAN, Preprocess(p, ok) PROVE OcrInv'
  <2>1. /\ stage[p] = "processing" /\ Goes(p, "recognizing") /\ "recognizing" \in Stages
        /\ UNCHANGED <<poolVars, onWorker, tmp, path, blocks, millis, down, ending, draining>>
        /\ source' = [source EXCEPT ![p] = IF ok THEN Last(tmp[path[p]]) ELSE NoFile]
    BY <1>9 DEF Preprocess, Stages, At
  <2>2. /\ stage' \in [Posts -> Stages] /\ stage'[p] = "recognizing"
        /\ \A q \in Posts \ {p} : stage'[q] = stage[q]
    BY <1>0, <2>1, GoesStep
  <2>3. OwnFile(p)
    BY <1>0, <2>1 DEF ImagesSound, Written
  <2>4. Last(tmp[path[p]]) \in Image /\ (Last(tmp[path[p]]) = <<p, Current(p)>> \/ Shared(path[p]))
    BY <1>0, <2>3, ReadsFile
  <2>5. /\ source' \in [Posts -> Image \cup {NoFile}] /\ \A q \in Posts \ {p} : source'[q] = source[q]
        /\ source'[p] # NoFile => source'[p] = <<p, Current(p)>> \/ Shared(path[p])
    BY <1>0, <2>1, <2>3, <2>4
  <2>6. PostTypes' /\ ImagesSound'
    BY <1>0, <2>1, <2>3, <2>5, WithinImage
  <2>7. PoolTypes' /\ PoolSound'
    BY <2>1, PoolStays
  <2>8. ReadersSound'
    BY <1>0, <2>1, <2>2 DEF ReadersSound, poolVars
  <2> QED BY <2>6, <2>7, <2>8 DEF OcrInv
<1>10. ASSUME NEW ok \in BOOLEAN, Postprocess(p, ok) PROVE OcrInv'
  <2> DEFINE as == IF ok THEN "corrected" ELSE "text"
  <2>1. /\ stage[p] = "postprocess" /\ Goes(p, "next") /\ Block(p, as, source[p])
        /\ UNCHANGED <<poolVars, onWorker, tmp, path, source, millis, down, ending, draining>>
    BY <1>10 DEF Postprocess, At
  <2>2. as \in Kinds
    BY DEF Kinds
  <2> HIDE DEF as
  <2>3. /\ OwnFile(p) /\ (source[p] = <<p, Current(p)>> \/ Shared(path[p]))
        /\ path[p] \in DOMAIN tmp /\ source[p] \in Image \cup {NoFile}
    <3>1. OwnFile(p)
      BY <1>0, <2>1 DEF ImagesSound, Written
    <3>2. source[p] = <<p, Current(p)>> \/ Shared(path[p])
      <4>1. stage[p] \in {"reading", "postprocess"}
        BY <2>1
      <4> QED BY <1>0, <4>1, ReadsOwn
    <3> QED BY <1>0, <3>1, <3>2 DEF OwnFile
  <2> QED BY <2>1, <2>2, <2>3, NextImage
<1>11. ASSUME Download(p) \/ DownloadFails(p) \/ WriteFile(p) \/ GetWorker(p) \/ Recognize(p)
                 \/ FallbackMeta(p) \/ Recognized(p) \/ Deliver(p)
       PROVE  OcrInv'
  BY <1>1, <1>2, <1>3, <1>4, <1>5, <1>6, <1>7, <1>8, <1>11
<1>12. ASSUME NEW ok \in BOOLEAN, Preprocess(p, ok) \/ Postprocess(p, ok) PROVE OcrInv'
  BY <1>9, <1>10, <1>12
<1> QED BY <1>11, <1>12

LEMMA OcrInvStep == OcrInv /\ [OcrNext]_ocrVars => OcrInv'
<1> SUFFICES ASSUME OcrInv, [OcrNext]_ocrVars PROVE OcrInv'
  OBVIOUS
<1>1. ASSUME NEW w \in Workers, Created(w) \/ CreateFails(w) \/ CreateTimeout(w) \/ Terminate(w)
      PROVE  OcrInv'
  <2>1. UNCHANGED <<postVars, millis>>
    BY <1>1 DEF Created, CreateFails, CreateTimeout, Terminate
  <2> QED BY <1>1, <2>1, PoolSteps
<1>2. ASSUME NEW w \in Workers, NEW ok \in BOOLEAN, SetParameters(w, ok) PROVE OcrInv'
  <2>1. UNCHANGED <<postVars, millis>>
    BY <1>2 DEF SetParameters
  <2> QED BY <1>2, <2>1, PoolSteps
<1>3. ASSUME Shutdown PROVE OcrInv'
  <2>1. UNCHANGED <<postVars, millis>>
    BY <1>3 DEF Shutdown
  <2> QED BY <1>3, <2>1, PoolSteps
<1>4. ASSUME NEW p \in Posts,
             \/ Download(p) \/ DownloadFails(p) \/ WriteFile(p) \/ GetWorker(p) \/ Recognize(p)
             \/ FallbackMeta(p) \/ Recognized(p) \/ Deliver(p)
      PROVE  OcrInv'
  BY <1>4, PostSteps
<1>5. ASSUME NEW p \in Posts, NEW ok \in BOOLEAN, Preprocess(p, ok) \/ Postprocess(p, ok) PROVE OcrInv'
  BY <1>5, PostSteps
<1>6. ASSUME UNCHANGED <<poolVars, postVars, down, ending, draining>>, millis' \in Nat PROVE OcrInv'
  BY <1>6 DEF OcrInv, PoolTypes, PoolSound, ReadersSound, PostTypes, ImagesSound, OwnFile, Shared, Current,
              poolVars, postVars
<1>7. ASSUME NextMillis PROVE OcrInv'
  <2>1. millis' \in Nat
    BY <1>7 DEF NextMillis, OcrInv, PostTypes
  <2> QED BY <1>6, <1>7, <2>1 DEF NextMillis
<1>8. ASSUME UNCHANGED ocrVars PROVE OcrInv'
  <2>1. millis' \in Nat
    BY <1>8 DEF ocrVars, OcrInv, PostTypes
  <2>2. UNCHANGED <<poolVars, postVars, down, ending, draining>>
    BY <1>8 DEF ocrVars, poolVars, postVars
  <2> QED BY <1>6, <2>1, <2>2
<1> QED BY <1>1, <1>2, <1>3, <1>4, <1>5, <1>7, <1>8 DEF OcrNext

(* For any posts, images and workers: a creation that failed or timed out     *)
(* leaves the entry (multimodal/image-processor.ts:161), no worker is lost    *)
(* but one whose parameters could not be set, none dies under a reader before *)
(* the shutdown, and each text of a post is that of its own image unless two  *)
(* files had one name.                                                        *)
THEOREM OcrCorrect == OcrSpec => []OcrSound
<1>1. OcrInv => OcrSound
  <2> SUFFICES ASSUME OcrInv PROVE OcrSound
    OBVIOUS
  <2>1. ASSUME NEW p \in Posts, stage[p] = "reading", ~down PROVE thread[onWorker[p]] = "alive"
    BY <2>1 DEF OcrInv, ReadersSound, PoolSound
  <2>2. ASSUME NEW p \in Posts, NEW i \in DOMAIN blocks[p], blocks[p][i].as \in {"text", "corrected"}
        PROVE  blocks[p][i].of = <<p, i>> \/ Len(tmp[blocks[p][i].file]) > 1
    BY <2>2 DEF OcrInv, ImagesSound, Shared
  <2> QED BY <2>1, <2>2 DEF OcrInv, PoolSound, OcrSound
<1> QED
  BY <1>1, OcrInitInv, OcrInvStep, PTL DEF OcrSpec

(* Monitoring.tla *)

Due == [to : {"dailyLog", "monitor"}, event : {"executor:complete", "executor:error"}]
DayStats == [tasks : Nat, errors : Nat]

Counters == [Codes -> Nat]

MonitoringTypes ==
    /\ emitted \in Seq(Due) /\ ticks \in 0..MaxTicks
    /\ recent \in [Codes -> Seq(Nat)] /\ escalated \in [Codes -> BOOLEAN]
    /\ alerts \in Counters /\ under \in Counters /\ reached \in Counters
    /\ dailyLog \in [AllDays -> DayStats] /\ dayStats \in DayStats /\ lost \in Nat
    /\ lastDistillDate = NoDay \/ lastDistillDate \in 0..Today

(* The flag of a window is up while a warning is at the threshold, and for *)
(* a critical error from the first one on.                                 *)
FlagIsSize ==
    \A c \in Codes : escalated[c] <=> Len(recent[c]) >= (IF Severity[c] = "critical" THEN 1 ELSE Threshold)

(* The three conjuncts of MonitorSound, of which a step mostly moves one. *)
AlertsCounted ==
    \A c \in Codes : alerts[c] = IF Severity[c] = "critical" /\ Threshold > 1 THEN under[c] ELSE reached[c]
CostsOnDisk == ~persistFailed => costFile = days
StatsLogged == dayStats.errors <= LoggedErrors(LogSince(lastDistillDate)) + lost

MonitoringInv == MonitoringTypes /\ FlagIsSize /\ MonitorSound

LEMMA DaysKnown == LastDay \in Nat /\ \A t \in 0..MaxTicks : t \div DayLength \in AllDays
  BY MonitoringAssumption DEF LastDay, AllDays

(* What the logs of the days say, day by day. *)
LoggedUpTo(g, log) ==
    /\ g \in [AllDays -> Nat]
    /\ g[0] = log[0].errors
    /\ \A d \in 1..LastDay : g[d] = g[d - 1] + log[d].errors

LEMMA LoggedUnfolds ==
    ASSUME NEW log \in [AllDays -> DayStats]
    PROVE  \E g : LoggedUpTo(g, log) /\ LoggedErrors(log) = g[LastDay]
<1> DEFINE n == LastDay
           addsDay == [d \in 1..n |-> [x \in Nat |-> x + log[d].errors]]
<1>1. n \in Nat /\ AllDays = 0..n
  BY DaysKnown DEF AllDays
<1>2. \A d \in 0..n : log[d].errors \in Nat
  BY <1>1 DEF DayStats
<1> HIDE DEF n
<1>3. addsDay \in StepsOver(n, Nat)
  BY <1>1, <1>2 DEF StepsOver
<1>4. \A x \in Nat, d \in 1..n : addsDay[d][x] = x + log[d].errors
  OBVIOUS
<1>5. LoggedErrors(log) =
        (CHOOSE g : g = [d \in AllDays |-> IF d = 0 THEN log[0].errors ELSE g[d - 1] + log[d].errors])[n]
  BY DEF LoggedErrors, n
<1> HIDE DEF addsDay
<1>6. log[0].errors \in Nat
  BY <1>1, <1>2
<1>7. PICK g : Takes(g, n, Nat, log[0].errors, addsDay)
  BY <1>1, <1>3, <1>6, Recursion
<1>8. /\ g \in [0..n -> Nat] /\ g[0] = log[0].errors
      /\ \A d \in 1..n : g[d] = g[d - 1] + log[d].errors
  BY <1>1, <1>4, <1>7 DEF Takes
<1>9. g = [d \in AllDays |-> IF d = 0 THEN log[0].errors ELSE g[d - 1] + log[d].errors]
  BY <1>1, <1>8
<1> DEFINE h == CHOOSE h : h = [d \in AllDays |-> IF d = 0 THEN log[0].errors ELSE h[d - 1] + log[d].errors]
<1>10. h = [d \in AllDays |-> IF d = 0 THEN log[0].errors ELSE h[d - 1] + log[d].errors]
  BY <1>9
<1>11. LoggedErrors(log) = h[n]
  BY <1>5
<1> HIDE DEF h
<1>12. h[0] = log[0].errors
  BY <1>1, <1>10
<1>13. \A d \in 1..n : h[d - 1] \in Nat => h[d] = addsDay[d][h[d - 1]]
  BY <1>1, <1>4, <1>10
<1>14. \A d \in 0..n : h[d] = g[d]
  BY <1>1, <1>7, <1>12, <1>13, OneRun
<1>15. LoggedErrors(log) = g[n]
  BY <1>1, <1>11, <1>14
<1> QED BY <1>1, <1>8, <1>15 DEF n, LoggedUpTo

(* One error more on one day is one error more in all of them. *)
OnThatDay(log, after, day, k) ==
    \A d \in AllDays : after[d].errors = IF d = day THEN log[d].errors + k ELSE log[d].errors

LEMMA LoggedOneMore ==
    ASSUME NEW log \in [AllDays -> DayStats], NEW after \in [AllDays -> DayStats],
           NEW day \in AllDays, NEW k \in Nat,
           OnThatDay(log, after, day, k)
    PROVE  LoggedErrors(log) \in Nat /\ LoggedErrors(after) = LoggedErrors(log) + k
<1>1. PICK g : LoggedUpTo(g, log) /\ LoggedErrors(log) = g[LastDay]
  BY LoggedUnfolds
<1>2. PICK h : LoggedUpTo(h, after) /\ LoggedErrors(after) = h[LastDay]
  BY LoggedUnfolds
<1> DEFINE n == LastDay
           Good == {d \in 0..n : h[d] = IF day <= d THEN g[d] + k ELSE g[d]}
<1>3. n \in Nat /\ AllDays = 0..n
  BY DaysKnown DEF AllDays
<1> HIDE DEF n
<1>4. /\ g \in [0..n -> Nat] /\ g[0] = log[0].errors
      /\ \A d \in 1..n : g[d] = g[d - 1] + log[d].errors
      /\ h \in [0..n -> Nat] /\ h[0] = after[0].errors
      /\ \A d \in 1..n : h[d] = h[d - 1] + after[d].errors
  BY <1>1, <1>2, <1>3 DEF LoggedUpTo, n
<1>5. \A d \in 0..n : log[d].errors \in Nat /\ after[d].errors \in Nat
  BY <1>3 DEF DayStats
<1>6. 0 \in Good
  BY <1>3, <1>4 DEF OnThatDay
<1>7. ASSUME NEW d \in 1..n, d - 1 \in Good PROVE d \in Good
  <2>1. d \in 0..n /\ d - 1 \in 0..n /\ d \in Nat /\ day \in Nat
    BY <1>3
  <2>2. h[d - 1] = IF day <= d - 1 THEN g[d - 1] + k ELSE g[d - 1]
    BY <1>7
  <2>3. after[d].errors = IF d = day THEN log[d].errors + k ELSE log[d].errors
    BY <1>3, <2>1 DEF OnThatDay
  <2>4. g[d - 1] \in Nat /\ log[d].errors \in Nat
    BY <1>4, <1>5, <2>1
  <2>5. h[d] = h[d - 1] + after[d].errors /\ g[d] = g[d - 1] + log[d].errors
    BY <1>4
  <2>6. h[d] = IF day <= d THEN g[d] + k ELSE g[d]
    BY <2>1, <2>2, <2>3, <2>4, <2>5
  <2> QED BY <2>1, <2>6
<1> HIDE DEF Good
<1>8. \A d \in 0..n : d \in Good
  BY <1>3, <1>6, <1>7, InductionUpTo
<1>9. n \in Good /\ n \in 0..n /\ day <= n
  BY <1>3, <1>8
<1>10. h[n] = g[n] + k /\ g[n] \in Nat
  BY <1>4, <1>9 DEF Good
<1> QED BY <1>1, <1>2, <1>10 DEF n

LEMMA SinceTyped ==
    ASSUME MonitoringTypes, NEW day
    PROVE  LogSince(day) \in [AllDays -> DayStats] /\ LoggedErrors(LogSince(day)) \in Nat
<1>1. LogSince(day) \in [AllDays -> DayStats]
  BY DEF MonitoringTypes, LogSince, NoStats, DayStats
<1> DEFINE log == LogSince(day)
<1>2. log \in [AllDays -> DayStats]
  BY <1>1
<1> HIDE DEF log
<1>3. PICK g : LoggedUpTo(g, log) /\ LoggedErrors(log) = g[LastDay]
  BY <1>2, LoggedUnfolds
<1>4. LoggedErrors(log) \in Nat
  BY <1>3, DaysKnown DEF LoggedUpTo, AllDays
<1> QED BY <1>1, <1>4 DEF log

LEMMA TodayKnown == ASSUME ticks \in 0..MaxTicks PROVE Today \in Nat /\ Today \in AllDays
  BY DaysKnown DEF Today, AllDays

LEMMA MonitoringInitInv == MonitoringInit => MonitoringInv
<1> SUFFICES ASSUME MonitoringInit PROVE MonitoringInv
  OBVIOUS
<1>1. /\ \A c \in Codes : recent[c] = <<>> /\ alerts[c] = 0 /\ under[c] = 0 /\ reached[c] = 0
      /\ \A c \in Codes : escalated[c] = FALSE
      /\ Len(<<>>) = 0
  BY DEF MonitoringInit
<1>2. MonitoringTypes
  <2>1. escalated \in [Codes -> BOOLEAN]
    BY Zenon DEF MonitoringInit
  <2>2. recent \in [Codes -> Seq(Nat)] /\ alerts \in Counters /\ under \in Counters /\ reached \in Counters
    BY DEF MonitoringInit, Counters
  <2>3. emitted \in Seq(Due) /\ ticks \in 0..MaxTicks
    BY MonitoringAssumption DEF MonitoringInit
  <2>4. dailyLog \in [AllDays -> DayStats] /\ dayStats \in DayStats /\ lost \in Nat
    BY DEF MonitoringInit, NoStats, DayStats
  <2>5. lastDistillDate = NoDay
    BY DEF MonitoringInit
  <2> QED BY <2>1, <2>2, <2>3, <2>4, <2>5 DEF MonitoringTypes
<1>3. FlagIsSize
  BY <1>1, MonitoringAssumption DEF FlagIsSize
<1>4. LoggedErrors(LogSince(lastDistillDate)) \in Nat /\ dayStats.errors = 0 /\ lost = 0
  BY <1>2, SinceTyped DEF MonitoringInit, NoStats
<1>5. costFile = days
  BY DEF MonitoringInit
<1> QED BY <1>1, <1>2, <1>3, <1>4, <1>5 DEF MonitoringInv, MonitorSound

(* An error is recorded: the window, its flag and its alerts. *)
Windows ==
    /\ recent \in [Codes -> Seq(Nat)] /\ escalated \in [Codes -> BOOLEAN]
    /\ alerts \in Counters /\ under \in Counters /\ reached \in Counters
    /\ FlagIsSize /\ AlertsCounted

LEMMA RecordStep ==
    ASSUME MonitoringInv, NEW code \in Codes, Record(code)
    PROVE  Windows'
<1> DEFINE kept == Only(recent[code], {t \in 0..ticks : ticks - t <= Window})
           window == Append(kept, ticks)
           count == Len(window)
           old == Len(recent[code])
           critical == Severity[code] = "critical"
           lowered == Lowered(code, count)
           alert == ~lowered /\ (critical \/ count >= Threshold)
           meets == old < Threshold /\ Threshold <= count
<1>1. MonitoringTypes /\ FlagIsSize /\ AlertsCounted /\ Threshold \in Nat \ {0}
  BY MonitoringAssumption DEF MonitoringInv, MonitorSound, AlertsCounted
<1>2. window \in Seq(Nat) /\ count \in 1..(old + 1) /\ old \in Nat
  <2>1. recent[code] \in Seq(Nat) /\ ticks \in Nat
    BY <1>1, MonitoringAssumption DEF MonitoringTypes
  <2>2. kept \in Seq(Nat) /\ Len(kept) <= old
    BY <2>1, OnlyType
  <2> HIDE DEF kept
  <2>3. window \in Seq(Nat) /\ count = Len(kept) + 1 /\ Len(kept) \in Nat /\ old \in Nat
    BY <2>1, <2>2
  <2> QED BY <2>2, <2>3
<1>3. /\ recent' = [recent EXCEPT ![code] = window]
      /\ escalated' = [escalated EXCEPT ![code] = lowered \/ alert]
      /\ alerts' = [alerts EXCEPT ![code] = IF alert THEN @ + 1 ELSE @]
      /\ under' = [under EXCEPT ![code] = IF count < Threshold THEN @ + 1 ELSE @]
      /\ reached' = [reached EXCEPT ![code] = IF meets THEN @ + 1 ELSE @]
  BY DEF Record
<1>4. /\ escalated[code] <=> old >= (IF critical THEN 1 ELSE Threshold)
      /\ alerts[code] = IF critical /\ Threshold > 1 THEN under[code] ELSE reached[code]
  BY <1>1 DEF FlagIsSize, AlertsCounted
<1>5. lowered <=> escalated[code] /\ count >= Threshold
  BY DEF Lowered
<1> HIDE DEF window
<1>6. \/ critical /\ Threshold > 1 /\ (alert <=> count < Threshold) /\ (lowered \/ alert)
      \/ critical /\ Threshold = 1 /\ (alert <=> meets) /\ (lowered \/ alert)
      \/ ~critical /\ (alert <=> meets) /\ (lowered \/ alert <=> count >= Threshold)
  BY <1>1, <1>2, <1>4, <1>5
<1> HIDE DEF lowered, alert, meets, count, old, critical
<1>7. escalated' \in [Codes -> BOOLEAN]
  <2>1. (lowered \/ alert) \in BOOLEAN
    OBVIOUS
  <2> QED BY <1>1, <1>3, <2>1 DEF MonitoringTypes
<1>8. recent' \in [Codes -> Seq(Nat)]
  BY <1>1, <1>2, <1>3 DEF MonitoringTypes
<1>9. alerts' \in Counters /\ under' \in Counters /\ reached' \in Counters
  BY <1>1, <1>3 DEF MonitoringTypes, Counters
<1>10. ASSUME NEW c \in Codes
       PROVE  /\ escalated'[c] <=> Len(recent'[c]) >= (IF Severity[c] = "critical" THEN 1 ELSE Threshold)
              /\ alerts'[c] = IF Severity[c] = "critical" /\ Threshold > 1 THEN under'[c] ELSE reached'[c]
  <2>1. CASE c = code
    <3>1. recent'[c] = window /\ (escalated'[c] <=> lowered \/ alert)
      BY <1>1, <1>3, <2>1 DEF MonitoringTypes
    <3>2. /\ alerts'[c] = IF alert THEN alerts[c] + 1 ELSE alerts[c]
          /\ under'[c] = IF count < Threshold THEN under[c] + 1 ELSE under[c]
          /\ reached'[c] = IF meets THEN reached[c] + 1 ELSE reached[c]
      BY <1>1, <1>3, <2>1 DEF MonitoringTypes, Counters
    <3>3. Len(recent'[c]) = count /\ count \in Nat \ {0}
      BY <1>2, <3>1 DEF count
    <3>4. critical <=> Severity[c] = "critical"
      BY <2>1 DEF critical
    <3>5. escalated'[c] <=> count >= (IF critical THEN 1 ELSE Threshold)
      BY <1>6, <3>1, <3>3
    <3>6. alerts'[c] = IF critical /\ Threshold > 1 THEN under'[c] ELSE reached'[c]
      BY <1>1, <1>4, <1>6, <2>1, <3>2
    <3> QED BY <3>3, <3>4, <3>5, <3>6
  <2>2. CASE c # code
    <3>1. /\ recent'[c] = recent[c] /\ escalated'[c] = escalated[c] /\ alerts'[c] = alerts[c]
          /\ under'[c] = under[c] /\ reached'[c] = reached[c]
      BY <1>1, <1>3, <2>2 DEF MonitoringTypes, Counters
    <3> QED BY <1>1, <3>1 DEF FlagIsSize, AlertsCounted
  <2> QED BY <2>1, <2>2
<1> QED BY <1>7, <1>8, <1>9, <1>10 DEF Windows, FlagIsSize, AlertsCounted

(* What a step that leaves the monitor or the log alone keeps. *)
LEMMA WindowsKept == MonitoringInv /\ UNCHANGED windowVars => Windows'
<1> SUFFICES ASSUME MonitoringInv, UNCHANGED windowVars PROVE Windows'
  OBVIOUS
<1>1. FlagIsSize' /\ AlertsCounted'
  BY DEF MonitoringInv, MonitorSound, FlagIsSize, AlertsCounted, windowVars
<1>2. escalated' \in [Codes -> BOOLEAN]
  BY Zenon DEF MonitoringInv, MonitoringTypes, windowVars
<1> QED BY <1>1, <1>2 DEF MonitoringInv, MonitoringTypes, windowVars, Windows

Logs ==
    /\ dailyLog \in [AllDays -> DayStats] /\ dayStats \in DayStats /\ lost \in Nat
    /\ lastDistillDate = NoDay \/ lastDistillDate \in 0..Today
    /\ StatsLogged

(* Days only go on. *)
LEMMA DivMono ==
    ASSUME NEW a \in Nat, NEW b \in Nat, a <= b, NEW d \in Nat \ {0}
    PROVE  a \div d \in Nat /\ a \div d <= b \div d
<1> DEFINE p == a \div d
           q == b \div d
<1>1. p \in Int /\ q \in Int /\ p * d <= a /\ b < q * d + d /\ a \in Nat
  OBVIOUS
<1>2. a < p * d + d
  OBVIOUS
<1> HIDE DEF p, q
<1>3. ASSUME q < p PROVE FALSE
  <2>1. q + 1 <= p
    BY <1>1, <1>3
  <2>2. (q + 1) * d <= p * d
    BY <1>1, <2>1
  <2>3. q * d + d <= p * d
    BY <1>1, <2>2
  <2>4. q * d \in Int /\ p * d \in Int
    BY <1>1
  <2> QED BY <1>1, <2>3, <2>4
<1>4. p >= 0
  BY <1>1, <1>2
<1> QED BY <1>1, <1>3, <1>4 DEF p, q

LEMMA LogsKept ==
    ASSUME MonitoringInv, UNCHANGED logVars, ticks' \in 0..MaxTicks, ticks' >= ticks
    PROVE  Logs'
<1>1. StatsLogged'
  BY DEF MonitoringInv, MonitorSound, StatsLogged, LoggedErrors, LogSince, logVars
<1>2. Today \in Nat /\ Today' \in Nat /\ Today <= Today'
  <2>1. ticks \in Nat /\ ticks' \in Nat /\ DayLength \in Nat \ {0}
    BY MonitoringAssumption DEF MonitoringInv, MonitoringTypes
  <2>2. PICK a, b, d : a = ticks /\ b = ticks' /\ d = DayLength
    OBVIOUS
  <2>3. a \in Nat /\ b \in Nat /\ a <= b /\ d \in Nat \ {0}
    BY <2>1, <2>2
  <2>4. a \div d \in Nat /\ a \div d <= b \div d /\ b \div d \in Nat
    BY <2>3, DivMono
  <2>5. Today = a \div d /\ Today' = b \div d
    BY <2>2 DEF Today
  <2> QED BY <2>4, <2>5
<1> QED BY <1>1, <1>2 DEF MonitoringInv, MonitoringTypes, logVars, Logs

(* The stats are reset: there is nothing that the log must show. *)
LEMMA LogsReset ==
    ASSUME MonitoringInv, UNCHANGED <<dailyLog, ticks>>, dayStats' = NoStats, lost' = 0,
           lastDistillDate' \in {NoDay, Today}
    PROVE  Logs'
<1>1. MonitoringTypes
  BY DEF MonitoringInv
<1> DEFINE log == LogSince(lastDistillDate')
<1>2. LoggedErrors(log) \in Nat
  BY <1>1, SinceTyped
<1>3. LogSince(lastDistillDate)' = log
  BY DEF LogSince
<1>4. LoggedErrors(LogSince(lastDistillDate))' = LoggedErrors(log)
  BY <1>3 DEF LoggedErrors
<1> HIDE DEF log
<1>5. StatsLogged'
  BY <1>2, <1>4 DEF StatsLogged, NoStats
<1>6. lastDistillDate' = NoDay \/ lastDistillDate' \in 0..Today'
  BY <1>1, TodayKnown DEF Today, MonitoringTypes
<1>7. dayStats' \in DayStats
  BY DEF NoStats, DayStats
<1> QED BY <1>1, <1>5, <1>6, <1>7 DEF Logs, MonitoringTypes

(* The handler of the daily log: one in the stats, and a line in a day's   *)
(* file or one more that is lost.                                          *)
LEMMA LogEventStep ==
    ASSUME MonitoringInv, NEW event \in {"executor:complete", "executor:error"}, NEW ok \in BOOLEAN,
           LogEvent(event, ok), ticks' = ticks
    PROVE  Logs'
<1> DEFINE k == IF event = "executor:error" THEN 1 ELSE 0
           written == IF ok THEN k ELSE 0
<1>1. MonitoringTypes /\ Today \in AllDays /\ Today \in Nat
  BY TodayKnown DEF MonitoringInv, MonitoringTypes
<1>2. ASSUME NEW stats \in DayStats
      PROVE  Counted(stats, event) \in DayStats /\ Counted(stats, event).errors = stats.errors + k
  BY DEF Counted, DayStats
<1>3. /\ dailyLog' = IF ok THEN [dailyLog EXCEPT ![Today] = Counted(dailyLog[Today], event)] ELSE dailyLog
      /\ dayStats' = Counted(dayStats, event)
      /\ lost' = IF ok THEN lost ELSE lost + k
      /\ UNCHANGED lastDistillDate
  BY <1>1 DEF LogEvent, MonitoringTypes
<1>4. k \in Nat /\ written \in Nat
  OBVIOUS
<1>5. dailyLog \in [AllDays -> DayStats] /\ dayStats \in DayStats /\ lost \in Nat
  BY <1>1 DEF MonitoringTypes
<1> HIDE DEF k
<1>6. dayStats' \in DayStats /\ dayStats'.errors = dayStats.errors + k
  BY <1>2, <1>3, <1>5
<1>7. dailyLog' \in [AllDays -> DayStats]
  BY <1>1, <1>2, <1>3, <1>5
<1>8. \A d \in AllDays : dailyLog'[d].errors = IF d = Today THEN dailyLog[d].errors + written ELSE dailyLog[d].errors
  BY <1>1, <1>2, <1>3, <1>4, <1>5 DEF DayStats
<1>9. PICK log, after, day : log = LogSince(lastDistillDate) /\ after = LogSince(lastDistillDate)' /\ day = Today
  OBVIOUS
<1>10. day \in AllDays /\ ~(lastDistillDate # NoDay /\ day < lastDistillDate)
  BY <1>1, <1>9 DEF MonitoringTypes
<1>11. /\ log = [d \in AllDays |-> IF lastDistillDate # NoDay /\ d < lastDistillDate THEN NoStats ELSE dailyLog[d]]
       /\ after = [d \in AllDays |-> IF lastDistillDate # NoDay /\ d < lastDistillDate THEN NoStats ELSE dailyLog'[d]]
  BY <1>3, <1>9 DEF LogSince
<1>12. log \in [AllDays -> DayStats] /\ after \in [AllDays -> DayStats]
  BY <1>5, <1>7, <1>11 DEF NoStats, DayStats
<1>13. OnThatDay(log, after, day, written)
  BY <1>8, <1>9, <1>10, <1>11 DEF OnThatDay
<1>14. LoggedErrors(log) \in Nat /\ LoggedErrors(after) = LoggedErrors(log) + written
  BY <1>4, <1>10, <1>12, <1>13, LoggedOneMore
<1>15. LoggedErrors(LogSince(lastDistillDate)) = LoggedErrors(log)
       /\ LoggedErrors(LogSince(lastDistillDate))' = LoggedErrors(after)
  BY <1>9 DEF LoggedErrors
<1>16. dayStats.errors \in Nat /\ dayStats.errors <= LoggedErrors(log) + lost
  BY <1>5, <1>15 DEF DayStats, MonitoringInv, MonitorSound
<1>17. lost' \in Nat /\ k + LoggedErrors(log) + lost = LoggedErrors(after) + lost'
  BY <1>3, <1>4, <1>5, <1>14
<1>18. StatsLogged'
  BY <1>4, <1>5, <1>6, <1>14, <1>15, <1>16, <1>17 DEF StatsLogged
<1> QED BY <1>1, <1>3, <1>6, <1>7, <1>17, <1>18 DEF Logs, MonitoringTypes, Today

LEMMA MonitoringInvStep ==
    ASSUME MonitoringInv, [MonitoringNext]_monitoringVars
    PROVE  MonitoringInv'
<1> USE DEF errorVars, costVars
<1>0. MonitoringTypes /\ CostsOnDisk
  BY DEF MonitoringInv, MonitorSound, CostsOnDisk
<1> DEFINE Time == emitted' \in Seq(Due) /\ ticks' \in 0..MaxTicks
           Keeps == Time /\ Windows' /\ Logs' /\ CostsOnDisk'
<1>1. SUFFICES Keeps
  BY DEF MonitoringInv, MonitoringTypes, MonitorSound, Windows, Logs, AlertsCounted, StatsLogged, CostsOnDisk
<1>2. UNCHANGED windowVars => Windows'
  BY WindowsKept
<1>3. ASSUME UNCHANGED <<logVars, ticks>> PROVE Logs'
  <2>1. ticks' \in 0..MaxTicks /\ ticks' >= ticks
    BY <1>0, <1>3, MonitoringAssumption DEF MonitoringTypes
  <2> QED BY <1>3, <2>1, LogsKept
<1>4. UNCHANGED costVars => CostsOnDisk'
  BY <1>0 DEF CostsOnDisk
<1>5. UNCHANGED <<emitted, ticks>> => Time
  BY <1>0 DEF MonitoringTypes
<1>6. \A code \in Codes : Record(code) => Windows'
  BY RecordStep
<1>7. \A event \in {"executor:complete", "executor:error"}, ok \in BOOLEAN :
        LogEvent(event, ok) /\ ticks' = ticks => Logs'
  BY LogEventStep
<1>8. UNCHANGED ticks /\ emitted' \in Seq(Due) => Time
  BY <1>0 DEF MonitoringTypes
<1> HIDE DEF Time
<1>9. ASSUME NEW event \in {"executor:complete", "executor:error"}, Emit(event) PROVE Keeps
  <2>1. emitted' \in Seq(Due)
    <3>1. emitted \in Seq(Due)
      BY <1>0 DEF MonitoringTypes
    <3>2. /\ [to |-> "dailyLog", event |-> event] \in Due
          /\ [to |-> "monitor", event |-> event] \in Due
      BY DEF Due
    <3>3. CASE event = "executor:error"
      BY <1>9, <3>1, <3>2, <3>3 DEF Emit
    <3>4. CASE event # "executor:error"
      BY <1>9, <3>1, <3>2, <3>4 DEF Emit
    <3> QED BY <3>3, <3>4
  <2> QED BY <1>2, <1>3, <1>4, <1>8, <1>9, <2>1 DEF Emit
<1>10. ASSUME NEW ok \in BOOLEAN, Handle(ok) PROVE Keeps
  <2>1. emitted \in Seq(Due) /\ emitted # <<>> /\ emitted' = Tail(emitted) /\ Head(emitted) \in Due
    BY <1>0, <1>10 DEF Handle, MonitoringTypes
  <2>2. emitted' \in Seq(Due)
    BY <2>1
  <2>3. Head(emitted).event \in {"executor:complete", "executor:error"}
    BY <2>1 DEF Due
  <2>4. CASE Head(emitted).to = "dailyLog"
    BY <1>2, <1>4, <1>7, <1>8, <1>10, <2>2, <2>3, <2>4 DEF Handle
  <2>5. CASE Head(emitted).to # "dailyLog"
    BY <1>3, <1>4, <1>6, <1>8, <1>10, <2>2, <2>5 DEF Handle, Codes
  <2> QED BY <2>4, <2>5
<1>11. ASSUME Uncaught PROVE Keeps
  BY <1>3, <1>4, <1>5, <1>6, <1>11 DEF Uncaught, Codes
<1>12. ASSUME Flush PROVE Keeps
  BY <1>2, <1>3, <1>4, <1>5, <1>12 DEF Flush
<1>13. ASSUME NEW ok \in BOOLEAN, Flushed(ok) PROVE Keeps
  BY <1>2, <1>3, <1>4, <1>5, <1>13 DEF Flushed
<1>14. ASSUME NEW ok \in BOOLEAN, CheckDistill(ok) PROVE Keeps
  BY <1>2, <1>4, <1>5, <1>14, LogsReset DEF CheckDistill
<1>15. ASSUME NEW ok \in BOOLEAN, RecordCost(ok) \/ ResetCost(ok) PROVE Keeps
  <2>1. Persist(ok) /\ UNCHANGED <<errorVars, logVars, emitted, ticks>>
    BY <1>15 DEF RecordCost, ResetCost
  <2>2. CostsOnDisk'
    BY <2>1 DEF Persist, CostsOnDisk
  <2> QED BY <1>2, <1>3, <1>5, <2>1, <2>2
<1>16. ASSUME Advance PROVE Keeps
  <2>1. ticks' \in 0..MaxTicks /\ ticks' >= ticks
    BY <1>0, <1>16, MonitoringAssumption DEF Advance, MonitoringTypes
  <2>2. Time
    BY <1>0, <1>16, <2>1 DEF Advance, MonitoringTypes, Time
  <2>3. Logs'
    BY <1>16, <2>1, LogsKept DEF Advance
  <2> QED BY <1>2, <1>4, <1>16, <2>2, <2>3 DEF Advance
<1>17. ASSUME StartAgain PROVE Keeps
  <2>1. Windows'
    <3>1. /\ \A c \in Codes : recent'[c] = <<>> /\ escalated'[c] = FALSE
          /\ \A c \in Codes : alerts'[c] = 0 /\ under'[c] = 0 /\ reached'[c] = 0
          /\ Len(<<>>) = 0
      BY <1>17 DEF StartAgain
    <3>2. escalated' \in [Codes -> BOOLEAN]
      BY <1>17, Zenon DEF StartAgain
    <3>3. recent' \in [Codes -> Seq(Nat)] /\ alerts' \in Counters /\ under' \in Counters /\ reached' \in Counters
      BY <1>17 DEF StartAgain, Counters
    <3>4. FlagIsSize' /\ AlertsCounted'
      BY <3>1, MonitoringAssumption DEF FlagIsSize, AlertsCounted
    <3> QED BY <3>2, <3>3, <3>4 DEF Windows
  <2>2. emitted' \in Seq(Due) /\ CostsOnDisk'
    BY <1>17 DEF StartAgain, CostsOnDisk
  <2>3. Logs'
    BY <1>17, LogsReset DEF StartAgain
  <2> QED BY <1>8, <1>17, <2>1, <2>2, <2>3 DEF StartAgain
<1>18. ASSUME UNCHANGED monitoringVars PROVE Keeps
  BY <1>2, <1>3, <1>4, <1>5, <1>18 DEF monitoringVars
<1> QED
  BY <1>9, <1>10, <1>11, <1>12, <1>13, <1>14, <1>15, <1>16, <1>17, <1>18 DEF MonitoringNext

(* monitoring/error-monitor.ts:220, for every threshold, window and number of   *)
(* events: a warning alerts each time it reaches the threshold from under it    *)
(* and at no other time, a critical error whenever it is under it; the costs    *)
(* are on disk unless the write failed, and the errors in the stats are in the  *)
(* log since they were reset, but for the lines that failed.                    *)
THEOREM MonitorSoundCorrect == MonitoringSpec => []MonitorSound
<1>1. MonitoringInv => MonitorSound
  BY DEF MonitoringInv
<1> QED
  BY <1>1, MonitoringInitInv, MonitoringInvStep, PTL DEF MonitoringSpec
=============================================================================
