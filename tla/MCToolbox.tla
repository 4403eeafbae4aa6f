----------------------------- MODULE MCToolbox -----------------------------
(***************************************************************************)
(* What a turn calls upon (agents, files, checkpoints, images, skills,     *)
(* memories) and the monitoring beside it, checked in one run.  A          *)
(* behaviour moves one of these parts, which share no state; the costs     *)
(* share only the clock with the rest of the monitoring.                   *)
(***************************************************************************)
EXTENDS Coordinator, FileTools, Checkpoint, Ocr, Monitoring, SkillStore, SkillSync, SkillSynth,
        Memory, TLC

CONSTANTS Harmless, Critical   \* the texts of the skill

VARIABLE part

toolVars  == <<coordinatorVars, fileVars, checkpointVars, ocrVars, monitoringVars>>
skillAndMemoryVars == <<skillVars, syncVars, synthVars, memoryVars>>

MCInit ==
    /\ part \in {"agents", "files", "checkpoints", "images", "monitoring", "costs",
                 "store", "sync", "synth", "memory"}
    /\ CoordinatorInit /\ FileInit /\ CheckpointInit /\ OcrInit /\ MonitoringInit
    /\ SkillInit /\ SyncInit /\ SynthInit /\ MemoryInit
    /\ part # "files" => file.text = NoText
    /\ part # "checkpoints" => tree = <<>>
    /\ part # "store" => ~skill.there
    /\ part # "sync" => bundled = Absent /\ dest = Absent /\ manifest = Absent
    /\ part # "synth" => existing = {}

ToolNext ==
    \/ part = "agents" /\ CoordinatorNext /\ UNCHANGED <<fileVars, checkpointVars, ocrVars, monitoringVars>>
    \/ part = "files" /\ FileNext /\ UNCHANGED <<coordinatorVars, checkpointVars, ocrVars, monitoringVars>>
    \/ part = "checkpoints" /\ CheckpointNext /\ UNCHANGED <<coordinatorVars, fileVars, ocrVars, monitoringVars>>
    \/ part = "images" /\ OcrNext /\ UNCHANGED <<coordinatorVars, fileVars, checkpointVars, monitoringVars>>
    \/ /\ part \in {"monitoring", "costs"} /\ MonitoringNext
       /\ IF part = "costs" THEN UNCHANGED <<emitted, errorVars, logVars>> ELSE UNCHANGED costVars
       /\ UNCHANGED <<coordinatorVars, fileVars, checkpointVars, ocrVars>>

StoreNext ==
    \/ part = "store" /\ SkillNext /\ UNCHANGED <<syncVars, synthVars, memoryVars>>
    \/ part = "sync" /\ SyncNext /\ UNCHANGED <<skillVars, synthVars, memoryVars>>
    \/ part = "synth" /\ SynthNext /\ UNCHANGED <<skillVars, syncVars, memoryVars>>
    \/ part = "memory" /\ MemoryNext /\ UNCHANGED <<skillVars, syncVars, synthVars>>

MCNext ==
    /\ UNCHANGED part
    /\ \/ ToolNext /\ UNCHANGED skillAndMemoryVars
       \/ StoreNext /\ UNCHANGED toolVars

Two == [p \in Posts |-> 2]
Findings == [t \in Bodies \cup Extras |-> IF t = Harmless THEN 0 ELSE IF t = Critical THEN 4 ELSE 2]
OnePair == {<<"a", "b">>}
NoteStems == [n \in Notes |-> IF n = "a b" THEN "a_b" ELSE n]

\* The traces of runs that the review tells apart.
ToolCall(kind, ok) == [kind |-> kind, ok |-> ok]
SomeTraces == {<<ToolCall("tool-as-script", TRUE)>>,
               <<ToolCall("read-secret", FALSE), ToolCall("grep", TRUE)>>}
SomeEndings == {{}, {"phrase"}}
SomeExtracts == {{"todo", "project"}}
MadeUp == {Name("misuse", "tool-as-script", 1)}

Symmetry == Permutations(Updates)
=============================================================================
