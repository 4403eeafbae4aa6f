----------------------------- MODULE SkillSynth -----------------------------
(***************************************************************************)
(* The extraction of skills from successful runs (skills/skill-synth.ts),  *)
(* hooked to the end of every execution of every session: one extraction   *)
(* at a time, on a timer, with a call of the model in the middle; three    *)
(* failures in a row switch it off until the process starts again.         *)
(*                                                                         *)
(* A skill is its name; Alike says which names have descriptions that      *)
(* count as the same.  What ran is a choice: whether its tools were enough *)
(* and all succeeded.                                                      *)
(***************************************************************************)
EXTENDS Naturals, FiniteSets

CONSTANTS Runs,         \* executions that end
          SkillNames,
          Alike,        \* pairs of names with like descriptions
          MaxFailures   \* MAX_CONSECUTIVE_FAILURES

ASSUME SynthAssumption == MaxFailures \in Nat \ {0} /\ Alike \subseteq SkillNames \X SkillNames

VARIABLES extracting,           \* the slot
          consecutiveFailures,
          extractorDisabled,
          extraction,           \* how far the run's extraction is
          proposal,             \* the name the model proposed
          existing              \* skills on disk

synthVars == <<extracting, consecutiveFailures, extractorDisabled, extraction, proposal, existing>>

NoName == "none"

SynthInit ==
    /\ extracting = FALSE /\ consecutiveFailures = 0 /\ extractorDisabled = FALSE
    /\ extraction = [r \in Runs |-> "none"]
    /\ proposal = [r \in Runs |-> NoName]
    /\ existing \in SUBSET SkillNames
-----------------------------------------------------------------------------
(* Mutant: the slot is claimed by the timer's callback. *)
Claimed_Later == extracting

(* the slot is claimed before the timer is set *)
Claimed == TRUE

Skip(r) ==
    /\ extraction' = [extraction EXCEPT ![r] = "skipped"]
    /\ UNCHANGED <<extracting, consecutiveFailures, extractorDisabled, proposal, existing>>

(* executor:complete; enough calls of tools, all of which succeeded, and a prompt *)
Completed(r, worth) ==
    /\ extraction[r] = "none"
    /\ IF extractorDisabled \/ extracting \/ ~worth
       THEN Skip(r)
       ELSE /\ extracting' = Claimed
            /\ extraction' = [extraction EXCEPT ![r] = "timer"]
            /\ UNCHANGED <<consecutiveFailures, extractorDisabled, proposal, existing>>

(* the timer fires: the model is asked *)
runExtraction(r) ==
    /\ extraction[r] = "timer"
    /\ extraction' = [extraction EXCEPT ![r] = "asking"]
    /\ UNCHANGED <<extracting, consecutiveFailures, extractorDisabled, proposal, existing>>

Ends(r) ==
    /\ extraction' = [extraction EXCEPT ![r] = "ended"]
    /\ extracting' = FALSE

recordExtractionFailure ==
    /\ consecutiveFailures' = consecutiveFailures + 1
    /\ extractorDisabled' = (extractorDisabled \/ consecutiveFailures + 1 >= MaxFailures)

(* network, status, JSON, no content, or content that is not JSON *)
AnswerFails(r) ==
    /\ extraction[r] = "asking"
    /\ recordExtractionFailure
    /\ Ends(r)
    /\ UNCHANGED <<proposal, existing>>

skillCollides(name) == name \in existing \/ \E e \in existing : <<e, name>> \in Alike

(* an answer ends the row of failures; it may propose nothing, something invalid
   (NoName), or a skill, which is dropped when there is one like it, and else
   written: the check and the start of the write are one step *)
Answered(r, name) ==
    /\ extraction[r] = "asking"
    /\ consecutiveFailures' = 0
    /\ IF name = NoName \/ skillCollides(name)
       THEN Ends(r) /\ UNCHANGED proposal
       ELSE /\ extraction' = [extraction EXCEPT ![r] = "saving"]
            /\ proposal' = [proposal EXCEPT ![r] = name]
            /\ UNCHANGED extracting
    /\ UNCHANGED <<extractorDisabled, existing>>

(* the rename of saveSkill, or its failure *)
Saved(r) ==
    /\ extraction[r] = "saving"
    /\ existing' = existing \cup {proposal[r]}
    /\ Ends(r)
    /\ UNCHANGED <<consecutiveFailures, extractorDisabled, proposal>>

SaveFails(r) ==
    /\ extraction[r] = "saving"
    /\ recordExtractionFailure
    /\ Ends(r)
    /\ UNCHANGED <<proposal, existing>>

(* the agent or the user makes or removes a skill *)
Others(name) ==
    /\ existing' = IF name \in existing THEN existing \ {name} ELSE existing \cup {name}
    /\ UNCHANGED <<extracting, consecutiveFailures, extractorDisabled, extraction, proposal>>

SynthNext ==
    \/ \E r \in Runs, worth \in BOOLEAN : Completed(r, worth)
    \/ \E r \in Runs : runExtraction(r) \/ AnswerFails(r) \/ Saved(r) \/ SaveFails(r)
    \/ \E r \in Runs, name \in SkillNames \cup {NoName} : Answered(r, name)
    \/ \E name \in SkillNames : Others(name)

SynthSpec == SynthInit /\ [][SynthNext]_synthVars
-----------------------------------------------------------------------------
Underway == {r \in Runs : extraction[r] \in {"timer", "asking", "saving"}}

(* skills/skill-synth.ts:112, "so a rapid second event can't slip past": the    *)
(* slot is taken exactly while one extraction is under way, whatever failed or  *)
(* ended in between, so that two never write at once and the slot is never lost;*)
(* the row of failures switches it off, and nothing else does.                  *)
OneExtraction ==
    /\ Cardinality(Underway) = IF extracting THEN 1 ELSE 0
    /\ consecutiveFailures >= MaxFailures => extractorDisabled
=============================================================================
