----------------------------- MODULE Checkpoint -----------------------------
(***************************************************************************)
(* The checkpoint tool (tools/builtin/checkpoint.ts) for one work tree: a  *)
(* shadow repository of commits, one ShadowCheckpoint per work tree and    *)
(* process, which remembers that it has taken a snapshot this turn.        *)
(* Nothing ends a turn: resetCheckpointTurn has no caller.  A process that *)
(* starts again forgets.                                                   *)
(*                                                                         *)
(* A tree maps the files that exist to their texts; a commit is a tree.    *)
(* The calls of the git program are atomic and may fail where the code     *)
(* goes on after a failure.                                                *)
(***************************************************************************)
EXTENDS Naturals, Sequences, FiniteSets

CONSTANTS Files,
          FileTexts,
          MaxCommits,   \* bound
          MaxFileCount  \* files a snapshot takes (MAX_FILE_COUNT)

ASSUME CommitAssumption == MaxCommits \in Nat /\ MaxFileCount \in Nat

VARIABLES tree,          \* the work tree
          commits,       \* of the shadow repository, the head last; <<>> before init
          turnSnapshots, \* a snapshot was taken this turn
          answer         \* what the last call returned: an action and the commit it named

checkpointVars == <<tree, commits, turnSnapshots, answer>>

Trees == UNION {[S -> FileTexts] : S \in SUBSET Files}
NoAnswer == [action |-> "none", commit |-> 0]

CheckpointInit ==
    /\ tree \in Trees
    /\ commits = <<>>
    /\ turnSnapshots = FALSE
    /\ answer = NoAnswer

(* the first use of the repository commits what is there *)
ensureRepo == IF commits = <<>> THEN <<tree>> ELSE commits

Dirty(repo) == tree # repo[Len(repo)]

(* countFiles stops as soon as there are more than that *)
TooMany == Cardinality(DOMAIN tree) > MaxFileCount

(* a snapshot is refused for too many files, skipped when one was taken this turn
   or nothing changed, and else made; the head is what it returns in any case *)
snapshot ==
    /\ LET repo == ensureRepo
           made == ~TooMany /\ ~turnSnapshots /\ Dirty(repo) IN
       /\ Len(repo) < MaxCommits
       /\ commits' = IF made THEN Append(repo, tree) ELSE repo
       /\ turnSnapshots' = (turnSnapshots \/ made)
       /\ answer' = IF TooMany THEN NoAnswer ELSE [action |-> "snapshot", commit |-> Len(commits')]
    /\ UNCHANGED tree

(* Mutant: the snapshot before a restore is skipped like any other. *)
preRestoreSnapshot_Turn(repo) ==
    IF Dirty(repo) /\ ~turnSnapshots THEN Append(repo, tree) ELSE repo

(* the snapshot before a restore asks neither for the turn nor for the number of files *)
preRestoreSnapshot(repo) ==
    IF Dirty(repo) THEN Append(repo, tree) ELSE repo

(* git checkout <hash> -- . brings back the files of that commit and leaves the others *)
Checkout(commit) ==
    [f \in DOMAIN tree \cup DOMAIN commit |-> IF f \in DOMAIN commit THEN commit[f] ELSE tree[f]]

(* a failure to take the snapshot is logged, and the restore goes on *)
restore(i, failed) ==
    LET repo == ensureRepo IN
    /\ i \in DOMAIN repo
    /\ Len(repo) < MaxCommits
    /\ commits' = IF failed THEN repo ELSE preRestoreSnapshot(repo)
    /\ tree' = Checkout(repo[i])
    /\ answer' = [action |-> IF failed THEN "unsaved restore" ELSE "restore", commit |-> i]
    /\ UNCHANGED turnSnapshots

(* list and diff make the repository too *)
Show ==
    /\ commits = <<>>
    /\ commits' = ensureRepo
    /\ answer' = NoAnswer
    /\ UNCHANGED <<tree, turnSnapshots>>

Work ==
    /\ tree' \in Trees \ {tree}
    /\ answer' = NoAnswer
    /\ UNCHANGED <<commits, turnSnapshots>>

Restart ==
    /\ turnSnapshots
    /\ turnSnapshots' = FALSE
    /\ answer' = NoAnswer
    /\ UNCHANGED <<tree, commits>>

CheckpointNext ==
    \/ snapshot
    \/ \E i \in 1..MaxCommits, failed \in BOOLEAN : restore(i, failed)
    \/ Show
    \/ Work
    \/ Restart

CheckpointSpec == CheckpointInit /\ [][CheckpointNext]_checkpointVars
-----------------------------------------------------------------------------
(* tools/builtin/checkpoint.ts:144, "Auto-snapshot before rollback             *)
(* (undo-the-undo)": unless git failed, what was in the work tree before a     *)
(* restore can be brought back after it, whatever was or was not snapshot      *)
(* before, and the restore brings back every file of the commit asked for.     *)
RestoreUndoable ==
    [][answer'.action = "restore" =>
         /\ \E i \in DOMAIN commits' : commits'[i] = tree
         /\ \A f \in DOMAIN commits'[answer'.commit] : f \in DOMAIN tree' /\ tree'[f] = commits'[answer'.commit][f]]_checkpointVars
=============================================================================
