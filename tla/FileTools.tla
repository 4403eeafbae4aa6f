----------------------------- MODULE FileTools -----------------------------
(***************************************************************************)
(* The read, write and edit tools (tools/builtin/) over one file, with the *)
(* staleness check of tools/file-state.ts and the timeout of               *)
(* tools/build-tool.ts.  What the tools know of a file is kept once per    *)
(* process, and sessions and sub-agents all use it; users, linters and     *)
(* shell commands change the file meanwhile.                               *)
(*                                                                         *)
(* A text is a member of Texts.  now is the clock that mtimes are taken    *)
(* from: two writes within one of its instants have the same mtime.  What  *)
(* others put in the file's place may keep an mtime of its own (mv, cp -p, *)
(* an archive), older than that of the file it replaces.  A path the       *)
(* policy refuses (tools/policy.ts) reaches none of this.                  *)
(***************************************************************************)
EXTENDS Naturals, FiniteSets

CONSTANTS Updates,    \* write and edit calls that may overlap
          Texts,      \* contents of the file
          NoText,     \* the file does not exist
          MaxMtime,   \* bound: instants
          MaxReads    \* reads of an unchanged file until they are refused

ASSUME FileAssumption == NoText \notin Texts /\ MaxMtime \in Nat

VARIABLES file,       \* the file: its text and mtime
          now,
          fileState,  \* fileStateMap: what the tools hold of the file
          readTracker,\* mtime of the last read, by what was read: the whole file or a part
          readCount,  \* consecutiveReadCount
          update,     \* calls between their check and their rename
          seen        \* texts a tool has returned or written (history)

fileVars == <<file, now, fileState, readTracker, readCount, update, seen>>

Views == {"whole", "part"}
NoState == [text |-> NoText, mtime |-> 0, view |-> "none"]
NoUpdate == [active |-> FALSE, base |-> NoText, text |-> NoText, replaced |-> {}]

FileInit ==
    /\ file \in [text : Texts \cup {NoText}, mtime : {0}]
    /\ now = 0
    /\ fileState = NoState
    /\ readTracker = [v \in Views |-> MaxMtime + 1]
    /\ readCount = 0
    /\ update = [u \in Updates |-> NoUpdate]
    /\ seen = {}
-----------------------------------------------------------------------------
(* Mutant: an mtime that moved is taken for a false alarm after any read. *)
checkFileStaleness_AnyView == fileState.view # "none"

(* the verdict "fresh": the file was read, and either it is as old as it was
   then, or the whole of it was read and the text is the same *)
checkFileStaleness ==
    /\ fileState.view # "none"
    /\ file.mtime > fileState.mtime => fileState.view = "whole" /\ file.text = fileState.text

Unchanged(view) == readTracker[view] = file.mtime

(* a read of what was last read at this mtime returns a line instead of the text,
   with a warning the third time and as an error from the MaxReads-th on, where
   the count stops to matter *)
ReadUnchanged(view) ==
    /\ file.text # NoText /\ Unchanged(view)
    /\ readCount < MaxReads
    /\ readCount' = readCount + 1
    /\ UNCHANGED <<file, now, fileState, readTracker, update, seen>>

Read(view) ==
    /\ file.text # NoText /\ ~Unchanged(view)
    /\ readTracker' = [readTracker EXCEPT ![view] = file.mtime]
    /\ readCount' = 0
    /\ fileState' = [text |-> file.text, mtime |-> file.mtime, view |-> view]
    /\ seen' = seen \cup {file.text}
    /\ UNCHANGED <<file, now, update>>

Starts(u, text) ==
    /\ update' = [update EXCEPT ![u] = [active |-> TRUE, base |-> file.text, text |-> text, replaced |-> {}]]
    /\ UNCHANGED <<file, now, fileState, readTracker, readCount, seen>>

(* write: an existing file must be fresh, a new one need not *)
BeginWrite(u, text) ==
    /\ ~update[u].active
    /\ file.text # NoText => checkFileStaleness
    /\ Starts(u, text)

(* edit: the file must exist and be fresh, and the old string be in it, so that
   the text changes *)
BeginEdit(u, text) ==
    /\ ~update[u].active
    /\ file.text # NoText /\ checkFileStaleness
    /\ text # file.text
    /\ Starts(u, text)

(* the temporary file is written: it is renamed, also when the tool has timed out *)
EndUpdate(u) ==
    /\ update[u].active
    /\ file' = [text |-> update[u].text, mtime |-> now]
    /\ fileState' = [text |-> update[u].text, mtime |-> now, view |-> "whole"]
    /\ update' = [v \in Updates |-> IF v = u THEN NoUpdate
                                    ELSE IF update[v].active THEN [update[v] EXCEPT !.replaced = @ \cup {update[u].text}] ELSE update[v]]
    /\ seen' = seen \cup {update[u].text}
    /\ UNCHANGED <<now, readTracker, readCount>>

(* somebody else writes, touches or removes the file, or puts another in its place
   that was last written at any time before *)
ChangedOutside(text, mtime) ==
    /\ text = NoText => mtime = now
    /\ file' = [text |-> text, mtime |-> mtime]
    /\ file' # file
    /\ update' = [v \in Updates |-> IF update[v].active THEN [update[v] EXCEPT !.replaced = @ \cup {text}] ELSE update[v]]
    /\ UNCHANGED <<now, fileState, readTracker, readCount, seen>>

Tick ==
    /\ now < MaxMtime
    /\ now' = now + 1
    /\ UNCHANGED <<file, fileState, readTracker, readCount, update, seen>>

FileNext ==
    \/ \E view \in Views : Read(view) \/ ReadUnchanged(view)
    \/ \E u \in Updates, text \in Texts : BeginWrite(u, text) \/ BeginEdit(u, text)
    \/ \E u \in Updates : EndUpdate(u)
    \/ \E text \in Texts \cup {NoText} : \E mtime \in 0..now : ChangedOutside(text, mtime)
    \/ Tick

FileSpec == FileInit /\ [][FileNext]_fileVars
-----------------------------------------------------------------------------
(* tools/file-state.ts:5, write.ts and edit.ts over read.ts: an update may only *)
(* replace a text that a tool returned or wrote before (so that the model knew  *)
(* it), one that came while the update was under way, after its check, or one   *)
(* whose mtime is no later than that of the last read, which file-state.ts:67   *)
(* takes for the text that was read: written in the same instant, or moved in.  *)
SeenBeforeReplaced ==
    [][\A u \in Updates : update[u].active /\ ~update'[u].active =>
            file.text \in seen \cup update[u].replaced \cup {NoText} \/ file.mtime <= fileState.mtime]_fileVars
=============================================================================
