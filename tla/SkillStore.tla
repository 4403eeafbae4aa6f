----------------------------- MODULE SkillStore -----------------------------
(***************************************************************************)
(* One skill on disk (skills/store.ts), the calls of skill_manage that     *)
(* create, edit, patch and delete it or write files beside it              *)
(* (tools/builtin/skill_manage.ts), and the count of its uses, rewritten   *)
(* whenever skill_open shows it.  Reading and checking is synchronous, a   *)
(* write goes to a temporary file and is renamed when that is done: the    *)
(* calls of several sessions and the user's editor come in between.        *)
(*                                                                         *)
(* SKILL.md is its body, the content_hash of its frontmatter (the body     *)
(* that was hashed), and its author (created_by, which trust follows).  Of *)
(* the scanners (skills/scanner.ts, skills/guard.ts) the tables of         *)
(* patterns are left out: a text has the worst severity found in it.       *)
(***************************************************************************)
EXTENDS Naturals

CONSTANTS Calls,      \* calls that may overlap
          Bodies,     \* texts of the skill
          Extras,     \* texts of the file beside it
          WorstFinding,   \* the worst finding in each text: 0 none, 1 low, 2 medium, 3 high, 4 critical
          Authors,    \* what created_by may be: "agent", "user", "system"
          None        \* no hash, no file, no call

Kinds == {"create", "edit", "patch", "write_file", "bump"}

ASSUME SkillAssumption ==
    /\ None \notin Bodies \cup Extras \cup Kinds
    /\ WorstFinding \in [Bodies \cup Extras -> 0..4]

VARIABLES skill,  \* SKILL.md
          extra,  \* the supporting file
          call,   \* what each call is about to rename, and the texts of SKILL.md since it began (history)
          saved   \* texts that creates and edits have put there (history)

skillVars == <<skill, extra, call, saved>>

Skill(body, hash, author) == [there |-> TRUE, body |-> body, hash |-> hash, author |-> author]
NoSkill == [there |-> FALSE, body |-> None, hash |-> None, author |-> None]
NoCall == [kind |-> None, new |-> NoSkill, file |-> None, backup |-> NoSkill, oldFile |-> None,
           force |-> FALSE, undoing |-> FALSE, since |-> {}]

SkillInit ==
    /\ skill \in {NoSkill} \cup {Skill(b, None, "user") : b \in Bodies}
    /\ extra = None
    /\ call = [c \in Calls |-> NoCall]
    /\ saved = {}
-----------------------------------------------------------------------------
(* Checks *)

Worst(text) == IF text = None THEN 0 ELSE WorstFinding[text]

(* the trust matrix of evaluateReport *)
ContentBlocked(body, author) ==
    \/ author = "agent" /\ Worst(body) >= 3
    \/ author = "user" /\ Worst(body) = 4

(* shouldAllowInstall: the skill of an agent passes unless something critical is
   found, where it would have to be asked for; any other with no finding at all *)
StructureBlocked(texts, author) ==
    IF author = "agent" THEN \E t \in texts : Worst(t) = 4 ELSE \E t \in texts : Worst(t) > 0

(* fullSecurityScan: the content of the body, and every file of the directory *)
Blocked(body, file, author, force) ==
    ~force /\ (ContentBlocked(body, author) \/ StructureBlocked({body, file}, author))

(* the hash protection of saveSkillProtected: a skill whose text is not the one that
   was hashed has been changed by somebody else; one without a hash is not protected *)
Unprotected(force) == force \/ skill.hash = None \/ skill.hash = skill.body

Begins(c, new, kind, file, force) ==
    /\ call[c] = NoCall
    /\ call' = [call EXCEPT ![c] = [kind |-> kind, new |-> new, file |-> file, backup |-> skill, oldFile |-> extra,
                                    force |-> force, undoing |-> FALSE, since |-> {}]]
    /\ UNCHANGED <<skill, extra, saved>>

doCreate(c, body, author, force) ==
    /\ ~skill.there
    /\ Begins(c, Skill(body, body, author), "create", None, force)

(* an edit may name another author *)
doEdit(c, body, author, force) ==
    /\ skill.there /\ Unprotected(force)
    /\ Begins(c, Skill(body, body, author), "edit", None, force)

(* patch replaces a string in the file as it is: the hash stays what it was *)
doPatch(c, body, force) ==
    /\ skill.there /\ body # skill.body
    /\ Begins(c, [skill EXCEPT !.body = body], "patch", None, force)

doWriteFile(c, file, force) ==
    /\ skill.there
    /\ Begins(c, skill, "write_file", file, force)

(* Mutant: the count is saved like an edit, with a hash of the body it found. *)
Bumped_Stamped == [skill EXCEPT !.hash = skill.body]

(* the count of uses, serialized with the hash and the body it was loaded with *)
Bumped == skill

bumpSkillUsage(c) ==
    /\ skill.there
    /\ Begins(c, Bumped, "bump", None, TRUE)
-----------------------------------------------------------------------------
(* Renames *)

(* the directory is removed: the temporary files in it go with it, and the calls
   that wrote them fail *)
DirectoryGone ==
    /\ skill' = NoSkill
    /\ extra' = None
    /\ call' = [c \in Calls |-> NoCall]
    /\ saved' = {}

Over(c) == [call EXCEPT ![c] = NoCall]

(* the calls under way have another text before them *)
Overtaken(calls, body) ==
    [c \in Calls |-> IF calls[c].kind = None THEN calls[c] ELSE [calls[c] EXCEPT !.since = @ \cup {body}]]

Put(c, calls) ==
    /\ skill' = call[c].new
    /\ call' = Overtaken(calls, call[c].new.body)
    /\ saved' = IF call[c].kind \in {"create", "edit"} THEN saved \cup {call[c].new.body} ELSE saved
    /\ UNCHANGED extra

(* the temporary file of SKILL.md takes its place; what was written is scanned at
   once, and a refused skill is removed or its backup written back *)
Rename(c) ==
    /\ call[c].kind \in {"create", "edit", "patch", "bump"} /\ ~call[c].undoing
    /\ IF call[c].kind # "bump" /\ Blocked(call[c].new.body, extra, call[c].new.author, call[c].force)
       THEN IF call[c].kind = "create"
            THEN DirectoryGone
            ELSE Put(c, [call EXCEPT ![c].undoing = TRUE])
       ELSE Put(c, Over(c))

(* the same for a file: an old one is written back, a new one removed at once;
   the body that is scanned with it is the one the call loaded *)
RenameFile(c) ==
    /\ call[c].kind = "write_file" /\ ~call[c].undoing
    /\ UNCHANGED <<skill, saved>>
    /\ IF Blocked(call[c].new.body, call[c].file, call[c].new.author, call[c].force)
       THEN IF call[c].oldFile = None
            THEN extra' = None /\ call' = Over(c)
            ELSE extra' = call[c].file /\ call' = [call EXCEPT ![c].undoing = TRUE]
       ELSE extra' = call[c].file /\ call' = Over(c)

Undo(c) ==
    /\ call[c].undoing
    /\ IF call[c].kind = "write_file"
       THEN extra' = call[c].oldFile /\ call' = Over(c) /\ UNCHANGED skill
       ELSE skill' = call[c].backup /\ call' = Overtaken(Over(c), call[c].backup.body) /\ UNCHANGED extra
    /\ UNCHANGED saved

deleteSkill == skill.there /\ DirectoryGone

removeSupportingFile ==
    /\ skill.there /\ extra # None
    /\ extra' = None
    /\ UNCHANGED <<skill, call, saved>>

(* the user's editor; a skill the user wrote has no hash *)
UserEdits(body) ==
    /\ skill' = IF skill.there THEN [skill EXCEPT !.body = body] ELSE Skill(body, None, "user")
    /\ skill' # skill
    /\ call' = Overtaken(call, body)
    /\ UNCHANGED <<extra, saved>>

SkillNext ==
    \/ \E c \in Calls, body \in Bodies, author \in Authors, force \in BOOLEAN :
          doCreate(c, body, author, force) \/ doEdit(c, body, author, force)
    \/ \E c \in Calls, body \in Bodies, force \in BOOLEAN : doPatch(c, body, force)
    \/ \E c \in Calls, file \in Extras, force \in BOOLEAN : doWriteFile(c, file, force)
    \/ \E c \in Calls : bumpSkillUsage(c) \/ Rename(c) \/ RenameFile(c) \/ Undo(c)
    \/ deleteSkill
    \/ removeSupportingFile
    \/ \E body \in Bodies : UserEdits(body)

SkillSpec == SkillInit /\ [][SkillNext]_skillVars
-----------------------------------------------------------------------------
(* skills/store.ts:116-118, "if they differ -> user has edited -> REFUSE": in a *)
(* skill with a hash, a create or an edit without force replaces only a text    *)
(* that a create or an edit had put there, or one that came after its check     *)
(* (:142), while its temporary file was written (:166).  What the user, a patch *)
(* or a roll-back left passes no later check, whatever bumps carried the hash   *)
(* over.                                                                        *)
EditSparesUser ==
    [][\A c \in Calls :
          /\ call[c].kind \in {"create", "edit"} /\ ~call[c].force /\ ~call[c].undoing
          /\ call'[c] = NoCall \/ call'[c].undoing
          /\ skill' = call[c].new /\ skill.hash # None
          => skill.body \in saved \cup call[c].since]_skillVars
=============================================================================
