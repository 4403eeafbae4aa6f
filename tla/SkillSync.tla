----------------------------- MODULE SkillSync -----------------------------
(***************************************************************************)
(* The seeding of one bundled skill into the skills directory              *)
(* (skills/sync.ts): the manifest keeps the hash of the bundled directory  *)
(* that was copied, and tells what the user changed or removed.            *)
(*                                                                         *)
(* The content of a directory is a release of the bundle, a text of the    *)
(* user, or what a copy that failed half-way has left; a hash is the       *)
(* content.  A sync writes its manifest last: a crash before that loses    *)
(* what it decided.                                                        *)
(***************************************************************************)
EXTENDS Naturals

CONSTANTS Releases,   \* bound: the bundle's releases of the skill, 1..Releases
          UserTexts,
          Absent

VARIABLES bundled,    \* the release in the bundle
          dest,       \* the directory of the skill
          backup,     \* dest.bak
          manifest,   \* the hash recorded for the skill; Baseless for a line without one
          mine        \* the user has changed or removed what stands since it was recorded (history)

syncVars == <<bundled, dest, backup, manifest, mine>>

Baseless == [line |-> "without a hash"]
Torn(r) == [torn |-> r]
Release(r) == [release |-> r]
Text(t) == [text |-> t]
Bundles == {Release(r) : r \in 1..Releases}
UsersOwn == {Text(t) : t \in UserTexts}

ASSUME SyncAssumption == Releases \in Nat \ {0} /\ Absent \notin {Baseless} \cup Bundles \cup UsersOwn

SyncInit ==
    /\ bundled \in {Absent, Release(1)}
    /\ dest \in {Absent} \cup UsersOwn \cup Bundles
    /\ backup = Absent
    /\ manifest \in {Absent, Baseless}
    /\ mine = (dest \in UsersOwn /\ manifest = Absent)
-----------------------------------------------------------------------------
(* what a sync does to the directory, its backup and the manifest; copied says
   whether copyDir succeeds *)
Outcome(d, b, m) == [dest |-> d, backup |-> b, manifest |-> m]
Kept(m) == Outcome(dest, backup, m)

(* Mutant: the directory that was there already is recorded as it is. *)
Baseline_Found == dest

(* a directory that was there before the manifest knew of it counts as changed,
   unless it is the bundled one *)
Baseline == bundled

(* a skill the manifest does not know: it is copied, unless its directory is there *)
Seed(copied) ==
    IF dest # Absent THEN Kept(Baseline)
    ELSE IF copied THEN Outcome(bundled, backup, bundled)
    ELSE Outcome(Torn(bundled), backup, Absent)

(* a skill the user has not changed: the old directory is set aside while the new
   one is copied; it comes back only if nothing at all was copied *)
Update(copied) ==
    IF copied THEN Outcome(bundled, Absent, bundled) ELSE Outcome(Torn(bundled), dest, manifest)

syncSkill(copied) ==
    IF bundled = Absent THEN Kept(Absent)
    ELSE IF manifest = Absent THEN Seed(copied)
    ELSE IF dest = Absent THEN Kept(manifest)
    ELSE IF manifest = Baseless THEN Kept(dest)
    ELSE IF dest # manifest \/ bundled = manifest \/ backup # Absent THEN Kept(manifest)
    ELSE Update(copied)

(* written says whether the manifest was, before the process stopped; a recorded
   baseline starts a new account of what the user changes *)
syncSkills(copied, written) ==
    LET o == syncSkill(copied) IN
    /\ dest' = o.dest
    /\ backup' = o.backup
    /\ manifest' = IF written THEN o.manifest ELSE manifest
    /\ mine' = (mine /\ ~(manifest = Baseless /\ manifest' # Baseless) /\ dest' = dest /\ (dest = Absent => manifest' # Absent))
    /\ UNCHANGED bundled

(* a text that is the recorded one again is no change *)
UserWrites(t) ==
    /\ dest' = Text(t) /\ dest' # dest
    /\ mine' = (dest' # manifest)
    /\ UNCHANGED <<bundled, backup, manifest>>

(* the user's removal counts while the manifest remembers that the skill was there *)
UserRemoves ==
    /\ dest # Absent
    /\ dest' = Absent
    /\ mine' = (manifest # Absent)
    /\ UNCHANGED <<bundled, backup, manifest>>

UserRemovesBackup ==
    /\ backup # Absent
    /\ backup' = Absent
    /\ UNCHANGED <<bundled, dest, manifest, mine>>

(* a new version of the program brings another release, or none *)
Bundle(r) ==
    /\ bundled' = r /\ r # bundled
    /\ UNCHANGED <<dest, backup, manifest, mine>>

SyncNext ==
    \/ \E copied, written \in BOOLEAN : syncSkills(copied, written)
    \/ \E t \in UserTexts : UserWrites(t)
    \/ UserRemoves
    \/ UserRemovesBackup
    \/ \E r \in Bundles \cup {Absent} : Bundle(r)

SyncSpec == SyncInit /\ [][SyncNext]_syncVars
-----------------------------------------------------------------------------
(* skills/sync.ts:7, "user customized - skip, respect their edits" and          *)
(* "DELETED by user: respect deletion": over any sequence of releases, failed   *)
(* copies, crashes and releases that drop the skill, a sync leaves a directory  *)
(* the user has changed or removed as it is.                                    *)
UserWins ==
    [][mine /\ dest' # dest => dest' \in {Absent} \cup UsersOwn]_syncVars
=============================================================================
