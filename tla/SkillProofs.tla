--------------------------- MODULE SkillProofs ---------------------------
(***************************************************************************)
(* Proofs about skills and memory: SkillStore.tla, for any overlapping     *)
(* calls, any texts, authors and severities, SkillSync.tla, for any number *)
(* of releases, SkillSynth.tla, for any number of runs and failures, and   *)
(* Memory.tla, for any notes, runs and lessons.                            *)
(***************************************************************************)
EXTENDS SkillStore, SkillSync, SkillSynth, Memory, FiniteSetTheorems, TLAPS

(* SkillStore.tla *)

SkillRecord ==
    [there: BOOLEAN, body: Bodies \cup {None}, hash: Bodies \cup {None},
     author: Authors \cup {"user", None}]

CallRecord ==
    [kind: {None} \cup Kinds, new: SkillRecord,
     file: Extras \cup {None}, backup: SkillRecord, oldFile: Extras \cup {None},
     force: BOOLEAN, undoing: BOOLEAN, since: SUBSET (Bodies \cup {None})]

SkillTypes ==
    /\ skill \in SkillRecord
    /\ extra \in Extras \cup {None}
    /\ call \in [Calls -> CallRecord]
    /\ saved \subseteq Bodies \cup {None}

(* What can become the skill: its hash is of a text that a create or an    *)
(* edit put there, and what is not there has none.                         *)
Traced(s) == s.hash \in saved \cup {None} /\ (s.there \/ s.hash = None)

Saves(r) == r.kind \in {"create", "edit"}

(* What a call is about to write, and what it would write back, is traced  *)
(* like the skill: either can become the skill long after it was read.  A  *)
(* create or an edit brings its own hash.                                  *)
CallTraced(r) ==
    /\ Traced(r.backup)
    /\ IF Saves(r) THEN r.new.there /\ r.new.hash = r.new.body ELSE Traced(r.new)

(* What stands there may be replaced by a call that saves without force.   *)
MayReplace(r) == skill.hash = None \/ skill.body \in saved \cup r.since

Waiting(r) == Saves(r) /\ ~r.force /\ ~r.undoing

SkillInv ==
    /\ SkillTypes /\ Traced(skill)
    /\ \A c \in Calls : CallTraced(call[c]) /\ (Waiting(call[c]) => MayReplace(call[c]))

LEMMA NothingTraced ==
    /\ NoSkill \in SkillRecord /\ Traced(NoSkill)
    /\ NoCall \in CallRecord /\ CallTraced(NoCall) /\ ~Waiting(NoCall)
<1>1. NoSkill \in SkillRecord /\ Traced(NoSkill)
  BY DEF NoSkill, SkillRecord, Traced
<1>2. NoCall.kind = None /\ NoCall.new = NoSkill /\ NoCall.backup = NoSkill
  BY DEF NoCall
<1>3. ~Saves(NoCall)
  BY <1>2, SkillAssumption DEF Saves, Kinds
<1>4. NoCall \in CallRecord
  BY <1>1 DEF NoCall, CallRecord
<1> QED BY <1>1, <1>2, <1>3, <1>4 DEF CallTraced, Waiting

LEMMA SkillInitInv == SkillInit => SkillInv
<1> SUFFICES ASSUME SkillInit PROVE SkillInv
  OBVIOUS
<1>1. skill \in SkillRecord /\ Traced(skill)
  <2>1. ASSUME NEW b \in Bodies PROVE Skill(b, None, "user") \in SkillRecord /\ Traced(Skill(b, None, "user"))
    BY DEF Skill, SkillRecord, Traced
  <2>2. skill = NoSkill \/ \E b \in Bodies : skill = Skill(b, None, "user")
    BY DEF SkillInit
  <2> QED BY <2>1, <2>2, NothingTraced
<1>2. call \in [Calls -> CallRecord] /\ \A c \in Calls : CallTraced(call[c]) /\ ~Waiting(call[c])
  BY NothingTraced DEF SkillInit
<1> QED BY <1>1, <1>2 DEF SkillInit, SkillInv, SkillTypes

(* A call that goes on, or is over. *)
Follows(r, q) ==
    \/ q = NoCall
    \/ /\ q.kind = r.kind /\ q.new = r.new /\ q.backup = r.backup /\ q.force = r.force
       /\ r.undoing => q.undoing
       /\ r.since \subseteq q.since

(* A step that leaves the skill as it is, or tells every call what comes.  *)
LEMMA CallsGoOn ==
    ASSUME SkillInv, SkillTypes', saved \subseteq saved', Traced(skill)',
           \A c \in Calls : /\ Follows(call[c], call'[c])
                            /\ Waiting(call'[c]) => skill' = skill \/ skill'.body \in call'[c].since
    PROVE  SkillInv'
<1> SUFFICES ASSUME NEW c \in Calls
             PROVE  CallTraced(call[c])' /\ (Waiting(call[c]) => MayReplace(call[c]))'
  BY DEF SkillInv
<1> DEFINE r == call[c]
           q == call'[c]
<1>1. CASE q = NoCall
  <2>1. NoCall.backup = NoSkill /\ NoCall.new = NoSkill /\ ~Saves(NoCall) /\ ~Waiting(NoCall)
    BY NothingTraced, SkillAssumption DEF NoCall, Saves, Kinds
  <2> QED BY <1>1, <2>1 DEF CallTraced, Traced, NoSkill, Saves, Waiting
<1>2. CASE q # NoCall
  <2>1. /\ q.kind = r.kind /\ q.new = r.new /\ q.backup = r.backup /\ q.force = r.force
        /\ r.undoing => q.undoing
        /\ r.since \subseteq q.since
    BY <1>2 DEF Follows
  <2>2. CallTraced(r) /\ (Waiting(r) => MayReplace(r))
    BY DEF SkillInv
  <2>3. CallTraced(call[c])'
    BY <2>1, <2>2 DEF CallTraced, Traced, Saves
  <2>4. ASSUME Waiting(q) PROVE skill'.hash = None \/ skill'.body \in saved' \cup q.since
    <3>1. MayReplace(r)
      BY <2>1, <2>2, <2>4 DEF Waiting, Saves
    <3>2. CASE skill' = skill
      BY <2>1, <3>1, <3>2 DEF MayReplace
    <3> QED BY <2>4, <3>2
  <2> QED BY <2>3, <2>4 DEF MayReplace, Waiting, Saves
<1> QED BY <1>1, <1>2

(* A call that begins takes the skill as its backup. *)
LEMMA BeginsStep ==
    ASSUME SkillInv, NEW c \in Calls, NEW new \in SkillRecord,
           NEW kind \in Kinds, NEW file \in Extras \cup {None}, NEW force \in BOOLEAN,
           IF kind \in {"create", "edit"} THEN new.there /\ new.hash = new.body ELSE Traced(new),
           kind \in {"create", "edit"} /\ ~force => skill.hash = None \/ skill.hash = skill.body,
           Begins(c, new, kind, file, force)
    PROVE  SkillInv'
<1> DEFINE r == [kind |-> kind, new |-> new, file |-> file, backup |-> skill, oldFile |-> extra,
                 force |-> force, undoing |-> FALSE, since |-> {}]
<1>1. /\ r \in CallRecord
      /\ r.kind = kind /\ r.new = new /\ r.backup = skill /\ r.force = force /\ ~r.undoing /\ r.since = {}
  BY DEF CallRecord, SkillInv, SkillTypes
<1>2. call' = [call EXCEPT ![c] = r] /\ UNCHANGED <<skill, extra, saved>>
  BY DEF Begins
<1> HIDE DEF r
<1>3. call' \in [Calls -> CallRecord]
  BY <1>1, <1>2 DEF SkillInv, SkillTypes
<1>4. CallTraced(r) /\ (Waiting(r) => MayReplace(r))
  BY <1>1 DEF CallTraced, Saves, Waiting, MayReplace, Traced, SkillInv
<1>5. ASSUME NEW d \in Calls
      PROVE  CallTraced(call[d])' /\ (Waiting(call[d]) => MayReplace(call[d]))'
  <2>1. CallTraced(call'[d]) /\ (Waiting(call'[d]) => MayReplace(call'[d]))
    BY <1>2, <1>4 DEF SkillInv, SkillTypes
  <2> QED BY <1>2, <2>1 DEF CallTraced, Saves, Waiting, MayReplace, Traced
<1>6. Traced(skill)'
  BY <1>2 DEF SkillInv, Traced
<1> QED BY <1>2, <1>3, <1>5, <1>6 DEF SkillInv, SkillTypes

(* Calls that are over, that undo, and that are told of a text. *)
LEMMA CallsAfter ==
    ASSUME SkillInv, NEW c \in Calls, NEW calls \in {Over(c), [call EXCEPT ![c].undoing = TRUE], call}
    PROVE  calls \in [Calls -> CallRecord] /\ \A d \in Calls : Follows(call[d], calls[d])
<1>0. call \in [Calls -> CallRecord]
  BY DEF SkillInv, SkillTypes
<1>1. CASE calls = Over(c)
  BY <1>0, <1>1, NothingTraced DEF Over, Follows
<1>2. CASE calls = [call EXCEPT ![c].undoing = TRUE]
  <2>1. [call[c] EXCEPT !.undoing = TRUE] \in CallRecord
    BY <1>0 DEF CallRecord
  <2>2. calls \in [Calls -> CallRecord] /\ \A d \in Calls \ {c} : calls[d] = call[d]
    BY <1>0, <1>2, <2>1
  <2>3. /\ calls[c].kind = call[c].kind /\ calls[c].new = call[c].new /\ calls[c].backup = call[c].backup
        /\ calls[c].force = call[c].force /\ calls[c].undoing /\ calls[c].since = call[c].since
    BY <1>0, <1>2 DEF CallRecord
  <2> QED BY <2>2, <2>3 DEF Follows
<1>3. CASE calls = call
  BY <1>0, <1>3 DEF Follows
<1> QED BY <1>1, <1>2, <1>3

LEMMA OvertakenFollow ==
    ASSUME SkillInv, NEW calls \in [Calls -> CallRecord], NEW body \in Bodies \cup {None},
           \A d \in Calls : Follows(call[d], calls[d]),
           call' = Overtaken(calls, body)
    PROVE  /\ call' \in [Calls -> CallRecord]
           /\ \A d \in Calls : /\ Follows(call[d], call'[d])
                               /\ Waiting(call'[d]) => body \in call'[d].since
<1>1. ASSUME NEW d \in Calls
      PROVE  call'[d] \in CallRecord /\ Follows(call[d], call'[d]) /\ (Waiting(call'[d]) => body \in call'[d].since)
  <2>1. CASE calls[d].kind = None
    <3>1. call'[d] = calls[d]
      BY <2>1 DEF Overtaken
    <3>2. ~Waiting(calls[d])
      BY <2>1, SkillAssumption DEF Waiting, Saves, Kinds
    <3> QED BY <3>1, <3>2
  <2>2. CASE calls[d].kind # None
    <3>1. call'[d] = [calls[d] EXCEPT !.since = @ \cup {body}]
      BY <2>2 DEF Overtaken
    <3>2. calls[d] \in CallRecord
      OBVIOUS
    <3>3. /\ call'[d] \in CallRecord /\ call'[d].since = calls[d].since \cup {body}
          /\ call'[d].kind = calls[d].kind /\ call'[d].new = calls[d].new /\ call'[d].backup = calls[d].backup
          /\ call'[d].force = calls[d].force /\ call'[d].undoing = calls[d].undoing
      BY <3>1, <3>2 DEF CallRecord
    <3>4. calls[d] # NoCall
      BY <2>2 DEF NoCall
    <3>5. Follows(call[d], calls[d])
      OBVIOUS
    <3> QED BY <3>3, <3>4, <3>5 DEF Follows
  <2> QED BY <2>1, <2>2
<1>2. call' = [d \in Calls |-> call'[d]]
  BY DEF Overtaken
<1>3. call' \in [Calls -> CallRecord]
  BY <1>1, <1>2
<1> QED BY <1>1, <1>3

(* Every step that puts a text in the skill's place. *)
LEMMA TextComes ==
    ASSUME SkillInv, NEW c \in Calls, NEW calls \in {Over(c), [call EXCEPT ![c].undoing = TRUE], call},
           NEW s \in SkillRecord, skill' = s, call' = Overtaken(calls, s.body),
           saved \subseteq saved', saved' \subseteq Bodies \cup {None}, Traced(s)', UNCHANGED extra
    PROVE  SkillInv'
<1>1. s.body \in Bodies \cup {None}
  BY DEF SkillRecord
<1>2. calls \in [Calls -> CallRecord] /\ \A d \in Calls : Follows(call[d], calls[d])
  BY CallsAfter
<1>3. /\ call' \in [Calls -> CallRecord]
      /\ \A d \in Calls : Follows(call[d], call'[d]) /\ (Waiting(call'[d]) => s.body \in call'[d].since)
  BY <1>1, <1>2, OvertakenFollow
<1>4. SkillTypes' /\ Traced(skill)'
  BY <1>3 DEF SkillInv, SkillTypes, Traced
<1> QED BY <1>3, <1>4, CallsGoOn

LEMMA DirectoryGoneStep ==
    ASSUME SkillInv, DirectoryGone
    PROVE  SkillInv'
<1>1. call' \in [Calls -> CallRecord] /\ \A c \in Calls : call'[c] = NoCall
  BY NothingTraced DEF DirectoryGone
<1>2. skill' = NoSkill /\ extra' = None /\ saved' = {}
  BY DEF DirectoryGone
<1>3. SkillTypes' /\ Traced(skill)'
  BY <1>1, <1>2, NothingTraced DEF SkillTypes, Traced, NoSkill
<1>4. ASSUME NEW c \in Calls PROVE CallTraced(call[c])' /\ ~Waiting(call[c])'
  <2>1. NoCall.backup = NoSkill /\ NoCall.new = NoSkill /\ ~Saves(NoCall) /\ ~Waiting(NoCall)
    BY NothingTraced, SkillAssumption DEF NoCall, Saves, Kinds
  <2> QED BY <1>1, <2>1 DEF CallTraced, Traced, NoSkill, Saves, Waiting
<1> QED BY <1>3, <1>4 DEF SkillInv

LEMMA SkillInvStep == SkillInv /\ [SkillNext]_skillVars => SkillInv'
<1> SUFFICES ASSUME SkillInv, [SkillNext]_skillVars PROVE SkillInv'
  OBVIOUS
<1>0. /\ skill \in SkillRecord /\ Traced(skill) /\ saved \subseteq Bodies \cup {None}
      /\ call \in [Calls -> CallRecord]
  BY DEF SkillInv, SkillTypes
<1>1. ASSUME NEW c \in Calls, NEW body \in Bodies, NEW author \in Authors, NEW force \in BOOLEAN,
             doCreate(c, body, author, force) \/ doEdit(c, body, author, force)
      PROVE  SkillInv'
  <2> DEFINE new == Skill(body, body, author)
  <2>1. new \in SkillRecord /\ new.there /\ new.hash = new.body
    BY DEF Skill, SkillRecord
  <2>2. ~force => skill.hash = None \/ skill.hash = skill.body
    BY <1>0, <1>1 DEF doCreate, doEdit, Unprotected, Traced
  <2>3. \E kind \in {"create", "edit"} : Begins(c, new, kind, None, force)
    BY <1>1 DEF doCreate, doEdit
  <2> HIDE DEF new
  <2> QED BY <2>1, <2>2, <2>3, BeginsStep DEF Kinds
<1>2. ASSUME NEW c \in Calls, NEW body \in Bodies, NEW force \in BOOLEAN, doPatch(c, body, force)
      PROVE  SkillInv'
  <2> DEFINE new == [skill EXCEPT !.body = body]
  <2>1. new \in SkillRecord /\ new.hash = skill.hash /\ new.there = skill.there
    BY <1>0 DEF SkillRecord
  <2>2. Traced(new)
    BY <1>0, <2>1 DEF Traced
  <2>3. Begins(c, new, "patch", None, force)
    BY <1>2 DEF doPatch
  <2> HIDE DEF new
  <2> QED BY <2>1, <2>2, <2>3, BeginsStep DEF Kinds
<1>3. ASSUME NEW c \in Calls, NEW file \in Extras, NEW force \in BOOLEAN, doWriteFile(c, file, force)
      PROVE  SkillInv'
  BY <1>0, <1>3, BeginsStep DEF doWriteFile, Kinds
<1>4. ASSUME NEW c \in Calls, bumpSkillUsage(c) PROVE SkillInv'
  BY <1>0, <1>4, BeginsStep DEF bumpSkillUsage, Bumped, Kinds
<1>5. ASSUME NEW c \in Calls, Rename(c) PROVE SkillInv'
  <2>1. CASE DirectoryGone
    BY <2>1, DirectoryGoneStep
  <2>2. ASSUME NEW calls \in {Over(c), [call EXCEPT ![c].undoing = TRUE]}, Put(c, calls) PROVE SkillInv'
    <3>1. call[c].new \in SkillRecord /\ CallTraced(call[c])
      BY <1>0 DEF CallRecord, SkillInv
    <3>2. /\ skill' = call[c].new /\ call' = Overtaken(calls, call[c].new.body) /\ UNCHANGED extra
          /\ saved' = IF Saves(call[c]) THEN saved \cup {call[c].new.body} ELSE saved
      BY <2>2 DEF Put, Saves
    <3>3. saved \subseteq saved' /\ saved' \subseteq Bodies \cup {None}
      BY <1>0, <3>1, <3>2 DEF SkillRecord
    <3>4. PICK s \in SkillRecord : s = call[c].new
      BY <3>1
    <3>5. Traced(s)'
      BY <3>1, <3>2, <3>4 DEF CallTraced, Traced
    <3> QED BY <3>2, <3>3, <3>4, <3>5, TextComes
  <2> QED BY <1>5, <2>1, <2>2 DEF Rename
<1>6. ASSUME NEW c \in Calls, RenameFile(c) PROVE SkillInv'
  <2>1. \E calls \in {Over(c), [call EXCEPT ![c].undoing = TRUE], call} :
            call' = calls /\ extra' \in Extras \cup {None} /\ UNCHANGED <<skill, saved>>
    BY <1>0, <1>6 DEF RenameFile, CallRecord
  <2>2. call' \in [Calls -> CallRecord] /\ \A d \in Calls : Follows(call[d], call'[d])
    BY <2>1, CallsAfter
  <2>3. SkillTypes' /\ Traced(skill)'
    BY <1>0, <2>1, <2>2 DEF SkillTypes, Traced
  <2> QED BY <2>1, <2>2, <2>3, CallsGoOn
<1>7. ASSUME NEW c \in Calls, Undo(c) PROVE SkillInv'
  <2>1. CASE call[c].kind = "write_file"
    <3>1. call' = Over(c) /\ extra' \in Extras \cup {None} /\ UNCHANGED <<skill, saved>>
      BY <1>0, <1>7, <2>1 DEF Undo, CallRecord
    <3>2. call' \in [Calls -> CallRecord] /\ \A d \in Calls : Follows(call[d], call'[d])
      BY <3>1, CallsAfter
    <3>3. SkillTypes' /\ Traced(skill)'
      BY <1>0, <3>1, <3>2 DEF SkillTypes, Traced
    <3> QED BY <3>1, <3>2, <3>3, CallsGoOn
  <2>2. CASE call[c].kind # "write_file"
    <3>1. /\ skill' = call[c].backup /\ call' = Overtaken(Over(c), call[c].backup.body)
          /\ UNCHANGED <<extra, saved>>
      BY <1>7, <2>2 DEF Undo
    <3>2. call[c].backup \in SkillRecord /\ Traced(call[c].backup)
      BY <1>0 DEF CallRecord, SkillInv, CallTraced
    <3>3. PICK s \in SkillRecord : s = call[c].backup
      BY <3>2
    <3>4. Traced(s)'
      BY <3>1, <3>2, <3>3 DEF Traced
    <3>5. saved \subseteq saved' /\ saved' \subseteq Bodies \cup {None}
      BY <1>0, <3>1
    <3> QED BY <3>1, <3>3, <3>4, <3>5, TextComes
  <2> QED BY <2>1, <2>2
<1>8. CASE deleteSkill
  BY <1>8, DirectoryGoneStep DEF deleteSkill
<1>9. CASE removeSupportingFile
  <2>1. extra' = None /\ UNCHANGED <<skill, call, saved>>
    BY <1>9 DEF removeSupportingFile
  <2>2. SkillTypes'
    BY <1>0, <2>1 DEF SkillTypes
  <2> QED BY <2>1, <2>2 DEF SkillInv, Traced, CallTraced, Saves, Waiting, MayReplace
<1>10. ASSUME NEW body \in Bodies, UserEdits(body) PROVE SkillInv'
  <2>1. PICK s : skill' = s
    OBVIOUS
  <2>2. s \in SkillRecord /\ s.body = body /\ Traced(s)
    <3>1. CASE skill.there
      <4>1. s = [skill EXCEPT !.body = body]
        BY <1>10, <2>1, <3>1 DEF UserEdits
      <4>2. s \in SkillRecord /\ s.body = body /\ s.hash = skill.hash /\ s.there = skill.there
        BY <1>0, <4>1 DEF SkillRecord
      <4> QED BY <1>0, <4>2 DEF Traced
    <3>2. CASE ~skill.there
      <4>1. s = Skill(body, None, "user")
        BY <1>10, <2>1, <3>2 DEF UserEdits
      <4>2. s \in SkillRecord /\ s.body = body /\ s.hash = None /\ s.there
        BY <4>1 DEF Skill, SkillRecord
      <4> QED BY <4>2 DEF Traced
    <3> QED BY <3>1, <3>2
  <2>3. call' = Overtaken(call, body) /\ UNCHANGED <<extra, saved>>
    BY <1>10 DEF UserEdits
  <2>4. call' \in [Calls -> CallRecord]
        /\ \A d \in Calls : Follows(call[d], call'[d]) /\ (Waiting(call'[d]) => body \in call'[d].since)
    <3>1. \A d \in Calls : Follows(call[d], call[d])
      BY DEF Follows
    <3> QED BY <1>0, <2>3, <3>1, OvertakenFollow
  <2>5. SkillTypes' /\ Traced(skill)'
    BY <1>0, <2>1, <2>2, <2>3, <2>4 DEF SkillInv, SkillTypes, Traced
  <2>6. saved \subseteq saved' /\ skill'.body = body
    BY <2>1, <2>2, <2>3
  <2> QED BY <2>4, <2>5, <2>6, CallsGoOn
<1>11. CASE UNCHANGED skillVars
  BY <1>11 DEF skillVars, SkillInv, SkillTypes, Traced, CallTraced, Saves, Waiting, MayReplace
<1> QED
  BY <1>1, <1>2, <1>3, <1>4, <1>5, <1>6, <1>7, <1>8, <1>9, <1>10, <1>11 DEF SkillNext

(* The skill, its file and the calls keep their types. *)
THEOREM SkillTypeCorrect == SkillSpec => []SkillTypes
<1>1. SkillInv => SkillTypes
  BY DEF SkillInv
<1> QED
  BY <1>1, SkillInitInv, SkillInvStep, PTL DEF SkillSpec

(* A create or an edit without force replaces, in a skill with a hash, only a  *)
(* text that one of them had put there or that came after its check            *)
(* (skills/store.ts:116-118,142), however calls and edits overlap.             *)
THEOREM EditSparesUserCorrect == SkillSpec => EditSparesUser
<1>1. ASSUME SkillInv, NEW c \in Calls,
             call[c].kind \in {"create", "edit"} /\ ~call[c].force /\ ~call[c].undoing, skill.hash # None
      PROVE  skill.body \in saved \cup call[c].since
  BY <1>1 DEF SkillInv, Waiting, Saves, MayReplace
<1>2. SkillInv /\ [SkillNext]_skillVars
        => [\A c \in Calls :
              /\ call[c].kind \in {"create", "edit"} /\ ~call[c].force /\ ~call[c].undoing
              /\ call'[c] = NoCall \/ call'[c].undoing
              /\ skill' = call[c].new /\ skill.hash # None
              => skill.body \in saved \cup call[c].since]_skillVars
  BY <1>1
<1> QED
  BY <1>2, SkillInitInv, SkillInvStep, PTL DEF SkillSpec, EditSparesUser
-----------------------------------------------------------------------------
(* SkillSync.tla *)

(* What is the user's is a text of the user or nothing, and the manifest   *)
(* does not say otherwise: a text is not the recorded content, and what is *)
(* missing is recorded.                                                    *)
MineIsKnown ==
    mine => /\ dest \in {Absent} \cup UsersOwn
            /\ dest = Absent => manifest # Absent
            /\ dest # Absent => dest # manifest

SyncInv == bundled \in {Absent} \cup Bundles /\ MineIsKnown

(* A text of the user is neither a release nor a mark. *)
LEMMA TextsApart ==
    ASSUME NEW d \in UsersOwn
    PROVE  d # Absent /\ d # Baseless /\ d \notin Bundles
<1>1. PICK t \in UserTexts : d = [text |-> t]
  BY DEF UsersOwn, Text
<1>2. DOMAIN d = {"text"}
  BY <1>1
<1>3. DOMAIN Baseless = {"line"}
  BY DEF Baseless
<1>4. \A b \in Bundles : DOMAIN b = {"release"}
  BY DEF Bundles, Release
<1> QED BY <1>2, <1>3, <1>4, SyncAssumption

LEMMA SyncInitInv == SyncInit => SyncInv
<1> SUFFICES ASSUME SyncInit PROVE SyncInv
  OBVIOUS
<1>1. bundled \in {Absent} \cup Bundles
  BY SyncAssumption DEF SyncInit, Bundles
<1>2. MineIsKnown
  <2> SUFFICES ASSUME mine PROVE dest \in UsersOwn /\ manifest = Absent /\ dest # Absent
    BY DEF MineIsKnown
  <2>1. dest \in UsersOwn /\ manifest = Absent
    BY DEF SyncInit
  <2> QED BY <2>1, TextsApart
<1> QED BY <1>1, <1>2 DEF SyncInv

(* A sync leaves what is the user's as it is; it records it only where the *)
(* manifest had no hash.                                                   *)
LEMMA SyncKeepsMine ==
    ASSUME SyncInv, mine, NEW copied \in BOOLEAN
    PROVE  /\ syncSkill(copied).dest = dest
           /\ dest # Absent => syncSkill(copied).manifest # dest \/ manifest = Baseless
<1> DEFINE o == syncSkill(copied)
<1>0. \A m : Kept(m).dest = dest /\ Kept(m).manifest = m
  BY DEF Kept, Outcome
<1>1. CASE bundled = Absent
  <2>1. o = Kept(Absent)
    BY <1>1 DEF syncSkill
  <2> QED BY <1>0, <2>1
<1>2. CASE bundled # Absent /\ dest = Absent
  <2>1. manifest # Absent
    BY <1>2 DEF SyncInv, MineIsKnown
  <2>2. o = Kept(manifest)
    BY <1>2, <2>1 DEF syncSkill
  <2> QED BY <1>0, <1>2, <2>2
<1>3. CASE bundled # Absent /\ dest # Absent
  <2>1. dest \in UsersOwn /\ dest # manifest /\ bundled \in Bundles
    BY <1>3 DEF SyncInv, MineIsKnown
  <2>2. bundled # dest /\ dest # Absent /\ Absent # Baseless
    BY <2>1, TextsApart, SyncAssumption
  <2>3. CASE manifest = Absent
    <3>2. o = Seed(copied)
      BY <1>3, <2>3 DEF syncSkill
    <3>1. o = Kept(bundled)
      BY <1>3, <3>2 DEF Seed, Baseline
    <3> QED BY <1>0, <2>2, <3>1
  <2>4. CASE manifest = Baseless
    <3>1. o = Kept(dest)
      BY <1>3, <2>2, <2>4 DEF syncSkill
    <3> QED BY <1>0, <2>4, <3>1
  <2>5. CASE manifest # Absent /\ manifest # Baseless
    <3>1. o = Kept(manifest)
      BY <1>3, <2>1, <2>5 DEF syncSkill
    <3> QED BY <1>0, <2>1, <3>1
  <2> QED BY <2>3, <2>4, <2>5
<1> QED BY <1>1, <1>2, <1>3

LEMMA SyncInvStep == SyncInv /\ [SyncNext]_syncVars => SyncInv'
<1> SUFFICES ASSUME SyncInv, [SyncNext]_syncVars PROVE SyncInv'
  OBVIOUS
<1>1. ASSUME NEW copied \in BOOLEAN, NEW written \in BOOLEAN, syncSkills(copied, written) PROVE SyncInv'
  <2>1. bundled' = bundled
    BY <1>1 DEF syncSkills
  <2>2. MineIsKnown'
    <3> SUFFICES ASSUME mine'
                 PROVE  /\ dest' \in {Absent} \cup UsersOwn
                        /\ dest' = Absent => manifest' # Absent
                        /\ dest' # Absent => dest' # manifest'
      BY DEF MineIsKnown
    <3>1. /\ mine /\ dest' = dest /\ (dest = Absent => manifest' # Absent)
          /\ ~(manifest = Baseless /\ manifest' # Baseless)
          /\ manifest' \in {syncSkill(copied).manifest, manifest}
      BY <1>1 DEF syncSkills
    <3>2. dest \in {Absent} \cup UsersOwn /\ (dest # Absent => dest # manifest)
      BY <3>1 DEF SyncInv, MineIsKnown
    <3>3. dest # Absent => dest # Baseless
      BY <3>2, TextsApart
    <3>4. dest # Absent => syncSkill(copied).manifest # dest \/ manifest = Baseless
      BY <3>1, SyncKeepsMine
    <3> QED BY <3>1, <3>2, <3>3, <3>4
  <2> QED BY <2>1, <2>2 DEF SyncInv
<1>2. ASSUME NEW t \in UserTexts, UserWrites(t) PROVE SyncInv'
  <2>1. dest' \in UsersOwn
    BY <1>2 DEF UserWrites, UsersOwn
  <2>2. dest' # Absent
    BY <2>1, TextsApart
  <2> QED BY <1>2, <2>1, <2>2 DEF UserWrites, SyncInv, MineIsKnown
<1>3. CASE UserRemoves
  BY <1>3 DEF UserRemoves, SyncInv, MineIsKnown
<1>4. CASE UserRemovesBackup
  BY <1>4 DEF UserRemovesBackup, SyncInv, MineIsKnown
<1>5. ASSUME NEW r \in Bundles \cup {Absent}, Bundle(r) PROVE SyncInv'
  BY <1>5 DEF Bundle, SyncInv, MineIsKnown
<1>6. CASE UNCHANGED syncVars
  BY <1>6 DEF syncVars, SyncInv, MineIsKnown
<1> QED BY <1>1, <1>2, <1>3, <1>4, <1>5, <1>6 DEF SyncNext

(* Over any sequence of releases, failed copies, crashes and edits, a sync *)
(* leaves what the user has changed or removed as it is                    *)
(* (skills/sync.ts:7).                                                     *)
THEOREM UserWinsCorrect == SyncSpec => UserWins
<1> DEFINE Left == mine /\ dest' # dest => dest' \in {Absent} \cup UsersOwn
<1>1. SyncInv /\ SyncNext => Left
  <2> SUFFICES ASSUME SyncInv, SyncNext, mine, dest' # dest PROVE dest' \in {Absent} \cup UsersOwn
    OBVIOUS
  <2>1. ASSUME NEW copied \in BOOLEAN, NEW written \in BOOLEAN, syncSkills(copied, written) PROVE FALSE
    BY <2>1, SyncKeepsMine DEF syncSkills
  <2>2. ASSUME NEW t \in UserTexts, UserWrites(t) PROVE dest' \in UsersOwn
    BY <2>2 DEF UserWrites, UsersOwn
  <2>3. CASE UserRemoves
    BY <2>3 DEF UserRemoves
  <2>4. CASE UserRemovesBackup \/ \E r \in Bundles \cup {Absent} : Bundle(r)
    BY <2>4 DEF UserRemovesBackup, Bundle
  <2> QED BY <2>1, <2>2, <2>3, <2>4 DEF SyncNext
<1>2. SyncInv /\ [SyncNext]_syncVars => [Left]_syncVars
  BY <1>1
<1> QED
  BY <1>2, SyncInitInv, SyncInvStep, PTL DEF SyncSpec, UserWins
-----------------------------------------------------------------------------
(* SkillSynth.tla *)

SynthTypes ==
    /\ extracting \in BOOLEAN
    /\ consecutiveFailures \in Nat
    /\ extractorDisabled \in BOOLEAN
    /\ extraction \in [Runs -> {"none", "skipped", "timer", "asking", "saving", "ended"}]

(* The slot is held by exactly one run, or free and nobody is at work. *)
SlotHeld == IF extracting THEN \E r \in Runs : Underway = {r} ELSE Underway = {}

FailuresDisable == consecutiveFailures >= MaxFailures => extractorDisabled

SynthInv == SynthTypes /\ SlotHeld /\ FailuresDisable

LEMMA SynthInitInv == SynthInit => SynthInv
<1> SUFFICES ASSUME SynthInit PROVE SynthInv
  OBVIOUS
<1>1. SynthTypes
  BY DEF SynthInit, SynthTypes
<1>2. Underway = {} /\ extracting = FALSE
  BY DEF SynthInit, Underway
<1>3. consecutiveFailures = 0
  BY DEF SynthInit
<1>4. FailuresDisable
  BY <1>3, SynthAssumption DEF FailuresDisable
<1> QED BY <1>1, <1>2, <1>4 DEF SynthInv, SlotHeld

(* A run that holds the slot is the only one under way; when it ends the slot is free. *)
LEMMA EndsFreesSlot ==
    ASSUME SynthInv, NEW r \in Underway, Ends(r)
    PROVE  SlotHeld' /\ extraction' \in [Runs -> {"none", "skipped", "timer", "asking", "saving", "ended"}]
                     /\ extracting' = FALSE
<1>1. Underway = {r}
  BY DEF SynthInv, SlotHeld, SynthTypes
<1>2. r \in Runs
  BY DEF Underway
<1>3. \A s \in Runs : s # r => extraction'[s] = extraction[s]
  BY DEF Ends, SynthInv, SynthTypes
<1>4. extraction'[r] = "ended"
  BY <1>2 DEF Ends, SynthInv, SynthTypes
<1>5. Underway' = {}
  BY <1>1, <1>3, <1>4 DEF Underway
<1> QED BY <1>5 DEF Ends, SlotHeld, SynthInv, SynthTypes

(* A step of a run that keeps the slot leaves the set of those under way as it is. *)
LEMMA OnwardKeepsSlot ==
    ASSUME SynthInv, NEW r \in Underway, NEW stage \in {"asking", "saving"},
           extraction' = [extraction EXCEPT ![r] = stage], extracting' = extracting
    PROVE  SlotHeld' /\ extraction' \in [Runs -> {"none", "skipped", "timer", "asking", "saving", "ended"}]
<1>1. r \in Runs
  BY DEF Underway
<1>2. Underway' = Underway
  BY <1>1 DEF Underway, SynthInv, SynthTypes
<1> QED BY <1>1, <1>2 DEF SlotHeld, SynthInv, SynthTypes

LEMMA SynthInvStep == SynthInv /\ [SynthNext]_synthVars => SynthInv'
<1> SUFFICES ASSUME SynthInv, [SynthNext]_synthVars PROVE SynthInv'
  OBVIOUS
<1> USE SynthAssumption
<1>1. ASSUME NEW r \in Runs, NEW worth \in BOOLEAN, Completed(r, worth) PROVE SynthInv'
  <2>1. CASE extractorDisabled \/ extracting \/ ~worth
    <3>1. Skip(r) /\ extraction[r] = "none"
      BY <1>1, <2>1 DEF Completed
    <3>2. Underway' = Underway
      BY <3>1 DEF Skip, Underway, SynthInv, SynthTypes
    <3> QED BY <3>1, <3>2 DEF Skip, SynthInv, SynthTypes, SlotHeld, FailuresDisable
  <2>2. CASE ~(extractorDisabled \/ extracting \/ ~worth)
    <3>1. /\ extracting = FALSE /\ extracting' = TRUE
          /\ extraction' = [extraction EXCEPT ![r] = "timer"]
          /\ UNCHANGED <<consecutiveFailures, extractorDisabled>>
      BY <1>1, <2>2 DEF Completed, Claimed, SynthInv, SynthTypes
    <3>2. Underway = {}
      BY <3>1 DEF SynthInv, SlotHeld
    <3>3. \A s \in Runs : s # r => extraction'[s] = extraction[s]
      BY <3>1 DEF SynthInv, SynthTypes
    <3>4. extraction'[r] = "timer"
      BY <3>1 DEF SynthInv, SynthTypes
    <3>5. Underway' = {r}
      BY <3>2, <3>3, <3>4 DEF Underway
    <3> QED BY <3>1, <3>5 DEF SynthInv, SynthTypes, SlotHeld, FailuresDisable
  <2> QED BY <2>1, <2>2
<1>2. ASSUME NEW r \in Runs, runExtraction(r) PROVE SynthInv'
  <2>1. r \in Underway
    BY <1>2 DEF runExtraction, Underway
  <2>2. extraction' = [extraction EXCEPT ![r] = "asking"] /\ extracting' = extracting
    BY <1>2 DEF runExtraction
  <2> QED BY <1>2, <2>1, <2>2, OnwardKeepsSlot DEF runExtraction, SynthInv, SynthTypes, FailuresDisable
<1>3. ASSUME NEW r \in Runs, AnswerFails(r) \/ SaveFails(r) PROVE SynthInv'
  <2>1. r \in Underway /\ recordExtractionFailure /\ Ends(r)
    BY <1>3 DEF AnswerFails, SaveFails, Underway
  <2>2. SlotHeld' /\ extracting' = FALSE
        /\ extraction' \in [Runs -> {"none", "skipped", "timer", "asking", "saving", "ended"}]
    BY <2>1, EndsFreesSlot
  <2>3. consecutiveFailures' \in Nat
    BY <2>1 DEF recordExtractionFailure, SynthInv, SynthTypes
  <2>4. extractorDisabled' \in BOOLEAN
    BY <2>1 DEF recordExtractionFailure
  <2>5. FailuresDisable'
    BY Zenon, <2>1 DEF recordExtractionFailure, FailuresDisable
  <2> QED BY <2>2, <2>3, <2>4, <2>5 DEF SynthInv, SynthTypes
<1>4. ASSUME NEW r \in Runs, Saved(r) PROVE SynthInv'
  <2>1. r \in Underway /\ Ends(r) /\ UNCHANGED <<consecutiveFailures, extractorDisabled>>
    BY <1>4 DEF Saved, Underway
  <2>2. SlotHeld' /\ extracting' = FALSE
        /\ extraction' \in [Runs -> {"none", "skipped", "timer", "asking", "saving", "ended"}]
    BY <2>1, EndsFreesSlot
  <2> QED BY <2>1, <2>2 DEF SynthInv, SynthTypes, FailuresDisable
<1>5. ASSUME NEW r \in Runs, NEW name \in SkillNames \cup {NoName}, Answered(r, name) PROVE SynthInv'
  <2>1. r \in Underway /\ consecutiveFailures' = 0 /\ extractorDisabled' = extractorDisabled
    BY <1>5 DEF Answered, Underway
  <2>2. FailuresDisable'
    BY <2>1 DEF FailuresDisable
  <2>3. CASE Ends(r)
    <3>1. SlotHeld' /\ extracting' = FALSE
          /\ extraction' \in [Runs -> {"none", "skipped", "timer", "asking", "saving", "ended"}]
      BY <2>1, <2>3, EndsFreesSlot
    <3> QED BY <2>1, <2>2, <3>1 DEF SynthInv, SynthTypes
  <2>4. CASE extraction' = [extraction EXCEPT ![r] = "saving"] /\ UNCHANGED extracting
    <3>1. SlotHeld' /\ extraction' \in [Runs -> {"none", "skipped", "timer", "asking", "saving", "ended"}]
      BY <2>1, <2>4, OnwardKeepsSlot
    <3> QED BY <2>1, <2>2, <2>4, <3>1 DEF SynthInv, SynthTypes
  <2> QED BY <1>5, <2>3, <2>4 DEF Answered
<1>6. ASSUME NEW name \in SkillNames, Others(name) PROVE SynthInv'
  BY <1>6 DEF Others, SynthInv, SynthTypes, SlotHeld, FailuresDisable, Underway
<1>7. CASE UNCHANGED synthVars
  BY <1>7 DEF synthVars, SynthInv, SynthTypes, SlotHeld, FailuresDisable, Underway
<1> QED
  BY <1>1, <1>2, <1>3, <1>4, <1>5, <1>6, <1>7 DEF SynthNext

(* The slot, the row of failures and the stages keep their types. *)
THEOREM SynthTypeCorrect == SynthSpec => []SynthTypes
<1>1. SynthInv => SynthTypes
  BY DEF SynthInv
<1> QED
  BY <1>1, SynthInitInv, SynthInvStep, PTL DEF SynthSpec

(* One extraction at a time, the slot never lost, and three failures in a  *)
(* row switch it off (skills/skill-synth.ts:112).                          *)
THEOREM OneExtractionCorrect == SynthSpec => []OneExtraction
<1>1. SynthInv => OneExtraction
  <2> SUFFICES ASSUME SynthInv PROVE OneExtraction
    OBVIOUS
  <2>1. CASE extracting
    <3>1. PICK r \in Runs : Underway = {r}
      BY <2>1 DEF SynthInv, SlotHeld
    <3>2. Cardinality(Underway) = 1
      BY <3>1, FS_Singleton
    <3> QED BY <2>1, <3>2 DEF OneExtraction, SynthInv, FailuresDisable
  <2>2. CASE ~extracting
    <3>1. Underway = {}
      BY <2>2 DEF SynthInv, SlotHeld
    <3>2. Cardinality(Underway) = 0
      BY <3>1, FS_EmptySet
    <3> QED BY <2>2, <3>2 DEF OneExtraction, SynthInv, FailuresDisable
  <2> QED BY <2>1, <2>2
<1> QED
  BY <1>1, SynthInitInv, SynthInvStep, PTL DEF SynthSpec
-----------------------------------------------------------------------------
(* Memory.tla *)

LessonKinds == {"selfReview", "preset", "misuse"}

Shared == cache["shared"].memories

(* A file holds one memory. *)
OneEach(memories) ==
    \A m, n \in memories : toFilename(m.name) = toFilename(n.name) => m = n

(* Each lesson is there, and for a misuse with the time of its name, whoever *)
(* has rewritten it since: that is what the next one is held back by.        *)
Knows(memories) ==
    \A name \in learned :
        \E m \in memories : m.name = name /\ (name.kind = "misuse" => m.created = name.at)

(* The cache of the reviews' store is loaded from the start.               *)
Cached ==
    /\ DOMAIN cache = Stores /\ cache = [st \in Stores |-> cache[st]]
    /\ cache["shared"] = Loaded(Shared)

(* No note has the file of a lesson. *)
NoteFiles ==
    \A m \in files : m.name.kind = "note" => toFilename(m.name).kind = "note"

(* A store finds what it wrote, unless the tool has rewritten it. *)
Own == \A st \in Stores : \A m \in files : m.by = st => m \in load(st)

(* The index lists the files but for a save that failed. *)
Listed == ~torn => index = {m.name : m \in files}

StoreInv ==
    /\ Cached /\ NoteFiles /\ Own /\ Listed
    /\ OneEach(files) /\ OneEach(Shared) /\ Knows(files) /\ Knows(Shared)

(* Lessons are of the past, and two of one misuse a day apart. *)
LessonsInv ==
    /\ moment \in Nat
    /\ \A name \in learned :
        name.kind \in LessonKinds /\ (name.kind = "misuse" => name.at \in Nat /\ name.at <= moment)
    /\ \A a, b \in learned :
        a.kind = "misuse" /\ b.kind = "misuse" /\ a.key = b.key /\ a.at < b.at => b.at - a.at >= Day

(* One review at most is under way, and holds the slot. *)
OneReview ==
    /\ review \in [Ended -> {"none", "asking", "over"}]
    /\ \A r, s \in Ended : review[r] = "asking" /\ review[s] = "asking" => r = s
    /\ reflecting <=> \E r \in Ended : review[r] = "asking"

MemoryInv == StoreInv /\ LessonsInv /\ OneReview

LEMMA MemoryInitInv == MemoryInit => MemoryInv
<1> SUFFICES ASSUME MemoryInit PROVE MemoryInv
  OBVIOUS
<1>1. /\ files = {Memo(Preset, 0, "shared")} /\ index = {Preset} /\ learned = {Preset} /\ moment = 0
      /\ Memo(Preset, 0, "shared").name = Preset /\ Preset.kind = "preset"
  BY DEF MemoryInit, Memo, Preset, Name
<1>2. Cached /\ Shared = files /\ \A st \in Stores : load(st) = files
  BY DEF MemoryInit, Cached, Shared, Stores, Loaded, Unloaded, load
<1>3. NoteFiles /\ Own /\ Listed /\ OneEach(files) /\ Knows(files)
  BY <1>1, <1>2 DEF NoteFiles, Own, Listed, OneEach, Knows
<1>4. StoreInv
  BY <1>2, <1>3 DEF StoreInv
<1>5. LessonsInv
  BY <1>1 DEF LessonsInv, LessonKinds
<1>6. OneReview
  BY DEF MemoryInit, OneReview
<1> QED BY <1>4, <1>5, <1>6 DEF MemoryInv

(* What a save that writes, in part or whole, does to the files. *)
LEMMA WritesKeep ==
    ASSUME StoreInv, NEW memories, NEW names, NEW outcome \in Outcomes, Writes(memories, outcome),
           OneEach(memories),
           \A n \in memories : n.name.kind = "note" => toFilename(n.name).kind = "note",
           \A n \in memories : n.name \in learned \cup names /\ n.name.kind = "misuse" => n.created = n.name.at,
           \A name \in names : \E n \in memories : n.name = name,
           Learns(IF outcome \in Whole THEN names ELSE {})
    PROVE  /\ OneEach(files)' /\ Knows(files)' /\ NoteFiles' /\ Listed'
           /\ files' \subseteq files \cup (IF outcome \in Whole THEN memories ELSE {})
           /\ learned' \subseteq learned \cup (IF outcome \in Whole THEN names ELSE {})
<1>1. outcome \in Whole => files' \subseteq Untouched(memories) \cup memories
  <2>1. outcome \in Whole => files' = Written(memories)
    BY DEF Writes, Whole
  <2> QED BY <2>1 DEF Written
<1>2. outcome \notin Whole => files' \subseteq files
  BY DEF Writes, Outcomes, Whole, Untouched
<1>3. files' \subseteq files \cup (IF outcome \in Whole THEN memories ELSE {})
  BY <1>1, <1>2 DEF Untouched
<1>4. learned' \subseteq learned \cup (IF outcome \in Whole THEN names ELSE {})
  BY DEF Learns
<1>5. OneEach(files)'
  <2> SUFFICES ASSUME NEW m \in files', NEW n \in files', toFilename(m.name) = toFilename(n.name)
               PROVE  m = n
    BY DEF OneEach, toFilename
  <2>1. CASE files' \subseteq files
    BY <2>1 DEF StoreInv, OneEach
  <2>2. CASE outcome \in Whole
    <3>1. \A x \in Untouched(memories), y \in memories : toFilename(x.name) # toFilename(y.name)
      BY DEF Untouched
    <3>2. Untouched(memories) \subseteq files
      BY DEF Untouched
    <3> QED BY <1>1, <2>2, <3>1, <3>2 DEF StoreInv, OneEach
  <2> QED BY <1>3, <2>1, <2>2
<1>6. Knows(files)'
  <2> SUFFICES ASSUME NEW name \in learned'
               PROVE  \E m \in files' : m.name = name /\ (name.kind = "misuse" => m.created = name.at)
    BY DEF Knows
  <2>1. PICK m \in files' : m.name = name
    BY DEF Learns
  <2>2. ASSUME name.kind = "misuse" PROVE m.created = name.at
    <3>1. CASE outcome \in Whole /\ m \in memories
      BY <1>4, <2>1, <2>2, <3>1
    <3>2. CASE m \in files /\ name \in learned
      <4>1. PICK k \in files : k.name = name /\ k.created = name.at
        BY <2>2, <3>2 DEF StoreInv, Knows
      <4> QED BY <2>1, <3>2, <4>1 DEF StoreInv, OneEach
    <3>3. CASE outcome \in Whole /\ m \notin memories /\ name \in names
      <4>1. PICK n \in memories : n.name = name
        BY <3>3
      <4>2. m \in Untouched(memories)
        BY <1>1, <3>3
      <4> QED BY <2>1, <4>1, <4>2 DEF Untouched
    <3> QED BY <1>3, <1>4, <3>1, <3>2, <3>3
  <2> QED BY <2>1, <2>2
<1>7. NoteFiles'
  BY <1>3 DEF StoreInv, NoteFiles, toFilename
<1>8. Listed'
  BY DEF Writes, Listed, Outcomes, StoreInv
<1> QED BY <1>3, <1>4, <1>5, <1>6, <1>7, <1>8

(* A save through a store. *)
LEMMA SaveKeeps ==
    ASSUME StoreInv, NEW st \in Stores, NEW memories, NEW names, NEW outcome \in Outcomes,
           save(st, memories, outcome), names = {} \/ st = "shared",
           OneEach(memories), \A n \in memories : n.by = st,
           \A n \in memories : n.name.kind = "note" => toFilename(n.name).kind = "note",
           \A n \in memories : n.name \in learned \cup names /\ n.name.kind = "misuse" => n.created = n.name.at,
           \A name \in names : \E n \in memories : n.name = name,
           Learns(IF outcome \in Whole THEN names ELSE {})
    PROVE  /\ StoreInv'
           /\ learned' \subseteq learned \cup (IF outcome \in Whole THEN names ELSE {})
<1>1. Writes(memories, outcome)
  BY DEF save
<1>2. /\ OneEach(files)' /\ Knows(files)' /\ NoteFiles' /\ Listed'
      /\ files' \subseteq files \cup (IF outcome \in Whole THEN memories ELSE {})
      /\ learned' \subseteq learned \cup (IF outcome \in Whole THEN names ELSE {})
  BY <1>1, WritesKeep
<1>3. /\ outcome \in Whole => cache' = [cache EXCEPT ![st] = Loaded(files')]
      /\ outcome \notin Whole => cache' = cache
  BY DEF save
<1>4. Cached'
  <2>1. DOMAIN cache' = Stores /\ cache' = [s \in Stores |-> cache'[s]]
    BY <1>3 DEF StoreInv, Cached
  <2>2. cache'["shared"] \in {cache["shared"], Loaded(files')}
    BY <1>3 DEF StoreInv, Cached, Stores
  <2>3. PICK known : cache'["shared"] = Loaded(known)
    BY <2>2 DEF StoreInv, Cached
  <2>4. Shared' = known
    BY <2>3 DEF Shared, Loaded
  <2> QED BY <2>1, <2>3, <2>4 DEF Cached
<1>5. OneEach(Shared)' /\ Knows(Shared)'
  <2>1. CASE outcome \in Whole /\ st = "shared"
    <3>1. Shared' = files'
      BY <1>3, <2>1 DEF Shared, StoreInv, Cached, Loaded
    <3> QED BY <1>2, <3>1 DEF OneEach, Knows, toFilename
  <2>2. CASE outcome \notin Whole \/ st # "shared"
    <3>1. cache'["shared"] = cache["shared"]
      BY <1>3, <2>2 DEF StoreInv, Cached, Stores
    <3>2. learned' \subseteq learned
      BY <1>2, <2>2
    <3>3. Shared' = Shared
      BY <3>1 DEF Shared
    <3> QED BY <3>2, <3>3 DEF StoreInv, OneEach, Knows, toFilename
  <2> QED BY <2>1, <2>2
<1>6. Own'
  <2> SUFFICES ASSUME NEW s \in Stores, NEW m \in files', m.by = s
               PROVE  m \in load(s)'
    BY DEF Own
  <2>1. CASE outcome \in Whole /\ s = st
    BY <1>3, <2>1 DEF load, StoreInv, Cached, Loaded
  <2>2. CASE ~(outcome \in Whole /\ s = st)
    <3>1. cache'[s] = cache[s]
      BY <1>3, <2>2 DEF StoreInv, Cached
    <3>2. m \in files
      BY <1>2, <2>2
    <3>3. m \in load(s)
      BY <3>2 DEF StoreInv, Own
    <3> QED BY <3>1, <3>3 DEF load
  <2> QED BY <2>1, <2>2
<1> QED BY <1>2, <1>4, <1>5, <1>6 DEF StoreInv

LEMMA LoadsKeep ==
    ASSUME StoreInv, NEW st \in Stores, Loads(st), UNCHANGED <<files, index, torn, learned>>
    PROVE  StoreInv'
<1>1. cache' = [cache EXCEPT ![st] = Loaded(load(st))]
  BY DEF Loads
<1>2. load("shared") = Shared
  BY DEF load, StoreInv, Cached, Loaded
<1>3. Cached' /\ Shared' = Shared
  BY <1>1, <1>2 DEF StoreInv, Cached, Shared, Stores, Loaded
<1>4. \A s \in Stores : load(s)' = load(s)
  BY <1>1 DEF StoreInv, Cached, load, Loaded
<1> QED BY <1>3, <1>4 DEF StoreInv, NoteFiles, Own, Listed, OneEach, Knows, toFilename

LEMMA StoreStays ==
    StoreInv /\ UNCHANGED storeVars => StoreInv'
BY DEF StoreInv, storeVars, Cached, NoteFiles, Own, Listed, OneEach, Knows, Shared, toFilename, load

(* Lessons that are over, and moments that pass, keep the others apart. *)
LEMMA LessonsStay ==
    ASSUME LessonsInv, learned' \subseteq learned, moment' \in Nat, moment <= moment'
    PROVE  LessonsInv'
BY DEF LessonsInv

(* What one saved memory is. *)
LEMMA OneMemo ==
    ASSUME NEW kind, NEW key, NEW at, NEW created, NEW by
    PROVE  LET m == Memo(Name(kind, key, at), created, by)
           IN  /\ m.name = Name(kind, key, at) /\ m.created = created /\ m.by = by
               /\ m.name.kind = kind /\ m.name.key = key /\ m.name.at = at
               /\ toFilename(m.name).kind = kind
               /\ OneEach({m})
BY DEF Memo, Name, toFilename, OneEach

(* A lesson that is written, or not. *)
LEMMA LessonStep ==
    ASSUME StoreInv, LessonsInv, NEW kind \in {"misuse", "selfReview"}, NEW key, NEW outcome \in Outcomes,
           SaveLesson(Name(kind, key, moment), outcome), moment' = moment,
           kind = "misuse" => ~Duplicate(key)
    PROVE  StoreInv' /\ LessonsInv'
<1> DEFINE name == Name(kind, key, moment)
           m == Memo(name, moment, "shared")
<1>1. name.kind = kind /\ name.key = key /\ name.at = moment
  BY DEF Name
<1>2. /\ m.name = name /\ m.created = moment /\ m.by = "shared"
      /\ toFilename(m.name).kind = kind /\ OneEach({m})
  BY OneMemo
<1>3. save("shared", {m}, outcome) /\ Learns(IF outcome \in Whole THEN {name} ELSE {})
  BY DEF SaveLesson
<1> HIDE DEF m, name
<1>4. StoreInv' /\ learned' \subseteq learned \cup (IF outcome \in Whole THEN {name} ELSE {})
  BY <1>1, <1>2, <1>3, SaveKeeps DEF Stores
<1>5. ASSUME kind = "misuse", NEW a \in learned, a.kind = "misuse", a.key = key
      PROVE  moment - a.at >= Day
  <2>1. PICK k \in Shared : k.name = a /\ k.created = a.at
    BY <1>5 DEF StoreInv, Knows
  <2>2. load("shared") = Shared
    BY DEF load, StoreInv, Cached, Loaded
  <2>3. ~(moment - a.at < Day)
    BY <1>5, <2>1, <2>2 DEF Duplicate
  <2> QED BY <1>5, <2>3, MemoryAssumption DEF LessonsInv
<1>6. ASSUME NEW a \in learned', NEW b \in learned',
             a.kind = "misuse", b.kind = "misuse", a.key = b.key, a.at < b.at
      PROVE  b.at - a.at >= Day
  <2>1. a \in learned \cup {name} /\ b \in learned \cup {name}
    BY <1>4
  <2>2. CASE a \in learned /\ b \in learned
    BY <1>6, <2>2 DEF LessonsInv
  <2>3. CASE a \in learned /\ b = name
    BY <1>1, <1>5, <1>6, <2>3
  <2>4. CASE a = name
    BY <1>1, <1>6, <2>1, <2>4 DEF LessonsInv
  <2> QED BY <2>1, <2>2, <2>3, <2>4
<1>7. ASSUME NEW a \in learned'
      PROVE  a.kind \in LessonKinds /\ (a.kind = "misuse" => a.at \in Nat /\ a.at <= moment)
  BY <1>1, <1>4 DEF LessonsInv, LessonKinds
<1> QED BY <1>4, <1>6, <1>7 DEF LessonsInv

LEMMA MisuseStep ==
    ASSUME StoreInv, LessonsInv, NEW trigger, saveMisuseLesson(trigger), moment' = moment
    PROVE  StoreInv' /\ LessonsInv'
<1>1. CASE trigger = "none"
  BY <1>1, StoreStays, LessonsStay DEF saveMisuseLesson, storeVars, LessonsInv
<1>2. CASE trigger # "none" /\ Duplicate(trigger)
  <2>1. Loads("shared") /\ UNCHANGED <<files, index, torn, learned>>
    BY <1>2 DEF saveMisuseLesson
  <2> QED BY <2>1, LoadsKeep, LessonsStay DEF Stores, LessonsInv
<1>3. CASE trigger # "none" /\ ~Duplicate(trigger)
  BY <1>3, LessonStep DEF saveMisuseLesson
<1> QED BY <1>1, <1>2, <1>3

(* The tool rewrites what it is given: a lesson keeps the time it was made. *)
LEMMA ToolStep ==
    ASSUME StoreInv, LessonsInv, NEW name \in Given, NEW outcome \in Whole \cup {"broken"}, SaveMemory(name, outcome)
    PROVE  StoreInv' /\ LessonsInv'
<1> DEFINE sameFile == {m \in files : toFilename(m.name) = toFilename(name)}
           created == IF sameFile = {} THEN moment ELSE (CHOOSE m \in sameFile : TRUE).created
           memo == Memo(name, created, "tool")
<1>1. /\ Writes({memo}, outcome) /\ Learns({}) /\ UNCHANGED <<cache, moment>> /\ outcome \in Outcomes
  BY DEF SaveMemory, Whole, Outcomes
<1>2. memo.name = name /\ memo.created = created /\ memo.by = "tool" /\ OneEach({memo})
  BY DEF Memo, OneEach
<1>3. name.kind = "note" => toFilename(name).kind = "note"
  <2>1. CASE \E note \in Notes : name = Name("note", note, 0)
    BY <2>1 DEF Name, toFilename
  <2>2. CASE \E m \in files : name = m.name
    BY <2>2 DEF StoreInv, NoteFiles
  <2>3. CASE name \in Forged
    BY <2>3, MemoryAssumption
  <2> QED BY <2>1, <2>2, <2>3 DEF Given
<1>4. ASSUME name \in learned, name.kind = "misuse" PROVE created = name.at
  <2>1. PICK k \in files : k.name = name /\ k.created = name.at
    BY <1>4 DEF StoreInv, Knows
  <2>2. \A m \in sameFile : m = k
    BY <2>1 DEF StoreInv, OneEach
  <2>3. sameFile # {} /\ (CHOOSE m \in sameFile : TRUE) = k
    BY <2>1, <2>2
  <2> QED BY <2>1, <2>3
<1> HIDE DEF memo, created
<1>5. /\ OneEach(files)' /\ Knows(files)' /\ NoteFiles' /\ Listed'
      /\ files' \subseteq files \cup {memo}
      /\ learned' \subseteq learned
  <2>1. Learns(IF outcome \in Whole THEN {} ELSE {})
    BY <1>1
  <2>2. \A n \in {memo} : n.name \in learned \cup {} /\ n.name.kind = "misuse" => n.created = n.name.at
    BY <1>2, <1>4
  <2>3. \A n \in {memo} : n.name.kind = "note" => toFilename(n.name).kind = "note"
    BY <1>2, <1>3
  <2>4. /\ OneEach(files)' /\ Knows(files)' /\ NoteFiles' /\ Listed'
        /\ files' \subseteq files \cup (IF outcome \in Whole THEN {memo} ELSE {})
        /\ learned' \subseteq learned \cup (IF outcome \in Whole THEN {} ELSE {})
    BY <1>1, <1>2, <2>1, <2>2, <2>3, WritesKeep
  <2> QED BY <2>4
<1>6. Shared' = Shared /\ Cached'
  BY <1>1 DEF StoreInv, Cached, Shared
<1>7. OneEach(Shared)' /\ Knows(Shared)'
  BY <1>5, <1>6 DEF StoreInv, OneEach, Knows, toFilename
<1>8. Own'
  <2> SUFFICES ASSUME NEW s \in Stores, NEW m \in files', m.by = s
               PROVE  m \in load(s)'
    BY DEF Own
  <2>1. m \in files
    BY <1>2, <1>5 DEF Stores
  <2>2. m \in load(s)
    BY <2>1 DEF StoreInv, Own
  <2> QED BY <1>1, <2>2 DEF load
<1> QED BY <1>1, <1>5, <1>6, <1>7, <1>8, LessonsStay DEF StoreInv, LessonsInv

(* Memories that are no lessons, through a store. *)
LEMMA PlainStep ==
    ASSUME StoreInv, LessonsInv, NEW st \in Stores, NEW kinds, "misuse" \notin kinds, "note" \notin kinds,
           NEW outcome \in Outcomes,
           save(st, {Memo(Name(kind, "", moment), moment, st) : kind \in kinds}, outcome),
           Learns({}), moment' = moment
    PROVE  StoreInv' /\ LessonsInv'
<1> DEFINE new == {Memo(Name(kind, "", moment), moment, st) : kind \in kinds}
<1>1. ASSUME NEW m \in new PROVE m.name.kind \notin {"misuse", "note"} /\ m.by = st
  <2>1. PICK kind \in kinds : m = Memo(Name(kind, "", moment), moment, st)
    OBVIOUS
  <2>2. m.name.kind = kind /\ m.by = st
    BY <2>1 DEF Memo, Name
  <2> QED BY <2>2
<1>2. OneEach(new)
  <2> SUFFICES ASSUME NEW m \in new, NEW n \in new, toFilename(m.name) = toFilename(n.name)
               PROVE  m = n
    BY DEF OneEach
  <2>1. PICK k \in kinds : m = Memo(Name(k, "", moment), moment, st)
    OBVIOUS
  <2>2. PICK l \in kinds : n = Memo(Name(l, "", moment), moment, st)
    OBVIOUS
  <2>3. m.name = Name(k, "", moment) /\ toFilename(Name(k, "", moment)) = Name(k, "", moment)
    BY <2>1 DEF Memo, Name, toFilename
  <2>4. n.name = Name(l, "", moment) /\ toFilename(Name(l, "", moment)) = Name(l, "", moment)
    BY <2>2 DEF Memo, Name, toFilename
  <2>5. Name(k, "", moment).kind = k /\ Name(l, "", moment).kind = l
    BY DEF Name
  <2> QED BY <2>1, <2>2, <2>3, <2>4, <2>5
<1>3. save(st, new, outcome)
  OBVIOUS
<1>4. Learns(IF outcome \in Whole THEN {} ELSE {})
  OBVIOUS
<1> HIDE DEF new
<1>5. StoreInv' /\ learned' \subseteq learned \cup (IF outcome \in Whole THEN {} ELSE {})
  BY <1>1, <1>2, <1>3, <1>4, SaveKeeps
<1> QED BY <1>5, LessonsStay DEF LessonsInv

(* The steps that write or read memories and leave the reviews alone. *)
LEMMA StoreSteps ==
    ASSUME MemoryInv
    PROVE  /\ \A name \in Given, outcome \in Whole \cup {"broken"} : SaveMemory(name, outcome) => MemoryInv'
           /\ \A found \in Extracts, outcome \in Whole : AutoExtract(found, outcome) => MemoryInv'
           /\ \A outcome \in Whole : persistOcrMemory(outcome) => MemoryInv'
           /\ FreezeSnapshot \/ Inject \/ Later => MemoryInv'
<1>0. UNCHANGED reviewVars => OneReview'
  BY DEF MemoryInv, OneReview, reviewVars
<1>1. ASSUME NEW name \in Given, NEW outcome \in Whole \cup {"broken"}, SaveMemory(name, outcome) PROVE MemoryInv'
  <2>1. StoreInv' /\ LessonsInv'
    BY <1>1, ToolStep DEF MemoryInv
  <2> QED BY <1>0, <1>1, <2>1 DEF SaveMemory, MemoryInv
<1>2. ASSUME NEW found \in Extracts, NEW outcome \in Whole, AutoExtract(found, outcome) PROVE MemoryInv'
  <2>1. "misuse" \notin found /\ "note" \notin found /\ outcome \in Outcomes
    BY MemoryAssumption DEF Whole, Outcomes
  <2>2. StoreInv' /\ LessonsInv'
    BY <1>2, <2>1, PlainStep DEF AutoExtract, MemoryInv, Stores
  <2> QED BY <1>0, <1>2, <2>2 DEF AutoExtract, MemoryInv
<1>3. ASSUME NEW outcome \in Whole, persistOcrMemory(outcome) PROVE MemoryInv'
  <2>1. {Memo(Name("ocr", "", moment), moment, "shared")}
            = {Memo(Name(kind, "", moment), moment, "shared") : kind \in {"ocr"}}
    OBVIOUS
  <2>2. /\ save("shared", {Memo(Name(kind, "", moment), moment, "shared") : kind \in {"ocr"}}, outcome)
        /\ Learns({}) /\ UNCHANGED <<moment, reviewVars>>
    BY <1>3, <2>1 DEF persistOcrMemory
  <2>3. "misuse" \notin {"ocr"} /\ "note" \notin {"ocr"} /\ outcome \in Outcomes
    BY DEF Whole, Outcomes
  <2>4. StoreInv' /\ LessonsInv'
    BY <2>2, <2>3, PlainStep DEF MemoryInv, Stores
  <2> QED BY <1>0, <2>2, <2>4 DEF MemoryInv
<1>4. ASSUME NEW st \in Stores, Loads(st), UNCHANGED <<files, index, torn, saves, learned, moment, reviewVars>>
      PROVE  MemoryInv'
  BY <1>0, <1>4, LoadsKeep, LessonsStay DEF MemoryInv, LessonsInv
<1>5. ASSUME FreezeSnapshot \/ Inject PROVE MemoryInv'
  BY <1>4, <1>5 DEF FreezeSnapshot, Inject, Stores
<1>6. ASSUME Later PROVE MemoryInv'
  <2>1. moment' = moment + 1 /\ UNCHANGED storeVars /\ UNCHANGED reviewVars
    BY <1>6 DEF Later
  <2>2. StoreInv'
    BY <2>1, StoreStays DEF MemoryInv
  <2>3. LessonsInv'
    <3>1. moment' \in Nat /\ moment <= moment' /\ learned' \subseteq learned
      BY <2>1 DEF MemoryInv, LessonsInv, storeVars
    <3> QED BY <3>1, LessonsStay DEF MemoryInv
  <2> QED BY <1>0, <2>1, <2>2, <2>3 DEF MemoryInv
<1> QED BY <1>1, <1>2, <1>3, <1>5, <1>6

(* The steps of a review. *)
LEMMA ReviewSteps ==
    ASSUME MemoryInv, NEW r \in Ended
    PROVE  /\ \A calls \in Traces, signals \in Endings : RunEnded(r, calls, signals) => MemoryInv'
           /\ ReflectionFails(r) => MemoryInv'
           /\ \A keyword : Reflected(r, keyword) => MemoryInv'
           /\ \A keyword : \A outcome \in Outcomes : LessonFails(r, keyword, outcome) => MemoryInv'
<1>0. UNCHANGED storeVars /\ moment' = moment => StoreInv' /\ LessonsInv'
  BY StoreStays, LessonsStay DEF MemoryInv, LessonsInv, storeVars
<1>1. ASSUME NEW calls \in Traces, NEW signals \in Endings, RunEnded(r, calls, signals) PROVE MemoryInv'
  <2>1. StoreInv' /\ LessonsInv'
    <3>1. moment' = moment
      BY <1>1 DEF RunEnded
    <3>2. CASE reviewDisabled
      BY <1>0, <1>1, <3>1, <3>2 DEF RunEnded
    <3>3. CASE ~reviewDisabled
      BY <1>1, <3>1, <3>3, MisuseStep DEF RunEnded, MemoryInv
    <3> QED BY <3>2, <3>3
  <2>2. OneReview'
    BY <1>1 DEF RunEnded, MemoryInv, OneReview
  <2> QED BY <2>1, <2>2 DEF MemoryInv
<1>2. ASSUME EndReview(r) PROVE OneReview' /\ moment' = moment
  BY <1>2 DEF EndReview, MemoryInv, OneReview
<1>3. ASSUME ReflectionFails(r) PROVE MemoryInv'
  BY <1>0, <1>2, <1>3 DEF ReflectionFails, MemoryInv
<1>4. ASSUME NEW keyword, NEW outcome \in Outcomes, moment' = moment, SaveLesson(Name("selfReview", keyword, moment), outcome)
      PROVE  StoreInv' /\ LessonsInv'
  BY <1>4, LessonStep DEF MemoryInv
<1>5. ASSUME NEW keyword, Reflected(r, keyword) PROVE MemoryInv'
  <2>1. CASE keyword = "none"
    BY <1>0, <1>2, <1>5, <2>1 DEF Reflected, MemoryInv
  <2>2. CASE keyword # "none"
    BY <1>2, <1>4, <1>5, <2>2 DEF Reflected, MemoryInv, Outcomes
  <2> QED BY <2>1, <2>2
<1>6. ASSUME NEW keyword, NEW outcome \in Outcomes, LessonFails(r, keyword, outcome) PROVE MemoryInv'
  BY <1>2, <1>4, <1>6 DEF LessonFails, MemoryInv
<1> QED BY <1>1, <1>3, <1>5, <1>6

(* A restart loads what is there, and writes the preset lesson when it is  *)
(* not: the store then knows what the files hold.                          *)
LEMMA DieStep ==
    ASSUME MemoryInv, Die
    PROVE  MemoryInv'
<1>1. /\ cache' = [st \in Stores |-> IF st = "shared" THEN Loaded(files') ELSE Unloaded]
      /\ moment' = moment
  BY DEF Die
<1>2. Cached' /\ Shared' = files' /\ Own'
  BY <1>1 DEF Cached, Shared, Stores, Loaded, Unloaded, load, Own
<1>3. /\ OneEach(files)' /\ Knows(files)' /\ NoteFiles' /\ Listed'
      /\ learned' \subseteq learned \cup {Preset}
  <2>1. CASE \E m \in files : m.name = Preset
    <3>1. UNCHANGED <<files, index, torn, learned>>
      BY <2>1 DEF Die
    <3> QED BY <3>1 DEF MemoryInv, StoreInv, OneEach, Knows, NoteFiles, Listed, toFilename
  <2>2. CASE ~\E m \in files : m.name = Preset
    <3> DEFINE m == Memo(Preset, moment, "shared")
    <3>1. PICK outcome \in Outcomes :
            /\ Writes({m}, outcome)
            /\ Learns(IF outcome \in Whole THEN {Preset} ELSE {})
      BY <2>2 DEF Die
    <3>2. m.name = Preset /\ m.name.kind = "preset" /\ OneEach({m})
      BY DEF Memo, Preset, Name, OneEach
    <3> HIDE DEF m
    <3>3. /\ OneEach(files)' /\ Knows(files)' /\ NoteFiles' /\ Listed'
          /\ learned' \subseteq learned \cup (IF outcome \in Whole THEN {Preset} ELSE {})
      BY <3>1, <3>2, WritesKeep DEF MemoryInv
    <3> QED BY <3>3
  <2> QED BY <2>1, <2>2
<1>4. StoreInv'
  BY <1>2, <1>3 DEF StoreInv, OneEach, Knows, toFilename
<1>5. LessonsInv'
  <2>1. Preset.kind = "preset"
    BY DEF Preset, Name
  <2> QED BY <1>1, <1>3, <2>1 DEF MemoryInv, LessonsInv, LessonKinds
<1>6. OneReview'
  BY DEF Die, MemoryInv, OneReview
<1> QED BY <1>4, <1>5, <1>6 DEF MemoryInv

LEMMA MemoryInvStep == MemoryInv /\ [MemoryNext]_memoryVars => MemoryInv'
<1> SUFFICES ASSUME MemoryInv, [MemoryNext]_memoryVars PROVE MemoryInv'
  OBVIOUS
<1>1. CASE UNCHANGED memoryVars
  <2>1. UNCHANGED storeVars /\ moment' = moment /\ UNCHANGED reviewVars
    BY <1>1 DEF memoryVars, storeVars, reviewVars
  <2>2. LessonsInv'
    BY <2>1, LessonsStay DEF MemoryInv, LessonsInv, storeVars
  <2> QED BY <2>1, <2>2, StoreStays DEF MemoryInv, OneReview, reviewVars
<1>2. CASE MemoryNext
  BY <1>2, StoreSteps, ReviewSteps, DieStep DEF MemoryNext
<1> QED BY <1>1, <1>2

(* Of any notes and made-up names, turns, runs, failing saves, crashes and     *)
(* restarts: the store of the reviews finds each lesson that has a file, once  *)
(* and by its name, each store finds what it wrote and the tool did not        *)
(* rewrite, two lessons of one misuse are a day apart                          *)
(* (autonomous/self-review.ts:229), the index lists the files but for a save   *)
(* that failed, and one review holds the slot.                                 *)
THEOREM MemoryCorrect == MemorySpec => []MemorySound
<1>1. MemoryInv => MemorySound
  <2> SUFFICES ASSUME MemoryInv PROVE MemorySound
    OBVIOUS
  <2>1. load("shared") = Shared
    BY DEF load, MemoryInv, StoreInv, Cached, Loaded
  <2>2. ASSUME NEW name \in learned
        PROVE  \E m \in load("shared") : {n \in load("shared") : n.name = name} = {m}
    <3>1. PICK m \in Shared : m.name = name
      BY DEF MemoryInv, StoreInv, Knows
    <3>2. \A n \in Shared : n.name = name => n = m
      BY <3>1 DEF MemoryInv, StoreInv, OneEach
    <3>3. {n \in Shared : n.name = name} = {m}
      BY <3>1, <3>2
    <3> QED BY <2>1, <3>3
  <2>3. Cardinality({r \in Ended : review[r] = "asking"}) = IF reflecting THEN 1 ELSE 0
    <3> DEFINE asking == {r \in Ended : review[r] = "asking"}
    <3>1. CASE reflecting
      <4>1. PICK r \in Ended : review[r] = "asking"
        BY <3>1 DEF MemoryInv, OneReview
      <4>2. asking = {r}
        BY <4>1 DEF MemoryInv, OneReview
      <4> QED BY <3>1, <4>2, FS_Singleton
    <3>2. CASE ~reflecting
      <4>1. asking = {}
        BY <3>2 DEF MemoryInv, OneReview
      <4> QED BY <3>2, <4>1, FS_EmptySet
    <3> QED BY <3>1, <3>2
  <2> QED BY <2>2, <2>3 DEF MemoryInv, StoreInv, LessonsInv, Own, Listed, MemorySound
<1> QED
  BY <1>1, MemoryInitInv, MemoryInvStep, PTL DEF MemorySpec
=============================================================================
