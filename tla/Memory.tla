------------------------------- MODULE Memory -------------------------------
(***************************************************************************)
(* The memories (memory/store.ts), one file each and an index, and those   *)
(* who write them: the save_memory tool, the session manager after a turn, *)
(* the images that were read, and the review of failed runs                *)
(* (autonomous/self-review.ts), which also puts its lessons into later     *)
(* prompts.  The first two have a store each and the others share one, all *)
(* over the same directory in one process, each with a cache of its own;   *)
(* every operation of a store is synchronous.                              *)
(*                                                                         *)
(* A memory's name is its kind, a key, and for the generated names the     *)
(* time.  The tool is given any name: one of its own, that of a memory it  *)
(* saw in the prompt, or one it makes up in the form of a lesson's.        *)
(***************************************************************************)
EXTENDS Naturals, Sequences, FiniteSets

CONSTANTS Notes,          \* names given to save_memory
          Stem,           \* Stem[note], the name with _ for what a file name may not hold
          Forged,         \* names in a lesson's form that the model makes up for save_memory
          Traces,         \* tool calls of the runs that end: sequences of [kind, ok]
          Endings,        \* how runs end: sets of signals
          Keywords,       \* keywords of lessons
          Extracts,       \* what autoExtractMemory writes after a turn, all that it finds or
                          \* what comes before a save that fails: sets of "todo", "feedback", "project"
          Ended,          \* the runs that end
          Day, MaxReflectFailures,
          MaxMoment,      \* bound: instants
          MaxSaves        \* bound: saves that write something

ASSUME MemoryAssumption ==
    /\ Day \in Nat \ {0} /\ MaxReflectFailures \in Nat \ {0}
    /\ Stem \in [Notes -> STRING]
    /\ \A name \in Forged : DOMAIN name = {"kind", "key", "at"} /\ name.kind \in {"misuse", "selfReview"}
    /\ \A found \in Extracts : found \subseteq {"todo", "feedback", "project"}

\* The cache of the tool's own store is dropped with each save and never read.
Stores == {"session", "shared"}

VARIABLES files,          \* the memories on disk that can be read
          index,          \* the names MEMORY.md lists
          torn,           \* the last save that began to write did not come to the index
          saves,          \* how many began to write
          cache,          \* each store's: loaded or not, and the memories
          moment,
          reflecting, reflectFailures, reviewDisabled,
          review,         \* how far each run's review is
          learned         \* history: names of the lessons written that still have a file

storeVars == <<files, index, torn, saves, cache, learned>>
reviewVars == <<reflecting, reflectFailures, reviewDisabled, review>>
memoryVars == <<files, index, torn, saves, cache, learned, moment,
                reflecting, reflectFailures, reviewDisabled, review>>

Name(kind, key, at) == [kind |-> kind, key |-> key, at |-> at]
Memo(name, created, by) == [name |-> name, created |-> created, by |-> by]

toFilename(name) == IF name.kind = "note" THEN [name EXCEPT !.key = Stem[name.key]] ELSE name

MemoryIndex == Name("note", "MEMORY", 0)
Preset == Name("preset", "fix", 0)
Unloaded == [loaded |-> FALSE, memories |-> {}]
Loaded(memories) == [loaded |-> TRUE, memories |-> memories]

(* a first start: the preset lesson is written *)
MemoryInit ==
    /\ moment = 0
    /\ files = {Memo(Preset, 0, "shared")} /\ index = {Preset} /\ torn = FALSE
    /\ saves = 0 /\ learned = {Preset}
    /\ cache = [st \in Stores |-> IF st = "shared" THEN Loaded(files) ELSE Unloaded]
    /\ reflecting = FALSE /\ reflectFailures = 0 /\ reviewDisabled = FALSE
    /\ review = [r \in Ended |-> "none"]
-----------------------------------------------------------------------------
load(st) == IF cache[st].loaded THEN cache[st].memories ELSE files

Loads(st) == cache' = [cache EXCEPT ![st] = Loaded(load(st))]

(* the files that are not written to *)
Untouched(memories) == {m \in files : \A n \in memories : toFilename(n.name) # toFilename(m.name)}

(* what the files hold after memories are written: one that lands on the index
   is overwritten by it, and is not loaded *)
Written(memories) == Untouched(memories) \cup {n \in memories : toFilename(n.name) # MemoryIndex}

(* How a save ends: done; with the memory written and an index that cannot be;
   with the memory cut short, which no load can read; or with nothing done. *)
Outcomes == {"saved", "unlisted", "broken", "nothing"}
Whole == {"saved", "unlisted"}

(* the file, and the index from a new load; what an index that could not be
   written may hold is read by nobody *)
Writes(memories, outcome) ==
    \/ /\ outcome # "nothing" /\ saves < MaxSaves /\ saves' = saves + 1
       /\ files' = IF outcome = "broken" THEN Untouched(memories) ELSE Written(memories)
       /\ torn' = (outcome # "saved")
       /\ index' = IF torn' THEN {} ELSE {m.name : m \in files'}
    \/ outcome = "nothing" /\ UNCHANGED <<files, index, torn, saves>>

(* Mutant: a write leaves the store's cache. *)
save_KeepsCache(st, memories, outcome) ==
    /\ Writes(memories, outcome)
    /\ cache' = IF outcome \in Whole THEN [cache EXCEPT ![st] = Loaded(load(st))] ELSE cache

(* that load is what the cache holds then *)
save(st, memories, outcome) ==
    /\ Writes(memories, outcome)
    /\ cache' = IF outcome \in Whole THEN [cache EXCEPT ![st] = Loaded(files')] ELSE cache

(* history: the lessons that have a file, after names were written *)
Learns(names) ==
    learned' = {name \in learned \cup names : \E m \in files' : m.name = name}

(* what save_memory is asked to save *)
Given == {Name("note", note, 0) : note \in Notes} \cup {m.name : m \in files} \cup Forged

(* save_memory: get reads the file, which another name may share, and the
   memory there keeps the time it was made at *)
SaveMemory(name, outcome) ==
    LET existing == {m \in files : toFilename(m.name) = toFilename(name)}
        created == IF existing = {} THEN moment ELSE (CHOOSE m \in existing : TRUE).created
    IN  /\ Writes({Memo(name, created, "tool")}, outcome)
        /\ Learns({})
        /\ UNCHANGED <<cache, moment, reviewVars>>

(* autoExtractMemory after a turn: up to three memories, by what the texts
   contain; their names are new, so one that is cut short replaces none *)
AutoExtract(found, outcome) ==
    /\ save("session", {Memo(Name(kind, "", moment), moment, "session") : kind \in found}, outcome)
    /\ Learns({})
    /\ UNCHANGED <<moment, reviewVars>>

(* a session starts: formatForPrompt gives it the latest of what its store knows *)
FreezeSnapshot ==
    /\ Loads("session")
    /\ UNCHANGED <<files, index, torn, saves, learned, moment, reviewVars>>
-----------------------------------------------------------------------------
(* detectMisuse *)
NoFallback(calls, kind, fallbacks) ==
    \E i \in DOMAIN calls :
        /\ calls[i].kind = kind /\ ~calls[i].ok
        /\ \A j \in DOMAIN calls : j > i => calls[j].kind \notin fallbacks

detectMisuse(calls) ==
    IF \E i \in DOMAIN calls : calls[i].kind = "tool-as-script" THEN "tool-as-script"
    ELSE IF NoFallback(calls, "web_fetch", {"web_search", "read", "read-secret", "curl"}) THEN "web_fetch"
    ELSE IF NoFallback(calls, "read-secret", {"grep", "env"}) THEN "read-secret"
    ELSE "none"

detectFailure(signals) ==
    \/ signals \cap {"phrase", "hedge", "terminated"} # {}
    \/ {"many turns", "short answer"} \subseteq signals
    \/ "two tool errors" \in signals

(* a lesson with this trigger in the last day *)
Duplicate(trigger) ==
    \E m \in load("shared") :
        m.name.kind = "misuse" /\ m.name.key = trigger /\ moment - m.created < Day

SaveLesson(name, outcome) ==
    /\ save("shared", {Memo(name, moment, "shared")}, outcome)
    /\ Learns(IF outcome \in Whole THEN {name} ELSE {})

saveMisuseLesson(trigger) ==
    IF trigger = "none" THEN UNCHANGED storeVars
    ELSE IF Duplicate(trigger) THEN Loads("shared") /\ UNCHANGED <<files, index, torn, saves, learned>>
    ELSE \E outcome \in Outcomes : SaveLesson(Name("misuse", trigger, moment), outcome)

(* executor:complete; that a lesson could not be saved changes nothing *)
RunEnded(r, calls, signals) ==
    /\ review[r] = "none"
    /\ IF reviewDisabled THEN UNCHANGED storeVars ELSE saveMisuseLesson(detectMisuse(calls))
    /\ IF reviewDisabled \/ reflecting \/ ~detectFailure(signals)
       THEN review' = [review EXCEPT ![r] = "over"] /\ UNCHANGED reflecting
       ELSE review' = [review EXCEPT ![r] = "asking"] /\ reflecting' = TRUE
    /\ UNCHANGED <<moment, reflectFailures, reviewDisabled>>

EndReview(r) ==
    /\ review[r] = "asking"
    /\ review' = [review EXCEPT ![r] = "over"]
    /\ reflecting' = FALSE
    /\ UNCHANGED moment

(* one more failure after this row of them *)
recordReflectionFailure(row) ==
    /\ reflectFailures' = row + 1
    /\ reviewDisabled' = (reviewDisabled \/ row + 1 >= MaxReflectFailures)

(* no answer, or none that can be read *)
ReflectionFails(r) ==
    /\ EndReview(r)
    /\ recordReflectionFailure(reflectFailures)
    /\ UNCHANGED storeVars

(* an answer, without a usable lesson when there is no keyword *)
Reflected(r, keyword) ==
    /\ EndReview(r)
    /\ reflectFailures' = 0
    /\ IF keyword = "none" THEN UNCHANGED storeVars
       ELSE SaveLesson(Name("selfReview", keyword, moment), "saved")
    /\ UNCHANGED reviewDisabled

(* an answer has ended the row when its lesson cannot be saved *)
LessonFails(r, keyword, outcome) ==
    /\ EndReview(r)
    /\ SaveLesson(Name("selfReview", keyword, moment), outcome)
    /\ recordReflectionFailure(0)

(* an image was read (multimodal/image-processor.ts) *)
persistOcrMemory(outcome) ==
    /\ save("shared", {Memo(Name("ocr", "", moment), moment, "shared")}, outcome)
    /\ Learns({})
    /\ UNCHANGED <<moment, reviewVars>>

(* injectSelfReviewsForTask, before a request: a search per keyword *)
Inject ==
    /\ Loads("shared")
    /\ UNCHANGED <<files, index, torn, saves, learned, moment, reviewVars>>
-----------------------------------------------------------------------------
Later == moment < MaxMoment /\ moment' = moment + 1
         /\ UNCHANGED <<storeVars, reviewVars>>

(* the process dies and starts again, and writes the preset lesson if it is
   not there; to die within a save is a save that fails before that *)
Die ==
    /\ IF \E m \in files : m.name = Preset
       THEN UNCHANGED <<files, index, torn, saves, learned>>
       ELSE \E outcome \in Outcomes :
            /\ Writes({Memo(Preset, moment, "shared")}, outcome)
            /\ Learns(IF outcome \in Whole THEN {Preset} ELSE {})
    /\ cache' = [st \in Stores |-> IF st = "shared" THEN Loaded(files') ELSE Unloaded]
    /\ review' = [r \in Ended |-> IF review[r] = "asking" THEN "over" ELSE review[r]]
    /\ reflecting' = FALSE /\ reflectFailures' = 0 /\ reviewDisabled' = FALSE
    /\ UNCHANGED moment

MemoryNext ==
    \/ \E name \in Given, outcome \in Whole \cup {"broken"} : SaveMemory(name, outcome)
    \/ \E found \in Extracts, outcome \in Whole : AutoExtract(found, outcome)
    \/ \E outcome \in Whole : persistOcrMemory(outcome)
    \/ FreezeSnapshot \/ Inject \/ Later \/ Die
    \/ \E r \in Ended, calls \in Traces, signals \in Endings : RunEnded(r, calls, signals)
    \/ \E r \in Ended : ReflectionFails(r)
    \/ \E r \in Ended, keyword \in Keywords \cup {"none"} : Reflected(r, keyword)
    \/ \E r \in Ended, keyword \in Keywords, outcome \in Outcomes \ {"saved"} : LessonFails(r, keyword, outcome)

MemorySpec == MemoryInit /\ [][MemoryNext]_memoryVars
-----------------------------------------------------------------------------
(* memory/store.ts:19 has the cache dropped on save and assumes one owner of   *)
(* the directory, and there are three stores.  Still the store that prompts    *)
(* get their lessons from finds each lesson that was written and whose file    *)
(* holds, once and by its name (with its old text when save_memory has         *)
(* rewritten it behind the cache), each store finds what it wrote and the tool *)
(* did not rewrite, and self-review.ts:229 holds: no two lessons of one misuse *)
(* within a day, though the tool rewrites them and makes up others, saves      *)
(* fail and the process restarts.  The index lists the memories on disk but    *)
(* for a save that failed, and one review at a time holds the slot.            *)
MemorySound ==
    /\ \A name \in learned :
        \E m \in load("shared") : {n \in load("shared") : n.name = name} = {m}
    /\ \A st \in Stores : \A m \in files : m.by = st => m \in load(st)
    /\ \A a, b \in learned :
        a.kind = "misuse" /\ b.kind = "misuse" /\ a.key = b.key /\ a.at < b.at => b.at - a.at >= Day
    /\ ~torn => index = {m.name : m \in files}
    /\ Cardinality({r \in Ended : review[r] = "asking"}) = IF reflecting THEN 1 ELSE 0
=============================================================================
