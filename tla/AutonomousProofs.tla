-------------------------- MODULE AutonomousProofs --------------------------
(***************************************************************************)
(* Proofs about Autonomous.tla: the types, for any processes, and with one *)
(* process on the data directory that a cron entry fires once for each     *)
(* time, that the log replays to the tasks in memory and that no task is   *)
(* executed twice, for any entries, tasks, crashes and compactions.        *)
(***************************************************************************)
EXTENDS Autonomous, SequenceLemmas
-----------------------------------------------------------------------------
(* UserCron *)

(* The part of the state that user cron works with. *)
CronTypes ==
    /\ up \in [Procs -> BOOLEAN]
    /\ now \in Nat /\ now <= MaxSlot
    /\ cron \in [Procs -> [Entries -> Nat]] /\ cronFile \in [Entries -> Nat]
    /\ unsaved \in [Procs -> BOOLEAN]
    /\ fired \in [Entries -> [Slots -> Nat]]
    /\ cutShort \in BOOLEAN

(* An entry that waits for `next` has not fired for that time yet. *)
Ahead(next, e) == next = None \/ \A s \in Slots : fired[e][s] > 0 => s < next

(* Times fired have come, and entries in memory and, once saved, on disk    *)
(* wait for later ones.                                                     *)
CronInv ==
    /\ CronTypes
    /\ \A e \in Entries, s \in Slots : fired[e][s] > 0 => s <= now
    /\ \A p \in Procs : unsaved[p] => up[p]
    /\ ~cutShort =>
          /\ \A p \in Procs, e \in Entries : Ahead(cron[p][e], e)
          /\ \A e \in Entries : (\A p \in Procs : ~unsaved[p]) => Ahead(cronFile[e], e)
          /\ \A e \in Entries, s \in Slots : fired[e][s] <= 1

LEMMA CronInitInv == Init => CronInv
<1> SUFFICES ASSUME Init PROVE CronInv
  OBVIOUS
<1>1. /\ \A e \in Entries, s \in Slots : fired[e][s] = 0
      /\ \A p \in Procs, e \in Entries : cron[p][e] = None /\ cronFile[e] = None
      /\ \A p \in Procs : ~unsaved[p]
  BY DEF Init
<1>2. cutShort \in BOOLEAN /\ now = 0 /\ unsaved \in [Procs -> BOOLEAN] /\ up \in [Procs -> BOOLEAN]
  BY Zenon DEF Init
<1>3. MaxSlot \in Nat
  BY AutonomousAssumption
<1>4. CronTypes
  BY <1>2, <1>3 DEF Init, CronTypes, None
<1> QED BY <1>1, <1>4 DEF CronInv, Ahead

(* A step of the store or the worker is no step of the clock. *)
LEMMA CronFrame ==
    ASSUME CronInv, UNCHANGED clockwork, UNCHANGED <<up, cutShort>>
    PROVE  CronInv'
  BY DEF CronInv, CronTypes, Ahead, clockwork

(* A tick fires an entry that is due. *)
LEMMA FireStep ==
    ASSUME NEW bot, Procs = {bot}, CronInv, NEW e \in Entries, CronFire(bot, e)
    PROVE  CronInv'
<1> DEFINE at == cron[bot][e]
<1>1. /\ up[bot] /\ e \in Due(bot) /\ UNCHANGED <<up, now, cronFile, cutShort>>
      /\ fired' = [fired EXCEPT ![e][at] = @ + 1]
      /\ cron' = [cron EXCEPT ![bot][e] = now + 1]
      /\ unsaved' = [unsaved EXCEPT ![bot] = TRUE]
  BY DEF CronFire
<1>2. CronTypes
  BY DEF CronInv
<1>3. at \in Slots /\ at <= now /\ at # None
  BY <1>1, <1>2, AutonomousAssumption DEF Due, CronTypes, Slots, None
<1> HIDE DEF at
<1>4. /\ \A d \in Entries, s \in Slots :
             fired'[d][s] = IF d = e /\ s = at THEN fired[d][s] + 1 ELSE fired[d][s]
      /\ fired' \in [Entries -> [Slots -> Nat]]
  BY <1>1, <1>2, <1>3 DEF CronTypes
<1>5. /\ \A d \in Entries : cron'[bot][d] = IF d = e THEN now + 1 ELSE cron[bot][d]
      /\ cron' \in [Procs -> [Entries -> Nat]]
  BY <1>1, <1>2 DEF CronTypes
<1>6. unsaved'[bot] /\ unsaved' \in [Procs -> BOOLEAN]
  BY <1>1, <1>2 DEF CronTypes
<1>7. CronTypes'
  BY <1>1, <1>2, <1>4, <1>5, <1>6 DEF CronTypes
<1>8. \A d \in Entries, s \in Slots : fired'[d][s] > 0 => s <= now'
  BY <1>1, <1>2, <1>3, <1>4 DEF CronInv, CronTypes
<1>9. ASSUME ~cutShort
      PROVE  /\ \A d \in Entries : Ahead(cron[bot][d], d)'
             /\ \A d \in Entries, s \in Slots : fired'[d][s] <= 1
  <2>1. fired[e][at] = 0
    <3>1. Ahead(cron[bot][e], e) /\ fired[e][at] \in Nat /\ now \in Nat
      BY <1>2, <1>3, <1>9 DEF CronInv, CronTypes
    <3>2. at = cron[bot][e] /\ at \in Nat
      BY <1>2, <1>3 DEF at, CronTypes
    <3> QED BY <1>3, <3>1, <3>2 DEF Ahead
  <2>2. ASSUME NEW d \in Entries PROVE Ahead(cron[bot][d], d)'
    <3>1. CASE d = e
      <4>1. cron'[bot][d] = now + 1 /\ now' = now /\ now \in Nat
        BY <1>1, <1>2, <1>5, <3>1 DEF CronTypes
      <4>2. \A s \in Slots : s \in Nat
        BY AutonomousAssumption DEF Slots
      <4> QED BY <1>8, <4>1, <4>2 DEF Ahead
    <3>2. CASE d # e
      <4>1. cron'[bot][d] = cron[bot][d] /\ \A s \in Slots : fired'[d][s] = fired[d][s]
        BY <1>4, <1>5, <3>2
      <4> QED BY <1>9, <4>1 DEF CronInv, Ahead
    <3> QED BY <3>1, <3>2
  <2>3. \A d \in Entries, s \in Slots : fired'[d][s] <= 1
    BY <1>4, <1>9, <2>1 DEF CronInv
  <2> QED BY <2>2, <2>3
<1> QED BY <1>1, <1>6, <1>7, <1>8, <1>9 DEF CronInv

LEMMA CronInvStep ==
    ASSUME NEW bot, Procs = {bot}, CronInv, [Next]_vars
    PROVE  CronInv'
<1>0. CronTypes
  BY DEF CronInv
<1>1. ASSUME Boot(bot) PROVE CronInv'
  <2>1. /\ ~up[bot] /\ up' = [up EXCEPT ![bot] = TRUE] /\ cron' = [cron EXCEPT ![bot] = cronFile]
        /\ UNCHANGED <<now, cronFile, unsaved, fired, cutShort>>
    BY <1>1 DEF Boot
  <2>2. /\ up' \in [Procs -> BOOLEAN] /\ cron' \in [Procs -> [Entries -> Nat]] /\ cron'[bot] = cronFile
        /\ up'[bot]
    BY <1>0, <2>1 DEF CronTypes
  <2>3. CronTypes'
    BY <1>0, <2>1, <2>2 DEF CronTypes
  <2>4. ~unsaved[bot]
    BY <2>1 DEF CronInv
  <2> QED BY <2>1, <2>2, <2>3, <2>4 DEF CronInv, Ahead
<1>2. ASSUME Crash(bot) PROVE CronInv'
  <2>1. /\ up[bot] /\ up' = [up EXCEPT ![bot] = FALSE]
        /\ cron' = [cron EXCEPT ![bot] = [e \in Entries |-> None]]
        /\ unsaved' = [unsaved EXCEPT ![bot] = FALSE]
        /\ cutShort' = (cutShort \/ unsaved[bot])
        /\ UNCHANGED <<now, cronFile, fired>>
    BY <1>2 DEF Crash
  <2>2. /\ up' \in [Procs -> BOOLEAN] /\ unsaved' \in [Procs -> BOOLEAN] /\ ~unsaved'[bot]
        /\ cron' \in [Procs -> [Entries -> Nat]] /\ \A e \in Entries : cron'[bot][e] = None
    BY <1>0, <2>1 DEF CronTypes, None
  <2>3. cutShort' \in BOOLEAN
    BY <1>0, <2>1, Zenon DEF CronTypes
  <2>4. CronTypes'
    BY <1>0, <2>1, <2>2, <2>3 DEF CronTypes
  <2>5. ~cutShort' => ~cutShort /\ ~unsaved[bot]
    BY <2>1
  <2> QED BY <2>1, <2>2, <2>4, <2>5 DEF CronInv, Ahead
<1>3. ASSUME UserAdds(bot) \/ onTick(bot) \/ prune(bot) \/ PauseOrResume(bot) \/ HourPasses(bot)
      PROVE  CronInv'
  BY <1>3, CronFrame DEF UserAdds, onTick, prune, PauseOrResume, HourPasses, clockwork
<1>4. ASSUME NEW s \in {"completed", "failed"}, Finish(bot, s) PROVE CronInv'
  BY <1>4, CronFrame DEF Finish
<1>5. ASSUME NEW t \in Tasks, cancelTask(bot, t) PROVE CronInv'
  BY <1>5, CronFrame DEF cancelTask
<1>6. ASSUME NEW e \in Entries, NEW next \in {None, now + 1}, SetEntry(bot, e, next) PROVE CronInv'
  <2>1. /\ up[bot] /\ ~unsaved[bot] /\ UNCHANGED <<up, now, unsaved, fired, cutShort>>
        /\ cron' = [cron EXCEPT ![bot][e] = next] /\ cronFile' = cron'[bot]
    BY <1>6 DEF SetEntry, Free
  <2>2. /\ \A d \in Entries : cron'[bot][d] = IF d = e THEN next ELSE cron[bot][d]
        /\ cron' \in [Procs -> [Entries -> Nat]] /\ cronFile' \in [Entries -> Nat]
    BY <1>0, <2>1 DEF CronTypes, None
  <2>3. CronTypes'
    BY <1>0, <2>1, <2>2 DEF CronTypes
  <2>4. ASSUME ~cutShort, NEW d \in Entries PROVE Ahead(cron[bot][d], d)'
    <3>1. Ahead(cron[bot][d], d) /\ \A s \in Slots : fired[d][s] > 0 => s <= now
      BY <2>4 DEF CronInv
    <3>2. now \in Nat /\ \A s \in Slots : s \in Nat
      BY <1>0, AutonomousAssumption DEF CronTypes, Slots
    <3> QED BY <2>1, <2>2, <3>1, <3>2 DEF Ahead
  <2> QED BY <2>1, <2>3, <2>4 DEF CronInv, Ahead
<1>7. ASSUME NEW e \in Entries, CronAdd(bot, e) \/ CronRemove(bot, e) PROVE CronInv'
  BY <1>6, <1>7 DEF CronAdd, CronRemove
<1>8. ASSUME NEW e \in Entries, CronFire(bot, e) PROVE CronInv'
  BY <1>8, FireStep
<1>9. ASSUME CronSave(bot) PROVE CronInv'
  <2>1. /\ up[bot] /\ cronFile' = cron[bot] /\ unsaved' = [unsaved EXCEPT ![bot] = FALSE]
        /\ UNCHANGED <<up, now, cron, fired, cutShort>>
    BY <1>9 DEF CronSave, Saved
  <2>2. cronFile' \in [Entries -> Nat] /\ unsaved' \in [Procs -> BOOLEAN] /\ ~unsaved'[bot]
    BY <1>0, <2>1 DEF CronTypes
  <2>3. CronTypes'
    BY <1>0, <2>1, <2>2 DEF CronTypes
  <2> QED BY <2>1, <2>2, <2>3 DEF CronInv, Ahead
<1>10. ASSUME SlotPasses PROVE CronInv'
  <2>1. now < MaxSlot /\ now' = now + 1 /\ UNCHANGED <<up, cron, cronFile, unsaved, fired, cutShort>>
    BY <1>10 DEF SlotPasses
  <2>2. CronTypes' /\ now \in Nat /\ \A s \in Slots : s \in Nat
    BY <1>0, <2>1, AutonomousAssumption DEF CronTypes, Slots
  <2> QED BY <2>1, <2>2 DEF CronInv, Ahead
<1>11. ASSUME LockChanges PROVE CronInv'
  BY <1>11, CronFrame DEF LockChanges
<1>12. CASE UNCHANGED vars
  BY <1>12, CronFrame DEF vars
<1> QED BY <1>1, <1>2, <1>3, <1>4, <1>5, <1>7, <1>8, <1>9, <1>10, <1>11, <1>12 DEF Next

(* With one process on the data directory, and unless a crash cuts a tick   *)
(* short, an entry fires once for each time, whatever is added, removed,    *)
(* crashes and starts again (autonomous/user-cron.ts, tick and save).       *)
THEOREM CronOnceCorrect ==
    ASSUME NEW CONSTANT bot, Procs = {bot}
    PROVE  Spec => []CronOnce
<1>1. CronInv /\ [Next]_vars => CronInv'
  BY CronInvStep
<1>2. CronInv => CronOnce
  BY DEF CronInv, CronOnce
<1> QED BY <1>1, <1>2, CronInitInv, PTL DEF Spec
-----------------------------------------------------------------------------
(* The log: its replay, its compaction and its records *)

TaskMaps == [Tasks -> Statuses]
Lines == Event \cup {Torn}
Logs == [lines : Seq(Lines), torn : BOOLEAN]

LEMMA ApplyType ==
    ASSUME NEW ts \in TaskMaps, NEW ev \in Lines
    PROVE  applyEvent(ts, ev) \in TaskMaps
<1>1. CASE ev \in Event
  <2>1. ev.kind \in {"add", "update", "delete"} /\ ev.id \in Tasks /\ ev.status \in Statuses
    BY <1>1 DEF Event
  <2> QED BY <2>1 DEF applyEvent, TaskMaps
<1>2. CASE ev = Torn
  BY <1>2 DEF applyEvent, Torn
<1> QED BY <1>1, <1>2 DEF Lines

(* What is read after i lines of a log. *)
LEMMA ReplayUnfolds ==
    ASSUME NEW lines \in Seq(Lines)
    PROVE  \E g \in [0..Len(lines) -> TaskMaps] :
              /\ g[0] = NoTasks
              /\ \A i \in 1..Len(lines) : g[i] = applyEvent(g[i - 1], lines[i])
              /\ Replay(lines) = g[Len(lines)]
<1> DEFINE n == Len(lines)
           step == [i \in 1..n |-> [ts \in TaskMaps |-> applyEvent(ts, lines[i])]]
<1>1. n \in Nat /\ \A i \in 1..n : lines[i] \in Lines
  OBVIOUS
<1>2. step \in StepsOver(n, TaskMaps)
  BY <1>1, ApplyType DEF StepsOver
<1>3. NoTasks \in TaskMaps
  BY DEF NoTasks, TaskMaps, Statuses
<1>4. \A ts \in TaskMaps, i \in 1..n : step[i][ts] = applyEvent(ts, lines[i])
  OBVIOUS
<1>5. Replay(lines) = (CHOOSE g : g = [i \in 0..n |-> IF i = 0 THEN NoTasks ELSE applyEvent(g[i - 1], lines[i])])[n]
  BY DEF Replay
<1> HIDE DEF n, step
<1>6. PICK g : Takes(g, n, TaskMaps, NoTasks, step)
  BY <1>1, <1>2, <1>3, Recursion
<1>7. /\ g \in [0..n -> TaskMaps] /\ g[0] = NoTasks
      /\ \A i \in 1..n : g[i] = applyEvent(g[i - 1], lines[i])
  BY <1>1, <1>4, <1>6 DEF Takes
<1>8. g = [i \in 0..n |-> IF i = 0 THEN NoTasks ELSE applyEvent(g[i - 1], lines[i])]
  BY <1>1, <1>7
<1> DEFINE h == CHOOSE h : h = [i \in 0..n |-> IF i = 0 THEN NoTasks ELSE applyEvent(h[i - 1], lines[i])]
<1>9. h = [i \in 0..n |-> IF i = 0 THEN NoTasks ELSE applyEvent(h[i - 1], lines[i])]
  BY <1>8
<1>10. Replay(lines) = h[n]
  BY <1>5
<1> HIDE DEF h
<1>11. \A i \in 0..n : h[i] = g[i]
  <2>1. h[0] = NoTasks
    BY <1>1, <1>9
  <2>2. \A i \in 1..n : h[i - 1] \in TaskMaps => h[i] = step[i][h[i - 1]]
    BY <1>1, <1>4, <1>9
  <2> QED BY <1>1, <1>6, <2>1, <2>2, OneRun
<1>12. Replay(lines) = g[n]
  BY <1>1, <1>10, <1>11
<1> QED BY <1>7, <1>12 DEF n

(* Whatever goes through a log in the same way ends where its replay ends. *)
LEMMA ReplayIs ==
    ASSUME NEW lines \in Seq(Lines), NEW h,
           h[0] = NoTasks,
           \A i \in 1..Len(lines) : h[i] = applyEvent(h[i - 1], lines[i])
    PROVE  Replay(lines) = h[Len(lines)]
<1>1. PICK g \in [0..Len(lines) -> TaskMaps] :
         /\ g[0] = NoTasks
         /\ \A i \in 1..Len(lines) : g[i] = applyEvent(g[i - 1], lines[i])
         /\ Replay(lines) = g[Len(lines)]
  BY ReplayUnfolds
<1> DEFINE n == Len(lines)
           Good == {i \in 0..n : g[i] = h[i]}
<1>2. n \in Nat
  OBVIOUS
<1>3. 0 \in Good
  BY <1>1, <1>2
<1>4. \A i \in 1..n : i - 1 \in Good => i \in Good
  BY <1>1
<1> HIDE DEF Good, n
<1>5. \A i \in 0..n : i \in Good
  BY <1>2, <1>3, <1>4, InductionUpTo
<1>6. n \in Good
  BY <1>2, <1>5
<1> QED BY <1>1, <1>6 DEF Good, n

LEMMA ReplayType ==
    ASSUME NEW lines \in Seq(Lines)
    PROVE  Replay(lines) \in TaskMaps
BY ReplayUnfolds

LEMMA ReplayAppend ==
    ASSUME NEW lines \in Seq(Lines), NEW ev \in Lines
    PROVE  Replay(Append(lines, ev)) = applyEvent(Replay(lines), ev)
<1>1. PICK g \in [0..Len(lines) -> TaskMaps] :
         /\ g[0] = NoTasks
         /\ \A i \in 1..Len(lines) : g[i] = applyEvent(g[i - 1], lines[i])
         /\ Replay(lines) = g[Len(lines)]
  BY ReplayUnfolds
<1> DEFINE all == Append(lines, ev)
           n == Len(lines)
           h == [i \in 0..n + 1 |-> IF i = n + 1 THEN applyEvent(g[n], ev) ELSE g[i]]
<1>2. n \in Nat /\ Len(all) = n + 1 /\ all \in Seq(Lines)
  OBVIOUS
<1>3. all[n + 1] = ev /\ \A i \in 1..n : all[i] = lines[i]
  OBVIOUS
<1>4. /\ h[n + 1] = applyEvent(g[n], ev)
      /\ \A i \in 0..n : h[i] = g[i]
  BY <1>2
<1> HIDE DEF h, all
<1>5. h[0] = NoTasks
  BY <1>1, <1>2, <1>4
<1>6. ASSUME NEW i \in 1..n + 1 PROVE h[i] = applyEvent(h[i - 1], all[i])
  <2>1. CASE i = n + 1
    <3>1. h[i - 1] = g[n] /\ h[i] = applyEvent(g[n], ev) /\ all[i] = ev
      BY <1>2, <1>3, <1>4, <2>1
    <3> QED BY <3>1
  <2>2. CASE i # n + 1
    <3>1. i \in 1..n /\ i - 1 \in 0..n
      BY <1>2, <2>2
    <3>2. h[i - 1] = g[i - 1] /\ h[i] = g[i] /\ all[i] = lines[i]
      BY <1>3, <1>4, <3>1
    <3> QED BY <1>1, <3>1, <3>2
  <2> QED BY <2>1, <2>2
<1>7. Replay(all) = h[n + 1]
  BY <1>2, <1>5, <1>6, ReplayIs
<1> QED BY <1>1, <1>4, <1>7 DEF all

(* A torn line changes nothing. *)
LEMMA ReplayTorn ==
    ASSUME NEW lines \in Seq(Lines)
    PROVE  Replay(Append(lines, Torn)) = Replay(lines)
<1>1. Replay(Append(lines, Torn)) = applyEvent(Replay(lines), Torn)
  BY ReplayAppend DEF Lines
<1> QED BY <1>1 DEF applyEvent, Torn

LEMMA TasksFinite == ASSUME NEW S \in SUBSET Tasks PROVE IsFiniteSet(S)
<1>1. IsFiniteSet(1..MaxTasks)
  BY AutonomousAssumption, FS_Interval
<1> QED BY <1>1, FS_Subset DEF Tasks

(* Compaction writes a log that replays to the tasks it was made from. *)
LEMMA CompactReplays ==
    ASSUME NEW ts \in TaskMaps
    PROVE  /\ compact(ts) \in Logs /\ ~compact(ts).torn
           /\ Replay(compact(ts).lines) = ts
           /\ Cardinality(Surviving(ts)) \in Nat
<1> DEFINE S == Surviving(ts)
           n == Cardinality(S)
           ids == SetToSeq(S)
           lines == [i \in 1..n |-> [Added(ids[i]) EXCEPT !.status = ts[ids[i]]]]
<1>1. S \in SUBSET Tasks /\ \A t \in Tasks : t \in S <=> ts[t] # "none"
  BY DEF Surviving
<1>2. n \in Nat /\ ids \in [1..n -> S] /\ \A x \in S : \E i \in 1..n : ids[i] = x
  BY <1>1, TasksFinite, SetToSeqLists
<1>3. Len(ids) = n
  BY <1>2
<1>4. compact(ts) = [lines |-> lines, torn |-> FALSE]
  BY <1>3 DEF compact
<1> HIDE DEF S, n, ids
<1>5. ASSUME NEW i \in 1..n
      PROVE  /\ ids[i] \in Tasks /\ ts[ids[i]] \in Statuses
             /\ lines[i].kind = "add" /\ lines[i].id = ids[i] /\ lines[i].status = ts[ids[i]]
             /\ lines[i] \in Lines
  <2>1. ids[i] \in Tasks /\ ts[ids[i]] \in Statuses
    BY <1>1, <1>2 DEF TaskMaps
  <2>2. lines[i] = [kind |-> "add", id |-> ids[i], status |-> ts[ids[i]]]
    BY DEF Added
  <2> QED BY <2>1, <2>2 DEF Lines, Event
<1> HIDE DEF lines
<1>6. lines \in Seq(Lines) /\ Len(lines) = n
  <2>1. lines \in [1..n -> Lines]
    BY <1>5 DEF lines
  <2> QED BY <1>2, <2>1
<1> DEFINE Listed(i) == {ids[j] : j \in 1..i}
           h == [i \in 0..n |-> [t \in Tasks |-> IF t \in Listed(i) THEN ts[t] ELSE "none"]]
<1>7. h[0] = NoTasks
  BY <1>2 DEF NoTasks
<1>8. ASSUME NEW i \in 1..n PROVE h[i] = applyEvent(h[i - 1], lines[i])
  <2>1. Listed(i) = Listed(i - 1) \cup {ids[i]}
    <3>1. 1..i = (1..(i - 1)) \cup {i}
      BY <1>2
    <3> QED BY <3>1
  <2>2. i \in 0..n /\ i - 1 \in 0..n
    BY <1>2
  <2> HIDE DEF Listed
  <2>3. /\ h[i] = [t \in Tasks |-> IF t \in Listed(i) THEN ts[t] ELSE "none"]
        /\ h[i - 1] = [t \in Tasks |-> IF t \in Listed(i - 1) THEN ts[t] ELSE "none"]
    BY <2>2
  <2> HIDE DEF h
  <2>4. applyEvent(h[i - 1], lines[i]) = [h[i - 1] EXCEPT ![ids[i]] = ts[ids[i]]]
    BY <1>5 DEF applyEvent
  <2> QED BY <1>5, <2>1, <2>3, <2>4
<1>9. h[n] = ts
  <2>0. n \in 0..n
    BY <1>2
  <2>1. Listed(n) = S
    BY <1>2
  <2>2. h[n] = [t \in Tasks |-> IF t \in S THEN ts[t] ELSE "none"]
    BY <2>0, <2>1
  <2> QED BY <1>1, <2>2 DEF TaskMaps
<1> HIDE DEF h
<1>10. Replay(lines) = ts
  BY <1>6, <1>7, <1>8, <1>9, ReplayIs
<1> QED BY <1>2, <1>4, <1>6, <1>10 DEF Logs, n, S

(* What record works on: memory, log and count of lines. *)
Records == [ts : TaskMaps, lg : Logs, n : Nat]

LEMMA RecordEffect ==
    ASSUME NEW s \in Records, NEW ev \in Event
    PROVE  /\ record(s, ev) \in Records
           /\ record(s, ev).ts = applyEvent(s.ts, ev)
           /\ ~record(s, ev).lg.torn
           /\ ~s.lg.torn /\ Replay(s.lg.lines) = s.ts
                => Replay(record(s, ev).lg.lines) = record(s, ev).ts
<1> DEFINE ts == applyEvent(s.ts, ev)
<1>1. ts \in TaskMaps /\ s.ts \in TaskMaps /\ s.lg \in Logs /\ s.n \in Nat
  BY ApplyType DEF Records, Lines
<1>2. CASE s.n + 1 > CompactAt
  <2>1. record(s, ev) = [ts |-> ts, lg |-> compact(ts), n |-> Cardinality(Surviving(ts))]
    BY <1>2 DEF record
  <2> HIDE DEF ts
  <2>2. compact(ts) \in Logs /\ ~compact(ts).torn /\ Replay(compact(ts).lines) = ts /\ Cardinality(Surviving(ts)) \in Nat
    BY <1>1, CompactReplays
  <2>3. /\ record(s, ev).ts = ts /\ record(s, ev).lg = compact(ts) /\ record(s, ev) \in Records
    BY <1>1, <2>1, <2>2 DEF Records
  <2> QED BY <2>2, <2>3 DEF ts
<1>3. CASE ~(s.n + 1 > CompactAt)
  <2>1. record(s, ev) = [ts |-> ts, lg |-> Append1(s.lg, ev), n |-> s.n + 1]
    BY <1>3 DEF record
  <2>2. s.lg.lines \in Seq(Lines) /\ s.lg.torn \in BOOLEAN /\ ev \in Lines
    BY <1>1 DEF Logs, Lines
  <2>3. Append1(s.lg, ev) = [lines |-> IF s.lg.torn THEN s.lg.lines ELSE Append(s.lg.lines, ev), torn |-> FALSE]
    BY DEF Append1
  <2>4. Append1(s.lg, ev) \in Logs /\ ~Append1(s.lg, ev).torn
    BY <2>2, <2>3 DEF Logs
  <2>5. ~s.lg.torn => Append1(s.lg, ev).lines = Append(s.lg.lines, ev)
    BY <2>3
  <2>6. /\ record(s, ev).ts = ts /\ record(s, ev).lg = Append1(s.lg, ev) /\ record(s, ev) \in Records
    BY <1>1, <2>1, <2>4 DEF Records
  <2>7. Replay(Append(s.lg.lines, ev)) = applyEvent(Replay(s.lg.lines), ev)
    BY <2>2, ReplayAppend
  <2> QED BY <2>4, <2>5, <2>6, <2>7
<1> QED BY <1>2, <1>3

(* Records made one after the other stay in a set that each of them keeps. *)
LEMMA RecordAllUnfolds ==
    ASSUME NEW V, NEW s \in V, NEW events \in Seq(Event),
           \A x \in V, i \in 1..Len(events) : record(x, events[i]) \in V
    PROVE  \E g : /\ g \in [0..Len(events) -> V] /\ g[0] = s
                  /\ \A i \in 1..Len(events) : g[i] = record(g[i - 1], events[i])
                  /\ recordAll(s, events) = g[Len(events)]
<1> DEFINE n == Len(events)
           step == [i \in 1..n |-> [x \in V |-> record(x, events[i])]]
<1>1. n \in Nat
  OBVIOUS
<1>2. step \in StepsOver(n, V)
  BY DEF StepsOver
<1>3. \A x \in V, i \in 1..n : step[i][x] = record(x, events[i])
  OBVIOUS
<1>4. recordAll(s, events) = (CHOOSE g : g = [i \in 0..n |-> IF i = 0 THEN s ELSE record(g[i - 1], events[i])])[n]
  BY DEF recordAll
<1> HIDE DEF n, step
<1>5. PICK g : Takes(g, n, V, s, step)
  BY <1>1, <1>2, Recursion
<1>6. /\ g \in [0..n -> V] /\ g[0] = s
      /\ \A i \in 1..n : g[i] = record(g[i - 1], events[i])
  BY <1>1, <1>3, <1>5 DEF Takes
<1>7. g = [i \in 0..n |-> IF i = 0 THEN s ELSE record(g[i - 1], events[i])]
  BY <1>1, <1>6
<1> DEFINE h == CHOOSE h : h = [i \in 0..n |-> IF i = 0 THEN s ELSE record(h[i - 1], events[i])]
<1>8. h = [i \in 0..n |-> IF i = 0 THEN s ELSE record(h[i - 1], events[i])]
  BY <1>7
<1>9. recordAll(s, events) = h[n]
  BY <1>4
<1> HIDE DEF h
<1>10. h[0] = s
  BY <1>1, <1>8
<1>11. \A i \in 1..n : h[i - 1] \in V => h[i] = step[i][h[i - 1]]
  BY <1>1, <1>3, <1>8
<1>12. \A i \in 0..n : h[i] = g[i]
  BY <1>1, <1>5, <1>10, <1>11, OneRun
<1>13. recordAll(s, events) = g[n]
  BY <1>1, <1>9, <1>12
<1> QED BY <1>6, <1>13 DEF n

LEMMA RecordAllKeeps ==
    ASSUME NEW V, NEW s \in V, NEW events \in Seq(Event),
           \A x \in V, i \in 1..Len(events) : record(x, events[i]) \in V
    PROVE  recordAll(s, events) \in V
<1>1. PICK g : /\ g \in [0..Len(events) -> V]
               /\ recordAll(s, events) = g[Len(events)]
  BY RecordAllUnfolds
<1>2. Len(events) \in 0..Len(events)
  OBVIOUS
<1> QED BY <1>1, <1>2

LEMMA RecordOne ==
    ASSUME NEW s \in Records, NEW ev \in Event
    PROVE  recordAll(s, <<ev>>) = record(s, ev)
<1>1. <<ev>> \in Seq(Event) /\ Len(<<ev>>) = 1 /\ <<ev>>[1] = ev
  OBVIOUS
<1>2. \A x \in Records, i \in 1..1 : record(x, <<ev>>[i]) \in Records
  BY <1>1, RecordEffect
<1>3. PICK g : /\ g[0] = s
               /\ \A i \in 1..1 : g[i] = record(g[i - 1], <<ev>>[i])
               /\ recordAll(s, <<ev>>) = g[1]
  BY <1>1, <1>2, RecordAllUnfolds
<1> QED BY <1>1, <1>3

(* Records made with no event written onto a torn line. *)
LEMMA RecordAllReplays ==
    ASSUME NEW s \in Records, NEW events \in Seq(Event),
           ~s.lg.torn, Replay(s.lg.lines) = s.ts
    PROVE  LET r == recordAll(s, events)
           IN  r \in Records /\ ~r.lg.torn /\ Replay(r.lg.lines) = r.ts
<1> DEFINE V == {x \in Records : ~x.lg.torn /\ Replay(x.lg.lines) = x.ts}
<1>1. s \in V
  OBVIOUS
<1>2. \A x \in V, i \in 1..Len(events) : record(x, events[i]) \in V
  BY RecordEffect
<1> HIDE DEF V
<1>3. recordAll(s, events) \in V
  BY <1>1, <1>2, RecordAllKeeps
<1> QED BY <1>3 DEF V

(* The state Store works on, and what it leaves. *)
Before(p) == [ts |-> tasks[p], lg |-> log, n |-> count[p]]

LEMMA StoreEffect ==
    ASSUME TypeOK, NEW p \in Procs, NEW events \in Seq(Event), Store(p, events)
    PROVE  LET r == recordAll(Before(p), events)
           IN  /\ Before(p) \in Records /\ r \in Records
               /\ tasks' = [tasks EXCEPT ![p] = r.ts]
               /\ tasks'[p] = r.ts /\ log' = r.lg
               /\ tasks' \in [Procs -> TaskMaps] /\ log' \in Logs
               /\ count' \in [Procs -> Nat] /\ glued' \in BOOLEAN
<1> DEFINE r == recordAll(Before(p), events)
<1>1. /\ tasks' = [tasks EXCEPT ![p] = r.ts] /\ log' = r.lg
      /\ count' = [count EXCEPT ![p] = r.n]
  BY DEF Store, Before
<1>2. glued' \in BOOLEAN
  BY Zenon DEF Store, TypeOK
<1>3. tasks \in [Procs -> TaskMaps] /\ log \in Logs /\ count \in [Procs -> Nat]
  BY DEF TypeOK, TaskMaps, Logs, Lines
<1>4. Before(p) \in Records
  BY <1>3 DEF Before, Records
<1>5. \A i \in 1..Len(events) : events[i] \in Event
  OBVIOUS
<1>6. \A x \in Records, i \in 1..Len(events) : record(x, events[i]) \in Records
  BY <1>5, RecordEffect
<1>7. r \in Records
  BY <1>4, <1>6, RecordAllKeeps
<1> HIDE DEF r
<1>8. r.ts \in TaskMaps /\ r.lg \in Logs /\ r.n \in Nat
  BY <1>7 DEF Records
<1>9. tasks' \in [Procs -> TaskMaps] /\ count' \in [Procs -> Nat] /\ tasks'[p] = r.ts
  BY <1>1, <1>3, <1>8
<1> QED BY <1>1, <1>2, <1>4, <1>7, <1>8, <1>9 DEF r

(* The conjuncts of the type invariant that Store changes. *)
StoreTypes ==
    /\ tasks \in [Procs -> TaskMaps] /\ log \in Logs
    /\ count \in [Procs -> Nat] /\ glued \in BOOLEAN

LEMMA StoreType ==
    ASSUME TypeOK, NEW p \in Procs, NEW events \in Seq(Event), Store(p, events)
    PROVE  StoreTypes'
BY StoreEffect DEF StoreTypes

(* The events are those of tasks that exist. *)
LEMMA EventTypes ==
    /\ \A t \in Tasks : Added(t) \in Event /\ Deleted(t) \in Event
    /\ \A t \in Tasks, s \in Statuses : Updated(t, s) \in Event
    /\ \A ev \in Event : <<ev>> \in Seq(Event)
<1>1. \A t \in Tasks : Added(t) \in Event /\ Deleted(t) \in Event
  BY DEF Added, Deleted, Event, Statuses
<1>2. \A t \in Tasks, s \in Statuses : Updated(t, s) \in Event
  BY DEF Updated, Event
<1> QED BY <1>1, <1>2

LEMMA OldestPending ==
    ASSUME TypeOK, NEW p \in Procs, Pending(p) # {}
    PROVE  Min(Pending(p)) \in Tasks /\ tasks[p][Min(Pending(p))] = "pending"
<1>1. Pending(p) \in SUBSET Nat /\ Pending(p) \subseteq Tasks
  BY AutonomousAssumption DEF Pending, Tasks
<1>2. \E t \in Pending(p) : \A s \in Pending(p) : t <= s
  BY <1>1, LeastNatural
<1>3. Min(Pending(p)) \in Pending(p)
  BY <1>2 DEF Min
<1> QED BY <1>1, <1>3 DEF Pending

LEMMA Prunes ==
    ASSUME NEW old \in SUBSET Tasks
    PROVE  LET ids == SetToSeq(old)
               events == [i \in 1..Len(ids) |-> Deleted(ids[i])]
           IN  /\ events \in Seq(Event)
               /\ \A i \in 1..Len(events) : \E t \in old : events[i] = Deleted(t)
<1> DEFINE n == Cardinality(old)
           ids == SetToSeq(old)
           events == [i \in 1..Len(ids) |-> Deleted(ids[i])]
<1>1. n \in Nat /\ ids \in [1..n -> old]
  BY TasksFinite, SetToSeqLists
<1> HIDE DEF n, ids
<1>2. Len(ids) = n
  BY <1>1
<1>3. \A i \in 1..n : ids[i] \in old /\ Deleted(ids[i]) \in Event
  BY <1>1, EventTypes
<1>4. events \in [1..n -> Event] /\ \A i \in 1..n : events[i] = Deleted(ids[i])
  BY <1>2, <1>3
<1> HIDE DEF events
<1>5. events \in Seq(Event) /\ Len(events) = n
  BY <1>1, <1>4
<1> QED BY <1>3, <1>4, <1>5 DEF events, ids

LEMMA AutonomousInitTypes == Init => TypeOK
<1> SUFFICES ASSUME Init PROVE TypeOK
  OBVIOUS
<1> USE AutonomousAssumption DEF Init, Statuses, None
<1>1. /\ up \in [Procs -> BOOLEAN] /\ paused \in [Procs -> BOOLEAN] /\ unsaved \in [Procs -> BOOLEAN]
      /\ glued \in BOOLEAN /\ cutShort \in BOOLEAN /\ held \in BOOLEAN
  BY Zenon
<1>2. log \in [lines : Seq(Event \cup {Torn}), torn : BOOLEAN]
  OBVIOUS
<1>3. tasks \in [Procs -> [Tasks -> Statuses]]
  BY DEF NoTasks
<1>4. /\ cron \in [Procs -> [Entries -> 0..MaxSlot + 1]] /\ cronFile \in [Entries -> 0..MaxSlot + 1]
      /\ runs \in [Tasks -> Nat] /\ fired \in [Entries -> [Slots -> Nat]]
      /\ boots \in 0..MaxBoots /\ made \in 0..MaxTasks /\ now \in 0..MaxSlot
  OBVIOUS
<1>5. /\ count \in [Procs -> Nat] /\ running \in [Procs -> Nat] /\ recent \in [Procs -> Nat]
      /\ busy \in [Procs -> Tasks \cup {None}]
  OBVIOUS
<1> QED BY <1>1, <1>2, <1>3, <1>4, <1>5 DEF TypeOK

-----------------------------------------------------------------------------
(* The types, step by step *)

(* The rest of them. *)
OtherTypes ==
    /\ up \in [Procs -> BOOLEAN] /\ boots \in 0..MaxBoots /\ made \in 0..MaxTasks
    /\ running \in [Procs -> Nat] /\ recent \in [Procs -> Nat]
    /\ paused \in [Procs -> BOOLEAN] /\ busy \in [Procs -> Tasks \cup {None}]
    /\ now \in 0..MaxSlot
    /\ cron \in [Procs -> [Entries -> 0..MaxSlot + 1]] /\ cronFile \in [Entries -> 0..MaxSlot + 1]
    /\ unsaved \in [Procs -> BOOLEAN]
    /\ runs \in [Tasks -> Nat] /\ fired \in [Entries -> [Slots -> Nat]]
    /\ cutShort \in BOOLEAN /\ held \in BOOLEAN

LEMMA TypeParts == TypeOK <=> StoreTypes /\ OtherTypes
  BY DEF TypeOK, StoreTypes, OtherTypes, TaskMaps, Logs, Lines

LEMMA DecrementedType ==
    ASSUME TypeOK, NEW p \in Procs, NEW t \in Tasks
    PROVE  Decremented(p, t) \in [Procs -> Nat]
  BY DEF TypeOK, Decremented

LEMMA BootTypes ==
    ASSUME TypeOK, NEW p \in Procs, Boot(p)
    PROVE  /\ StoreTypes'
           /\ Replay(log'.lines) = tasks'[p]
           /\ ~log.torn => ~log'.torn
           /\ \A t \in Tasks :
                 tasks'[p][t] = IF Replay(log.lines)[t] = "running" THEN "failed" ELSE Replay(log.lines)[t]
<1> DEFINE found == Replay(log.lines)
           ts == [t \in Tasks |-> IF t \in Stale(found) THEN AfterCrash ELSE found[t]]
           shrink == Stale(found) # {} \/ Len(log.lines) > CompactAt
<1>1. /\ tasks' = [tasks EXCEPT ![p] = ts]
      /\ log' = IF shrink THEN compact(ts) ELSE log
      /\ count' = [count EXCEPT ![p] = IF shrink THEN Cardinality(Surviving(ts)) ELSE Len(log.lines)]
      /\ glued' = glued
  BY DEF Boot
<1>2. /\ tasks \in [Procs -> TaskMaps] /\ log \in Logs /\ count \in [Procs -> Nat] /\ glued \in BOOLEAN
  BY TypeParts DEF StoreTypes
<1>3. log.lines \in Seq(Lines) /\ Len(log.lines) \in Nat
  BY <1>2 DEF Logs
<1>4. found \in TaskMaps
  BY <1>3, ReplayType
<1>5. ts \in TaskMaps /\ \A t \in Tasks : ts[t] = IF found[t] = "running" THEN "failed" ELSE found[t]
  BY <1>4 DEF TaskMaps, AfterCrash, Statuses, Finished, Stale
<1>6. Stale(found) = {} => ts = found
  BY <1>4, <1>5 DEF TaskMaps, Stale
<1> HIDE DEF found, ts
<1>7. /\ compact(ts) \in Logs /\ ~compact(ts).torn /\ Replay(compact(ts).lines) = ts
      /\ Cardinality(Surviving(ts)) \in Nat
  BY <1>5, CompactReplays
<1>8. log' \in Logs /\ Replay(log'.lines) = ts /\ (~log.torn => ~log'.torn)
  <2>1. CASE shrink
    BY <1>1, <1>7, <2>1
  <2>2. CASE ~shrink
    BY <1>1, <1>2, <1>6, <2>2 DEF found
  <2> QED BY <2>1, <2>2
<1>9. tasks' \in [Procs -> TaskMaps] /\ tasks'[p] = ts
  BY <1>1, <1>2, <1>5
<1>10. count' \in [Procs -> Nat]
  BY <1>1, <1>2, <1>3, <1>7
<1> QED BY <1>1, <1>2, <1>5, <1>8, <1>9, <1>10 DEF StoreTypes, found

LEMMA CrashTypes ==
    ASSUME TypeOK, NEW p \in Procs, Crash(p)
    PROVE  StoreTypes' /\ Replay(log'.lines) = Replay(log.lines)
<1>1. /\ log' \in {log, [lines |-> IF log.torn THEN log.lines ELSE Append(log.lines, Torn), torn |-> TRUE]}
      /\ tasks' = [tasks EXCEPT ![p] = NoTasks]
      /\ count' = [count EXCEPT ![p] = 0]
      /\ glued' = glued
  BY DEF Crash
<1>2. /\ tasks \in [Procs -> TaskMaps] /\ log \in Logs /\ count \in [Procs -> Nat] /\ glued \in BOOLEAN
  BY TypeParts DEF StoreTypes
<1>3. log.lines \in Seq(Lines) /\ Append(log.lines, Torn) \in Seq(Lines) /\ Replay(Append(log.lines, Torn)) = Replay(log.lines)
  BY <1>2, ReplayTorn DEF Logs, Lines
<1>4. log' \in Logs /\ Replay(log'.lines) = Replay(log.lines)
  <2>1. CASE log' = log
    BY <1>2, <2>1
  <2>2. CASE log' = [lines |-> IF log.torn THEN log.lines ELSE Append(log.lines, Torn), torn |-> TRUE]
    <3>1. log'.lines \in {log.lines, Append(log.lines, Torn)} /\ log'.torn = TRUE
      BY <2>2
    <3> QED BY <1>3, <2>2, <3>1 DEF Logs
  <2> QED BY <1>1, <2>1, <2>2
<1>5. NoTasks \in TaskMaps
  BY DEF NoTasks, TaskMaps, Statuses
<1>6. tasks' \in [Procs -> TaskMaps] /\ count' \in [Procs -> Nat]
  BY <1>1, <1>2, <1>5
<1> QED BY <1>1, <1>2, <1>4, <1>6 DEF StoreTypes

LEMMA Flipped ==
    ASSUME NEW S, NEW f \in [S -> BOOLEAN], NEW p \in S
    PROVE  [f EXCEPT ![p] = ~@] \in [S -> BOOLEAN]
  BY Zenon

LEMMA AutonomousTypeStep == TypeOK /\ [Next]_vars => TypeOK'
<1> SUFFICES ASSUME TypeOK, [Next]_vars PROVE StoreTypes' /\ OtherTypes'
  BY DEF TypeOK, StoreTypes, OtherTypes, TaskMaps, Logs, Lines
<1>0. StoreTypes /\ OtherTypes
  BY TypeParts
<1> USE <1>0, AutonomousAssumption
<1>1. ASSUME NEW p \in Procs, Boot(p) PROVE StoreTypes' /\ OtherTypes'
  <2>1. StoreTypes'
    BY <1>1, BootTypes
  <2>2. held' \in BOOLEAN
    BY <1>1, Zenon DEF Boot
  <2> QED BY <1>1, <2>1, <2>2 DEF Boot, OtherTypes, worker
<1>2. ASSUME NEW p \in Procs, Crash(p) PROVE StoreTypes' /\ OtherTypes'
  <2>1. StoreTypes'
    BY <1>2, CrashTypes
  <2>2. cutShort' \in BOOLEAN /\ held' \in BOOLEAN
    <3>1. held' \in {FALSE, held} /\ held \in BOOLEAN
      BY <1>2 DEF Crash, OtherTypes
    <3>2. cutShort' \in BOOLEAN
      BY <1>2, Zenon DEF Crash, OtherTypes
    <3> QED BY <3>1, <3>2, Zenon
  <2> QED BY <1>2, <2>1, <2>2 DEF Crash, OtherTypes, None
<1>3. ASSUME NEW p \in Procs, addTask(p) PROVE StoreTypes' /\ made' \in 0..MaxTasks
  <2>1. made + 1 \in Tasks /\ made' = made + 1 /\ made \in Nat
    BY <1>3 DEF addTask, OtherTypes, Tasks
  <2>2. <<Added(made + 1)>> \in Seq(Event)
    BY <2>1, EventTypes
  <2>3. StoreTypes'
    BY <1>3, <2>2, StoreType DEF addTask
  <2> QED BY <2>1, <2>3 DEF Tasks
<1>4. ASSUME NEW p \in Procs, UserAdds(p) PROVE StoreTypes' /\ OtherTypes'
  BY <1>3, <1>4 DEF UserAdds, OtherTypes, worker, clockwork
<1>5. ASSUME NEW p \in Procs, onTick(p) PROVE StoreTypes' /\ OtherTypes'
  <2> DEFINE t == Min(Pending(p))
  <2>1. t \in Tasks
    BY <1>5, OldestPending DEF onTick
  <2>2. /\ busy' = [busy EXCEPT ![p] = t] /\ running' = [running EXCEPT ![p] = @ + 1]
        /\ recent' = [recent EXCEPT ![p] = @ + 1] /\ runs' = [runs EXCEPT ![t] = @ + 1]
        /\ Store(p, <<Updated(t, "running")>>)
        /\ UNCHANGED <<up, boots, held, made, paused, clockwork, cutShort>>
    BY <1>5 DEF onTick
  <2> HIDE DEF t
  <2>3. <<Updated(t, "running")>> \in Seq(Event)
    BY <2>1, EventTypes DEF Statuses
  <2>4. StoreTypes'
    BY <2>2, <2>3, StoreType
  <2> QED BY <2>1, <2>2, <2>4 DEF OtherTypes, clockwork
<1>6. ASSUME NEW p \in Procs, NEW s \in {"completed", "failed"}, Finish(p, s) PROVE StoreTypes' /\ OtherTypes'
  <2> DEFINE t == busy[p]
  <2>1. t \in Tasks
    BY <1>6 DEF Finish, OtherTypes
  <2>2. OtherTypes' <=> running' \in [Procs -> Nat]
    BY <1>6 DEF Finish, OtherTypes, clockwork, None
  <2>3. CASE Marked(p, t, s) = <<>>
    BY <1>6, <2>2, <2>3 DEF Finish, OtherTypes, StoreTypes
  <2>4. CASE Marked(p, t, s) # <<>>
    <3>1. running' = Decremented(p, t) /\ Store(p, Marked(p, t, s))
      BY <1>6, <2>4 DEF Finish
    <3>2. Marked(p, t, s) = <<Updated(t, s)>> /\ Updated(t, s) \in Event
      BY <2>1, <2>4, EventTypes DEF Marked, Statuses, Finished
    <3>3. Marked(p, t, s) \in Seq(Event)
      BY <3>2, EventTypes
    <3> HIDE DEF t
    <3> QED BY <2>1, <2>2, <3>1, <3>3, StoreType, DecrementedType
  <2> QED BY <2>3, <2>4
<1>7. ASSUME NEW p \in Procs, NEW t \in Tasks, cancelTask(p, t) PROVE StoreTypes' /\ OtherTypes'
  <2>1. <<Updated(t, "cancelled")>> \in Seq(Event)
    BY EventTypes DEF Statuses, Finished
  <2>2. StoreTypes' /\ running' \in [Procs -> Nat]
    BY <1>7, <2>1, StoreType, DecrementedType DEF cancelTask
  <2> QED BY <1>7, <2>2 DEF cancelTask, OtherTypes, clockwork
<1>8. ASSUME NEW p \in Procs, PauseOrResume(p) PROVE StoreTypes' /\ OtherTypes'
  <2>1. paused' \in [Procs -> BOOLEAN]
    <3>1. paused' = [paused EXCEPT ![p] = ~@] /\ paused \in [Procs -> BOOLEAN]
      BY <1>8 DEF PauseOrResume, OtherTypes
    <3> QED BY <3>1, Flipped
  <2> QED BY <1>8, <2>1 DEF PauseOrResume, OtherTypes, StoreTypes, clockwork
<1>9. ASSUME NEW p \in Procs, HourPasses(p) PROVE StoreTypes' /\ OtherTypes'
  BY <1>9 DEF HourPasses, Aged, OtherTypes, StoreTypes, clockwork
<1>10. ASSUME NEW p \in Procs, prune(p) PROVE StoreTypes' /\ OtherTypes'
  <2>1. PICK old \in SUBSET Tasks :
          LET ids == SetToSeq(old)
          IN  Store(p, [i \in 1..Len(ids) |-> Deleted(ids[i])])
    BY <1>10 DEF prune
  <2>2. StoreTypes'
    BY <2>1, Prunes, StoreType
  <2> QED BY <1>10, <2>2 DEF prune, OtherTypes, worker, clockwork
<1>11. ASSUME NEW p \in Procs, NEW e \in Entries, NEW next \in {None, now + 1}, SetEntry(p, e, next)
       PROVE  StoreTypes' /\ OtherTypes'
  <2>1. next \in 0..MaxSlot + 1
    BY DEF OtherTypes, None
  <2>2. cron' \in [Procs -> [Entries -> 0..MaxSlot + 1]] /\ cronFile' \in [Entries -> 0..MaxSlot + 1]
    BY <1>11, <2>1 DEF SetEntry, OtherTypes
  <2> QED BY <1>11, <2>2 DEF SetEntry, OtherTypes, StoreTypes, worker
<1>12. ASSUME NEW p \in Procs, NEW e \in Entries, CronAdd(p, e) \/ CronRemove(p, e) PROVE StoreTypes' /\ OtherTypes'
  BY <1>11, <1>12 DEF CronAdd, CronRemove
<1>13. ASSUME NEW p \in Procs, NEW e \in Entries, CronFire(p, e) PROVE StoreTypes' /\ OtherTypes'
  <2>1. StoreTypes' /\ made' \in 0..MaxTasks
    BY <1>3, <1>13 DEF CronFire
  <2>2. now + 1 \in 0..MaxSlot + 1
    BY DEF OtherTypes
  <2>3. cron' \in [Procs -> [Entries -> 0..MaxSlot + 1]] /\ unsaved' \in [Procs -> BOOLEAN]
    BY <1>13, <2>2 DEF CronFire, OtherTypes
  <2>4. fired' \in [Entries -> [Slots -> Nat]]
    <3> DEFINE at == cron[p][e]
    <3>1. at \in Slots
      BY <1>13 DEF CronFire, Due, OtherTypes, Slots, None
    <3>2. fired' = [fired EXCEPT ![e][at] = @ + 1] /\ fired \in [Entries -> [Slots -> Nat]]
      BY <1>13 DEF CronFire, OtherTypes
    <3> HIDE DEF at
    <3> QED BY <3>1, <3>2
  <2> QED BY <1>13, <2>1, <2>3, <2>4 DEF CronFire, OtherTypes, worker
<1>14. ASSUME NEW p \in Procs, CronSave(p) PROVE StoreTypes' /\ OtherTypes'
  BY <1>14 DEF CronSave, Saved, OtherTypes, StoreTypes, worker
<1>15. ASSUME SlotPasses PROVE StoreTypes' /\ OtherTypes'
  BY <1>15 DEF SlotPasses, OtherTypes, StoreTypes, worker
<1>16. ASSUME LockChanges PROVE StoreTypes' /\ OtherTypes'
  <2>1. held' \in BOOLEAN
    BY <1>16, Zenon DEF LockChanges
  <2> QED BY <1>16, <2>1 DEF LockChanges, OtherTypes, StoreTypes, worker, clockwork
<1>17. CASE UNCHANGED vars
  BY <1>17 DEF vars, OtherTypes, StoreTypes, worker, clockwork
<1> QED BY <1>1, <1>2, <1>4, <1>5, <1>6, <1>7, <1>8, <1>9, <1>10, <1>12, <1>13, <1>14, <1>15, <1>16, <1>17 DEF Next

-----------------------------------------------------------------------------
(* What was executed, and what a crash leaves *)

(* A task begun is not pending in the log, and one not made yet is not there. *)
BegunOnce ==
    LET found == Replay(log.lines)
    IN  \A t \in Tasks : /\ runs[t] <= 1
                         /\ runs[t] = 1 => found[t] # "pending"
                         /\ t > made => found[t] = "none" /\ runs[t] = 0

(* Unless an event was lost, the log replays to the memory, and what it says *)
(* of a task tells whether it was executed.                                  *)
StoreInv == TypeOK /\ (~glued => Recoverable /\ BegunOnce)

(* Without a torn line, Store keeps log and memory alike. *)
LEMMA StoreReplays ==
    ASSUME StoreInv, NEW p \in Procs, up[p], NEW events \in Seq(Event), Store(p, events), ~glued'
    PROVE  /\ ~glued /\ Replay(log.lines) = tasks[p]
           /\ Replay(log'.lines) = tasks'[p]
<1>1. ~glued /\ ~log.torn
  BY DEF Store
<1>2. Replay(log.lines) = tasks[p]
  BY <1>1 DEF StoreInv, Recoverable
<1>3. /\ Before(p) \in Records /\ tasks'[p] = recordAll(Before(p), events).ts
      /\ log' = recordAll(Before(p), events).lg
  BY StoreEffect DEF StoreInv
<1>4. ~Before(p).lg.torn /\ Replay(Before(p).lg.lines) = Before(p).ts
  BY <1>1, <1>2 DEF Before
<1> QED BY <1>1, <1>2, <1>3, <1>4, RecordAllReplays

(* One event changes the memory as applyEvent says. *)
LEMMA StoreOne ==
    ASSUME TypeOK, NEW p \in Procs, NEW ev \in Event, Store(p, <<ev>>)
    PROVE  tasks'[p] = applyEvent(tasks[p], ev) /\ tasks[p] \in TaskMaps
<1>1. <<ev>> \in Seq(Event)
  BY EventTypes
<1>2. Before(p) \in Records /\ tasks'[p] = recordAll(Before(p), <<ev>>).ts
  BY <1>1, StoreEffect
<1>3. recordAll(Before(p), <<ev>>).ts = applyEvent(Before(p).ts, ev)
  BY <1>2, RecordOne, RecordEffect
<1>4. Before(p).ts = tasks[p] /\ tasks[p] \in TaskMaps
  BY DEF Before, TypeOK, TaskMaps
<1> QED BY <1>2, <1>3, <1>4

LEMMA UpdatedTo ==
    ASSUME TypeOK, NEW p \in Procs, NEW t \in Tasks, NEW s \in Statuses, Store(p, <<Updated(t, s)>>)
    PROVE  \A u \in Tasks :
               tasks'[p][u] = IF u = t /\ tasks[p][t] # "none" THEN s ELSE tasks[p][u]
<1>1. tasks'[p] = applyEvent(tasks[p], Updated(t, s)) /\ tasks[p] \in TaskMaps
  BY StoreOne, EventTypes
<1>2. Updated(t, s).kind = "update" /\ Updated(t, s).id = t /\ Updated(t, s).status = s
  BY DEF Updated
<1>3. applyEvent(tasks[p], Updated(t, s)) = [tasks[p] EXCEPT ![t] = IF @ = "none" THEN @ ELSE s]
  BY <1>2 DEF applyEvent
<1> QED BY <1>1, <1>3 DEF TaskMaps

LEMMA AddedTo ==
    ASSUME TypeOK, NEW p \in Procs, NEW t \in Tasks, Store(p, <<Added(t)>>)
    PROVE  \A u \in Tasks : tasks'[p][u] = IF u = t THEN "pending" ELSE tasks[p][u]
<1>1. tasks'[p] = applyEvent(tasks[p], Added(t)) /\ tasks[p] \in TaskMaps
  BY StoreOne, EventTypes
<1>2. Added(t).kind = "add" /\ Added(t).id = t /\ Added(t).status = "pending"
  BY DEF Added
<1>3. applyEvent(tasks[p], Added(t)) = [tasks[p] EXCEPT ![t] = "pending"]
  BY <1>2 DEF applyEvent
<1> QED BY <1>1, <1>3 DEF TaskMaps

(* Deleting some tasks leaves the others as they are. *)
LEMMA DeletedFrom ==
    ASSUME TypeOK, NEW p \in Procs, NEW old \in SUBSET Tasks, NEW events \in Seq(Event),
           \A i \in 1..Len(events) : \E t \in old : events[i] = Deleted(t),
           Store(p, events)
    PROVE  \A u \in Tasks : tasks'[p][u] \in {tasks[p][u], "none"}
<1> PICK was : was = tasks[p]
  OBVIOUS
<1> DEFINE V == {x \in Records : \A u \in Tasks : x.ts[u] \in {was[u], "none"}}
<1>1. Before(p) \in V /\ tasks'[p] = recordAll(Before(p), events).ts
  <2>1. Before(p).ts = was
    BY DEF Before
  <2> QED BY <2>1, StoreEffect
<1>2. ASSUME NEW x \in V, NEW i \in 1..Len(events) PROVE record(x, events[i]) \in V
  <2>1. PICK t \in Tasks : events[i] = Deleted(t)
    OBVIOUS
  <2>2. /\ record(x, Deleted(t)) \in Records /\ record(x, Deleted(t)).ts = applyEvent(x.ts, Deleted(t))
        /\ x.ts \in TaskMaps
    BY EventTypes, RecordEffect DEF Records
  <2>3. Deleted(t).kind = "delete" /\ Deleted(t).id = t /\ Deleted(t).status = "none"
    BY DEF Deleted
  <2>4. applyEvent(x.ts, Deleted(t)) = [x.ts EXCEPT ![t] = "none"]
    BY <2>3 DEF applyEvent
  <2>5. \A u \in Tasks : record(x, Deleted(t)).ts[u] \in {was[u], "none"}
    BY <2>2, <2>4 DEF TaskMaps
  <2> QED BY <2>1, <2>2, <2>5
<1> HIDE DEF V
<1>3. recordAll(Before(p), events) \in V
  BY <1>1, <1>2, RecordAllKeeps
<1> QED BY <1>1, <1>3 DEF V

LEMMA StoreInitInv == Init => StoreInv
<1> SUFFICES ASSUME Init PROVE StoreInv
  OBVIOUS
<1>1. TypeOK
  BY AutonomousInitTypes
<1>2. log.lines = <<>> /\ \A p \in Procs : ~up[p]
  BY DEF Init
<1>3. Replay(<<>>) = NoTasks
  <2>1. <<>> \in Seq(Lines) /\ Len(<<>>) = 0
    OBVIOUS
  <2>2. PICK g : g[0] = NoTasks /\ Replay(<<>>) = g[Len(<<>>)]
    BY <2>1, ReplayUnfolds
  <2> QED BY <2>1, <2>2
<1>4. \A t \in Tasks : runs[t] = 0 /\ NoTasks[t] = "none"
  BY DEF Init, NoTasks
<1> QED BY <1>1, <1>2, <1>3, <1>4 DEF StoreInv, Recoverable, BegunOnce

(* A step of the one process after which the log replays to its memory, in  *)
(* which nothing became pending and nothing that was absent came up.        *)
LEMMA Quiet ==
    ASSUME NEW bot, Procs = {bot}, StoreInv, TypeOK',
           ~glued' => /\ ~glued
                      /\ up'[bot] => Replay(log'.lines) = tasks'[bot]
                      /\ \A t \in Tasks :
                            /\ Replay(log'.lines)[t] = "pending" => Replay(log.lines)[t] = "pending"
                            /\ Replay(log.lines)[t] = "none" => Replay(log'.lines)[t] = "none",
           made' = made, runs' = runs
    PROVE  StoreInv'
  BY DEF StoreInv, Recoverable, BegunOnce

LEMMA StoreInvStep ==
    ASSUME NEW bot, Procs = {bot}, StoreInv, [Next]_vars
    PROVE  StoreInv'
<1>0. TypeOK /\ TypeOK'
  BY AutonomousTypeStep DEF StoreInv
<1>1. ASSUME UNCHANGED <<up, tasks, log, glued, made, runs>> PROVE StoreInv'
  BY <1>0, <1>1 DEF StoreInv, Recoverable, BegunOnce
<1>2. ASSUME Boot(bot) PROVE StoreInv'
  <2>1. /\ Replay(log'.lines) = tasks'[bot]
        /\ \A t \in Tasks :
              tasks'[bot][t] = IF Replay(log.lines)[t] = "running" THEN "failed" ELSE Replay(log.lines)[t]
    BY <1>0, <1>2, BootTypes
  <2>2. glued' = glued /\ made' = made /\ runs' = runs
    BY <1>2 DEF Boot
  <2> QED BY <1>0, <2>1, <2>2, Quiet
<1>3. ASSUME Crash(bot) PROVE StoreInv'
  <2>1. Replay(log'.lines) = Replay(log.lines)
    BY <1>0, <1>3, CrashTypes
  <2>2. glued' = glued /\ made' = made /\ runs' = runs /\ ~up'[bot]
    BY <1>0, <1>3 DEF Crash, TypeOK
  <2> QED BY <1>0, <2>1, <2>2, Quiet
<1>4. ASSUME addTask(bot), up[bot], runs' = runs PROVE StoreInv'
  <2>1. made + 1 \in Tasks /\ made' = made + 1 /\ made \in Nat /\ Store(bot, <<Added(made + 1)>>)
    BY <1>0, <1>4, AutonomousAssumption DEF addTask, TypeOK, Tasks
  <2>2. <<Added(made + 1)>> \in Seq(Event)
    BY <2>1, EventTypes
  <2>3. SUFFICES ASSUME ~glued' PROVE Recoverable' /\ BegunOnce'
    BY <1>0 DEF StoreInv
  <2>4. ~glued /\ Replay(log.lines) = tasks[bot] /\ Replay(log'.lines) = tasks'[bot]
    BY <1>4, <2>1, <2>2, <2>3, StoreReplays
  <2>5. \A u \in Tasks : tasks'[bot][u] = IF u = made + 1 THEN "pending" ELSE tasks[bot][u]
    BY <1>0, <2>1, AddedTo
  <2>6. BegunOnce
    BY <2>4 DEF StoreInv
  <2>7. ASSUME NEW t \in Tasks
        PROVE  /\ runs'[t] <= 1
               /\ runs'[t] = 1 => Replay(log'.lines)[t] # "pending"
               /\ t > made' => Replay(log'.lines)[t] = "none" /\ runs'[t] = 0
    <3>1. /\ runs[t] <= 1
          /\ runs[t] = 1 => tasks[bot][t] # "pending"
          /\ t > made => tasks[bot][t] = "none" /\ runs[t] = 0
      BY <2>4, <2>6 DEF BegunOnce
    <3>2. t \in Nat
      BY AutonomousAssumption DEF Tasks
    <3> QED BY <1>4, <2>1, <2>4, <2>5, <3>1, <3>2
  <2> QED BY <2>4, <2>7 DEF Recoverable, BegunOnce
<1>5. ASSUME onTick(bot) PROVE StoreInv'
  <2> DEFINE t == Min(Pending(bot))
  <2>1. t \in Tasks /\ tasks[bot][t] = "pending"
    BY <1>0, <1>5, OldestPending DEF onTick
  <2>2. /\ up[bot] /\ runs' = [runs EXCEPT ![t] = @ + 1] /\ Store(bot, <<Updated(t, "running")>>)
        /\ made' = made
    BY <1>5 DEF onTick, Free
  <2> HIDE DEF t
  <2>3. <<Updated(t, "running")>> \in Seq(Event)
    BY <2>1, EventTypes DEF Statuses
  <2>4. SUFFICES ASSUME ~glued' PROVE Recoverable' /\ BegunOnce'
    BY <1>0 DEF StoreInv
  <2>5. ~glued /\ Replay(log.lines) = tasks[bot] /\ Replay(log'.lines) = tasks'[bot]
    BY <2>2, <2>3, <2>4, StoreReplays
  <2>6. \A u \in Tasks : tasks'[bot][u] = IF u = t THEN "running" ELSE tasks[bot][u]
    BY <1>0, <2>1, <2>2, UpdatedTo DEF Statuses
  <2>7. BegunOnce
    BY <2>5 DEF StoreInv
  <2>8. ASSUME NEW u \in Tasks
        PROVE  /\ runs'[u] <= 1
               /\ runs'[u] = 1 => Replay(log'.lines)[u] # "pending"
               /\ u > made' => Replay(log'.lines)[u] = "none" /\ runs'[u] = 0
    <3>1. /\ runs[u] <= 1
          /\ runs[u] = 1 => tasks[bot][u] # "pending"
          /\ u > made => tasks[bot][u] = "none" /\ runs[u] = 0
      BY <2>5, <2>7 DEF BegunOnce
    <3>2. runs[u] \in Nat /\ runs'[u] = IF u = t THEN runs[u] + 1 ELSE runs[u]
      BY <1>0, <2>2 DEF TypeOK
    <3> QED BY <2>1, <2>2, <2>5, <2>6, <3>1, <3>2
  <2> QED BY <2>5, <2>8 DEF Recoverable, BegunOnce
<1>6. ASSUME NEW t \in Tasks, NEW s \in Statuses \ {"none", "pending"}, up[bot],
             Store(bot, <<Updated(t, s)>>), made' = made, runs' = runs
      PROVE  StoreInv'
  <2>1. <<Updated(t, s)>> \in Seq(Event)
    BY EventTypes
  <2>2. \A u \in Tasks : tasks'[bot][u] = IF u = t /\ tasks[bot][t] # "none" THEN s ELSE tasks[bot][u]
    BY <1>0, <1>6, UpdatedTo
  <2>3. ~glued' => ~glued /\ Replay(log.lines) = tasks[bot] /\ Replay(log'.lines) = tasks'[bot]
    BY <1>6, <2>1, StoreReplays
  <2> QED BY <1>0, <1>6, <2>2, <2>3, Quiet
<1>7. ASSUME NEW s \in {"completed", "failed"}, Finish(bot, s) PROVE StoreInv'
  <2> DEFINE t == busy[bot]
  <2>1. t \in Tasks /\ up[bot] /\ UNCHANGED <<up, made, runs>>
    BY <1>0, <1>7 DEF Finish, Free, TypeOK
  <2>2. CASE Marked(bot, t, s) = <<>>
    BY <1>1, <1>7, <2>1, <2>2 DEF Finish
  <2>3. CASE Marked(bot, t, s) # <<>>
    <3>1. Store(bot, Marked(bot, t, s)) /\ Marked(bot, t, s) = <<Updated(t, s)>>
      BY <1>7, <2>3 DEF Finish, Marked
    <3>2. s \in Statuses \ {"none", "pending"}
      BY DEF Statuses, Finished
    <3> HIDE DEF t
    <3> QED BY <1>6, <2>1, <3>1, <3>2
  <2> QED BY <2>2, <2>3
<1>8. ASSUME NEW t \in Tasks, cancelTask(bot, t) PROVE StoreInv'
  BY <1>6, <1>8 DEF cancelTask, Free, Statuses, Finished
<1>9. ASSUME prune(bot) PROVE StoreInv'
  <2>1. PICK old \in SUBSET Tasks :
          LET ids == SetToSeq(old)
          IN  Store(bot, [i \in 1..Len(ids) |-> Deleted(ids[i])])
    BY <1>9 DEF prune
  <2> DEFINE ids == SetToSeq(old)
             events == [i \in 1..Len(ids) |-> Deleted(ids[i])]
  <2>2. events \in Seq(Event) /\ \A i \in 1..Len(events) : \E t \in old : events[i] = Deleted(t)
    BY Prunes
  <2>3. Store(bot, events) /\ up[bot] /\ UNCHANGED <<made, runs>>
    BY <1>9, <2>1 DEF prune, Free
  <2> HIDE DEF events
  <2>4. \A u \in Tasks : tasks'[bot][u] \in {tasks[bot][u], "none"}
    BY <1>0, <2>2, <2>3, DeletedFrom
  <2>5. ~glued' => ~glued /\ Replay(log.lines) = tasks[bot] /\ Replay(log'.lines) = tasks'[bot]
    BY <2>2, <2>3, StoreReplays
  <2> QED BY <1>0, <2>3, <2>4, <2>5, Quiet
<1>10. ASSUME UserAdds(bot) PROVE StoreInv'
  BY <1>4, <1>10 DEF UserAdds, Free
<1>11. ASSUME NEW e \in Entries, CronFire(bot, e) PROVE StoreInv'
  BY <1>4, <1>11 DEF CronFire
<1>12. ASSUME PauseOrResume(bot) \/ HourPasses(bot) \/ CronSave(bot) \/ SlotPasses \/ LockChanges PROVE StoreInv'
  BY <1>1, <1>12 DEF PauseOrResume, HourPasses, CronSave, SlotPasses, LockChanges
<1>13. ASSUME NEW e \in Entries, CronAdd(bot, e) \/ CronRemove(bot, e) PROVE StoreInv'
  BY <1>1, <1>13 DEF CronAdd, CronRemove, SetEntry
<1>14. CASE UNCHANGED vars
  BY <1>1, <1>14 DEF vars
<1> QED BY <1>2, <1>3, <1>5, <1>7, <1>8, <1>9, <1>10, <1>11, <1>12, <1>13, <1>14 DEF Next

(* The types of the tasks, the log and the entries, for any number of        *)
(* processes on the data directory (autonomous/task-store.ts, user-cron.ts). *)
THEOREM TasksTypeCorrect == Spec => []TypeOK
  BY AutonomousInitTypes, AutonomousTypeStep, PTL DEF Spec

(* With one process on the data directory, the log replays at any moment to  *)
(* the tasks in memory, through any sequence of records, compactions,        *)
(* crashes and starts, but for events written onto a torn line               *)
(* (autonomous/task-store.ts, load, appendEvent and compact).                *)
THEOREM RecoverableCorrect ==
    ASSUME NEW CONSTANT bot, Procs = {bot}
    PROVE  Spec => []Recoverable
<1>1. StoreInv /\ [Next]_vars => StoreInv'
  BY StoreInvStep
<1>2. StoreInv => Recoverable
  BY DEF StoreInv, Recoverable
<1> QED BY <1>1, <1>2, StoreInitInv, PTL DEF Spec

(* With one process, no task is executed twice, unless its record was        *)
(* written onto a torn line (autonomous/worker.ts, onTick; task-store.ts,    *)
(* load).                                                                    *)
THEOREM OnceUnlessTornCorrect ==
    ASSUME NEW CONSTANT bot, Procs = {bot}
    PROVE  Spec => []OnceUnlessTorn
<1>1. StoreInv /\ [Next]_vars => StoreInv'
  BY StoreInvStep
<1>2. StoreInv => OnceUnlessTorn
  BY DEF StoreInv, OnceUnlessTorn, ExecutedOnce, BegunOnce
<1> QED BY <1>1, <1>2, StoreInitInv, PTL DEF Spec
=============================================================================
