-------------------------------- MODULE Lock --------------------------------
(***************************************************************************)
(* The PID lock file of src/core/lock.ts, as runs of the program use it    *)
(* (src/index.ts, src/cli.ts with a path of its own).  Every run is a      *)
(* process; each step of acquireLock that the operating system sees is one *)
(* action, because the steps of two processes interleave.  The file's age  *)
(* is only what the code asks of it: younger than STALE_AFTER_MS or not.   *)
(***************************************************************************)
EXTENDS Naturals

CONSTANTS Runs,      \* runs of the program that may be started
          Pids,      \* process ids, given out again when they are free
          NoPid,     \* what parseInt makes of an empty file (NaN)
          NoRun,     \* inode of no file
          Orderly    \* is the environment orderly (see below)?

ASSUME LockAssumption ==
    /\ NoPid \notin Pids
    /\ NoRun \notin Runs
    /\ Orderly \in BOOLEAN

VARIABLES place,    \* Runs -> where the run is
          pid,      \* Runs -> its process id
          seen,     \* Runs -> existingPid, as read in acquireLock
          fd,       \* Runs -> inode its writeFileSync opened
          lockFile, \* the lock file: inode (the run that created it), PID line, mtime fresh
          alien,    \* ids held by unrelated processes that kill(pid, 0) can reach
          stalled   \* suspended runs

vars == <<place, pid, seen, fd, lockFile, alien, stalled>>

Acquiring == {"look", "read", "judge", "unlink", "open", "write"}
Places == {"unborn", "holding", "gone"} \cup Acquiring

Absent == [ino |-> NoRun, pid |-> NoPid, fresh |-> FALSE]

TypeOK ==
    /\ place \in [Runs -> Places]
    /\ pid \in [Runs -> Pids \cup {NoPid}]
    /\ seen \in [Runs -> Pids \cup {NoPid}]
    /\ fd \in [Runs -> Runs \cup {NoRun}]
    /\ lockFile \in [ino : Runs \cup {NoRun}, pid : Pids \cup {NoPid}, fresh : BOOLEAN]
    /\ alien \subseteq Pids
    /\ stalled \subseteq Runs

Init ==
    /\ place = [p \in Runs |-> "unborn"]
    /\ pid = [p \in Runs |-> NoPid]
    /\ seen = [p \in Runs |-> NoPid]
    /\ fd = [p \in Runs |-> NoRun]
    /\ lockFile = Absent
    /\ alien = {}
    /\ stalled = {}

Exists == lockFile.ino # NoRun
Living(p) == place[p] \notin {"unborn", "gone"}
InUse == {pid[p] : p \in {q \in Runs : Living(q)}} \cup alien
CanStep(p) == Living(p) /\ p \notin stalled

(* kill(x, 0) finds a process; NaN is never alive *)
isProcessAlive(x) == x \in InUse

(* Mutant: the PID check alone, as before the hardening. *)
MtimeFresh_Always == TRUE

(* lockFileAgeMs(lockPath) < STALE_AFTER_MS; a missing file is infinitely old *)
MtimeFresh == Exists /\ lockFile.fresh
-----------------------------------------------------------------------------
(* In an orderly environment no run starts while another one is acquiring,   *)
(* or while a holder is suspended or has not beaten since it was; and no     *)
(* process is suspended while a run is acquiring.                            *)
NobodyAcquires == \A q \in Runs : place[q] \notin Acquiring

HolderBeats == stalled = {} /\ \A q \in Runs : place[q] = "holding" => lockFile.fresh

(* the program is started and comes to acquireLock *)
Start(p) ==
    /\ place[p] = "unborn"
    /\ Orderly => NobodyAcquires /\ HolderBeats
    /\ \E x \in Pids \ InUse : pid' = [pid EXCEPT ![p] = x]
    /\ place' = [place EXCEPT ![p] = "look"]
    /\ UNCHANGED <<seen, fd, lockFile, alien, stalled>>

(* existsSync(lockPath) *)
Look(p) ==
    /\ place[p] = "look" /\ CanStep(p)
    /\ place' = [place EXCEPT ![p] = IF Exists THEN "read" ELSE "open"]
    /\ UNCHANGED <<pid, seen, fd, lockFile, alien, stalled>>

(* readFileSync; if the file is gone by now it throws, and main's catch ends *)
(* the process (releaseLock there finds no activeLockPath)                   *)
Read(p) ==
    /\ place[p] = "read" /\ CanStep(p)
    /\ IF Exists
       THEN /\ seen' = [seen EXCEPT ![p] = lockFile.pid]
            /\ place' = [place EXCEPT ![p] = "judge"]
       ELSE /\ place' = [place EXCEPT ![p] = "gone"]
            /\ UNCHANGED seen
    /\ UNCHANGED <<pid, fd, lockFile, alien, stalled>>

(* both signals agree: refuse and exit(1); else the lock is stale *)
Judge(p) ==
    /\ place[p] = "judge" /\ CanStep(p)
    /\ place' = [place EXCEPT ![p] = IF isProcessAlive(seen[p]) /\ MtimeFresh
                               THEN "gone" ELSE "unlink"]
    /\ UNCHANGED <<pid, seen, fd, lockFile, alien, stalled>>

(* unlinkSync, of whatever the path names now; a failure is only logged *)
Unlink(p) ==
    /\ place[p] = "unlink" /\ CanStep(p)
    /\ lockFile' = Absent
    /\ place' = [place EXCEPT ![p] = "open"]
    /\ UNCHANGED <<pid, seen, fd, alien, stalled>>

(* writeFileSync opens the path: made or truncated *)
Open(p) ==
    /\ place[p] = "open" /\ CanStep(p)
    /\ lockFile' = [ino |-> IF Exists THEN lockFile.ino ELSE p, pid |-> NoPid, fresh |-> TRUE]
    /\ fd' = [fd EXCEPT ![p] = lockFile'.ino]
    /\ place' = [place EXCEPT ![p] = "write"]
    /\ UNCHANGED <<pid, seen, alien, stalled>>

(* Mutant: nothing is written. *)
PidLine_Empty(p) == NoPid

(* String(process.pid) *)
PidLine(p) == pid[p]

(* it writes the inode it opened, which another run may have unlinked since; *)
(* then activeLockPath is set and the heartbeat started: the run holds       *)
Write(p) ==
    /\ place[p] = "write" /\ CanStep(p)
    /\ lockFile' = IF lockFile.ino = fd[p]
                   THEN [lockFile EXCEPT !.pid = PidLine(p), !.fresh = TRUE]
                   ELSE lockFile
    /\ place' = [place EXCEPT ![p] = "holding"]
    /\ UNCHANGED <<pid, seen, fd, alien, stalled>>

(* touchLock, by the heartbeat of a holder: whatever file is at the path *)
Touch(p) ==
    /\ place[p] = "holding" /\ CanStep(p)
    /\ Exists /\ ~lockFile.fresh
    /\ lockFile' = [lockFile EXCEPT !.fresh = TRUE]
    /\ UNCHANGED <<place, pid, seen, fd, alien, stalled>>

(* shutdown: releaseLock unlinks the path without reading it, then exit *)
releaseLock(p) ==
    /\ place[p] = "holding" /\ CanStep(p)
    /\ lockFile' = Absent
    /\ place' = [place EXCEPT ![p] = "gone"]
    /\ UNCHANGED <<pid, seen, fd, alien, stalled>>
-----------------------------------------------------------------------------
(* What happens to processes *)

Killed(p) ==
    /\ Living(p)
    /\ place' = [place EXCEPT ![p] = "gone"]
    /\ stalled' = stalled \ {p}
    /\ UNCHANGED <<pid, seen, fd, lockFile, alien>>

Stall(p) ==
    /\ CanStep(p)
    /\ Orderly => NobodyAcquires
    /\ stalled' = stalled \cup {p}
    /\ UNCHANGED <<place, pid, seen, fd, lockFile, alien>>

Resume(p) ==
    /\ p \in stalled
    /\ stalled' = stalled \ {p}
    /\ UNCHANGED <<place, pid, seen, fd, lockFile, alien>>

(* an unrelated process takes a free id, or ends *)
Recycle(x) ==
    /\ x \notin InUse
    /\ alien' = alien \cup {x}
    /\ UNCHANGED <<place, pid, seen, fd, lockFile, stalled>>

AlienEnds(x) ==
    /\ x \in alien
    /\ alien' = alien \ {x}
    /\ UNCHANGED <<place, pid, seen, fd, lockFile, stalled>>

(* Mutant: the heartbeat is not started. *)
KeepsFresh_Never(p) == FALSE

(* p's interval timer touches the path every HEARTBEAT_MS *)
KeepsFresh(p) == place[p] = "holding" /\ p \notin stalled

(* STALE_AFTER_MS go by without a touch: ten heartbeats and more, so nobody *)
(* who beats can have been there, nor anybody who is just writing the file   *)
GrowStale ==
    /\ Exists /\ lockFile.fresh
    /\ \A p \in Runs : ~KeepsFresh(p) /\ (place[p] = "write" => p \in stalled)
    /\ lockFile' = [lockFile EXCEPT !.fresh = FALSE]
    /\ UNCHANGED <<place, pid, seen, fd, alien, stalled>>

Acquire(p) == Look(p) \/ Read(p) \/ Judge(p) \/ Unlink(p) \/ Open(p) \/ Write(p)

Next ==
    \/ \E p \in Runs : \/ Start(p) \/ Acquire(p) \/ Touch(p) \/ releaseLock(p)
                       \/ Killed(p) \/ Stall(p) \/ Resume(p)
    \/ \E x \in Pids : Recycle(x) \/ AlienEnds(x)
    \/ GrowStale

Spec == Init /\ [][Next]_vars

(* Time passes and a run that is awake goes on. *)
Fairness == WF_vars(GrowStale) /\ \A p \in Runs : WF_vars(Acquire(p))

FairSpec == Spec /\ Fairness
-----------------------------------------------------------------------------
Holds(p) == place[p] = "holding"

(* isLockHeld(), asked by anybody *)
isLockHeld == Exists /\ isProcessAlive(lockFile.pid) /\ MtimeFresh

(* "Prevents multiple instances from running simultaneously": at most one   *)
(* run holds the lock, with crashes, clean exits and recycled PIDs.         *)
MutualExclusion == \A p, q \in Runs : Holds(p) /\ Holds(q) => p = q

(* A run that acquires while another holds the lock finds the file naming    *)
(* the holder and fresh, at every step, however long the holder has run.     *)
HolderIsSeen ==
    \A p, q \in Runs : Holds(p) /\ place[q] \in Acquiring => isLockHeld /\ lockFile.pid = pid[p]

(* A lock left behind never shuts the program out for ever, also when its   *)
(* PID has gone to a process that does not end.                              *)
Orphaned == isLockHeld /\ \A p \in Runs : ~Holds(p)

NoLockout == Orphaned ~> ~Orphaned
-----------------------------------------------------------------------------
(* What makes MutualExclusion inductive in an orderly environment            *)
(* (LockProofs.tla): one run acquires at a time, with nobody suspended, and   *)
(* past the judgement there is no holder.                                    *)
OneAcquires ==
    \A p, q \in Runs : place[p] \in Acquiring /\ place[q] \in Acquiring => p = q

AwakeWhileAcquiring ==
    (\E p \in Runs : place[p] \in Acquiring) => HolderBeats

JudgedRight ==
    \A p, q \in Runs : Holds(q) =>
        /\ place[p] \notin {"unlink", "open", "write"}
        /\ place[p] = "judge" => seen[p] = pid[q]

FileIsOurs ==
    /\ \A p \in Runs : place[p] = "write" => Exists /\ lockFile.ino = fd[p]
    /\ \A p \in Runs : Holds(p) => Exists /\ lockFile.pid = pid[p]

IInv ==
    /\ TypeOK
    /\ OneAcquires
    /\ AwakeWhileAcquiring
    /\ JudgedRight
    /\ FileIsOurs
    /\ MutualExclusion
=============================================================================
