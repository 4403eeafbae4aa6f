--------------------------- MODULE MessagingProofs ---------------------------
(***************************************************************************)
(* Proofs about what carries messages in and out and the executors that    *)
(* answer them: Lock.tla, for any number of runs and process ids,          *)
(* WsServer.tla, for any clients and any timeout, Daemon.tla,              *)
(* for any number of steps of the startup and the shutdown, Failover.tla,  *)
(* for any number of callers and providers, any threshold and any length   *)
(* of a cooldown, CliExecutor.tla, for any number of retries and any       *)
(* amount of output, Provider.tla, for any keys, waits and errors,         *)
(* StreamReply.tla, for any handlers, channels and number of chunks,       *)
(* Notifications.tla, for any channels, limit and window,                 *)
(* MessageDedup.tla, for any messages, window and number of starts,        *)
(* SseStream.tla, for any pieces and any limits of the guards, and         *)
(* ChunkText.tla, for any texts and any limits of a message.               *)
(***************************************************************************)
EXTENDS Lock, WsServer, Daemon, Failover, CliExecutor, Provider, StreamReply,
        Notifications, MessageDedup, SseStream, ChunkText, SequenceLemmas, SequenceTheorems

(* Lock.tla *)

(* The environment the exclusion rests on, as a formula to cite. *)
Order == Orderly = TRUE

(* The first state satisfies the invariant. *)
LEMMA LockInitInv == Init => IInv
  BY LockAssumption DEF Init, IInv, TypeOK, Places, Acquiring, Absent, OneAcquires,
     AwakeWhileAcquiring, JudgedRight, FileIsOurs, MutualExclusion, Holds, HolderBeats

(* A holder is in the table of processes, so its id counts as alive. *)
LEMMA HolderAlive ==
    ASSUME NEW p \in Runs, Holds(p)
    PROVE  isProcessAlive(pid[p])
  BY DEF Holds, isProcessAlive, InUse, Living

(* The type invariant is kept by every step. *)
LEMMA LockTypeStep == TypeOK /\ [Next]_vars => TypeOK'
<1> SUFFICES ASSUME TypeOK, [Next]_vars PROVE TypeOK'
  OBVIOUS
<1> USE LockAssumption DEF TypeOK, Places, Acquiring
<1>1. ASSUME NEW p \in Runs, Start(p) PROVE TypeOK'
  BY <1>1 DEF Start
<1>2. ASSUME NEW p \in Runs, Look(p) PROVE TypeOK'
  BY <1>2 DEF Look
<1>3. ASSUME NEW p \in Runs, Read(p) PROVE TypeOK'
  <2>1. CASE Exists
    BY <1>3, <2>1 DEF Read
  <2>2. CASE ~Exists
    BY <1>3, <2>2 DEF Read
  <2> QED BY <2>1, <2>2
<1>4. ASSUME NEW p \in Runs, Judge(p) PROVE TypeOK'
  BY <1>4 DEF Judge
<1>5. ASSUME NEW p \in Runs, Unlink(p) PROVE TypeOK'
  BY <1>5 DEF Unlink, Absent
<1>6. ASSUME NEW p \in Runs, Open(p) PROVE TypeOK'
  BY <1>6 DEF Open
<1>7. ASSUME NEW p \in Runs, Write(p) PROVE TypeOK'
  BY <1>7 DEF Write, PidLine
<1>8. ASSUME NEW p \in Runs, Touch(p) PROVE TypeOK'
  BY <1>8 DEF Touch
<1>9. ASSUME NEW p \in Runs, releaseLock(p) PROVE TypeOK'
  BY <1>9 DEF releaseLock, Absent
<1>10. ASSUME NEW p \in Runs, Killed(p) PROVE TypeOK'
  BY <1>10 DEF Killed
<1>11. ASSUME NEW p \in Runs, Stall(p) PROVE TypeOK'
  BY <1>11 DEF Stall
<1>12. ASSUME NEW p \in Runs, Resume(p) PROVE TypeOK'
  BY <1>12 DEF Resume
<1>13. ASSUME NEW x \in Pids, Recycle(x) \/ AlienEnds(x) PROVE TypeOK'
  BY <1>13 DEF Recycle, AlienEnds
<1>14. ASSUME GrowStale PROVE TypeOK'
  BY <1>14 DEF GrowStale
<1>15. ASSUME UNCHANGED vars PROVE TypeOK'
  BY <1>15 DEF vars
<1> QED
  BY <1>1, <1>2, <1>3, <1>4, <1>5, <1>6, <1>7, <1>8, <1>9, <1>10, <1>11, <1>12,
     <1>13, <1>14, <1>15 DEF Next, Acquire

(* The rest of the invariant, in an orderly environment. *)
LEMMA LockInvStep == Order /\ IInv /\ [Next]_vars => IInv'
<1> SUFFICES ASSUME Order, IInv, [Next]_vars PROVE IInv'
  OBVIOUS
<1>0. TypeOK'
  BY LockTypeStep DEF IInv
<1> DEFINE Rest == OneAcquires /\ AwakeWhileAcquiring /\ JudgedRight /\ FileIsOurs
                   /\ MutualExclusion
<1> USE <1>0, LockAssumption DEF Order, IInv, OneAcquires, AwakeWhileAcquiring, JudgedRight,
       FileIsOurs, MutualExclusion, Holds, HolderBeats, Acquiring, Exists
<1>1. ASSUME NEW p \in Runs, Start(p) PROVE Rest'
  BY <1>1 DEF Start, NobodyAcquires, TypeOK
<1>2. ASSUME NEW p \in Runs, Look(p) PROVE Rest'
  BY <1>2 DEF Look, TypeOK
<1>3. ASSUME NEW p \in Runs, Read(p) PROVE Rest'
  BY <1>3 DEF Read, TypeOK
<1>4. ASSUME NEW p \in Runs, Judge(p) PROVE Rest'
  <2>1. CASE \E q \in Runs : Holds(q)
    <3>1. PICK q \in Runs : Holds(q)
      BY <2>1
    <3>2. seen[p] = pid[q] /\ lockFile.fresh /\ lockFile.ino # NoRun
      BY <1>4, <3>1 DEF Judge
    <3>3. place' = [place EXCEPT ![p] = "gone"]
      BY <1>4, <3>1, <3>2, HolderAlive DEF Judge, MtimeFresh
    <3> QED BY <1>4, <3>3 DEF Judge, TypeOK
  <2>2. CASE ~ \E q \in Runs : Holds(q)
    BY <1>4, <2>2 DEF Judge, TypeOK
  <2> QED BY <2>1, <2>2
<1>5. ASSUME NEW p \in Runs, Unlink(p) PROVE Rest'
  BY <1>5 DEF Unlink, TypeOK, Absent
<1>6. ASSUME NEW p \in Runs, Open(p) PROVE Rest'
  BY <1>6 DEF Open, TypeOK
<1>7. ASSUME NEW p \in Runs, Write(p) PROVE Rest'
  BY <1>7 DEF Write, TypeOK, PidLine
<1>8. ASSUME NEW p \in Runs, Touch(p) PROVE Rest'
  BY <1>8 DEF Touch, TypeOK
<1>9. ASSUME NEW p \in Runs, releaseLock(p) PROVE Rest'
  BY <1>9 DEF releaseLock, TypeOK, Absent
<1>10. ASSUME NEW p \in Runs, Killed(p) PROVE Rest'
  BY <1>10 DEF Killed, TypeOK
<1>11. ASSUME NEW p \in Runs, Stall(p) PROVE Rest'
  BY <1>11 DEF Stall, TypeOK, NobodyAcquires
<1>12. ASSUME NEW p \in Runs, Resume(p) PROVE Rest'
  BY <1>12 DEF Resume, TypeOK
<1>13. ASSUME NEW x \in Pids, Recycle(x) \/ AlienEnds(x) PROVE Rest'
  BY <1>13 DEF Recycle, AlienEnds, TypeOK
<1>14. ASSUME GrowStale PROVE Rest'
  BY <1>14 DEF GrowStale, TypeOK, KeepsFresh
<1>15. ASSUME UNCHANGED vars PROVE Rest'
  BY <1>15 DEF vars
<1>16. Rest'
  BY <1>1, <1>2, <1>3, <1>4, <1>5, <1>6, <1>7, <1>8, <1>9, <1>10, <1>11, <1>12,
     <1>13, <1>14, <1>15 DEF Next, Acquire
<1> QED BY <1>0, <1>16

(* Lock.tla's variables keep their types in every behaviour. *)
THEOREM LockTypeCorrect == Spec => []TypeOK
<1>1. Init => TypeOK
  BY LockInitInv DEF IInv
<1> QED BY <1>1, LockTypeStep, PTL DEF Spec

(* In an orderly environment the invariant holds in every behaviour. *)
THEOREM LockInvariance == Order => (Spec => []IInv)
<1> SUFFICES ASSUME Order PROVE Spec => []IInv
  OBVIOUS
<1>1. IInv /\ [Next]_vars => IInv'
  BY LockInvStep
<1> QED BY LockInitInv, <1>1, PTL DEF Spec

(* When starts do not overlap and a suspended holder has beaten again before  *)
(* the next start, two runs never hold the lock of acquireLock together,      *)
(* whatever crashes and whatever becomes of process ids.                      *)
THEOREM Exclusion == Order => (Spec => []MutualExclusion)
<1>1. IInv => MutualExclusion
  BY DEF IInv
<1> QED BY LockInvariance, <1>1, PTL

(* Under the same condition every acquireLock that runs beside a holder finds *)
(* the file fresh and naming it.                                              *)
THEOREM HolderSeen == Order => (Spec => []HolderIsSeen)
<1>1. IInv => HolderIsSeen
  <2> SUFFICES ASSUME IInv, NEW p \in Runs, NEW q \in Runs, Holds(p), place[q] \in Acquiring
               PROVE  isLockHeld /\ lockFile.pid = pid[p]
    BY DEF HolderIsSeen
  <2>1. Exists /\ lockFile.pid = pid[p] /\ lockFile.fresh
    BY DEF IInv, FileIsOurs, AwakeWhileAcquiring, HolderBeats, Holds
  <2> QED BY <2>1, HolderAlive DEF isLockHeld, MtimeFresh
<1> QED BY LockInvariance, <1>1, PTL

(* WsServer.tla *)

ClientState == [listed: BOOLEAN, authenticated: BOOLEAN, lastPong: Nat]

WsTypes ==
    /\ serving \in BOOLEAN
    /\ beat \in Nat
    /\ socket \in [Clients -> {"none", "open", "closing", "closed"}]
    /\ state \in [Clients -> ClientState]
    /\ asked \subseteq Clients /\ slow \subseteq Clients
    /\ lateAuth \subseteq Clients /\ dropped \subseteq Clients

(* A client the next heartbeat would close has been asked, and not only by *)
(* that heartbeat, or it counts among those the property excepts.          *)
SilentWasAsked ==
    \A c \in Clients :
        /\ socket[c] = "open"
        /\ state[c].listed /\ state[c].authenticated
        /\ beat - state[c].lastPong >= PongTimeout
        => c \in asked \cup slow \cup lateAuth

WsInv == WsTypes /\ SilentWasAsked /\ LivingClientKept

LEMMA WsInitInv == WsInit => WsInv
  BY WsAssumption DEF WsInit, WsInv, WsTypes, SilentWasAsked, LivingClientKept, ClientState, Unknown

(* The types, through every step. *)
LEMMA WsTypesStep == WsTypes /\ [WsNext]_wsVars => WsTypes'
<1> SUFFICES ASSUME WsTypes, [WsNext]_wsVars PROVE WsTypes'
  OBVIOUS
<1> USE WsAssumption DEF WsTypes
<1>1. ASSUME NEW c \in Clients, Connection(c) PROVE WsTypes'
  <2>1. [listed |-> TRUE, authenticated |-> ~AuthToken, lastPong |-> beat] \in ClientState
    BY DEF ClientState
  <2> QED BY <1>1, <2>1 DEF Connection
<1>2. ASSUME NEW c \in Clients, Authenticate(c) PROVE WsTypes'
  <2>1. [state[c] EXCEPT !.authenticated = TRUE] \in ClientState
    BY DEF ClientState
  <2>2. state' \in [Clients -> ClientState]
    BY <1>2, <2>1 DEF Authenticate
  <2>3. lateAuth' \subseteq Clients
    BY <1>2 DEF Authenticate
  <2>4. socket' \in [Clients -> {"none", "open", "closing", "closed"}]
    BY <1>2 DEF Authenticate
  <2> QED BY <1>2, <2>2, <2>3, <2>4 DEF Authenticate
<1>3. ASSUME NEW c \in Clients, Pong(c) PROVE WsTypes'
  <2>1. [state[c] EXCEPT !.lastPong = beat] \in ClientState
    BY DEF ClientState
  <2> QED BY <1>3, <2>1 DEF Pong
<1>4. ASSUME NEW c \in Clients, Closed(c) PROVE WsTypes'
  <2>1. [state[c] EXCEPT !.listed = FALSE] \in ClientState
    BY DEF ClientState
  <2> QED BY <1>4, <2>1 DEF Closed
<1>5. CASE Heartbeat
  <2>1. \A c \in Clients : [state[c] EXCEPT !.listed = FALSE] \in ClientState
    BY DEF ClientState
  <2>2. state' \in [Clients -> ClientState]
    BY <1>5, <2>1 DEF Heartbeat
  <2>3. socket' \in [Clients -> {"none", "open", "closing", "closed"}]
    BY <1>5 DEF Heartbeat
  <2>4. asked' \subseteq Clients /\ slow' \subseteq Clients /\ dropped' \subseteq Clients
    BY <1>5 DEF Heartbeat, Silent, Beating
  <2> QED BY <1>5, <2>2, <2>3, <2>4 DEF Heartbeat
<1>6. CASE StopServer
  <2>1. \A c \in Clients : [state[c] EXCEPT !.listed = FALSE] \in ClientState
    BY DEF ClientState
  <2> QED BY <1>6, <2>1 DEF StopServer
<1>7. CASE UNCHANGED wsVars
  BY <1>7 DEF wsVars
<1> QED
  BY <1>1, <1>2, <1>3, <1>4, <1>5, <1>6, <1>7 DEF WsNext

(* A heartbeat leaves nobody at the timeout whom it has not asked, and     *)
(* closes only those it finds past it, who had been asked before.          *)
LEMMA WsHeartbeatStep == WsInv /\ Heartbeat => SilentWasAsked' /\ LivingClientKept'
<1> SUFFICES ASSUME WsInv, Heartbeat PROVE SilentWasAsked' /\ LivingClientKept'
  OBVIOUS
<1>1. /\ beat' = beat + 1
      /\ socket' = [c \in Clients |-> IF c \in Silent /\ socket[c] = "open" THEN "closing" ELSE socket[c]]
      /\ state' = [c \in Clients |-> IF c \in Silent THEN [state[c] EXCEPT !.listed = FALSE] ELSE state[c]]
      /\ slow' = slow \cup asked
      /\ asked' = asked \cup {c \in Beating \ Silent : socket[c] = "open"}
      /\ dropped' = dropped \cup {c \in Silent : socket[c] = "open"}
      /\ lateAuth' = lateAuth
  BY DEF Heartbeat
<1>2. beat \in Nat /\ \A c \in Clients : state[c] \in ClientState /\ state[c].lastPong \in Nat
  BY DEF WsInv, WsTypes, ClientState
<1>3. ASSUME NEW c \in Clients, socket'[c] = "open", state'[c].listed, state'[c].authenticated,
             beat' - state'[c].lastPong >= PongTimeout
      PROVE  c \in asked'
  <2>1. c \notin Silent /\ state'[c] = state[c] /\ socket[c] = "open"
    BY <1>1, <1>2, <1>3 DEF ClientState
  <2>2. c \in Beating
    BY <1>3, <2>1 DEF Beating
  <2> QED BY <1>1, <2>1, <2>2
<1>4. ASSUME NEW c \in Silent, socket[c] = "open"
      PROVE  c \in slow' \cup lateAuth'
  <2>1. /\ c \in Clients /\ state[c].listed /\ state[c].authenticated
        /\ beat + 1 - state[c].lastPong > PongTimeout
    BY <1>4 DEF Silent, Beating
  <2>2. beat - state[c].lastPong >= PongTimeout
    BY <1>2, <2>1, WsAssumption
  <2> QED BY <1>1, <1>4, <2>1, <2>2 DEF WsInv, SilentWasAsked
<1>5. SilentWasAsked'
  BY <1>3 DEF SilentWasAsked
<1>6. LivingClientKept'
  BY <1>1, <1>4 DEF WsInv, LivingClientKept
<1> QED BY <1>5, <1>6

LEMMA WsInvStep == WsInv /\ [WsNext]_wsVars => WsInv'
<1> SUFFICES ASSUME WsInv, [WsNext]_wsVars PROVE WsInv'
  OBVIOUS
<1>0. WsTypes'
  BY WsTypesStep DEF WsInv
<1> SUFFICES SilentWasAsked' /\ LivingClientKept'
  BY <1>0 DEF WsInv
<1> USE WsAssumption, <1>0 DEF WsInv, WsTypes, SilentWasAsked, LivingClientKept, ClientState
<1>1. ASSUME NEW c \in Clients, Connection(c) PROVE SilentWasAsked' /\ LivingClientKept'
  BY <1>1 DEF Connection
<1>2. ASSUME NEW c \in Clients, Authenticate(c) PROVE SilentWasAsked' /\ LivingClientKept'
  <2>1. LivingClientKept'
    BY <1>2 DEF Authenticate
  <2>2. SilentWasAsked'
    BY <1>2 DEF Authenticate
  <2> QED BY <2>1, <2>2
<1>3. ASSUME NEW c \in Clients, Pong(c) PROVE SilentWasAsked' /\ LivingClientKept'
  BY <1>3 DEF Pong
<1>4. ASSUME NEW c \in Clients, Closed(c) PROVE SilentWasAsked' /\ LivingClientKept'
  BY <1>4 DEF Closed
<1>5. CASE Heartbeat
  BY <1>5, WsHeartbeatStep
<1>6. CASE StopServer
  BY <1>6 DEF StopServer
<1>7. CASE UNCHANGED wsVars
  BY <1>7 DEF wsVars
<1> QED
  BY <1>1, <1>2, <1>3, <1>4, <1>5, <1>6, <1>7 DEF WsNext

(* The clients' records keep their types. *)
THEOREM WsTypeCorrect == WsSpec => []WsTypes
<1>1. WsInv => WsTypes
  BY DEF WsInv
<1> QED
  BY <1>1, WsInitInv, WsInvStep, PTL DEF WsSpec

(* comms/ws-server.ts closes for silence only clients that left a ping     *)
(* unanswered for a whole interval or authenticated too late.              *)
THEOREM LivingClientKeptCorrect == WsSpec => []LivingClientKept
<1>1. WsInv => LivingClientKept
  BY DEF WsInv
<1> QED
  BY <1>1, WsInitInv, WsInvStep, PTL DEF WsSpec
-----------------------------------------------------------------------------
(* Daemon.tla *)

(* A program that has not begun or is gone does nothing; one that runs     *)
(* holds the lock; signals are heard, and so shutdowns begun, only when it *)
(* is ready.                                                               *)
Resting == timers = {} /\ chain = << >> /\ turn = FALSE /\ listening = FALSE /\ check = 0

DaemonInv ==
    /\ pc \in {"boot", "connecting", "ready", "gone"}
    /\ pc \in {"boot", "gone"} => Resting
    /\ pc \in {"connecting", "ready"} => lock
    /\ pc # "ready" => listening = FALSE /\ shutdowns = << >>

LEMMA DaemonInitInv == DaemonInit => DaemonInv
  BY DEF DaemonInit, DaemonInv, Resting

LEMMA GoneIsQuiet == Gone => DaemonInv'
  BY DEF Gone, DaemonInv, Resting

LEMMA DaemonInvStep == DaemonInv /\ [DaemonNext]_daemonVars => DaemonInv'
<1> SUFFICES ASSUME DaemonInv, [DaemonNext]_daemonVars PROVE DaemonInv'
  OBVIOUS
<1>1. ASSUME NEW enabled \in BOOLEAN, Boot(enabled) PROVE DaemonInv'
  BY <1>1 DEF Boot, DaemonInv, Resting
<1>2. CASE Refuse \/ LoginFails
  BY <1>2, GoneIsQuiet DEF Refuse, LoginFails
<1>3. CASE Connected
  BY <1>3 DEF Connected, DaemonInv, Resting
<1>4. ASSUME NEW j \in Jobs, JobFires(j) PROVE DaemonInv'
  BY <1>4 DEF JobFires, Running, DaemonInv, Resting
<1>5. CASE JobEnds
  BY <1>5 DEF JobEnds, DaemonInv, Resting
<1>6. CASE TickBegins
  BY <1>6 DEF TickBegins, Running, DaemonInv, Resting
<1>7. CASE EvaluateGate
  <2>1. pc \in {"connecting", "ready"}
    BY <1>7 DEF EvaluateGate, DaemonInv, Resting
  <2> QED BY <1>7, <2>1 DEF EvaluateGate, DaemonInv
<1>8. CASE MessageArrives \/ TurnEnds
  BY <1>8 DEF MessageArrives, TurnEnds, DaemonInv, Resting
<1>9. CASE Signal
  BY <1>9 DEF Signal, DaemonInv, Resting
<1>10. ASSUME NEW i \in DOMAIN shutdowns, StopAll(i) \/ Disconnected(i) PROVE DaemonInv'
  <2>1. shutdowns # << >>
    BY <1>10
  <2>2. pc = "ready"
    BY <2>1 DEF DaemonInv
  <2> QED BY <1>10, <2>2 DEF StopAll, Disconnected, DaemonInv
<1>11. ASSUME NEW i \in DOMAIN shutdowns, Release(i) PROVE DaemonInv'
  BY <1>11, GoneIsQuiet DEF Release
<1>12. CASE UNCHANGED daemonVars
  BY <1>12 DEF daemonVars, DaemonInv, Resting
<1> QED
  BY <1>1, <1>2, <1>3, <1>4, <1>5, <1>6, <1>7, <1>8, <1>9, <1>10, <1>11, <1>12 DEF DaemonNext

(* While anything of the process can still work, its lock is held          *)
(* (index.ts:350), for any jobs, gates and signals.                        *)
THEOREM LockCoversWorkCorrect == DaemonSpec => []LockCoversWork
<1>1. DaemonInv => LockCoversWork
  BY DEF DaemonInv, Resting, LockCoversWork
<1> QED
  BY <1>1, DaemonInitInv, DaemonInvStep, PTL DEF DaemonSpec
-----------------------------------------------------------------------------
(* Failover.tla *)

(* A call was made in the past, and while it tries, waits for or charges a *)
(* provider it is one of the list.                                         *)
CallsSane ==
    \A c \in Callers :
        /\ call[c].now <= instant
        /\ call[c].pc \in {"trying", "sleeping", "failing"} => call[c].provider \in Providers

(* The cooldown a provider was last given is in force, over, or was taken *)
(* away by a sleeper.                                                      *)
PenaltyStands ==
    \A p \in Providers : p \in reset \/ penalty[p] <= instant \/ cooldownUntil[p] = penalty[p]

FailoverInv == FailoverTypes /\ CallsSane /\ PenaltyStands

(* Priorities are natural numbers. *)
LEMMA ProvidersNat == Providers \subseteq Nat
<1>1. Cardinality(Providers) \in Nat
  BY FailoverAssumption, FS_CardinalityType
<1> QED BY <1>1, FailoverAssumption

LEMMA FailoverInitInv == FailoverInit => FailoverInv
  BY ProvidersNat DEF FailoverInit, FailoverInv, FailoverTypes, CallsSane, PenaltyStands, NotCalled, Call

(* The types, with what a step can change. *)
LEMMA FailoverTypesStep ==
    FailoverInv /\ [FailoverNext]_failoverVars => FailoverTypes'
<1> SUFFICES ASSUME FailoverInv, [FailoverNext]_failoverVars PROVE FailoverTypes'
  OBVIOUS
<1>0. /\ FailoverTypes
      /\ \A c \in Callers : call[c] \in Call
      /\ \A c \in Callers : call[c].pc \in {"trying", "sleeping", "failing"} => call[c].provider \in Providers
  BY DEF FailoverInv, FailoverTypes, CallsSane
<1>1. ASSUME NEW c \in Callers, Execute(c) PROVE FailoverTypes'
  <2>1. [call[c] EXCEPT !.pc = "pick", !.now = instant] \in Call
    BY <1>0 DEF Call, FailoverTypes
  <2>2. call' = [call EXCEPT ![c] = [call[c] EXCEPT !.pc = "pick", !.now = instant]]
    BY <1>0, <1>1 DEF Execute, FailoverTypes
  <2> QED BY <1>0, <1>1, <2>1, <2>2 DEF Execute, FailoverTypes
<1>2. ASSUME NEW c \in Callers, TryProvider(c) PROVE FailoverTypes'
  <2>1. PICK p \in Available(c) :
            /\ call' = [call EXCEPT ![c].pc = "trying", ![c].provider = p, ![c].tried = @ \cup {p}]
            /\ early' = IF instant < penalty[p] THEN early \cup {p} ELSE early
    BY <1>2 DEF TryProvider
  <2>2. p \in Providers
    BY DEF Available, Untried
  <2>3. [call[c] EXCEPT !.pc = "trying", !.provider = p, !.tried = @ \cup {p}] \in Call
    BY <1>0, <2>2 DEF Call
  <2>4. call' = [call EXCEPT ![c] = [call[c] EXCEPT !.pc = "trying", !.provider = p, !.tried = @ \cup {p}]]
    BY <1>0, <2>1 DEF FailoverTypes
  <2>5. call' \in [Callers -> Call]
    BY <1>0, <2>3, <2>4 DEF FailoverTypes
  <2>6. early' \subseteq Providers
    BY <1>0, <2>1, <2>2 DEF FailoverTypes
  <2> QED BY <1>0, <1>2, <2>5, <2>6 DEF TryProvider, FailoverTypes
<1>3. ASSUME NEW c \in Callers, SleepUntilCooled(c) PROVE FailoverTypes'
  <2>1. PICK p \in findEarliestCooldownProvider(c) :
            call' = [call EXCEPT ![c].pc = "sleeping", ![c].provider = p,
                                 ![c].until = instant + (cooldownUntil[p] - call[c].now)]
    BY <1>3 DEF SleepUntilCooled
  <2>2. p \in Untried(c) /\ p \in Providers
    BY DEF findEarliestCooldownProvider, Untried
  <2>3. /\ cooldownUntil[p] \in Nat /\ call[c].now \in Nat /\ instant \in Nat
        /\ ~(cooldownUntil[p] <= call[c].now)
    BY <1>0, <1>3, <2>2 DEF SleepUntilCooled, Available, FailoverTypes, Call
  <2> DEFINE wake == instant + (cooldownUntil[p] - call[c].now)
  <2>4. wake \in Nat
    BY <2>3
  <2> HIDE DEF wake
  <2>5. [call[c] EXCEPT !.pc = "sleeping", !.provider = p, !.until = wake] \in Call
    BY <1>0, <2>2, <2>4 DEF Call
  <2>6. call' = [call EXCEPT ![c] = [call[c] EXCEPT !.pc = "sleeping", !.provider = p, !.until = wake]]
    BY <1>0, <2>1 DEF FailoverTypes, wake
  <2> QED BY <1>0, <1>3, <2>5, <2>6 DEF SleepUntilCooled, FailoverTypes
<1>4. ASSUME NEW c \in Callers, WakeUp(c) PROVE FailoverTypes'
  <2> DEFINE p == call[c].provider
  <2>1. p \in Providers
    BY <1>0, <1>4 DEF WakeUp
  <2>2. [call[c] EXCEPT !.pc = "pick", !.tried = @ \ {p}] \in Call
    BY <1>0 DEF Call
  <2>3. call' = [call EXCEPT ![c] = [call[c] EXCEPT !.pc = "pick", !.tried = @ \ {p}]]
    BY <1>0, <1>4 DEF WakeUp, FailoverTypes
  <2>4. failures' \in [Providers -> Nat] /\ cooldownUntil' \in [Providers -> Nat]
    BY <1>0, <1>4 DEF WakeUp, FailoverTypes
  <2>5. reset' \subseteq Providers
    BY <1>0, <1>4, <2>1 DEF WakeUp, FailoverTypes
  <2> QED BY <1>0, <1>4, <2>2, <2>3, <2>4, <2>5 DEF WakeUp, FailoverTypes
<1>5. ASSUME NEW c \in Callers, Succeeds(c) PROVE FailoverTypes'
  <2>1. [call[c] EXCEPT !.pc = "answered"] \in Call
    BY <1>0 DEF Call
  <2> QED BY <1>0, <1>5, <2>1 DEF Succeeds, FailoverTypes
<1>6. ASSUME NEW c \in Callers, Fails(c) PROVE FailoverTypes'
  <2>1. [call[c] EXCEPT !.pc = "failing"] \in Call
    BY <1>0 DEF Call
  <2>2. call[c].provider \in Providers
    BY <1>0, <1>6 DEF Fails
  <2>3. failures' \in [Providers -> Nat]
    BY <1>0, <1>6, <2>2 DEF Fails, FailoverTypes
  <2> QED BY <1>0, <1>6, <2>1, <2>3 DEF Fails, FailoverTypes
<1>7. ASSUME NEW c \in Callers, Penalise(c) PROVE FailoverTypes'
  <2>1. [call[c] EXCEPT !.pc = "pick"] \in Call
    BY <1>0 DEF Call
  <2>2. instant + Cooldown \in Nat
    BY <1>0, FailoverAssumption DEF FailoverTypes
  <2> DEFINE until == instant + Cooldown
  <2>3. /\ cooldownUntil' \in [Providers -> Nat]
        /\ penalty' \in [Providers -> Nat]
        /\ reset' \subseteq Providers
    <3>1. until \in Nat
      BY <2>2
    <3> HIDE DEF until
    <3>2. IF failures[call[c].provider] >= MaxFailures
          THEN /\ cooldownUntil' = [cooldownUntil EXCEPT ![call[c].provider] = until]
               /\ penalty' = [penalty EXCEPT ![call[c].provider] = until]
               /\ reset' = reset \ {call[c].provider}
          ELSE UNCHANGED <<cooldownUntil, penalty, reset>>
      BY <1>7 DEF Penalise, until
    <3> QED BY <1>0, <3>1, <3>2 DEF FailoverTypes
  <2> QED BY <1>0, <1>7, <2>1, <2>3 DEF Penalise, FailoverTypes
<1>8. ASSUME NEW c \in Callers, GiveUp(c) PROVE FailoverTypes'
  <2>1. [call[c] EXCEPT !.pc = "rejected"] \in Call
    BY <1>0 DEF Call
  <2> QED BY <1>0, <1>8, <2>1 DEF GiveUp, FailoverTypes
<1>9. CASE Elapse
  BY <1>0, <1>9 DEF Elapse, FailoverTypes
<1>10. CASE UNCHANGED failoverVars
  BY <1>0, <1>10 DEF failoverVars, FailoverTypes
<1> QED
  BY <1>1, <1>2, <1>3, <1>4, <1>5, <1>6, <1>7, <1>8, <1>9, <1>10 DEF FailoverNext

(* Calls stay in the past, and a call keeps to the list. *)
LEMMA CallsSaneStep ==
    FailoverInv /\ [FailoverNext]_failoverVars => CallsSane'
<1> SUFFICES ASSUME FailoverInv, [FailoverNext]_failoverVars, NEW d \in Callers
             PROVE  /\ call'[d].now <= instant'
                    /\ call'[d].pc \in {"trying", "sleeping", "failing"} => call'[d].provider \in Providers
  BY DEF CallsSane
<1> DEFINE Goal == /\ call'[d].now <= instant'
                   /\ call'[d].pc \in {"trying", "sleeping", "failing"} => call'[d].provider \in Providers
<1> SUFFICES Goal
  OBVIOUS
<1>0. /\ call \in [Callers -> Call] /\ call[d] \in Call /\ instant \in Nat
      /\ call[d].now <= instant
      /\ call[d].pc \in {"trying", "sleeping", "failing"} => call[d].provider \in Providers
  BY DEF FailoverInv, FailoverTypes, CallsSane
<1> USE <1>0 DEF Call
<1>1. ASSUME NEW c \in Callers, Execute(c) PROVE Goal
  BY <1>1 DEF Execute
<1>2. ASSUME NEW c \in Callers, TryProvider(c) PROVE Goal
  BY <1>2 DEF TryProvider, Available, Untried
<1>3. ASSUME NEW c \in Callers, SleepUntilCooled(c) PROVE Goal
  BY <1>3 DEF SleepUntilCooled, findEarliestCooldownProvider, Untried
<1>4. ASSUME NEW c \in Callers, WakeUp(c) PROVE Goal
  BY <1>4 DEF WakeUp
<1>5. ASSUME NEW c \in Callers, Succeeds(c) PROVE Goal
  BY <1>5 DEF Succeeds
<1>6. ASSUME NEW c \in Callers, Fails(c) PROVE Goal
  BY <1>6 DEF Fails
<1>7. ASSUME NEW c \in Callers, Penalise(c) PROVE Goal
  BY <1>7 DEF Penalise
<1>8. ASSUME NEW c \in Callers, GiveUp(c) PROVE Goal
  BY <1>8 DEF GiveUp
<1>9. CASE Elapse
  BY <1>9 DEF Elapse
<1>10. CASE UNCHANGED failoverVars
  BY <1>10 DEF failoverVars
<1> QED
  BY <1>1, <1>2, <1>3, <1>4, <1>5, <1>6, <1>7, <1>8, <1>9, <1>10 DEF FailoverNext

(* The penalty of a provider stands until it is over or a sleeper takes it away. *)
LEMMA PenaltyStandsStep ==
    FailoverInv /\ [FailoverNext]_failoverVars => PenaltyStands'
<1> SUFFICES ASSUME FailoverInv, [FailoverNext]_failoverVars, NEW q \in Providers
             PROVE  q \in reset' \/ penalty'[q] <= instant' \/ cooldownUntil'[q] = penalty'[q]
  BY DEF PenaltyStands
<1> DEFINE Stands == q \in reset' \/ penalty'[q] <= instant' \/ cooldownUntil'[q] = penalty'[q]
<1> SUFFICES Stands
  OBVIOUS
<1>0. /\ q \in reset \/ penalty[q] <= instant \/ cooldownUntil[q] = penalty[q]
      /\ cooldownUntil \in [Providers -> Nat] /\ penalty \in [Providers -> Nat]
      /\ cooldownUntil[q] \in Nat /\ penalty[q] \in Nat /\ instant \in Nat
      /\ \A c \in Callers : call[c].pc \in {"sleeping", "failing"} => call[c].provider \in Providers
  BY DEF FailoverInv, FailoverTypes, PenaltyStands, CallsSane
<1>1. ASSUME NEW c \in Callers, Execute(c) \/ TryProvider(c) \/ SleepUntilCooled(c) \/ Succeeds(c)
                                 \/ Fails(c) \/ GiveUp(c)
      PROVE  Stands
  <2>1. UNCHANGED <<instant, cooldownUntil, penalty, reset>>
    BY <1>1 DEF Execute, TryProvider, SleepUntilCooled, Succeeds, Fails, GiveUp
  <2> QED BY <1>0, <2>1
<1>2. ASSUME NEW c \in Callers, WakeUp(c) PROVE Stands
  <2>1. CASE q = call[c].provider
    BY <1>0, <1>2, <2>1 DEF WakeUp
  <2>2. CASE q # call[c].provider
    <3>1. cooldownUntil'[q] = cooldownUntil[q] /\ penalty' = penalty /\ instant' = instant
          /\ (q \in reset => q \in reset')
      BY <1>0, <1>2, <2>2 DEF WakeUp
    <3> QED BY <1>0, <3>1
  <2> QED BY <2>1, <2>2
<1>3. ASSUME NEW c \in Callers, Penalise(c) PROVE Stands
  <2>1. CASE failures[call[c].provider] >= MaxFailures /\ q = call[c].provider
    BY <1>0, <1>3, <2>1 DEF Penalise
  <2>2. CASE failures[call[c].provider] >= MaxFailures /\ q # call[c].provider
    BY <1>0, <1>3, <2>2 DEF Penalise
  <2>3. CASE ~(failures[call[c].provider] >= MaxFailures)
    BY <1>0, <1>3, <2>3 DEF Penalise
  <2> QED BY <2>1, <2>2, <2>3
<1>4. CASE Elapse
  BY <1>0, <1>4 DEF Elapse
<1>5. CASE UNCHANGED failoverVars
  BY <1>0, <1>5 DEF failoverVars
<1> QED
  BY <1>1, <1>2, <1>3, <1>4, <1>5 DEF FailoverNext

(* Every step keeps the types, the calls and the penalties. *)
LEMMA FailoverInvStep ==
    FailoverInv /\ [FailoverNext]_failoverVars => FailoverInv'
BY FailoverTypesStep, CallsSaneStep, PenaltyStandsStep DEF FailoverInv

(* A step that tries a provider inside its cooldown follows a sleeper's reset: *)
(* the provider counted as available when the call was made.                   *)
LEMMA EarlyStep ==
    FailoverInv /\ [FailoverNext]_failoverVars
      => \A p \in Providers : p \in early' \ early => p \in reset
<1> SUFFICES ASSUME FailoverInv, [FailoverNext]_failoverVars,
                    NEW p \in Providers, p \in early' \ early
             PROVE  p \in reset
  OBVIOUS
<1>1. PICK c \in Callers : TryProvider(c)
  BY DEF FailoverNext, failoverVars, Execute, SleepUntilCooled, WakeUp, Succeeds, Fails,
         Penalise, GiveUp, Elapse
<1>2. p \in Available(c) /\ instant < penalty[p]
  BY <1>1 DEF TryProvider
<1>3. cooldownUntil[p] <= call[c].now /\ call[c].now <= instant
  BY <1>2 DEF Available, FailoverInv, CallsSane
<1>4. /\ cooldownUntil[p] \in Nat /\ penalty[p] \in Nat
      /\ call[c].now \in Nat /\ instant \in Nat
  BY DEF FailoverInv, FailoverTypes, Call
<1> QED
  BY <1>2, <1>3, <1>4 DEF FailoverInv, PenaltyStands

(* The clock, the providers and the calls keep their types. *)
THEOREM FailoverTypeCorrect == FailoverSpec => []FailoverTypes
<1>1. FailoverInv => FailoverTypes
  BY DEF FailoverInv
<1> QED
  BY <1>1, FailoverInitInv, FailoverInvStep, PTL DEF FailoverSpec

(* No provider is tried inside its cooldown (executor/failover.ts:3) unless a *)
(* call that had slept through an earlier one cleared it.                     *)
THEOREM CooldownKeptCorrect == FailoverSpec => CooldownKept
<1>1. FailoverInv /\ [FailoverNext]_failoverVars
        => [\A p \in Providers : p \in early' \ early => p \in reset]_failoverVars
  BY EarlyStep
<1> QED
  BY <1>1, FailoverInitInv, FailoverInvStep, PTL DEF FailoverSpec, CooldownKept
-----------------------------------------------------------------------------
(* CliExecutor.tla *)

CliTypes ==
    /\ launch \in Nat /\ launch <= MaxRetries + 1
    /\ outcome \in {"running", "resolved", "rejected", "retry"}
    /\ child \in [Attempts -> [pc: {"none", "running", "unspawned", "closed"}, lines: Nat,
                               partial: BOOLEAN, term: BOOLEAN]]
    /\ process \in Nat
    /\ killed \in BOOLEAN

(* A child that is not closed yet is the latest attempt's and in the field; *)
(* while withRetry pauses there is none; and one that was killed through    *)
(* the field knows it.                                                      *)
OneChild ==
    \A a \in Attempts :
        /\ child[a].pc \in {"running", "unspawned"} => a = launch /\ process = a /\ outcome # "retry"
        /\ child[a].pc = "running" /\ killed => child[a].term

CliInv == CliTypes /\ OneChild /\ NoOrphan

LEMMA CliInitInv == CliInit => CliInv
<1> SUFFICES ASSUME CliInit PROVE CliInv
  OBVIOUS
<1>1. NoChild \in [pc: {"none", "running", "unspawned", "closed"}, lines: Nat, partial: BOOLEAN, term: BOOLEAN]
  BY DEF NoChild
<1>2. \A a \in Attempts : child[a].pc = "none"
  BY DEF CliInit, NoChild
<1>3. 0 <= MaxRetries + 1
  BY CliAssumption
<1>4. CliTypes
  BY <1>1, <1>3 DEF CliInit, CliTypes
<1> QED BY <1>2, <1>4 DEF CliInv, OneChild, NoOrphan

(* Whatever a step prints, the rest stays as it is. *)
LEMMA PrintingKeeps ==
    ASSUME CliInv, NEW a \in Attempts, Prints(a) \/ PrintsPart(a)
    PROVE  CliInv'
<1>1. /\ UNCHANGED <<launch, outcome, process, killed>>
      /\ \/ child' = [child EXCEPT ![a].lines = @ + 1]
         \/ child' = [child EXCEPT ![a].lines = @ + 1, ![a].partial = TRUE]
  BY DEF Prints, PrintsPart
<1>2. child' \in [Attempts -> [pc: {"none", "running", "unspawned", "closed"}, lines: Nat,
                               partial: BOOLEAN, term: BOOLEAN]]
  BY <1>1 DEF CliInv, CliTypes
<1>3. \A b \in Attempts : child'[b].pc = child[b].pc /\ child'[b].term = child[b].term
  BY <1>1 DEF CliInv, CliTypes
<1> QED BY <1>1, <1>2, <1>3 DEF CliInv, CliTypes, OneChild, NoOrphan

LEMMA CliInvStep == CliInv /\ [CliNext]_cliVars => CliInv'
<1> SUFFICES ASSUME CliInv, [CliNext]_cliVars PROVE CliInv'
  OBVIOUS
<1> DEFINE Child == [pc: {"none", "running", "unspawned", "closed"}, lines: Nat,
                     partial: BOOLEAN, term: BOOLEAN]
<1>1. CASE Spawn
  <2>1. launch + 1 \in Attempts /\ launch' = launch + 1 /\ process' = launch + 1
    BY <1>1, CliAssumption DEF Spawn, Attempts, CliInv, CliTypes
  <2>2. child' = [child EXCEPT ![launch + 1].pc = "running"] /\ killed' = FALSE
        /\ outcome = "retry" /\ outcome' = "running"
    BY <1>1 DEF Spawn
  <2>3. child' \in [Attempts -> Child]
    BY <2>1, <2>2 DEF CliInv, CliTypes
  <2>4. \A b \in Attempts : b # launch + 1 => child'[b] = child[b]
    BY <2>1, <2>2 DEF CliInv, CliTypes
  <2>5. \A b \in Attempts : b # launch + 1 => child'[b].pc \notin {"running", "unspawned"}
    BY <2>2, <2>4 DEF CliInv, OneChild
  <2>6. OneChild' /\ NoOrphan'
    BY <2>1, <2>2, <2>5 DEF OneChild, NoOrphan
  <2>7. launch' \in Nat /\ launch' <= MaxRetries + 1 /\ process' \in Nat
    BY <2>1, CliAssumption DEF Attempts
  <2> QED BY <2>2, <2>3, <2>6, <2>7 DEF CliInv, CliTypes
<1>2. CASE Interrupted \/ ForceKill
  <2>1. /\ UNCHANGED <<launch, outcome, process>>
        /\ \/ killed' = TRUE /\ child' = [child EXCEPT ![process].term = TRUE]
           \/ UNCHANGED <<killed, child>>
    BY <1>2 DEF Interrupted, Kill, ForceKill
  <2>2. child' \in [Attempts -> Child] /\ killed' \in BOOLEAN
    BY <2>1 DEF CliInv, CliTypes
  <2>3. \A b \in Attempts : child'[b].pc = child[b].pc /\ (child[b].term => child'[b].term)
    BY <2>1 DEF CliInv, CliTypes
  <2>4. \A b \in Attempts : child[b].pc = "running" /\ killed' => child'[b].term
    <3> SUFFICES ASSUME NEW b \in Attempts, child[b].pc = "running", killed' PROVE child'[b].term
      OBVIOUS
    <3>1. process = b
      BY DEF CliInv, OneChild
    <3>2. CASE child' = [child EXCEPT ![process].term = TRUE]
      BY <3>1, <3>2 DEF CliInv, CliTypes
    <3>3. CASE UNCHANGED <<killed, child>>
      BY <3>3 DEF CliInv, OneChild
    <3> QED BY <2>1, <3>2, <3>3
  <2> QED BY <2>1, <2>2, <2>3, <2>4 DEF CliInv, CliTypes, OneChild, NoOrphan
<1>3. ASSUME NEW a \in Attempts, Prints(a) \/ PrintsPart(a) PROVE CliInv'
  BY <1>3, PrintingKeeps
<1>4. ASSUME NEW a \in Attempts, TimesOut(a) PROVE CliInv'
  <2>1. /\ UNCHANGED <<launch, process>> /\ child[a].pc = "running" /\ process = a
        /\ \/ killed' = TRUE /\ child' = [child EXCEPT ![a].term = TRUE]
           \/ (killed \/ process = 0) /\ UNCHANGED <<killed, child>>
        /\ outcome' \in {"rejected", outcome}
    BY <1>4 DEF TimesOut, Kill, Reject, CliInv, OneChild
  <2>2. a # 0
    BY CliAssumption DEF Attempts
  <2>3. child' \in [Attempts -> Child] /\ killed' \in BOOLEAN
    BY <2>1 DEF CliInv, CliTypes
  <2>4. \A b \in Attempts : child'[b].pc = child[b].pc /\ (child[b].term => child'[b].term)
    BY <2>1 DEF CliInv, CliTypes
  <2>5. \A b \in Attempts : child[b].pc = "running" => b = a
    BY <2>1 DEF CliInv, OneChild
  <2>6. child'[a].term
    BY <2>1, <2>2 DEF CliInv, CliTypes, OneChild
  <2>7. OneChild' /\ NoOrphan'
    BY <2>1, <2>4, <2>5, <2>6 DEF CliInv, OneChild, NoOrphan
  <2> QED BY <2>1, <2>3, <2>7 DEF CliInv, CliTypes
<1>5. ASSUME NEW a \in Attempts, Closes(a) PROVE CliInv'
  <2>1. /\ child[a].pc \in {"running", "unspawned"}
        /\ child' = [child EXCEPT ![a].pc = "closed"]
        /\ process' = 0 /\ UNCHANGED <<launch, killed>>
    BY <1>5 DEF Closes
  <2>2. outcome' \in {"running", "resolved", "rejected", "retry"}
    BY <1>5 DEF Closes, Reject, Resolve, CliInv, CliTypes
  <2>3. child' \in [Attempts -> Child]
    BY <2>1 DEF CliInv, CliTypes
  <2>4. \A b \in Attempts : child'[b].pc \notin {"running", "unspawned"}
    BY <2>1 DEF CliInv, CliTypes, OneChild
  <2>5. OneChild' /\ NoOrphan'
    BY <2>4 DEF OneChild, NoOrphan
  <2> QED BY <2>1, <2>2, <2>3, <2>5 DEF CliInv, CliTypes
<1>6. ASSUME NEW a \in Attempts, SpawnFails(a) PROVE CliInv'
  <2>1. /\ child[a].pc = "running"
        /\ child' = [child EXCEPT ![a].pc = "unspawned"]
        /\ UNCHANGED <<launch, process, killed>>
        /\ outcome' \in {"rejected", outcome}
    BY <1>6 DEF SpawnFails, Reject
  <2>2. child' \in [Attempts -> Child]
    BY <2>1 DEF CliInv, CliTypes
  <2>3. child'[a].pc = "unspawned" /\ \A b \in Attempts : b # a => child'[b].pc = child[b].pc
    BY <2>1 DEF CliInv, CliTypes
  <2>4. \A b \in Attempts : b # a => child[b].pc \notin {"running", "unspawned"}
    BY <2>1 DEF CliInv, OneChild
  <2>5. OneChild' /\ NoOrphan'
    BY <2>1, <2>3, <2>4 DEF CliInv, OneChild, NoOrphan
  <2> QED BY <2>1, <2>2, <2>5 DEF CliInv, CliTypes
<1>7. CASE UNCHANGED cliVars
  BY <1>7 DEF cliVars, CliInv, CliTypes, OneChild, NoOrphan
<1> QED
  BY <1>1, <1>2, <1>3, <1>4, <1>5, <1>6, <1>7 DEF CliNext

(* The processes of an execution keep their types. *)
THEOREM CliTypeCorrect == CliSpec => []CliTypes
<1>1. CliInv => CliTypes
  BY DEF CliInv
<1> QED
  BY <1>1, CliInitInv, CliInvStep, PTL DEF CliSpec

(* No process of the Claude CLI runs unseen by kill, nor untold once its   *)
(* execution has settled (executor/auth-executor.ts:79, 88, 98).           *)
THEOREM NoOrphanCorrect == CliSpec => []NoOrphan
<1>1. CliInv => NoOrphan
  BY DEF CliInv
<1> QED
  BY <1>1, CliInitInv, CliInvStep, PTL DEF CliSpec
-----------------------------------------------------------------------------
(* Provider.tla *)

Refusal == [when : Int, why : {"none"} \cup RotateReasons]

ProviderTypes ==
    /\ time \in Nat /\ began \in Nat /\ refusals \in Nat
    /\ keyStatus \in [Keys -> {"active", "cooling", "disabled"}]
    /\ coolUntil \in [Keys -> Nat]
    /\ refusedAt \in [Keys -> Refusal]
    /\ current \in Keys /\ live = current
    /\ began <= time

(* A key cools for the cooldown of its last refusal, is back after it at the *)
(* earliest, and one that was billed out or revoked stays disabled.          *)
StatusSound ==
    \A k \in Keys :
        /\ keyStatus[k] = "cooling" =>
             /\ refusedAt[k].why = "rate_limit"
             /\ coolUntil[k] = refusedAt[k].when + KeyCooldown
        /\ refusedAt[k].why = "rate_limit" =>
             keyStatus[k] = "cooling" \/ refusedAt[k].when + KeyCooldown <= time
        /\ refusedAt[k].why \in {"billing", "auth"} => keyStatus[k] = "disabled"

(* The key in use is barred only when the pool had no other. *)
SparedOrSpent == Barred(current) => current \in spent

(* Keys that are out since the turn or the attempt began. *)
Out == {k \in Keys : keyStatus[k] # "active" /\ refusedAt[k].when >= began}

(* Until a cooldown is over, each refusal has put another key out. *)
RefusalsCounted ==
    \/ time - began >= KeyCooldown
    \/ refusals <= Cardinality(Out) /\ (refusals = 0 \/ current \notin Out)

ProviderInv == ProviderTypes /\ StatusSound /\ SparedOrSpent /\ RefusalsCounted

LEMMA KeysCounted ==
    ASSUME NEW S \in SUBSET Keys
    PROVE  /\ IsFiniteSet(S) /\ Cardinality(S) \in Nat /\ Cardinality(S) <= KeyCount
           /\ S # {} => Cardinality(S) > 0
<1>1. IsFiniteSet(Keys) /\ Cardinality(Keys) = KeyCount
  BY FS_Interval, ProviderAssumption DEF Keys
<1>2. IsFiniteSet(S) /\ Cardinality(S) \in Nat /\ Cardinality(S) <= KeyCount
  BY <1>1, FS_Subset, FS_CardinalityType
<1> QED BY <1>2, FS_EmptySet

LEMMA ProviderInitInv == ProviderInit => ProviderInv
<1> SUFFICES ASSUME ProviderInit PROVE ProviderInv
  OBVIOUS
<1>1. ProviderTypes
  BY ProviderAssumption DEF ProviderInit, ProviderTypes, Keys, Refusal, NeverRefused
<1>2. StatusSound /\ SparedOrSpent
  BY <1>1 DEF ProviderInit, StatusSound, SparedOrSpent, Barred, ProviderTypes
<1>3. RefusalsCounted
  <2>1. Cardinality(Out) \in Nat
    BY KeysCounted DEF Out
  <2> QED BY <2>1 DEF ProviderInit, RefusalsCounted
<1> QED BY <1>1, <1>2, <1>3 DEF ProviderInv

(* The next key, if there is one, is another one and active. *)
LEMMA NextIsActive ==
    ASSUME ProviderTypes, NEW reason \in RotateReasons, findNextActive(Marked(reason)) # NeverRefused
    PROVE  LET next == findNextActive(Marked(reason))
           IN  /\ next \in Keys /\ next # current
               /\ Refreshed[next] = "active"
<1> DEFINE states == Marked(reason)
           usable == {step \in 1..KeyCount : states[(current + step) % KeyCount] = "active"}
<1>1. usable # {}
  BY DEF findNextActive
<1>2. usable \in SUBSET Nat
  BY ProviderAssumption
<1>3. \E s \in usable : \A t \in usable : s <= t
  BY <1>1, <1>2, LeastNatural
<1> DEFINE s == CHOOSE s \in usable : \A t \in usable : s <= t
           next == (current + s) % KeyCount
<1>4. s \in usable
  BY <1>3
<1>5. findNextActive(states) = next
  BY <1>1 DEF findNextActive
<1> HIDE DEF usable
<1>6. s \in Nat /\ states[next] = "active"
  BY <1>2, <1>4 DEF usable
<1> HIDE DEF s
<1>7. next \in Keys
  BY <1>6, ProviderAssumption DEF ProviderTypes, Keys
<1> HIDE DEF next
<1>8. Refreshed \in [Keys -> {"active", "cooling", "disabled"}]
  BY DEF Refreshed, ProviderTypes
<1>9. next # current
  BY <1>6, <1>7, <1>8 DEF Marked, ProviderTypes
<1> QED BY <1>5, <1>6, <1>7, <1>8, <1>9 DEF Marked, ProviderTypes

(* A refusal of the key in use, with another key to go on with or without. *)
LEMMA RotateStep ==
    ASSUME ProviderInv, NEW reason \in RotateReasons, Rotate(reason), time' = time
    PROVE  ProviderInv'
<1>0. ProviderTypes /\ StatusSound /\ KeyCooldown \in Nat \ {0} /\ current \in Keys /\ live = current
  BY ProviderAssumption DEF ProviderInv, ProviderTypes
<1>1. /\ keyStatus' = [Refreshed EXCEPT ![current] = IF reason = "rate_limit" THEN "cooling" ELSE "disabled"]
      /\ coolUntil' = IF reason = "rate_limit" THEN [coolUntil EXCEPT ![current] = time + KeyCooldown]
                      ELSE coolUntil
      /\ refusedAt' = [refusedAt EXCEPT ![current] = [when |-> time, why |-> reason]]
  BY <1>0 DEF Rotate, Marked
<1>2. Refreshed \in [Keys -> {"active", "cooling", "disabled"}]
  BY <1>0 DEF Refreshed, ProviderTypes
<1>3. \A k \in Keys \ {current} :
          keyStatus'[k] = Refreshed[k] /\ refusedAt'[k] = refusedAt[k] /\ coolUntil'[k] = coolUntil[k]
  BY <1>0, <1>1, <1>2 DEF ProviderTypes
<1>4. /\ keyStatus'[current] = IF reason = "rate_limit" THEN "cooling" ELSE "disabled"
      /\ refusedAt'[current] = [when |-> time, why |-> reason]
      /\ reason = "rate_limit" => coolUntil'[current] = time + KeyCooldown
  BY <1>0, <1>1, <1>2 DEF ProviderTypes
<1>5. /\ keyStatus' \in [Keys -> {"active", "cooling", "disabled"}]
      /\ coolUntil' \in [Keys -> Nat]
      /\ refusedAt' \in [Keys -> Refusal]
  <2>1. time + KeyCooldown \in Nat
    BY <1>0 DEF ProviderTypes
  <2>2. [when |-> time, why |-> reason] \in Refusal
    BY <1>0 DEF ProviderTypes, Refusal
  <2>3. refusedAt' \in [Keys -> Refusal]
    BY <1>0, <1>1, <2>2 DEF ProviderTypes
  <2> QED BY <1>0, <1>1, <1>2, <2>1, <2>3 DEF ProviderTypes
<1>6. StatusSound'
  <2> SUFFICES ASSUME NEW k \in Keys
               PROVE  /\ keyStatus'[k] = "cooling" =>
                           /\ refusedAt'[k].why = "rate_limit"
                           /\ coolUntil'[k] = refusedAt'[k].when + KeyCooldown
                      /\ refusedAt'[k].why = "rate_limit" =>
                           keyStatus'[k] = "cooling" \/ refusedAt'[k].when + KeyCooldown <= time
                      /\ refusedAt'[k].why \in {"billing", "auth"} => keyStatus'[k] = "disabled"
    BY DEF StatusSound
  <2>1. CASE k = current
    BY <1>4, <2>1 DEF RotateReasons
  <2>2. CASE k # current
    BY <1>0, <1>3, <2>2 DEF StatusSound, Refreshed
  <2> QED BY <2>1, <2>2
<1>7. CASE findNextActive(Marked(reason)) = NeverRefused
  <2>1. current' = current /\ live' = live /\ refusals' = 0 /\ began' = time /\ spent' = spent \cup {live}
    BY <1>7 DEF Rotate, Throw
  <2>2. ProviderTypes'
    BY <1>0, <1>5, <2>1 DEF ProviderTypes
  <2>3. SparedOrSpent'
    BY <1>0, <2>1 DEF SparedOrSpent
  <2>4. Cardinality(Out)' \in Nat
    BY KeysCounted DEF Out
  <2> QED BY <1>6, <2>1, <2>2, <2>3, <2>4 DEF ProviderInv, RefusalsCounted
<1>8. CASE findNextActive(Marked(reason)) # NeverRefused
  <2> DEFINE next == findNextActive(Marked(reason))
  <2>1. current' = next /\ live' = next /\ refusals' = refusals + 1 /\ began' = began
    BY <1>8 DEF Rotate
  <2>2. next \in Keys /\ next # current /\ Refreshed[next] = "active"
    BY <1>0, <1>8, NextIsActive
  <2> HIDE DEF next
  <2>3. ProviderTypes'
    BY <1>0, <1>5, <2>1, <2>2 DEF ProviderTypes
  <2>4. refusedAt'[next] = refusedAt[next] /\ keyStatus'[next] = "active"
    BY <1>3, <2>2
  <2>5. ~Barred(current)'
    <3>1. ~(refusedAt[next].why \in {"billing", "auth"})
      BY <1>0, <2>2 DEF StatusSound, Refreshed
    <3>2. ~(refusedAt[next].why = "rate_limit" /\ time < refusedAt[next].when + KeyCooldown)
      <4>1. refusedAt[next] \in Refusal /\ time \in Nat
        BY <1>0, <2>2 DEF ProviderTypes
      <4> QED BY <1>0, <2>2, <4>1 DEF StatusSound, Refreshed, Refusal
    <3> QED BY <2>1, <2>4, <3>1, <3>2 DEF Barred
  <2>6. SparedOrSpent'
    BY <2>1, <2>5 DEF SparedOrSpent
  <2>7. RefusalsCounted'
    <3>1. CASE time - began >= KeyCooldown
      BY <2>1, <3>1 DEF RefusalsCounted
    <3>2. CASE ~(time - began >= KeyCooldown)
      <4>1. refusals <= Cardinality(Out) /\ (refusals = 0 \/ current \notin Out)
        BY <3>2 DEF ProviderInv, RefusalsCounted
      <4>2. Out' = Out \cup {current}
        <5>1. current \in Out'
          BY <1>0, <1>4, <2>1 DEF Out, ProviderTypes
        <5>2. ASSUME NEW k \in Keys \ {current} PROVE k \in Out' <=> k \in Out
          <6>1. /\ keyStatus'[k] = Refreshed[k] /\ refusedAt'[k] = refusedAt[k]
                /\ refusedAt[k] \in Refusal /\ time \in Nat /\ began \in Nat
            BY <1>0, <1>3 DEF ProviderTypes
          <6>2. ASSUME k \in Out PROVE Refreshed[k] # "active"
            BY <1>0, <3>2, <6>1, <6>2 DEF Out, StatusSound, Refreshed, Refusal
          <6>3. Refreshed[k] # "active" => keyStatus[k] # "active"
            BY DEF Refreshed
          <6> QED BY <2>1, <6>1, <6>2, <6>3 DEF Out
        <5> QED BY <1>0, <5>1, <5>2 DEF Out
      <4>3. /\ IsFiniteSet(Out) /\ Cardinality(Out) \in Nat
            /\ current \in Out => Cardinality(Out) > 0
        BY KeysCounted DEF Out
      <4>4. Cardinality(Out') = IF current \in Out THEN Cardinality(Out) ELSE Cardinality(Out) + 1
        BY <4>2, <4>3, FS_AddElement
      <4>5. refusals' <= Cardinality(Out')
        BY <1>0, <2>1, <4>1, <4>3, <4>4 DEF ProviderTypes
      <4>6. current' \notin Out'
        BY <2>1, <2>4 DEF Out
      <4> QED BY <4>5, <4>6 DEF RefusalsCounted
    <3> QED BY <3>1, <3>2
  <2> QED BY <1>6, <2>3, <2>6, <2>7 DEF ProviderInv
<1> QED BY <1>7, <1>8

(* A turn, an attempt or an execution begins. *)
LEMMA BeginsStep ==
    ASSUME ProviderInv, UNCHANGED <<time, poolVars>>, refusals' = 0, began' = time
    PROVE  ProviderInv'
<1>1. ProviderTypes' /\ StatusSound' /\ SparedOrSpent'
  BY DEF ProviderInv, ProviderTypes, StatusSound, SparedOrSpent, Barred, poolVars
<1>2. Cardinality(Out)' \in Nat
  BY KeysCounted DEF Out
<1> QED BY <1>1, <1>2 DEF ProviderInv, RefusalsCounted

(* Nothing of the pool moves and nothing begins. *)
LEMMA WaitsStep ==
    ASSUME ProviderInv, UNCHANGED <<time, poolVars, refusals, began>>
    PROVE  ProviderInv'
BY DEF ProviderInv, ProviderTypes, StatusSound, SparedOrSpent, Barred, RefusalsCounted, Out, poolVars

LEMMA AnsweredStep ==
    ASSUME ProviderInv, NEW wait, NEW cut, NEW last, Answered(wait, cut, last)
    PROVE  ProviderInv'
<1>0. ProviderTypes /\ StatusSound /\ current \in Keys /\ live = current
  BY DEF ProviderInv, ProviderTypes
<1>1. /\ keyStatus' = IF keyStatus[current] = "cooling" THEN [keyStatus EXCEPT ![current] = "active"] ELSE keyStatus
      /\ refusedAt' = [refusedAt EXCEPT ![current] = [when |-> NeverRefused, why |-> "none"]]
      /\ refusals' = 0 /\ began' = time /\ UNCHANGED <<time, coolUntil, current, live>>
  BY <1>0 DEF Answered
<1>2. [when |-> NeverRefused, why |-> "none"] \in Refusal
  BY DEF Refusal, NeverRefused
<1>3. ProviderTypes'
  BY <1>0, <1>1, <1>2 DEF ProviderTypes
<1>4. refusedAt'[current].why = "none" /\ keyStatus'[current] # "cooling"
  BY <1>0, <1>1 DEF ProviderTypes
<1>5. \A k \in Keys \ {current} : keyStatus'[k] = keyStatus[k] /\ refusedAt'[k] = refusedAt[k]
  BY <1>0, <1>1 DEF ProviderTypes
<1>6. StatusSound'
  <2> SUFFICES ASSUME NEW k \in Keys
               PROVE  /\ keyStatus'[k] = "cooling" =>
                           /\ refusedAt'[k].why = "rate_limit"
                           /\ coolUntil'[k] = refusedAt'[k].when + KeyCooldown
                      /\ refusedAt'[k].why = "rate_limit" =>
                           keyStatus'[k] = "cooling" \/ refusedAt'[k].when + KeyCooldown <= time
                      /\ refusedAt'[k].why \in {"billing", "auth"} => keyStatus'[k] = "disabled"
    BY <1>1 DEF StatusSound
  <2>1. CASE k = current
    BY <1>4, <2>1
  <2>2. CASE k # current
    BY <1>0, <1>1, <1>5, <2>2 DEF StatusSound
  <2> QED BY <2>1, <2>2
<1>7. SparedOrSpent'
  BY <1>1, <1>4 DEF SparedOrSpent, Barred
<1>8. Cardinality(Out)' \in Nat
  BY KeysCounted DEF Out
<1> QED BY <1>1, <1>3, <1>6, <1>7, <1>8 DEF ProviderInv, RefusalsCounted

LEMMA AdvanceStep ==
    ASSUME ProviderInv, Advance
    PROVE  ProviderInv'
<1>1. time' = time + 1 /\ UNCHANGED <<keyStatus, coolUntil, refusedAt, current, live, spent, refusals, began>>
  BY DEF Advance, poolVars
<1>2. time \in Nat /\ began \in Nat /\ KeyCooldown \in Nat /\ \A k \in Keys : refusedAt[k].when \in Int
  BY ProviderAssumption DEF ProviderInv, ProviderTypes, Refusal
<1>3. ProviderTypes'
  BY <1>1, <1>2 DEF ProviderInv, ProviderTypes
<1>4. StatusSound'
  BY <1>1, <1>2 DEF ProviderInv, StatusSound
<1>5. SparedOrSpent'
  <2>1. current \in Keys
    BY DEF ProviderInv, ProviderTypes
  <2> QED BY <1>1, <1>2, <2>1 DEF ProviderInv, SparedOrSpent, Barred
<1>6. RefusalsCounted'
  BY <1>1, <1>2 DEF ProviderInv, RefusalsCounted, Out
<1> QED BY <1>3, <1>4, <1>5, <1>6 DEF ProviderInv

LEMMA ProviderInvStep == ProviderInv /\ [ProviderNext]_providerVars => ProviderInv'
<1> SUFFICES ASSUME ProviderInv, [ProviderNext]_providerVars PROVE ProviderInv'
  OBVIOUS
<1>1. ASSUME ExecuteRequest PROVE ProviderInv'
  BY <1>1, BeginsStep DEF ExecuteRequest, poolVars
<1>2. ASSUME Backoff \/ Request \/ Awake PROVE ProviderInv'
  BY <1>2, WaitsStep DEF Backoff, Request, Awake, poolVars
<1>3. ASSUME NEW e \in ApiErrors, NEW wait \in Waits, Refused(e, wait) PROVE ProviderInv'
  <2>1. CASE UNCHANGED <<refusals, began, poolVars>>
    BY <1>3, <2>1, WaitsStep DEF Refused, poolVars
  <2>2. CASE classifyApiError(e) \in RotateReasons /\ Rotate(classifyApiError(e))
    BY <1>3, <2>2, RotateStep DEF Refused
  <2>3. CASE Throw(classifyApiError(e)) /\ UNCHANGED poolVars
    BY <1>3, <2>3, BeginsStep DEF Refused, Throw, poolVars
  <2> QED BY <1>3, <2>1, <2>2, <2>3 DEF Refused
<1>4. ASSUME NEW wait \in Waits, NEW cut \in BOOLEAN, NEW last \in BOOLEAN, Answered(wait, cut, last)
      PROVE  ProviderInv'
  BY <1>4, AnsweredStep
<1>5. ASSUME Advance PROVE ProviderInv'
  BY <1>5, AdvanceStep
<1>6. ASSUME UNCHANGED providerVars PROVE ProviderInv'
  BY <1>6, WaitsStep DEF providerVars, poolVars
<1> QED BY <1>1, <1>2, <1>3, <1>4, <1>5, <1>6 DEF ProviderNext

(* For any keys, waits and errors: a request is made with a barred key only  *)
(* when the pool had no other (executor/credential-pool.ts:9), and the loop  *)
(* of executor/api-executor.ts:513, which takes no turn, is refused at most  *)
(* once by each key until a whole cooldown has passed.                       *)
THEOREM KeysRotateCorrect == ProviderSpec => []KeysRotate
<1>1. ProviderInv => KeysRotate
  <2> SUFFICES ASSUME ProviderInv PROVE KeysRotate
    OBVIOUS
  <2>1. BarredKeySpared
    BY DEF ProviderInv, ProviderTypes, SparedOrSpent, BarredKeySpared
  <2>2. Cardinality(Out) \in Nat /\ Cardinality(Out) <= KeyCount
    BY KeysCounted DEF Out
  <2>3. RefusalsBounded
    BY <2>2, ProviderAssumption DEF ProviderInv, ProviderTypes, RefusalsCounted, RefusalsBounded
  <2> QED BY <2>1, <2>3 DEF KeysRotate
<1> QED
  BY <1>1, ProviderInitInv, ProviderInvStep, PTL DEF ProviderSpec
-----------------------------------------------------------------------------
(* StreamReply.tla *)

In(s) == {s[a] : a \in DOMAIN s}

EditRecord == [kind: {"timed", "tool", "final"}, msg: Nat, text: Seq(Nat), cursor: BOOLEAN]
StreamHandler ==
    [pc: {"new", "turn", "finalEdit", "closing", "done", "failed"}, msg: Nat, buf: Seq(Nat),
     sending: Seq(Seq(Nat)), stuck: BOOLEAN, timer: BOOLEAN, pending: BOOLEAN, fails: Nat,
     edits: Seq(EditRecord), listening: BOOLEAN]
Post == [by: Handlers, text: Seq(Nat), cursor: BOOLEAN]

StreamTypes ==
    /\ h \in [Handlers -> StreamHandler]
    /\ posts \in Seq(Post)
    /\ queue \in [Channels -> Seq(Handlers)]
    /\ chunks \in Nat
    /\ active \in Nat
    /\ beside \subseteq Handlers

(* Where a handler is: its message is its latest post, its edits are of      *)
(* posts of its own, and only without a message does it send one.            *)
Placed(x) ==
    /\ h[x].msg # 0 =>
          /\ h[x].msg \in DOMAIN posts /\ posts[h[x].msg].by = x
          /\ \A i \in DOMAIN posts : posts[i].by = x => i <= h[x].msg
    /\ \A e \in In(h[x].edits) :
          /\ e.msg \in DOMAIN posts /\ posts[e.msg].by = x
          /\ e.kind # "timed" => ~e.cursor
    /\ h[x].sending # << >> => h[x].msg = 0 /\ Len(h[x].sending) = 1
    /\ h[x].pc = "done" => ~h[x].listening

(* What a post shows or will show, and what is still to be posted.           *)
TextsOf(x, i) == {posts[i].text} \cup {e.text : e \in {f \in In(h[x].edits) : f.msg = i}}
TextsHeld(x) == {h[x].buf} \cup In(h[x].sending)
Earlier(s, t) == \A a \in In(s), b \in In(t) : a < b
Emitted(s) == \A a \in In(s) : a <= chunks

(* A chunk is in no post and no text to come but those of one message.       *)
InOrder(x) ==
    /\ \A s \in TextsHeld(x) : Emitted(s)
    /\ \A i \in DOMAIN posts : posts[i].by = x =>
          /\ \A s \in TextsOf(x, i) : Emitted(s)
          /\ \A j \in DOMAIN posts : posts[j].by = x /\ i < j =>
                \A s \in TextsOf(x, i), t \in TextsOf(x, j) : Earlier(s, t)
          /\ i # h[x].msg => \A s \in TextsOf(x, i), t \in TextsHeld(x) : Earlier(s, t)

(* Unless something came beside it: only the message of the handler can have *)
(* a cursor, and none after the final edit.                                  *)
Tidy(x) == x \notin beside =>
    /\ \A e \in In(h[x].edits) : e.msg = h[x].msg
    /\ h[x].msg # 0 \/ h[x].sending # << >> => h[x].buf # << >>
    /\ \A i \in DOMAIN posts : posts[i].by = x /\ i # h[x].msg => ~posts[i].cursor
    /\ h[x].pc \in {"finalEdit", "closing", "done"} => h[x].sending = << >> /\ ~h[x].timer
    /\ h[x].pc \in {"closing", "done"} =>
          /\ \A e \in In(h[x].edits) : ~e.cursor
          /\ \A i \in DOMAIN posts : posts[i].by = x => ~posts[i].cursor

StreamInv == StreamTypes /\ \A x \in Handlers : Placed(x) /\ InOrder(x) /\ Tidy(x)

(* Sequences as the sets of what they hold. *)
LEMMA InAppend == ASSUME NEW S, NEW s \in Seq(S), NEW e \in S
                  PROVE  In(Append(s, e)) = In(s) \cup {e} /\ Append(s, e) # << >>
<1>1. DOMAIN s = 1..Len(s) /\ DOMAIN Append(s, e) = 1..(Len(s) + 1) /\ Len(s) \in Nat
  OBVIOUS
<1>2. /\ \A a \in 1..Len(s) : Append(s, e)[a] = s[a]
      /\ Append(s, e)[Len(s) + 1] = e
  OBVIOUS
<1>3. \A a \in 1..(Len(s) + 1) : a \in 1..Len(s) \/ a = Len(s) + 1
  BY <1>1
<1>4. 1..Len(s) \subseteq 1..(Len(s) + 1) /\ Len(s) + 1 \in 1..(Len(s) + 1)
  BY <1>1
<1>5. In(Append(s, e)) = In(s) \cup {e}
  BY ONLY <1>1, <1>2, <1>3, <1>4 DEF In
<1>6. Append(s, e) # << >>
  <2>1. Len(Append(s, e)) = Len(s) + 1 /\ Len(<< >>) = 0
    OBVIOUS
  <2> QED BY ONLY <1>1, <2>1
<1> QED BY <1>5, <1>6

LEMMA InTail == ASSUME NEW S, NEW s \in Seq(S), s # << >>
                PROVE  /\ In(Tail(s)) \subseteq In(s) /\ Head(s) \in In(s) /\ Head(s) \in S
                       /\ Tail(s) \in Seq(S)
                       /\ Len(s) = 1 => Tail(s) = << >>
<1>1. Head(s) \in In(s) /\ Head(s) \in S /\ Tail(s) \in Seq(S)
  BY DEF In
<1>2. In(Tail(s)) \subseteq In(s)
  <2> SUFFICES ASSUME NEW a \in DOMAIN Tail(s) PROVE Tail(s)[a] \in In(s)
    BY DEF In
  <2>1. a + 1 \in DOMAIN s /\ Tail(s)[a] = s[a + 1]
    OBVIOUS
  <2> QED BY <2>1 DEF In
<1>3. Len(s) = 1 => Tail(s) = << >>
  <2> SUFFICES ASSUME Len(s) = 1 PROVE Tail(s) = << >>
    OBVIOUS
  <2>1. Tail(s) \in Seq(S) /\ Len(Tail(s)) = 0
    OBVIOUS
  <2> QED BY <2>1, EmptySeq
<1> QED BY <1>1, <1>2, <1>3

LEMMA InTyped == ASSUME NEW S, NEW s \in Seq(S) PROVE In(s) \subseteq S
  BY DEF In

LEMMA InEmpty == In(<< >>) = {} /\ \A e : In(<<e>>) = {e}
  BY DEF In

LEMMA StreamTyped ==
    ASSUME StreamTypes
    PROVE  /\ \A x \in Handlers :
                 /\ h[x] \in StreamHandler /\ h[x].buf \in Seq(Nat) /\ h[x].sending \in Seq(Seq(Nat))
                 /\ h[x].edits \in Seq(EditRecord) /\ h[x].msg \in Nat /\ h[x].fails \in Nat
                 /\ \A e \in In(h[x].edits) : e \in EditRecord /\ e.text \in Seq(Nat)
                 /\ \A s \in TextsHeld(x) : s \in Seq(Nat) /\ In(s) \subseteq Nat
           /\ \A i \in DOMAIN posts :
                 /\ posts[i] \in Post /\ posts[i].text \in Seq(Nat) /\ posts[i].by \in Handlers
                 /\ \A x \in Handlers : \A s \in TextsOf(x, i) : s \in Seq(Nat) /\ In(s) \subseteq Nat
<1>1. \A x \in Handlers : /\ h[x] \in StreamHandler /\ h[x].buf \in Seq(Nat) /\ h[x].sending \in Seq(Seq(Nat))
                          /\ h[x].edits \in Seq(EditRecord) /\ h[x].msg \in Nat /\ h[x].fails \in Nat
  BY DEF StreamTypes, StreamHandler
<1>2. \A x \in Handlers : \A e \in In(h[x].edits) : e \in EditRecord /\ e.text \in Seq(Nat)
  <2> SUFFICES ASSUME NEW x \in Handlers, NEW e \in In(h[x].edits) PROVE e \in EditRecord /\ e.text \in Seq(Nat)
    OBVIOUS
  <2>1. e \in EditRecord
    BY <1>1, InTyped
  <2> QED BY <2>1 DEF EditRecord
<1>3. \A x \in Handlers : \A s \in TextsHeld(x) : s \in Seq(Nat) /\ In(s) \subseteq Nat
  <2> SUFFICES ASSUME NEW x \in Handlers, NEW s \in TextsHeld(x) PROVE s \in Seq(Nat) /\ In(s) \subseteq Nat
    OBVIOUS
  <2>1. In(h[x].sending) \subseteq Seq(Nat)
    BY <1>1, InTyped
  <2>2. s \in Seq(Nat)
    BY <1>1, <2>1 DEF TextsHeld
  <2> QED BY <2>2, InTyped
<1>4. \A i \in DOMAIN posts : posts[i] \in Post
  BY DEF StreamTypes
<1>5. \A i \in DOMAIN posts : posts[i].text \in Seq(Nat) /\ posts[i].by \in Handlers
  BY <1>4 DEF Post
<1>6. \A i \in DOMAIN posts, x \in Handlers : \A s \in TextsOf(x, i) : s \in Seq(Nat) /\ In(s) \subseteq Nat
  <2> SUFFICES ASSUME NEW i \in DOMAIN posts, NEW x \in Handlers, NEW s \in TextsOf(x, i)
               PROVE  s \in Seq(Nat) /\ In(s) \subseteq Nat
    OBVIOUS
  <2>1. s \in Seq(Nat)
    BY <1>2, <1>5 DEF TextsOf
  <2> QED BY <2>1, InTyped
<1> QED BY <1>1, <1>2, <1>3, <1>4, <1>5, <1>6

LEMMA StreamInitInv == StreamInit => StreamInv
<1> SUFFICES ASSUME StreamInit PROVE StreamInv
  OBVIOUS
<1>1. NewHandler \in StreamHandler
  BY DEF NewHandler, StreamHandler
<1>2. \A x \in Handlers : h[x] = NewHandler
  BY DEF StreamInit
<1>3. StreamTypes
  BY <1>1 DEF StreamInit, StreamTypes
<1>4. DOMAIN posts = {}
  BY DEF StreamInit
<1>5. ASSUME NEW x \in Handlers PROVE Placed(x) /\ InOrder(x) /\ Tidy(x)
  BY <1>2, <1>4, InEmpty DEF Placed, InOrder, Tidy, NewHandler, TextsHeld, Emitted
<1> QED BY <1>3, <1>5 DEF StreamInv

(* A step that leaves a handler and its posts as they are. *)
LEMMA StreamFrame ==
    ASSUME NEW y \in Handlers, Placed(y), InOrder(y), Tidy(y), StreamTypes, StreamTypes', h'[y] = h[y],
           DOMAIN posts \subseteq DOMAIN posts',
           \A i \in DOMAIN posts : posts'[i].by = posts[i].by /\ (posts[i].by = y => posts'[i] = posts[i]),
           \A i \in DOMAIN posts' : i \notin DOMAIN posts => posts'[i].by # y,
           chunks <= chunks', y \notin beside' => y \notin beside
    PROVE  Placed(y)' /\ InOrder(y)' /\ Tidy(y)'
<1>1. \A i \in DOMAIN posts' : posts'[i].by = y => i \in DOMAIN posts /\ posts[i].by = y /\ posts'[i] = posts[i]
  OBVIOUS
<1>2. Placed(y)'
  BY <1>1 DEF Placed
<1>3. \A i \in DOMAIN posts' : posts'[i].by = y => TextsOf(y, i)' = TextsOf(y, i)
  BY <1>1 DEF TextsOf
<1>4. TextsHeld(y)' = TextsHeld(y)
  BY DEF TextsHeld
<1>5. InOrder(y)'
  <2>1. \A s : In(s) \subseteq Nat /\ Emitted(s) => Emitted(s)'
    BY DEF Emitted, StreamTypes
  <2>5. \A s \in TextsHeld(y)' : Emitted(s)'
    BY <1>4, <2>1, StreamTyped DEF InOrder
  <2>6. ASSUME NEW i \in DOMAIN posts', posts'[i].by = y
        PROVE  /\ \A s \in TextsOf(y, i)' : Emitted(s)'
               /\ \A j \in DOMAIN posts' : posts'[j].by = y /\ i < j =>
                     \A s \in TextsOf(y, i)', t \in TextsOf(y, j)' : Earlier(s, t)
               /\ i # h'[y].msg => \A s \in TextsOf(y, i)', t \in TextsHeld(y)' : Earlier(s, t)
    <3>1. i \in DOMAIN posts /\ posts[i].by = y
      BY <1>1, <2>6
    <3>2. \A s \in TextsOf(y, i)' : Emitted(s)'
      BY <1>3, <2>1, <2>6, <3>1, StreamTyped DEF InOrder
    <3>3. ASSUME NEW j \in DOMAIN posts', posts'[j].by = y, i < j,
                 NEW s \in TextsOf(y, i)', NEW t \in TextsOf(y, j)'
          PROVE  Earlier(s, t)
      <4>1. j \in DOMAIN posts /\ posts[j].by = y
        BY <1>1, <3>3
      <4>2. s \in TextsOf(y, i) /\ t \in TextsOf(y, j)
        BY <1>3, <2>6, <3>3
      <4> QED BY <3>1, <3>3, <4>1, <4>2 DEF InOrder
    <3>4. i # h'[y].msg => \A s \in TextsOf(y, i)', t \in TextsHeld(y)' : Earlier(s, t)
      BY <1>3, <1>4, <2>6, <3>1 DEF InOrder
    <3> QED BY <3>2, <3>3, <3>4
  <2> QED BY <2>5, <2>6 DEF InOrder, Earlier
<1>6. Tidy(y)'
  BY <1>1 DEF Tidy
<1> QED BY <1>2, <1>5, <1>6

(* A step of one handler, which may add a post of its own or change one. *)
LEMMA StepOfOne ==
    ASSUME NEW x \in Handlers, StreamInv, StreamTypes',
           \A y \in Handlers : y # x => h'[y] = h[y],
           DOMAIN posts \subseteq DOMAIN posts',
           \A i \in DOMAIN posts : posts'[i].by = posts[i].by /\ (posts[i].by # x => posts'[i] = posts[i]),
           \A i \in DOMAIN posts' : i \notin DOMAIN posts => posts'[i].by = x,
           chunks <= chunks', beside \subseteq beside',
           Placed(x)', InOrder(x)', Tidy(x)'
    PROVE  StreamInv'
<1> SUFFICES ASSUME NEW y \in Handlers, y # x PROVE Placed(y)' /\ InOrder(y)' /\ Tidy(y)'
  BY DEF StreamInv
<1> QED BY StreamFrame DEF StreamInv

(* A step that posts nothing new: what a post may show later is what it      *)
(* could before or, for the message of the handler, its buffer.              *)
LEMMA OrderStep ==
    ASSUME NEW x \in Handlers, StreamTypes, Placed(x), InOrder(x), chunks' = chunks,
           DOMAIN posts' = DOMAIN posts, \A i \in DOMAIN posts : posts'[i].by = posts[i].by,
           \A i \in DOMAIN posts : posts[i].by = x =>
              \A s \in TextsOf(x, i)' : s \in TextsOf(x, i) \/ (i = h[x].msg /\ s = h[x].buf),
           \A t \in TextsHeld(x)' : t \in TextsHeld(x) \/ In(t) = {},
           \/ h'[x].msg = h[x].msg
           \/ h'[x].msg = 0 /\ (h[x].msg # 0 => \A t \in TextsHeld(x)' : In(t) = {})
    PROVE  InOrder(x)'
<1>0. h[x].buf \in TextsHeld(x)
  BY DEF TextsHeld
<1>1. \A s : Emitted(s)' <=> Emitted(s)
  BY DEF Emitted
<1>2. \A s \in TextsHeld(x)' : Emitted(s)'
  BY <1>1 DEF InOrder, Emitted
<1>3. ASSUME NEW i \in DOMAIN posts', posts'[i].by = x
      PROVE  \A s \in TextsOf(x, i)' : Emitted(s)'
  BY <1>0, <1>1, <1>3 DEF InOrder
<1>4. ASSUME NEW i \in DOMAIN posts', posts'[i].by = x, NEW j \in DOMAIN posts', posts'[j].by = x, i < j,
             NEW s \in TextsOf(x, i)', NEW t \in TextsOf(x, j)'
      PROVE  Earlier(s, t)
  <2>1. i \in DOMAIN posts /\ j \in DOMAIN posts /\ posts[i].by = x /\ posts[j].by = x /\ i \in Nat \ {0} /\ j \in Nat
    BY <1>4 DEF StreamTypes
  <2>2. i # h[x].msg
    BY <1>4, <2>1 DEF Placed
  <2>3. s \in TextsOf(x, i)
    BY <2>1, <2>2
  <2>4. CASE t \in TextsOf(x, j)
    BY <1>4, <2>1, <2>3, <2>4 DEF InOrder
  <2>5. CASE t = h[x].buf
    BY <1>0, <2>1, <2>2, <2>3, <2>5 DEF InOrder
  <2> QED BY <2>1, <2>4, <2>5
<1>5. ASSUME NEW i \in DOMAIN posts', posts'[i].by = x, i # h'[x].msg,
             NEW s \in TextsOf(x, i)', NEW t \in TextsHeld(x)'
      PROVE  Earlier(s, t)
  <2>1. CASE In(t) = {}
    BY <2>1 DEF Earlier
  <2>2. CASE In(t) # {}
    <3>1. t \in TextsHeld(x)
      BY <2>2
    <3>2. i \in DOMAIN posts /\ posts[i].by = x /\ i # h[x].msg
      <4>1. i \in DOMAIN posts /\ posts[i].by = x /\ i # 0
        BY <1>5 DEF StreamTypes
      <4> QED BY <1>5, <2>2, <4>1
    <3>3. s \in TextsOf(x, i)
      BY <3>2
    <3> QED BY <3>1, <3>2, <3>3 DEF InOrder
  <2> QED BY <2>1, <2>2
<1> QED BY <1>2, <1>3, <1>4, <1>5 DEF InOrder, Earlier

(* An edit that is made has the message and the buffer of its handler. *)
LEMMA EditMade ==
    ASSUME NEW x \in Handlers, StreamTypes, Placed(x), InOrder(x), Tidy(x), chunks' = chunks, posts' = posts,
           Streaming(h[x]), NEW kind \in {"timed", "tool", "final"}, NEW cursor \in BOOLEAN,
           kind # "timed" => ~cursor,
           h'[x].edits = Append(h[x].edits, [kind |-> kind, msg |-> h[x].msg, text |-> h[x].buf, cursor |-> cursor]),
           h'[x].msg = h[x].msg, h'[x].buf = h[x].buf, h'[x].sending = h[x].sending,
           h'[x].pc = "done" => ~h'[x].listening
    PROVE  /\ Placed(x)' /\ InOrder(x)'
           /\ \A e \in In(h'[x].edits) : e \in In(h[x].edits) \/ (e.msg = h[x].msg /\ (e.cursor => cursor))
<1> DEFINE edit == [kind |-> kind, msg |-> h[x].msg, text |-> h[x].buf, cursor |-> cursor]
<1>1. edit \in EditRecord /\ h[x].edits \in Seq(EditRecord)
  BY StreamTyped DEF EditRecord
<1>2. In(h'[x].edits) = In(h[x].edits) \cup {edit}
  BY <1>1, InAppend
<1>3. /\ edit.msg = h[x].msg /\ edit.text = h[x].buf /\ edit.cursor = cursor /\ edit.kind = kind
  OBVIOUS
<1> HIDE DEF edit
<1>4. Placed(x)'
  BY <1>2, <1>3 DEF Placed, Streaming
<1>5. \A i \in DOMAIN posts : \A s \in TextsOf(x, i)' : s \in TextsOf(x, i) \/ (i = h[x].msg /\ s = h[x].buf)
  BY <1>2, <1>3 DEF TextsOf
<1>6. TextsHeld(x)' = TextsHeld(x)
  BY DEF TextsHeld
<1>7. InOrder(x)'
  BY <1>5, <1>6, OrderStep
<1> QED BY <1>2, <1>3, <1>4, <1>7

(* A handler that hears a chunk. *)
LEMMA ChunkHeard ==
    ASSUME NEW x \in Handlers, StreamTypes, Placed(x), InOrder(x), Tidy(x),
           chunks' = chunks + 1, posts' = posts, h'[x] = textHandler(h[x], chunks + 1),
           h[x].listening, beside \subseteq beside', Settled(x) => x \in beside'
    PROVE  h'[x] \in StreamHandler /\ Placed(x)' /\ InOrder(x)' /\ Tidy(x)'
<1> DEFINE k == chunks + 1
<1>0. k \in Nat /\ chunks \in Nat
  BY DEF StreamTypes
<1>1. h[x] \in StreamHandler /\ h[x].buf \in Seq(Nat) /\ h[x].sending \in Seq(Seq(Nat))
  BY StreamTyped
<1>2. Append(h[x].buf, k) \in Seq(Nat) /\ <<k>> \in Seq(Nat) /\ <<<<k>>>> \in Seq(Seq(Nat)) /\ <<k>> # << >>
      /\ Len(<<<<k>>>>) = 1
  BY <1>0, <1>1
<1>3. In(Append(h[x].buf, k)) = In(h[x].buf) \cup {k} /\ Append(h[x].buf, k) # << >>
  BY <1>0, <1>1, InAppend
<1>4. /\ h'[x] \in StreamHandler
      /\ h'[x].msg = h[x].msg /\ h'[x].edits = h[x].edits /\ h'[x].pc = h[x].pc /\ h'[x].listening = h[x].listening
      /\ \/ h'[x].buf = Append(h[x].buf, k) /\ h'[x].sending = h[x].sending
         \/ h[x].msg = 0 /\ h'[x].buf = <<k>> /\ h'[x].sending = <<<<k>>>>
  BY <1>1, <1>2 DEF textHandler, scheduleEdit, StreamHandler
<1>5. Placed(x)'
  BY <1>2, <1>4 DEF Placed
<1>6. \A t \in TextsHeld(x)' : \A b \in In(t) : b = k \/ \E s \in TextsHeld(x) : b \in In(s)
  <2>1. CASE h'[x].buf = Append(h[x].buf, k) /\ h'[x].sending = h[x].sending
    BY <1>3, <2>1 DEF TextsHeld
  <2>2. CASE h'[x].buf = <<k>> /\ h'[x].sending = <<<<k>>>>
    BY <2>2, InEmpty DEF TextsHeld
  <2> QED BY <1>4, <2>1, <2>2
<1>7. \A i \in DOMAIN posts : TextsOf(x, i)' = TextsOf(x, i)
  BY <1>4 DEF TextsOf
<1>8. InOrder(x)'
  <2>1. \A s \in TextsHeld(x) : \A b \in In(s) : b \in Nat /\ b <= chunks
    BY StreamTyped DEF InOrder, Emitted
  <2>2. \A t \in TextsHeld(x)' : Emitted(t)'
    BY <1>0, <1>6, <2>1 DEF Emitted
  <2>3. ASSUME NEW i \in DOMAIN posts', posts'[i].by = x
        PROVE  \A s \in TextsOf(x, i)' : Emitted(s)' /\ \A b \in In(s) : b \in Nat /\ b < k
    BY <1>0, <1>7, <2>3, StreamTyped DEF InOrder, Emitted
  <2>4. ASSUME NEW i \in DOMAIN posts', posts'[i].by = x, NEW j \in DOMAIN posts', posts'[j].by = x, i < j,
               NEW s \in TextsOf(x, i)', NEW t \in TextsOf(x, j)'
        PROVE  Earlier(s, t)
    BY <1>7, <2>4 DEF InOrder
  <2>5. ASSUME NEW i \in DOMAIN posts', posts'[i].by = x, i # h'[x].msg,
               NEW s \in TextsOf(x, i)', NEW t \in TextsHeld(x)'
        PROVE  Earlier(s, t)
    <3>1. \A u \in TextsHeld(x) : Earlier(s, u)
      BY <1>4, <1>7, <2>5 DEF InOrder
    <3> QED BY <1>6, <2>3, <2>5, <3>1 DEF Earlier
  <2> QED BY <2>2, <2>3, <2>4, <2>5 DEF InOrder, Earlier
<1>9. Tidy(x)'
  <2>1. x \notin beside' => x \notin beside /\ h[x].pc \notin {"finalEdit", "closing", "done"}
    BY DEF Settled, Placed
  <2>2. h'[x].buf # << >>
    BY <1>2, <1>3, <1>4
  <2> QED BY <1>4, <2>1, <2>2 DEF Tidy
<1> QED BY <1>4, <1>5, <1>8, <1>9

(* A handler that hears of a tool. *)
LEMMA ToolHeard ==
    ASSUME NEW x \in Handlers, StreamTypes, Placed(x), InOrder(x), Tidy(x),
           chunks' = chunks, posts' = posts, h'[x] = toolUseHandler(h[x]), beside' = beside
    PROVE  h'[x] \in StreamHandler /\ Placed(x)' /\ InOrder(x)' /\ Tidy(x)'
<1>1. h[x] \in StreamHandler /\ h[x].buf \in Seq(Nat) /\ h[x].edits \in Seq(EditRecord) /\ h[x].msg \in Nat
  BY StreamTyped
<1>2. CASE ~Streaming(h[x])
  <2>1. h'[x] = h[x]
    BY <1>2 DEF toolUseHandler
  <2>2. Placed(x)' /\ InOrder(x)' /\ Tidy(x)'
    BY <2>1 DEF Placed, InOrder, Tidy, TextsOf, TextsHeld, Emitted, Earlier
  <2> QED BY <1>1, <2>1, <2>2
<1>3. CASE Streaming(h[x])
  <2> DEFINE edit == [kind |-> "tool", msg |-> h[x].msg, text |-> h[x].buf, cursor |-> FALSE]
  <2>1. edit \in EditRecord
    BY <1>1 DEF EditRecord
  <2>2. h'[x] = [h[x] EXCEPT !.edits = Append(h[x].edits, edit)]
    BY <1>3 DEF toolUseHandler, Edit
  <2>3. /\ h'[x].edits = Append(h[x].edits, edit) /\ h'[x].msg = h[x].msg /\ h'[x].buf = h[x].buf
        /\ h'[x].sending = h[x].sending /\ h'[x].pc = h[x].pc /\ h'[x].listening = h[x].listening
        /\ h'[x].timer = h[x].timer
        /\ h'[x] \in StreamHandler
    <3>1. Append(h[x].edits, edit) \in Seq(EditRecord)
      BY <1>1, <2>1, AppendProperties
    <3> HIDE DEF edit
    <3> QED BY <1>1, <2>2, <3>1 DEF StreamHandler
  <2>4. /\ Placed(x)' /\ InOrder(x)'
        /\ \A e \in In(h'[x].edits) : e \in In(h[x].edits) \/ (e.msg = h[x].msg /\ (e.cursor => FALSE))
    BY <1>3, <2>3, EditMade DEF Placed
  <2>5. Tidy(x)'
    BY <2>3, <2>4 DEF Tidy
  <2> QED BY <2>3, <2>4, <2>5
<1> QED BY <1>2, <1>3

(* The types, through the steps. *)
LEMMA StreamTypesStep == StreamInv /\ [StreamNext]_streamVars => StreamTypes'
<1> SUFFICES ASSUME StreamInv, [StreamNext]_streamVars PROVE StreamTypes'
  OBVIOUS
<1>0. StreamTypes /\ \A x \in Handlers : Placed(x) /\ InOrder(x) /\ Tidy(x)
  BY DEF StreamInv
<1>1. \A x \in Handlers : h[x] \in StreamHandler /\ h[x].buf \in Seq(Nat) /\ h[x].sending \in Seq(Seq(Nat))
                          /\ h[x].edits \in Seq(EditRecord) /\ h[x].msg \in Nat /\ h[x].fails \in Nat
  BY <1>0, StreamTyped
<1>2. \A r \in StreamHandler : Closing(r) \in StreamHandler /\ Finally(r) \in StreamHandler
        /\ [Finally(r) EXCEPT !.pc = "failed"] \in StreamHandler
  BY DEF Closing, Finally, StreamHandler
<1>3. \A n \in Nat : TrackEnd(n) \in Nat /\ n + 1 \in Nat
  BY DEF TrackEnd
<1>4. ASSUME NEW r \in StreamHandler, NEW kind \in {"timed", "tool", "final"}, NEW cursor \in BOOLEAN
      PROVE  Edit(r, kind, cursor) \in StreamHandler
  <2> DEFINE edit == [kind |-> kind, msg |-> r.msg, text |-> r.buf, cursor |-> cursor]
  <2>1. edit \in EditRecord /\ r.edits \in Seq(EditRecord)
    BY DEF StreamHandler, EditRecord
  <2>2. Append(r.edits, edit) \in Seq(EditRecord)
    BY <2>1, AppendProperties
  <2>3. Edit(r, kind, cursor) = [r EXCEPT !.edits = Append(r.edits, edit)]
    BY DEF Edit
  <2> HIDE DEF edit
  <2> QED BY <2>2, <2>3 DEF StreamHandler
<1>5. \A r \in StreamHandler : scheduleEdit(r) \in StreamHandler
  BY DEF scheduleEdit, StreamHandler
<1>5a. ASSUME NEW x, NEW r \in StreamHandler, h' = [h EXCEPT ![x] = r]
       PROVE  h' \in [Handlers -> StreamHandler]
  <2>1. h \in [Handlers -> StreamHandler]
    BY <1>0 DEF StreamTypes
  <2> QED BY <1>5a, <2>1
<1>6. ASSUME NEW x \in Handlers, Begin(x) PROVE StreamTypes'
  <2>0. PICK b \in BOOLEAN : b = (ChannelOf[x] \in known)
    <3>1. CASE ChannelOf[x] \in known
      <4>1. TRUE = (ChannelOf[x] \in known)
        BY <3>1
      <4> QED BY <4>1, Zenon
    <3>2. CASE ChannelOf[x] \notin known
      <4>1. FALSE = (ChannelOf[x] \in known)
        BY <3>2
      <4> QED BY <4>1, Zenon
    <3> QED BY <3>1, <3>2
  <2>1. [h[x] EXCEPT !.pc = "turn", !.listening = b] \in StreamHandler
    BY <1>1 DEF StreamHandler
  <2>2. ChannelOf[x] \in Channels
    BY DEF Channels
  <2>3. Append(queue[ChannelOf[x]], x) \in Seq(Handlers)
    BY <1>0, <2>2, AppendProperties DEF StreamTypes
  <2>4. h' = [h EXCEPT ![x] = [h[x] EXCEPT !.pc = "turn", !.listening = b]]
    BY <1>6, <2>0 DEF Begin
  <2> QED BY <1>0, <1>3, <1>6, <2>1, <2>2, <2>3, <2>4 DEF Begin, StreamTypes
<1>7. ASSUME NEW c \in Channels, EmitText(c) PROVE StreamTypes'
  <2>1. chunks + 1 \in Nat /\ posts' = posts /\ queue' = queue /\ active' = active /\ beside' \subseteq Handlers
    BY <1>0, <1>7 DEF EmitText, StreamTypes
  <2>2. ASSUME NEW r \in StreamHandler PROVE textHandler(r, chunks + 1) \in StreamHandler
    <3>1. r.buf \in Seq(Nat) /\ Append(r.buf, chunks + 1) \in Seq(Nat) /\ <<chunks + 1>> \in Seq(Nat)
          /\ <<<<chunks + 1>>>> \in Seq(Seq(Nat))
      BY <2>1 DEF StreamHandler
    <3>2. [r EXCEPT !.buf = Append(r.buf, chunks + 1)] \in StreamHandler
      BY <3>1 DEF StreamHandler
    <3>3. [r EXCEPT !.buf = <<chunks + 1>>, !.sending = <<<<chunks + 1>>>>] \in StreamHandler
      BY <3>1 DEF StreamHandler
    <3>4. \/ textHandler(r, chunks + 1) = scheduleEdit([r EXCEPT !.buf = Append(r.buf, chunks + 1)])
          \/ textHandler(r, chunks + 1) = [r EXCEPT !.buf = Append(r.buf, chunks + 1)]
          \/ textHandler(r, chunks + 1) = [r EXCEPT !.buf = <<chunks + 1>>, !.sending = <<<<chunks + 1>>>>]
      BY DEF textHandler
    <3> QED BY <1>5, <3>2, <3>3, <3>4
  <2> QED BY <1>0, <1>1, <1>7, <2>1, <2>2 DEF EmitText, StreamTypes
<1>8. ASSUME NEW c \in Channels, EmitTool(c) PROVE StreamTypes'
  <2>1. \A r \in StreamHandler : toolUseHandler(r) \in StreamHandler
    BY <1>4 DEF toolUseHandler
  <2> QED BY <1>0, <1>1, <1>8, <2>1 DEF EmitTool, StreamTypes
<1>9. ASSUME NEW x \in Handlers, SendEnds(x) PROVE StreamTypes'
  <2> DEFINE sent == Head(h[x].sending)
  <2> DEFINE r == [h[x] EXCEPT !.sending = Tail(h[x].sending), !.msg = Len(posts) + 1]
  <2>1. sent \in Seq(Nat) /\ Tail(h[x].sending) \in Seq(Seq(Nat))
    BY <1>1, <1>9, InTail DEF SendEnds
  <2>2. Len(posts) + 1 \in Nat
    BY <1>0 DEF StreamTypes
  <2>3. r \in StreamHandler
    BY <1>1, <2>1, <2>2 DEF StreamHandler
  <2>4. [by |-> x, text |-> sent, cursor |-> TRUE] \in Post
    BY <2>1 DEF Post
  <2>5. posts' = Append(posts, [by |-> x, text |-> sent, cursor |-> TRUE])
        /\ h' = [h EXCEPT ![x] = IF r.buf # sent THEN scheduleEdit(r) ELSE r]
    BY <1>9 DEF SendEnds
  <2> HIDE DEF sent, r
  <2>6. posts' \in Seq(Post)
    BY <1>0, <2>4, <2>5, AppendProperties DEF StreamTypes
  <2>7. h' \in [Handlers -> StreamHandler]
    <3>1. PICK v \in StreamHandler : h' = [h EXCEPT ![x] = v]
      BY <1>5, <2>3, <2>5
    <3> QED BY <1>5a, <3>1
  <2> QED BY <1>0, <1>9, <2>6, <2>7 DEF SendEnds, StreamTypes
<1>10. ASSUME NEW x \in Handlers, SendFails(x) PROVE StreamTypes'
  <2>1. Tail(h[x].sending) \in Seq(Seq(Nat))
    BY <1>1, <1>10, InTail DEF SendFails
  <2>2. PICK rejected \in BOOLEAN : h' = [h EXCEPT ![x] = [h[x] EXCEPT !.sending = Tail(h[x].sending), !.stuck = rejected]]
    BY <1>10 DEF SendFails
  <2>3. [h[x] EXCEPT !.sending = Tail(h[x].sending), !.stuck = rejected] \in StreamHandler
    BY <1>1, <2>1 DEF StreamHandler
  <2> QED BY <1>0, <1>10, <2>2, <2>3 DEF SendFails, StreamTypes
<1>11. ASSUME NEW x \in Handlers, TimerFires(x) PROVE StreamTypes'
  <2> DEFINE r == [h[x] EXCEPT !.timer = FALSE]
  <2>1. r \in StreamHandler /\ [r EXCEPT !.pending = FALSE] \in StreamHandler
    BY <1>1 DEF StreamHandler
  <2>2. \/ h' = [h EXCEPT ![x] = Edit([r EXCEPT !.pending = FALSE], "timed", TRUE)]
        \/ h' = [h EXCEPT ![x] = r]
    BY <1>11 DEF TimerFires
  <2> HIDE DEF r
  <2>3. h' \in [Handlers -> StreamHandler]
    <3>1. Edit([r EXCEPT !.pending = FALSE], "timed", TRUE) \in StreamHandler
      BY <1>4, <2>1
    <3>2. PICK v \in StreamHandler : h' = [h EXCEPT ![x] = v]
      BY <2>1, <2>2, <3>1
    <3> QED BY <1>5a, <3>2
  <2> QED BY <1>0, <1>11, <2>3 DEF TimerFires, StreamTypes
<1>12. ASSUME NEW x \in Handlers, EditEnds(x) PROVE StreamTypes'
  <2> DEFINE e == Head(h[x].edits)
  <2> DEFINE r == [h[x] EXCEPT !.edits = Tail(h[x].edits)]
  <2>1. e \in EditRecord /\ e \in In(h[x].edits) /\ Tail(h[x].edits) \in Seq(EditRecord)
    BY <1>1, <1>12, InTail DEF EditEnds
  <2>2. /\ r \in StreamHandler /\ [r EXCEPT !.fails = r.fails + 1] \in StreamHandler
        /\ [r EXCEPT !.msg = 0, !.buf = << >>] \in StreamHandler
    <3>1. r \in StreamHandler
      BY <1>1, <2>1 DEF StreamHandler
    <3> HIDE DEF r
    <3>2. r.fails + 1 \in Nat /\ << >> \in Seq(Nat)
      BY <3>1 DEF StreamHandler
    <3> QED BY <3>1, <3>2 DEF StreamHandler
  <2>3. e.msg \in DOMAIN posts /\ e.text \in Seq(Nat) /\ e.cursor \in BOOLEAN /\ e.kind \in {"timed", "tool", "final"}
    BY <1>0, <2>1 DEF Placed, EditRecord
  <2>4. PICK ok \in BOOLEAN :
          /\ posts' = IF ok THEN [posts EXCEPT ![e.msg].text = e.text, ![e.msg].cursor = e.cursor] ELSE posts
          /\ h' = [h EXCEPT ![x] =
                     CASE e.kind = "timed" -> IF ok THEN r ELSE [r EXCEPT !.fails = r.fails + 1]
                       [] e.kind = "tool" -> [r EXCEPT !.msg = 0, !.buf = << >>]
                       [] e.kind = "final" -> Closing(r)]
    BY <1>12 DEF EditEnds
  <2>5. beside' \subseteq Handlers /\ active' \in Nat /\ queue' = queue /\ chunks' = chunks
    BY <1>0, <1>3, <1>12 DEF EditEnds, StreamTypes
  <2> HIDE DEF e, r
  <2>6. posts' \in Seq(Post)
    <3>1. posts \in Seq(Post)
      BY <1>0 DEF StreamTypes
    <3>2. [posts[e.msg] EXCEPT !.text = e.text, !.cursor = e.cursor] \in Post
      <4>1. posts[e.msg] \in Post
        BY <2>3, <3>1
      <4> QED BY <2>3, <4>1 DEF Post
    <3>3. [posts EXCEPT ![e.msg] = [posts[e.msg] EXCEPT !.text = e.text, !.cursor = e.cursor]] \in Seq(Post)
      BY <2>3, <3>1, <3>2
    <3> QED BY <2>4, <3>1, <3>3
  <2>7. h' \in [Handlers -> StreamHandler]
    <3>1. Closing(r) \in StreamHandler
      BY <1>2, <2>2
    <3>2. PICK v \in StreamHandler : h' = [h EXCEPT ![x] = v]
      BY <2>2, <2>3, <2>4, <3>1
    <3> QED BY <1>5a, <3>2
  <2> QED BY <2>5, <2>6, <2>7, <1>0 DEF StreamTypes
<1>13. ASSUME NEW c \in Channels, TurnReturns(c) PROVE StreamTypes'
  <2>1. PICK x \in Handlers :
          /\ x = Head(queue[c]) /\ Tail(queue[c]) \in Seq(Handlers)
          /\ queue' = [queue EXCEPT ![c] = Tail(queue[c])]
          /\ beside' \subseteq beside \cup {x}
          /\ \/ h' = [h EXCEPT ![x] = Edit([h[x] EXCEPT !.pc = "finalEdit"], "final", FALSE)] /\ active' = active
             \/ h' = [h EXCEPT ![x] = Closing(h[x])] /\ active' = TrackEnd(active)
    <3>1. queue[c] \in Seq(Handlers) /\ queue[c] # << >>
      BY <1>0, <1>13 DEF TurnReturns, StreamTypes
    <3>2. Head(queue[c]) \in Handlers /\ Tail(queue[c]) \in Seq(Handlers)
      BY <3>1, InTail
    <3> QED BY <1>13, <3>2 DEF TurnReturns
  <2>2. [h[x] EXCEPT !.pc = "finalEdit"] \in StreamHandler
    BY <1>1 DEF StreamHandler
  <2>3. h' \in [Handlers -> StreamHandler]
    <3>1. Edit([h[x] EXCEPT !.pc = "finalEdit"], "final", FALSE) \in StreamHandler
      BY <1>4, <2>2
    <3>2. Closing(h[x]) \in StreamHandler
      BY <1>1, <1>2
    <3>3. PICK v \in StreamHandler : h' = [h EXCEPT ![x] = v]
      BY <2>1, <3>1, <3>2
    <3> QED BY <1>5a, <3>3
  <2> QED BY <1>0, <1>3, <1>13, <2>1, <2>3 DEF TurnReturns, StreamTypes
<1>14. ASSUME NEW c \in Channels, TurnRejects(c) PROVE StreamTypes'
  <2>1. Head(queue[c]) \in Handlers /\ Tail(queue[c]) \in Seq(Handlers)
    <3>1. queue[c] \in Seq(Handlers) /\ queue[c] # << >>
      BY <1>0, <1>14 DEF TurnRejects, StreamTypes
    <3> QED BY <3>1, InTail
  <2> QED BY <1>0, <1>1, <1>2, <1>14, <2>1 DEF TurnRejects, StreamTypes
<1>15. ASSUME NEW x \in Handlers, Finish(x) PROVE StreamTypes'
  BY <1>0, <1>1, <1>2, <1>15 DEF Finish, StreamTypes
<1>16. CASE UNCHANGED streamVars
  BY <1>0, <1>16 DEF streamVars, StreamTypes
<1> QED BY <1>6, <1>7, <1>8, <1>9, <1>10, <1>11, <1>12, <1>13, <1>14, <1>15, <1>16 DEF StreamNext

(* A step that moves a handler on without posts, edits or chunks. *)
LEMMA MovesOn ==
    ASSUME NEW x \in Handlers, StreamInv, StreamTypes',
           \A y \in Handlers : y # x => h'[y] = h[y],
           posts' = posts, chunks' = chunks, beside \subseteq beside',
           h'[x].msg = h[x].msg, h'[x].buf = h[x].buf, h'[x].edits = h[x].edits,
           h'[x].sending = h[x].sending \/ h'[x].sending = << >>,
           h'[x].pc = "done" => ~h'[x].listening,
           Tidy(x)'
    PROVE  StreamInv'
<1>1. StreamTypes /\ Placed(x) /\ InOrder(x)
  BY DEF StreamInv
<1>2. Placed(x)'
  BY <1>1 DEF Placed
<1>3. \A i \in DOMAIN posts : TextsOf(x, i)' = TextsOf(x, i)
  BY DEF TextsOf
<1>4. \A t \in TextsHeld(x)' : t \in TextsHeld(x)
  BY InEmpty DEF TextsHeld
<1>5. InOrder(x)'
  BY <1>1, <1>3, <1>4, OrderStep
<1>6. chunks <= chunks'
  BY <1>1 DEF StreamTypes
<1> QED BY <1>2, <1>5, <1>6, StepOfOne

LEMMA SendEndsInv == ASSUME StreamInv, StreamTypes', NEW x \in Handlers, SendEnds(x) PROVE StreamInv'
<1>0. StreamTypes /\ Placed(x) /\ InOrder(x) /\ Tidy(x)
  BY DEF StreamInv
<1>n. PICK n \in Nat : n = Len(posts) + 1
  BY <1>0 DEF StreamTypes
<1>1. PICK sent : sent \in In(h[x].sending) /\ sent = Head(h[x].sending)
  BY <1>0, StreamTyped, InTail DEF SendEnds
<1>2. /\ posts \in Seq(Post) /\ DOMAIN posts = 1..(n - 1) /\ n \in Nat \ {0} /\ chunks \in Nat
  BY <1>0, <1>n DEF StreamTypes
<1>3. h[x].sending # << >> /\ Len(h[x].sending) = 1 /\ h[x].msg = 0 /\ h[x].sending \in Seq(Seq(Nat))
  BY <1>0, StreamTyped DEF SendEnds, Placed
<1>4. Tail(h[x].sending) = << >>
  BY <1>3, InTail
<1>5. /\ h'[x].msg = n /\ h'[x].sending = << >> /\ h'[x].buf = h[x].buf /\ h'[x].edits = h[x].edits
      /\ h'[x].pc = h[x].pc /\ h'[x].listening = h[x].listening
      /\ \A y \in Handlers : y # x => h'[y] = h[y]
  <2>1. h[x] \in StreamHandler /\ h \in [Handlers -> StreamHandler]
    BY <1>0, StreamTyped DEF StreamTypes
  <2> QED BY <1>n, <1>4, <2>1 DEF SendEnds, scheduleEdit, StreamHandler
<1>6. posts' = Append(posts, [by |-> x, text |-> sent, cursor |-> TRUE]) /\ chunks' = chunks /\ beside' = beside
  BY <1>1 DEF SendEnds
<1>7. /\ DOMAIN posts' = 1..n /\ \A i \in 1..(n - 1) : posts'[i] = posts[i]
      /\ posts'[n] = [by |-> x, text |-> sent, cursor |-> TRUE]
  <2>1. sent \in Seq(Nat)
    BY <1>1, <1>3, InTyped
  <2>2. [by |-> x, text |-> sent, cursor |-> TRUE] \in Post
    BY <2>1 DEF Post
  <2>3. DOMAIN posts' = 1..(Len(posts) + 1) /\ posts'[Len(posts) + 1] = [by |-> x, text |-> sent, cursor |-> TRUE]
        /\ \A i \in 1..Len(posts) : posts'[i] = posts[i]
    BY <1>2, <1>6, <2>2, AppendProperties
  <2> QED BY <1>2, <1>n, <2>3
<1>8. \A i \in 1..n : i \in 1..(n - 1) \/ i = n
  BY <1>2
<1>9. \A e \in In(h[x].edits) : e.msg \in 1..(n - 1) /\ posts[e.msg].by = x /\ (e.kind # "timed" => ~e.cursor)
  BY <1>0, <1>2 DEF Placed
<1>10. Placed(x)'
  <2>1. n # 0 /\ n \in DOMAIN posts' /\ posts'[n].by = x /\ \A i \in DOMAIN posts' : i <= n
    BY <1>2, <1>7
  <2>2. \A e \in In(h'[x].edits) :
          e.msg \in DOMAIN posts' /\ posts'[e.msg].by = x /\ (e.kind # "timed" => ~e.cursor)
    BY <1>2, <1>5, <1>7, <1>9
  <2>3. h'[x].pc = "done" => ~h'[x].listening
    BY <1>0, <1>5 DEF Placed
  <2> QED BY <1>5, <2>1, <2>2, <2>3 DEF Placed
<1>11. /\ \A i \in 1..(n - 1) : TextsOf(x, i)' = TextsOf(x, i)
       /\ TextsOf(x, n)' = {sent}
  <2>1. \A i \in 1..(n - 1) : TextsOf(x, i)' = TextsOf(x, i)
    BY <1>5, <1>7 DEF TextsOf
  <2>2. {f \in In(h'[x].edits) : f.msg = n} = {}
    BY <1>2, <1>5, <1>9
  <2>3. posts'[n].text = sent
    BY <1>7
  <2>4. TextsOf(x, n)' = {posts'[n].text} \cup {e.text : e \in {f \in In(h'[x].edits) : f.msg = n}}
    BY DEF TextsOf
  <2> QED BY <2>1, <2>2, <2>3, <2>4
<1>12. \A t \in TextsHeld(x)' : t = h[x].buf
  BY <1>5, InEmpty DEF TextsHeld
<1>13. h[x].buf \in TextsHeld(x) /\ sent \in TextsHeld(x)
  BY <1>1 DEF TextsHeld
<1>14. InOrder(x)'
  <2>1. \A s : Emitted(s)' <=> Emitted(s)
    BY <1>6 DEF Emitted
  <2>2. \A s \in TextsHeld(x)' : Emitted(s)'
    BY <1>0, <1>12, <1>13, <2>1 DEF InOrder
  <2>3. ASSUME NEW i \in DOMAIN posts', posts'[i].by = x
        PROVE  \A s \in TextsOf(x, i)' : Emitted(s)'
    <3>1. CASE i \in 1..(n - 1)
      BY <1>0, <1>2, <1>7, <1>11, <2>1, <2>3, <3>1 DEF InOrder
    <3>2. CASE i = n
      <4>1. TextsOf(x, i)' = {sent}
        BY <1>11, <3>2
      <4>2. Emitted(sent)
        BY <1>0, <1>13 DEF InOrder
      <4> QED BY <2>1, <4>1, <4>2
    <3> QED BY <1>7, <1>8, <3>1, <3>2
  <2>4. ASSUME NEW i \in 1..(n - 1), posts'[i].by = x, NEW s \in TextsOf(x, i)', NEW t \in TextsHeld(x)
        PROVE  Earlier(s, t)
    <3>1. i \in DOMAIN posts /\ posts[i].by = x /\ i # 0 /\ s \in TextsOf(x, i)
      BY <1>2, <1>7, <1>11, <2>4
    <3> QED BY <1>0, <1>3, <2>4, <3>1 DEF InOrder
  <2>5. ASSUME NEW i \in DOMAIN posts', posts'[i].by = x, NEW j \in DOMAIN posts', posts'[j].by = x, i < j,
               NEW s \in TextsOf(x, i)', NEW t \in TextsOf(x, j)'
        PROVE  Earlier(s, t)
    <3>1. i \in 1..(n - 1)
      BY <1>2, <1>7, <2>5
    <3>2. CASE j = n
      <4>1. TextsOf(x, j)' = {sent}
        BY <1>11, <3>2
      <4>2. t = sent /\ sent \in TextsHeld(x)
        BY <1>13, <2>5, <4>1
      <4> QED BY <2>4, <2>5, <3>1, <4>2
    <3>3. CASE j \in 1..(n - 1)
      BY <1>0, <1>2, <1>7, <1>11, <2>5, <3>1, <3>3 DEF InOrder
    <3> QED BY <1>7, <1>8, <3>2, <3>3
  <2>6. ASSUME NEW i \in DOMAIN posts', posts'[i].by = x, i # h'[x].msg, NEW s \in TextsOf(x, i)', NEW t \in TextsHeld(x)'
        PROVE  Earlier(s, t)
    BY <1>5, <1>7, <1>8, <1>12, <1>13, <2>4, <2>6
  <2> QED BY <2>2, <2>3, <2>5, <2>6 DEF InOrder, Earlier
<1>15. Tidy(x)'
  <2> SUFFICES ASSUME x \notin beside PROVE Tidy(x)'
    BY <1>6 DEF Tidy
  <2>1. In(h[x].edits) = {}
    BY <1>0, <1>2, <1>3, <1>9 DEF Tidy
  <2>2. h[x].buf # << >> /\ h[x].pc \notin {"finalEdit", "closing", "done"}
    BY <1>0, <1>3 DEF Tidy
  <2>3. \A i \in 1..(n - 1) : posts[i].by = x => ~posts[i].cursor
    <3>1. \A i \in DOMAIN posts : posts[i].by = x /\ i # h[x].msg => ~posts[i].cursor
      BY <1>0 DEF Tidy
    <3>2. \A i \in 1..(n - 1) : i \in DOMAIN posts /\ i # 0
      BY <1>2
    <3> QED BY <1>3, <3>1, <3>2
  <2> QED BY <1>5, <1>7, <1>8, <2>1, <2>2, <2>3 DEF Tidy
<1>16. \A i \in DOMAIN posts' : i \notin DOMAIN posts => posts'[i].by = x
  BY <1>2, <1>7, <1>8
<1>17. /\ DOMAIN posts \subseteq DOMAIN posts' /\ \A i \in DOMAIN posts : posts'[i] = posts[i]
       /\ chunks <= chunks' /\ beside \subseteq beside'
  BY <1>2, <1>6, <1>7
<1> QED BY <1>5, <1>10, <1>14, <1>15, <1>16, <1>17, StepOfOne

LEMMA TimerFiresInv == ASSUME StreamInv, StreamTypes', NEW x \in Handlers, TimerFires(x) PROVE StreamInv'
<1>0. StreamTypes /\ Placed(x) /\ InOrder(x) /\ Tidy(x)
  BY DEF StreamInv
<1>1. h[x] \in StreamHandler /\ h[x].edits \in Seq(EditRecord) /\ h \in [Handlers -> StreamHandler]
  BY <1>0, StreamTyped DEF StreamTypes
<1>2. posts' = posts /\ chunks' = chunks /\ beside' = beside /\ \A y \in Handlers : y # x => h'[y] = h[y]
  BY <1>1 DEF TimerFires
<1>3. /\ h'[x].msg = h[x].msg /\ h'[x].buf = h[x].buf /\ h'[x].sending = h[x].sending
      /\ h'[x].pc = h[x].pc /\ h'[x].listening = h[x].listening
      /\ \/ h'[x].edits = h[x].edits
         \/ /\ Streaming(h[x])
            /\ h'[x].edits = Append(h[x].edits, [kind |-> "timed", msg |-> h[x].msg, text |-> h[x].buf, cursor |-> TRUE])
  BY <1>1 DEF TimerFires, Edit, Streaming, StreamHandler
<1>4. x \notin beside => h[x].pc \notin {"finalEdit", "closing", "done"}
  BY <1>0 DEF Tidy, TimerFires
<1>5. CASE h'[x].edits = h[x].edits
  <2>1. Tidy(x)'
    BY <1>0, <1>2, <1>3, <1>4, <1>5 DEF Tidy
  <2> QED BY <1>0, <1>2, <1>3, <1>5, <2>1, MovesOn DEF Placed
<1>6. CASE /\ Streaming(h[x])
           /\ h'[x].edits = Append(h[x].edits, [kind |-> "timed", msg |-> h[x].msg, text |-> h[x].buf, cursor |-> TRUE])
  <2>1. /\ Placed(x)' /\ InOrder(x)'
        /\ \A e \in In(h'[x].edits) : e \in In(h[x].edits) \/ e.msg = h[x].msg
    BY <1>0, <1>2, <1>3, <1>6, EditMade DEF Placed
  <2>2. Tidy(x)'
    BY <1>0, <1>2, <1>3, <1>4, <2>1 DEF Tidy
  <2>3. chunks <= chunks'
    BY <1>0, <1>2 DEF StreamTypes
  <2> QED BY <1>2, <2>1, <2>2, <2>3, StepOfOne
<1> QED BY <1>3, <1>5, <1>6

LEMMA TurnReturnsInv == ASSUME StreamInv, StreamTypes', NEW c \in Channels, TurnReturns(c) PROVE StreamInv'
<1>0. StreamTypes
  BY DEF StreamInv
<1>1. PICK x \in Handlers :
          /\ beside' = IF h[x].timer \/ h[x].sending # << >> THEN beside \cup {x} ELSE beside
          /\ h' = [h EXCEPT ![x] = IF Streaming(h[x]) THEN Edit([h[x] EXCEPT !.pc = "finalEdit"], "final", FALSE)
                                   ELSE Closing(h[x])]
  <2>1. Head(queue[c]) \in Handlers
    BY <1>0, InTail DEF TurnReturns, StreamTypes
  <2> QED BY <2>1 DEF TurnReturns
<1>2. Placed(x) /\ InOrder(x) /\ Tidy(x) /\ posts' = posts /\ chunks' = chunks /\ beside \subseteq beside'
  BY <1>1 DEF StreamInv, TurnReturns
<1>3. h[x] \in StreamHandler /\ h[x].edits \in Seq(EditRecord) /\ h \in [Handlers -> StreamHandler]
  BY <1>0, StreamTyped DEF StreamTypes
<1>4. \A y \in Handlers : y # x => h'[y] = h[y]
  BY <1>1, <1>3
<1>5. x \notin beside' => x \notin beside /\ ~h[x].timer /\ h[x].sending = << >>
  BY <1>1
<1>6. CASE Streaming(h[x])
  <2>1. /\ h'[x].msg = h[x].msg /\ h'[x].buf = h[x].buf /\ h'[x].sending = h[x].sending
        /\ h'[x].pc = "finalEdit" /\ h'[x].timer = h[x].timer
        /\ h'[x].edits = Append(h[x].edits, [kind |-> "final", msg |-> h[x].msg, text |-> h[x].buf, cursor |-> FALSE])
    BY <1>1, <1>3, <1>6 DEF Edit, StreamHandler
  <2>2. /\ Placed(x)' /\ InOrder(x)'
        /\ \A e \in In(h'[x].edits) : e \in In(h[x].edits) \/ e.msg = h[x].msg
    BY <1>0, <1>2, <1>6, <2>1, EditMade
  <2>3. Tidy(x)'
    BY <1>2, <1>5, <2>1, <2>2 DEF Tidy
  <2>4. chunks <= chunks'
    BY <1>0, <1>2 DEF StreamTypes
  <2> QED BY <1>2, <1>4, <2>2, <2>3, <2>4, StepOfOne
<1>7. CASE ~Streaming(h[x])
  <2>1. /\ h'[x].msg = h[x].msg /\ h'[x].buf = h[x].buf /\ h'[x].sending = h[x].sending
        /\ h'[x].pc = "closing" /\ ~h'[x].timer /\ h'[x].edits = h[x].edits
    BY <1>1, <1>3, <1>7 DEF Closing, StreamHandler
  <2>2. Tidy(x)'
    <3> SUFFICES ASSUME x \notin beside' PROVE Tidy(x)'
      BY DEF Tidy
    <3>1. h[x].msg = 0
      BY <1>2, <1>5, <1>7 DEF Tidy, Streaming
    <3>2. 0 \notin DOMAIN posts
      BY <1>0 DEF StreamTypes
    <3>3. In(h[x].edits) = {}
      BY <1>2, <1>5, <3>1, <3>2 DEF Tidy, Placed
    <3> QED BY <1>2, <1>5, <2>1, <3>1, <3>2, <3>3 DEF Tidy
  <2> QED BY <1>2, <1>4, <2>1, <2>2, MovesOn
<1> QED BY <1>6, <1>7

LEMMA EditEndsInv == ASSUME StreamInv, StreamTypes', NEW x \in Handlers, EditEnds(x) PROVE StreamInv'
<1>0. StreamTypes /\ Placed(x) /\ InOrder(x) /\ Tidy(x)
  BY DEF StreamInv
<1>1. h[x] \in StreamHandler /\ h[x].edits \in Seq(EditRecord) /\ h \in [Handlers -> StreamHandler] /\ h[x].edits # << >>
      /\ posts \in Seq(Post)
  BY <1>0, StreamTyped DEF StreamTypes, EditEnds
<1>2. PICK e \in EditRecord, rest \in Seq(EditRecord) :
        e = Head(h[x].edits) /\ rest = Tail(h[x].edits) /\ e \in In(h[x].edits) /\ In(rest) \subseteq In(h[x].edits)
  BY <1>1, InTail
<1>3. e.msg \in DOMAIN posts /\ posts[e.msg].by = x /\ (e.kind # "timed" => ~e.cursor)
      /\ e.kind \in {"timed", "tool", "final"}
  BY <1>0, <1>2 DEF Placed, EditRecord
<1>4. PICK ok \in BOOLEAN :
        /\ posts' = IF ok THEN [posts EXCEPT ![e.msg].text = e.text, ![e.msg].cursor = e.cursor] ELSE posts
        /\ beside' = IF e.kind # "timed" /\ (~ok \/ rest # << >>) THEN beside \cup {x} ELSE beside
        /\ h' = [h EXCEPT ![x] =
                   CASE e.kind = "timed" -> IF ok THEN [h[x] EXCEPT !.edits = rest]
                                            ELSE [[h[x] EXCEPT !.edits = rest] EXCEPT !.fails = @ + 1]
                     [] e.kind = "tool" -> [[h[x] EXCEPT !.edits = rest] EXCEPT !.msg = 0, !.buf = << >>]
                     [] e.kind = "final" -> Closing([h[x] EXCEPT !.edits = rest])]
  <2> DEFINE r == [h[x] EXCEPT !.edits = Tail(h[x].edits)]
  <2>1. r.edits = rest /\ r = [h[x] EXCEPT !.edits = rest]
    BY <1>1, <1>2 DEF StreamHandler
  <2>2. PICK ok \in BOOLEAN :
          /\ posts' = IF ok THEN [posts EXCEPT ![e.msg].text = e.text, ![e.msg].cursor = e.cursor] ELSE posts
          /\ beside' = IF e.kind # "timed" /\ (~ok \/ r.edits # << >>) THEN beside \cup {x} ELSE beside
          /\ h' = [h EXCEPT ![x] =
                     CASE e.kind = "timed" -> IF ok THEN r ELSE [r EXCEPT !.fails = r.fails + 1]
                       [] e.kind = "tool" -> [r EXCEPT !.msg = 0, !.buf = << >>]
                       [] e.kind = "final" -> Closing(r)]
    <3>1. e = Head(h[x].edits)
      BY <1>2
    <3> HIDE <1>2
    <3> QED BY <3>1 DEF EditEnds
  <2> HIDE DEF r
  <2> QED BY <2>1, <2>2
<1>5. /\ h'[x].edits = rest /\ h'[x].sending = h[x].sending /\ h'[x].listening = h[x].listening
      /\ h'[x].timer => h[x].timer
      /\ IF e.kind = "tool" THEN h'[x].msg = 0 /\ h'[x].buf = << >> ELSE h'[x].msg = h[x].msg /\ h'[x].buf = h[x].buf
      /\ IF e.kind = "final" THEN h'[x].pc = "closing" /\ ~h'[x].timer ELSE h'[x].pc = h[x].pc
      /\ \A y \in Handlers : y # x => h'[y] = h[y]
  BY <1>1, <1>3, <1>4 DEF Closing, StreamHandler
<1>6. /\ DOMAIN posts' = DOMAIN posts /\ chunks' = chunks /\ beside \subseteq beside'
      /\ \A i \in DOMAIN posts : posts'[i].by = posts[i].by /\ (i # e.msg => posts'[i] = posts[i])
      /\ posts'[e.msg].text \in {posts[e.msg].text, e.text}
      /\ posts'[e.msg].cursor = IF ok THEN e.cursor ELSE posts[e.msg].cursor
  <2>1. posts[e.msg] \in Post
    BY <1>1, <1>3
  <2> QED BY <1>1, <1>3, <1>4, <2>1 DEF EditEnds, Post
<1>7. Placed(x)'
  BY <1>0, <1>2, <1>5, <1>6 DEF Placed
<1>8. \A i \in DOMAIN posts : \A s \in TextsOf(x, i)' : s \in TextsOf(x, i)
  BY <1>2, <1>5, <1>6 DEF TextsOf
<1>9. \A t \in TextsHeld(x)' : t \in TextsHeld(x) \/ In(t) = {}
  BY <1>5, InEmpty DEF TextsHeld
<1>10. \/ h'[x].msg = h[x].msg
       \/ h'[x].msg = 0 /\ (h[x].msg # 0 => \A t \in TextsHeld(x)' : In(t) = {})
  <2> SUFFICES ASSUME e.kind = "tool", h[x].msg # 0 PROVE \A t \in TextsHeld(x)' : In(t) = {}
    BY <1>5
  <2>1. h[x].sending = << >>
    BY <1>0 DEF Placed
  <2> QED BY <1>5, <2>1, InEmpty DEF TextsHeld
<1>11. InOrder(x)'
  BY <1>0, <1>6, <1>8, <1>9, <1>10, OrderStep
<1>12. Tidy(x)'
  <2> SUFFICES ASSUME x \notin beside' PROVE Tidy(x)'
    BY DEF Tidy
  <2>1. x \notin beside /\ (e.kind # "timed" => ok /\ rest = << >>)
    BY <1>4
  <2>2. e.msg = h[x].msg /\ e.msg # 0
    <3>1. e.msg # 0
      BY <1>1, <1>3
    <3> QED BY <1>0, <1>2, <2>1, <3>1 DEF Tidy
  <2>3. h[x].sending = << >>
    BY <1>0, <2>2 DEF Placed
  <2>4. CASE e.kind = "timed"
    BY <1>0, <1>2, <1>3, <1>5, <1>6, <2>1, <2>2, <2>3, <2>4 DEF Tidy
  <2>5. CASE e.kind # "timed"
    <3>1. \A i \in DOMAIN posts' : posts'[i].by = x => ~posts'[i].cursor
      BY <1>0, <1>3, <1>6, <2>1, <2>2, <2>5 DEF Tidy
    <3>2. In(h'[x].edits) = {}
      BY <1>5, <2>1, <2>5, InEmpty
    <3>3. h'[x].pc \in {"finalEdit", "closing", "done"} => ~h'[x].timer
      BY <1>0, <1>5, <2>1 DEF Tidy
    <3>4. h'[x].msg # 0 \/ h'[x].sending # << >> => h'[x].buf # << >>
      BY <1>0, <1>5, <2>1, <2>3 DEF Tidy
    <3> QED BY <1>5, <2>3, <3>1, <3>2, <3>3, <3>4 DEF Tidy
  <2> QED BY <2>4, <2>5
<1>13. chunks <= chunks' /\ \A i \in DOMAIN posts : posts[i].by # x => posts'[i] = posts[i]
  BY <1>0, <1>3, <1>6 DEF StreamTypes
<1> QED BY <1>5, <1>6, <1>7, <1>11, <1>12, <1>13, StepOfOne

(* The steps that touch neither posts nor edits. *)
LEMMA SmallStepsInv ==
    ASSUME StreamInv, StreamTypes', NEW x \in Handlers,
           \/ Begin(x) \/ SendFails(x) \/ Finish(x)
           \/ \E c \in Channels : TurnRejects(c) /\ x = Head(queue[c])
    PROVE  StreamInv'
<1>0. StreamTypes /\ Placed(x) /\ InOrder(x) /\ Tidy(x)
  BY DEF StreamInv
<1>1. h[x] \in StreamHandler /\ h \in [Handlers -> StreamHandler] /\ h[x].sending \in Seq(Seq(Nat))
  BY <1>0, StreamTyped DEF StreamTypes
<1>2. CASE Begin(x)
  <2>1. /\ posts' = posts /\ chunks' = chunks /\ beside' = beside /\ \A y \in Handlers : y # x => h'[y] = h[y]
        /\ h'[x].msg = h[x].msg /\ h'[x].buf = h[x].buf /\ h'[x].edits = h[x].edits
        /\ h'[x].sending = h[x].sending /\ h'[x].pc = "turn"
    BY <1>1, <1>2 DEF Begin, StreamHandler
  <2>2. Tidy(x)'
    BY <1>0, <2>1 DEF Tidy
  <2> QED BY <2>1, <2>2, MovesOn
<1>3. CASE SendFails(x)
  <2>1. h[x].msg = 0 /\ Tail(h[x].sending) = << >>
    BY <1>0, <1>1, <1>3, InTail DEF SendFails, Placed
  <2>2. /\ posts' = posts /\ chunks' = chunks /\ beside' = beside /\ \A y \in Handlers : y # x => h'[y] = h[y]
        /\ h'[x].msg = h[x].msg /\ h'[x].buf = h[x].buf /\ h'[x].edits = h[x].edits
        /\ h'[x].sending = << >> /\ h'[x].pc = h[x].pc /\ h'[x].listening = h[x].listening
        /\ h'[x].timer = h[x].timer
    <3>1. posts' = posts /\ chunks' = chunks /\ beside' = beside
      BY <1>3 DEF SendFails
    <3>2. PICK rejected \in BOOLEAN :
            h' = [h EXCEPT ![x] = [h[x] EXCEPT !.sending = Tail(h[x].sending), !.stuck = rejected]]
      BY <1>3 DEF SendFails
    <3>3. h' = [h EXCEPT ![x] = [h[x] EXCEPT !.sending = << >>, !.stuck = rejected]]
      BY <2>1, <3>2
    <3>4. \A y \in Handlers : y # x => h'[y] = h[y]
      BY <1>1, <3>3
    <3>5. h'[x] = [h[x] EXCEPT !.sending = << >>, !.stuck = rejected]
      BY <1>1, <3>3
    <3> QED BY <1>1, <3>1, <3>4, <3>5 DEF StreamHandler
  <2>3. Tidy(x)'
    BY <1>0, <2>1, <2>2 DEF Tidy
  <2> QED BY <1>0, <2>2, <2>3, MovesOn DEF Placed
<1>4. CASE Finish(x)
  <2>1. /\ posts' = posts /\ chunks' = chunks /\ beside' = beside /\ \A y \in Handlers : y # x => h'[y] = h[y]
        /\ h'[x].msg = h[x].msg /\ h'[x].buf = h[x].buf /\ h'[x].edits = h[x].edits
        /\ h'[x].sending = h[x].sending /\ h'[x].pc = "done" /\ ~h'[x].listening /\ ~h'[x].timer
        /\ h[x].pc = "closing"
    BY <1>1, <1>4 DEF Finish, Finally, StreamHandler
  <2>2. Tidy(x)'
    BY <1>0, <2>1 DEF Tidy
  <2> QED BY <2>1, <2>2, MovesOn
<1>5. ASSUME NEW c \in Channels, TurnRejects(c), x = Head(queue[c]) PROVE StreamInv'
  <2>1. /\ posts' = posts /\ chunks' = chunks /\ beside' = beside /\ \A y \in Handlers : y # x => h'[y] = h[y]
        /\ h'[x].msg = h[x].msg /\ h'[x].buf = h[x].buf /\ h'[x].edits = h[x].edits
        /\ h'[x].sending = h[x].sending /\ h'[x].pc = "failed" /\ ~h'[x].timer
    BY <1>1, <1>5 DEF TurnRejects, Finally, StreamHandler
  <2>2. Tidy(x)'
    BY <1>0, <2>1 DEF Tidy
  <2> QED BY <2>1, <2>2, MovesOn
<1> QED BY <1>2, <1>3, <1>4, <1>5

(* What a session emits is heard by every handler that listens. *)
LEMMA EmitInv ==
    ASSUME StreamInv, StreamTypes', NEW c \in Channels, EmitText(c) \/ EmitTool(c) PROVE StreamInv'
<1>0. StreamTypes /\ chunks \in Nat
  BY DEF StreamInv, StreamTypes
<1> SUFFICES ASSUME NEW y \in Handlers PROVE Placed(y)' /\ InOrder(y)' /\ Tidy(y)'
  BY DEF StreamInv
<1>1. Placed(y) /\ InOrder(y) /\ Tidy(y)
  BY DEF StreamInv
<1>2. CASE EmitText(c)
  <2>1. posts' = posts /\ chunks' = chunks + 1 /\ chunks <= chunks' /\ beside \subseteq beside'
    BY <1>0, <1>2 DEF EmitText
  <2>2. CASE Hears(y, c)
    <3>1. h'[y] = textHandler(h[y], chunks + 1) /\ (Settled(y) => y \in beside') /\ h[y].listening
      BY <1>2, <2>2 DEF EmitText, Hears
    <3> QED BY <1>0, <1>1, <2>1, <3>1, ChunkHeard
  <2>3. CASE ~Hears(y, c)
    <3>1. h'[y] = h[y] /\ (y \in beside' => y \in beside)
      BY <1>2, <2>3 DEF EmitText
    <3> QED BY <1>0, <1>1, <2>1, <3>1, StreamFrame
  <2> QED BY <2>2, <2>3
<1>3. CASE EmitTool(c)
  <2>1. posts' = posts /\ chunks' = chunks /\ chunks <= chunks' /\ beside' = beside
    BY <1>0, <1>3 DEF EmitTool
  <2>2. CASE Hears(y, c)
    <3>1. h'[y] = toolUseHandler(h[y])
      BY <1>3, <2>2 DEF EmitTool
    <3> QED BY <1>0, <1>1, <2>1, <3>1, ToolHeard
  <2>3. CASE ~Hears(y, c)
    <3>1. h'[y] = h[y]
      BY <1>3, <2>3 DEF EmitTool
    <3> QED BY <1>0, <1>1, <2>1, <3>1, StreamFrame
  <2> QED BY <2>2, <2>3
<1> QED BY <1>2, <1>3

LEMMA StreamInvStep == StreamInv /\ [StreamNext]_streamVars => StreamInv'
<1> SUFFICES ASSUME StreamInv, [StreamNext]_streamVars PROVE StreamInv'
  OBVIOUS
<1>0. StreamTypes'
  BY StreamTypesStep
<1>1. ASSUME NEW x \in Handlers, Begin(x) \/ SendFails(x) \/ Finish(x) PROVE StreamInv'
  BY <1>0, <1>1, SmallStepsInv
<1>2. ASSUME NEW x \in Handlers, SendEnds(x) PROVE StreamInv'
  BY <1>0, <1>2, SendEndsInv
<1>3. ASSUME NEW x \in Handlers, TimerFires(x) PROVE StreamInv'
  BY <1>0, <1>3, TimerFiresInv
<1>4. ASSUME NEW x \in Handlers, EditEnds(x) PROVE StreamInv'
  BY <1>0, <1>4, EditEndsInv
<1>5. ASSUME NEW c \in Channels, EmitText(c) \/ EmitTool(c) PROVE StreamInv'
  BY <1>0, <1>5, EmitInv
<1>6. ASSUME NEW c \in Channels, TurnReturns(c) PROVE StreamInv'
  BY <1>0, <1>6, TurnReturnsInv
<1>7. ASSUME NEW c \in Channels, TurnRejects(c) PROVE StreamInv'
  <2>1. queue[c] \in Seq(Handlers) /\ queue[c] # << >>
    BY <1>7 DEF TurnRejects, StreamInv, StreamTypes
  <2>2. Head(queue[c]) \in Handlers
    BY <2>1, InTail
  <2> QED BY <1>0, <1>7, <2>2, SmallStepsInv
<1>8. CASE UNCHANGED streamVars
  <2>1. StreamTypes /\ h' = h /\ posts' = posts /\ chunks' = chunks /\ beside' = beside /\ chunks <= chunks'
    BY <1>8 DEF streamVars, StreamInv, StreamTypes
  <2>2. \A y \in Handlers : Placed(y)' /\ InOrder(y)' /\ Tidy(y)'
    BY <1>0, <2>1, StreamFrame DEF StreamInv
  <2> QED BY <1>0, <2>2 DEF StreamInv
<1> QED BY <1>1, <1>2, <1>3, <1>4, <1>5, <1>6, <1>7, <1>8 DEF StreamNext

(* The records of every handler and the posts of the channel have their types. *)
THEOREM StreamTypeCorrect == StreamSpec => []StreamTypes
<1>1. StreamInv => StreamTypes
  BY DEF StreamInv
<1> QED BY <1>1, StreamInitInv, StreamInvStep, PTL DEF StreamSpec

LEMMA StreamInvSound == StreamInv => ReplySound
<1> SUFFICES ASSUME StreamInv PROVE ReplySound
  OBVIOUS
<1>0. StreamTypes /\ \A x \in Handlers : Placed(x) /\ InOrder(x) /\ Tidy(x)
  BY DEF StreamInv
<1>1. \A x \in Handlers : Len(h[x].sending) <= 1
  <2> SUFFICES ASSUME NEW x \in Handlers PROVE Len(h[x].sending) <= 1
    OBVIOUS
  <2>1. CASE h[x].sending = << >>
    BY <2>1
  <2>2. CASE h[x].sending # << >>
    <3>1. Len(h[x].sending) = 1
      BY <1>0, <2>2 DEF Placed
    <3>2. Len(h[x].sending) = 1 => Len(h[x].sending) <= 1
      BY ONLY TRUE
    <3> QED BY <3>1, <3>2
  <2> QED BY <2>1, <2>2
<1>2. ASSUME NEW i \in DOMAIN posts, NEW j \in DOMAIN posts, i < j, posts[i].by = posts[j].by,
             NEW a \in DOMAIN posts[i].text, NEW b \in DOMAIN posts[j].text
      PROVE  posts[i].text[a] < posts[j].text[b]
  <2>1. PICK x \in Handlers : posts[i].by = x /\ posts[j].by = x
    BY <1>0, <1>2, StreamTyped
  <2>2. posts[i].text \in TextsOf(x, i) /\ posts[j].text \in TextsOf(x, j)
    BY DEF TextsOf
  <2>3. Earlier(posts[i].text, posts[j].text)
    BY <1>0, <1>2, <2>1, <2>2 DEF InOrder
  <2> QED BY <2>3 DEF Earlier, In
<1>3. CursorUnlessRaced
  <2>1. \A i \in DOMAIN posts : posts[i].by \in Handlers
    BY <1>0, StreamTyped
  <2> QED BY <1>0, <2>1 DEF CursorUnlessRaced, Quiet, Tidy
<1> QED BY <1>1, <1>2, <1>3 DEF ReplySound, OneFirstSend

(* However chunks, tools, sends, edits, timers and turns of a channel        *)
(* interleave, its stream is posted once per message, each chunk is shown    *)
(* once and in order, and unless a race is on record no cursor is left.      *)
THEOREM ReplySoundCorrect == StreamSpec => []ReplySound
  BY StreamInitInv, StreamInvStep, StreamInvSound, PTL DEF StreamSpec

(* Notifications.tla *)

Note == [text : Notices, at : Nat]
NoteTypes ==
    /\ clock \in Nat
    /\ prefs \in Seq(Rooms) /\ made \in Nat
    /\ rate \in [Rooms -> [times : Seq(Nat), recent : SUBSET Note]]
    /\ calls \in SUBSET [text : Notices, at : Nat \ {0}, n : Nat]
    /\ delivered \in [Rooms -> Seq(Note)]

(* What a channel got is in the order of the clock. *)
Ordered(d, date) ==
    \A i \in 1..Len(d) : d[i].at <= date /\ \A j \in i..Len(d) : d[i].at <= d[j].at

(* The times kept are those of all but k that are out of every window. *)
KeptTimes(d, times, k, date) ==
    /\ Len(times) = Len(d) - k
    /\ \A i \in 1..Len(times) : times[i] = d[k + i].at
    /\ \A i \in 1..k : date - d[i].at >= RateWindow

(* Every text in its window is remembered with its time. *)
Remembered(d, noted, date) ==
    \A i \in 1..Len(d) :
       date - d[i].at < RateWindow => [text |-> d[i].text, at |-> d[i].at] \in noted

(* No window of one channel is over the limits. *)
RoomQuota(d) ==
    \A i \in 1..Len(d) :
        LET window == {j \in i..Len(d) : d[j].at - d[i].at < RateWindow}
        IN  /\ Cardinality(window) <= RateLimit
            /\ \A j, k \in window : d[j].text = d[k].text => j = k

RoomSound(r) ==
    /\ Ordered(delivered[r], clock)
    /\ \E k \in 0..Len(delivered[r]) : KeptTimes(delivered[r], rate[r].times, k, clock)
    /\ Remembered(delivered[r], rate[r].recent, clock)
    /\ RoomQuota(delivered[r])

NoteInv == NoteTypes /\ \A r \in Rooms : RoomSound(r)

LEMMA NoteInitInv == NoteInit => NoteInv
<1> SUFFICES ASSUME NoteInit PROVE NoteInv
  OBVIOUS
<1>1. NoteTypes
  BY NoteAssumption DEF NoteInit, NoteTypes
<1>2. ASSUME NEW r \in Rooms PROVE RoomSound(r)
  <2>1. delivered[r] = <<>> /\ rate[r].times = <<>>
    BY DEF NoteInit
  <2> QED BY <2>1 DEF RoomSound, Ordered, KeptTimes, Remembered, RoomQuota
<1> QED BY <1>1, <1>2 DEF NoteInv

(* What the check still counts: the deliveries after k, all others out of the window. *)
LEMMA RecentKept ==
    ASSUME NoteTypes, NEW r \in Rooms, RoomSound(r)
    PROVE  /\ Recent(r) \in Seq(Nat)
           /\ \E k \in 0..Len(delivered[r]) : KeptTimes(delivered[r], Recent(r), k, clock)
<1> DEFINE d == delivered[r]
           times == rate[r].times
           S == {t \in 0..clock : clock - t < RateWindow}
<1>1. /\ d \in Seq(Note) /\ times \in Seq(Nat) /\ clock \in Nat /\ RateWindow \in Nat
  BY NoteAssumption DEF NoteTypes
<1>2. PICK k \in 0..Len(d) : KeptTimes(d, times, k, clock)
  BY DEF RoomSound
<1>3. Ordered(d, clock) /\ Recent(r) = Only(times, S)
  BY DEF RoomSound, Recent
<1> DEFINE n == Len(d)
           l == Len(times)
<1>4. n \in Nat /\ l \in Nat /\ l = n - k /\ k \in Nat /\ \A i \in 1..n : d[i].at \in Nat
  <2>1. n \in Nat /\ l \in Nat /\ k \in 0..n
    BY <1>1
  <2>2. l = n - k
    BY <1>2 DEF KeptTimes
  <2>3. \A i \in 1..n : d[i] \in Note
    BY <1>1
  <2> QED BY <2>1, <2>2, <2>3 DEF Note
<1> HIDE DEF d, times
<1>5. \A i \in 1..l : k + i \in 1..n /\ times[i] = d[k + i].at
  <2>1. \A i \in 1..l : times[i] = d[k + i].at
    BY <1>2 DEF KeptTimes
  <2>2. \A i \in 1..l : k + i \in 1..n
    BY <1>4
  <2> QED BY <2>1, <2>2
<1>6. ASSUME NEW i \in 1..l, NEW j \in 1..l, i <= j, times[i] \in S PROVE times[j] \in S
  <2>1. times[i] = d[k + i].at /\ times[j] = d[k + j].at /\ k + i \in 1..n /\ k + j \in (k + i)..n
    BY <1>4, <1>5, <1>6
  <2>2. d[k + j].at <= clock /\ d[k + i].at <= d[k + j].at /\ k + j \in 1..n
    <3>1. k + j \in 1..n
      BY <1>5
    <3> QED BY <1>3, <2>1, <3>1 DEF Ordered
  <2>3. times[j] \in 0..clock /\ times[i] <= times[j]
    BY <1>1, <1>4, <2>1, <2>2
  <2> QED BY <1>1, <1>6, <2>3
<1>7. PICK m \in 0..l : TailFrom(Only(times, S), times, m) /\ \A i \in 1..m : times[i] \notin S
  BY <1>1, <1>6, OnlyTail
<1>8. Only(times, S) \in Seq(Nat)
  BY <1>1, OnlyType
<1> DEFINE kept == Only(times, S)
<1>9. Len(kept) \in Nat /\ Len(kept) = l - m /\ \A j \in 1..Len(kept) : kept[j] = times[m + j]
  BY <1>7, <1>8 DEF TailFrom
<1> HIDE DEF kept
<1>10. ASSUME NEW j \in 1..Len(kept) PROVE kept[j] = d[k + m + j].at
  <2>1. m + j \in 1..l /\ k + (m + j) = k + m + j
    BY <1>4, <1>9
  <2>2. kept[j] = times[m + j] /\ times[m + j] = d[k + (m + j)].at
    BY <1>5, <1>9, <2>1
  <2> QED BY <2>1, <2>2
<1>11. ASSUME NEW i \in 1..(k + m) PROVE clock - d[i].at >= RateWindow
  <2>1. CASE i <= k
    BY <1>2, <1>4, <2>1 DEF KeptTimes
  <2>2. CASE i > k
    <3>1. i - k \in 1..m /\ i - k \in 1..l /\ k + (i - k) = i
      BY <1>4, <2>2
    <3>2. times[i - k] \notin S /\ times[i - k] = d[i].at
      BY <1>5, <1>7, <3>1
    <3>3. d[i].at \in 0..clock
      BY <1>1, <1>3, <1>4, <3>1 DEF Ordered
    <3> QED BY <1>1, <3>2, <3>3
  <2> QED BY <1>4, <2>1, <2>2
<1>12. k + m \in 0..n /\ KeptTimes(d, kept, k + m, clock)
  BY <1>4, <1>9, <1>10, <1>11 DEF KeptTimes
<1> QED BY <1>3, <1>8, <1>12 DEF kept, d

(* A delivery that passed the check breaks no window. *)
LEMMA DeliveredStep ==
    ASSUME NoteTypes, NEW r \in Rooms, RoomSound(r), NEW words \in Notices, checkRateAndDedup(r, words)
    PROVE  LET note == [text |-> words, at |-> clock]
               after == Append(delivered[r], note)
           IN  /\ after \in Seq(Note)
               /\ Ordered(after, clock)
               /\ \E k \in 0..Len(after) : KeptTimes(after, Append(Recent(r), clock), k, clock)
               /\ Remembered(after, {e \in rate[r].recent : e.text # words /\ clock - e.at < RateWindow} \cup {note}, clock)
               /\ RoomQuota(after)
<1> DEFINE note == [text |-> words, at |-> clock]
           d == delivered[r]
           after == Append(d, note)
           times == Recent(r)
           noted == rate[r].recent
           recentAfter == {e \in noted : e.text # words /\ clock - e.at < RateWindow} \cup {note}
           n == Len(d)
           l == Len(times)
<1>1. /\ d \in Seq(Note) /\ clock \in Nat /\ RateWindow \in Nat /\ RateLimit \in Nat
      /\ noted \in SUBSET Note /\ note \in Note
  BY NoteAssumption DEF NoteTypes, Note
<1>2. Ordered(d, clock) /\ Remembered(d, noted, clock) /\ RoomQuota(d)
  BY DEF RoomSound
<1>3. times \in Seq(Nat) /\ \E k \in 0..n : KeptTimes(d, times, k, clock)
  BY RecentKept
<1>4. PICK k \in 0..n : KeptTimes(d, times, k, clock)
  BY <1>3
<1>5. /\ \A e \in noted : e.text = words => ~(clock - e.at < RateWindow)
      /\ l < RateLimit
  BY DEF checkRateAndDedup, Repeated
<1> HIDE DEF times, noted
<1>6. n \in Nat /\ l \in Nat /\ k \in Nat /\ k <= n
  BY <1>1, <1>3
<1>7. l = n - k
  BY <1>4 DEF KeptTimes
<1>8. \A i \in 1..n : d[i] \in Note /\ d[i].at \in Nat /\ d[i].text \in Notices
  <2>1. \A i \in 1..n : d[i] \in Note
    BY <1>1
  <2> QED BY <2>1 DEF Note
<1> HIDE DEF d
<1>9. /\ after \in Seq(Note) /\ Len(after) = n + 1 /\ after[n + 1] = note
      /\ \A i \in 1..n : after[i] = d[i]
  BY <1>1
<1>10. note.text = words /\ note.at = clock
  OBVIOUS
<1> HIDE DEF after, note, n, l
<1>11. \A i \in 1..(n + 1) : i \in 1..n \/ i = n + 1
  BY <1>6
<1>12. \A i \in 1..n : d[i].at <= clock /\ \A j \in i..n : d[i].at <= d[j].at
  BY <1>2 DEF Ordered, n
<1>13. Ordered(after, clock)
  <2>1. ASSUME NEW i \in 1..(n + 1) PROVE after[i].at <= clock
    <3>1. CASE i \in 1..n
      BY <1>9, <1>12, <3>1
    <3>2. CASE i = n + 1
      BY <1>1, <1>9, <1>10, <3>2
    <3> QED BY <1>11, <3>1, <3>2
  <2>2. ASSUME NEW i \in 1..(n + 1), NEW j \in i..(n + 1) PROVE after[i].at <= after[j].at
    <3>1. CASE j = n + 1
      BY <1>9, <1>10, <2>1, <3>1
    <3>2. CASE j # n + 1
      <4>1. i \in 1..n /\ j \in i..n /\ j \in 1..n
        BY <1>6, <3>2
      <4> QED BY <1>9, <1>12, <4>1
    <3> QED BY <3>1, <3>2
  <2> QED BY <1>9, <2>1, <2>2 DEF Ordered
<1>14. k \in 0..Len(after) /\ KeptTimes(after, Append(times, clock), k, clock)
  <2>1. /\ Len(Append(times, clock)) = l + 1 /\ Append(times, clock)[l + 1] = clock
        /\ \A i \in 1..l : Append(times, clock)[i] = times[i]
    BY <1>1, <1>3 DEF l
  <2>2. \A i \in 1..l : k + i \in 1..n /\ times[i] = d[k + i].at
    BY <1>4, <1>6, <1>7 DEF KeptTimes, l
  <2>3. \A i \in 1..k : i \in 1..n /\ clock - d[i].at >= RateWindow
    BY <1>4, <1>6 DEF KeptTimes
  <2>4. l + 1 = (n + 1) - k /\ k + (l + 1) = n + 1 /\ k \in 0..(n + 1)
    BY <1>6, <1>7
  <2>5. ASSUME NEW i \in 1..(l + 1) PROVE Append(times, clock)[i] = after[k + i].at
    <3>1. CASE i \in 1..l
      <4>1. k + i \in 1..n /\ times[i] = d[k + i].at
        BY <2>2, <3>1
      <4>2. after[k + i] = d[k + i]
        BY <1>9, <4>1
      <4>3. Append(times, clock)[i] = times[i]
        BY <2>1, <3>1
      <4> QED BY <4>1, <4>2, <4>3
    <3>2. CASE i = l + 1
      BY <1>9, <1>10, <2>1, <2>4, <3>2
    <3>3. i \in 1..l \/ i = l + 1
      BY <1>6
    <3> QED BY <3>1, <3>2, <3>3
  <2> QED BY <1>9, <2>1, <2>3, <2>4, <2>5 DEF KeptTimes
<1>15. Remembered(after, recentAfter, clock)
  <2>1. ASSUME NEW i \in 1..(n + 1), clock - after[i].at < RateWindow
        PROVE  [text |-> after[i].text, at |-> after[i].at] \in recentAfter
    <3>1. CASE i = n + 1
      BY <1>9, <1>10, <3>1 DEF note
    <3>2. CASE i \in 1..n
      <4> DEFINE e == [text |-> d[i].text, at |-> d[i].at]
      <4>1. after[i].text = d[i].text /\ after[i].at = d[i].at
        BY <1>9, <3>2
      <4>2. e \in noted
        BY <1>2, <2>1, <3>2, <4>1 DEF Remembered, n
      <4>3. e.at = d[i].at /\ clock - e.at < RateWindow
        BY <2>1, <4>1
      <4> HIDE DEF e
      <4>4. e.text # words
        BY <1>5, <4>2, <4>3
      <4>5. e \in recentAfter
        BY <4>2, <4>3, <4>4
      <4> QED BY <4>1, <4>5 DEF e
    <3> QED BY <1>11, <3>1, <3>2
  <2> QED BY <1>9, <2>1 DEF Remembered
<1>16. RoomQuota(after)
  <2> DEFINE Within(i) == {j \in i..Len(after) : after[j].at - after[i].at < RateWindow}
  <2>1. SUFFICES ASSUME NEW i \in 1..(n + 1)
                 PROVE  /\ Cardinality(Within(i)) <= RateLimit
                        /\ \A a, b \in Within(i) : after[a].text = after[b].text => a = b
    BY <1>9 DEF RoomQuota
  <2>2. Within(i) \subseteq i..(n + 1) /\ \A j \in Within(i) : after[j].at - after[i].at < RateWindow
    BY <1>9
  <2>3. CASE n + 1 \notin Within(i)
    <3>1. Within(i) \subseteq i..n
      BY <1>6, <2>2, <2>3
    <3>2. CASE Within(i) = {}
      <4>1. Cardinality(Within(i)) = 0
        BY <3>2, FS_EmptySet
      <4> HIDE DEF Within
      <4> QED BY <1>1, <3>2, <4>1
    <3>3. CASE Within(i) # {}
      <4>1. i \in 1..n
        BY <1>6, <3>1, <3>3
      <4>2. \A j \in i..n : j \in 1..n
        BY <4>1
      <4>3. Within(i) = {j \in i..n : d[j].at - d[i].at < RateWindow}
        <5>1. \A j \in i..(n + 1) : j \in Within(i) <=> after[j].at - after[i].at < RateWindow
          BY <1>9
        <5>2. \A j \in i..n : j \in i..(n + 1) /\ after[j] = d[j] /\ after[i] = d[i]
          BY <1>6, <1>9, <4>1, <4>2
        <5> QED BY <3>1, <5>1, <5>2
      <4>4. /\ Cardinality({j \in i..n : d[j].at - d[i].at < RateWindow}) <= RateLimit
            /\ \A a, b \in {j \in i..n : d[j].at - d[i].at < RateWindow} : d[a].text = d[b].text => a = b
        BY <1>2, <4>1 DEF RoomQuota, n
      <4>5. \A a \in Within(i) : after[a] = d[a]
        BY <1>9, <3>1, <4>2
      <4> HIDE DEF Within
      <4>6. Cardinality(Within(i)) <= RateLimit
        BY <4>3, <4>4
      <4>7. \A a, b \in Within(i) : d[a].text = d[b].text => a = b
        BY <4>3, <4>4
      <4> QED BY <4>5, <4>6, <4>7
    <3> QED BY <3>2, <3>3
  <2>4. CASE n + 1 \in Within(i)
    <3>1. clock - after[i].at < RateWindow /\ after[i].at <= clock /\ after[i].at \in Nat
      <4>1. CASE i = n + 1
        BY <1>1, <1>9, <1>10, <2>2, <2>4, <4>1
      <4>2. CASE i \in 1..n
        BY <1>8, <1>9, <1>10, <1>12, <2>2, <2>4, <4>2
      <4> QED BY <1>11, <4>1, <4>2
    <3>2. i > k
      <4>1. \A j \in 1..k : j \in 1..n /\ clock - d[j].at >= RateWindow
        BY <1>4, <1>6 DEF KeptTimes
      <4>2. ASSUME i \in 1..k PROVE FALSE
        <5>1. i \in 1..n /\ clock - d[i].at >= RateWindow
          BY <4>1, <4>2
        <5>2. after[i] = d[i] /\ d[i].at \in Nat
          BY <1>8, <1>9, <5>1
        <5> QED BY <1>1, <3>1, <5>1, <5>2
      <4> QED BY <1>6, <4>2
    <3>3. Within(i) \subseteq (k + 1)..(n + 1)
      BY <1>6, <2>2, <3>2
    <3>4. IsFiniteSet((k + 1)..(n + 1)) /\ Cardinality((k + 1)..(n + 1)) = l + 1
      <4>1. k + 1 \in Int /\ n + 1 \in Int /\ ~(k + 1 > n + 1) /\ (n + 1) - (k + 1) + 1 = l + 1
        BY <1>6, <1>7
      <4> QED BY <4>1, FS_Interval
    <3>5. Cardinality(Within(i)) <= l + 1
      BY <3>3, <3>4, FS_Subset
    <3>6. Cardinality(Within(i)) <= RateLimit
      <4>1. IsFiniteSet(Within(i)) /\ Cardinality(Within(i)) \in Nat
        BY <3>3, <3>4, FS_Subset, FS_CardinalityType
      <4> QED BY <1>1, <1>5, <1>6, <3>5, <4>1 DEF l
    <3>7. ASSUME NEW a \in Within(i), a \in 1..n PROVE after[a].text # words
      <4>1. after[i].at <= after[a].at
        BY <1>9, <1>13, <2>2 DEF Ordered
      <4>2. after[a] = d[a] /\ d[a].at \in Nat
        BY <1>8, <1>9, <3>7
      <4>3. clock - d[a].at < RateWindow
        BY <1>1, <3>1, <4>1, <4>2
      <4> DEFINE e == [text |-> d[a].text, at |-> d[a].at]
      <4>4. e \in noted /\ e.at = d[a].at /\ e.text = d[a].text
        BY <1>2, <3>7, <4>3 DEF Remembered, n
      <4> HIDE DEF e
      <4> QED BY <1>5, <4>2, <4>3, <4>4
    <3>8. ASSUME NEW a \in Within(i), NEW b \in Within(i), after[a].text = after[b].text PROVE a = b
      <4>1. a \in 1..(n + 1) /\ b \in 1..(n + 1)
        BY <1>6, <2>2
      <4>2. CASE a = n + 1 \/ b = n + 1
        BY <1>9, <1>10, <1>11, <3>7, <3>8, <4>1, <4>2
      <4>3. CASE a \in 1..n /\ b \in 1..n
        <5>1. i \in 1..n /\ a \in i..n /\ b \in i..n
          BY <1>6, <2>2, <4>3
        <5>2. d[a].at - d[i].at < RateWindow /\ d[b].at - d[i].at < RateWindow /\ d[a].text = d[b].text
          BY <1>9, <2>2, <3>8, <4>3, <5>1
        <5>3. \A x, y \in {j \in i..n : d[j].at - d[i].at < RateWindow} : d[x].text = d[y].text => x = y
          BY <1>2, <5>1 DEF RoomQuota, n
        <5> QED BY <5>1, <5>2, <5>3
      <4> QED BY <1>11, <4>1, <4>2, <4>3
    <3> QED BY <3>6, <3>8
  <2> QED BY <2>3, <2>4
<1> QED BY <1>9, <1>13, <1>14, <1>15, <1>16 DEF d, after, note, noted, times

LEMMA NoteInvStep ==
    ASSUME NoteInv, [NoteNext]_noteVars
    PROVE  NoteInv'
<1>0. NoteTypes /\ \A r \in Rooms : RoomSound(r)
  BY DEF NoteInv
<1>1. ASSUME UNCHANGED <<clock, rate, delivered>>, prefs' \in Seq(Rooms), made' \in Nat,
             calls' \in SUBSET [text : Notices, at : Nat \ {0}, n : Nat]
      PROVE  NoteInv'
  <2>1. NoteTypes'
    BY <1>0, <1>1 DEF NoteTypes
  <2>2. ASSUME NEW r \in Rooms PROVE RoomSound(r)'
    BY <1>0, <1>1 DEF RoomSound
  <2> QED BY <2>1, <2>2 DEF NoteInv
<1>2. /\ prefs \in Seq(Rooms) /\ calls \in SUBSET [text : Notices, at : Nat \ {0}, n : Nat]
      /\ made \in Nat /\ clock \in Nat /\ rate \in [Rooms -> [times : Seq(Nat), recent : SUBSET Note]]
      /\ delivered \in [Rooms -> Seq(Note)]
  BY <1>0 DEF NoteTypes
<1>3. ASSUME NEW r \in Rooms, Subscribe(r) PROVE NoteInv'
  BY <1>1, <1>2, <1>3 DEF Subscribe
<1>4. ASSUME NEW words \in Notices, Notify(words) PROVE NoteInv'
  BY <1>1, <1>2, <1>4 DEF Notify
<1>5. ASSUME NEW c \in calls, NotifyReturns(c) PROVE NoteInv'
  BY <1>1, <1>2, <1>5 DEF NotifyReturns
<1>6. ASSUME NEW c \in calls, NextRoom(c) PROVE NoteInv'
  <2> DEFINE room == prefs[c.at]
  <2>1. c.text \in Notices /\ c.at \in Nat \ {0} /\ c.n \in Nat
    BY <1>2
  <2>2. room \in Rooms
    BY <1>2, <1>6, <2>1 DEF NextRoom
  <2>3. PICK r \in Rooms : r = room
    BY <2>2
  <2>4. prefs' \in Seq(Rooms) /\ made' \in Nat /\ calls' \in SUBSET [text : Notices, at : Nat \ {0}, n : Nat] /\ clock' = clock
    <3>1. [c EXCEPT !.at = @ + 1] = [text |-> c.text, at |-> c.at + 1, n |-> c.n]
      <4>1. c \in [text : Notices, at : Nat \ {0}, n : Nat]
        BY <1>2
      <4> QED BY <4>1
    <3>2. [c EXCEPT !.at = @ + 1] \in [text : Notices, at : Nat \ {0}, n : Nat]
      BY <2>1, <3>1
    <3> QED BY <1>2, <1>6, <3>2 DEF NextRoom
  <2>5. CASE ~checkRateAndDedup(r, c.text)
    <3>1. UNCHANGED <<rate, delivered>>
      BY <1>6, <2>3, <2>5 DEF NextRoom
    <3> QED BY <1>1, <2>4, <3>1
  <2>6. CASE checkRateAndDedup(r, c.text)
    <3> DEFINE note == [text |-> c.text, at |-> clock]
               after == Append(delivered[r], note)
               times == Append(Recent(r), clock)
               noted == {e \in rate[r].recent : e.text # c.text /\ clock - e.at < RateWindow} \cup {note}
    <3>1. /\ rate' = [rate EXCEPT ![r] = [times |-> times, recent |-> noted]]
          /\ delivered' = [delivered EXCEPT ![r] = after]
      BY <1>6, <2>3, <2>6 DEF NextRoom
    <3>2. /\ after \in Seq(Note) /\ Ordered(after, clock) /\ Remembered(after, noted, clock) /\ RoomQuota(after)
          /\ \E k \in 0..Len(after) : KeptTimes(after, times, k, clock)
      BY <1>0, <2>1, <2>6, DeliveredStep
    <3>3. times \in Seq(Nat)
      BY <1>0, <1>2, RecentKept
    <3>4. noted \in SUBSET Note
      BY <1>2, <2>1 DEF Note
    <3> HIDE DEF after, times, noted
    <3>5. NoteTypes'
      BY <1>2, <2>4, <3>1, <3>2, <3>3, <3>4 DEF NoteTypes
    <3>6. ASSUME NEW o \in Rooms PROVE RoomSound(o)'
      <4>1. CASE o = r
        <5>1. delivered'[o] = after /\ rate'[o].times = times /\ rate'[o].recent = noted
          BY <1>2, <3>1, <4>1
        <5> QED BY <2>4, <3>2, <5>1 DEF RoomSound
      <4>2. CASE o # r
        <5>1. delivered'[o] = delivered[o] /\ rate'[o] = rate[o] /\ RoomSound(o)
          BY <1>0, <1>2, <3>1, <4>2
        <5> QED BY <2>4, <5>1 DEF RoomSound
      <4> QED BY <4>1, <4>2
    <3> QED BY <3>5, <3>6 DEF NoteInv
  <2> QED BY <2>5, <2>6
<1>7. ASSUME Pass PROVE NoteInv'
  <2>1. clock' = clock + 1 /\ UNCHANGED <<prefs, rate, calls, made, delivered>>
    BY <1>7 DEF Pass
  <2>2. NoteTypes'
    BY <1>2, <2>1 DEF NoteTypes
  <2>3. ASSUME NEW r \in Rooms PROVE RoomSound(r)'
    <3> DEFINE d == delivered[r]
    <3>1. RoomSound(r) /\ d \in Seq(Note) /\ RateWindow \in Nat
      BY <1>0, <1>2, NoteAssumption
    <3>2. \A i \in 1..Len(d) : d[i].at \in Nat
      <4>1. \A i \in 1..Len(d) : d[i] \in Note
        BY <3>1
      <4> QED BY <4>1 DEF Note
    <3>3. PICK k \in 0..Len(d) : KeptTimes(d, rate[r].times, k, clock)
      BY <3>1 DEF RoomSound
    <3>4. delivered'[r] = d /\ rate'[r] = rate[r]
      BY <2>1
    <3> HIDE DEF d
    <3>5. \A i \in 1..k : i \in 1..Len(d)
      BY <3>1
    <3>6. KeptTimes(d, rate[r].times, k, clock + 1)
      BY <1>2, <3>1, <3>2, <3>3, <3>5 DEF KeptTimes
    <3>7. Ordered(d, clock + 1)
      <4>1. Ordered(d, clock)
        BY <3>1 DEF RoomSound, d
      <4> QED BY <1>2, <3>2, <4>1 DEF Ordered
    <3>8. Remembered(d, rate[r].recent, clock + 1)
      <4>1. Remembered(d, rate[r].recent, clock)
        BY <3>1 DEF RoomSound, d
      <4>2. \A i \in 1..Len(d) : (clock + 1) - d[i].at < RateWindow => clock - d[i].at < RateWindow
        BY <1>2, <3>1, <3>2
      <4> QED BY <4>1, <4>2 DEF Remembered
    <3>9. RoomQuota(d)
      BY <3>1 DEF RoomSound, d
    <3> QED BY <2>1, <3>3, <3>4, <3>6, <3>7, <3>8, <3>9 DEF RoomSound
  <2> QED BY <2>2, <2>3 DEF NoteInv
<1>8. ASSUME UNCHANGED noteVars PROVE NoteInv'
  BY <1>1, <1>2, <1>8 DEF noteVars
<1> QED
  BY <1>3, <1>4, <1>5, <1>6, <1>7, <1>8 DEF NoteNext

(* comms/notifications.ts:2, for any channels, notifications, limit and window: *)
(* however the calls overlap, no window of a channel, wherever it begins, holds *)
(* more than the limit, or the same notification twice.                         *)
THEOREM QuotaHolds == NoteSpec => []Quota
<1>1. NoteInv => Quota
  <2> SUFFICES ASSUME NoteInv, NEW r \in Rooms, NEW i \in DOMAIN delivered[r]
               PROVE  LET window == {j \in i..Len(delivered[r]) : delivered[r][j].at - delivered[r][i].at < RateWindow}
                      IN  /\ Cardinality(window) <= RateLimit
                          /\ \A j, k \in window : delivered[r][j].text = delivered[r][k].text => j = k
    BY DEF Quota
  <2>1. RoomQuota(delivered[r]) /\ delivered[r] \in Seq(Note)
    BY DEF NoteInv, RoomSound, NoteTypes
  <2>2. i \in 1..Len(delivered[r])
    BY <2>1
  <2> QED BY <2>1, <2>2 DEF RoomQuota
<1> QED
  BY <1>1, NoteInitInv, NoteInvStep, PTL DEF NoteSpec

(* MessageDedup.tla *)

Entry == [id : Messages, at : Nat]

(* No message is in the memory twice. *)
OneOfEach(es) == \A i, j \in 1..Len(es) : es[i].id = es[j].id => i = j

Memory == {es \in Seq(Entry) : OneOfEach(es)}

DedupTypes ==
    /\ now \in Nat
    /\ entries \in Memory /\ file \in Memory
    /\ \A w \in writes : w.content \in Memory
    /\ handledAt \in [Messages -> Nat \cup {Never}]

(* What was handled within its window and was not forgotten is in the memory. *)
Known(m) ==
    handledAt[m] # Never /\ now - handledAt[m] < Window /\ m \notin forgotten
      => [id |-> m, at |-> handledAt[m]] \in Held(entries)

DedupInv == DedupTypes /\ (stage # "down" => \A m \in Messages : Known(m))

LEMMA DedupInitInv == DedupInit => DedupInv
<1> SUFFICES ASSUME DedupInit PROVE DedupInv
  OBVIOUS
<1>1. <<>> \in Memory
  BY DEF Memory, OneOfEach
<1> QED BY <1>1 DEF DedupInit, DedupInv, DedupTypes, Never

(* A back end of a memory is a memory. *)
LEMMA BackOf ==
    ASSUME NEW es \in Memory, NEW a \in 1..Len(es)
    PROVE  /\ SubSeq(es, a, Len(es)) \in Memory
           /\ Held(SubSeq(es, a, Len(es))) \subseteq Held(es)
           /\ \A i \in a..Len(es) : es[i] \in Held(SubSeq(es, a, Len(es)))
<1> DEFINE n == Len(es)
           t == SubSeq(es, a, n)
<1>1. es \in Seq(Entry) /\ n \in Nat /\ OneOfEach(es)
  BY DEF Memory
<1>2. /\ t \in Seq(Entry) /\ Len(t) = n - a + 1
      /\ \A i \in 1..(n - a + 1) : t[i] = es[a + i - 1]
  BY <1>1, SubSeqProperties
<1> HIDE DEF t
<1>3. \A i \in 1..Len(t) : a + i - 1 \in 1..n /\ t[i] = es[a + i - 1]
  BY <1>1, <1>2
<1>4. OneOfEach(t)
  BY <1>1, <1>2, <1>3 DEF OneOfEach
<1>5. Held(t) \subseteq Held(es)
  BY <1>1, <1>2, <1>3 DEF Held
<1>6. ASSUME NEW i \in a..n PROVE es[i] \in Held(t)
  <2>1. i - a + 1 \in 1..Len(t) /\ t[i - a + 1] = es[i]
    BY <1>1, <1>2
  <2> QED BY <1>2, <2>1 DEF Held
<1> QED BY <1>2, <1>4, <1>5, <1>6 DEF Memory, t

(* pruneStale drops nothing that is in its window. *)
LEMMA PruneKeeps ==
    ASSUME NEW es \in Memory
    PROVE  /\ pruneStale(es) \in Memory
           /\ Held(pruneStale(es)) \subseteq Held(es)
           /\ \A e \in Held(es) : NotStale(e) => e \in Held(pruneStale(es))
<1> DEFINE fresh == {i \in DOMAIN es : NotStale(es[i])}
           first == CHOOSE i \in fresh : \A j \in fresh : i <= j
<1>1. es \in Seq(Entry) /\ DOMAIN es = 1..Len(es)
  BY DEF Memory
<1>2. CASE fresh = {}
  <2>1. pruneStale(es) = <<>>
    BY <1>2 DEF pruneStale
  <2>2. <<>> \in Memory /\ Held(<<>>) = {}
    BY DEF Memory, OneOfEach, Held
  <2> QED BY <1>2, <2>1, <2>2 DEF Held
<1>3. CASE fresh # {}
  <2>1. fresh \in SUBSET Nat
    BY <1>1
  <2>2. \E i \in fresh : \A j \in fresh : i <= j
    BY <1>3, <2>1, LeastNatural
  <2>3. pruneStale(es) = SubSeq(es, first, Len(es))
    BY <1>3 DEF pruneStale
  <2>4. first \in fresh /\ \A j \in fresh : first <= j
    BY <2>2
  <2> HIDE DEF first
  <2>5. first \in 1..Len(es) /\ \A i \in 1..Len(es) : NotStale(es[i]) => i \in first..Len(es)
    BY <1>1, <2>4
  <2>6. /\ pruneStale(es) \in Memory /\ Held(pruneStale(es)) \subseteq Held(es)
        /\ \A i \in first..Len(es) : es[i] \in Held(pruneStale(es))
    BY <2>3, <2>5, BackOf
  <2>7. \A e \in Held(es) : \E i \in 1..Len(es) : e = es[i]
    BY <1>1 DEF Held
  <2> QED BY <2>5, <2>6, <2>7
<1> QED BY <1>2, <1>3

(* Evict keeps the newest. *)
LEMMA EvictKeeps ==
    ASSUME NEW es \in Memory
    PROVE  /\ Evict(es) \in Memory /\ Held(Evict(es)) \subseteq Held(es)
           /\ Len(es) > 0 => es[Len(es)] \in Held(Evict(es))
<1>1. es \in Seq(Entry) /\ Len(es) \in Nat /\ MaxEntries \in Nat \ {0}
  BY DedupAssumption DEF Memory
<1>2. CASE Len(es) > MaxEntries
  <2>1. Len(es) - MaxEntries + 1 \in 1..Len(es) /\ Len(es) \in (Len(es) - MaxEntries + 1)..Len(es)
    BY <1>1, <1>2
  <2> QED BY <1>2, <2>1, BackOf DEF Evict
<1>3. CASE ~(Len(es) > MaxEntries)
  BY <1>1, <1>3 DEF Evict, Held
<1> QED BY <1>2, <1>3

(* A filtered memory is a memory of the entries that pass. *)
LEMMA OnlyKeeps ==
    ASSUME NEW es \in Memory, NEW S
    PROVE  Only(es, S) \in Memory /\ Held(Only(es, S)) = Held(es) \cap S
<1> DEFINE t == Only(es, S)
           n == Len(es)
<1>1. es \in Seq(Entry) /\ n \in Nat /\ OneOfEach(es)
  BY DEF Memory
<1>2. t \in Seq(Entry)
  BY <1>1, OnlyType
<1>3. PICK from : Picks(from, t, es, S, n)
  BY <1>1, OnlyPicks
<1> HIDE DEF t, n
<1>4. /\ from \in [1..Len(t) -> 1..n]
      /\ \A j \in 1..Len(t) : t[j] = es[from[j]] /\ es[from[j]] \in S
      /\ \A j, k \in 1..Len(t) : j < k => from[j] < from[k]
      /\ \A i \in 1..n : es[i] \in S => \E j \in 1..Len(t) : from[j] = i
  BY <1>3 DEF Picks
<1>5. OneOfEach(t)
  <2> SUFFICES ASSUME NEW i \in 1..Len(t), NEW j \in 1..Len(t), t[i].id = t[j].id PROVE i = j
    BY DEF OneOfEach
  <2>1. from[i] = from[j]
    BY <1>1, <1>4 DEF OneOfEach, n
  <2>2. ~(i < j) /\ ~(j < i)
    BY <1>1, <1>4, <2>1
  <2> QED BY <1>2, <2>2
<1>6. Held(t) = {t[i] : i \in 1..Len(t)} /\ Held(es) = {es[i] : i \in 1..n}
  BY <1>1, <1>2 DEF Held, n
<1>7. Held(t) = Held(es) \cap S
  BY <1>4, <1>6
<1> QED BY <1>2, <1>5, <1>7 DEF Memory, t

(* recordInternal of a message the memory does not have. *)
LEMMA RecordKeeps ==
    ASSUME NEW es \in Memory, NEW m \in Messages, now \in Nat
    PROVE  /\ recordInternal(es, m) \in Memory
           /\ [id |-> m, at |-> now] \in Held(recordInternal(es, m))
           /\ \A e \in Held(recordInternal(es, m)) : e.id # m => e \in Held(es)
<1> DEFINE S == {e \in Held(es) : e.id # m}
           t == Only(es, S)
           new == [id |-> m, at |-> now]
           u == Append(t, new)
<1>1. t \in Memory /\ Held(t) \subseteq S
  BY OnlyKeeps
<1>2. t \in Seq(Entry) /\ new \in Entry /\ OneOfEach(t)
  BY <1>1 DEF Memory, Entry
<1>3. new.id = m
  OBVIOUS
<1>4. \A e \in S : e.id # m /\ e \in Held(es)
  OBVIOUS
<1> HIDE DEF S, new, t
<1>5. /\ u \in Seq(Entry) /\ Len(u) = Len(t) + 1 /\ u[Len(t) + 1] = new
      /\ Len(t) \in Nat /\ \A i \in 1..Len(t) : u[i] = t[i]
  BY <1>2
<1>6. \A i \in 1..Len(t) : t[i] \in Held(t)
  BY <1>2 DEF Held
<1> HIDE DEF u
<1>7. OneOfEach(u)
  BY <1>1, <1>2, <1>3, <1>4, <1>5, <1>6 DEF OneOfEach
<1>8. \A e \in Held(u) : e = new \/ e \in S
  BY <1>1, <1>5, <1>6 DEF Held
<1>9. u \in Memory /\ Len(u) > 0 /\ u[Len(u)] = new
  BY <1>5, <1>7 DEF Memory
<1>10. recordInternal(es, m) = Evict(u)
  BY DEF recordInternal, u, t, S, new
<1>11. /\ Evict(u) \in Memory /\ Held(Evict(u)) \subseteq Held(u) /\ new \in Held(Evict(u))
  BY <1>9, EvictKeeps
<1> QED BY <1>3, <1>4, <1>8, <1>10, <1>11 DEF new

(* One entry of each message: the entry of an id is known by it. *)
LEMMA EntryOf ==
    ASSUME NEW es \in Memory, NEW e \in Held(es), NEW f \in Held(es), e.id = f.id
    PROVE  e = f
<1>1. es \in Seq(Entry) /\ OneOfEach(es)
  BY DEF Memory
<1>2. PICK i \in 1..Len(es), j \in 1..Len(es) : e = es[i] /\ f = es[j]
  BY <1>1 DEF Held
<1> QED BY <1>1, <1>2 DEF OneOfEach

(* A delivery: what is let through was not known, and is known from then on. *)
LEMMA DeliverStep ==
    ASSUME DedupInv, NEW m \in Messages, Deliver(m)
    PROVE  /\ DedupInv'
           /\ \A x \in Messages : handledAt'[x] # handledAt[x] /\ handledAt[x] # Never
                                    => now - handledAt[x] >= Window \/ x \in forgotten
<1>1. /\ now \in Nat /\ entries \in Memory /\ handledAt \in [Messages -> Nat \cup {Never}]
      /\ stage # "down" /\ \A x \in Messages : Known(x)
      /\ Window \in Nat
  BY DedupAssumption DEF DedupInv, DedupTypes, Deliver
<1>2. PICK es \in Memory : es = entries
  BY <1>1
<1>3. PICK kept \in Memory : kept = pruneStale(es)
  BY PruneKeeps
<1>4. \A e \in Held(es) : NotStale(e) => e \in Held(kept)
  BY <1>3, PruneKeeps
<1> DEFINE Was(x) == [id |-> x, at |-> handledAt[x]]
<1>5. ASSUME NEW x \in Messages, handledAt[x] # Never, now - handledAt[x] < Window, x \notin forgotten
      PROVE  Was(x) \in Held(kept) /\ Was(x).id = x /\ x \in Ids(kept)
  <2>1. Was(x) \in Held(es)
    BY <1>1, <1>2, <1>5 DEF Known
  <2>2. NotStale(Was(x)) /\ Was(x).id = x
    BY <1>5 DEF NotStale
  <2>3. Was(x) \in Held(kept)
    BY <1>4, <2>1, <2>2
  <2> QED BY <2>2, <2>3 DEF Held, Ids
<1> HIDE DEF Was
<1>6. UNCHANGED <<now, stage, file, writes>>
  BY DEF Deliver
<1>7. CASE m \in Ids(kept)
  <2>1. entries' = kept /\ handledAt' = handledAt /\ forgotten' = forgotten
    BY <1>2, <1>3, <1>7 DEF Deliver
  <2>2. DedupTypes'
    BY <1>6, <2>1 DEF DedupInv, DedupTypes
  <2>3. \A x \in Messages : Known(x)'
    BY <1>5, <1>6, <2>1 DEF Known, Was
  <2> QED BY <2>1, <2>2, <2>3 DEF DedupInv
<1>8. CASE m \notin Ids(kept)
  <2>1. PICK after \in Memory : after = recordInternal(kept, m)
    BY <1>1, RecordKeeps
  <2>2. /\ [id |-> m, at |-> now] \in Held(after)
        /\ \A e \in Held(after) : e.id # m => e \in Held(kept)
    BY <1>1, <2>1, RecordKeeps
  <2>3. /\ entries' = after /\ handledAt' = [handledAt EXCEPT ![m] = now]
        /\ forgotten' = (forgotten \ {m}) \cup (Ids(kept) \ Ids(after))
    BY <1>2, <1>3, <1>8, <2>1 DEF Deliver
  <2>4. DedupTypes'
    BY <1>1, <1>6, <2>1, <2>3 DEF DedupInv, DedupTypes
  <2>5. ASSUME NEW x \in Messages PROVE Known(x)'
    <3>1. CASE x = m
      BY <1>1, <1>6, <2>2, <2>3, <3>1 DEF Known
    <3>2. CASE x # m
      <4>1. handledAt'[x] = handledAt[x]
        BY <1>1, <2>3, <3>2
      <4>2. SUFFICES ASSUME handledAt[x] # Never, now - handledAt[x] < Window, x \notin forgotten'
                     PROVE  Was(x) \in Held(after)
        BY <1>6, <2>3, <4>1 DEF Known, Was
      <4>3. x \notin forgotten /\ ~(x \in Ids(kept) /\ x \notin Ids(after))
        BY <2>3, <3>2, <4>2
      <4>4. Was(x) \in Held(kept) /\ Was(x).id = x /\ x \in Ids(after)
        BY <1>5, <4>2, <4>3
      <4>5. PICK e \in Held(after) : e.id = x
        BY <4>4 DEF Ids, Held
      <4>6. e \in Held(kept)
        BY <2>2, <3>2, <4>5
      <4>7. e = Was(x)
        <5>1. PICK f : f = Was(x)
          OBVIOUS
        <5>2. f \in Held(kept) /\ f.id = e.id
          BY <4>4, <4>5, <5>1
        <5> QED BY <4>6, <5>1, <5>2, EntryOf
      <4> QED BY <4>5, <4>7
    <3> QED BY <3>1, <3>2
  <2>6. ASSUME NEW x \in Messages, handledAt'[x] # handledAt[x], handledAt[x] # Never
        PROVE  now - handledAt[x] >= Window \/ x \in forgotten
    <3>1. x = m
      BY <1>1, <2>3, <2>6
    <3>2. ~(now - handledAt[x] < Window) \/ x \in forgotten
      BY <1>5, <1>8, <2>6, <3>1
    <3>3. handledAt[x] \in Nat
      BY <1>1, <2>6
    <3> QED BY <1>1, <3>2, <3>3
  <2> QED BY <2>4, <2>5, <2>6 DEF DedupInv
<1> QED BY <1>7, <1>8

(* The snapshot of a save is pruned first. *)
LEMMA BeginWriteStep ==
    ASSUME DedupInv, NEW final \in BOOLEAN, BeginWrite(final), stage # "down",
           UNCHANGED <<now, file, handledAt, forgotten>>
    PROVE  DedupInv'
<1>1. DedupTypes /\ \A x \in Messages : Known(x)
  BY DEF DedupInv
<1>2. PICK es \in Memory : es = entries
  BY <1>1 DEF DedupTypes
<1>3. PICK kept \in Memory : kept = pruneStale(es)
  BY PruneKeeps
<1>4. \A e \in Held(es) : NotStale(e) => e \in Held(kept)
  BY <1>3, PruneKeeps
<1>5. entries' = kept /\ writes' = writes \cup {[content |-> kept, final |-> final]}
  BY <1>2, <1>3 DEF BeginWrite
<1>6. DedupTypes'
  BY <1>1, <1>5 DEF DedupTypes
<1>7. ASSUME NEW x \in Messages PROVE Known(x)'
  <2>1. [id |-> x, at |-> handledAt[x]] \in Held(es) /\ now - handledAt[x] < Window
          => [id |-> x, at |-> handledAt[x]] \in Held(kept)
    BY <1>4 DEF NotStale
  <2> QED BY <1>1, <1>2, <1>5, <2>1 DEF Known
<1> QED BY <1>6, <1>7 DEF DedupInv

LEMMA DedupInvStep ==
    ASSUME DedupInv, [DedupNext]_dedupVars
    PROVE  /\ DedupInv'
           /\ \A m \in Messages : handledAt'[m] # handledAt[m] /\ handledAt[m] # Never
                                    => now - handledAt[m] >= Window \/ m \in forgotten
<1>0. DedupTypes
  BY DEF DedupInv
<1>1. ASSUME NEW m \in Messages, Deliver(m)
      PROVE  /\ DedupInv'
             /\ \A x \in Messages : handledAt'[x] # handledAt[x] /\ handledAt[x] # Never
                                      => now - handledAt[x] >= Window \/ x \in forgotten
  BY <1>1, DeliverStep
<1>2. ASSUME UNCHANGED <<now, stage, entries, handledAt, forgotten>>, file' \in Memory,
             \A w \in writes' : w.content \in Memory
      PROVE  DedupInv'
  BY <1>0, <1>2 DEF DedupInv, DedupTypes, Known
<1>3. ASSUME NEW w \in writes, WriteEnds(w) \/ WriteFails(w)
      PROVE  DedupInv' /\ UNCHANGED handledAt
  BY <1>0, <1>2, <1>3 DEF DedupTypes, WriteEnds, WriteFails
<1>4. ASSUME AutoFlush \/ Disconnect PROVE DedupInv' /\ UNCHANGED handledAt
  BY <1>4, BeginWriteStep DEF AutoFlush, Disconnect
<1>5. ASSUME Exit \/ Crash PROVE DedupInv' /\ UNCHANGED handledAt
  <2>1. <<>> \in Memory
    BY DEF Memory, OneOfEach
  <2> QED BY <1>0, <1>5, <2>1 DEF Exit, Crash, Down, DedupInv, DedupTypes
<1>6. ASSUME Connect PROVE DedupInv' /\ UNCHANGED handledAt
  <2>1. PICK saved \in Memory : saved = file
    BY <1>0 DEF DedupTypes
  <2>2. PICK S : S = {e \in Held(saved) : now - e.at <= Window}
    OBVIOUS
  <2>3. PICK lines \in Memory : lines = Only(saved, S)
    BY OnlyKeeps
  <2>4. Evict(lines) \in Memory
    BY EvictKeeps
  <2>5. /\ entries' = Evict(lines) /\ UNCHANGED <<now, file, writes, handledAt>>
        /\ forgotten' = forgotten \cup {m \in Messages : handledAt[m] # Never
                                          /\ [id |-> m, at |-> handledAt[m]] \notin Held(entries')}
    BY <1>6, <2>1, <2>2, <2>3 DEF Connect
  <2>6. DedupTypes'
    BY <1>0, <2>4, <2>5 DEF DedupTypes
  <2>7. ASSUME NEW x \in Messages PROVE Known(x)'
    <3>1. handledAt[x] # Never /\ [id |-> x, at |-> handledAt[x]] \notin Held(entries') => x \in forgotten'
      BY <2>5
    <3>2. handledAt' = handledAt
      BY <2>5
    <3> QED BY <3>1, <3>2 DEF Known
  <2> QED BY <2>5, <2>6, <2>7 DEF DedupInv
<1>7. ASSUME Tick PROVE DedupInv' /\ UNCHANGED handledAt
  <2>1. now' = now + 1 /\ UNCHANGED <<stage, entries, file, writes, handledAt, forgotten>>
    BY <1>7 DEF Tick
  <2>2. DedupTypes'
    BY <1>0, <2>1 DEF DedupTypes
  <2>3. ASSUME NEW x \in Messages, Known(x) PROVE Known(x)'
    <3>1. now \in Nat /\ Window \in Nat /\ handledAt[x] \in Nat \cup {Never}
      BY <1>0, DedupAssumption DEF DedupTypes
    <3>2. handledAt[x] # Never /\ (now + 1) - handledAt[x] < Window => now - handledAt[x] < Window
      BY <3>1
    <3>3. Held(entries)' = Held(entries) /\ UNCHANGED <<handledAt, forgotten>> /\ now' = now + 1
      BY <2>1
    <3>4. SUFFICES ASSUME handledAt'[x] # Never, now' - handledAt'[x] < Window, x \notin forgotten'
                   PROVE  [id |-> x, at |-> handledAt'[x]] \in Held(entries)'
      BY DEF Known, Never
    <3>5. handledAt[x] # Never /\ (now + 1) - handledAt[x] < Window /\ x \notin forgotten
      BY <3>3, <3>4 DEF Never
    <3>6. [id |-> x, at |-> handledAt[x]] \in Held(entries)
      BY <2>3, <3>2, <3>5 DEF Known
    <3> QED BY <3>3, <3>6
  <2> QED BY <2>1, <2>2, <2>3 DEF DedupInv
<1>8. ASSUME UNCHANGED dedupVars PROVE DedupInv' /\ UNCHANGED handledAt
  BY <1>0, <1>2, <1>8 DEF dedupVars, DedupTypes
<1> QED
  BY <1>1, <1>3, <1>4, <1>5, <1>6, <1>7, <1>8 DEF DedupNext

(* channel/message-dedup.ts, for any window, capacity and number of restarts: a *)
(* message is handled a second time only after its window, or when capacity or  *)
(* a restart made the program forget it.                                        *)
THEOREM HandledOnceHolds == DedupSpec => HandledOnce
<1>1. DedupInv /\ [DedupNext]_dedupVars
        => [\A m \in Messages : handledAt'[m] # handledAt[m] /\ handledAt[m] # Never
                                  => now - handledAt[m] >= Window \/ m \in forgotten]_dedupVars
  BY DedupInvStep
<1>2. DedupInv /\ [DedupNext]_dedupVars => DedupInv'
  BY DedupInvStep
<1> QED
  BY <1>1, <1>2, DedupInitInv, PTL DEF DedupSpec, HandledOnce

(* SseStream.tla *)

Pieces == Sentences \cup Others
Tags == {"<", "tag>", "/tag>"}
Told == Sentences \cup {"fence", "b>", "dsml"}
AtPiece(x, seq) == {i \in DOMAIN seq : seq[i] = x}

(* How often a piece is in a sequence, in its parts. *)
LEMMA CountNat ==
    ASSUME NEW V, NEW seq \in Seq(V), NEW x
    PROVE  IsFiniteSet(AtPiece(x, seq)) /\ Count(x, seq) = Cardinality(AtPiece(x, seq)) /\ Count(x, seq) \in Nat
<1>1. Len(seq) \in Nat /\ DOMAIN seq = 1..Len(seq)
  OBVIOUS
<1>2. IsFiniteSet(1..Len(seq)) /\ AtPiece(x, seq) \subseteq 1..Len(seq)
  BY <1>1, FS_Interval DEF AtPiece
<1>3. IsFiniteSet(AtPiece(x, seq))
  BY <1>2, FS_Subset
<1> QED BY <1>3, FS_CardinalityType DEF Count, AtPiece

LEMMA CountNone ==
    ASSUME NEW x
    PROVE  Count(x, <<>>) = 0
<1>1. AtPiece(x, <<>>) = {}
  BY DEF AtPiece
<1> QED BY <1>1, FS_EmptySet DEF Count, AtPiece

LEMMA CountAppend ==
    ASSUME NEW V, NEW seq \in Seq(V), NEW y \in V, NEW x
    PROVE  Count(x, Append(seq, y)) = IF x = y THEN Count(x, seq) + 1 ELSE Count(x, seq)
<1> DEFINE longer == Append(seq, y)
           n == Len(seq)
<1>1. n \in Nat /\ longer \in Seq(V) /\ Len(longer) = n + 1 /\ longer[n + 1] = y
      /\ \A i \in 1..n : longer[i] = seq[i]
  OBVIOUS
<1>2. DOMAIN seq = 1..n /\ DOMAIN longer = 1..(n + 1)
  BY <1>1
<1> HIDE DEF longer, n
<1>3. IsFiniteSet(AtPiece(x, seq)) /\ Count(x, seq) = Cardinality(AtPiece(x, seq)) /\ Count(x, seq) \in Nat
      /\ Count(x, longer) = Cardinality(AtPiece(x, longer))
  BY <1>1, CountNat
<1>4. CASE x = y
  <2>1. AtPiece(x, longer) = AtPiece(x, seq) \cup {n + 1} /\ n + 1 \notin AtPiece(x, seq)
    BY <1>1, <1>2, <1>4 DEF AtPiece
  <2>2. Cardinality(AtPiece(x, longer)) = Cardinality(AtPiece(x, seq)) + 1
    BY <1>3, <2>1, FS_AddElement
  <2> QED BY <1>3, <1>4, <2>2 DEF longer
<1>5. CASE x # y
  <2>1. AtPiece(x, longer) = AtPiece(x, seq)
    BY <1>1, <1>2, <1>5 DEF AtPiece
  <2> QED BY <1>3, <1>5, <2>1 DEF longer
<1> QED BY <1>4, <1>5

LEMMA CountJoined ==
    ASSUME NEW V, NEW front \in Seq(V), NEW back \in Seq(V), NEW x
    PROVE  Count(x, front \o back) = Count(x, front) + Count(x, back)
<1> DEFINE whole == front \o back
           n == Len(front)
           l == Len(back)
           A == AtPiece(x, front)
           B == AtPiece(x, back)
           C == {i \in (n + 1)..(n + l) : whole[i] = x}
           move == [i \in B |-> n + i]
<1>1. /\ n \in Nat /\ l \in Nat /\ whole \in Seq(V) /\ Len(whole) = n + l
      /\ \A i \in 1..n : whole[i] = front[i]
      /\ \A i \in (n + 1)..(n + l) : whole[i] = back[i - n]
      /\ DOMAIN front = 1..n /\ DOMAIN back = 1..l /\ DOMAIN whole = 1..(n + l)
  <2>1. n \in Nat /\ l \in Nat /\ DOMAIN front = 1..n /\ DOMAIN back = 1..l
    OBVIOUS
  <2>2. whole \in Seq(V) /\ Len(whole) = n + l
    OBVIOUS
  <2>3. \A i \in 1..(n + l) : whole[i] = IF i <= n THEN front[i] ELSE back[i - n]
    OBVIOUS
  <2>4. \A i \in 1..n : i \in 1..(n + l) /\ i <= n
    BY <2>1
  <2>5. \A i \in (n + 1)..(n + l) : i \in 1..(n + l) /\ ~(i <= n)
    BY <2>1
  <2>6. DOMAIN whole = 1..(n + l)
    BY <2>2
  <2> HIDE DEF whole, n, l
  <2> QED BY <2>1, <2>2, <2>3, <2>4, <2>5, <2>6
<1>2. /\ IsFiniteSet(A) /\ Count(x, front) = Cardinality(A) /\ Count(x, front) \in Nat
      /\ IsFiniteSet(B) /\ Count(x, back) = Cardinality(B) /\ Count(x, back) \in Nat
      /\ Count(x, whole) = Cardinality(AtPiece(x, whole))
  BY <1>1, CountNat
<1> HIDE DEF whole, n, l
<1>3. A \subseteq 1..n /\ C \subseteq (n + 1)..(n + l) /\ AtPiece(x, whole) = A \cup C /\ A \cap C = {}
  BY <1>1 DEF AtPiece
<1>4. B = {i \in 1..l : back[i] = x}
  BY <1>1 DEF AtPiece
<1>5. \A i \in 1..l : n + i \in (n + 1)..(n + l) /\ whole[n + i] = back[i]
  <2> SUFFICES ASSUME NEW i \in 1..l PROVE n + i \in (n + 1)..(n + l) /\ whole[n + i] = back[i]
    OBVIOUS
  <2>1. n + i \in (n + 1)..(n + l) /\ (n + i) - n = i
    BY <1>1
  <2> QED BY <1>1, <2>1
<1>6. move \in Bijection(B, C)
  <2>1. move \in [B -> C]
    BY <1>4, <1>5
  <2>2. \A i, j \in B : move[i] = move[j] => i = j
    BY <1>1, <1>4
  <2>3. ASSUME NEW c \in C PROVE \E i \in B : move[i] = c
    <3>1. c - n \in 1..l /\ n + (c - n) = c /\ whole[c] = x
      BY <1>1
    <3>2. c - n \in B
      BY <1>1, <1>4, <3>1
    <3> QED BY <3>1, <3>2
  <2> HIDE DEF move, B, C
  <2> QED BY <2>1, <2>2, <2>3 DEF Bijection, Injection, Surjection, IsInjective
<1>7. IsFiniteSet(C) /\ Cardinality(C) = Cardinality(B)
  BY <1>2, <1>6, FS_Bijection DEF ExistsBijection
<1>8. Cardinality(AtPiece(x, whole)) = Cardinality(A) + Cardinality(C) - Cardinality({})
  BY <1>2, <1>3, <1>7, FS_Union
<1>9. Cardinality({}) = 0
  BY FS_EmptySet
<1> HIDE DEF A, B, C
<1> QED BY <1>2, <1>3, <1>7, <1>8, <1>9 DEF whole

(* What begins with something has it as a prefix. *)
LEMMA PrefixOfJoined ==
    ASSUME NEW V, NEW front \in Seq(V), NEW back \in Seq(V)
    PROVE  IsPrefix(front, front \o back)
<1> DEFINE whole == front \o back
           n == Len(front)
<1>1. n \in Nat /\ Len(back) \in Nat /\ whole \in Seq(V) /\ Len(whole) = n + Len(back) /\ n <= Len(whole)
  OBVIOUS
<1>2. \A i \in 1..n : whole[i] = front[i]
  <2>1. \A i \in 1..(n + Len(back)) : whole[i] = IF i <= n THEN front[i] ELSE back[i - n]
    OBVIOUS
  <2> HIDE DEF whole, n
  <2> QED BY <1>1, <2>1
<1>3. \A i \in 1..n : front[i] \in V
  OBVIOUS
<1> HIDE DEF whole, n
<1>4. /\ SubSeq(front, 1, n) \in Seq(V) /\ SubSeq(whole, 1, n) \in Seq(V)
      /\ Len(SubSeq(front, 1, n)) = n /\ Len(SubSeq(whole, 1, n)) = n
      /\ \A i \in 1..n : SubSeq(front, 1, n)[i] = front[i] /\ SubSeq(whole, 1, n)[i] = whole[i]
  <2>1. 1 \in Int /\ n \in Int /\ (IF 1 <= n THEN n - 1 + 1 ELSE 0) = n /\ 1..(n - 1 + 1) = 1..n
        /\ \A i \in 1..n : 1 + i - 1 = i
    BY <1>1
  <2>2. \A i \in 1..n : front[i] \in V /\ whole[i] \in V
    BY <1>2, <1>3
  <2>3. /\ SubSeq(front, 1, n) \in Seq(V) /\ Len(SubSeq(front, 1, n)) = n
        /\ \A i \in 1..n : SubSeq(front, 1, n)[i] = front[i]
    BY <2>1, <2>2, SubSeqProperties
  <2>4. /\ SubSeq(whole, 1, n) \in Seq(V) /\ Len(SubSeq(whole, 1, n)) = n
        /\ \A i \in 1..n : SubSeq(whole, 1, n)[i] = whole[i]
    BY <2>1, <2>2, SubSeqProperties
  <2> QED BY <2>3, <2>4
<1>5. SubSeq(front, 1, n) = SubSeq(whole, 1, n)
  BY <1>2, <1>4
<1> QED BY <1>1, <1>5 DEF IsPrefix, n, whole

SseTypes ==
    /\ reading \in {"read", "cancelling", "ended", "thrown"}
    /\ filter \in {"NORMAL", "MAYBE_OPEN", "IN_THINK", "MAYBE_CLOSE"}
    /\ pieces \in Seq(Pieces) /\ held \in Seq(Pieces) /\ thought \in Seq(Pieces)
    /\ content \in Seq(Pieces) /\ shown \in Seq(Pieces)

(* What the filter holds in each of its states. *)
HeldForTag ==
    /\ filter = "NORMAL" => held = <<>>
    /\ filter = "MAYBE_OPEN" => held = <<"<">>

(* Every piece that is told is counted once in what is said, thought and held. *)
Accounted == \A x \in Told : Count(x, content) + Count(x, thought) + Count(x, held) = Count(x, pieces)

(* Until the end the user has been shown all there is. *)
ShownSoFar ==
    IF reading = "ended" THEN (guard \in {"none", "stall"} => shown = content) /\ IsPrefix(shown, content)
    ELSE shown = content /\ guard # "stall"

SseInv == SseTypes /\ HeldForTag /\ Accounted /\ ShownSoFar

LEMMA ToldOnce == \A x \in Told : x \notin Tags
  BY SseAssumption DEF Told, Tags

LEMMA SseInitInv == SseInit => SseInv
<1> SUFFICES ASSUME SseInit PROVE SseInv
  OBVIOUS
<1>1. Accounted
  BY CountNone DEF SseInit, Accounted
<1> QED BY <1>1 DEF SseInit, SseInv, SseTypes, HeldForTag, ShownSoFar

(* The filter: one more piece, and where it goes.  Only the tags are lost. *)
LEMMA FeedStep ==
    ASSUME SseTypes, HeldForTag, NEW p \in Pieces
    PROVE  /\ Feed(p).to \in {"NORMAL", "MAYBE_OPEN", "IN_THINK", "MAYBE_CLOSE"}
           /\ Feed(p).out \in Seq(Pieces) /\ Feed(p).held \in Seq(Pieces) /\ Feed(p).thought \in Seq(Pieces)
           /\ Feed(p).to = "NORMAL" => Feed(p).held = <<>>
           /\ Feed(p).to = "MAYBE_OPEN" => Feed(p).held = <<"<">>
           /\ \A x \in Told : Count(x, Feed(p).out) + Count(x, Feed(p).thought) + Count(x, Feed(p).held)
                                = Count(x, thought) + Count(x, held) + (IF x = p THEN 1 ELSE 0)
<1> DEFINE Fed(to, out, keep, think) ==
             /\ Feed(p).to = to /\ Feed(p).out = out /\ Feed(p).held = keep /\ Feed(p).thought = think
<1>0. /\ held \in Seq(Pieces) /\ thought \in Seq(Pieces) /\ <<p>> \in Seq(Pieces) /\ <<>> \in Seq(Pieces)
      /\ Append(held, p) \in Seq(Pieces)
  BY DEF SseTypes
<1>1. ASSUME NEW x \in Told
      PROVE  /\ Count(x, thought) \in Nat /\ Count(x, held) \in Nat /\ Count(x, <<>>) = 0
             /\ Count(x, <<p>>) = IF x = p THEN 1 ELSE 0
             /\ Count(x, Append(held, p)) = Count(x, held) + (IF x = p THEN 1 ELSE 0)
             /\ Count(x, <<"<">>) = 0
             /\ p \in Tags => x # p
  <2>1. Count(x, <<>>) = 0
    BY CountNone
  <2>2. Count(x, Append(<<>>, p)) = IF x = p THEN Count(x, <<>>) + 1 ELSE Count(x, <<>>)
    BY <1>0, CountAppend
  <2>3. Append(<<>>, p) = <<p>>
    OBVIOUS
  <2>4. <<>> \in Seq(Pieces \cup {"<"}) /\ "<" \in Pieces \cup {"<"} /\ Append(<<>>, "<") = <<"<">>
    OBVIOUS
  <2>5. Count(x, Append(<<>>, "<")) = IF x = "<" THEN Count(x, <<>>) + 1 ELSE Count(x, <<>>)
    BY <2>4, CountAppend
  <2>6. x \notin Tags /\ x # "<"
    BY ToldOnce DEF Tags
  <2>7. Count(x, Append(held, p)) = IF x = p THEN Count(x, held) + 1 ELSE Count(x, held)
    BY <1>0, CountAppend
  <2>8. Count(x, thought) \in Nat /\ Count(x, held) \in Nat
    BY <1>0, CountNat
  <2> QED BY <2>1, <2>2, <2>3, <2>4, <2>5, <2>6, <2>7, <2>8
<1>2. ASSUME NEW x \in Told
      PROVE  /\ Count(x, thought \o held) = Count(x, thought) + Count(x, held)
             /\ Count(x, thought \o Append(held, p)) = Count(x, thought) + Count(x, Append(held, p))
  BY <1>0, CountJoined
<1>3. thought \o held \in Seq(Pieces) /\ thought \o Append(held, p) \in Seq(Pieces)
  BY <1>0
<1>4. CASE filter = "NORMAL" /\ p = "<"
  <2>1. Fed("MAYBE_OPEN", <<>>, <<p>>, thought) /\ held = <<>>
    BY <1>4 DEF Feed, Goes, HeldForTag
  <2>2. ASSUME NEW x \in Told
        PROVE  Count(x, Feed(p).out) + Count(x, Feed(p).thought) + Count(x, Feed(p).held)
                 = Count(x, thought) + Count(x, held) + (IF x = p THEN 1 ELSE 0)
    <3>1. /\ Count(x, Feed(p).out) = Count(x, <<>>) /\ Count(x, Feed(p).thought) = Count(x, thought)
          /\ Count(x, Feed(p).held) = Count(x, <<p>>) /\ Count(x, held) = Count(x, <<>>)
      BY <2>1
    <3> QED BY <1>1, <1>4, <2>1, <3>1
  <2>3. Feed(p).out \in Seq(Pieces) /\ Feed(p).held \in Seq(Pieces) /\ Feed(p).thought \in Seq(Pieces)
    BY <1>0, <1>3, <2>1
  <2> QED BY <1>4, <2>1, <2>2, <2>3
<1>5. CASE filter = "NORMAL" /\ p # "<"
  <2>1. Fed("NORMAL", <<p>>, <<>>, thought) /\ held = <<>>
    BY <1>5 DEF Feed, Goes, HeldForTag
  <2>2. ASSUME NEW x \in Told
        PROVE  Count(x, Feed(p).out) + Count(x, Feed(p).thought) + Count(x, Feed(p).held)
                 = Count(x, thought) + Count(x, held) + (IF x = p THEN 1 ELSE 0)
    <3>1. /\ Count(x, Feed(p).out) = Count(x, <<p>>) /\ Count(x, Feed(p).thought) = Count(x, thought)
          /\ Count(x, Feed(p).held) = Count(x, <<>>) /\ Count(x, held) = Count(x, <<>>)
      BY <2>1
    <3> QED BY <1>1, <1>5, <2>1, <3>1
  <2>3. Feed(p).out \in Seq(Pieces) /\ Feed(p).held \in Seq(Pieces) /\ Feed(p).thought \in Seq(Pieces)
    BY <1>0, <1>3, <2>1
  <2> QED BY <1>5, <2>1, <2>2, <2>3
<1>6. CASE filter = "MAYBE_OPEN" /\ p = "tag>"
  <2>1. Fed("IN_THINK", <<>>, <<>>, thought) /\ held = <<"<">> /\ p \in Tags
    BY <1>6 DEF Feed, Goes, HeldForTag, Tags
  <2>2. ASSUME NEW x \in Told
        PROVE  Count(x, Feed(p).out) + Count(x, Feed(p).thought) + Count(x, Feed(p).held)
                 = Count(x, thought) + Count(x, held) + (IF x = p THEN 1 ELSE 0)
    <3>1. /\ Count(x, Feed(p).out) = Count(x, <<>>) /\ Count(x, Feed(p).thought) = Count(x, thought)
          /\ Count(x, Feed(p).held) = Count(x, <<>>) /\ Count(x, held) = Count(x, <<"<">>)
      BY <2>1
    <3> QED BY <1>1, <1>6, <2>1, <3>1
  <2>3. Feed(p).out \in Seq(Pieces) /\ Feed(p).held \in Seq(Pieces) /\ Feed(p).thought \in Seq(Pieces)
    BY <1>0, <1>3, <2>1
  <2> QED BY <1>6, <2>1, <2>2, <2>3
<1>7. CASE filter = "MAYBE_OPEN" /\ p # "tag>"
  <2>1. Fed("NORMAL", Append(held, p), <<>>, thought)
    BY <1>7 DEF Feed, Goes
  <2>2. ASSUME NEW x \in Told
        PROVE  Count(x, Feed(p).out) + Count(x, Feed(p).thought) + Count(x, Feed(p).held)
                 = Count(x, thought) + Count(x, held) + (IF x = p THEN 1 ELSE 0)
    <3>1. /\ Count(x, Feed(p).out) = Count(x, Append(held, p)) /\ Count(x, Feed(p).thought) = Count(x, thought)
          /\ Count(x, Feed(p).held) = Count(x, <<>>)
      BY <2>1
    <3> QED BY <1>1, <1>7, <2>1, <3>1
  <2>3. Feed(p).out \in Seq(Pieces) /\ Feed(p).held \in Seq(Pieces) /\ Feed(p).thought \in Seq(Pieces)
    BY <1>0, <1>3, <2>1
  <2> QED BY <1>7, <2>1, <2>2, <2>3
<1>8. CASE filter = "IN_THINK" /\ p = "<"
  <2>1. Fed("MAYBE_CLOSE", <<>>, <<p>>, thought \o held)
    BY <1>8 DEF Feed, Thinking, Goes
  <2>2. ASSUME NEW x \in Told
        PROVE  Count(x, Feed(p).out) + Count(x, Feed(p).thought) + Count(x, Feed(p).held)
                 = Count(x, thought) + Count(x, held) + (IF x = p THEN 1 ELSE 0)
    <3>1. /\ Count(x, Feed(p).out) = Count(x, <<>>) /\ Count(x, Feed(p).thought) = Count(x, thought \o held)
          /\ Count(x, Feed(p).held) = Count(x, <<p>>)
      BY <2>1
    <3> QED BY <1>1, <1>2, <1>8, <2>1, <3>1
  <2>3. Feed(p).out \in Seq(Pieces) /\ Feed(p).held \in Seq(Pieces) /\ Feed(p).thought \in Seq(Pieces)
    BY <1>0, <1>3, <2>1
  <2> QED BY <1>8, <2>1, <2>2, <2>3
<1>9. CASE filter = "IN_THINK" /\ p # "<"
  <2>1. Fed("IN_THINK", <<>>, Append(held, p), thought)
    BY <1>9 DEF Feed, Thinking, Goes
  <2>2. ASSUME NEW x \in Told
        PROVE  Count(x, Feed(p).out) + Count(x, Feed(p).thought) + Count(x, Feed(p).held)
                 = Count(x, thought) + Count(x, held) + (IF x = p THEN 1 ELSE 0)
    <3>1. /\ Count(x, Feed(p).out) = Count(x, <<>>) /\ Count(x, Feed(p).thought) = Count(x, thought)
          /\ Count(x, Feed(p).held) = Count(x, Append(held, p))
      BY <2>1
    <3> QED BY <1>1, <1>9, <2>1, <3>1
  <2>3. Feed(p).out \in Seq(Pieces) /\ Feed(p).held \in Seq(Pieces) /\ Feed(p).thought \in Seq(Pieces)
    BY <1>0, <1>3, <2>1
  <2> QED BY <1>9, <2>1, <2>2, <2>3
<1>10. CASE filter = "MAYBE_CLOSE" /\ p = "/tag>" /\ held = <<"<">>
  <2>1. Fed("NORMAL", <<>>, <<>>, thought) /\ p \in Tags
    BY <1>10 DEF Feed, Goes, Tags
  <2>2. ASSUME NEW x \in Told
        PROVE  Count(x, Feed(p).out) + Count(x, Feed(p).thought) + Count(x, Feed(p).held)
                 = Count(x, thought) + Count(x, held) + (IF x = p THEN 1 ELSE 0)
    <3>1. /\ Count(x, Feed(p).out) = Count(x, <<>>) /\ Count(x, Feed(p).thought) = Count(x, thought)
          /\ Count(x, Feed(p).held) = Count(x, <<>>) /\ Count(x, held) = Count(x, <<"<">>)
      BY <2>1, <1>10
    <3> QED BY <1>1, <1>10, <2>1, <3>1
  <2>3. Feed(p).out \in Seq(Pieces) /\ Feed(p).held \in Seq(Pieces) /\ Feed(p).thought \in Seq(Pieces)
    BY <1>0, <1>3, <2>1
  <2> QED BY <1>10, <2>1, <2>2, <2>3
<1>11. CASE filter = "MAYBE_CLOSE" /\ ~(p = "/tag>" /\ held = <<"<">>) /\ p \in {"tag>", "/tag>", "b>"}
  <2>1. Fed("IN_THINK", <<>>, <<>>, thought \o Append(held, p))
    BY <1>11 DEF Feed, Goes
  <2>2. ASSUME NEW x \in Told
        PROVE  Count(x, Feed(p).out) + Count(x, Feed(p).thought) + Count(x, Feed(p).held)
                 = Count(x, thought) + Count(x, held) + (IF x = p THEN 1 ELSE 0)
    <3>1. /\ Count(x, Feed(p).out) = Count(x, <<>>) /\ Count(x, Feed(p).thought) = Count(x, thought \o Append(held, p))
          /\ Count(x, Feed(p).held) = Count(x, <<>>)
      BY <2>1
    <3> QED BY <1>1, <1>2, <1>11, <2>1, <3>1
  <2>3. Feed(p).out \in Seq(Pieces) /\ Feed(p).held \in Seq(Pieces) /\ Feed(p).thought \in Seq(Pieces)
    BY <1>0, <1>3, <2>1
  <2> QED BY <1>11, <2>1, <2>2, <2>3
<1>12. CASE filter = "MAYBE_CLOSE" /\ p \notin {"tag>", "/tag>", "b>"}
  <2>1. Fed("MAYBE_CLOSE", <<>>, Append(held, p), thought)
    BY <1>12 DEF Feed, Goes
  <2>2. ASSUME NEW x \in Told
        PROVE  Count(x, Feed(p).out) + Count(x, Feed(p).thought) + Count(x, Feed(p).held)
                 = Count(x, thought) + Count(x, held) + (IF x = p THEN 1 ELSE 0)
    <3>1. /\ Count(x, Feed(p).out) = Count(x, <<>>) /\ Count(x, Feed(p).thought) = Count(x, thought)
          /\ Count(x, Feed(p).held) = Count(x, Append(held, p))
      BY <2>1
    <3> QED BY <1>1, <1>12, <2>1, <3>1
  <2>3. Feed(p).out \in Seq(Pieces) /\ Feed(p).held \in Seq(Pieces) /\ Feed(p).thought \in Seq(Pieces)
    BY <1>0, <1>3, <2>1
  <2> QED BY <1>12, <2>1, <2>2, <2>3
<1> QED
  BY <1>4, <1>5, <1>6, <1>7, <1>8, <1>9, <1>10, <1>11, <1>12 DEF SseTypes

LEMMA TextStep ==
    ASSUME SseInv, NEW p \in Pieces, Text(p)
    PROVE  SseInv'
<1>1. SseTypes /\ HeldForTag /\ Accounted /\ ShownSoFar
  BY DEF SseInv
<1> DEFINE fed == Feed(p)
<1>2. /\ fed.to \in {"NORMAL", "MAYBE_OPEN", "IN_THINK", "MAYBE_CLOSE"}
      /\ fed.out \in Seq(Pieces) /\ fed.held \in Seq(Pieces) /\ fed.thought \in Seq(Pieces)
      /\ fed.to = "NORMAL" => fed.held = <<>>
      /\ fed.to = "MAYBE_OPEN" => fed.held = <<"<">>
  BY <1>1, FeedStep
<1>3. \A x \in Told : Count(x, fed.out) + Count(x, fed.thought) + Count(x, fed.held)
                        = Count(x, thought) + Count(x, held) + (IF x = p THEN 1 ELSE 0)
  BY <1>1, FeedStep
<1>4. /\ reading = "read" /\ reading' \in {"read", "cancelling"}
      /\ pieces' = Append(pieces, p) /\ filter' = fed.to /\ held' = fed.held /\ thought' = fed.thought
      /\ content' = content \o fed.out /\ shown' = shown \o fed.out
  BY DEF Text
<1>5. guard' # "stall"
  <2>1. \E promised \in BOOLEAN :
           guard' = IF fed.out = <<>> THEN "none" ELSE Guarding(content \o fed.out, fed.out, promised)
    BY DEF Text
  <2> HIDE DEF fed
  <2> QED BY <2>1 DEF Guarding
<1> HIDE DEF fed
<1>6. /\ pieces \in Seq(Pieces) /\ content \in Seq(Pieces) /\ shown \in Seq(Pieces)
      /\ held \in Seq(Pieces) /\ thought \in Seq(Pieces)
  BY <1>1 DEF SseTypes
<1>7. SseTypes' /\ HeldForTag'
  BY <1>2, <1>4, <1>6 DEF SseTypes, HeldForTag
<1>8. ShownSoFar'
  BY <1>1, <1>4, <1>5 DEF ShownSoFar
<1>9. ASSUME NEW x \in Told
      PROVE  Count(x, content') + Count(x, thought') + Count(x, held') = Count(x, pieces')
  <2>1. Count(x, pieces') = IF x = p THEN Count(x, pieces) + 1 ELSE Count(x, pieces)
    BY <1>4, <1>6, CountAppend
  <2>2. Count(x, content') = Count(x, content) + Count(x, fed.out)
    BY <1>2, <1>4, <1>6, CountJoined
  <2>3. /\ Count(x, pieces) \in Nat /\ Count(x, content) \in Nat /\ Count(x, fed.out) \in Nat
        /\ Count(x, fed.thought) \in Nat /\ Count(x, fed.held) \in Nat
        /\ Count(x, thought) \in Nat /\ Count(x, held) \in Nat
    BY <1>2, <1>6, CountNat
  <2>4. Count(x, content) + Count(x, thought) + Count(x, held) = Count(x, pieces)
    BY <1>1 DEF Accounted
  <2>5. Count(x, fed.out) + Count(x, fed.thought) + Count(x, fed.held)
          = Count(x, thought) + Count(x, held) + (IF x = p THEN 1 ELSE 0)
    BY <1>3
  <2>6. Count(x, thought') = Count(x, fed.thought) /\ Count(x, held') = Count(x, fed.held)
    BY <1>4
  <2> QED BY <2>1, <2>2, <2>3, <2>4, <2>5, <2>6
<1>10. Accounted'
  BY <1>9 DEF Accounted, Count
<1> QED BY <1>7, <1>8, <1>10 DEF SseInv

(* The end of the stream: what the filter holds is said or thought. *)
LEMMA FinishStep ==
    ASSUME SseInv, reading # "ended", StreamFinish
    PROVE  SseInv'
<1> DEFINE out == IF filter = "MAYBE_OPEN" THEN held ELSE <<>>
<1>1. SseTypes /\ HeldForTag /\ Accounted /\ shown = content /\ guard # "stall"
  BY DEF SseInv, ShownSoFar
<1>2. /\ pieces \in Seq(Pieces) /\ content \in Seq(Pieces) /\ held \in Seq(Pieces) /\ thought \in Seq(Pieces)
      /\ out \in Seq(Pieces) /\ <<>> \in Seq(Pieces)
  BY <1>1 DEF SseTypes
<1>3. /\ reading' = "ended" /\ content' = content \o out /\ held' = <<>> /\ filter' = "NORMAL"
      /\ shown' = (IF guard = "none" THEN shown \o out ELSE shown)
      /\ thought' = (IF filter \in {"IN_THINK", "MAYBE_CLOSE"} THEN thought \o held ELSE thought)
      /\ guard' = (IF guard = "none" /\ stall \in {"abort", "kill"} THEN "stall" ELSE guard)
      /\ pieces' = pieces
  BY DEF StreamFinish
<1>4. SseTypes' /\ HeldForTag'
  <2>1. content \o out \in Seq(Pieces) /\ thought \o held \in Seq(Pieces)
    BY <1>2
  <2> QED BY <1>1, <1>2, <1>3, <2>1 DEF SseTypes, HeldForTag
<1>5. ASSUME NEW x \in Told
      PROVE  Count(x, content') + Count(x, thought') + Count(x, held') = Count(x, pieces')
  <2>1. Count(x, content') = Count(x, content) + Count(x, out)
    BY <1>2, <1>3, CountJoined
  <2>2. Count(x, thought \o held) = Count(x, thought) + Count(x, held) /\ Count(x, <<>>) = 0
    BY <1>2, CountJoined, CountNone
  <2>3. /\ Count(x, content) \in Nat /\ Count(x, thought) \in Nat /\ Count(x, held) \in Nat
        /\ Count(x, content) + Count(x, thought) + Count(x, held) = Count(x, pieces)
    BY <1>1, <1>2, CountNat DEF Accounted
  <2>4. Count(x, held') = 0 /\ Count(x, pieces') = Count(x, pieces)
    BY <1>3, <2>2
  <2>5. CASE filter = "MAYBE_OPEN"
    <3>1. Count(x, out) = Count(x, held) /\ Count(x, thought') = Count(x, thought)
      BY <1>3, <2>5
    <3> QED BY <2>1, <2>3, <2>4, <3>1
  <2>6. CASE filter = "NORMAL"
    <3>1. Count(x, out) = 0 /\ Count(x, thought') = Count(x, thought) /\ Count(x, held) = 0
      BY <1>1, <1>3, <2>2, <2>6 DEF HeldForTag
    <3> QED BY <2>1, <2>3, <2>4, <3>1
  <2>7. CASE filter \in {"IN_THINK", "MAYBE_CLOSE"}
    <3>1. Count(x, out) = 0 /\ Count(x, thought') = Count(x, thought) + Count(x, held)
      BY <1>3, <2>2, <2>7
    <3> QED BY <2>1, <2>3, <2>4, <3>1
  <2> QED BY <1>1, <2>5, <2>6, <2>7 DEF SseTypes
<1>6. IsPrefix(shown', content')
  <2>1. IsPrefix(content, content \o out) /\ IsPrefix(content \o out, (content \o out) \o <<>>)
    <3>1. content \o out \in Seq(Pieces)
      BY <1>2
    <3> HIDE DEF out
    <3> QED BY <1>2, <3>1, PrefixOfJoined
  <2>2. (content \o out) \o <<>> = content \o out
    <3>1. content \o out \in Seq(Pieces)
      BY <1>2
    <3>2. PICK whole : whole = content \o out
      OBVIOUS
    <3> HIDE DEF out
    <3>3. whole \in Seq(Pieces)
      BY <3>1, <3>2
    <3>4. whole \o <<>> = whole
      BY <3>3
    <3> QED BY <3>2, <3>4
  <2> QED BY <1>1, <1>3, <2>1, <2>2
<1>7. ShownSoFar'
  BY <1>1, <1>3, <1>6 DEF ShownSoFar
<1>8. Accounted'
  BY <1>5 DEF Accounted, Count
<1> QED BY <1>4, <1>7, <1>8 DEF SseInv

LEMMA SseInvStep ==
    ASSUME SseInv, [SseNext]_sseVars
    PROVE  SseInv'
<1>0. SseTypes /\ HeldForTag /\ Accounted /\ ShownSoFar
  BY DEF SseInv
<1>1. ASSUME UNCHANGED <<guard, textVars>>, reading' = reading \/ (reading = "read" /\ reading' = "thrown")
      PROVE  SseInv'
  <2>1. UNCHANGED <<pieces, filter, held, thought, content, shown, guard>>
    BY <1>1 DEF textVars
  <2>2. SseTypes' /\ HeldForTag' /\ ShownSoFar'
    BY <1>0, <1>1, <2>1 DEF SseTypes, HeldForTag, ShownSoFar
  <2>3. Accounted'
    BY <1>0, <2>1 DEF Accounted, Count
  <2> QED BY <2>2, <2>3 DEF SseInv
<1>2. ASSUME NEW p \in Sentences \cup Others, Text(p) PROVE SseInv'
  BY <1>2, TextStep DEF Pieces
<1>3. ASSUME CallPiece \/ KeepAlive \/ Silence \/ ReadRejected PROVE SseInv'
  BY <1>1, <1>3 DEF CallPiece, KeepAlive, Silence, ReadRejected
<1>4. ASSUME StreamDone \/ CancelReturns PROVE SseInv'
  BY <1>4, FinishStep DEF StreamDone, CancelReturns
<1>5. ASSUME UNCHANGED sseVars PROVE SseInv'
  BY <1>1, <1>5 DEF sseVars, textVars
<1> QED
  BY <1>2, <1>3, <1>4, <1>5 DEF SseNext

(* executor/think-filter.ts:3 and executor/api-executor.ts:1305, for any pieces *)
(* and any limits of the guards: wherever the pieces are cut and whenever the   *)
(* stream ends, what came is said or thought once, and the user has been shown  *)
(* all that the history will say, unless a guard cut the answer.                *)
THEOREM TextAccountedCorrect == SseSpec => []TextAccounted
<1>1. SseInv => TextAccounted
  <2> SUFFICES ASSUME SseInv PROVE TextAccounted
    OBVIOUS
  <2>1. /\ content \in Seq(Pieces) /\ thought \in Seq(Pieces) /\ held \in Seq(Pieces)
        /\ content \o thought \in Seq(Pieces)
    BY DEF SseInv, SseTypes
  <2>2. ASSUME NEW x \in Told PROVE Count(x, Kept) = Count(x, pieces)
    <3>1. Kept = (content \o thought) \o held
      BY DEF Kept
    <3>2. Count(x, (content \o thought) \o held) = Count(x, content \o thought) + Count(x, held)
      BY <2>1, CountJoined
    <3>3. Count(x, content \o thought) = Count(x, content) + Count(x, thought)
      BY <2>1, CountJoined
    <3> QED BY <3>1, <3>2, <3>3 DEF SseInv, Accounted
  <2>3. (guard \in {"none", "stall"} => shown = content) /\ IsPrefix(shown, content)
    <3>1. CASE reading = "ended"
      BY <3>1 DEF SseInv, ShownSoFar
    <3>2. CASE reading # "ended"
      <4>1. shown = content /\ content \o <<>> = content /\ <<>> \in Seq(Pieces)
        BY <2>1, <3>2 DEF SseInv, ShownSoFar
      <4>2. IsPrefix(content, content \o <<>>)
        BY <2>1, <4>1, PrefixOfJoined
      <4> QED BY <4>1, <4>2
    <3> QED BY <3>1, <3>2
  <2> QED BY <2>2, <2>3 DEF TextAccounted, Told
<1> QED
  BY <1>1, SseInitInv, SseInvStep, PTL DEF SseSpec

(* ChunkText.tla *)

ChunkLine == OfLines(Nat)
TextLine == OfLines(Nat \ {0})
ChunkMessage == [lines : Seq(ChunkLine), closed : BOOLEAN, italic : BOOLEAN]

(* What Chars has counted after each of the lines. *)
SumsUp(g, ls) ==
    /\ g \in [0..Len(ls) -> Nat] /\ g[0] = 0
    /\ \A i \in 1..Len(ls) : g[i] = g[i - 1] + ls[i].len

LEMMA CharsUnfolds ==
    ASSUME NEW ls \in Seq(ChunkLine)
    PROVE  \E g : SumsUp(g, ls) /\ Chars(ls) = g[Len(ls)]
<1> DEFINE n == Len(ls)
           W == Nat
           c == [i \in 1..n |-> ls[i].len]
           step == [i \in 1..n |-> [x \in W |-> x + c[i]]]
<1>1. n \in Nat
  OBVIOUS
<1>2. \A l \in ChunkLine : l.len \in Nat
  BY DEF ChunkLine, OfLines
<1>3. \A i \in 1..n : ls[i] \in ChunkLine
  OBVIOUS
<1>4. \A i \in 1..n : c[i] = ls[i].len /\ c[i] \in W
  BY <1>2, <1>3
<1>5. Chars(ls) = (CHOOSE g : g = [i \in 0..n |-> IF i = 0 THEN 0 ELSE g[i - 1] + ls[i].len])[n]
  BY DEF Chars
<1>0. 0 \in W /\ \A x, y \in W : x + y \in W
  OBVIOUS
<1> HIDE DEF n, c, W
<1>6. step \in StepsOver(n, W)
  BY <1>0, <1>4 DEF StepsOver
<1>7. \A x \in W, i \in 1..n : step[i][x] = x + c[i]
  OBVIOUS
<1> HIDE DEF step
<1>8. PICK g : Takes(g, n, W, 0, step)
  BY <1>0, <1>1, <1>6, Recursion
<1>9. /\ g \in [0..n -> W] /\ g[0] = 0
      /\ \A i \in 1..n : g[i] = g[i - 1] + c[i]
  BY <1>1, <1>7, <1>8 DEF Takes
<1>10. \A i \in 0..n : g[i] = IF i = 0 THEN 0 ELSE g[i - 1] + ls[i].len
  BY <1>1, <1>4, <1>9
<1>11. g = [i \in 0..n |-> IF i = 0 THEN 0 ELSE g[i - 1] + ls[i].len]
  BY <1>9, <1>10
<1> DEFINE hh == CHOOSE hh : hh = [i \in 0..n |-> IF i = 0 THEN 0 ELSE hh[i - 1] + ls[i].len]
<1>12. hh = [i \in 0..n |-> IF i = 0 THEN 0 ELSE hh[i - 1] + ls[i].len]
  BY <1>11
<1>13. Chars(ls) = hh[n]
  BY <1>5
<1> HIDE DEF hh
<1>14. hh[0] = 0 /\ \A i \in 1..n : hh[i] = hh[i - 1] + c[i]
  BY <1>1, <1>4, <1>12
<1>15. \A i \in 1..n : hh[i - 1] \in W => hh[i] = step[i][hh[i - 1]]
  BY <1>7, <1>14
<1>16. \A i \in 0..n : hh[i] = g[i]
  <2> DEFINE zero == 0
  <2>1. Takes(g, n, W, zero, step) /\ hh[0] = zero
    BY <1>8, <1>14
  <2> HIDE DEF zero
  <2> QED BY <1>1, <1>15, <2>1, OneRun
<1>17. Chars(ls) = g[n]
  BY <1>1, <1>13, <1>16
<1>18. \A i \in 1..n : g[i] = g[i - 1] + ls[i].len
  BY <1>4, <1>9
<1> QED BY <1>9, <1>17, <1>18 DEF n, W, SumsUp

LEMMA CharsAppend ==
    ASSUME NEW ls \in Seq(ChunkLine), NEW l \in ChunkLine
    PROVE  Chars(ls) \in Nat /\ Chars(Append(ls, l)) = Chars(ls) + l.len
<1> DEFINE n == Len(ls)
           w == Append(ls, l)
<1>1. n \in Nat /\ w \in Seq(ChunkLine) /\ Len(w) = n + 1 /\ w[n + 1] = l /\ \A i \in 1..n : w[i] = ls[i]
  OBVIOUS
<1>2. PICK g : SumsUp(g, ls) /\ Chars(ls) = g[n]
  BY CharsUnfolds
<1> HIDE DEF w
<1>3. PICK hh : SumsUp(hh, w) /\ Chars(w) = hh[n + 1]
  BY <1>1, CharsUnfolds
<1>4. /\ g \in [0..n -> Nat] /\ g[0] = 0 /\ \A i \in 1..n : g[i] = g[i - 1] + ls[i].len
      /\ hh[0] = 0 /\ \A i \in 1..(n + 1) : hh[i] = hh[i - 1] + w[i].len
  BY <1>1, <1>2, <1>3 DEF SumsUp
<1> HIDE DEF n
<1> DEFINE Good == {i \in 0..n : hh[i] = g[i]}
<1>5. 0 \in Good
  BY <1>1, <1>4
<1>6. ASSUME NEW i \in 1..n, i - 1 \in Good PROVE i \in Good
  <2>1. i \in 0..n /\ i \in 1..(n + 1)
    BY <1>1
  <2>2. hh[i - 1] = g[i - 1] /\ w[i] = ls[i]
    BY <1>1, <1>6
  <2>3. hh[i] = g[i - 1] + ls[i].len
    BY <1>4, <2>1, <2>2
  <2> QED BY <1>4, <2>1, <2>3
<1> HIDE DEF Good
<1>7. \A i \in 0..n : i \in Good
  BY <1>1, <1>5, <1>6, InductionUpTo
<1>8. hh[n] = g[n] /\ n + 1 \in 1..(n + 1) /\ (n + 1) - 1 = n /\ g[n] \in Nat
  BY <1>1, <1>4, <1>7 DEF Good
<1>9. hh[n + 1] = g[n] + l.len
  BY <1>1, <1>4, <1>8
<1> QED BY <1>2, <1>3, <1>8, <1>9 DEF w, n

LEMMA CharsEmpty == Chars(<<>>) = 0
<1>1. <<>> \in Seq(ChunkLine) /\ Len(<<>>) = 0
  OBVIOUS
<1>2. PICK g : SumsUp(g, <<>>) /\ Chars(<<>>) = g[0]
  BY <1>1, CharsUnfolds
<1> QED BY <1>2 DEF SumsUp

LEMMA OwnType ==
    ASSUME NEW ls \in Seq(ChunkLine)
    PROVE  Own(ls) \in Seq(TextLine)
<1> DEFINE t == Own(ls)
<1>1. t \in Seq(ChunkLine) /\ t = Only(ls, TextLine)
  BY OnlyType DEF Own, TextLine
<1>2. PICK hh : Picks(hh, Only(ls, TextLine), ls, TextLine, Len(ls))
  BY OnlyPicks
<1>3. \A j \in 1..Len(t) : t[j] \in TextLine
  BY <1>1, <1>2 DEF Picks
<1> HIDE DEF t
<1>4. t = [j \in 1..Len(t) |-> t[j]] /\ Len(t) \in Nat
  BY <1>1
<1>5. t \in Seq(TextLine)
  BY <1>3, <1>4
<1> QED BY <1>5 DEF t

LEMMA OwnAppend ==
    ASSUME NEW ls \in Seq(ChunkLine), NEW l \in ChunkLine
    PROVE  Own(Append(ls, l)) = IF l.line = 0 THEN Own(ls) ELSE Append(Own(ls), l)
<1>1. l \in TextLine <=> l.line # 0
  BY DEF ChunkLine, TextLine, OfLines
<1> QED BY <1>1, OnlyAppend DEF Own, TextLine

(* What PostedLines has joined after each of the messages. *)
Joins(g, ms) ==
    /\ g \in [0..Len(ms) -> Seq(TextLine)] /\ g[0] = <<>>
    /\ \A i \in 1..Len(ms) : g[i] = g[i - 1] \o Own(ms[i].lines)

LEMMA PostedUnfolds ==
    ASSUME NEW ms \in Seq(ChunkMessage)
    PROVE  \E g : Joins(g, ms) /\ PostedLines(ms) = g[Len(ms)]
<1> DEFINE n == Len(ms)
           W == Seq(TextLine)
           c == [i \in 1..n |-> Own(ms[i].lines)]
           step == [i \in 1..n |-> [x \in W |-> x \o c[i]]]
<1>1. n \in Nat
  OBVIOUS
<1>2. \A m \in ChunkMessage : Own(m.lines) \in W
  <2>1. \A m \in ChunkMessage : m.lines \in Seq(ChunkLine)
    BY DEF ChunkMessage
  <2> QED BY <2>1, OwnType
<1>3. \A i \in 1..n : ms[i] \in ChunkMessage
  OBVIOUS
<1>4. \A i \in 1..n : c[i] = Own(ms[i].lines) /\ c[i] \in W
  BY <1>2, <1>3
<1>0. <<>> \in W /\ \A x, y \in W : x \o y \in W
  OBVIOUS
<1>5. PostedLines(ms) = (CHOOSE g : g = [i \in 0..n |-> IF i = 0 THEN <<>> ELSE g[i - 1] \o Own(ms[i].lines)])[n]
  BY DEF PostedLines
<1> HIDE DEF n, c, W
<1>6. step \in StepsOver(n, W)
  BY <1>0, <1>4 DEF StepsOver
<1>7. \A x \in W, i \in 1..n : step[i][x] = x \o c[i]
  OBVIOUS
<1> HIDE DEF step
<1>8. PICK g : Takes(g, n, W, <<>>, step)
  BY <1>0, <1>1, <1>6, Recursion
<1>9. /\ g \in [0..n -> W] /\ g[0] = <<>>
      /\ \A i \in 1..n : g[i] = g[i - 1] \o c[i]
  <2>1. /\ g \in [0..n -> W] /\ g[0] = <<>>
        /\ \A i \in 1..n : g[i] = step[i][g[i - 1]]
    BY <1>8 DEF Takes
  <2>2. \A i \in 1..n : g[i - 1] \in W
    BY <1>1, <2>1
  <2> QED BY <1>7, <2>1, <2>2
<1>10. \A i \in 0..n : g[i] = IF i = 0 THEN <<>> ELSE g[i - 1] \o Own(ms[i].lines)
  <2>1. \A i \in 1..n : g[i] = g[i - 1] \o Own(ms[i].lines)
    BY <1>4, <1>9
  <2>2. \A i \in 0..n : i # 0 => i \in 1..n
    BY <1>1
  <2>3. g[0] = <<>>
    BY <1>9
  <2> QED BY <2>1, <2>2, <2>3, Zenon
<1>11. g = [i \in 0..n |-> IF i = 0 THEN <<>> ELSE g[i - 1] \o Own(ms[i].lines)]
  BY <1>9, <1>10
<1> DEFINE hh == CHOOSE hh : hh = [i \in 0..n |-> IF i = 0 THEN <<>> ELSE hh[i - 1] \o Own(ms[i].lines)]
<1>12. hh = [i \in 0..n |-> IF i = 0 THEN <<>> ELSE hh[i - 1] \o Own(ms[i].lines)]
  BY <1>11
<1>13. PostedLines(ms) = hh[n]
  BY <1>5
<1> HIDE DEF hh
<1>14. hh[0] = <<>> /\ \A i \in 1..n : hh[i] = hh[i - 1] \o c[i]
  BY <1>1, <1>4, <1>12
<1>15. \A i \in 1..n : hh[i - 1] \in W => hh[i] = step[i][hh[i - 1]]
  BY <1>7, <1>14
<1>16. \A i \in 0..n : hh[i] = g[i]
  BY <1>1, <1>8, <1>14, <1>15, OneRun
<1>17. PostedLines(ms) = g[n]
  BY <1>1, <1>13, <1>16
<1>18. \A i \in 1..n : g[i] = g[i - 1] \o Own(ms[i].lines)
  BY <1>4, <1>9
<1> QED BY <1>9, <1>17, <1>18 DEF n, W, Joins

LEMMA PostedAppend ==
    ASSUME NEW ms \in Seq(ChunkMessage), NEW m \in ChunkMessage
    PROVE  PostedLines(ms) \in Seq(TextLine) /\ PostedLines(Append(ms, m)) = PostedLines(ms) \o Own(m.lines)
<1> DEFINE n == Len(ms)
           w == Append(ms, m)
<1>1. n \in Nat /\ w \in Seq(ChunkMessage) /\ Len(w) = n + 1 /\ w[n + 1] = m /\ \A i \in 1..n : w[i] = ms[i]
  OBVIOUS
<1>2. PICK g : Joins(g, ms) /\ PostedLines(ms) = g[n]
  BY PostedUnfolds
<1> HIDE DEF w
<1>3. PICK hh : Joins(hh, w) /\ PostedLines(w) = hh[n + 1]
  BY <1>1, PostedUnfolds
<1>4. /\ g \in [0..n -> Seq(TextLine)] /\ g[0] = <<>> /\ \A i \in 1..n : g[i] = g[i - 1] \o Own(ms[i].lines)
      /\ hh[0] = <<>> /\ \A i \in 1..(n + 1) : hh[i] = hh[i - 1] \o Own(w[i].lines)
  BY <1>1, <1>2, <1>3 DEF Joins
<1> HIDE DEF n
<1> DEFINE Good == {i \in 0..n : hh[i] = g[i]}
<1>5. 0 \in Good
  BY <1>1, <1>4
<1>6. ASSUME NEW i \in 1..n, i - 1 \in Good PROVE i \in Good
  <2>1. i \in 0..n /\ i \in 1..(n + 1)
    BY <1>1
  <2>2. hh[i - 1] = g[i - 1] /\ w[i] = ms[i]
    BY <1>1, <1>6
  <2>3. hh[i] = g[i - 1] \o Own(ms[i].lines)
    BY <1>4, <2>1, <2>2
  <2> QED BY <1>4, <2>1, <2>3
<1> HIDE DEF Good
<1>7. \A i \in 0..n : i \in Good
  BY <1>1, <1>5, <1>6, InductionUpTo
<1>8. hh[n] = g[n] /\ n + 1 \in 1..(n + 1) /\ (n + 1) - 1 = n /\ g[n] \in Seq(TextLine)
  BY <1>1, <1>4, <1>7 DEF Good
<1>9. hh[n + 1] = g[n] \o Own(m.lines)
  BY <1>1, <1>4, <1>8
<1> QED BY <1>2, <1>3, <1>8, <1>9 DEF w, n

LEMMA PostedEmpty == PostedLines(<<>>) = <<>>
<1>1. <<>> \in Seq(ChunkMessage) /\ Len(<<>>) = 0
  OBVIOUS
<1>2. PICK g : Joins(g, <<>>) /\ PostedLines(<<>>) = g[0]
  BY <1>1, PostedUnfolds
<1> QED BY <1>2 DEF Joins

-----------------------------------------------------------------------------
(* Fences: how many lines of a front open or close one. *)
FencesUpTo(ls, k) == {i \in 1..k : ls[i].fence}

LEMMA FenceCount ==
    ASSUME NEW ls, NEW k \in Nat
    PROVE  IsFiniteSet(FencesUpTo(ls, k)) /\ Cardinality(FencesUpTo(ls, k)) \in Nat
           /\ inFence(ls, k) = Odd(Cardinality(FencesUpTo(ls, k)))
<1>1. IsFiniteSet(1..k) /\ FencesUpTo(ls, k) \subseteq 1..k
  BY FS_Interval DEF FencesUpTo
<1>2. IsFiniteSet(FencesUpTo(ls, k))
  BY <1>1, FS_Subset
<1> QED BY <1>2, FS_CardinalityType DEF inFence, FencesUpTo

LEMMA NoFence == ASSUME NEW ls PROVE ~inFence(ls, 0)
<1>1. FencesUpTo(ls, 0) = {} /\ 0 \in Nat
  BY DEF FencesUpTo
<1>2. inFence(ls, 0) = Odd(0)
  BY <1>1, FenceCount, FS_EmptySet
<1>3. ~Odd(0)
  BY DEF Odd
<1> QED BY <1>2, <1>3

LEMMA FenceStep ==
    ASSUME NEW ls, NEW k \in Nat \ {0}
    PROVE  /\ ls[k].fence => (inFence(ls, k) <=> ~inFence(ls, k - 1))
           /\ ~ls[k].fence => (inFence(ls, k) <=> inFence(ls, k - 1))
<1> DEFINE A == FencesUpTo(ls, k - 1)
           B == FencesUpTo(ls, k)
<1>1. k - 1 \in Nat /\ k \in Nat
  OBVIOUS
<1>2. /\ IsFiniteSet(A) /\ Cardinality(A) \in Nat /\ inFence(ls, k - 1) = Odd(Cardinality(A))
      /\ inFence(ls, k) = Odd(Cardinality(B))
  BY <1>1, FenceCount
<1>3. CASE ls[k].fence
  <2>1. B = A \cup {k} /\ k \notin A
    BY <1>1, <1>3 DEF FencesUpTo
  <2>2. Cardinality(B) = Cardinality(A) + 1
    BY <1>2, <2>1, FS_AddElement
  <2> HIDE DEF A, B
  <2>3. Odd(Cardinality(B)) <=> ~Odd(Cardinality(A))
    BY <1>2, <2>2 DEF Odd
  <2> QED BY <1>2, <1>3, <2>3
<1>4. CASE ~ls[k].fence
  <2>1. B = A
    BY <1>1, <1>4 DEF FencesUpTo
  <2> QED BY <1>2, <1>4, <2>1
<1> QED BY <1>3, <1>4

LEMMA SameFences ==
    ASSUME NEW ls, NEW ms, NEW k \in Nat, \A i \in 1..k : ls[i].fence = ms[i].fence
    PROVE  inFence(ls, k) = inFence(ms, k)
BY DEF inFence

LEMMA OpenFence ==
    ASSUME NEW V, NEW ls \in Seq(V)
    PROVE  getOpenFence(ls) = inFence(ls, Len(ls))
<1>1. DOMAIN ls = 1..Len(ls)
  OBVIOUS
<1> QED BY <1>1 DEF getOpenFence, inFence

(* A line more. *)
LEMMA FenceAppend ==
    ASSUME NEW ls \in Seq(ChunkLine), NEW l \in ChunkLine
    PROVE  /\ \A k \in 0..Len(ls) : inFence(Append(ls, l), k) = inFence(ls, k)
           /\ getOpenFence(Append(ls, l)) = inFence(Append(ls, l), Len(ls) + 1)
           /\ l.fence => (getOpenFence(Append(ls, l)) <=> ~getOpenFence(ls))
           /\ ~l.fence => (getOpenFence(Append(ls, l)) <=> getOpenFence(ls))
<1> DEFINE w == Append(ls, l)
           n == Len(ls)
<1>1. n \in Nat /\ w \in Seq(ChunkLine) /\ Len(w) = n + 1 /\ w[n + 1] = l /\ \A i \in 1..n : w[i] = ls[i]
  OBVIOUS
<1>2. getOpenFence(w) = inFence(w, n + 1) /\ getOpenFence(ls) = inFence(ls, n)
  BY <1>1, OpenFence
<1> HIDE DEF w, n
<1>3. ASSUME NEW k \in 0..n PROVE inFence(w, k) = inFence(ls, k)
  <2>1. k \in Nat /\ \A i \in 1..k : w[i].fence = ls[i].fence
    BY <1>1
  <2> QED BY <2>1, SameFences
<1>4. n \in 0..n /\ n + 1 \in Nat \ {0} /\ (n + 1) - 1 = n
  BY <1>1
<1>5. inFence(w, n) = inFence(ls, n)
  BY <1>3, <1>4
<1>6. /\ l.fence => (inFence(w, n + 1) <=> ~inFence(w, n))
      /\ ~l.fence => (inFence(w, n + 1) <=> inFence(w, n))
  BY <1>1, <1>4, FenceStep
<1> QED BY <1>2, <1>3, <1>5, <1>6 DEF w, n

-----------------------------------------------------------------------------
ChunkTypes ==
    /\ text \in Seq(LineKinds)
    /\ line \in 1..(Len(text) + 1)
    /\ remaining \in Nat
    /\ remaining > 0 =>
          line <= Len(text) /\ text[line].len > MAX_CHARS /\ remaining <= text[line].len
    /\ currentLines \in Seq(ChunkLine) /\ messages \in Seq(ChunkMessage)

(* The lines taken so far: they come in order, up to the one the loop is at, *)
(* and each is there with all its characters but those still to cut.        *)
InOrderUpTo(ls, n) ==
    \A i \in DOMAIN ls : ls[i].line <= n /\ \A j \in DOMAIN ls : i < j => ls[i].line <= ls[j].line
Whole(ls, t, n, rest) ==
    \A k \in DOMAIN t :
        Chars(Only(ls, OfLines({k}))) =
            IF k < n THEN t[k].len ELSE IF k = n /\ rest > 0 THEN t[k].len - rest ELSE 0

(* Code is in a fence where it was in one in the text. *)
CodeFenced(ls, t) ==
    \A k \in DOMAIN ls :
        LET l == ls[k]
        IN  l.line # 0 /\ ~l.fence /\ t[l.line].len <= MAX_CHARS
              => (inFence(ls, k) <=> inFence(t, l.line))

(* A state of the loop: what it has gathered, lines and messages, at a line. *)
Gathers(ls, ms, t, n, rest) ==
    /\ ls \in Seq(ChunkLine) /\ ms \in Seq(ChunkMessage)
    /\ InOrderUpTo(PostedLines(ms) \o Own(ls), n)
    /\ Whole(PostedLines(ms) \o Own(ls), t, n, rest)
    /\ \A i \in DOMAIN ms : CodeFenced(ms[i].lines, t)
    /\ CodeFenced(ls, t)
    /\ getOpenFence(ls) <=> inFence(t, n - 1)

ChunkInv ==
    /\ ChunkTypes
    /\ Gathers(currentLines, messages, text, line, remaining)
    /\ over => line > Len(text) /\ remaining = 0 /\ Own(currentLines) = <<>>

LEMMA OwnNothing == Own(<<>>) = <<>>
BY OnlyEmpty DEF Own

LEMMA ReopenedLine ==
    /\ Reopened \in ChunkLine /\ <<Reopened>> \in Seq(ChunkLine)
    /\ Own(<<Reopened>>) = <<>> /\ getOpenFence(<<Reopened>>)
<1>1. Reopened \in ChunkLine /\ Reopened.line = 0 /\ Reopened.fence
  BY ChunkAssumption DEF Reopened, ChunkLine, OfLines
<1>2. <<>> \in Seq(ChunkLine) /\ <<Reopened>> = Append(<<>>, Reopened) /\ Len(<<>>) = 0
  OBVIOUS
<1>3. Own(<<Reopened>>) = <<>>
  BY <1>1, <1>2, OwnAppend, OwnNothing
<1>4. getOpenFence(<<>>) = inFence(<<>>, 0)
  BY <1>2, OpenFence
<1>5. getOpenFence(<<Reopened>>) <=> ~getOpenFence(<<>>)
  <2>1. getOpenFence(Append(<<>>, Reopened)) <=> ~getOpenFence(<<>>)
    BY <1>1, <1>2, FenceAppend
  <2> QED BY <1>2, <2>1
<1>6. ~getOpenFence(<<>>)
  BY <1>4, NoFence
<1> QED BY <1>1, <1>2, <1>3, <1>5, <1>6

(* A flush loses nothing, and leaves nothing but an open fence. *)
LEMMA FlushKeeps ==
    ASSUME NEW ls, NEW n, NEW ms, NEW t, NEW nr, NEW rest, Gathers(ls, ms, t, nr, rest),
           NEW s, s = flush([lines |-> ls, length |-> n, messages |-> ms])
    PROVE  Gathers(s.lines, s.messages, t, nr, rest) /\ Own(s.lines) = <<>>
<1>1. CASE ls = <<>>
  <2>1. s.lines = <<>> /\ s.messages = ms
    BY <1>1 DEF flush
  <2> QED BY <1>1, <2>1, OwnNothing
<1>2. CASE ls # <<>>
  <2> DEFINE m == Message(ls)
             new == IF getOpenFence(ls) THEN <<Reopened>> ELSE <<>>
  <2>1. s.lines = new /\ s.messages = Append(ms, m)
    BY <1>2 DEF flush
  <2>2. ls \in Seq(ChunkLine) /\ ms \in Seq(ChunkMessage)
    BY DEF Gathers
  <2>3. m \in ChunkMessage /\ m.lines = ls
    BY <2>2 DEF ChunkMessage, Message, getOpenFence, hasOpenItalic, Odd
  <2>4. <<>> \in Seq(ChunkLine) /\ ~getOpenFence(<<>>)
    <3>1. <<>> \in Seq(ChunkLine) /\ Len(<<>>) = 0
      OBVIOUS
    <3>2. getOpenFence(<<>>) = inFence(<<>>, 0)
      BY <3>1, OpenFence
    <3> QED BY <3>1, <3>2, NoFence
  <2>5. new \in Seq(ChunkLine) /\ Own(new) = <<>> /\ (getOpenFence(new) <=> getOpenFence(ls))
    BY <2>4, ReopenedLine, OwnNothing
  <2>6. CodeFenced(new, t)
    <3>1. CodeFenced(<<>>, t)
      BY DEF CodeFenced
    <3>2. CodeFenced(<<Reopened>>, t)
      BY DEF CodeFenced, Reopened
    <3> QED BY <3>1, <3>2
  <2> HIDE DEF m, new
  <2>7. PostedLines(Append(ms, m)) \o Own(new) = PostedLines(ms) \o Own(ls)
    <3>1. PostedLines(Append(ms, m)) = PostedLines(ms) \o Own(ls) /\ PostedLines(ms) \in Seq(TextLine)
      BY <2>2, <2>3, PostedAppend
    <3>2. Own(ls) \in Seq(TextLine)
      BY <2>2, OwnType
    <3>3. PostedLines(ms) \o Own(ls) \in Seq(TextLine)
      BY <3>1, <3>2
    <3> QED BY <2>5, <3>1, <3>3
  <2>8. Append(ms, m) \in Seq(ChunkMessage) /\ \A i \in DOMAIN Append(ms, m) : CodeFenced(Append(ms, m)[i].lines, t)
    <3>1. Append(ms, m) \in Seq(ChunkMessage)
      BY <2>2, <2>3
    <3>2. \A i \in DOMAIN Append(ms, m) : (i \in DOMAIN ms /\ Append(ms, m)[i] = ms[i]) \/ Append(ms, m)[i] = m
      BY <2>2
    <3> QED BY <2>3, <3>1, <3>2 DEF Gathers
  <2> QED BY <2>1, <2>5, <2>6, <2>7, <2>8 DEF Gathers
<1> QED BY <1>1, <1>2

(* A line, or a slice of one, is taken: it is the last of what there is. *)
LEMMA TakenLast ==
    ASSUME NEW q \in Seq(TextLine), NEW l \in TextLine, InOrderUpTo(q, l.line)
    PROVE  /\ InOrderUpTo(Append(q, l), l.line)
           /\ \A k \in Nat :
                /\ Chars(Only(q, OfLines({k}))) \in Nat
                /\ Chars(Only(Append(q, l), OfLines({k}))) =
                     Chars(Only(q, OfLines({k}))) + (IF k = l.line THEN l.len ELSE 0)
<1> DEFINE n == Len(q)
           w == Append(q, l)
<1>1. /\ n \in Nat /\ w \in Seq(TextLine) /\ Len(w) = n + 1 /\ w[n + 1] = l /\ \A i \in 1..n : w[i] = q[i]
      /\ DOMAIN q = 1..n /\ DOMAIN w = 1..(n + 1)
  OBVIOUS
<1>2. \A x \in TextLine : x.line \in Nat /\ x.len \in Nat /\ x \in ChunkLine
  BY DEF TextLine, ChunkLine, OfLines
<1>3. \A i \in 1..n : q[i] \in TextLine
  BY <1>1
<1> HIDE DEF w, n
<1>4. ASSUME NEW i \in DOMAIN w
      PROVE  w[i].line <= l.line /\ \A j \in DOMAIN w : i < j => w[i].line <= w[j].line
  <2>1. CASE i = n + 1
    BY <1>1, <1>2, <2>1
  <2>2. CASE i # n + 1
    <3>1. i \in 1..n /\ w[i] = q[i]
      BY <1>1, <2>2
    <3>2. q[i].line <= l.line /\ \A j \in 1..n : i < j => q[i].line <= q[j].line
      BY <1>1, <3>1 DEF InOrderUpTo
    <3>3. ASSUME NEW j \in DOMAIN w, i < j PROVE w[i].line <= w[j].line
      <4>1. CASE j = n + 1
        BY <1>1, <3>1, <3>2, <4>1
      <4>2. CASE j # n + 1
        <5>1. j \in 1..n /\ w[j] = q[j]
          BY <1>1, <4>2
        <5> QED BY <3>1, <3>2, <3>3, <5>1
      <4> QED BY <4>1, <4>2
    <3> QED BY <3>1, <3>2, <3>3
  <2> QED BY <2>1, <2>2
<1>5. InOrderUpTo(w, l.line)
  BY <1>4 DEF InOrderUpTo
<1>6. ASSUME NEW k \in Nat
      PROVE  /\ Chars(Only(q, OfLines({k}))) \in Nat
             /\ Chars(Only(w, OfLines({k}))) =
                  Chars(Only(q, OfLines({k}))) + (IF k = l.line THEN l.len ELSE 0)
  <2> DEFINE S == OfLines({k})
  <2>1. l \in S <=> k = l.line
    BY DEF TextLine, OfLines
  <2>0. q \in Seq(ChunkLine)
    <3>1. \A i \in 1..n : q[i] \in ChunkLine
      BY <1>2, <1>3
    <3>2. q = [i \in 1..n |-> q[i]]
      BY <1>1
    <3> QED BY <1>1, <3>1, <3>2
  <2> HIDE DEF S
  <2>2. Only(q, S) \in Seq(ChunkLine)
    BY <2>0, OnlyType
  <2>3. Only(w, S) = IF l \in S THEN Append(Only(q, S), l) ELSE Only(q, S)
    BY <1>2, OnlyAppend DEF w
  <2>4. Chars(Only(q, S)) \in Nat /\ Chars(Append(Only(q, S), l)) = Chars(Only(q, S)) + l.len
    BY <1>2, <2>2, CharsAppend
  <2>5. CASE l \in S
    BY <2>1, <2>3, <2>4, <2>5 DEF S
  <2>6. CASE l \notin S
    BY <2>1, <2>3, <2>4, <2>6 DEF S
  <2> QED BY <2>5, <2>6
<1> QED BY <1>5, <1>6 DEF w

(* The line the loop is at is gathered, whole or with its last slice. *)
LEMMA GatherLine ==
    ASSUME NEW ls, NEW ms, NEW t \in Seq(LineKinds), NEW nr \in 1..Len(t), NEW rest \in Nat,
           Gathers(ls, ms, t, nr, rest),
           NEW l \in ChunkLine, l.line = nr, l.fence = t[nr].fence,
           l.len = IF rest > 0 THEN rest ELSE t[nr].len
    PROVE  Gathers(Append(ls, l), ms, t, nr + 1, 0)
<1> DEFINE q == PostedLines(ms) \o Own(ls)
           n == Len(ls)
           w == Append(ls, l)
<1>1. /\ ls \in Seq(ChunkLine) /\ ms \in Seq(ChunkMessage) /\ l \in TextLine
      /\ nr \in Nat \ {0} /\ nr + 1 \in Nat /\ (nr + 1) - 1 = nr
      /\ \A k \in DOMAIN t : k \in Nat /\ t[k].len \in Nat
      /\ DOMAIN t = 1..Len(t)
  <2>1. \A k \in DOMAIN t : t[k] \in LineKinds
    OBVIOUS
  <2>2. \A x \in LineKinds : x.len \in Nat
    BY ChunkAssumption
  <2> QED BY <2>1, <2>2 DEF Gathers, ChunkLine, TextLine, OfLines
<1>2. /\ q \in Seq(TextLine) /\ PostedLines(ms) \in Seq(TextLine) /\ Own(ls) \in Seq(TextLine)
      /\ PostedLines(ms) \o Own(w) = Append(q, l)
  <2>1. PostedLines(ms) \in Seq(TextLine) /\ Own(ls) \in Seq(TextLine)
    <3>1. PostedLines(ms) \in Seq(TextLine)
      <4>1. PICK g : Joins(g, ms) /\ PostedLines(ms) = g[Len(ms)]
        BY <1>1, PostedUnfolds
      <4>2. Len(ms) \in 0..Len(ms)
        BY <1>1
      <4> QED BY <4>1, <4>2 DEF Joins
    <3> QED BY <1>1, <3>1, OwnType
  <2>2. Own(w) = Append(Own(ls), l)
    BY <1>1, OwnAppend DEF TextLine, OfLines
  <2> QED BY <1>1, <2>1, <2>2
<1>3. InOrderUpTo(q, nr) /\ Whole(q, t, nr, rest)
  BY DEF Gathers
<1> HIDE DEF q, w, n
<1>4. /\ InOrderUpTo(Append(q, l), nr)
      /\ \A k \in Nat :
           /\ Chars(Only(q, OfLines({k}))) \in Nat
           /\ Chars(Only(Append(q, l), OfLines({k}))) =
                Chars(Only(q, OfLines({k}))) + (IF k = nr THEN l.len ELSE 0)
  <2>1. InOrderUpTo(q, l.line) /\ q \in Seq(TextLine) /\ l \in TextLine
    BY <1>1, <1>2, <1>3
  <2>2. /\ InOrderUpTo(Append(q, l), l.line)
        /\ \A k \in Nat :
             /\ Chars(Only(q, OfLines({k}))) \in Nat
             /\ Chars(Only(Append(q, l), OfLines({k}))) =
                  Chars(Only(q, OfLines({k}))) + (IF k = l.line THEN l.len ELSE 0)
    BY <2>1, TakenLast
  <2> QED BY <2>2
<1>5. InOrderUpTo(Append(q, l), nr + 1)
  <2> DEFINE more == Append(q, l)
  <2>1. \A i \in DOMAIN more : more[i] \in TextLine
    BY <1>1, <1>2
  <2>2. \A x \in TextLine : x.line \in Nat
    BY DEF TextLine, OfLines
  <2>3. \A i \in DOMAIN more : more[i].line \in Nat
    BY <2>1, <2>2
  <2> HIDE DEF more
  <2>4. \A k \in Nat : k <= nr => k <= nr + 1
    BY <1>1
  <2>5. InOrderUpTo(more, nr)
    BY <1>4 DEF more
  <2>6. InOrderUpTo(more, nr + 1)
    BY <2>3, <2>4, <2>5 DEF InOrderUpTo
  <2> QED BY <2>6 DEF more
<1>6. Whole(Append(q, l), t, nr + 1, 0)
  <2> SUFFICES ASSUME NEW k \in DOMAIN t
               PROVE  Chars(Only(Append(q, l), OfLines({k}))) =
                        IF k < nr + 1 THEN t[k].len ELSE IF k = nr + 1 /\ 0 > 0 THEN t[k].len - 0 ELSE 0
    BY DEF Whole
  <2>1. Chars(Only(q, OfLines({k}))) =
            IF k < nr THEN t[k].len ELSE IF k = nr /\ rest > 0 THEN t[k].len - rest ELSE 0
    BY <1>3 DEF Whole
  <2>2. Chars(Only(Append(q, l), OfLines({k}))) =
            Chars(Only(q, OfLines({k}))) + (IF k = nr THEN l.len ELSE 0)
    BY <1>1, <1>4
  <2>3. k \in Nat /\ t[k].len \in Nat /\ nr \in Nat
    BY <1>1
  <2> QED BY <2>1, <2>2, <2>3
<1>7. /\ \A k \in 0..n : inFence(w, k) = inFence(ls, k)
      /\ getOpenFence(w) = inFence(w, n + 1)
      /\ l.fence => (getOpenFence(w) <=> ~getOpenFence(ls))
      /\ ~l.fence => (getOpenFence(w) <=> getOpenFence(ls))
  BY <1>1, FenceAppend DEF w, n
<1>8. /\ t[nr].fence => (inFence(t, nr) <=> ~inFence(t, nr - 1))
      /\ ~t[nr].fence => (inFence(t, nr) <=> inFence(t, nr - 1))
  BY <1>1, FenceStep
<1>9. (getOpenFence(ls) <=> inFence(t, nr - 1)) /\ CodeFenced(ls, t)
  BY DEF Gathers
<1>10. getOpenFence(w) <=> inFence(t, nr)
  <2>1. CASE l.fence
    BY <1>7, <1>8, <1>9, <2>1
  <2>2. CASE ~l.fence
    BY <1>7, <1>8, <1>9, <2>2
  <2> QED BY <2>1, <2>2
<1>11. CodeFenced(w, t)
  <2>1. /\ n \in Nat /\ w[n + 1] = l /\ \A i \in 1..n : w[i] = ls[i]
        /\ DOMAIN w = 1..(n + 1) /\ DOMAIN ls = 1..n
    BY <1>1 DEF w, n
  <2>2. ASSUME NEW k \in DOMAIN w, w[k].line # 0, ~w[k].fence, t[w[k].line].len <= MAX_CHARS
        PROVE  inFence(w, k) <=> inFence(t, w[k].line)
    <3>1. CASE k = n + 1
      <4>1. w[k] = l
        BY <2>1, <3>1
      <4> QED BY <1>7, <1>10, <3>1, <4>1
    <3>2. CASE k # n + 1
      <4>1. k \in 1..n /\ k \in 0..n /\ w[k] = ls[k] /\ k \in DOMAIN ls
        BY <2>1, <3>2
      <4>2. inFence(ls, k) <=> inFence(t, ls[k].line)
        BY <1>9, <2>2, <4>1 DEF CodeFenced
      <4>3. inFence(w, k) = inFence(ls, k)
        BY <1>7, <4>1
      <4> QED BY <4>1, <4>2, <4>3
    <3> QED BY <3>1, <3>2
  <2> QED BY <2>2 DEF CodeFenced
<1>12. w \in Seq(ChunkLine)
  BY <1>1 DEF w
<1> QED BY <1>1, <1>2, <1>5, <1>6, <1>10, <1>11, <1>12 DEF Gathers, w

(* A full slice of the line the loop is at is a message of its own. *)
LEMMA PostSlice ==
    ASSUME NEW ls, NEW ms, NEW t \in Seq(LineKinds), NEW nr \in 1..Len(t), NEW rest \in Nat,
           Gathers(ls, ms, t, nr, rest), Own(ls) = <<>>,
           NEW l \in ChunkLine, l.line = nr, l.len < rest, t[nr].len > MAX_CHARS,
           NEW m \in ChunkMessage, m.lines = <<l>>
    PROVE  Gathers(ls, Append(ms, m), t, nr, rest - l.len)
<1> DEFINE q == PostedLines(ms)
           more == Append(ms, m)
<1>1. /\ ls \in Seq(ChunkLine) /\ ms \in Seq(ChunkMessage) /\ l \in TextLine
      /\ nr \in Nat \ {0}
      /\ \A k \in DOMAIN t : k \in Nat /\ t[k].len \in Nat
      /\ DOMAIN t = 1..Len(t) /\ l.len \in Nat
  <2>1. \A k \in DOMAIN t : t[k] \in LineKinds
    OBVIOUS
  <2>2. \A x \in LineKinds : x.len \in Nat
    BY ChunkAssumption
  <2> QED BY <2>1, <2>2 DEF Gathers, ChunkLine, TextLine, OfLines
<1>2. /\ q \in Seq(TextLine) /\ PostedLines(more) = q \o Own(<<l>>)
  BY <1>1, PostedAppend
<1>3. Own(<<l>>) = <<l>>
  <2>1. <<>> \in Seq(ChunkLine) /\ <<l>> = Append(<<>>, l)
    OBVIOUS
  <2> QED BY <1>1, <2>1, OwnAppend, OwnNothing
<1>4. q \o Own(ls) = q /\ PostedLines(more) \o Own(ls) = Append(q, l)
  <2>1. \A x \in Seq(TextLine) : x \o <<>> = x /\ x \o <<l>> = Append(x, l) /\ Append(x, l) \in Seq(TextLine)
    BY <1>1
  <2> HIDE DEF q, more
  <2> QED BY <1>2, <1>3, <2>1
<1>5. InOrderUpTo(q, nr) /\ Whole(q, t, nr, rest)
  BY <1>4 DEF Gathers
<1> HIDE DEF q
<1>6. /\ InOrderUpTo(Append(q, l), nr)
      /\ \A k \in Nat :
           /\ Chars(Only(q, OfLines({k}))) \in Nat
           /\ Chars(Only(Append(q, l), OfLines({k}))) =
                Chars(Only(q, OfLines({k}))) + (IF k = nr THEN l.len ELSE 0)
  BY <1>1, <1>2, <1>5, TakenLast
<1>7. Whole(Append(q, l), t, nr, rest - l.len)
  <2> SUFFICES ASSUME NEW k \in DOMAIN t
               PROVE  Chars(Only(Append(q, l), OfLines({k}))) =
                        IF k < nr THEN t[k].len
                        ELSE IF k = nr /\ rest - l.len > 0 THEN t[k].len - (rest - l.len) ELSE 0
    BY DEF Whole
  <2>1. Chars(Only(q, OfLines({k}))) =
            IF k < nr THEN t[k].len ELSE IF k = nr /\ rest > 0 THEN t[k].len - rest ELSE 0
    BY <1>5 DEF Whole
  <2>2. Chars(Only(Append(q, l), OfLines({k}))) =
            Chars(Only(q, OfLines({k}))) + (IF k = nr THEN l.len ELSE 0)
    BY <1>1, <1>6
  <2>3. k \in Nat /\ t[k].len \in Nat /\ nr \in Nat
    BY <1>1
  <2> QED BY <1>1, <2>1, <2>2, <2>3
<1>8. CodeFenced(<<l>>, t)
  <2>1. t[nr].len \in Nat /\ MAX_CHARS \in Nat
    BY <1>1, ChunkAssumption
  <2>2. ASSUME NEW k \in DOMAIN <<l>> PROVE <<l>>[k] = l
    OBVIOUS
  <2>3. ~(t[nr].len <= MAX_CHARS)
    BY <2>1
  <2> QED BY <2>2, <2>3 DEF CodeFenced
<1>9. more \in Seq(ChunkMessage) /\ \A i \in DOMAIN more : CodeFenced(more[i].lines, t)
  <2>1. more \in Seq(ChunkMessage)
    BY <1>1
  <2>2. \A i \in DOMAIN more : (i \in DOMAIN ms /\ more[i] = ms[i]) \/ more[i] = m
    BY <1>1
  <2> QED BY <1>8, <2>1, <2>2 DEF Gathers
<1> QED BY <1>1, <1>4, <1>6, <1>7, <1>9 DEF Gathers

LEMMA ChunkInitInv == ChunkInit => ChunkInv
<1> SUFFICES ASSUME ChunkInit PROVE ChunkInv
  OBVIOUS
<1>1. text \in Seq(LineKinds) /\ Len(text) \in Nat /\ DOMAIN text = 1..Len(text)
  BY ChunkAssumption DEF ChunkInit
<1>2. <<>> \in Seq(ChunkLine) /\ <<>> \in Seq(ChunkMessage) /\ Len(<<>>) = 0 /\ DOMAIN <<>> = {} /\ <<>> \o <<>> = <<>>
  OBVIOUS
<1>3. ChunkTypes
  BY <1>1, <1>2 DEF ChunkInit, ChunkTypes
<1>4. PostedLines(<<>>) \o Own(<<>>) = <<>>
  BY <1>2, PostedEmpty, OwnNothing
<1>5. InOrderUpTo(<<>>, 1)
  BY <1>2 DEF InOrderUpTo
<1>6. Whole(<<>>, text, 1, 0)
  <2>1. ASSUME NEW k \in DOMAIN text
        PROVE  Chars(Only(<<>>, OfLines({k}))) = 0 /\ ~(k < 1)
    BY <1>1, OnlyEmpty, CharsEmpty
  <2> QED BY <2>1 DEF Whole
<1>7. CodeFenced(<<>>, text)
  BY <1>2 DEF CodeFenced
<1>8. ~getOpenFence(<<>>) /\ ~inFence(text, 0) /\ 1 - 1 = 0
  <2>1. getOpenFence(<<>>) = inFence(<<>>, 0)
    BY <1>2, OpenFence
  <2> QED BY <2>1, NoFence
<1>9. Gathers(<<>>, <<>>, text, 1, 0)
  <2>1. \A i \in DOMAIN <<>> : CodeFenced(<<>>[i].lines, text)
    BY <1>2
  <2> QED BY <2>1, <1>2, <1>4, <1>5, <1>6, <1>7, <1>8 DEF Gathers
<1> QED BY <1>3, <1>9 DEF ChunkInit, ChunkInv

(* What IfFull leaves is as good. *)
LEMMA FullKeeps ==
    ASSUME ChunkInv
    PROVE  Gathers(IfFull.lines, IfFull.messages, text, line, remaining)
<1>1. Gathers(currentLines, messages, text, line, remaining)
  BY DEF ChunkInv
<1>2. CASE Full
  <2>1. IfFull = flush([lines |-> currentLines, length |-> currentLength, messages |-> messages])
    BY <1>2 DEF IfFull, Gathered
  <2> QED BY <1>1, <2>1, FlushKeeps
<1>3. CASE ~Full
  BY <1>1, <1>3 DEF IfFull, Gathered
<1> QED BY <1>2, <1>3

LEMMA ChunkInvStep == ChunkInv /\ [ChunkNext]_chunkVars => ChunkInv'
<1> SUFFICES ASSUME ChunkInv, [ChunkNext]_chunkVars PROVE ChunkInv'
  OBVIOUS
<1>1. /\ text \in Seq(LineKinds) /\ line \in 1..(Len(text) + 1) /\ remaining \in Nat
      /\ Len(text) \in Nat /\ MAX_CHARS \in Nat \ {0}
      /\ remaining > 0 =>
            line <= Len(text) /\ text[line].len > MAX_CHARS /\ remaining <= text[line].len
      /\ over => line > Len(text) /\ remaining = 0 /\ Own(currentLines) = <<>>
      /\ Gathers(currentLines, messages, text, line, remaining)
  BY ChunkAssumption DEF ChunkInv, ChunkTypes
<1>2. ASSUME line <= Len(text)
      PROVE  /\ line \in 1..Len(text) /\ line + 1 \in 1..(Len(text) + 1)
             /\ text[line].len \in Nat /\ text[line].fence \in BOOLEAN /\ text[line].star \in BOOLEAN
             /\ text[line].len > MAX_CHARS => ~text[line].fence
  <2>1. line \in 1..Len(text) /\ line + 1 \in 1..(Len(text) + 1)
    BY <1>1, <1>2
  <2>2. text[line] \in LineKinds
    BY <1>1, <2>1
  <2>3. \A x \in LineKinds : x.len \in Nat /\ x.fence \in BOOLEAN /\ x.star \in BOOLEAN
    BY ChunkAssumption
  <2> QED BY <2>1, <2>2, <2>3, ChunkAssumption
<1>3. ASSUME Gathers(currentLines, messages, text, line, remaining)'
      PROVE  currentLines' \in Seq(ChunkLine) /\ messages' \in Seq(ChunkMessage)
  BY <1>3 DEF Gathers
<1>4. CASE AddLine
  <2> DEFINE l == Numbered(Next1, line)
             ls == IfFull.lines
  <2>1. ~over /\ line <= Len(text) /\ remaining = 0 /\ line' = line + 1
        /\ remaining' = 0 /\ text' = text /\ over' = over
    BY <1>4 DEF AddLine
  <2>2. currentLines' = Append(ls, l) /\ messages' = IfFull.messages
    BY <1>4 DEF AddLine, Becomes
  <2>3. l \in ChunkLine /\ l.line = line /\ l.fence = text[line].fence /\ l.len = text[line].len
    BY <1>2, <2>1 DEF Numbered, Next1, ChunkLine, OfLines
  <2>4. Gathers(ls, IfFull.messages, text, line, remaining)
    BY FullKeeps
  <2> HIDE DEF l, ls
  <2>5. Gathers(Append(ls, l), IfFull.messages, text, line + 1, 0)
    BY <1>1, <1>2, <2>1, <2>3, <2>4, GatherLine
  <2>6. Gathers(currentLines, messages, text, line, remaining)'
    BY <2>1, <2>2, <2>5
  <2>7. ChunkTypes'
    BY <1>1, <1>2, <1>3, <2>1, <2>6 DEF ChunkTypes
  <2> QED BY <2>1, <2>6, <2>7 DEF ChunkInv
<1>5. CASE EnterCut
  <2>1. ~over /\ line <= Len(text) /\ remaining = 0 /\ line' = line
        /\ remaining' = text[line].len /\ text' = text /\ over' = over /\ text[line].len > MAX_CHARS
        /\ currentLines' = IfFull.lines /\ messages' = IfFull.messages
    BY <1>5 DEF EnterCut, Next1, Becomes
  <2>2. Gathers(IfFull.lines, IfFull.messages, text, line, 0)
    BY <2>1, FullKeeps
  <2>3. Gathers(IfFull.lines, IfFull.messages, text, line, text[line].len)
    <3>1. Whole(PostedLines(IfFull.messages) \o Own(IfFull.lines), text, line, 0)
      BY <2>2 DEF Gathers
    <3>2. Whole(PostedLines(IfFull.messages) \o Own(IfFull.lines), text, line, text[line].len)
      <4>1. \A k \in DOMAIN text : text[k].len - text[k].len = 0
        <5>1. \A k \in DOMAIN text : text[k] \in LineKinds
          BY <1>1
        <5>2. \A x \in LineKinds : x.len \in Nat
          BY ChunkAssumption
        <5> QED BY <5>1, <5>2
      <4> QED BY <3>1, <4>1 DEF Whole
    <3> QED BY <2>2, <3>2 DEF Gathers
  <2>4. Gathers(currentLines, messages, text, line, remaining)'
    BY <2>1, <2>3
  <2>5. ChunkTypes'
    BY <1>1, <1>2, <1>3, <2>1, <2>4 DEF ChunkTypes
  <2> QED BY <2>1, <2>4, <2>5 DEF ChunkInv
<1>6. CASE CutSlice
  <2> DEFINE s == flush(Gathered)
  <2>1. remaining > 0 /\ text' = text /\ over' = over /\ ~over
    BY <1>1, <1>6 DEF CutSlice
  <2>2. Gathers(s.lines, s.messages, text, line, remaining) /\ Own(s.lines) = <<>>
    BY <1>1, FlushKeeps DEF Gathered
  <2>3. ~text[line].fence /\ line \in 1..Len(text)
    BY <1>1, <1>2, <2>1
  <2>4. CASE remaining <= MAX_CHARS
    <3> DEFINE l == Slice(remaining, Next1.star)
    <3>1. /\ currentLines' = Append(s.lines, l) /\ messages' = s.messages
          /\ remaining' = 0 /\ line' = line + 1
      BY <1>6, <2>4 DEF CutSlice, Becomes
    <3>2. l \in ChunkLine /\ l.line = line /\ ~l.fence /\ l.fence = FALSE /\ l.len = remaining
      BY <1>1, <1>2, <2>1 DEF Slice, Next1, ChunkLine, OfLines
    <3>3. l.fence = text[line].fence
      BY <1>1, <1>2, <2>1, <2>3, <3>2
    <3> HIDE DEF l, s
    <3>4. Gathers(Append(s.lines, l), s.messages, text, line + 1, 0)
      BY <1>1, <2>1, <2>2, <2>3, <3>2, <3>3, GatherLine
    <3>5. Gathers(currentLines, messages, text, line, remaining)'
      BY <2>1, <3>1, <3>4
    <3>6. ChunkTypes'
      BY <1>1, <1>2, <1>3, <2>1, <3>1, <3>5 DEF ChunkTypes
    <3> QED BY <2>1, <3>5, <3>6 DEF ChunkInv
  <2>5. CASE ~(remaining <= MAX_CHARS)
    <3> DEFINE l == Slice(MAX_CHARS, FALSE)
               m == [lines |-> <<l>>, closed |-> FALSE, italic |-> FALSE]
    <3>1. /\ currentLines' = s.lines /\ messages' = Append(s.messages, m)
          /\ remaining' = remaining - MAX_CHARS /\ line' = line
      BY <1>6, <2>5 DEF CutSlice, Becomes
    <3>2. l \in ChunkLine /\ l.line = line /\ l.len = MAX_CHARS
      BY <1>1 DEF Slice, ChunkLine, OfLines
    <3>3. m \in ChunkMessage /\ m.lines = <<l>>
      <4> HIDE DEF l
      <4>1. <<l>> \in Seq(ChunkLine)
        BY <3>2
      <4> QED BY <4>1 DEF ChunkMessage
    <3>4. MAX_CHARS < remaining /\ remaining - MAX_CHARS \in Nat
          /\ remaining - MAX_CHARS <= text[line].len /\ text[line].len > MAX_CHARS
      BY <1>1, <1>2, <2>1, <2>5
    <3> HIDE DEF l, m, s
    <3>5. Gathers(s.lines, Append(s.messages, m), text, line, remaining - MAX_CHARS)
      BY <1>1, <2>2, <2>3, <3>2, <3>3, <3>4, PostSlice
    <3>6. Gathers(currentLines, messages, text, line, remaining)'
      BY <2>1, <3>1, <3>5
    <3>7. ChunkTypes'
      BY <1>1, <1>2, <1>3, <2>1, <2>3, <3>1, <3>4, <3>6 DEF ChunkTypes
    <3> QED BY <2>1, <3>6, <3>7 DEF ChunkInv
  <2> QED BY <2>4, <2>5
<1>7. CASE Return
  <2> DEFINE s == flush(Gathered)
  <2>1. /\ ~over /\ line > Len(text) /\ over' = TRUE /\ text' = text /\ line' = line /\ remaining' = remaining
        /\ currentLines' = s.lines /\ messages' = s.messages
    BY <1>7 DEF Return, Becomes
  <2>2. Gathers(s.lines, s.messages, text, line, remaining) /\ Own(s.lines) = <<>>
    BY <1>1, FlushKeeps DEF Gathered
  <2> HIDE DEF s
  <2>3. remaining = 0
    BY <1>1, <2>1
  <2>4. Gathers(currentLines, messages, text, line, remaining)'
    BY <2>1, <2>2
  <2>5. ChunkTypes'
    BY <1>1, <1>3, <2>1, <2>3, <2>4 DEF ChunkTypes
  <2> QED BY <2>1, <2>2, <2>3, <2>4, <2>5 DEF ChunkInv
<1>8. CASE UNCHANGED chunkVars
  BY <1>8 DEF chunkVars, ChunkInv, ChunkTypes
<1> QED BY <1>4, <1>5, <1>6, <1>7, <1>8 DEF ChunkNext

(* Whatever the lines, the limits and the length of a fence, the messages    *)
(* chunkText returns hold the text in its order, each line with all its      *)
(* characters, and code stays in a fence across the cuts (channel/           *)
(* discord.ts, chunkText).                                                   *)
THEOREM TextKeptCorrect == ChunkSpec => []TextKept
<1>1. ChunkInv => TextKept
  <2> SUFFICES ASSUME ChunkInv, over PROVE TextKept
    BY DEF TextKept
  <2> DEFINE q == PostedLines(messages)
  <2>1. /\ Gathers(currentLines, messages, text, line, remaining)
        /\ line > Len(text) /\ line \in Nat /\ Len(text) \in Nat /\ Own(currentLines) = <<>>
    BY DEF ChunkInv, ChunkTypes
  <2>2. q \in Seq(TextLine)
    <3>1. messages \in Seq(ChunkMessage) /\ Len(messages) \in 0..Len(messages)
      BY <2>1 DEF Gathers
    <3> QED BY <3>1, PostedUnfolds DEF Joins
  <2>3. q \o Own(currentLines) = q
    BY <2>1, <2>2
  <2> HIDE DEF q
  <2>4. InOrderUpTo(q, line) /\ Whole(q, text, line, remaining) /\ \A i \in DOMAIN messages : CodeFenced(messages[i].lines, text)
    BY <2>1, <2>3 DEF Gathers, q
  <2>5. \A n \in DOMAIN text : n < line
    BY <2>1 DEF ChunkInv, ChunkTypes
  <2>6. \A n \in DOMAIN text : Chars(Only(q, OfLines({n}))) = text[n].len
    BY <2>4, <2>5 DEF Whole
  <2>7. \A i, j \in DOMAIN q : i < j => q[i].line <= q[j].line
    BY <2>4 DEF InOrderUpTo
  <2> QED BY <2>4, <2>6, <2>7 DEF TextKept, CodeFenced, q
<1> QED
  BY <1>1, ChunkInitInv, ChunkInvStep, PTL DEF ChunkSpec
=============================================================================
