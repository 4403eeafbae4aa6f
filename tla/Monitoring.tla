----------------------------- MODULE Monitoring -----------------------------
(***************************************************************************)
(* What the daemon keeps about its own work: the hooks (hooks/registry.ts) *)
(* that carry the ends of executions to the error monitor                  *)
(* (monitoring/error-monitor.ts) and the daily log                         *)
(* (autonomous/daily-log.ts), and the cost tracker (utils/cost-tracker.ts).*)
(* A crash loses what is in memory.                                        *)
(*                                                                         *)
(* Days have DayLength ticks of the clock, the monitor's window Window.    *)
(***************************************************************************)
EXTENDS Naturals, Sequences, Filter

CONSTANTS Threshold, Window,   \* escalationThreshold and escalationWindowMs
          MaxRecent,           \* maxRecentRecords
          DayLength,
          MaxEvents, MaxTicks  \* bounds

ASSUME MonitoringAssumption ==
    /\ {Threshold, MaxRecent, DayLength} \subseteq Nat \ {0}
    /\ {Window, MaxEvents, MaxTicks} \subseteq Nat

(* index.ts: what fails in an executor is a warning, what nobody caught is critical *)
Codes == {"executor_error", "uncaught_exception"}
Severity == [executor_error |-> "warning", uncaught_exception |-> "critical"]

VARIABLES emitted,        \* handlers that are due, in their order
          events,         \* how many events there were
          recent, escalated,       \* byCode: the times in the window, and its flag
          records, errorsFile,     \* how many are kept in memory and on disk
          dirty, flushing,         \* what a write under way writes
          alerts,         \* per code: the alerts of this process
          under, reached, \* per code: errors that left the window under the threshold, and
                          \* errors that took it there from under it (history)
          dailyLog,       \* day -> how many lines of each kind were appended
          dayStats, lastDistillDate, distilled,
          lost,           \* errors in dayStats without a line (history)
          days, costFile, persistFailed,
          ticks

windowVars == <<recent, escalated, alerts, under, reached>>
errorVars == <<windowVars, records, dirty, flushing, errorsFile>>
logVars == <<dailyLog, dayStats, lastDistillDate, distilled, lost>>
costVars == <<days, costFile, persistFailed>>
monitoringVars == <<emitted, events, errorVars, logVars, costVars, ticks>>

Today == ticks \div DayLength
LastDay == MaxTicks \div DayLength
AllDays == 0..LastDay
NoStats == [tasks |-> 0, errors |-> 0]
NoDay == MaxTicks + 1
NotFlushing == MaxRecent + 1

MonitoringInit ==
    /\ emitted = <<>> /\ events = 0 /\ ticks = 0
    /\ recent = [c \in Codes |-> <<>>] /\ escalated = [c \in Codes |-> FALSE]
    /\ records = 0 /\ dirty = FALSE /\ flushing = NotFlushing /\ errorsFile = 0
    /\ alerts = [c \in Codes |-> 0] /\ under = alerts /\ reached = alerts
    /\ dailyLog = [d \in AllDays |-> NoStats]
    /\ dayStats = NoStats /\ lastDistillDate = NoDay /\ distilled = {} /\ lost = 0
    /\ days = [d \in AllDays |-> 0] /\ costFile = days /\ persistFailed = FALSE
-----------------------------------------------------------------------------
(* hooks.emit: every handler gets a turn of its own, and what one throws stays in it;
   these turns are reactions of resolved promises and come before any other event *)
Emit(event) ==
    /\ events < MaxEvents /\ events' = events + 1
    /\ emitted' = emitted \o (IF event = "executor:error"
                              THEN <<[to |-> "dailyLog", event |-> event], [to |-> "monitor", event |-> event]>>
                              ELSE <<[to |-> "dailyLog", event |-> event]>>)
    /\ UNCHANGED <<errorVars, logVars, costVars, ticks>>

(* the last MaxRecent records *)
Capped(n) == IF n > MaxRecent THEN MaxRecent ELSE n

(* Mutant: the flag of the window is never lowered. *)
Lowered_Never(code, count) == escalated[code]

(* under the threshold the flag of the window goes down *)
Lowered(code, count) == escalated[code] /\ count >= Threshold

(* record and trackOccurrence *)
Record(code) ==
    LET window == Append(Only(recent[code], {t \in 0..ticks : ticks - t <= Window}), ticks)
        count == Len(window)
        lowered == Lowered(code, count)
        alert == ~lowered /\ (Severity[code] = "critical" \/ count >= Threshold)
    IN  /\ records' = Capped(records + 1)
        /\ dirty' = TRUE
        /\ recent' = [recent EXCEPT ![code] = window]
        /\ escalated' = [escalated EXCEPT ![code] = lowered \/ alert]
        /\ alerts' = [alerts EXCEPT ![code] = IF alert THEN @ + 1 ELSE @]
        /\ under' = [under EXCEPT ![code] = IF count < Threshold THEN @ + 1 ELSE @]
        /\ reached' = [reached EXCEPT ![code] = IF Len(recent[code]) < Threshold /\ Threshold <= count
                                                 THEN @ + 1 ELSE @]
        /\ UNCHANGED <<flushing, errorsFile>>

Counted(stats, event) ==
    IF event = "executor:error" THEN [stats EXCEPT !.errors = @ + 1] ELSE [stats EXCEPT !.tasks = @ + 1]

(* the daily log's handler: the stats, and a line in the file of the day; an append
   that fails is logged and no more *)
LogEvent(event, ok) ==
    /\ dailyLog' = IF ok THEN [dailyLog EXCEPT ![Today] = Counted(@, event)] ELSE dailyLog
    /\ dayStats' = Counted(dayStats, event)
    /\ lost' = IF ok \/ event # "executor:error" THEN lost ELSE lost + 1
    /\ UNCHANGED <<lastDistillDate, distilled>>

Handle(ok) ==
    /\ emitted # <<>> /\ emitted' = Tail(emitted)
    /\ LET first == Head(emitted)
       IN  IF first.to = "dailyLog" THEN LogEvent(first.event, ok) /\ UNCHANGED errorVars
                                    ELSE Record("executor_error") /\ UNCHANGED logVars
    /\ UNCHANGED <<events, costVars, ticks>>

(* uncaughtException, unhandledRejection: reportException *)
Uncaught ==
    /\ emitted = <<>>
    /\ events < MaxEvents /\ events' = events + 1
    /\ Record("uncaught_exception")
    /\ UNCHANGED <<emitted, logVars, costVars, ticks>>

(* the timer: what is there now is written, and is not dirty after the write *)
Flush ==
    /\ emitted = <<>> /\ dirty /\ flushing = NotFlushing
    /\ flushing' = records
    /\ UNCHANGED <<emitted, events, windowVars, records, dirty, errorsFile, logVars, costVars, ticks>>

Flushed(ok) ==
    /\ emitted = <<>> /\ flushing # NotFlushing
    /\ flushing' = NotFlushing
    /\ errorsFile' = IF ok THEN flushing ELSE errorsFile
    /\ dirty' = (dirty /\ ~ok)
    /\ UNCHANGED <<emitted, events, windowVars, records, logVars, costVars, ticks>>

(* checkDistill, hourly: yesterday's lines are summed up once a day, if they can be
   read and parsed; the summary goes to the log only, as the daemon gives it no
   memory store *)
CheckDistill(ok) ==
    /\ emitted = <<>> /\ lastDistillDate # Today
    /\ distilled' = IF ok /\ Today > 0 /\ dailyLog[Today - 1] # NoStats
                    THEN distilled \cup {Today - 1} ELSE distilled
    /\ lastDistillDate' = Today
    /\ dayStats' = NoStats /\ lost' = 0
    /\ UNCHANGED <<emitted, events, errorVars, dailyLog, costVars, ticks>>
-----------------------------------------------------------------------------
Persist(ok) ==
    /\ costFile' = IF ok THEN days' ELSE costFile
    /\ persistFailed' = ~ok

(* record: a call's tokens, in the day's entry of its model *)
RecordCost(ok) ==
    /\ emitted = <<>>
    /\ events < MaxEvents /\ events' = events + 1
    /\ days' = [days EXCEPT ![Today] = @ + 1]
    /\ Persist(ok)
    /\ UNCHANGED <<emitted, errorVars, logVars, ticks>>

(* /cost reset *)
ResetCost(ok) ==
    /\ emitted = <<>>
    /\ days' = [d \in AllDays |-> 0]
    /\ Persist(ok)
    /\ UNCHANGED <<emitted, events, errorVars, logVars, ticks>>

-----------------------------------------------------------------------------
Advance ==
    /\ ticks < MaxTicks /\ ticks' = ticks + 1
    /\ UNCHANGED <<emitted, events, errorVars, logVars, costVars>>

StartAgain ==
    /\ events > 0
    /\ emitted' = <<>>
    /\ recent' = [c \in Codes |-> <<>>] /\ escalated' = [c \in Codes |-> FALSE]
    /\ alerts' = [c \in Codes |-> 0] /\ under' = alerts' /\ reached' = alerts'
    /\ records' = 0 /\ dirty' = FALSE /\ flushing' = NotFlushing
    /\ dayStats' = NoStats /\ lastDistillDate' = NoDay /\ lost' = 0
    /\ days' = costFile /\ persistFailed' = FALSE
    /\ UNCHANGED <<events, errorsFile, dailyLog, distilled, costFile, ticks>>

MonitoringNext ==
    \/ \E event \in {"executor:complete", "executor:error"} : Emit(event)
    \/ Uncaught \/ Flush \/ Advance \/ StartAgain
    \/ \E ok \in BOOLEAN : Handle(ok) \/ Flushed(ok) \/ CheckDistill(ok) \/ RecordCost(ok) \/ ResetCost(ok)

MonitoringSpec == MonitoringInit /\ [][MonitoringNext]_monitoringVars
-----------------------------------------------------------------------------
(* the errors in the files of all the days *)
LoggedErrors(log) ==
    LET upTo[d \in AllDays] ==
            IF d = 0 THEN log[0].errors ELSE upTo[d - 1] + log[d].errors
    IN  upTo[LastDay]

(* the log from the day of the last distillation on, or the whole of it before the first *)
LogSince(day) == [d \in AllDays |-> IF day # NoDay /\ d < day THEN NoStats ELSE dailyLog[d]]

(* monitoring/error-monitor.ts:220 and tests/error-monitor.test.ts:73: warnings *)
(* have one alert each time they reach the threshold from under it, however     *)
(* many follow and whatever left the window.  A critical error alerts whenever  *)
(* it leaves the window under the threshold, so again and again within one, and *)
(* never at the threshold unless that is 1.  The costs of the days are those on *)
(* disk unless the last write failed, and the errors in the stats are in the    *)
(* log of the days since they were reset, but for lines that failed.            *)
MonitorSound ==
    /\ \A c \in Codes : alerts[c] = IF Severity[c] = "critical" /\ Threshold > 1 THEN under[c] ELSE reached[c]
    /\ ~persistFailed => costFile = days
    /\ dayStats.errors <= LoggedErrors(LogSince(lastDistillDate)) + lost
=============================================================================
