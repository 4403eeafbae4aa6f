--------------------------- MODULE Notifications ---------------------------
(***************************************************************************)
(* comms/notifications.ts: a notification goes to each subscribed channel  *)
(* in turn, and the sink is awaited in between, so notifications overlap;  *)
(* each channel has its own limits.                                        *)
(***************************************************************************)
EXTENDS Naturals, Sequences, FiniteSets, Filter

CONSTANTS
    Rooms,       \* channels that may subscribe
    Notices,       \* notifications, each made once or again
    RateLimit,   \* RATE_LIMIT
    RateWindow,  \* RATE_WINDOW_MS = DEDUP_WINDOW_MS
    MaxClock,    \* bound: instants
    MaxCalls     \* bound: calls of notify

ASSUME NoteAssumption == {RateLimit, RateWindow, MaxClock, MaxCalls} \subseteq Nat

VARIABLES
    clock,    \* Date.now()
    prefs,    \* channelPrefs: subscribed channels in order of subscription
    rate,     \* rateState: [times, recent] of each channel
    calls,    \* notify calls under way: [text, at, n]: at is the next channel to look at
    made,     \* calls made
    delivered      \* history: what each channel got, [text, at]

noteVars == <<clock, prefs, rate, calls, made, delivered>>

NoteInit ==
    /\ clock = 0
    /\ prefs = << >>
    /\ rate = [r \in Rooms |-> [times |-> << >>, recent |-> {}]]
    /\ calls = {}
    /\ made = 0
    /\ delivered = [r \in Rooms |-> << >>]

\* setChannelPreferences by the first message of a channel.
Subscribe(r) ==
    /\ r \notin {prefs[i] : i \in DOMAIN prefs}
    /\ prefs' = Append(prefs, r)
    /\ UNCHANGED <<clock, rate, calls, made, delivered>>

\* notify is called.
Notify(text) ==
    /\ made < MaxCalls
    /\ made' = made + 1
    /\ calls' = calls \cup {[text |-> text, at |-> 1, n |-> made]}
    /\ UNCHANGED <<clock, prefs, rate, delivered>>

Recent(r) == Only(rate[r].times, {t \in 0..clock : clock - t < RateWindow})
Repeated(r, text) == \E e \in rate[r].recent : e.text = text /\ clock - e.at < RateWindow

\* A check that does not look at what was delivered lately.
checkRateAndDedup_Count(r, text) == ~Repeated(r, text)

checkRateAndDedup(r, text) == ~Repeated(r, text) /\ Len(Recent(r)) < RateLimit

\* One channel of a call: the check, and the sink if it passes, which resumes the loop later.
NextRoom(c) ==
    /\ c \in calls
    /\ c.at <= Len(prefs)
    /\ LET r == prefs[c.at]
       IN  IF checkRateAndDedup(r, c.text)
           THEN /\ rate' = [rate EXCEPT ![r] =
                     [times |-> Append(Recent(r), clock),
                      recent |-> {e \in rate[r].recent : e.text # c.text /\ clock - e.at < RateWindow}
                                   \cup {[text |-> c.text, at |-> clock]}]]
                /\ delivered' = [delivered EXCEPT ![r] = Append(@, [text |-> c.text, at |-> clock])]
           ELSE UNCHANGED <<rate, delivered>>
    /\ calls' = (calls \ {c}) \cup {[c EXCEPT !.at = @ + 1]}
    /\ UNCHANGED <<clock, prefs, made>>

NotifyReturns(c) ==
    /\ c \in calls
    /\ c.at > Len(prefs)
    /\ calls' = calls \ {c}
    /\ UNCHANGED <<clock, prefs, rate, made, delivered>>

Pass ==
    /\ clock < MaxClock
    /\ clock' = clock + 1
    /\ UNCHANGED <<prefs, rate, calls, made, delivered>>

NoteNext ==
    \/ \E r \in Rooms : Subscribe(r)
    \/ \E t \in Notices : Notify(t)
    \/ \E c \in calls : NextRoom(c) \/ NotifyReturns(c)
    \/ Pass

NoteSpec == NoteInit /\ [][NoteNext]_noteVars

-----------------------------------------------------------------------------
\* No window of a channel, wherever it begins, holds more than RATE_LIMIT notifications or the
\* same one twice, however the calls overlap (the limits of notifications.ts:2).
Quota ==
    \A r \in Rooms : \A i \in DOMAIN delivered[r] :
        LET window == {j \in i..Len(delivered[r]) : delivered[r][j].at - delivered[r][i].at < RateWindow}
        IN  /\ Cardinality(window) <= RateLimit
            /\ \A j, k \in window : delivered[r][j].text = delivered[r][k].text => j = k
=============================================================================
