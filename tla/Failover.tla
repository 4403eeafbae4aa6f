------------------------------ MODULE Failover ------------------------------
(***************************************************************************)
(* executor/failover.ts: calls of several sessions over one list of        *)
(* providers.  A call tries each provider once, in order of priority,      *)
(* leaving out those on cooldown while another is left; when only those    *)
(* are left it sleeps until the first of them may be tried.                *)
(***************************************************************************)
EXTENDS Naturals, FiniteSets

CONSTANTS
    Callers,      \* execute calls, each made once
    Providers,    \* 1..n in order of priority
    MaxFailures,  \* failures that bring a cooldown (3)
    Cooldown,     \* its length
    MaxInstant    \* bound: instants of the clock

ASSUME FailoverAssumption ==
    /\ Providers = 1..Cardinality(Providers) /\ Providers # {} /\ IsFiniteSet(Providers)
    /\ MaxFailures \in Nat \ {0} /\ Cooldown \in Nat \ {0}

VARIABLES
    instant,        \* Date.now()
    failures,       \* ProviderState.failures
    cooldownUntil,  \* ProviderState.cooldownUntil
    call,           \* per call: [pc, now, tried, provider, until]
    penalty,        \* history: when the cooldown each provider was last given ends
    reset,          \* history: providers whose running cooldown a sleeper took away
    early           \* history: providers tried inside a cooldown

failoverVars == <<instant, failures, cooldownUntil, call, penalty, reset, early>>

NotCalled == [pc |-> "new", now |-> 0, tried |-> {}, provider |-> 0, until |-> 0]

FailoverInit ==
    /\ instant = 0
    /\ failures = [p \in Providers |-> 0]
    /\ cooldownUntil = [p \in Providers |-> 0]
    /\ call = [c \in Callers |-> NotCalled]
    /\ penalty = [p \in Providers |-> 0]
    /\ reset = {}
    /\ early = {}

Untried(c) == Providers \ call[c].tried

\* Providers on cooldown are taken like the others.
Available_All(c) == Untried(c)

Available(c) == {p \in Untried(c) : cooldownUntil[p] <= call[c].now}

\* execute is called.
Execute(c) ==
    /\ call[c].pc = "new"
    /\ call' = [call EXCEPT ![c].pc = "pick", ![c].now = instant]
    /\ UNCHANGED <<instant, failures, cooldownUntil, penalty, reset, early>>

\* findAvailableProvider: the first that is not on cooldown; its executor is called.
TryProvider(c) ==
    /\ call[c].pc = "pick"
    /\ \E p \in Available(c) :
           /\ \A q \in Available(c) : p <= q
           /\ call' = [call EXCEPT ![c].pc = "trying", ![c].provider = p, ![c].tried = @ \cup {p}]
           /\ early' = IF instant < penalty[p] THEN early \cup {p} ELSE early
    /\ UNCHANGED <<instant, failures, cooldownUntil, penalty, reset>>

\* The first of those whose cooldown ends first.
findEarliestCooldownProvider(c) ==
    {p \in Untried(c) : \A q \in Untried(c) :
        cooldownUntil[p] < cooldownUntil[q] \/ (cooldownUntil[p] = cooldownUntil[q] /\ p <= q)}

\* All that are left are on cooldown: sleep for what was left of it when the call began.
SleepUntilCooled(c) ==
    /\ call[c].pc = "pick"
    /\ Available(c) = {}
    /\ \E p \in findEarliestCooldownProvider(c) :
           call' = [call EXCEPT ![c].pc = "sleeping", ![c].provider = p,
                                ![c].until = instant + (cooldownUntil[p] - call[c].now)]
    /\ UNCHANGED <<instant, failures, cooldownUntil, penalty, reset, early>>

\* The sleeper clears the cooldown, whatever others have made of it meanwhile.
WakeUp(c) ==
    /\ call[c].pc = "sleeping"
    /\ instant >= call[c].until
    /\ LET p == call[c].provider
       IN  /\ cooldownUntil' = [cooldownUntil EXCEPT ![p] = 0]
           /\ failures' = [failures EXCEPT ![p] = 0]
           /\ call' = [call EXCEPT ![c].pc = "pick", ![c].tried = @ \ {p}]
           /\ reset' = IF instant < cooldownUntil[p] THEN reset \cup {p} ELSE reset
    /\ UNCHANGED <<instant, penalty, early>>

Succeeds(c) ==
    /\ call[c].pc = "trying"
    /\ failures' = [failures EXCEPT ![call[c].provider] = 0]
    /\ call' = [call EXCEPT ![c].pc = "answered"]
    /\ UNCHANGED <<instant, cooldownUntil, penalty, reset, early>>

\* The provider fails: it is counted, and the hooks are awaited.
Fails(c) ==
    /\ call[c].pc = "trying"
    /\ failures' = [failures EXCEPT ![call[c].provider] = @ + 1]
    /\ call' = [call EXCEPT ![c].pc = "failing"]
    /\ UNCHANGED <<instant, cooldownUntil, penalty, reset, early>>

\* After the hooks the count, as it is by then, may bring a cooldown.
Penalise(c) ==
    /\ call[c].pc = "failing"
    /\ LET p == call[c].provider
       IN  IF failures[p] >= MaxFailures
           THEN /\ cooldownUntil' = [cooldownUntil EXCEPT ![p] = instant + Cooldown]
                /\ penalty' = [penalty EXCEPT ![p] = instant + Cooldown]
                /\ reset' = reset \ {p}
           ELSE UNCHANGED <<cooldownUntil, penalty, reset>>
    /\ call' = [call EXCEPT ![c].pc = "pick"]
    /\ UNCHANGED <<instant, failures, early>>

GiveUp(c) ==
    /\ call[c].pc = "pick"
    /\ Untried(c) = {}
    /\ call' = [call EXCEPT ![c].pc = "rejected"]
    /\ UNCHANGED <<instant, failures, cooldownUntil, penalty, reset, early>>

Elapse ==
    /\ instant < MaxInstant
    /\ instant' = instant + 1
    /\ UNCHANGED <<failures, cooldownUntil, call, penalty, reset, early>>

FailoverNext ==
    \/ \E c \in Callers : \/ Execute(c) \/ TryProvider(c) \/ SleepUntilCooled(c) \/ WakeUp(c)
                          \/ Succeeds(c) \/ Fails(c) \/ Penalise(c) \/ GiveUp(c)
    \/ Elapse

FailoverSpec == FailoverInit /\ [][FailoverNext]_failoverVars

-----------------------------------------------------------------------------
Call == [pc: {"new", "pick", "trying", "sleeping", "failing", "answered", "rejected"},
         now: Nat, tried: SUBSET Providers, provider: Providers \cup {0}, until: Nat]

FailoverTypes ==
    /\ instant \in Nat
    /\ failures \in [Providers -> Nat]
    /\ cooldownUntil \in [Providers -> Nat]
    /\ call \in [Callers -> Call]
    /\ penalty \in [Providers -> Nat]
    /\ reset \subseteq Providers
    /\ early \subseteq Providers

\* A provider is tried inside its cooldown (failover.ts:3) only after a call that had slept through
\* an earlier cooldown of it cleared the one it was given in the meantime.
CooldownKept ==
    [][\A p \in Providers : p \in early' \ early => p \in reset]_failoverVars
=============================================================================
