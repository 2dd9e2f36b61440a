--------------------------- MODULE ProviderChain ---------------------------
(***************************************************************************)
(* Calls to model providers: the admission gate of tasks.rs, the route      *)
(* chain and the stage ledger of provider_chain.rs, and the background      *)
(* summaries of summarization/exec.rs that share the gate.                  *)
(*                                                                         *)
(* A caller runs on its own thread or task and is atomic between two awaits *)
(* and between two locks of the gate.  Its future may be dropped at any     *)
(* await; the guards it holds then run their Drop.  A retry-after and the   *)
(* cooldown it causes are counted in ticks; that a wall-clock cap runs out, *)
(* that a route has cooled down or that a backoff is over may happen at any *)
(* time.                                                                    *)
(***************************************************************************)
EXTENDS Integers, FiniteSets

CONSTANTS
  Chain,        \* callers of execute_with_context
  Summary,      \* callers of complete_summary_report
  Interactive,  \* chain calls a user waits for: ExecuteOptions::interactive and a WireBudget
  Staged,       \* chain calls of one brief stage, which share its ledger
  Routes,       \* number of routes of the chain
  Configured,   \* routes without a skip_reason
  Account,
  AccountOf,    \* admission key of a route
  SummaryAccount,
  Family, FamilyOf,  \* model_family of a route
  Limit,        \* DEFAULT_PROVIDER_CONCURRENCY
  RouteLimit,   \* attempts of an ordinary call on a route, route_attempt_limit
  PerRouteMax, PrimaryRetries, SharedExtra,  \* WireBudget
  LastRouteRetries,
  StageCap,     \* cap of the stage ledger
  SummaryMax,   \* MAX_REQUESTS of a summary
  OwnBackoff, SummaryMaxBackoff,  \* its wait when no retry-after came, and max_backoff
  MaxRetryAfter,  \* the longest retry-after a provider announces, in ticks
  Failures,     \* the failures providers answer with in this instance
  Revocable,    \* calls that somebody may cancel or drop
  Together      \* the sets of calls that are made in one behaviour

Caller == Chain \cup Summary
Route == 1..Routes

ASSUME ChainShape ==
  /\ Interactive \subseteq Chain /\ Staged \subseteq Chain
  /\ Chain \cap Summary = {} /\ IsFiniteSet(Chain \cup Summary)
  /\ Routes \in Nat /\ Configured \subseteq Route
  /\ AccountOf \in [Route -> Account] /\ SummaryAccount \in Account
  /\ FamilyOf \in [Route -> Family]
  /\ RouteLimit \in [Route -> Nat \ {0}]
  /\ Limit \in Nat /\ PerRouteMax \in Nat \ {0} /\ PrimaryRetries \in Nat
  /\ SharedExtra \in Nat /\ LastRouteRetries \in Nat /\ StageCap \in Nat
  /\ SummaryMax \in Nat /\ MaxRetryAfter \in Nat
  /\ OwnBackoff \in Nat \ {0} /\ SummaryMaxBackoff \in Nat
  /\ Revocable \subseteq Chain \cup Summary
  /\ Together \subseteq SUBSET (Chain \cup Summary)

VARIABLES
  active, cooldown, waiting,  \* ProviderAdmission, by account
  dispatched, cool, dead,     \* StageLedger: requests, routes that cool down, dead families
  call,    \* the state of each call
  cancel,  \* calls whose cancel flag is set
  late     \* calls whose wall-clock cap is spent

gate == <<active, cooldown, waiting>>
ledger == <<dispatched, cool, dead>>
callVars == <<gate, ledger, call, cancel, late>>

Ended == {"ok", "failed", "stopped", "cancelled", "capped", "exhausted", "dropped"}
Phase == {"ready", "admit", "sent", "answered", "backoff"} \cup Ended

\* Categories of ProviderFailure, as the chain tells them apart.
Overload == {"server", "rate_limited"}
RetryRoute == Overload \cup {"timeout", "network", "malformed"}
NextRoute == {"invalid_model", "auth", "oversize"}
Stop == {"refused"}
RouteUnwell == Overload \cup {"timeout", "network", "invalid_model", "auth"}
\* recovery: the dispatch may be recompiled, or its output repaired, and sent again;
\* again: the retry_after the provider announces, 0 for none.
Failure ==
  [kind : RetryRoute, recovery : {FALSE}, again : 0..MaxRetryAfter] \cup
  [kind : NextRoute \cup Stop, recovery : BOOLEAN, again : {0}]
NoFailure == [kind |-> "none", recovery |-> FALSE, again |-> 0]

ASSUME FailuresKnown == Failures \subseteq Failure

\* A call without locals: not begun, or over.
Bare(p) == [phase |-> p, route |-> 1, attempt |-> 0, requests |-> 0,
            extra |-> 0, retries |-> 0, wait |-> 0, fail |-> NoFailure]

Sent(o) == call[o].phase = "sent"
On(o) == IF o \in Summary THEN SummaryAccount ELSE AccountOf[call[o].route]
\* Longer and shorter of two durations.
Longer(d, e) == IF d >= e THEN d ELSE e
Shorter(d, e) == IF d <= e THEN d ELSE e

CallInit ==
  /\ active = [a \in Account |-> 0]
  /\ cooldown = [a \in Account |-> 0]
  /\ waiting = [a \in Account |-> 0]
  /\ dispatched = 0
  /\ cool = {}
  /\ dead = {}
  /\ \E S \in Together :
       call = [o \in Caller |-> Bare(IF o \in S THEN "ready" ELSE "dropped")]
  /\ cancel = {}
  /\ late = {}

-----------------------------------------------------------------------------
\* try_acquire_class
TryEnter(o, a) ==
  /\ o \in Interactive \/ waiting[a] = 0
  /\ cooldown[a] = 0
  /\ active[a] < Limit

\* release, which saturates.
Release(a) == active' = [active EXCEPT ![a] = IF @ = 0 THEN 0 ELSE @ - 1]

\* Faulty NoteRateLimit: the latest announcement replaces the cooldown.
NoteLatest(a, d) == cooldown' = [cooldown EXCEPT ![a] = d]

\* note_rate_limit: an announcement never shortens a cooldown.
NoteRateLimit(a, d) == cooldown' = [cooldown EXCEPT ![a] = Longer(@, d)]

Cooling(o, r, cl) == o \in Staged /\ r \in cl
Dead(o, r, dd) == o \in Staged /\ FamilyOf[r] \in dd

\* Why execute_with_context does not dispatch on route r: not configured, its
\* model dead, or cooling while a later route could answer.
PassedOver(o, r, cl, dd) ==
  \/ r \notin Configured
  \/ Dead(o, r, dd)
  \/ /\ Cooling(o, r, cl)
     /\ \E q \in Configured : q > r /\ ~ Cooling(o, q, cl) /\ ~ Dead(o, q, dd)

\* The top of the attempt loop: cancelled, out of time, or on to admission.
AtLoop(o, c) ==
  IF o \in cancel THEN Bare("cancelled")
  ELSE IF o \in late THEN Bare("capped")
  ELSE [c EXCEPT !.phase = "admit", !.fail = NoFailure, !.wait = 0]

\* The route loop from route r on, with the ledger as it is.
AtRoute(o, c, r, cl, dd) ==
  LET open == {q \in Route : q >= r /\ ~ PassedOver(o, q, cl, dd)} IN
  IF open = {} THEN Bare(IF o \in cancel THEN "cancelled" ELSE "failed")
  ELSE AtLoop(o, [c EXCEPT !.route = CHOOSE q \in open : \A u \in open : q <= u,
                           !.attempt = 0])

\* Faulty Register: a retry polls without registering.
RegisterFirst(o, c) ==
  waiting' = IF c.phase = "admit" /\ o \in Interactive /\ c.attempt = 0
             THEN [waiting EXCEPT ![AccountOf[c.route]] = @ + 1] ELSE waiting

\* InteractiveWait::register, for a call that goes on to admission as c.
Register(o, c) ==
  waiting' = IF c.phase = "admit" /\ o \in Interactive
             THEN [waiting EXCEPT ![AccountOf[c.route]] = @ + 1] ELSE waiting

\* Drop of InteractiveWait, when call o leaves admission.
Dequeue(o) ==
  waiting' = IF o \in Interactive
             THEN [waiting EXCEPT ![On(o)] = IF @ = 0 THEN 0 ELSE @ - 1] ELSE waiting

Start(o) ==
  LET c == IF o \in Summary THEN AtLoop(o, call[o]) ELSE AtRoute(o, call[o], 1, cool, dead) IN
  /\ call[o].phase = "ready"
  /\ call' = [call EXCEPT ![o] = c]
  /\ Register(o, c)
  /\ UNCHANGED <<active, cooldown, ledger, cancel, late>>

\* StageLedger::reserve
Reserve(o) == o \in Staged => dispatched < StageCap

\* A poll that gets a slot, then the stage's budget; without budget the slot goes back.
Admit(o) ==
  /\ call[o].phase = "admit"
  /\ o \notin cancel
  /\ TryEnter(o, On(o))
  /\ Dequeue(o)
  /\ IF Reserve(o)
     THEN /\ active' = [active EXCEPT ![On(o)] = @ + 1]
          /\ dispatched' = IF o \in Staged THEN dispatched + 1 ELSE dispatched
          /\ call' = [call EXCEPT ![o].phase = "sent", ![o].attempt = @ + 1,
                                  ![o].requests = @ + 1]
     ELSE /\ call' = [call EXCEPT ![o] = Bare("exhausted")]
          /\ UNCHANGED <<active, dispatched>>
  /\ UNCHANGED <<cooldown, cool, dead, cancel, late>>

\* A poll without a slot that finds the wall-clock cap, or the admission timeout
\* of a summary, spent.
AdmitTimeout(o) ==
  /\ call[o].phase = "admit"
  /\ o \notin cancel /\ ~ TryEnter(o, On(o))
  /\ o \in Summary \/ o \in late
  /\ Dequeue(o)
  /\ call' = [call EXCEPT ![o] = Bare(IF o \in Summary THEN "failed" ELSE "capped")]
  /\ UNCHANGED <<active, cooldown, ledger, cancel, late>>

\* The dispatch answers and the guard is dropped; a value ends the call.
Succeed(o) ==
  /\ Sent(o)
  /\ Release(On(o))
  /\ call' = [call EXCEPT ![o] = Bare("ok")]
  /\ cool' = IF o \in Staged THEN cool \ {call[o].route} ELSE cool
  /\ UNCHANGED <<cooldown, waiting, dispatched, dead, cancel, late>>

Answer(o, f) ==
  /\ Sent(o)
  /\ Release(On(o))
  /\ call' = [call EXCEPT ![o].phase = "answered", ![o].fail = f]
  /\ UNCHANGED <<cooldown, waiting, ledger, cancel, late>>

-----------------------------------------------------------------------------
\* What the chain does with the failure f of its attempt on route r.
Stalled(o, r, f) ==
  /\ o \in Interactive /\ ~ f.recovery /\ f.kind = "timeout"
  /\ \E q \in Configured : q > r

\* The last route that can still answer, as the wire budget sees it.
LastLive(o, r) ==
  \A q \in Configured : q > r => Cooling(o, q, cool) \/ Dead(o, q, dead)

TransientOk(o, c) ==
  \/ c.route = 1 /\ c.retries < PrimaryRetries
  \/ /\ LastLive(o, c.route) /\ c.fail.kind \in Overload
     /\ c.retries < PrimaryRetries + LastRouteRetries

\* Faulty ExtraAllowed: a recovery is free.
ExtraFreeRecovery(o, c) ==
  o \in Interactive => c.fail.recovery \/ (c.extra < SharedExtra /\ TransientOk(o, c))

\* An extra dispatch under the wire budget; ordinary calls have none to share.
ExtraAllowed(o, c) ==
  o \in Interactive => c.extra < SharedExtra /\ (c.fail.recovery \/ TransientOk(o, c))

AttemptLimit(o, r) == IF o \in Interactive THEN PerRouteMax ELSE RouteLimit[r]

\* The attempt goes on with the same route.
SameRoute(o, c) ==
  /\ c.fail.kind \in NextRoute => c.fail.recovery
  /\ ~ Stalled(o, c.route, c.fail)
  /\ c.attempt < AttemptLimit(o, c.route)
  /\ ExtraAllowed(o, c)

\* c with its extra dispatch booked.
Charged(o, c) ==
  IF o \in Interactive
  THEN [c EXCEPT !.extra = @ + 1, !.retries = IF c.fail.recovery THEN @ ELSE @ + 1]
  ELSE c

\* StageLedger::open: the next operations pass over an unwell route.
OpenRoute(o, r, f) ==
  /\ dead' = IF o \in Staged /\ f.kind = "invalid_model" THEN dead \cup {FamilyOf[r]} ELSE dead
  /\ cool' = IF o \in Staged /\ f.kind \in RouteUnwell
             THEN cool \cup {r} ELSE cool

Stops(c) == c.fail.kind \in Stop /\ ~ c.fail.recovery
Leaves(c) == c.fail.kind \in NextRoute /\ ~ c.fail.recovery

\* A failure that ends the call: terminal, or the wall-clock cap is spent.
EndCall(o) ==
  LET c == call[o] IN
  /\ o \in Chain /\ c.phase = "answered"
  /\ Stops(c) \/ (o \in late /\ ~ Leaves(c))
  /\ call' = [call EXCEPT ![o] = Bare(IF Stops(c) THEN "stopped" ELSE "capped")]
  /\ UNCHANGED <<gate, ledger, cancel, late>>

GoesOn(o, c) ==
  /\ o \in Chain /\ c.phase = "answered"
  /\ ~ Stops(c)
  /\ o \notin late \/ Leaves(c)

\* The route is given up for the next one: its attempts or the budget are spent,
\* it stalled, or the backoff alone would exhaust the cap.
GiveUpRoute(o) ==
  LET c == call[o]
      again == SameRoute(o, c)
      next == AtRoute(o, IF again THEN Charged(o, c) ELSE c, c.route + 1, cool', dead')
  IN
  /\ GoesOn(o, c)
  /\ again => o \in Interactive /\ ~ c.fail.recovery
  /\ OpenRoute(o, c.route, c.fail)
  /\ call' = [call EXCEPT ![o] = next]
  /\ Register(o, next)
  /\ UNCHANGED <<active, cooldown, dispatched, cancel, late>>

\* A recovery is sent again at once, ...
Recover(o) ==
  LET c == AtLoop(o, Charged(o, call[o])) IN
  /\ GoesOn(o, call[o]) /\ SameRoute(o, call[o]) /\ call[o].fail.recovery
  /\ call' = [call EXCEPT ![o] = c]
  /\ Register(o, c)
  /\ UNCHANGED <<active, cooldown, ledger, cancel, late>>

\* ... anything else after a backoff, whose retry-after the whole account shares.
Backoff(o) ==
  LET c == call[o] IN
  /\ GoesOn(o, c) /\ SameRoute(o, c) /\ ~ c.fail.recovery
  /\ call' = [call EXCEPT ![o] = [Charged(o, c) EXCEPT !.phase = "backoff", !.wait = c.fail.again]]
  /\ IF c.fail.again > 0 THEN NoteRateLimit(On(o), c.fail.again) ELSE UNCHANGED cooldown
  /\ UNCHANGED <<active, waiting, ledger, cancel, late>>

\* The wait of a summary after failure f: the retry-after or its own, up to max_backoff.
SummaryDelay(f) == Shorter(IF f.again > 0 THEN f.again ELSE OwnBackoff, SummaryMaxBackoff)

\* complete_summary_report after a failed attempt: a rate limit is noted for the account
\* for as long as the summary waits, also without a retry-after.
SummaryBackoff(o) ==
  LET c == call[o]
      d == SummaryDelay(c.fail)
  IN
  /\ o \in Summary /\ c.phase = "answered"
  /\ IF c.requests >= SummaryMax \/ o \in cancel
     THEN /\ call' = [call EXCEPT ![o] = Bare("failed")]
          /\ UNCHANGED cooldown
     ELSE /\ call' = [call EXCEPT ![o].phase = "backoff", ![o].wait = d]
          /\ IF c.fail.kind = "rate_limited" THEN NoteRateLimit(On(o), d) ELSE UNCHANGED cooldown
  /\ UNCHANGED <<active, waiting, ledger, cancel, late>>

Wake(o) ==
  LET c == AtLoop(o, call[o]) IN
  /\ call[o].phase = "backoff" /\ call[o].wait = 0
  /\ call' = [call EXCEPT ![o] = c]
  /\ Register(o, c)
  /\ UNCHANGED <<active, cooldown, ledger, cancel, late>>

-----------------------------------------------------------------------------
Cancel(o) ==
  /\ o \in Revocable \ cancel
  /\ call[o].phase \notin Ended
  /\ cancel' = cancel \cup {o}
  /\ UNCHANGED <<gate, ledger, call, late>>

\* Faulty Leave: the registration of a waiting call outlives it.
LeaveRegistered(o, p) ==
  /\ call' = [call EXCEPT ![o] = Bare(p)]
  /\ IF Sent(o) THEN Release(On(o)) ELSE UNCHANGED active
  /\ UNCHANGED waiting

\* Whatever a call holds is dropped with it: a slot, or its registration.
Leave(o, p) ==
  /\ call' = [call EXCEPT ![o] = Bare(p)]
  /\ IF Sent(o) THEN Release(On(o)) ELSE UNCHANGED active
  /\ IF call[o].phase = "admit" THEN Dequeue(o) ELSE UNCHANGED waiting

\* The flag is seen at an await: the admission poll, a dispatch, a backoff.  A
\* summary does not watch it while its request or its backoff runs.
SeeCancel(o) ==
  /\ o \in cancel
  /\ call[o].phase = "admit" \/ (o \in Chain /\ call[o].phase \in {"sent", "backoff"})
  /\ Leave(o, "cancelled")
  /\ UNCHANGED <<cooldown, ledger, cancel, late>>

\* The future is dropped at an await.
DropCall(o) ==
  /\ o \in Revocable
  /\ call[o].phase \in {"admit", "sent", "backoff"}
  /\ Leave(o, "dropped")
  /\ UNCHANGED <<cooldown, ledger, cancel, late>>

\* Time passes.
Less(d) == IF d = 0 THEN 0 ELSE d - 1
Tick ==
  /\ \/ \E a \in Account : cooldown[a] > 0
     \/ \E o \in Caller : call[o].wait > 0
  /\ cooldown' = [a \in Account |-> Less(cooldown[a])]
  /\ call' = [o \in Caller |-> [call[o] EXCEPT !.wait = Less(@)]]
  /\ UNCHANGED <<active, waiting, ledger, cancel, late>>

RouteCooled(r) ==
  /\ r \in cool
  /\ cool' = cool \ {r}
  /\ UNCHANGED <<gate, dispatched, dead, call, cancel, late>>

ClockRunsOut(o) ==
  /\ o \in Interactive \ late
  /\ call[o].phase \notin Ended \cup {"ready"}
  /\ late' = late \cup {o}
  /\ UNCHANGED <<gate, ledger, call, cancel>>

\* What a caller does by itself.
Go(o) ==
  \/ Start(o) \/ Admit(o) \/ AdmitTimeout(o) \/ Succeed(o)
  \/ EndCall(o) \/ GiveUpRoute(o) \/ Recover(o) \/ Backoff(o) \/ SummaryBackoff(o)
  \/ Wake(o)
  \/ SeeCancel(o)

CallNext ==
  \/ Tick
  \/ \E o \in Caller :
       \/ Go(o) \/ Cancel(o) \/ DropCall(o) \/ ClockRunsOut(o)
       \/ \E f \in Failures : Answer(o, f)
  \/ \E r \in Route : RouteCooled(r)

CallSpec == CallInit /\ [][CallNext]_callVars

\* Time passes and every caller that runs goes on: its request is answered in one
\* way or another and its polls and sleeps come back.  Nobody owes a cancel or a drop.
Responds(o) == Go(o) \/ \E f \in Failures : Answer(o, f)
CallFairSpec == CallSpec /\ WF_callVars(Tick) /\ \A o \in Caller : WF_callVars(Responds(o))

-----------------------------------------------------------------------------
CallTypeOK ==
  /\ active \in [Account -> Nat] /\ cooldown \in [Account -> Nat] /\ waiting \in [Account -> Nat]
  /\ dispatched \in Nat /\ cool \subseteq Route /\ dead \subseteq Family
  /\ call \in [Caller -> [phase : Phase, route : Nat, attempt : Nat, requests : Nat,
                          extra : Nat, retries : Nat, wait : Nat,
                          fail : Failure \cup {NoFailure}]]
  /\ cancel \subseteq Caller /\ late \subseteq Interactive
  /\ \A o \in Chain : call[o].phase \notin Ended \cup {"ready"} => call[o].route \in Route

Senders(a) == {o \in Caller : Sent(o) /\ On(o) = a}
Waiters(a) == {o \in Interactive : call[o].phase = "admit" /\ On(o) = a}

\* The gate counts what is there, whatever was cancelled, timed out or dropped: a
\* slot is taken for each request in flight and no more than Limit of them
\* are, and each waiting interactive call is registered once (AdmissionGuard, InteractiveWait).
GateCounts ==
  \A a \in Account :
    /\ active[a] = Cardinality(Senders(a)) /\ active[a] <= Limit
    /\ waiting[a] = Cardinality(Waiters(a))

\* A background call takes no slot while an interactive one waits for the account, on
\* its first attempt or a later one.
InteractiveFirst ==
  [][\A o \in Caller \ Interactive :
       ~ Sent(o) /\ Sent(o)' => Waiters(On(o)) = {}]_callVars

\* The wire budget of an operation and the stage's request cap hold through
\* retries, recoveries and changes of route (WireBudget::max_dispatches).
BudgetKept ==
  /\ \A o \in Interactive :
       /\ call[o].requests <= Cardinality(Configured) + SharedExtra
       /\ call[o].attempt <= PerRouteMax
  /\ dispatched <= StageCap

\* While a call sleeps out a retry-after its account admits nobody, though other
\* calls announced shorter ones meanwhile.
RetryAfterShared ==
  \A o \in Chain :
    /\ call[o].phase = "backoff" /\ call[o].wait > 0
    /\ call[o].fail.again >= 1
    => cooldown[On(o)] >= call[o].wait

\* Every call ends: slots and registrations come back from calls that were cancelled
\* or dropped, so that nobody polls for ever.
EveryCallEnds == <>(\A o \in Caller : call[o].phase \in Ended)
=============================================================================
