----------------------------- MODULE EmbedGovernor -----------------------------
(***************************************************************************)
(* Background embedding paced against searches and the provider's limits:   *)
(* crates/daemon/src/embed_governor.rs, the request loop that asks it        *)
(* (crates/daemon/src/enrich.rs), the retries inside one request             *)
(* (crates/providers/src/retry.rs) and the right of way of a query embed     *)
(* (crates/daemon/src/wiring.rs, embed_query).  Time passes in ticks and     *)
(* every span is kept as what is left of it.                                *)
(***************************************************************************)
EXTENDS Integers

CONSTANTS
  Request,       \* background requests, each asked for again and again
  Query,         \* query embeds
  Cost,          \* the tokens a request may carry
  Budget,        \* indexing.embed_tokens_per_minute, in tokens per tick
  Ceiling,       \* BURST_SECONDS of budget
  Floor,         \* FLOOR_FRACTION of it
  Recovery,      \* RECOVERY_FRACTION of it
  DefaultPause,  \* DEFAULT_PAUSE
  Advice,        \* the waits a Retry-After may name
  NoAdvice,      \* a 429 without one
  Attempts, Base, Cap,   \* RetryPolicy
  MaxLimits, MaxQueries  \* bounds on the 429s and on the query embeds

ASSUME GovernorAssumption ==
  /\ Cost \subseteq Nat \ {0} /\ \E most \in Cost : \A cost \in Cost : cost <= most
  /\ Advice \subseteq Nat /\ NoAdvice \notin Advice
  /\ Budget \in Nat \ {0} /\ Ceiling \in Nat \ {0}
  /\ Floor \in 1..Budget /\ Recovery \in 1..Budget
  /\ DefaultPause \in Nat /\ Attempts \in Nat \ {0} /\ Base \in Nat /\ Cap \in Nat
  /\ MaxLimits \in Nat /\ MaxQueries \in Nat

VARIABLES
  pace,       \* tokens per tick
  available,  \* tokens that may be sent now
  age,        \* ticks since the last refill
  pause,      \* what is left of paused_until
  request,    \* where each background request is
  searching,  \* the query embeds in flight
  sent,       \* the tokens admitted beyond the budget: the worst of any span that ends now
  asked,      \* what is left of the longest wait a rate limit asked for
  limits, queries

gvars == <<pace, available, age, pause, request, searching, sent, asked, limits, queries>>

Least(a, b) == IF a < b THEN a ELSE b
Most(a, b) == IF a > b THEN a ELSE b
Largest(S) == CHOOSE x \in S : \A y \in S : y <= x

\* By then the bucket is full, whatever the debt and the pace.
TimeToFill == Ceiling + Largest(Cost)

NoRequest == [at |-> "idle", cost |-> 0, attempt |-> 0, left |-> 0]

GovernorInit ==
  /\ pace = Budget /\ available = Ceiling /\ age = 0 /\ pause = 0
  /\ request = [r \in Request |-> NoRequest]
  /\ searching = {}
  /\ sent = 0 /\ asked = 0 /\ limits = 0 /\ queries = 0

Down(left) == Most(left - 1, 0)

TimePasses ==
  /\ age' = Least(age + 1, TimeToFill)
  /\ pause' = Down(pause) /\ asked' = Down(asked)
  /\ request' = [r \in Request |-> [request[r] EXCEPT !.left = Down(@)]]
  /\ sent' = Most(sent - Budget, 0)
  /\ UNCHANGED <<pace, available, searching, limits, queries>>

Move(r, state) == request' = [request EXCEPT ![r] = state]

-----------------------------------------------------------------------------
(* Admission.                                                              *)

\* Mutant: what has passed is counted again by the next refill.
RefillKeepsAge == available' = Least(available + age * pace, Ceiling) /\ UNCHANGED age

Refill == available' = Least(available + age * pace, Ceiling) /\ age' = 0

AskAdmission(r, cost) ==
  /\ request[r].at = "idle"
  /\ Move(r, [NoRequest EXCEPT !.at = "waiting", !.cost = cost])
  /\ UNCHANGED <<pace, available, age, pause, searching, sent, asked, limits, queries>>

\* No query is in flight.  One that begins after this is not waited for.
SeeClear(r) ==
  /\ request[r].at = "waiting" /\ searching = {}
  /\ Move(r, [request[r] EXCEPT !.at = "clear"])
  /\ UNCHANGED <<pace, available, age, pause, searching, sent, asked, limits, queries>>

Room == pause = 0 /\ Least(available + age * pace, Ceiling) > 0

\* A request larger than what is left goes into debt rather than waiting for
\* room there can never be.
Admit(r) ==
  /\ request[r].at = "clear" /\ Room
  /\ age' = 0 /\ available' = Least(available + age * pace, Ceiling) - request[r].cost
  /\ sent' = sent + request[r].cost
  /\ Move(r, [request[r] EXCEPT !.at = "sent", !.attempt = 1])
  /\ UNCHANGED <<pace, pause, searching, asked, limits, queries>>

\* It sleeps and looks again.  It may look earlier here than the code does.
HoldBack(r) ==
  /\ request[r].at = "clear" /\ ~Room
  /\ Refill
  /\ Move(r, [request[r] EXCEPT !.at = "waiting"])
  /\ UNCHANGED <<pace, pause, searching, sent, asked, limits, queries>>

-----------------------------------------------------------------------------
(* The provider's answer.                                                  *)

Succeed(r) ==
  /\ request[r].at = "sent"
  /\ pace' = Least(pace + Recovery, Budget)
  /\ Move(r, NoRequest)
  /\ UNCHANGED <<available, age, pause, searching, sent, asked, limits, queries>>

\* Mutant: a later, shorter wait replaces the one that is running.
PauseReplaced(wait) == pause' = wait

\* Background sends nothing until the longest wait is over.
PauseExtended(wait) == pause' = Most(pause, wait)

\* rate_limited
RateLimited(wait) ==
  /\ age' = 0 /\ available' = Least(Least(available + age * pace, Ceiling), 0)
  /\ pace' = Most(pace \div 2, Floor)
  /\ PauseExtended(wait)
  /\ asked' = Most(asked, wait)

\* RetryPolicy::wait: the advice, or a jittered backoff that doubles.
Sleeps(attempt, advice) ==
  IF advice # NoAdvice THEN {Least(advice, Cap)}
  ELSE 0..Least(Base * 2 ^ (attempt - 1), Cap)

\* A transient answer with attempts left: the request is sent again later, and
\* the governor hears nothing of it.
Retry(r, advice) ==
  /\ request[r].attempt < Attempts
  /\ \E left \in Sleeps(request[r].attempt, advice) :
       Move(r, [request[r] EXCEPT !.at = "sleeping", !.attempt = @ + 1, !.left = left])
  /\ UNCHANGED <<pace, available, age, pause, searching, sent, asked, queries>>

Resend(r) ==
  /\ request[r].at = "sleeping" /\ request[r].left = 0
  /\ Move(r, [request[r] EXCEPT !.at = "sent"])
  /\ UNCHANGED <<pace, available, age, pause, searching, sent, asked, limits, queries>>

\* 429
Limit(r, advice) ==
  /\ request[r].at = "sent" /\ limits < MaxLimits /\ limits' = limits + 1
  /\ \/ Retry(r, advice)
     \/ /\ request[r].attempt = Attempts
        /\ RateLimited(IF advice = NoAdvice THEN DefaultPause ELSE advice)
        /\ Move(r, NoRequest)
        /\ UNCHANGED <<searching, sent, queries>>

\* 502, 503 or 504: the last one is the job's error.
Transient(r) ==
  /\ request[r].at = "sent" /\ limits < MaxLimits /\ limits' = limits + 1
  /\ \/ Retry(r, NoAdvice)
     \/ /\ request[r].attempt = Attempts
        /\ Move(r, NoRequest)
        /\ UNCHANGED <<pace, available, age, pause, searching, sent, asked, queries>>

\* Anything else is handed up at once, and says nothing about the pace.
Fail(r) ==
  /\ request[r].at = "sent"
  /\ Move(r, NoRequest)
  /\ UNCHANGED <<pace, available, age, pause, searching, sent, asked, limits, queries>>

-----------------------------------------------------------------------------
(* Queries.                                                                *)

\* The embed runs in a task of its own, so a search that stops waiting for it
\* does not end it.
QueryBegins(q) ==
  /\ q \notin searching /\ queries < MaxQueries /\ queries' = queries + 1
  /\ searching' = searching \union {q}
  /\ UNCHANGED <<pace, available, age, pause, request, sent, asked, limits>>

\* Mutant: a guard that is not dropped.
GuardKept(q) == UNCHANGED searching

\* The guard is dropped however the call ends: an answer, an error or a panic.
GuardDropped(q) == searching' = searching \ {q}

QueryEnds(q) ==
  /\ q \in searching /\ GuardDropped(q)
  /\ UNCHANGED <<pace, available, age, pause, request, sent, asked, limits, queries>>

Answered(r) ==
  \/ Succeed(r) \/ Fail(r) \/ Transient(r)
  \/ \E advice \in Advice \union {NoAdvice} : Limit(r, advice)

GovernorNext ==
  \/ TimePasses
  \/ \E r \in Request :
       \/ \E cost \in Cost : AskAdmission(r, cost)
       \/ SeeClear(r) \/ Admit(r) \/ HoldBack(r) \/ Resend(r) \/ Answered(r)
  \/ \E q \in Query : QueryBegins(q) \/ QueryEnds(q)

\* Time passes, timers fire, the provider answers within its own timeout.
GovernorFairness ==
  /\ WF_gvars(TimePasses)
  /\ \A r \in Request :
       WF_gvars(SeeClear(r)) /\ WF_gvars(Admit(r) \/ HoldBack(r)) /\ WF_gvars(Answered(r))
         /\ WF_gvars(Resend(r))
  /\ \A q \in Query : WF_gvars(QueryEnds(q))

GovernorSpec == GovernorInit /\ [][GovernorNext]_gvars /\ GovernorFairness

-----------------------------------------------------------------------------
(* Properties.                                                              *)

GovernorTypeOK ==
  /\ pace \in Floor..Budget
  /\ available \in Int /\ available <= Ceiling /\ age \in 0..TimeToFill
  /\ pause \in Nat /\ asked \in Nat /\ sent \in Nat
  /\ request \in [Request -> [at : {"idle", "waiting", "clear", "sent", "sleeping"},
                              cost : Cost \union {0}, attempt : 0..Attempts, left : Nat]]
  /\ searching \subseteq Query
  /\ limits \in 0..MaxLimits /\ queries \in 0..MaxQueries

\* However admissions, answers and rate limits interleave, over any span of
\* time the background is admitted no more than the budget for that span, one
\* burst and the debt of one request.
WithinBudget == sent <= Ceiling + Largest(Cost)

\* No request is admitted during a wait that any rate limit asked for, though
\* several answers name waits that overlap.
NoAdmissionInPause ==
  [][asked > 0 => \A r \in Request : ~(request[r].at = "clear" /\ request'[r].at = "sent")]_gvars

\* Once queries and rate limits cease, background requests go on: no debt, no
\* pause and no missed wake-up holds them back for good.
BackgroundGoesOn ==
  \/ []<>(\A r \in Request : request[r].at \notin {"waiting", "clear"})
  \/ []<><<\E r \in Request : request[r].at = "clear" /\ request'[r].at = "sent">>_gvars
=============================================================================
