--------------------------- MODULE ServicesProofs ---------------------------
(***************************************************************************)
(* Proofs about the services that MCServices checks side by side: the      *)
(* embed governor, the scope cache, the exact-ranking copy, the worktree   *)
(* supervisor, the debouncer, the turn classes and self-update.  They share *)
(* no state, and no proof about one uses a fact about another; the last    *)
(* theorem is of all seven.                                                *)
(***************************************************************************)
EXTENDS MCServices, RecursionTheorems, FiniteSetTheorems, SequenceTheorems, TLAPS

(***************************************************************************)
(* Proofs about the embed governor, for any requests, costs, budget, burst, *)
(* waits and retries, and with no bound on the rate limits' number.         *)
(*                                                                         *)
(* The pace: what was sent beyond the budget and what may be sent now share *)
(* one bucket, which never holds more than the burst; and the bucket is in  *)
(* debt for one request at most.  The pause: it never ends before the       *)
(* longest wait that an answer asked for.                                   *)
(***************************************************************************)

\* What the next refill makes of the bucket.
Refilled == Least(available + age * pace, Ceiling)

\* Sent tokens and those that the budget could still add fit the burst.
BurstShared == sent = 0 \/ sent + available + age * Budget <= Ceiling

DebtBounded == available + Largest(Cost) >= 0

PauseLasts == asked <= pause

GovernorInv == GovernorTypeOK /\ BurstShared /\ DebtBounded /\ PauseLasts

-----------------------------------------------------------------------------
(* Lemmas about the operators.                                             *)

LEMMA LeastIsInt ==
  ASSUME NEW a \in Int, NEW b \in Int
  PROVE  Least(a, b) \in Int /\ Least(a, b) <= a /\ Least(a, b) <= b
           /\ (Least(a, b) = a \/ Least(a, b) = b)
BY DEF Least

LEMMA MostIsInt ==
  ASSUME NEW a \in Int, NEW b \in Int
  PROVE  Most(a, b) \in Int /\ Most(a, b) >= a /\ Most(a, b) >= b
           /\ (Most(a, b) = a \/ Most(a, b) = b)
BY DEF Most

\* No request is larger than the largest.
LEMMA LargestBounds ==
  /\ Largest(Cost) \in Nat \ {0}
  /\ \A cost \in Cost : cost <= Largest(Cost)
<1>1. Largest(Cost) \in Cost /\ \A cost \in Cost : cost <= Largest(Cost)
  <2>1. PICK most \in Cost : \A cost \in Cost : cost <= most
    BY GovernorAssumption
  <2> QED
    BY <2>1 DEF Largest
<1> QED
  BY <1>1, GovernorAssumption

LEMMA TimeToFillIsNat == TimeToFill \in Nat
BY LargestBounds, GovernorAssumption DEF TimeToFill

\* A slower pace refills no faster.
LEMMA SlowerIsLess ==
  ASSUME NEW a \in Nat, NEW p \in Nat, NEW b \in Nat, p <= b
  PROVE  a * p \in Nat /\ a * b \in Nat /\ a * p <= a * b
<1>1. a * b = a * p + a * (b - p)
  OBVIOUS
<1>2. a * p \in Nat /\ a * (b - p) \in Nat
  OBVIOUS
<1> QED
  BY <1>1, <1>2

\* A refill stays within the burst, and takes nothing away.
LEMMA RefillBounds ==
  ASSUME GovernorTypeOK
  PROVE  /\ Refilled \in Int /\ Refilled <= Ceiling
         /\ age * Budget \in Nat
         /\ Refilled <= available + age * Budget
         /\ available <= Refilled
<1>1. /\ available \in Int /\ available <= Ceiling /\ Ceiling \in Int
      /\ age \in Nat /\ pace \in Nat /\ Budget \in Nat /\ pace <= Budget
  BY TimeToFillIsNat, GovernorAssumption DEF GovernorTypeOK
<1>2. age * pace \in Nat /\ age * Budget \in Nat /\ age * pace <= age * Budget
  BY <1>1, SlowerIsLess
<1> QED
  BY <1>1, <1>2 DEF Refilled, Least

-----------------------------------------------------------------------------
(* The inductive invariant.                                                *)

LEMMA InitGovernorInv ==
  ASSUME GovernorInit
  PROVE  GovernorInv
<1>1. GovernorTypeOK
  BY GovernorAssumption, TimeToFillIsNat DEF GovernorInit, GovernorTypeOK, NoRequest
<1> QED
  BY <1>1, LargestBounds, GovernorAssumption
     DEF GovernorInv, GovernorInit, BurstShared, DebtBounded, PauseLasts

\* The bucket after a step that refills it and takes `cost` for an admission.
LEMMA BucketKept ==
  ASSUME GovernorInv, age' = 0, NEW cost \in Nat, cost <= Largest(Cost),
         available' = Refilled - cost, sent' = sent + cost, cost # 0 => Refilled > 0
  PROVE  BurstShared' /\ DebtBounded' /\ available' \in Int /\ available' <= Ceiling /\ sent' \in Nat
<1>1. /\ available \in Int /\ sent \in Nat /\ Ceiling \in Int /\ Budget \in Nat
      /\ Largest(Cost) \in Nat
  BY LargestBounds, GovernorAssumption DEF GovernorInv, GovernorTypeOK
<1>2. /\ Refilled \in Int /\ Refilled <= Ceiling /\ age * Budget \in Nat
      /\ Refilled <= available + age * Budget /\ available <= Refilled
  BY RefillBounds DEF GovernorInv
<1>3. age' * Budget = 0
  BY <1>1
<1>4. BurstShared'
  BY <1>1, <1>2, <1>3 DEF GovernorInv, BurstShared
<1>5. DebtBounded'
  BY <1>1, <1>2 DEF GovernorInv, DebtBounded
<1> QED
  BY <1>1, <1>2, <1>4, <1>5

\* What a request becomes is a request again.
LEMMA MoveKeepsType ==
  ASSUME GovernorTypeOK, NEW r \in Request, NEW state, Move(r, state),
         state \in [at : {"idle", "waiting", "clear", "sent", "sleeping"},
                    cost : Cost \union {0}, attempt : 0..Attempts, left : Nat]
  PROVE  request' \in [Request -> [at : {"idle", "waiting", "clear", "sent", "sleeping"},
                              cost : Cost \union {0}, attempt : 0..Attempts, left : Nat]]
BY DEF GovernorTypeOK, Move

LEMMA RequestHasType ==
  ASSUME GovernorTypeOK, NEW r \in Request
  PROVE  /\ request[r] \in [at : {"idle", "waiting", "clear", "sent", "sleeping"},
                            cost : Cost \union {0}, attempt : 0..Attempts, left : Nat]
         /\ request[r].cost \in Cost \union {0}
         /\ request[r].attempt \in 0..Attempts
BY DEF GovernorTypeOK

LEMMA NoRequestHasType ==
  NoRequest \in [at : {"idle", "waiting", "clear", "sent", "sleeping"},
                 cost : Cost \union {0}, attempt : 0..Attempts, left : Nat]
BY GovernorAssumption DEF NoRequest

LEMMA TimeKeepsIInv ==
  ASSUME GovernorInv, TimePasses
  PROVE  GovernorInv'
<1> USE DEF TimePasses
<1>1. /\ available \in Int /\ sent \in Nat /\ Ceiling \in Int /\ Budget \in Nat \ {0}
      /\ age \in Nat /\ age <= TimeToFill /\ TimeToFill \in Nat /\ pause \in Nat /\ asked \in Nat
      /\ asked <= pause
  BY TimeToFillIsNat, GovernorAssumption DEF GovernorInv, GovernorTypeOK, PauseLasts
<1>2. pause' \in Nat /\ asked' \in Nat /\ asked' <= pause' /\ sent' \in Nat
  BY <1>1 DEF Down, Most
<1>3. age' \in 0..TimeToFill /\ age' <= age + 1
  BY <1>1 DEF Least
<1>4. request' \in [Request -> [at : {"idle", "waiting", "clear", "sent", "sleeping"},
                           cost : Cost \union {0}, attempt : 0..Attempts, left : Nat]]
  <2>1. ASSUME NEW r \in Request PROVE Down(request[r].left) \in Nat
    BY DEF GovernorInv, GovernorTypeOK, Down, Most
  <2> QED
    BY <2>1 DEF GovernorInv, GovernorTypeOK
<1>5. BurstShared'
  <2>1. age' * Budget <= age * Budget + Budget /\ age' * Budget \in Nat /\ age * Budget \in Nat
    <3>1. age' * Budget <= (age + 1) * Budget
      BY <1>1, <1>3, SlowerIsLess
    <3> QED
      BY <3>1, <1>1, <1>3
  <2>2. CASE sent' = 0
    BY <2>2 DEF BurstShared
  <2>3. CASE sent' # 0
    <3>1. sent' = sent - Budget /\ sent # 0
      BY <2>3, <1>1 DEF Most
    <3>2. sent + available + age * Budget <= Ceiling
      BY <3>1 DEF GovernorInv, BurstShared
    <3>3. sent' + available + age' * Budget <= Ceiling
      BY <3>1, <3>2, <2>1, <1>1
    <3> QED
      BY <3>3 DEF BurstShared
  <2> QED
    BY <2>2, <2>3
<1> QED
  BY <1>2, <1>3, <1>4, <1>5 DEF GovernorInv, GovernorTypeOK, PauseLasts, DebtBounded

\* The steps of a request that touch nothing but the request.
LEMMA QuietKeepsIInv ==
  ASSUME GovernorInv, NEW r \in Request, NEW state, Move(r, state),
         state \in [at : {"idle", "waiting", "clear", "sent", "sleeping"},
                    cost : Cost \union {0}, attempt : 0..Attempts, left : Nat],
         limits' \in 0..MaxLimits,
         UNCHANGED <<pace, available, age, pause, searching, sent, asked, queries>>
  PROVE  GovernorInv'
<1>1. request' \in [Request -> [at : {"idle", "waiting", "clear", "sent", "sleeping"},
                              cost : Cost \union {0}, attempt : 0..Attempts, left : Nat]]
  BY MoveKeepsType DEF GovernorInv
<1> QED
  BY <1>1 DEF GovernorInv, GovernorTypeOK, BurstShared, DebtBounded, PauseLasts

LEMMA AdmitKeepsIInv ==
  ASSUME GovernorInv, NEW r \in Request, Admit(r)
  PROVE  GovernorInv'
<1>1. request[r].cost \in Nat /\ request[r].cost <= Largest(Cost)
  <2>1. request[r].cost \in Cost \union {0}
    BY RequestHasType DEF GovernorInv
  <2>2. \A cost \in Cost \union {0} : cost \in Nat /\ cost <= Largest(Cost)
    BY LargestBounds, GovernorAssumption
  <2> QED
    BY <2>1, <2>2, Zenon
<1>2. /\ age' = 0 /\ available' = Refilled - request[r].cost /\ Refilled > 0
      /\ sent' = sent + request[r].cost
  BY DEF Admit, Room, Refilled
<1>3. BurstShared' /\ DebtBounded' /\ available' \in Int /\ available' <= Ceiling /\ sent' \in Nat
  BY <1>1, <1>2, BucketKept
<1>4. request' \in [Request -> [at : {"idle", "waiting", "clear", "sent", "sleeping"},
                           cost : Cost \union {0}, attempt : 0..Attempts, left : Nat]]
  <2>1. [request[r] EXCEPT !.at = "sent", !.attempt = 1]
          \in [at : {"idle", "waiting", "clear", "sent", "sleeping"},
              cost : Cost \union {0}, attempt : 0..Attempts, left : Nat]
    <3>1. 1 \in 0..Attempts
      BY GovernorAssumption
    <3> QED
      BY <3>1, RequestHasType DEF GovernorInv
  <2> QED
    BY <2>1, MoveKeepsType DEF GovernorInv, Admit
<1>5. 0 \in 0..TimeToFill
  BY TimeToFillIsNat
<1> QED
  BY <1>2, <1>3, <1>4, <1>5 DEF GovernorInv, GovernorTypeOK, PauseLasts, Admit

LEMMA HoldBackKeepsIInv ==
  ASSUME GovernorInv, NEW r \in Request, HoldBack(r)
  PROVE  GovernorInv'
<1>1. /\ age' = 0 /\ available' = Refilled - 0 /\ sent' = sent + 0
  BY RefillBounds, GovernorAssumption DEF HoldBack, Refill, Refilled, GovernorInv, GovernorTypeOK
<1>2. BurstShared' /\ DebtBounded' /\ available' \in Int /\ available' <= Ceiling /\ sent' \in Nat
  <2>1. 0 \in Nat /\ 0 <= Largest(Cost)
    BY LargestBounds
  <2> QED
    BY <1>1, <2>1, BucketKept
<1>3. request' \in [Request -> [at : {"idle", "waiting", "clear", "sent", "sleeping"},
                           cost : Cost \union {0}, attempt : 0..Attempts, left : Nat]]
  <2>1. [request[r] EXCEPT !.at = "waiting"]
          \in [at : {"idle", "waiting", "clear", "sent", "sleeping"},
              cost : Cost \union {0}, attempt : 0..Attempts, left : Nat]
    BY RequestHasType DEF GovernorInv
  <2> QED
    BY <2>1, MoveKeepsType DEF GovernorInv, HoldBack
<1>4. 0 \in 0..TimeToFill
  BY TimeToFillIsNat
<1> QED
  BY <1>1, <1>2, <1>3, <1>4 DEF GovernorInv, GovernorTypeOK, PauseLasts, HoldBack

\* A rate limit empties the bucket and forgives no debt.
LEMMA RateLimitedKeepsIInv ==
  ASSUME GovernorInv, NEW r \in Request, NEW wait \in Nat, RateLimited(wait), Move(r, NoRequest),
         limits' \in 0..MaxLimits, UNCHANGED <<searching, sent, queries>>
  PROVE  GovernorInv'
<1>1. /\ Refilled \in Int /\ Refilled <= Ceiling /\ age * Budget \in Nat
      /\ Refilled <= available + age * Budget /\ available <= Refilled
      /\ available \in Int /\ sent \in Nat /\ Ceiling \in Nat \ {0} /\ Budget \in Nat
      /\ Largest(Cost) \in Nat
  BY RefillBounds, LargestBounds, GovernorAssumption DEF GovernorInv, GovernorTypeOK
<1>2. age' = 0 /\ available' = Least(Refilled, 0)
  BY DEF RateLimited, Refilled
<1>3. available' \in Int /\ available' <= Refilled /\ available' <= 0
        /\ (available' = Refilled \/ available' = 0)
  BY <1>1, <1>2, LeastIsInt
<1>4. BurstShared'
  <2>1. age' * Budget = 0
    BY <1>1, <1>2
  <2> QED
    BY <1>1, <1>3, <2>1 DEF GovernorInv, BurstShared
<1>5. DebtBounded'
  BY <1>1, <1>3 DEF GovernorInv, DebtBounded
<1>6. pace' \in Floor..Budget
  <2>1. pace \in Floor..Budget /\ Floor \in 1..Budget /\ Budget \in Nat \ {0} /\ pace' = Most(pace \div 2, Floor)
    BY GovernorAssumption DEF GovernorInv, GovernorTypeOK, RateLimited
  <2>2. pace \div 2 \in Int /\ pace \div 2 <= Budget
    BY <2>1
  <2> QED
    BY <2>1, <2>2 DEF Most
<1>7. pause' \in Nat /\ asked' \in Nat /\ asked' <= pause'
  BY DEF GovernorInv, GovernorTypeOK, PauseLasts, RateLimited, PauseExtended, Most
<1>8. request' \in [Request -> [at : {"idle", "waiting", "clear", "sent", "sleeping"},
                           cost : Cost \union {0}, attempt : 0..Attempts, left : Nat]]
  BY NoRequestHasType, MoveKeepsType DEF GovernorInv
<1>9. 0 \in 0..TimeToFill /\ available' <= Ceiling
  BY TimeToFillIsNat, <1>1, <1>3
<1> QED
  BY <1>2, <1>3, <1>4, <1>5, <1>6, <1>7, <1>8, <1>9 DEF GovernorInv, GovernorTypeOK, PauseLasts

LEMMA RetryKeepsIInv ==
  ASSUME GovernorInv, NEW r \in Request, NEW advice \in Advice \union {NoAdvice}, Retry(r, advice),
         limits' \in 0..MaxLimits
  PROVE  GovernorInv'
<1>1. PICK left \in Sleeps(request[r].attempt, advice) :
        Move(r, [request[r] EXCEPT !.at = "sleeping", !.attempt = @ + 1, !.left = left])
  BY DEF Retry
<1>2. left \in Nat
  <2>1. CASE advice # NoAdvice
    BY <2>1, GovernorAssumption DEF Sleeps, Least
  <2>2. CASE advice = NoAdvice
    BY <2>2 DEF Sleeps
  <2> QED
    BY <2>1, <2>2
<1>3. request[r].attempt + 1 \in 0..Attempts
  BY RequestHasType, GovernorAssumption DEF GovernorInv, Retry
<1>4. [request[r] EXCEPT !.at = "sleeping", !.attempt = @ + 1, !.left = left]
        \in [at : {"idle", "waiting", "clear", "sent", "sleeping"},
            cost : Cost \union {0}, attempt : 0..Attempts, left : Nat]
  BY <1>2, <1>3, RequestHasType DEF GovernorInv
<1> QED
  BY <1>1, <1>4, QuietKeepsIInv DEF Retry

LEMMA AnsweredKeepsIInv ==
  ASSUME GovernorInv, NEW r \in Request, Answered(r)
  PROVE  GovernorInv'
<1>1. CASE Succeed(r)
  <2>1. pace' \in Floor..Budget
    <3>1. /\ pace \in Floor..Budget /\ Floor \in 1..Budget /\ Budget \in Nat
          /\ Recovery \in 1..Budget /\ pace' = Least(pace + Recovery, Budget)
      BY <1>1, GovernorAssumption DEF GovernorInv, GovernorTypeOK, Succeed
    <3> QED
      BY <3>1 DEF Least
  <2>2. request' \in [Request -> [at : {"idle", "waiting", "clear", "sent", "sleeping"},
                             cost : Cost \union {0}, attempt : 0..Attempts, left : Nat]]
    BY <1>1, NoRequestHasType, MoveKeepsType DEF GovernorInv, Succeed
  <2> QED
    BY <1>1, <2>1, <2>2
       DEF Succeed, GovernorInv, GovernorTypeOK, BurstShared, DebtBounded, PauseLasts
<1>2. CASE Fail(r)
  BY <1>2, NoRequestHasType, QuietKeepsIInv DEF Fail, GovernorInv, GovernorTypeOK
<1>3. ASSUME limits < MaxLimits, limits' = limits + 1
      PROVE  limits' \in 0..MaxLimits
  BY <1>3, GovernorAssumption DEF GovernorInv, GovernorTypeOK
<1>4. CASE Transient(r)
  <2>1. CASE Retry(r, NoAdvice)
    BY <1>3, <1>4, <2>1, RetryKeepsIInv DEF Transient
  <2>2. CASE /\ Move(r, NoRequest)
             /\ UNCHANGED <<pace, available, age, pause, searching, sent, asked, queries>>
    BY <1>3, <1>4, <2>2, NoRequestHasType, QuietKeepsIInv DEF Transient
  <2> QED
    BY <1>4, <2>1, <2>2 DEF Transient
<1>5. ASSUME NEW advice \in Advice \union {NoAdvice}, Limit(r, advice)
      PROVE  GovernorInv'
  <2>1. limits' \in 0..MaxLimits
    BY <1>3, <1>5 DEF Limit
  <2>2. CASE Retry(r, advice)
    BY <1>5, <2>1, <2>2, RetryKeepsIInv
  <2>3. CASE /\ RateLimited(IF advice = NoAdvice THEN DefaultPause ELSE advice)
             /\ Move(r, NoRequest) /\ UNCHANGED <<searching, sent, queries>>
    <3>1. (IF advice = NoAdvice THEN DefaultPause ELSE advice) \in Nat
      BY GovernorAssumption
    <3> QED
      BY <2>1, <2>3, <3>1, RateLimitedKeepsIInv
  <2> QED
    BY <1>5, <2>2, <2>3 DEF Limit
<1> QED
  BY <1>1, <1>2, <1>4, <1>5 DEF Answered

LEMMA NextKeepsGovernorInv ==
  ASSUME GovernorInv, [GovernorNext]_gvars
  PROVE  GovernorInv'
<1>1. limits \in 0..MaxLimits
  BY DEF GovernorInv, GovernorTypeOK
<1>2. CASE TimePasses
  BY <1>2, TimeKeepsIInv
<1>3. ASSUME NEW r \in Request, NEW cost \in Cost, AskAdmission(r, cost)
      PROVE  GovernorInv'
  <2>1. [NoRequest EXCEPT !.at = "waiting", !.cost = cost]
          \in [at : {"idle", "waiting", "clear", "sent", "sleeping"},
              cost : Cost \union {0}, attempt : 0..Attempts, left : Nat]
    BY <1>3, NoRequestHasType DEF NoRequest
  <2> QED
    BY <1>1, <1>3, <2>1, QuietKeepsIInv DEF AskAdmission
<1>4. ASSUME NEW r \in Request, SeeClear(r)
      PROVE  GovernorInv'
  <2>1. [request[r] EXCEPT !.at = "clear"]
          \in [at : {"idle", "waiting", "clear", "sent", "sleeping"},
              cost : Cost \union {0}, attempt : 0..Attempts, left : Nat]
    BY RequestHasType DEF GovernorInv
  <2> QED
    BY <1>1, <1>4, <2>1, QuietKeepsIInv DEF SeeClear
<1>5. ASSUME NEW r \in Request, Resend(r)
      PROVE  GovernorInv'
  <2>1. [request[r] EXCEPT !.at = "sent"]
          \in [at : {"idle", "waiting", "clear", "sent", "sleeping"},
              cost : Cost \union {0}, attempt : 0..Attempts, left : Nat]
    BY RequestHasType DEF GovernorInv
  <2> QED
    BY <1>1, <1>5, <2>1, QuietKeepsIInv DEF Resend
<1>6. ASSUME NEW q \in Query, QueryBegins(q) \/ QueryEnds(q)
      PROVE  GovernorInv'
  BY <1>6, GovernorAssumption DEF QueryBegins, QueryEnds, GuardDropped, GovernorInv, GovernorTypeOK, BurstShared, DebtBounded, PauseLasts
<1>7. CASE UNCHANGED gvars
  BY <1>7 DEF gvars, GovernorInv, GovernorTypeOK, BurstShared, DebtBounded, PauseLasts
<1> QED
  BY <1>2, <1>3, <1>4, <1>5, <1>6, <1>7, AdmitKeepsIInv, HoldBackKeepsIInv, AnsweredKeepsIInv
     DEF GovernorNext

-----------------------------------------------------------------------------
(* The theorems.                                                           *)

\* GovernorInv holds in every reachable state.
THEOREM GovernorInvariance == GovernorSpec => []GovernorInv
<1>1. GovernorInit => GovernorInv
  BY InitGovernorInv
<1>2. GovernorInv /\ [GovernorNext]_gvars => GovernorInv'
  BY NextKeepsGovernorInv
<1> QED
  BY <1>1, <1>2, PTL DEF GovernorSpec

\* The state of the governor and of its requests stays well formed: whatever
\* rate limits and successes do, the pace stays between the floor and the
\* budget.
THEOREM GovernorTypeCorrect == GovernorSpec => []GovernorTypeOK
<1>1. GovernorInv => GovernorTypeOK
  BY DEF GovernorInv
<1> QED
  BY <1>1, GovernorInvariance, PTL

\* Over any span of time the background is admitted no more than the budget for
\* it, one burst and the debt of one request.
THEOREM BudgetKept == GovernorSpec => []WithinBudget
<1>1. GovernorInv => WithinBudget
  <2> SUFFICES ASSUME GovernorInv PROVE WithinBudget
    OBVIOUS
  <2>1. /\ sent \in Nat /\ available \in Int /\ Ceiling \in Nat /\ Largest(Cost) \in Nat
        /\ age * Budget \in Nat
    BY LargestBounds, RefillBounds, GovernorAssumption DEF GovernorInv, GovernorTypeOK
  <2> QED
    BY <2>1 DEF GovernorInv, BurstShared, DebtBounded, WithinBudget
<1> QED
  BY <1>1, GovernorInvariance, PTL

\* A step that admits a request finds no pause, and so no wait that is not over.
LEMMA StepRespectsPause ==
  ASSUME GovernorInv, [GovernorNext]_gvars, asked > 0, NEW r \in Request, request[r].at = "clear"
  PROVE  request'[r].at # "sent"
<1>1. pause # 0 /\ request \in [Request -> [at : {"idle", "waiting", "clear", "sent", "sleeping"},
                           cost : Cost \union {0}, attempt : 0..Attempts, left : Nat]]
  BY DEF GovernorInv, GovernorTypeOK, PauseLasts
<1>2. ASSUME NEW q \in Request, NEW state, Move(q, state), request[q].at # "clear" \/ state.at # "sent"
      PROVE  request'[r].at # "sent"
  BY <1>1, <1>2 DEF Move
<1>3. CASE TimePasses
  <2>1. request'[r] = [request[r] EXCEPT !.left = Down(request[r].left)]
    BY <1>3 DEF TimePasses
  <2> QED
    BY <2>1, <1>1
<1>4. ASSUME NEW q \in Request, ~Admit(q),
             \/ \E cost \in Cost : AskAdmission(q, cost)
             \/ SeeClear(q) \/ HoldBack(q) \/ Resend(q)
      PROVE  request'[r].at # "sent"
  <2>1. CASE Resend(q)
    BY <1>2, <2>1 DEF Resend
  <2>2. CASE SeeClear(q)
    BY <1>2, <2>2 DEF SeeClear
  <2>3. CASE HoldBack(q)
    <3>1. [request[q] EXCEPT !.at = "waiting"].at # "sent"
      BY <1>1
    <3> QED
      BY <1>2, <2>3, <3>1 DEF HoldBack
  <2>4. ASSUME NEW cost \in Cost, AskAdmission(q, cost)
        PROVE  request'[r].at # "sent"
    BY <1>2, <2>4 DEF AskAdmission
  <2> QED
    BY <1>4, <2>1, <2>2, <2>3, <2>4
<1>5. ASSUME NEW q \in Request, Answered(q)
      PROVE  request'[r].at # "sent"
  <2>1. request[q].at = "sent"
    BY <1>5 DEF Answered, Succeed, Fail, Transient, Limit
  <2>2. \E state : Move(q, state)
    BY <1>5 DEF Answered, Succeed, Fail, Transient, Limit, Retry
  <2> QED
    BY <1>2, <2>1, <2>2
<1>6. ASSUME NEW q \in Request PROVE ~Admit(q)
  BY <1>1 DEF Admit, Room
<1>7. ASSUME NEW q \in Query, QueryBegins(q) \/ QueryEnds(q)
      PROVE  request'[r].at # "sent"
  BY <1>7 DEF QueryBegins, QueryEnds
<1>8. CASE UNCHANGED gvars
  BY <1>8 DEF gvars
<1> QED
  BY <1>3, <1>4, <1>5, <1>6, <1>7, <1>8 DEF GovernorNext

\* No request is admitted during a wait that any rate limit asked for.
THEOREM PausesRespected == GovernorSpec => NoAdmissionInPause
<1>1. GovernorInv /\ [GovernorNext]_gvars =>
        [asked > 0 => \A r \in Request : ~(request[r].at = "clear" /\ request'[r].at = "sent")]_gvars
  BY StepRespectsPause
<1> QED
  BY <1>1, GovernorInvariance, PTL DEF GovernorSpec, NoAdmissionInPause

-----------------------------------------------------------------------------
(***************************************************************************)
(* Proof that the scope cache never misses a source, for any number of      *)
(* blobs, searches, transactions and boots.  The argument: a cutoff is the  *)
(* xmin of some snapshot, so every transaction before it had ended and what *)
(* it committed was seen; what commits later was written at or after every  *)
(* cutoff in use, so a search finds it by its stamp; and a key that is      *)
(* rewritten under a search only ever moves to a later cutoff.              *)
(***************************************************************************)

\* A transaction has a state from the moment its xid is taken.
XidsInOrder == \A x \in Xid : tx[x] = "none" <=> next <= x

\* Every transaction before the cutoff has ended.
Ended(cutoff) ==
  /\ cutoff <= next
  /\ \A x \in Xid : x < cutoff => tx[x] \in {"committed", "aborted"}

Builds(s) == search[s].at \in {"snapshot", "build"}
Reads(s) == search[s].at = "read"

CutoffsEnded ==
  /\ cache.built => Ended(cache.cutoff)
  /\ \A s \in Search : Builds(s) \/ Reads(s) => Ended(search[s].cutoff)

\* What a build saw is what had committed before its cutoff, and maybe more.
SnapshotsTrue ==
  \A s \in Search : Builds(s) =>
    /\ search[s].seen \subseteq Committed
    /\ \A x \in Committed : x < search[s].cutoff => x \in search[s].seen

\* A build's cutoff is no earlier than the key it is to replace, nor than the
\* cutoff of a search that reads while there is none.
BuildsMoveOn ==
  /\ \A s \in Search : Builds(s) /\ search[s].saw.built => search[s].saw.cutoff <= search[s].cutoff
  /\ ~cache.built => \A s, t \in Search :
       Builds(s) /\ ~search[s].saw.built /\ Reads(t) => search[t].cutoff <= search[s].cutoff

ReadsTrail == cache.built => \A s \in Search : Reads(s) => search[s].cutoff <= cache.cutoff

\* A row version of the blob from before the cutoff that a search finds now.
Early(table, b, cutoff) ==
  \E v \in Visible(Committed) : v.of = table /\ v.blob = b /\ v.by < cutoff

Covers(cutoff, sources) ==
  \A b \in Blob : Early("path", b, cutoff) /\ Early("element", b, cutoff) =>
    /\ <<"raw", b>> \in sources
    /\ Early("summary", b, cutoff) => <<"smart", b>> \in sources

CacheCovers == cache.built => Covers(cache.cutoff, cache.sources)

ScopeInv ==
  /\ ScopeTypeOK /\ XidsInOrder /\ CutoffsEnded /\ SnapshotsTrue
  /\ BuildsMoveOn /\ ReadsTrail /\ CacheCovers

-----------------------------------------------------------------------------

LEMMA InitScopeInv ==
  ASSUME ScopeInit
  PROVE  ScopeInv
<1> USE ScopeAssumption
<1>1. ScopeTypeOK
  BY DEF ScopeInit, ScopeTypeOK, Scope, NoScope, IdleSearch, Xid
<1>2. XidsInOrder
  BY DEF ScopeInit, XidsInOrder, Xid
<1>3. ~cache.built /\ \A s \in Search : ~Builds(s) /\ ~Reads(s)
  BY DEF ScopeInit, NoScope, IdleSearch, Builds, Reads
<1> QED
  BY <1>1, <1>2, <1>3 DEF ScopeInv, CutoffsEnded, SnapshotsTrue, BuildsMoveOn, ReadsTrail, CacheCovers

\* A search that reads finds every source of the scope.
LEMMA IInvFinds ==
  ASSUME ScopeInv
  PROVE  NeverMissing
<1> SUFFICES ASSUME NEW s \in Search, Reads(s), NEW x \in FullScope(Committed)
             PROVE  x \in Found(search[s].cutoff, Committed)
  BY DEF NeverMissing, Reads
<1> DEFINE c == search[s].cutoff
<1>1. CASE ~cache.built
  BY <1>1 DEF Found
<1>2. CASE cache.built
  <2>1. PICK b \in Blob : /\ Stored("path", b, Committed) /\ Stored("element", b, Committed)
                          /\ \/ x = <<"raw", b>>
                             \/ x = <<"smart", b>> /\ Stored("summary", b, Committed)
    BY DEF FullScope, Admitted
  <2>2. c \in Nat /\ cache.cutoff \in Nat /\ c <= cache.cutoff
    BY <1>2, ScopeAssumption DEF ScopeInv, ScopeTypeOK, Scope, ReadsTrail
  <2>3. \A v \in rows : v.by \in Nat
    BY ScopeAssumption DEF ScopeInv, ScopeTypeOK, RowVersion, Xid
  <2>4. CASE b \in Grown(c, Committed)
    BY <1>2, <2>1, <2>4 DEF Found, Admitted
  <2>5. CASE b \notin Grown(c, Committed)
    <3>1. Early("path", b, cache.cutoff) /\ Early("element", b, cache.cutoff)
      BY <2>1, <2>2, <2>3, <2>5 DEF Early, Stored, Grown, Visible
    <3>2. <<"raw", b>> \in cache.sources
      BY <1>2, <3>1 DEF ScopeInv, CacheCovers, Covers
    <3>3. ASSUME Stored("summary", b, Committed)
          PROVE  <<"smart", b>> \in cache.sources \union LateSummaries(c, Committed)
      <4>1. PICK v \in Visible(Committed) : v.of = "summary" /\ v.blob = b
        BY <3>3 DEF Stored
      <4>2. CASE v.by >= c
        BY <3>2, <4>1, <4>2 DEF LateSummaries
      <4>3. CASE ~(v.by >= c)
        <5>1. v.by \in Nat /\ v.by < cache.cutoff
          BY <2>2, <2>3, <4>1, <4>3 DEF Visible
        <5>2. Early("summary", b, cache.cutoff)
          BY <4>1, <5>1 DEF Early
        <5> QED
          BY <1>2, <3>1, <5>2 DEF ScopeInv, CacheCovers, Covers
      <4> QED
        BY <4>2, <4>3
    <3> QED
      BY <1>2, <2>1, <3>2, <3>3 DEF Found
  <2> QED
    BY <2>4, <2>5
<1> QED
  BY <1>1, <1>2
-----------------------------------------------------------------------------
(* The writers.                                                            *)

Writes ==
  \/ BeginWrite
  \/ \E x \in Xid :
       \/ \E table \in Table, b \in Blob : Write(x, table, b)
       \/ \E b \in Blob : RemovePath(x, b)
       \/ Commit(x) \/ Abort(x)

LEMMA WritesType ==
  ASSUME ScopeTypeOK, Writes
  PROVE  ScopeTypeOK'
<1> USE ScopeAssumption
<1>1. CASE BeginWrite
  BY <1>1 DEF BeginWrite, ScopeTypeOK, Xid
<1>2. ASSUME NEW x \in Xid, NEW table \in Table, NEW b \in Blob, Write(x, table, b)
      PROVE  ScopeTypeOK'
  BY <1>2 DEF Write, ScopeTypeOK, RowVersion, Xid, Running
<1>3. ASSUME NEW x \in Xid, NEW b \in Blob, RemovePath(x, b)
      PROVE  ScopeTypeOK'
  <2>1. PICK v \in rows : rows' = (rows \ {v}) \union {[v EXCEPT !.gone = x]}
    BY <1>3 DEF RemovePath, Visible
  <2>2. rows' \subseteq RowVersion
    <3>1. v \in RowVersion /\ x \in 0..MaxXid
      BY DEF ScopeTypeOK, Xid
    <3>2. [v EXCEPT !.gone = x] \in RowVersion
      BY <3>1 DEF RowVersion
    <3> QED
      BY <2>1, <3>2 DEF ScopeTypeOK
  <2> QED
    BY <1>3, <2>2 DEF RemovePath, ScopeTypeOK
<1>4. ASSUME NEW x \in Xid, Commit(x)
      PROVE  ScopeTypeOK'
  BY <1>4 DEF Commit, ScopeTypeOK
<1>5. ASSUME NEW x \in Xid, Abort(x)
      PROVE  ScopeTypeOK'
  <2>1. \A v \in RowVersion : [v EXCEPT !.gone = 0] \in RowVersion
    BY DEF RowVersion
  <2>2. rows' \subseteq RowVersion
    BY <1>5, <2>1 DEF Abort, ScopeTypeOK
  <2> QED
    BY <1>5, <2>2 DEF Abort, ScopeTypeOK
<1> QED
  BY <1>1, <1>2, <1>3, <1>4, <1>5 DEF Writes

\* What has ended stays ended, and what commits now is of no cutoff in use.
LEMMA WritesKeepCutoffs ==
  ASSUME ScopeTypeOK, XidsInOrder, Writes
  PROVE  /\ XidsInOrder' /\ Committed \subseteq Committed'
         /\ \A c \in Nat : Ended(c) => Ended(c)' /\ \A x \in Committed' : x < c => x \in Committed
<1> USE ScopeAssumption DEF XidsInOrder, Committed, Ended, Running, Xid
<1>1. CASE BeginWrite
  BY <1>1 DEF BeginWrite, ScopeTypeOK
<1>2. CASE UNCHANGED <<next, tx>>
  BY <1>2
<1>3. ASSUME NEW x \in Xid, Commit(x) \/ Abort(x)
      PROVE  /\ XidsInOrder' /\ Committed \subseteq Committed'
             /\ \A c \in Nat : Ended(c) => Ended(c)' /\ \A y \in Committed' : y < c => y \in Committed
  <2>1. /\ next' = next /\ tx[x] = "running" /\ tx'[x] \in {"committed", "aborted"}
        /\ \A y \in Xid \ {x} : tx'[y] = tx[y]
    BY <1>3 DEF Commit, Abort, ScopeTypeOK
  <2>2. XidsInOrder' /\ Committed \subseteq Committed'
    BY <2>1
  <2>3. ASSUME NEW c \in Nat, Ended(c)
        PROVE  Ended(c)' /\ \A y \in Committed' : y < c => y \in Committed
    BY <2>1, <2>3
  <2> QED
    BY <2>2, <2>3
<1> QED
  BY <1>1, <1>2, <1>3 DEF Writes, Write, RemovePath

\* No version from before a cutoff comes into sight.
LEMMA WritesShowNothingEarly ==
  ASSUME ScopeTypeOK, XidsInOrder, Writes
  PROVE  \A c \in Nat, table \in Table, b \in Blob :
           Ended(c) => (Early(table, b, c)' => Early(table, b, c))
<1> SUFFICES ASSUME NEW c \in Nat, NEW table \in Table, NEW b \in Blob, Ended(c),
                    NEW v \in Visible(Committed)', v.of = table /\ v.blob = b /\ v.by < c
             PROVE  Early(table, b, c)
  BY DEF Early
<1>1. v \in rows' /\ v.by \in Committed' /\ v.gone \notin Committed'
  BY DEF Visible
<1>2. v.by \in Committed /\ v.gone \notin Committed
  BY <1>1, WritesKeepCutoffs
<1> SUFFICES \E w \in rows : /\ w.of = v.of /\ w.blob = v.blob /\ w.by = v.by
                             /\ w.gone \notin Committed
  BY <1>2 DEF Early, Visible
<1>3. CASE UNCHANGED rows
  BY <1>1, <1>2, <1>3
<1>4. ASSUME NEW x \in Xid, NEW t \in Table, NEW d \in Blob, Write(x, t, d)
      PROVE  v \in rows
  BY <1>1, <1>2, <1>4 DEF Write, Running, Committed
<1>5. ASSUME NEW x \in Xid, NEW d \in Blob, RemovePath(x, d)
      PROVE  \E w \in rows : /\ w.of = v.of /\ w.blob = v.blob /\ w.by = v.by
                             /\ w.gone \notin Committed
  <2>1. PICK w \in rows : w.gone = 0 /\ rows' = (rows \ {w}) \union {[w EXCEPT !.gone = x]}
    BY <1>5 DEF RemovePath, Visible
  <2>2. CASE v \in rows
    BY <1>2, <2>2
  <2>3. CASE v = [w EXCEPT !.gone = x]
    BY <2>1, <2>3 DEF ScopeTypeOK, RowVersion, Committed, Xid
  <2> QED
    BY <1>1, <2>1, <2>2, <2>3
<1>6. ASSUME NEW x \in Xid, Abort(x)
      PROVE  \E w \in rows : /\ w.of = v.of /\ w.blob = v.blob /\ w.by = v.by
                             /\ w.gone \notin Committed
  <2>1. PICK w \in rows : v = IF w.gone = x THEN [w EXCEPT !.gone = 0] ELSE w
    BY <1>1, <1>6 DEF Abort
  <2>2. w \in RowVersion /\ x \notin Committed
    BY <1>6 DEF ScopeTypeOK, Abort, Running, Committed
  <2> QED
    BY <1>2, <2>1, <2>2 DEF RowVersion
<1> QED
  BY <1>2, <1>1, <1>3, <1>4, <1>5, <1>6 DEF Writes, BeginWrite, Commit

LEMMA WritesKeepIInv ==
  ASSUME ScopeInv, Writes
  PROVE  ScopeInv'
<1>1. UNCHANGED <<cache, search>>
  BY DEF Writes, BeginWrite, Write, RemovePath, Commit, Abort
<1>2. ScopeTypeOK /\ XidsInOrder /\ cache.cutoff \in Nat /\ \A s \in Search : search[s].cutoff \in Nat
  BY ScopeAssumption DEF ScopeInv, ScopeTypeOK, Scope
<1>3. ScopeTypeOK'
  BY <1>2, WritesType
<1>4. XidsInOrder' /\ CutoffsEnded'
  BY <1>1, <1>2, WritesKeepCutoffs DEF ScopeInv, CutoffsEnded, Builds, Reads
<1>5. SnapshotsTrue'
  <2> SUFFICES ASSUME NEW s \in Search, Builds(s)
               PROVE  /\ search[s].seen \subseteq Committed'
                      /\ \A x \in Committed' : x < search[s].cutoff => x \in search[s].seen
    BY <1>1 DEF SnapshotsTrue, Builds
  <2>1. Ended(search[s].cutoff)
    BY DEF ScopeInv, CutoffsEnded
  <2> QED
    BY <1>2, <2>1, WritesKeepCutoffs DEF ScopeInv, SnapshotsTrue
<1>6. BuildsMoveOn' /\ ReadsTrail'
  BY <1>1 DEF ScopeInv, BuildsMoveOn, ReadsTrail, Builds, Reads
<1>7. CacheCovers'
  <2> SUFFICES ASSUME cache.built, NEW b \in Blob,
                      Early("path", b, cache.cutoff)', Early("element", b, cache.cutoff)'
               PROVE  /\ <<"raw", b>> \in cache.sources
                      /\ Early("summary", b, cache.cutoff)' => <<"smart", b>> \in cache.sources
    BY <1>1 DEF CacheCovers, Covers
  <2>1. \A table \in Table : Early(table, b, cache.cutoff)' => Early(table, b, cache.cutoff)
    <3>1. Ended(cache.cutoff)
      BY DEF ScopeInv, CutoffsEnded
    <3> QED
      BY <1>1, <1>2, <3>1, WritesShowNothingEarly DEF Early
  <2> QED
    BY <2>1 DEF ScopeInv, CacheCovers, Covers, Table
<1> QED
  BY <1>3, <1>4, <1>5, <1>6, <1>7 DEF ScopeInv
-----------------------------------------------------------------------------
(* The searches.                                                           *)

SearchStep(s) == Hit(s) \/ TakeSnapshot(s) \/ TryLock(s) \/ Build(s) \/ Read(s) \/ GiveUp(s)

\* A search's step moves no transaction and no row.
LEMMA StoreRests ==
  ASSUME UNCHANGED <<next, tx, rows>>
  PROVE  /\ Committed' = Committed /\ (XidsInOrder => XidsInOrder')
         /\ \A c \in Nat : Ended(c) => Ended(c)'
         /\ \A c \in Nat, sources \in SUBSET Source : Covers(c, sources) => Covers(c, sources)'
BY DEF Committed, XidsInOrder, Ended, Covers, Early, Visible

\* A cutoff that has ended is not after the oldest transaction unseen.
LEMMA XminIsLatest ==
  ASSUME ScopeTypeOK, XidsInOrder, NEW xmin \in Unseen, \A y \in Unseen : xmin <= y
  PROVE  /\ Ended(xmin) /\ xmin \in 1..MaxXid + 1
         /\ \A c \in Nat : Ended(c) => c <= xmin
BY ScopeAssumption DEF ScopeTypeOK, XidsInOrder, Unseen, Running, Ended, Xid

\* What a search saw committed, of before its cutoff, it collected.
LEMMA SnapshotCovers ==
  ASSUME ScopeInv, NEW s \in Search, Builds(s)
  PROVE  Covers(search[s].cutoff, FullScope(search[s].seen))
<1> SUFFICES ASSUME NEW b \in Blob
             PROVE  \A table \in Table :
                      Early(table, b, search[s].cutoff) => Stored(table, b, search[s].seen)
  BY DEF Covers, FullScope, Admitted, Table
<1>1. /\ search[s].seen \subseteq Committed
      /\ \A x \in Committed : x < search[s].cutoff => x \in search[s].seen
  BY DEF ScopeInv, SnapshotsTrue
<1> QED
  BY <1>1 DEF Early, Stored, Visible

\* A search that comes to rest takes no other step of its key with it.
LEMMA RestKeepsIInv ==
  ASSUME ScopeInv, UNCHANGED <<next, tx, rows, cache, boots>>, lock' \in Search \union {NoSearch},
         NEW s \in Search, Proceed(s, IdleSearch)
  PROVE  ScopeInv'
<1>1. ScopeTypeOK'
  BY ScopeAssumption DEF ScopeInv, ScopeTypeOK, Proceed, IdleSearch, NoScope, Scope
<1>2. \A t \in Search : /\ Builds(t)' => Builds(t) /\ search'[t] = search[t]
                        /\ Reads(t)' => Reads(t) /\ search'[t] = search[t]
  BY DEF ScopeInv, ScopeTypeOK, Proceed, IdleSearch, Builds, Reads
<1>3. cache.cutoff \in Nat /\ cache.sources \in SUBSET Source
      /\ \A t \in Search : search[t].cutoff \in Nat
  BY ScopeAssumption DEF ScopeInv, ScopeTypeOK, Scope
<1>4. XidsInOrder' /\ CutoffsEnded'
  BY <1>2, <1>3, StoreRests DEF ScopeInv, CutoffsEnded
<1>5. SnapshotsTrue' /\ BuildsMoveOn' /\ ReadsTrail'
  BY <1>2, StoreRests DEF ScopeInv, SnapshotsTrue, BuildsMoveOn, ReadsTrail
<1>6. CacheCovers'
  BY <1>3, StoreRests DEF ScopeInv, CacheCovers
<1> QED
  BY <1>1, <1>4, <1>5, <1>6 DEF ScopeInv

SearchState ==
  [at : {"idle", "snapshot", "build", "read"}, seen : SUBSET Xid,
   cutoff : 0..MaxXid + 1, saw : Scope]

LEMMA ReadsWellFormed ==
  \A c \in 0..MaxXid + 1 : [IdleSearch EXCEPT !.at = "read", !.cutoff = c] \in SearchState
<1> SUFFICES ASSUME NEW c \in 0..MaxXid + 1
             PROVE  [IdleSearch EXCEPT !.at = "read", !.cutoff = c] \in SearchState
  OBVIOUS
<1>1. NoScope \in Scope
  BY ScopeAssumption DEF NoScope, Scope
<1>2. IdleSearch \in SearchState
  BY <1>1, ScopeAssumption DEF IdleSearch, SearchState
<1>3. \A e \in SearchState : [e EXCEPT !.at = "read", !.cutoff = c] \in SearchState
  BY DEF SearchState
<1> QED
  BY <1>2, <1>3

LEMMA HitKeepsIInv ==
  ASSUME ScopeInv, NEW s \in Search, Hit(s)
  PROVE  ScopeInv'
<1>1. ScopeTypeOK'
  <2>1. cache.cutoff \in 0..MaxXid + 1
    BY DEF ScopeInv, ScopeTypeOK, Scope
  <2>2. [IdleSearch EXCEPT !.at = "read", !.cutoff = cache.cutoff] \in SearchState
    BY <2>1, ReadsWellFormed
  <2> QED
    BY <2>2 DEF ScopeInv, ScopeTypeOK, Hit, Proceed, SearchState
<1>2. \A t \in Search : /\ Builds(t)' => Builds(t) /\ search'[t] = search[t]
                        /\ Reads(t)' => \/ Reads(t) /\ search'[t] = search[t]
                                        \/ search'[t].cutoff = cache.cutoff
  BY DEF ScopeInv, ScopeTypeOK, Hit, Proceed, IdleSearch, Builds, Reads
<1>3. cache.cutoff \in Nat /\ cache.sources \in SUBSET Source
      /\ \A t \in Search : search[t].cutoff \in Nat
  BY ScopeAssumption DEF ScopeInv, ScopeTypeOK, Scope
<1>4. UNCHANGED <<next, tx, rows, cache>> /\ cache.built
  BY DEF Hit
<1>5. XidsInOrder' /\ CutoffsEnded'
  BY <1>2, <1>3, <1>4, StoreRests DEF ScopeInv, CutoffsEnded
<1>6. SnapshotsTrue' /\ BuildsMoveOn'
  BY <1>2, <1>4, StoreRests DEF ScopeInv, SnapshotsTrue, BuildsMoveOn
<1>7. ReadsTrail' /\ CacheCovers'
  BY <1>2, <1>3, <1>4, StoreRests DEF ScopeInv, ReadsTrail, CacheCovers
<1> QED
  BY <1>1, <1>5, <1>6, <1>7 DEF ScopeInv

LEMMA TakeSnapshotKeepsIInv ==
  ASSUME ScopeInv, NEW s \in Search, TakeSnapshot(s)
  PROVE  ScopeInv'
<1>1. PICK xmin \in Unseen :
        /\ \A y \in Unseen : xmin <= y
        /\ Proceed(s, [at |-> "snapshot", seen |-> Committed, cutoff |-> xmin, saw |-> cache])
  BY DEF TakeSnapshot
<1>2. Ended(xmin) /\ xmin \in 1..MaxXid + 1 /\ \A c \in Nat : Ended(c) => c <= xmin
  BY <1>1, XminIsLatest DEF ScopeInv
<1>3. UNCHANGED <<next, tx, rows, cache, lock, boots>> /\ search[s].at = "idle"
  BY DEF TakeSnapshot
<1>4. ScopeTypeOK'
  BY <1>1, <1>2, <1>3, ScopeAssumption DEF ScopeInv, ScopeTypeOK, Proceed, Committed
<1>5. /\ Builds(s)' /\ ~Reads(s)' /\ search'[s].seen = Committed
      /\ search'[s].cutoff = xmin /\ search'[s].saw = cache
      /\ \A t \in Search \ {s} : search'[t] = search[t]
  BY <1>1 DEF ScopeInv, ScopeTypeOK, Proceed, Builds, Reads
<1>6. cache.cutoff \in Nat /\ cache.sources \in SUBSET Source
      /\ \A t \in Search : search[t].cutoff \in Nat
  BY ScopeAssumption DEF ScopeInv, ScopeTypeOK, Scope
<1>7. XidsInOrder' /\ CutoffsEnded'
  BY <1>2, <1>3, <1>5, <1>6, StoreRests DEF ScopeInv, CutoffsEnded, Builds, Reads
<1>8. SnapshotsTrue'
  BY <1>3, <1>5, StoreRests DEF ScopeInv, SnapshotsTrue, Builds
<1>9. BuildsMoveOn'
  <2>1. cache.built => cache.cutoff <= xmin
    BY <1>2, <1>6 DEF ScopeInv, CutoffsEnded
  <2>2. \A t \in Search : Reads(t) => search[t].cutoff <= xmin
    BY <1>2, <1>6 DEF ScopeInv, CutoffsEnded
  <2> QED
    BY <1>3, <1>5, <2>1, <2>2 DEF ScopeInv, BuildsMoveOn, Builds, Reads
<1>10. ReadsTrail' /\ CacheCovers'
  BY <1>3, <1>5, <1>6, StoreRests DEF ScopeInv, ReadsTrail, CacheCovers, Reads
<1> QED
  BY <1>4, <1>7, <1>8, <1>9, <1>10 DEF ScopeInv

LEMMA TryLockKeepsIInv ==
  ASSUME ScopeInv, NEW s \in Search, TryLock(s)
  PROVE  ScopeInv'
<1>1. CASE lock # NoSearch
  <2>1. Proceed(s, IdleSearch) /\ lock' \in Search \union {NoSearch}
    BY <1>1 DEF TryLock, ScopeInv, ScopeTypeOK
  <2> QED
    BY <2>1, RestKeepsIInv DEF TryLock
<1>2. CASE lock = NoSearch
  <2>1. lock' = s /\ Proceed(s, [search[s] EXCEPT !.at = "build"])
        /\ UNCHANGED <<next, tx, rows, cache, boots>> /\ search[s].at = "snapshot"
    BY <1>2 DEF TryLock
  <2>2. ScopeTypeOK'
    BY <2>1 DEF ScopeInv, ScopeTypeOK, Proceed
  <2>3. \A t \in Search : /\ search'[t].seen = search[t].seen /\ search'[t].cutoff = search[t].cutoff
                          /\ search'[t].saw = search[t].saw
                          /\ Builds(t)' = Builds(t) /\ Reads(t)' = Reads(t)
    BY <2>1 DEF ScopeInv, ScopeTypeOK, Proceed, Builds, Reads
  <2>4. cache.cutoff \in Nat /\ cache.sources \in SUBSET Source
        /\ \A t \in Search : search[t].cutoff \in Nat
    BY ScopeAssumption DEF ScopeInv, ScopeTypeOK, Scope
  <2>5. XidsInOrder' /\ CutoffsEnded'
    BY <2>1, <2>3, <2>4, StoreRests DEF ScopeInv, CutoffsEnded
  <2>6. SnapshotsTrue' /\ BuildsMoveOn' /\ ReadsTrail'
    BY <2>1, <2>3, StoreRests DEF ScopeInv, SnapshotsTrue, BuildsMoveOn, ReadsTrail
  <2>7. CacheCovers'
    BY <2>1, <2>4, StoreRests DEF ScopeInv, CacheCovers
  <2> QED
    BY <2>2, <2>5, <2>6, <2>7 DEF ScopeInv
<1> QED
  BY <1>1, <1>2

LEMMA BuildKeepsScopeInv ==
  ASSUME ScopeInv, NEW s \in Search, Build(s)
  PROVE  ScopeInv'
<1>1. CASE search[s].saw # cache
  <2>1. Proceed(s, IdleSearch) /\ lock' \in Search \union {NoSearch}
    BY <1>1 DEF Build
  <2> QED
    BY <1>1, <2>1, RestKeepsIInv DEF Build
<1>2. CASE search[s].saw = cache
  <2> DEFINE c == search[s].cutoff
  <2>1. /\ cache' = [built |-> TRUE, cutoff |-> c, sources |-> FullScope(search[s].seen)]
        /\ Proceed(s, [IdleSearch EXCEPT !.at = "read", !.cutoff = c])
        /\ UNCHANGED <<next, tx, rows, boots>> /\ lock' = NoSearch /\ Builds(s)
    BY <1>2 DEF Build, CutoffOf, Builds
  <2>2. FullScope(search[s].seen) \in SUBSET Source
    BY DEF FullScope, Admitted, Source
  <2>3. ScopeTypeOK'
    <3>1. c \in 0..MaxXid + 1
      BY DEF ScopeInv, ScopeTypeOK
    <3>2. [IdleSearch EXCEPT !.at = "read", !.cutoff = c] \in SearchState
      BY <3>1, ReadsWellFormed
    <3> QED
      BY <2>1, <2>2, <3>1, <3>2 DEF ScopeInv, ScopeTypeOK, Scope, Proceed, SearchState
  <2>4. /\ ~Builds(s)' /\ search'[s].cutoff = c
        /\ \A t \in Search \ {s} : search'[t] = search[t]
    BY <2>1 DEF ScopeInv, ScopeTypeOK, Proceed, Builds, IdleSearch
  <2>5. cache.cutoff \in Nat /\ c \in Nat /\ \A t \in Search : search[t].cutoff \in Nat
    BY ScopeAssumption DEF ScopeInv, ScopeTypeOK, Scope
  <2>6. Ended(c)
    BY <2>1 DEF ScopeInv, CutoffsEnded
  <2>7. XidsInOrder' /\ CutoffsEnded'
    BY <2>1, <2>4, <2>5, <2>6, StoreRests DEF ScopeInv, CutoffsEnded, Builds, Reads
  <2>8. SnapshotsTrue'
    BY <2>1, <2>4, StoreRests DEF ScopeInv, SnapshotsTrue, Builds
  <2>9. BuildsMoveOn'
    BY <2>1, <2>4 DEF ScopeInv, BuildsMoveOn, Builds
  <2>10. ReadsTrail'
    <3>1. ASSUME NEW t \in Search, Reads(t)
          PROVE  search[t].cutoff <= c
      <4>1. CASE cache.built
        BY <1>2, <2>1, <2>5, <3>1, <4>1 DEF ScopeInv, ReadsTrail, BuildsMoveOn
      <4>2. CASE ~cache.built
        BY <1>2, <2>1, <3>1, <4>2 DEF ScopeInv, BuildsMoveOn
      <4> QED
        BY <4>1, <4>2
    <3> QED
      BY <2>1, <2>4, <2>5, <3>1 DEF ReadsTrail, Reads
  <2>11. CacheCovers'
    <3>1. Covers(c, FullScope(search[s].seen))
      BY <2>1, SnapshotCovers
    <3> QED
      BY <2>1, <2>2, <2>5, <3>1, StoreRests DEF CacheCovers, Covers
  <2> QED
    BY <2>3, <2>7, <2>8, <2>9, <2>10, <2>11 DEF ScopeInv
<1> QED
  BY <1>1, <1>2

\* A key that is dropped leaves only builds that are to replace it.
LEMMA DropIdleKeepsIInv ==
  ASSUME ScopeInv, DropIdle
  PROVE  ScopeInv'
<1>1. ScopeTypeOK'
  BY ScopeAssumption DEF ScopeInv, ScopeTypeOK, DropIdle, NoScope, Scope
<1>2. ~cache'.built /\ UNCHANGED <<next, tx, rows, search>>
  BY DEF DropIdle, NoScope
<1>3. \A t \in Search : search[t].cutoff \in Nat
  BY ScopeAssumption DEF ScopeInv, ScopeTypeOK
<1>4. XidsInOrder' /\ CutoffsEnded'
  BY <1>2, <1>3, StoreRests DEF ScopeInv, CutoffsEnded, Builds, Reads
<1>5. SnapshotsTrue' /\ ReadsTrail' /\ CacheCovers'
  BY <1>2, StoreRests DEF ScopeInv, SnapshotsTrue, ReadsTrail, CacheCovers, Builds
<1>6. BuildsMoveOn'
  BY <1>2 DEF ScopeInv, BuildsMoveOn, DropIdle, Builds
<1> QED
  BY <1>1, <1>4, <1>5, <1>6 DEF ScopeInv

LEMMA ResetKeepsIInv ==
  ASSUME ScopeInv, ResetScopeCache
  PROVE  ScopeInv'
<1>1. ScopeTypeOK'
  BY ScopeAssumption DEF ScopeInv, ScopeTypeOK, ResetScopeCache, NoScope, Scope, IdleSearch
<1>2. ~cache'.built /\ UNCHANGED <<next, tx, rows>> /\ \A t \in Search : ~Builds(t)' /\ ~Reads(t)'
  BY DEF ResetScopeCache, NoScope, IdleSearch, Builds, Reads
<1>3. XidsInOrder'
  BY <1>2, StoreRests DEF ScopeInv
<1> QED
  BY <1>1, <1>2, <1>3
     DEF ScopeInv, CutoffsEnded, SnapshotsTrue, BuildsMoveOn, ReadsTrail, CacheCovers

LEMMA StepKeepsScopeInv ==
  ASSUME ScopeInv, [ScopeNext]_scvars
  PROVE  ScopeInv'
<1>1. CASE Writes
  BY <1>1, WritesKeepIInv
<1>2. ASSUME NEW s \in Search, Read(s) \/ GiveUp(s)
      PROVE  ScopeInv'
  <2>1. lock' \in Search \union {NoSearch}
    BY <1>2 DEF ScopeInv, ScopeTypeOK, Read, GiveUp
  <2> QED
    BY <1>2, <2>1, RestKeepsIInv DEF Read, GiveUp
<1>3. ASSUME NEW s \in Search, Hit(s) \/ TakeSnapshot(s) \/ TryLock(s) \/ Build(s)
      PROVE  ScopeInv'
  BY <1>3, HitKeepsIInv, TakeSnapshotKeepsIInv, TryLockKeepsIInv, BuildKeepsScopeInv
<1>4. CASE DropIdle \/ ResetScopeCache
  BY <1>4, DropIdleKeepsIInv, ResetKeepsIInv
<1>5. CASE UNCHANGED scvars
  BY <1>5 DEF scvars, ScopeInv, ScopeTypeOK, XidsInOrder, CutoffsEnded, SnapshotsTrue, BuildsMoveOn,
     ReadsTrail, CacheCovers, Ended, Builds, Reads, Covers, Early, Visible, Committed
<1> QED
  BY <1>1, <1>2, <1>3, <1>4, <1>5 DEF ScopeNext, Writes

-----------------------------------------------------------------------------
\* The cache, its log and the searches stay well formed.
THEOREM ScopeTypeCorrect == ScopeSpec => []ScopeTypeOK
<1>1. ScopeInit => ScopeInv
  BY InitScopeInv
<1>2. ScopeInv /\ [ScopeNext]_scvars => ScopeInv'
  BY StepKeepsScopeInv
<1>3. ScopeInv => ScopeTypeOK
  BY DEF ScopeInv
<1> QED
  BY <1>1, <1>2, <1>3, PTL DEF ScopeSpec

\* "Never missing a source is the whole contract" (scope_cache.rs).
THEOREM NeverMisses == ScopeSpec => []NeverMissing
<1>1. ScopeInit => ScopeInv
  BY InitScopeInv
<1>2. ScopeInv /\ [ScopeNext]_scvars => ScopeInv'
  BY StepKeepsScopeInv
<1>3. ScopeInv => NeverMissing
  BY IInvFinds
<1> QED
  BY <1>1, <1>2, <1>3, PTL DEF ScopeSpec

-----------------------------------------------------------------------------
(***************************************************************************)
(* Proof that exact search never ranks on a copy that is missing or of an    *)
(* older vector, for any keys, values and batch and any number of writers,   *)
(* fills and checks: a fill may hold a copy of what a writer has replaced    *)
(* only where the writer's trigger waits for it.                             *)
(***************************************************************************)

WriterType == [at : {"idle", "trigger", "commit", "bare"}, value : Value \union {NoValue}]

BuildType == [at : {"idle", "bound", "begin", "insert", "count", "mark"}, after : 0..Vectors,
              upto : 0..Vectors, seen : Stores, todo : SUBSET Place, filled : SUBSET Place]

Shapes ==
  /\ vectors \in Stores /\ copies \in Stores /\ ready \in BOOLEAN
  /\ writer \in [Place -> WriterType] /\ build \in BuildType
  /\ guard \in {"idle", "count", "clear"} /\ around \subseteq Place

\* A copy that stands beside its vector is of it.
CopiesAreCurrent ==
  \A k \in Place \ around :
    copies[k] # NoValue /\ vectors[k] # NoValue => copies[k] = vectors[k]

\* What a fill has put in, and what it would, is of the vector as it is.
FillIsCurrent ==
  \A k \in Place \ around :
    vectors[k] # NoValue /\ (k \in build.filled \/ (k \in build.todo /\ copies[k] = NoValue))
      => build.seen[k] = vectors[k]

\* A writer that stores a vector does not pass its trigger while a fill has the
\* key in hand, nor a fill the key of one that has; one that took no copy with
\* it removes the vector.
WriterOrFill ==
  \A k \in Place :
    /\ k \in build.filled => ~(writer[k].at = "commit" /\ writer[k].value # NoValue)
    /\ writer[k].at = "bare" => writer[k].value = NoValue

\* Once a fill has counted, every vector has its copy.
MarkMeansCovered ==
  ready \/ build.at = "mark" =>
    \A k \in Place \ around : vectors[k] # NoValue => copies[k] # NoValue

ExactInv == Shapes /\ CopiesAreCurrent /\ FillIsCurrent /\ WriterOrFill /\ MarkMeansCovered

-----------------------------------------------------------------------------

LEMMA NoneIsStores == None \in Stores
BY DEF None, Stores

LEMMA NoBuildHasType ==
  /\ NoBuild \in BuildType
  /\ NoBuild.filled = {} /\ NoBuild.todo = {} /\ NoBuild.at = "idle"
BY NoneIsStores, ExactAssumption DEF NoBuild, BuildType

\* A fill between its statements holds nothing.
LEMMA EmptyHanded ==
  ASSUME NEW at \in {"idle", "bound", "begin", "insert", "count", "mark"}
  PROVE  /\ [NoBuild EXCEPT !.at = at] \in BuildType
         /\ [NoBuild EXCEPT !.at = at].at = at
         /\ [NoBuild EXCEPT !.at = at].filled = {} /\ [NoBuild EXCEPT !.at = at].todo = {}
BY NoBuildHasType DEF NoBuild, BuildType

LEMMA InitExactInv ==
  ASSUME ExactInit
  PROVE  ExactInv
<1>1. Shapes
  BY NoneIsStores, NoBuildHasType DEF ExactInit, Shapes, NoWriter, WriterType
<1>2. copies = [k \in Place |-> NoValue] /\ \A k \in Place : writer[k].at = "idle"
  BY DEF ExactInit, None, NoWriter
<1> QED
  BY <1>1, <1>2, NoBuildHasType
  DEF ExactInit, ExactInv, CopiesAreCurrent, FillIsCurrent, WriterOrFill, MarkMeansCovered

\* A fill that lets go of its keys, and does not come to mark.
LEMMA FillLetsGo ==
  ASSUME ExactInv, build' \in BuildType, build'.filled = {}, build'.todo = {},
         build'.at = "mark" => build.at = "mark",
         UNCHANGED <<vectors, copies, ready, writer, guard, around>>
  PROVE  ExactInv'
BY DEF ExactInv, Shapes, CopiesAreCurrent, FillIsCurrent, WriterOrFill, MarkMeansCovered

-----------------------------------------------------------------------------
(* The writers.                                                            *)

LEMMA PutVectorKeepsIInv ==
  ASSUME ExactInv, NEW k \in Place, PutVector(k)
  PROVE  ExactInv'
<1>1. PICK v \in Value \union {NoValue} :
        writer' = [writer EXCEPT ![k] = [at |-> "trigger", value |-> v]]
  BY DEF PutVector
<1>2. /\ \A j \in Place : writer'[j].at \in {"commit", "bare"} => writer'[j] = writer[j]
      /\ writer' \in [Place -> WriterType]
  BY <1>1 DEF ExactInv, Shapes, WriterType
<1> QED
  BY <1>2 DEF PutVector, ExactInv, Shapes, CopiesAreCurrent, FillIsCurrent, WriterOrFill,
              MarkMeansCovered

LEMMA TriggerFiresKeepsIInv ==
  ASSUME ExactInv, NEW k \in Place, TriggerFires(k)
  PROVE  ExactInv'
<1>1. /\ writer' \in [Place -> WriterType]
      /\ \A j \in Place : j # k => writer'[j] = writer[j]
      /\ writer'[k].value = writer[k].value
      /\ writer'[k].at = "bare" => writer[k].value = NoValue
  BY DEF TriggerFires, ExactInv, Shapes, WriterType
<1>2. WriterOrFill'
  BY <1>1 DEF TriggerFires, ExactInv, WriterOrFill
<1> QED
  BY <1>1, <1>2 DEF TriggerFires, ExactInv, Shapes, CopiesAreCurrent, FillIsCurrent, MarkMeansCovered

\* The copy goes with its vector; and a fill that has the key in hand meets
\* only the removal of the vector.
LEMMA CommitVectorKeepsIInv ==
  ASSUME ExactInv, NEW k \in Place, CommitVector(k)
  PROVE  ExactInv'
<1>1. /\ writer[k] \in WriterType /\ writer[k].value \in Value \union {NoValue}
      /\ NoWriter \in WriterType /\ NoWriter.at = "idle"
  BY DEF ExactInv, Shapes, WriterType, NoWriter
<1>2. /\ vectors' \in Stores /\ copies' \in Stores /\ writer' \in [Place -> WriterType]
      /\ vectors'[k] = writer[k].value /\ writer'[k] = NoWriter
      /\ vectors'[k] # NoValue => copies'[k] = vectors'[k]
      /\ \A j \in Place \ {k} :
            vectors'[j] = vectors[j] /\ copies'[j] = copies[j] /\ writer'[j] = writer[j]
  BY <1>1 DEF CommitVector, Copied, ExactInv, Shapes, Stores, WriterOrFill
<1>3. /\ around' \subseteq Place /\ Place \ around' = (Place \ around) \union {k}
      /\ UNCHANGED <<ready, build, guard>>
  BY DEF CommitVector, ExactInv, Shapes
<1>4. Shapes'
  BY <1>2, <1>3 DEF ExactInv, Shapes
<1>5. CopiesAreCurrent' /\ MarkMeansCovered'
  BY <1>2, <1>3 DEF ExactInv, CopiesAreCurrent, MarkMeansCovered
<1>6. WriterOrFill'
  BY <1>1, <1>2, <1>3 DEF ExactInv, WriterOrFill
<1>7. FillIsCurrent'
  <2>1. k \in build.filled => vectors'[k] = NoValue
    BY <1>2 DEF CommitVector, ExactInv, WriterOrFill
  <2> QED
    BY <1>2, <1>3, <2>1 DEF ExactInv, FillIsCurrent
<1> QED
  BY <1>4, <1>5, <1>6, <1>7 DEF ExactInv

LEMMA AbortVectorKeepsIInv ==
  ASSUME ExactInv, NEW k \in Place, AbortVector(k)
  PROVE  ExactInv'
<1>1. /\ \A j \in Place : writer'[j].at \in {"commit", "bare"} => writer'[j] = writer[j]
      /\ writer' \in [Place -> WriterType]
  BY DEF AbortVector, ExactInv, Shapes, WriterType, NoWriter
<1> QED
  BY <1>1 DEF AbortVector, ExactInv, Shapes, CopiesAreCurrent, FillIsCurrent, WriterOrFill,
              MarkMeansCovered

\* Nothing is claimed of the key any more.
LEMMA WriteAroundKeepsIInv ==
  ASSUME ExactInv, NEW k \in Place, WriteAround(k)
  PROVE  ExactInv'
<1>1. /\ vectors' \in Stores /\ copies' \in Stores
      /\ \A j \in Place \ {k} : vectors'[j] = vectors[j] /\ copies'[j] = copies[j]
  BY DEF WriteAround, ExactInv, Shapes, Stores
<1>2. around' \subseteq Place /\ Place \ around' \subseteq (Place \ around) \ {k}
  BY DEF WriteAround, ExactInv, Shapes
<1> QED
  BY <1>1, <1>2 DEF WriteAround, ExactInv, Shapes, CopiesAreCurrent, FillIsCurrent, WriterOrFill,
                    MarkMeansCovered

-----------------------------------------------------------------------------
(* The fill.                                                               *)

LEMMA BoundHasType == Bound \in 0..Vectors
<1> DEFINE ends == {k \in Ahead : Cardinality({j \in Ahead : j <= k}) = Batch}
<1>1. ends \subseteq 0..Vectors
  BY ExactAssumption DEF Ahead, Place
<1>2. 0 \in 0..Vectors
  BY ExactAssumption
<1>3. ends # {} => (CHOOSE k \in ends : TRUE) \in ends
  OBVIOUS
<1>4. Bound = IF ends = {} THEN 0 ELSE CHOOSE k \in ends : TRUE
  BY DEF Bound
<1> HIDE DEF ends
<1> QED
  BY <1>1, <1>2, <1>3, <1>4

\* The end of the next batch, and nothing else.
LEMMA ReadBoundKeepsIInv ==
  ASSUME ExactInv, ReadBound
  PROVE  ExactInv'
<1>1. /\ build' \in BuildType /\ build'.at = "begin"
      /\ build'.seen = build.seen /\ build'.todo = build.todo /\ build'.filled = build.filled
  BY BoundHasType DEF ReadBound, ExactInv, Shapes, BuildType
<1> QED
  BY <1>1 DEF ReadBound, ExactInv, Shapes, CopiesAreCurrent, FillIsCurrent, WriterOrFill,
              MarkMeansCovered

\* What the statement sees is the vectors as they are.
LEMMA BeginBatchKeepsIInv ==
  ASSUME ExactInv, BeginBatch
  PROVE  ExactInv'
<1> DEFINE batch == {k \in Ahead : build.upto = 0 \/ k <= build.upto}
<1>1. batch \in SUBSET Place
  BY DEF Ahead
<1> HIDE DEF batch
<1>2. build' = [build EXCEPT !.at = "insert", !.seen = vectors, !.todo = batch]
  BY DEF BeginBatch, batch
<1>3. /\ build' \in BuildType /\ build'.at = "insert"
      /\ build'.seen = vectors /\ build'.filled = build.filled
  BY <1>1, <1>2 DEF ExactInv, Shapes, BuildType
<1> QED
  BY <1>3 DEF BeginBatch, ExactInv, Shapes, CopiesAreCurrent, FillIsCurrent, WriterOrFill,
              MarkMeansCovered

\* A key is filled only where no copy is and no writer is past its trigger.
LEMMA FillOneKeepsIInv ==
  ASSUME ExactInv, NEW k \in Place, FillOne(k)
  PROVE  ExactInv'
<1> DEFINE fills == IF copies[k] # NoValue THEN build.filled ELSE build.filled \union {k}
<1>1. build' = [build EXCEPT !.todo = @ \ {k}, !.filled = fills]
  BY DEF FillOne, HasCopy
<1>2. /\ build.todo \in SUBSET Place /\ fills \in SUBSET Place
  BY DEF ExactInv, Shapes, BuildType
<1>3. /\ build' \in BuildType /\ build'.at = build.at /\ build'.seen = build.seen
      /\ build'.todo = build.todo \ {k} /\ build'.filled = fills
  BY <1>1, <1>2 DEF ExactInv, Shapes, BuildType
<1>4. FillIsCurrent'
  BY <1>3 DEF FillOne, ExactInv, FillIsCurrent
<1>5. WriterOrFill'
  BY <1>3 DEF FillOne, InHand, ExactInv, WriterOrFill
<1> QED
  BY <1>3, <1>4, <1>5 DEF FillOne, ExactInv, Shapes, CopiesAreCurrent, MarkMeansCovered

LEMMA CommitBatchKeepsIInv ==
  ASSUME ExactInv, CommitBatch
  PROVE  ExactInv'
<1>1. /\ copies' \in Stores
      /\ \A k \in Place : copies'[k] = IF k \in build.filled THEN build.seen[k] ELSE copies[k]
  BY DEF CommitBatch, ExactInv, Shapes, BuildType, Stores
<1>2. /\ build' \in BuildType /\ build'.filled = {} /\ build'.todo = {} /\ build'.at # "mark"
  BY NoBuildHasType DEF CommitBatch, ExactInv, Shapes, BuildType, NoBuild
<1>3. CopiesAreCurrent' /\ MarkMeansCovered'
  BY <1>1, <1>2 DEF CommitBatch, ExactInv, CopiesAreCurrent, FillIsCurrent, MarkMeansCovered
<1> QED
  BY <1>1, <1>2, <1>3 DEF CommitBatch, ExactInv, Shapes, FillIsCurrent, WriterOrFill

\* The count is of both tables as they are.
LEMMA CountBuildKeepsIInv ==
  ASSUME ExactInv, CountBuild
  PROVE  ExactInv'
<1>1. CASE AllCopied
  <2>1. /\ build' \in BuildType /\ build'.filled = {} /\ build'.todo = {}
    BY <1>1, EmptyHanded DEF CountBuild
  <2>2. MarkMeansCovered'
    BY <1>1 DEF CountBuild, MarkMeansCovered, AllCopied
  <2> QED
    BY <2>1, <2>2 DEF CountBuild, ExactInv, Shapes, CopiesAreCurrent, FillIsCurrent, WriterOrFill
<1>2. CASE ~AllCopied
  BY <1>2, NoBuildHasType, FillLetsGo DEF CountBuild
<1> QED
  BY <1>1, <1>2

LEMMA MarkReadyKeepsIInv ==
  ASSUME ExactInv, MarkReady
  PROVE  ExactInv'
BY NoBuildHasType DEF MarkReady, ExactInv, Shapes, CopiesAreCurrent, FillIsCurrent, WriterOrFill,
                      MarkMeansCovered

LEMMA BuildKeepsExactInv ==
  ASSUME ExactInv, BeginBuild \/ BuildSteps \/ BuildFails
  PROVE  ExactInv'
<1>1. CASE BeginBuild
  BY <1>1, EmptyHanded, FillLetsGo DEF BeginBuild
<1>2. CASE BuildFails
  BY <1>2, NoBuildHasType, FillLetsGo DEF BuildFails
<1> QED
  BY <1>1, <1>2, ReadBoundKeepsIInv, BeginBatchKeepsIInv, FillOneKeepsIInv, CommitBatchKeepsIInv,
     CountBuildKeepsIInv, MarkReadyKeepsIInv DEF BuildSteps

-----------------------------------------------------------------------------
(* The check, which can only clear the mark.                                *)

LEMMA GuardKeepsIInv ==
  ASSUME ExactInv, ReadMark \/ CountGuard \/ ClearMark
  PROVE  ExactInv'
<1>1. /\ UNCHANGED <<vectors, copies, writer, build, around>>
      /\ UNCHANGED ready \/ ready' = FALSE
  BY DEF ReadMark, CountGuard, ClearMark
<1>2. Shapes'
  <2>1. guard' \in {"idle", "count", "clear"}
    BY DEF ReadMark, CountGuard, ClearMark
  <2>2. ready' \in BOOLEAN
    BY <1>1 DEF ExactInv, Shapes
  <2> QED
    BY <1>1, <2>1, <2>2 DEF ExactInv, Shapes
<1>3. ready' => ready
  BY <1>1
<1>4. MarkMeansCovered'
  BY <1>1, <1>3 DEF ExactInv, MarkMeansCovered
<1> QED
  BY <1>1, <1>2, <1>4 DEF ExactInv, CopiesAreCurrent, FillIsCurrent, WriterOrFill

-----------------------------------------------------------------------------

LEMMA StutterKeepsIInv ==
  ASSUME ExactInv, UNCHANGED xvars
  PROVE  ExactInv'
BY DEF xvars, ExactInv, Shapes, CopiesAreCurrent, FillIsCurrent, WriterOrFill, MarkMeansCovered

LEMMA StepKeepsExactInv ==
  ASSUME ExactInv, [ExactNext]_xvars
  PROVE  ExactInv'
<1>1. CASE \E k \in Place : \/ PutVector(k) \/ TriggerFires(k) \/ CommitVector(k)
                            \/ AbortVector(k) \/ WriteAround(k)
  BY <1>1, PutVectorKeepsIInv, TriggerFiresKeepsIInv, CommitVectorKeepsIInv,
     AbortVectorKeepsIInv, WriteAroundKeepsIInv
<1>2. CASE BeginBuild \/ BuildSteps \/ BuildFails
  BY <1>2, BuildKeepsExactInv
<1>3. CASE ReadMark \/ CountGuard \/ ClearMark
  BY <1>3, GuardKeepsIInv
<1>4. CASE UNCHANGED xvars
  BY <1>4, StutterKeepsIInv
<1> QED
  BY <1>1, <1>2, <1>3, <1>4 DEF ExactNext

\* The invariant of the proof: beside the shapes of the variables, that no copy
\* is of an older vector, that none in a fill's hand is, why (a writer and a fill
\* never hold one key), and that the mark is set after a full count.
THEOREM ExactInvariance ==
  ASSUME ExactAssumption
  PROVE  ExactSpec => []ExactInv
<1>1. ExactInit => ExactInv
  BY InitExactInv
<1>2. ExactInv /\ [ExactNext]_xvars => ExactInv'
  BY StepKeepsExactInv
<1> QED
  BY <1>1, <1>2, PTL DEF ExactSpec

\* A fill holds keys inside its INSERT only, and none that it has yet to look at.
HandsApart ==
  /\ build.todo \intersect build.filled = {}
  /\ build.at # "insert" => build.filled = {}

Tried == tries \in [writes : 0..MaxWrites, around : 0..MaxAround, builds : 0..MaxBuilds]

LEMMA StepKeepsHands ==
  ASSUME ExactInv, HandsApart, [ExactNext]_xvars
  PROVE  HandsApart'
<1>1. build \in BuildType /\ NoBuild.filled = {} /\ NoBuild.todo = {}
  BY NoBuildHasType DEF ExactInv, Shapes
<1>2. CASE UNCHANGED build
  BY <1>2 DEF HandsApart
<1>3. CASE build'.filled = {}
  BY <1>3 DEF HandsApart
<1>4. CASE ReadBound
  BY <1>1, <1>4 DEF ReadBound, HandsApart, BuildType
<1>5. CASE BeginBatch
  <2>1. build'.filled = build.filled /\ build.filled = {}
    BY <1>1, <1>5 DEF BeginBatch, HandsApart, BuildType
  <2> QED BY <1>3, <2>1
<1>6. ASSUME NEW k \in Place, FillOne(k)
      PROVE  HandsApart'
  <2> DEFINE fills == IF copies[k] # NoValue THEN build.filled ELSE build.filled \union {k}
  <2>1. build' = [build EXCEPT !.todo = @ \ {k}, !.filled = fills] /\ build.at = "insert"
    BY <1>6 DEF FillOne, HasCopy
  <2>2. build'.at = "insert" /\ build'.todo = build.todo \ {k} /\ build'.filled = fills
    BY <1>1, <2>1 DEF BuildType
  <2> QED BY <2>2 DEF HandsApart
<1>7. CASE BeginBuild \/ CommitBatch \/ CountBuild \/ MarkReady \/ BuildFails
  <2>1. build'.filled = {}
    BY <1>1, <1>7, EmptyHanded DEF BeginBuild, CommitBatch, CountBuild, MarkReady, BuildFails, NoBuild
  <2> QED BY <1>3, <2>1
<1>8. CASE \/ \E k \in Place : PutVector(k) \/ TriggerFires(k) \/ CommitVector(k) \/ AbortVector(k)
                              \/ WriteAround(k)
           \/ ReadMark \/ CountGuard \/ ClearMark \/ UNCHANGED xvars
  BY <1>2, <1>8 DEF PutVector, TriggerFires, CommitVector, AbortVector, WriteAround, ReadMark,
     CountGuard, ClearMark, xvars
<1> QED BY <1>4, <1>5, <1>6, <1>7, <1>8 DEF ExactNext, BuildSteps

LEMMA StepKeepsTries ==
  ASSUME Tried, [ExactNext]_xvars
  PROVE  Tried'
<1> USE ExactAssumption
<1>1. CASE UNCHANGED tries
  BY <1>1 DEF Tried
<1>2. CASE Try("writes", MaxWrites)
  BY <1>2 DEF Try, Tried
<1>3. CASE Try("around", MaxAround)
  BY <1>3 DEF Try, Tried
<1>4. CASE Try("builds", MaxBuilds)
  BY <1>4 DEF Try, Tried
<1>5. \/ UNCHANGED tries \/ Try("writes", MaxWrites) \/ Try("around", MaxAround)
      \/ Try("builds", MaxBuilds)
  BY DEF ExactNext, BuildSteps, PutVector, TriggerFires, CommitVector, AbortVector, WriteAround,
         BeginBuild, ReadBound, BeginBatch, CommitBatch, CountBuild, MarkReady, FillOne, BuildFails,
         ReadMark, CountGuard, ClearMark, xvars
<1> QED BY <1>1, <1>2, <1>3, <1>4, <1>5

LEMMA ExactTyped ==
  ASSUME ExactInv, HandsApart, Tried
  PROVE  ExactTypeOK
BY DEF ExactInv, Shapes, HandsApart, Tried, ExactTypeOK, WriterType, BuildType

LEMMA InitExactHands ==
  ASSUME ExactInit
  PROVE  HandsApart /\ Tried
BY NoBuildHasType, ExactAssumption DEF ExactInit, HandsApart, Tried

\* The vectors, their copies, the writers, the fill and the check stay well
\* formed: a fill holds no key that it has still to look at.
THEOREM ExactTypeCorrect == ExactSpec => []ExactTypeOK
<1>1. ExactInit => ExactInv /\ HandsApart /\ Tried
  BY InitExactInv, InitExactHands
<1>2. ExactInv /\ HandsApart /\ Tried /\ [ExactNext]_xvars => (ExactInv /\ HandsApart /\ Tried)'
  BY StepKeepsExactInv, StepKeepsHands, StepKeepsTries
<1>3. ExactInv /\ HandsApart /\ Tried => ExactTypeOK
  BY ExactTyped
<1> QED
  BY <1>1, <1>2, <1>3, PTL DEF ExactSpec

\* While the copy is marked ready, every vector written through the triggers has
\* a copy, and it is of the vector as it is now (migration 0033, exact_index.rs).
THEOREM SearchRanksOnVectors ==
  ASSUME ExactAssumption
  PROVE  ExactSpec => []CompactIsExact
<1>1. ExactInv => CompactIsExact
  BY DEF ExactInv, CopiesAreCurrent, MarkMeansCovered, CompactIsExact
<1> QED
  BY <1>1, ExactInvariance, PTL

-----------------------------------------------------------------------------
(***************************************************************************)
(* Proof that the worktree supervisor removes no root on one absence, for   *)
(* any paths, clones and changes of the world and any number of failed      *)
(* passes and restarts: a count that has begun means that the last pass to  *)
(* tell anything of the path found it absent.                               *)
(***************************************************************************)

SawType == {<<>>} \union {<<what>> : what \in Sight} \union (Sight \X Sight)

SweepType == [at : {"rest", "listed", "apply"}, listed : SUBSET Path,
              register : SUBSET Path, remove : SUBSET Path]

\* A count that has begun: no pass saw the path there, or failed on it, since.
CountsAreAbsences ==
  \A p \in Path : missing[p] # 0 => said[p] # <<>> /\ said[p][1] = "absent"

WorktreesInv == WorktreesTypeOK /\ CountsAreAbsences /\ AbsentTwice

-----------------------------------------------------------------------------

LEMMA FirstPathIsPath == Head(Paths) \in Path
<1>1. Paths \in Seq(DOMAIN Identity) /\ Paths # <<>>
  BY WorktreesAssumption
<1>2. Head(Paths) = Paths[1] /\ 1 \in DOMAIN Paths
  BY <1>1
<1> QED
  BY <1>2 DEF Path

\* What is said of a path is remembered, before what was said last.
LEMMA SawRemembers ==
  ASSUME WorktreesTypeOK, NEW p \in Path, NEW what \in Sight
  PROVE  /\ Saw(p, what) \in SawType /\ Saw(p, what) # <<>> /\ Saw(p, what)[1] = what
         /\ said[p] # <<>> => Saw(p, what) = <<what, said[p][1]>>
<1>1. CASE said[p] = <<>>
  BY <1>1 DEF Saw, SawType
<1>2. CASE said[p] # <<>>
  <2>1. said[p] \in {<<what_>> : what_ \in Sight} \union (Sight \X Sight)
    BY <1>2 DEF WorktreesTypeOK, SawType
  <2>2. said[p][1] \in Sight
    BY <2>1
  <2>3. Saw(p, what) = <<what, said[p][1]>>
    BY <1>2 DEF Saw
  <2> QED
    BY <1>2, <2>2, <2>3 DEF SawType
<1> QED
  BY <1>1, <1>2

\* The end of a pass plans nothing.
LEMMA AtRestHasType ==
  /\ AtRest \in SweepType
  /\ AtRest.remove = {} /\ AtRest.listed = {} /\ AtRest.register = {}
BY DEF AtRest, SweepType

LEMMA InitWorktreesInv ==
  ASSUME WorktreesInit
  PROVE  WorktreesInv
<1>1. WorktreesTypeOK
  <2>1. roots \subseteq Path /\ disk \subseteq Path /\ linked \subseteq Path
    BY FirstPathIsPath DEF WorktreesInit, Checkout
  <2>2. missing \in [Path -> 0..2] /\ said \in [Path -> SawType]
    BY DEF WorktreesInit, SawType
  <2>3. sweep \in SweepType
    BY AtRestHasType DEF WorktreesInit
  <2>4. changes \in 0..MaxChanges /\ faults \in 0..MaxFailedPasses /\ reboots \in 0..MaxReboots
    BY WorktreesAssumption DEF WorktreesInit
  <2> QED
    BY <2>1, <2>2, <2>3, <2>4 DEF WorktreesTypeOK, SawType, SweepType
<1> QED
  BY <1>1 DEF WorktreesInit, WorktreesInv, CountsAreAbsences, AbsentTwice, AtRest

\* Steps that leave the counts and what was said alone, and remove no more
\* than was planned.
LEMMA CountsKept ==
  ASSUME WorktreesInv, WorktreesTypeOK', UNCHANGED <<missing, said>>, sweep'.remove \subseteq sweep.remove
  PROVE  WorktreesInv'
BY DEF WorktreesInv, CountsAreAbsences, AbsentTwice

LEMMA CheckFailsKeepsIInv ==
  ASSUME WorktreesInv, NEW p \in Path, CheckFails(p)
  PROVE  WorktreesInv'
<1> DEFINE seen == {q \in sweep.listed : Before(q, p)}
<1>1. /\ roots' = roots /\ sweep' = AtRest
      /\ missing' = [q \in Path |->
           IF q = p THEN UnknownBreaks(missing[q])
           ELSE IF q \in seen THEN IF q \in disk THEN 0 ELSE Absences(missing[q])
           ELSE missing[q]]
      /\ said' = [q \in Path |->
           IF q = p THEN Saw(q, "unknown")
           ELSE IF q \in seen THEN Saw(q, IF q \in disk THEN "there" ELSE "absent")
           ELSE said[q]]
  BY DEF CheckFails, EndPass
<1>2. ASSUME NEW q \in Path
      PROVE  /\ missing'[q] \in 0..2 /\ said'[q] \in SawType
             /\ missing'[q] # 0 => said'[q] # <<>> /\ said'[q][1] = "absent"
  <2>1. missing[q] \in 0..2
    BY DEF WorktreesInv, WorktreesTypeOK
  <2>2. CASE q = p
    <3>1. missing'[q] = 0
      BY <1>1, <2>2 DEF UnknownBreaks
    <3>2. said'[q] \in SawType
      BY <1>1, <2>2, SawRemembers DEF WorktreesInv, Sight
    <3> QED
      BY <3>1, <3>2
  <2>3. CASE q # p /\ q \in seen /\ q \in disk
    BY <1>1, <2>3, SawRemembers DEF WorktreesInv, Sight
  <2>4. CASE q # p /\ q \in seen /\ q \notin disk
    <3>1. missing'[q] \in 0..2
      BY <1>1, <2>1, <2>4 DEF Absences
    <3>2. said'[q] = Saw(q, "absent")
      BY <1>1, <2>4
    <3> QED
      BY <3>1, <3>2, SawRemembers DEF WorktreesInv, Sight
  <2>5. CASE q # p /\ q \notin seen
    <3>1. missing'[q] = missing[q] /\ said'[q] = said[q]
      BY <1>1, <2>5
    <3> QED
      BY <2>1, <3>1 DEF WorktreesInv, CountsAreAbsences, WorktreesTypeOK, SawType
  <2> QED
    BY <2>2, <2>3, <2>4, <2>5
<1>3. WorktreesTypeOK'
  <2>1. missing' \in [Path -> 0..2] /\ said' \in [Path -> SawType]
    BY <1>1, <1>2
  <2>2. sweep' \in SweepType /\ faults' \in 0..MaxFailedPasses
    BY <1>1, AtRestHasType, WorktreesAssumption DEF CheckFails, Fault, WorktreesInv, WorktreesTypeOK
  <2>3. UNCHANGED <<disk, linked, roots, changes, reboots>>
    BY DEF CheckFails
  <2> QED
    BY <2>1, <2>2, <2>3 DEF WorktreesInv, WorktreesTypeOK, SawType, SweepType
<1> QED
  BY <1>1, <1>2, <1>3, AtRestHasType DEF WorktreesInv, CountsAreAbsences, AbsentTwice

LEMMA PlanKeepsIInv ==
  ASSUME WorktreesInv, Plan
  PROVE  WorktreesInv'
<1>1. /\ roots' = roots /\ missing' = Counted
      /\ said' = [p \in Path |->
           IF p \in sweep.listed THEN Saw(p, IF p \in disk THEN "there" ELSE "absent")
           ELSE <<>>]
      /\ \/ sweep' = [sweep EXCEPT !.at = "apply", !.register = Appeared,
                                 !.remove = {p \in sweep.listed \ disk : Counted[p] = 2}]
         \/ sweep' = AtRest
  BY DEF Plan, EndPass
<1>2. ASSUME NEW p \in Path
      PROVE  /\ missing'[p] \in 0..2 /\ said'[p] \in SawType
             /\ missing'[p] # 0 =>
                  /\ p \in sweep.listed \ disk
                  /\ said'[p] # <<>> /\ said'[p][1] = "absent"
             /\ missing'[p] = 2 => said'[p] = <<"absent", "absent">>
  <2>1. missing[p] \in 0..2
    BY DEF WorktreesInv, WorktreesTypeOK
  <2>2. CASE p \in sweep.listed \ disk
    <3>1. missing'[p] = Absences(missing[p]) /\ said'[p] = Saw(p, "absent")
      BY <1>1, <2>2 DEF Counted
    <3>2. missing'[p] \in 0..2 /\ (missing'[p] = 2 => missing[p] # 0)
      BY <2>1, <3>1 DEF Absences
    <3>3. missing[p] # 0 => said[p] # <<>> /\ said[p][1] = "absent"
      BY DEF WorktreesInv, CountsAreAbsences
    <3> QED
      BY <2>2, <3>1, <3>2, <3>3, SawRemembers DEF WorktreesInv, Sight
  <2>3. CASE p \notin sweep.listed \ disk
    <3>1. missing'[p] = 0
      BY <1>1, <2>3 DEF Counted
    <3>2. said'[p] \in SawType
      <4>1. CASE p \in sweep.listed
        BY <1>1, <2>3, <4>1, SawRemembers DEF WorktreesInv, Sight
      <4>2. CASE p \notin sweep.listed
        BY <1>1, <4>2 DEF SawType
      <4> QED
        BY <4>1, <4>2
    <3> QED
      BY <3>1, <3>2
  <2> QED
    BY <2>2, <2>3
<1>3. WorktreesTypeOK'
  <2>1. missing' \in [Path -> 0..2] /\ said' \in [Path -> SawType]
    BY <1>1, <1>2 DEF Counted
  <2>2. Appeared \subseteq Path /\ {p \in sweep.listed \ disk : Counted[p] = 2} \subseteq Path
    BY DEF Appeared, WorktreesInv, WorktreesTypeOK
  <2>3. sweep' \in SweepType
    BY <1>1, <2>2, AtRestHasType DEF WorktreesInv, WorktreesTypeOK, SweepType
  <2>4. faults' \in 0..MaxFailedPasses
    BY WorktreesAssumption DEF Plan, Fault, WorktreesInv, WorktreesTypeOK
  <2> QED
    BY <1>1, <2>1, <2>3, <2>4 DEF Plan, WorktreesInv, WorktreesTypeOK, SawType, SweepType
<1>4. CountsAreAbsences'
  BY <1>2 DEF CountsAreAbsences
<1>5. AbsentTwice'
  <2>1. ASSUME NEW p \in sweep'.remove
        PROVE  p \in Path /\ missing'[p] = 2
    <3>1. sweep'.remove = {q \in sweep.listed \ disk : Counted[q] = 2} \/ sweep'.remove = {}
      <4>1. sweep \in SweepType
        BY DEF WorktreesInv, WorktreesTypeOK, SweepType
      <4> QED
        BY <1>1, <4>1, AtRestHasType DEF SweepType
    <3> QED
      BY <1>1, <2>1, <3>1 DEF WorktreesInv, WorktreesTypeOK
  <2> QED
    BY <1>2, <2>1 DEF AbsentTwice
<1> QED
  BY <1>3, <1>4, <1>5 DEF WorktreesInv

\* What the world does keeps the types, and reaches neither counts nor plan.
LEMMA WorldKeepsIInv ==
  ASSUME WorktreesInv, WorldChanges
  PROVE  WorktreesInv'
<1>1. /\ UNCHANGED <<missing, sweep, said, faults, reboots>> /\ changes' \in 0..MaxChanges
  BY WorktreesAssumption DEF WorldChanges, World, WorktreesInv, WorktreesTypeOK
<1>2. disk' \subseteq Path /\ linked' \subseteq Path /\ roots' \subseteq Path
  BY DEF WorldChanges, World, Vanish, Return, Link, Unlink, UserAdds, UserRemoves, Within,
         Checkout, WorktreesInv, WorktreesTypeOK
<1> QED
  BY <1>1, <1>2, CountsKept DEF WorktreesInv, WorktreesTypeOK

LEMMA ApplyKeepsIInv ==
  ASSUME WorktreesInv, ListRoots \/ Finish \/ \E p \in Path : RegisterOne(p) \/ RemoveOne(p)
  PROVE  WorktreesInv'
<1>1. CASE ListRoots
  <2>1. sweep' = [AtRest EXCEPT !.at = "listed", !.listed = roots]
    BY <1>1 DEF ListRoots
  <2>2. sweep' \in SweepType /\ sweep'.remove = {}
    BY <2>1, AtRestHasType DEF WorktreesInv, WorktreesTypeOK, SweepType, AtRest
  <2> QED
    BY <1>1, <2>2, CountsKept DEF ListRoots, WorktreesInv, WorktreesTypeOK, SweepType
<1>2. CASE Finish
  BY <1>2, AtRestHasType, CountsKept DEF Finish, EndPass, WorktreesInv, WorktreesTypeOK, SweepType
<1>3. ASSUME NEW p \in Path, RegisterOne(p)
      PROVE  WorktreesInv'
  <2>1. sweep' \in SweepType /\ sweep'.remove \subseteq sweep.remove
    BY <1>3, AtRestHasType DEF RegisterOne, EndPass, WorktreesInv, WorktreesTypeOK, SweepType
  <2>2. roots' \subseteq Path /\ faults' \in 0..MaxFailedPasses
    BY <1>3, WorktreesAssumption DEF RegisterOne, Fault, WorktreesInv, WorktreesTypeOK
  <2> QED
    BY <1>3, <2>1, <2>2, CountsKept DEF RegisterOne, WorktreesInv, WorktreesTypeOK, SweepType
<1>4. ASSUME NEW p \in Path, RemoveOne(p)
      PROVE  WorktreesInv'
  <2>1. sweep' \in SweepType /\ sweep'.remove \subseteq sweep.remove
    BY <1>4, AtRestHasType DEF RemoveOne, EndPass, WorktreesInv, WorktreesTypeOK, SweepType
  <2>2. roots' \subseteq Path /\ faults' \in 0..MaxFailedPasses
    BY <1>4, WorktreesAssumption DEF RemoveOne, Fault, WorktreesInv, WorktreesTypeOK
  <2>3. missing' \in [Path -> 0..2] /\ \A q \in Path : missing'[q] # 0 => missing[q] # 0
    BY <1>4 DEF RemoveOne, WorktreesInv, WorktreesTypeOK
  <2>4. UNCHANGED <<disk, linked, said, changes, reboots>>
    BY <1>4 DEF RemoveOne
  <2> QED
    BY <2>1, <2>2, <2>3, <2>4 DEF WorktreesInv, WorktreesTypeOK, SweepType, CountsAreAbsences, AbsentTwice
<1> QED
  BY <1>1, <1>2, <1>3, <1>4

LEMMA RebootKeepsIInv ==
  ASSUME WorktreesInv, Reboot
  PROVE  WorktreesInv'
<1>1. sweep' = AtRest /\ missing' = [p \in Path |-> 0] /\ said' = [p \in Path |-> <<>>]
  BY DEF Reboot, EndPass
<1>2. reboots' \in 0..MaxReboots
  BY WorktreesAssumption DEF Reboot, WorktreesInv, WorktreesTypeOK
<1> QED
  BY <1>1, <1>2, AtRestHasType
     DEF Reboot, WorktreesInv, WorktreesTypeOK, SweepType, CountsAreAbsences, AbsentTwice

LEMMA NextKeepsWorktreesInv ==
  ASSUME WorktreesInv, [WorktreesNext]_wvars
  PROVE  WorktreesInv'
<1>1. CASE UNCHANGED wvars
  BY <1>1 DEF wvars, WorktreesInv, WorktreesTypeOK, CountsAreAbsences, AbsentTwice
<1> QED
  BY <1>1, WorldKeepsIInv, ApplyKeepsIInv, PlanKeepsIInv, RebootKeepsIInv, CheckFailsKeepsIInv
     DEF WorktreesNext, PassStep

-----------------------------------------------------------------------------
(* The theorems.                                                           *)

\* WorktreesInv holds in every reachable state.
THEOREM WorktreesInvariance == WorktreesSpec => []WorktreesInv
<1>1. WorktreesInit => WorktreesInv
  BY InitWorktreesInv
<1>2. WorktreesInv /\ [WorktreesNext]_wvars => WorktreesInv'
  BY NextKeepsWorktreesInv
<1> QED
  BY <1>1, <1>2, PTL DEF WorktreesSpec

\* Only paths are registered, counted and planned for, and no count passes two.
THEOREM WorktreesTypeCorrect == WorktreesSpec => []WorktreesTypeOK
<1>1. WorktreesInv => WorktreesTypeOK
  BY DEF WorktreesInv
<1> QED
  BY <1>1, WorktreesInvariance, PTL

\* No root is removed on one absence, whatever failed passes and restarts come
\* between two.
THEOREM RemovedOnTwoAbsences == WorktreesSpec => []AbsentTwice
<1>1. WorktreesInv => AbsentTwice
  BY DEF WorktreesInv
<1> QED
  BY <1>1, WorktreesInvariance, PTL

(***************************************************************************)
(* Proofs about the debouncer, for any directories, roots, window, ceiling  *)
(* and cadence, and with no bound on the events or on the roots that come   *)
(* and go.                                                                  *)
(*                                                                         *)
(* What a root is owed for a directory is in the inbox, sent since the last *)
(* pass, or pending under an entry that is no younger and that the last     *)
(* pass left because it had not reached the ceiling.  A pass follows the    *)
(* last one within a cadence; so what is owed is younger than a ceiling and *)
(* a cadence.  The pass covers every directory it settles: the topmost      *)
(* settled one above it is re-listed, for the only root there is.           *)
(***************************************************************************)

\* No second root is above the directory.
Lone(d) == \A r, s \in Roots(d) : r = s

Event == [root : Root, dir : Dir, at : Time]
Entries(watched) == [root : watched, first : Time, last : Time] \union {NoEntry}

\* An entry is of a root above its directory and has not reached the ceiling.
EntriesYoung ==
  \A d \in Dir : quiet[d] # NoEntry =>
    /\ quiet[d].root \in Roots(d)
    /\ quiet[d].first <= passed
    /\ passed < quiet[d].first + MaxAge

\* The inbox holds what the watchers sent since the last pass, in order.
InboxInOrder ==
  /\ \A i \in 1..Len(inbox) :
       /\ inbox[i].root \in Watchers(inbox[i].dir)
       /\ passed <= inbox[i].at /\ inbox[i].at <= now
  /\ \A i, j \in 1..Len(inbox) : i <= j => inbox[i].at <= inbox[j].at

Sent(r, d, t) ==
  \E i \in 1..Len(inbox) : inbox[i].root = r /\ inbox[i].dir = d /\ inbox[i].at <= t

Waiting(q, d, t) == q[d] # NoEntry /\ q[d].first <= t

\* What is owed is in the inbox or pending, and no later than it is owed since.
OwedIsHeld ==
  \A r \in Root, d \in Dir : owed[r][d] # Never =>
    /\ r \in Watchers(d)
    /\ Lone(d) => Sent(r, d, owed[r][d]) \/ Waiting(quiet, d, owed[r][d])

DebounceInv ==
  /\ DebounceTypeOK
  /\ now <= passed + Cadence
  /\ EntriesYoung /\ InboxInOrder /\ OwedIsHeld

-----------------------------------------------------------------------------
(* Lemmas about the operators.                                             *)

\* What one event does to the pending directories.
Seen(q, event, watched) == IF event.root \in watched THEN Observe(q, event) ELSE q

LEMMA NeverIsLater == DebounceAssumption => Never \notin Time /\ Horizon \in Nat
BY DEF DebounceAssumption, Never, Time

\* An event opens an entry or leaves the first event of one that is there.
SeenAs(q, w, event, watched) ==
  /\ w \in [Dir -> Entries(watched)]
  /\ \A d \in Dir : q[d] # NoEntry =>
       w[d] # NoEntry /\ w[d].first = q[d].first /\ w[d].root = q[d].root
  /\ \A d \in Dir : q[d] = NoEntry /\ w[d] # NoEntry =>
       /\ d = event.dir /\ event.root \in watched
       /\ w[d] = [root |-> event.root, first |-> event.at, last |-> event.at]
  /\ event.root \in watched => w[event.dir] # NoEntry

LEMMA SeenStep ==
  ASSUME NEW watched \in SUBSET Root, NEW q \in [Dir -> Entries(watched)], NEW event \in Event
  PROVE  SeenAs(q, Seen(q, event, watched), event, watched)
<1> USE DEF SeenAs
<1>1. CASE event.root \notin watched
  BY <1>1 DEF Seen
<1>2. CASE event.root \in watched
  <2> DEFINE entry == q[event.dir]
             new == IF entry = NoEntry
                    THEN [root |-> event.root, first |-> event.at, last |-> event.at]
                    ELSE [entry EXCEPT !.last = IF event.at > @ THEN event.at ELSE @]
  <2>1. event.dir \in Dir /\ event.at \in Time /\ event.root \in Root
    BY DEF Event
  <2>2. Seen(q, event, watched) = [q EXCEPT ![event.dir] = new]
    BY <1>2 DEF Seen, Observe
  <2>3. Never \notin Time
    BY NeverIsLater, DebounceAssumption
  <2>4. new \in Entries(watched) /\ new # NoEntry
    <3>1. CASE entry = NoEntry
      BY <1>2, <2>1, <2>3, <3>1 DEF Entries, NoEntry
    <3>2. CASE entry # NoEntry
      <4>1. entry \in [root : watched, first : Time, last : Time]
        BY <2>1, <3>2 DEF Entries
      <4>2. new = [entry EXCEPT !.last = IF event.at > @ THEN event.at ELSE @]
        BY <3>2
      <4> QED BY <2>1, <2>3, <4>1, <4>2 DEF Entries, NoEntry
    <3> QED BY <3>1, <3>2
  <2>5. entry # NoEntry => new.first = entry.first /\ new.root = entry.root
    <3> SUFFICES ASSUME entry # NoEntry PROVE new.first = entry.first /\ new.root = entry.root
      OBVIOUS
    <3>1. entry \in [root : watched, first : Time, last : Time]
      BY <2>1 DEF Entries
    <3> QED BY <3>1
  <2>6. entry = NoEntry => new = [root |-> event.root, first |-> event.at, last |-> event.at]
    OBVIOUS
  <2> HIDE DEF new
  <2> QED BY <1>2, <2>1, <2>2, <2>4, <2>5, <2>6
<1> QED BY <1>1, <1>2

\* The inbox's events one after the other.
Absorbs(f, q, watched) ==
  /\ f[0] = q
  /\ \A n \in 1..Len(inbox) : f[n] = Seen(f[n - 1], inbox[n], watched)

LEMMA AbsorbDefined ==
  ASSUME NEW watched \in SUBSET Root, NEW q \in [Dir -> Entries(watched)], inbox \in Seq(Event)
  PROVE  \E f : Absorbs(f, q, watched) /\ Absorb(q, watched) = f[Len(inbox)]
<1>1. PICK m \in Nat : m = Len(inbox)
  OBVIOUS
<1>2. PICK V : V = [Dir -> Entries(watched)]
  OBVIOUS
<1> DEFINE Is(f) == f = [n \in 0..m |-> IF n = 0 THEN q
                                        ELSE IF inbox[n].root \in watched
                                             THEN Observe(f[n - 1], inbox[n])
                                             ELSE f[n - 1]]
<1>3. \E f : Is(f)
  <2>1. PICK step : step = [p \in Nat \X V |-> IF p[1] \in 1..m THEN Seen(p[2], inbox[p[1]], watched)
                                               ELSE p[2]]
    OBVIOUS
  <2>2. ASSUME NEW n \in Nat, NEW p \in V
        PROVE  /\ step[<<n, p>>] = IF n \in 1..m THEN Seen(p, inbox[n], watched) ELSE p
               /\ step[<<n, p>>] \in V
    <3>1. step[<<n, p>>] = IF n \in 1..m THEN Seen(p, inbox[n], watched) ELSE p
      BY <2>1
    <3>2. n \in 1..m => inbox[n] \in Event
      BY <1>1
    <3>3. n \in 1..m => Seen(p, inbox[n], watched) \in V
      BY <1>2, <3>2, SeenStep DEF SeenAs
    <3> QED BY <3>1, <3>3
  <2>3. step \in [Nat \X V -> V]
    BY <2>1, <2>2
  <2>4. PICK g : Solves(g, V, q, step, m)
    BY <1>2, <2>3, RecursionDefines
  <2>5. g \in [0..m -> V] /\ g[0] = q
    BY <2>4 DEF Solves
  <2>6. ASSUME NEW n \in 1..m
        PROVE  g[n] = Seen(g[n - 1], inbox[n], watched)
    <3>1. n \in Nat /\ n - 1 \in 0..m /\ g[n - 1] \in V
      BY <2>5
    <3>2. g[n] = step[<<n, g[n - 1]>>]
      BY <2>4 DEF Solves
    <3> QED BY <2>2, <3>1, <3>2
  <2>7. ASSUME NEW n \in 0..m
        PROVE  g[n] = IF n = 0 THEN q
                      ELSE IF inbox[n].root \in watched THEN Observe(g[n - 1], inbox[n])
                      ELSE g[n - 1]
    <3>1. CASE n = 0
      BY <2>5, <3>1
    <3>2. CASE n # 0
      <4>1. n \in 1..m
        BY <3>2
      <4> QED BY <2>6, <3>2, <4>1 DEF Seen
    <3> QED BY <3>1, <3>2
  <2>8. Is(g)
    BY <2>5, <2>7
  <2> HIDE DEF Is
  <2> QED BY <2>8
<1>4. PICK f : f = CHOOSE g : Is(g)
  OBVIOUS
<1>5. Is(f)
  <2> HIDE DEF Is
  <2> QED BY <1>3, <1>4
<1>6. Absorb(q, watched) = f[m]
  BY <1>1, <1>4 DEF Absorb
<1>7. \A n \in 0..m : f[n] = IF n = 0 THEN q
                             ELSE IF inbox[n].root \in watched THEN Observe(f[n - 1], inbox[n])
                             ELSE f[n - 1]
  BY <1>5
<1>8. f[0] = q
  <2>1. 0 \in 0..m
    OBVIOUS
  <2> QED BY <1>7, <2>1, Zenon
<1>9. \A n \in 1..m : f[n] = Seen(f[n - 1], inbox[n], watched)
  <2>1. \A n \in 1..m : n \in 0..m /\ n # 0
    OBVIOUS
  <2> QED BY <1>7, <2>1, Zenon DEF Seen
<1> QED BY <1>1, <1>6, <1>8, <1>9 DEF Absorbs

\* Absorbing the inbox keeps every entry, opens one for each directory with an
\* event of a watched root, and none that is younger than such an event.
LEMMA AbsorbTells ==
  ASSUME NEW watched \in SUBSET Root, NEW q \in [Dir -> Entries(watched)],
         inbox \in Seq(Event), InboxInOrder, now \in Time, passed \in Time, passed <= now,
         \A d \in Dir : q[d] # NoEntry =>
           /\ q[d].root \in Roots(d) /\ q[d].first <= passed
  PROVE  /\ Absorb(q, watched) \in [Dir -> Entries(watched)]
         /\ \A d \in Dir : Absorb(q, watched)[d] # NoEntry =>
              /\ Absorb(q, watched)[d].root \in Roots(d)
              /\ Absorb(q, watched)[d].first <= now
         /\ \A d \in Dir, t \in Time : Waiting(q, d, t) => Waiting(Absorb(q, watched), d, t)
         /\ \A r \in watched, d \in Dir, t \in Time :
              Sent(r, d, t) => Waiting(Absorb(q, watched), d, t)
<1>1. PICK m \in Nat : m = Len(inbox)
  OBVIOUS
<1>2. PICK f : Absorbs(f, q, watched) /\ Absorb(q, watched) = f[m]
  BY <1>1, AbsorbDefined
<1>3. f[0] = q /\ \A n \in 1..m : f[n] = Seen(f[n - 1], inbox[n], watched)
  BY <1>1, <1>2 DEF Absorbs
<1>4. \A i \in 1..m : inbox[i] \in Event
  BY <1>1
<1>5. Time \subseteq Nat
  BY NeverIsLater, DebounceAssumption DEF Time
<1>6. \A i \in 1..m : /\ inbox[i].root \in Roots(inbox[i].dir)
                      /\ passed <= inbox[i].at /\ inbox[i].at <= now
                      /\ inbox[i].at \in Time /\ inbox[i].dir \in Dir
  BY <1>1, <1>4 DEF InboxInOrder, Watchers, Event
<1>7. \A i, j \in 1..m : i <= j => inbox[i].at <= inbox[j].at
  BY <1>1 DEF InboxInOrder
<1> DEFINE Typed(p) == p \in [Dir -> Entries(watched)]
           Owned(p, n) == \A d \in Dir : p[d] # NoEntry =>
                            /\ p[d].root \in Roots(d)
                            /\ p[d].first \in Time
                            /\ p[d].first <= now
                            /\ \A i \in n + 1..m : p[d].first <= inbox[i].at
           Keeps(p) == \A d \in Dir : q[d] # NoEntry => p[d] # NoEntry /\ p[d].first = q[d].first
           Opens(p, n) == \A i \in 1..n : inbox[i].root \in watched =>
                            p[inbox[i].dir] # NoEntry /\ p[inbox[i].dir].first <= inbox[i].at
           S == {n \in 0..m : Typed(f[n]) /\ Owned(f[n], n) /\ Keeps(f[n]) /\ Opens(f[n], n)}
<1>8. \A p : Typed(p) => \A d \in Dir : p[d] # NoEntry => p[d].first \in Time
  BY DEF Entries
<1>9. 0 \in S
  <2>1. Owned(f[0], 0)
    <3> SUFFICES ASSUME NEW d \in Dir, q[d] # NoEntry
                 PROVE  /\ q[d].root \in Roots(d) /\ q[d].first \in Time /\ q[d].first <= now
                        /\ \A i \in 1..m : q[d].first <= inbox[i].at
      BY <1>3
    <3>1. q[d].first \in Nat /\ q[d].first \in Time /\ q[d].root \in Roots(d)
            /\ q[d].first <= passed
      BY <1>5, <1>8
    <3>2. \A i \in 1..m : q[d].first <= inbox[i].at
      <4>1. passed \in Nat /\ \A i \in 1..m : inbox[i].at \in Nat /\ passed <= inbox[i].at
        BY <1>5, <1>6
      <4> QED BY <3>1, <4>1
    <3>3. q[d].first <= now
      BY <1>5, <3>1
    <3> QED BY <3>1, <3>2, <3>3
  <2> QED BY <1>3, <2>1
<1> HIDE DEF S
<1>10. ASSUME NEW n \in 0..m, n < m, n \in S PROVE n + 1 \in S
  <2>1. n + 1 \in 1..m /\ n + 1 - 1 = n /\ n + 1 \in 0..m
    BY <1>10
  <2>2. PICK p, event, w : p = f[n] /\ event = inbox[n + 1] /\ w = f[n + 1]
    OBVIOUS
  <2>3. w = Seen(p, event, watched) /\ event \in Event
    BY <1>3, <1>4, <2>1, <2>2
  <2>4. Typed(p) /\ Owned(p, n) /\ Keeps(p) /\ Opens(p, n)
    BY <1>10, <2>2 DEF S
  <2> p \in [Dir -> Entries(watched)]
    BY <2>4
  <2> HIDE DEF Owned, Keeps, Opens, Typed
  <2>5. SeenAs(p, w, event, watched)
    BY <2>3, SeenStep
  <2>6. \A d \in Dir : p[d] # NoEntry =>
          w[d] # NoEntry /\ w[d].first = p[d].first /\ w[d].root = p[d].root
    BY <2>5 DEF SeenAs
  <2>7. \A d \in Dir : p[d] = NoEntry /\ w[d] # NoEntry =>
          /\ d = event.dir /\ event.root \in watched
          /\ w[d] = [root |-> event.root, first |-> event.at, last |-> event.at]
    BY <2>5 DEF SeenAs
  <2>8. event.root \in watched => w[event.dir] # NoEntry
    BY <2>5 DEF SeenAs
  <2>9. Owned(w, n + 1)
    <3> USE DEF Owned
    <3> SUFFICES ASSUME NEW d \in Dir, w[d] # NoEntry
                 PROVE  /\ w[d].root \in Roots(d) /\ w[d].first \in Time /\ w[d].first <= now
                        /\ \A i \in n + 1 + 1..m : w[d].first <= inbox[i].at
      OBVIOUS
    <3>1. CASE p[d] # NoEntry
      <4>1. w[d].first = p[d].first /\ w[d].root = p[d].root
        BY <2>6, <3>1
      <4>2. \A i \in n + 1 + 1..m : i \in n + 1..m
        OBVIOUS
      <4> QED BY <2>4, <3>1, <4>1, <4>2
    <3>2. CASE p[d] = NoEntry
      <4>1. d = event.dir /\ w[d].root = event.root /\ w[d].first = event.at
        BY <2>7, <3>2
      <4>2. \A i \in n + 1 + 1..m : i \in 1..m /\ n + 1 <= i
        OBVIOUS
      <4> QED BY <1>6, <1>7, <2>1, <2>2, <4>1, <4>2
    <3> QED BY <3>1, <3>2
  <2>10. Keeps(w)
    BY <2>4, <2>6 DEF Keeps
  <2>11. Opens(w, n + 1)
    <3> USE DEF Opens
    <3> SUFFICES ASSUME NEW i \in 1..n + 1, inbox[i].root \in watched
                 PROVE  w[inbox[i].dir] # NoEntry /\ w[inbox[i].dir].first <= inbox[i].at
      OBVIOUS
    <3>1. i \in 1..m /\ inbox[i].dir \in Dir
      BY <1>6, <2>1
    <3>2. CASE i \in 1..n
      BY <2>4, <2>6, <3>1, <3>2
    <3>3. CASE i = n + 1
      <4>1. w[event.dir] # NoEntry /\ event.dir \in Dir /\ event = inbox[i]
        BY <2>2, <2>8, <3>1, <3>3
      <4>2. CASE p[event.dir] # NoEntry
        <5>1. p[event.dir].first <= event.at
          BY <2>1, <2>2, <2>4, <3>3, <4>1, <4>2 DEF Owned
        <5> QED BY <2>6, <4>1, <4>2, <5>1
      <4>3. CASE p[event.dir] = NoEntry
        <5>1. w[event.dir] = [root |-> event.root, first |-> event.at, last |-> event.at]
          BY <2>7, <4>1, <4>3
        <5>2. event.at \in Nat
          BY <1>5, <1>6, <3>1, <4>1
        <5> QED BY <4>1, <5>1, <5>2
      <4> QED BY <4>2, <4>3
    <3> QED BY <3>2, <3>3
  <2> QED BY <2>1, <2>2, <2>5, <2>9, <2>10, <2>11 DEF S, Typed, SeenAs
<1>11. m \in S
  <2>1. \A n \in 0..m : n \in S
    BY <1>9, <1>10, InductionUpTo
  <2> QED BY <2>1
<1>12. PICK w : w = f[m]
  OBVIOUS
<1>13. Typed(w) /\ Owned(w, m) /\ Keeps(w) /\ Opens(w, m) /\ w = Absorb(q, watched)
  BY <1>2, <1>11, <1>12 DEF S
<1>14. ASSUME NEW d \in Dir, NEW t \in Time, Waiting(q, d, t) PROVE Waiting(w, d, t)
  BY <1>13, <1>14 DEF Waiting
<1>15. ASSUME NEW r \in watched, NEW d \in Dir, NEW t \in Time, Sent(r, d, t)
       PROVE  Waiting(w, d, t)
  <2>1. PICK i \in 1..m : inbox[i].root = r /\ inbox[i].dir = d /\ inbox[i].at <= t
    BY <1>1, <1>15 DEF Sent
  <2>2. w[d] # NoEntry /\ w[d].first <= inbox[i].at
    BY <1>13, <2>1
  <2>3. w[d].first \in Nat /\ inbox[i].at \in Nat /\ t \in Nat
    BY <1>5, <1>6, <1>8, <1>13, <2>2
  <2> QED BY <2>1, <2>2, <2>3 DEF Waiting
<1> QED BY <1>13, <1>14, <1>15

\* A settled directory has a settled ancestor that none other covers.
LEMMA TopmostCovers ==
  ASSUME NEW settled \in SUBSET Dir, NEW d \in settled
  PROVE  \E k \in PruneNested(settled) : <<k, d>> \in Under
<1> DEFINE Above(a) == {b \in settled : <<b, a>> \in Under}
           A == Above(d)
           Sizes == {Cardinality(Above(a)) : a \in A}
<1>1. /\ \A a \in Dir : <<a, a>> \in Under
      /\ \A a, b \in Dir : <<a, b>> \in Under /\ <<b, a>> \in Under => a = b
      /\ \A a, b, c \in Dir : <<a, b>> \in Under /\ <<b, c>> \in Under => <<a, c>> \in Under
      /\ IsFiniteSet(Dir)
  BY DebounceAssumption DEF DebounceAssumption
<1>2. \A a : IsFiniteSet(Above(a)) /\ Cardinality(Above(a)) \in Nat
  <2> SUFFICES ASSUME NEW a PROVE IsFiniteSet(Above(a)) /\ Cardinality(Above(a)) \in Nat
    OBVIOUS
  <2>1. Above(a) \in SUBSET Dir
    OBVIOUS
  <2> HIDE DEF Above
  <2> QED BY <1>1, <2>1, FS_Subset, FS_CardinalityType
<1>3. d \in A
  BY <1>1
<1>4. PICK least \in Sizes : \A n \in Sizes : least <= n
  <2>1. Sizes \subseteq Nat /\ Sizes # {}
    BY <1>2, <1>3
  <2> HIDE DEF Sizes
  <2> QED BY <2>1, LeastMember
<1>5. PICK k \in A : least = Cardinality(Above(k))
  OBVIOUS
<1>6. ASSUME NEW a \in settled \ {k}, <<a, k>> \in Under PROVE FALSE
  <2>1. a \in A
    BY <1>1, <1>6
  <2>2. Above(a) \in SUBSET Above(k)
    BY <1>1, <1>6
  <2>3. k \in Above(k) /\ k \notin Above(a)
    BY <1>1, <1>6
  <2>4. Cardinality(Above(k)) <= Cardinality(Above(a))
    BY <1>4, <1>5, <2>1
  <2>5. PICK big, small : big = Above(k) /\ small = Above(a)
    OBVIOUS
  <2>6. IsFiniteSet(big) /\ small \in SUBSET big /\ Cardinality(big) <= Cardinality(small)
          /\ Cardinality(big) \in Nat /\ Cardinality(small) \in Nat
    BY <1>2, <2>2, <2>4, <2>5
  <2>7. big = small
    BY <2>6, FS_Subset
  <2> QED BY <2>3, <2>5, <2>7
<1> QED BY <1>5, <1>6 DEF PruneNested

-----------------------------------------------------------------------------
(* The invariant holds, action by action.                                  *)

LEMMA DebounceInitHolds == DebounceInit => DebounceInv
<1> SUFFICES ASSUME DebounceInit PROVE DebounceInv
  OBVIOUS
<1>1. 0 \in Time /\ Time \subseteq Nat /\ MaxEvents \in Nat /\ MaxUnwatch \in Nat /\ Cadence \in Nat
  BY DebounceAssumption DEF DebounceAssumption, Time
<1>2. inbox = <<>> /\ inbox \in Seq(Event)
  BY DEF DebounceInit
<1>3. DebounceTypeOK
  BY <1>1, <1>2 DEF DebounceInit, DebounceTypeOK, Event
<1>4. now <= passed + Cadence
  BY <1>1 DEF DebounceInit
<1>5. EntriesYoung
  BY DEF DebounceInit, EntriesYoung
<1>6. InboxInOrder
  BY <1>2 DEF InboxInOrder
<1>7. OwedIsHeld
  BY DEF DebounceInit, OwedIsHeld
<1> QED BY <1>3, <1>4, <1>5, <1>6, <1>7 DEF DebounceInv

LEMMA ClockStep == DebounceInv /\ Clock => DebounceInv'
<1> SUFFICES ASSUME DebounceInv, Clock PROVE DebounceInv'
  OBVIOUS
<1> USE DEF DebounceInv
<1>1. /\ now' = now + 1 /\ now < Horizon /\ now < passed + Cadence
      /\ passed' = passed /\ registered' = registered /\ watching' = watching /\ inbox' = inbox
      /\ quiet' = quiet /\ owed' = owed /\ events' = events /\ unwatched' = unwatched
  BY DEF Clock
<1>2. now \in Nat /\ passed \in Nat /\ passed <= now /\ Horizon \in Nat /\ Cadence \in Nat
  BY DebounceAssumption DEF DebounceAssumption, DebounceTypeOK, Time
<1>3. now' \in Time /\ passed' <= now' /\ now' <= passed' + Cadence
  BY <1>1, <1>2 DEF Time
<1>4. DebounceTypeOK'
  BY <1>1, <1>3 DEF DebounceTypeOK
<1>5. EntriesYoung'
  BY <1>1 DEF EntriesYoung
<1>6. InboxInOrder'
  <2>1. \A i \in 1..Len(inbox) : inbox[i].at \in Nat
    <3>1. \A i \in 1..Len(inbox) : inbox[i] \in Event
      <4>1. inbox \in Seq(Event)
        BY DEF DebounceTypeOK, Event
      <4> QED BY <4>1
    <3>2. Time \subseteq Nat
      BY <1>2 DEF Time
    <3> QED BY <3>1, <3>2 DEF Event
  <2> QED BY <1>1, <1>2, <2>1 DEF InboxInOrder, Watchers
<1>7. OwedIsHeld'
  BY <1>1 DEF OwedIsHeld, Watchers, Sent, Waiting, Lone
<1> QED BY <1>3, <1>4, <1>5, <1>6, <1>7

\* Registering and unregistering touch nothing but the table.
LEMMA TableStep ==
  ASSUME DebounceInv,
         registered' \subseteq Root, unwatched' \in 0..MaxUnwatch,
         UNCHANGED <<now, passed, watching, inbox, quiet, owed, events>>
  PROVE  DebounceInv'
<1>1. DebounceTypeOK'
  BY DEF DebounceInv, DebounceTypeOK
<1>2. EntriesYoung'
  BY DEF DebounceInv, EntriesYoung
<1>3. InboxInOrder'
  BY DEF DebounceInv, InboxInOrder, Watchers
<1>4. OwedIsHeld'
  BY DEF DebounceInv, OwedIsHeld, Watchers, Sent, Waiting, Lone
<1> QED BY <1>1, <1>2, <1>3, <1>4 DEF DebounceInv

LEMMA ChangeStep ==
  ASSUME DebounceInv, NEW d \in Dir, Change(d)
  PROVE  DebounceInv'
<1> USE DEF DebounceInv
<1>1. PICK S : S = Watchers(d)
  OBVIOUS
<1>2. PICK order \in Orders(S) :
        inbox' = inbox \o [i \in DOMAIN order |-> [root |-> order[i], dir |-> d, at |-> now]]
  BY <1>1 DEF Change
<1>3. /\ now' = now /\ passed' = passed /\ registered' = registered /\ watching' = watching
      /\ quiet' = quiet /\ unwatched' = unwatched
      /\ events' = events + 1 /\ events < MaxEvents
      /\ owed' = [r \in Root |-> [owed[r] EXCEPT ![d] = IF r \in S /\ @ = Never THEN now ELSE @]]
  BY <1>1 DEF Change
<1>4. S \in SUBSET Root /\ S = Roots(d) \intersect watching
  BY <1>1 DEF Watchers, Roots
<1>5. now \in Time /\ now \in Nat /\ passed \in Nat /\ passed <= now /\ Time \subseteq Nat
      /\ inbox \in Seq(Event)
  BY NeverIsLater, DebounceAssumption DEF DebounceTypeOK, Time, Event
<1>6. PICK n \in Nat : n = Cardinality(S)
  <2>1. IsFiniteSet(Root)
    BY DebounceAssumption, FS_Subset DEF DebounceAssumption
  <2>2. Cardinality(S) \in Nat
    BY <1>4, <2>1, FS_Subset, FS_CardinalityType
  <2> QED BY <2>2
<1>7. order \in [1..n -> S] /\ \A r \in S : \E i \in 1..n : order[i] = r
  BY <1>2, <1>6 DEF Orders, Range
<1>8. PICK batch : batch = [i \in 1..n |-> [root |-> order[i], dir |-> d, at |-> now]]
  OBVIOUS
<1>9. batch \in Seq(Event) /\ Len(batch) = n
  <2>1. batch \in [1..n -> Event]
    BY <1>4, <1>5, <1>7, <1>8 DEF Event
  <2> QED BY <2>1
<1>10. PICK m \in Nat : m = Len(inbox)
  BY <1>5
<1>11. inbox' \in Seq(Event) /\ Len(inbox') = m + n
       /\ \A i \in 1..m + n : inbox'[i] = IF i <= m THEN inbox[i] ELSE batch[i - m]
  <2>1. inbox' = inbox \o batch
    BY <1>2, <1>7, <1>8
  <2> QED BY <1>5, <1>9, <1>10, <2>1, ConcatProperties
<1>12. \A i \in 1..m : inbox'[i] = inbox[i]
  BY <1>11
<1>13. ASSUME NEW i \in 1..m + n, i \notin 1..m
       PROVE  inbox'[i].root \in S /\ inbox'[i].dir = d /\ inbox'[i].at = now
  <2>1. i - m \in 1..n /\ inbox'[i] = batch[i - m]
    BY <1>11, <1>13
  <2> QED BY <1>7, <1>8, <2>1
<1>14. ASSUME NEW r \in S PROVE \E i \in 1..m + n : inbox'[i].root = r /\ i \notin 1..m
  <2>1. PICK i \in 1..n : order[i] = r
    BY <1>7
  <2>2. m + i \in 1..m + n /\ m + i \notin 1..m /\ m + i - m = i
    OBVIOUS
  <2>3. inbox'[m + i] = batch[i]
    BY <1>11, <2>2
  <2> QED BY <1>8, <2>1, <2>2, <2>3
<1>15. ASSUME NEW r \in Root, NEW e \in Dir
       PROVE  owed'[r][e] = IF e = d /\ r \in S /\ owed[r][e] = Never THEN now ELSE owed[r][e]
  BY <1>3 DEF DebounceTypeOK
<1>16. DebounceTypeOK'
  <2>1. events' \in 0..MaxEvents
    BY <1>3, DebounceAssumption DEF DebounceTypeOK, DebounceAssumption
  <2>2. owed' \in [Root -> [Dir -> Time \union {Never}]]
    BY <1>3, <1>5 DEF DebounceTypeOK
  <2> QED BY <1>3, <1>11, <2>1, <2>2 DEF DebounceTypeOK, Event
<1>17. EntriesYoung'
  BY <1>3 DEF EntriesYoung
<1>18. InboxInOrder'
  <2>1. ASSUME NEW i \in 1..m + n
        PROVE  /\ inbox'[i].root \in Roots(inbox'[i].dir) \intersect watching
               /\ passed <= inbox'[i].at /\ inbox'[i].at <= now
    <3>1. CASE i \in 1..m
      BY <1>10, <1>12, <3>1 DEF InboxInOrder, Watchers
    <3>2. CASE i \notin 1..m
      BY <1>4, <1>5, <1>13, <3>2
    <3> QED BY <3>1, <3>2
  <2>2. ASSUME NEW i \in 1..m + n, NEW j \in 1..m + n, i <= j
        PROVE  inbox'[i].at <= inbox'[j].at
    <3>1. CASE j \in 1..m
      <4>1. i \in 1..m
        BY <2>2, <3>1
      <4> QED BY <1>10, <1>12, <2>2, <3>1, <4>1 DEF InboxInOrder
    <3>2. CASE j \notin 1..m
      BY <1>13, <2>1, <3>2
    <3> QED BY <3>1, <3>2
  <2> QED BY <1>3, <1>11, <2>1, <2>2 DEF InboxInOrder, Watchers
<1>19. OwedIsHeld'
  <2> SUFFICES ASSUME NEW r \in Root, NEW e \in Dir, NEW t, t = owed'[r][e], t # Never
               PROVE  r \in Watchers(e)' /\ (Lone(e) => Sent(r, e, t)' \/ Waiting(quiet, e, t)')
    BY DEF OwedIsHeld, Lone, Waiting, Sent, Roots
  <2>1. Watchers(e)' = Watchers(e)
    BY <1>3 DEF Watchers
  <2>2. CASE e = d /\ r \in S /\ owed[r][e] = Never
    <3>1. PICK i \in 1..m + n : inbox'[i].root = r /\ i \notin 1..m
      BY <1>14, <2>2
    <3>2. inbox'[i].dir = e /\ inbox'[i].at = now
      BY <1>13, <2>2, <3>1
    <3>3. t = now
      BY <1>15, <2>2
    <3>4. Sent(r, e, t)'
      BY <1>5, <1>11, <3>1, <3>2, <3>3 DEF Sent
    <3> QED BY <1>1, <2>1, <2>2, <3>4
  <2>3. CASE ~ (e = d /\ r \in S /\ owed[r][e] = Never)
    <3>1. t = owed[r][e]
      BY <1>15, <2>3
    <3>2. r \in Watchers(e) /\ (Lone(e) => Sent(r, e, t) \/ Waiting(quiet, e, t))
      BY <3>1 DEF OwedIsHeld
    <3>3. Sent(r, e, t) => Sent(r, e, t)'
      <4> SUFFICES ASSUME Sent(r, e, t) PROVE Sent(r, e, t)'
        OBVIOUS
      <4>1. PICK i \in 1..m : inbox[i].root = r /\ inbox[i].dir = e /\ inbox[i].at <= t
        BY <1>10 DEF Sent
      <4>2. i \in 1..Len(inbox')
        BY <1>11
      <4> QED BY <1>12, <4>1, <4>2 DEF Sent
    <3>4. Waiting(quiet, e, t)' <=> Waiting(quiet, e, t)
      BY <1>3 DEF Waiting
    <3> QED BY <2>1, <3>2, <3>3, <3>4
  <2> QED BY <2>2, <2>3
<1> QED BY <1>3, <1>16, <1>17, <1>18, <1>19

\* Forgetting keeps the entries of the watched roots.
LEMMA ForgetTells ==
  ASSUME DebounceInv, NEW watched \in SUBSET Root
  PROVE  /\ Forget(quiet, watched) \in [Dir -> Entries(watched)]
         /\ \A d \in Dir : Forget(quiet, watched)[d] # NoEntry =>
              Forget(quiet, watched)[d] = quiet[d]
         /\ \A d \in Dir, t \in Time :
              Waiting(quiet, d, t) /\ quiet[d].root \in watched => Waiting(Forget(quiet, watched), d, t)
<1>1. PICK w : w = Forget(quiet, watched)
  OBVIOUS
<1>2. \A d \in Dir : w[d] = IF quiet[d].root \in watched THEN quiet[d] ELSE NoEntry
  BY <1>1 DEF Forget
<1>3. ASSUME NEW d \in Dir PROVE w[d] \in Entries(watched)
  <2>1. CASE quiet[d].root \notin watched
    BY <1>2, <2>1 DEF Entries
  <2>2. CASE quiet[d].root \in watched
    <3>1. w[d] = quiet[d]
      BY <1>2, <2>2
    <3>2. quiet[d] = NoEntry \/ quiet[d] \in [root : watching, first : Time, last : Time]
      BY DEF DebounceInv, DebounceTypeOK
    <3>3. CASE quiet[d] = NoEntry
      BY <3>1, <3>3 DEF Entries
    <3>4. CASE quiet[d] \in [root : watching, first : Time, last : Time]
      <4>1. quiet[d] \in [root : watched, first : Time, last : Time]
        BY <2>2, <3>4
      <4> QED BY <3>1, <4>1 DEF Entries
    <3> QED BY <3>2, <3>3, <3>4
  <2> QED BY <2>1, <2>2
<1>4. w \in [Dir -> Entries(watched)]
  BY <1>1, <1>3 DEF Forget
<1> QED BY <1>1, <1>2, <1>4 DEF Waiting

LEMMA ReconcileStep == DebounceInv /\ Reconcile => DebounceInv'
<1> SUFFICES ASSUME DebounceInv, Reconcile PROVE DebounceInv'
  OBVIOUS
<1>1. PICK started \in SUBSET (registered \ watching) :
        LET watched == (watching \intersect registered) \union started
            q == Absorb(Forget(quiet, watched), watched)
            settled == {d \in Pending(q) : IsReady(q[d])}
            kept == PruneNested(settled)
        IN  /\ watching' = watched
            /\ quiet' = Swept(q, settled)
            /\ owed' = [r \in Root |-> [d \in Dir |->
                          IF r \notin watched \/ Covered(q, kept, r, d) THEN Never ELSE owed[r][d]]]
  BY Zenon DEF Reconcile
<1>2. PICK watched : watched = (watching \intersect registered) \union started
  OBVIOUS
<1>3. PICK p : p = Forget(quiet, watched)
  OBVIOUS
<1>4. PICK q : q = Absorb(p, watched)
  OBVIOUS
<1>5. PICK settled : settled = {d \in Pending(q) : IsReady(q[d])}
  OBVIOUS
<1>6. /\ watching' = watched /\ quiet' = Swept(q, settled)
      /\ owed' = [r \in Root |-> [d \in Dir |->
                    IF r \notin watched \/ Covered(q, PruneNested(settled), r, d)
                    THEN Never ELSE owed[r][d]]]
  BY <1>1, <1>2, <1>3, <1>4, <1>5
<1>7. /\ inbox' = <<>> /\ passed' = now /\ now' = now /\ registered' = registered
      /\ events' = events /\ unwatched' = unwatched
  BY DEF Reconcile
<1>8. watched \in SUBSET Root
  BY <1>2 DEF DebounceInv, DebounceTypeOK
<1>9. now \in Time /\ passed \in Time /\ passed <= now /\ now \in Nat /\ Time \subseteq Nat
      /\ inbox \in Seq(Event) /\ InboxInOrder /\ EntriesYoung /\ OwedIsHeld
      /\ Cadence \in Nat /\ MaxAge \in Nat /\ Never \notin Time
  BY NeverIsLater, DebounceAssumption
     DEF DebounceInv, DebounceTypeOK, DebounceAssumption, Time, Event
<1>10. /\ p \in [Dir -> Entries(watched)]
       /\ \A d \in Dir : p[d] # NoEntry => p[d] = quiet[d]
       /\ \A d \in Dir, t \in Time : Waiting(quiet, d, t) /\ quiet[d].root \in watched => Waiting(p, d, t)
  BY <1>3, <1>8, ForgetTells
<1>11. \A d \in Dir : p[d] # NoEntry => p[d].root \in Roots(d) /\ p[d].first <= passed
  BY <1>9, <1>10 DEF EntriesYoung
<1>12. /\ q \in [Dir -> Entries(watched)]
       /\ \A d \in Dir : q[d] # NoEntry => q[d].root \in Roots(d) /\ q[d].first <= now
       /\ \A d \in Dir, t \in Time : Waiting(p, d, t) => Waiting(q, d, t)
       /\ \A r \in watched, d \in Dir, t \in Time : Sent(r, d, t) => Waiting(q, d, t)
  BY <1>4, <1>8, <1>9, <1>10, <1>11, AbsorbTells
<1>13. settled \in SUBSET Dir /\ \A d \in settled : q[d] # NoEntry
  BY <1>5 DEF Pending
<1>14. \A d \in Dir : quiet'[d] = IF d \in settled THEN NoEntry ELSE q[d]
  BY <1>6 DEF Swept
<1>15. ASSUME NEW d \in Dir, quiet'[d] # NoEntry
       PROVE  /\ quiet'[d] = q[d] /\ q[d].root \in Roots(d)
              /\ q[d].first <= now /\ now < q[d].first + MaxAge
  <2>1. d \notin settled /\ quiet'[d] = q[d] /\ q[d] # NoEntry
    BY <1>14, <1>15
  <2>2. ~ (now - q[d].first >= MaxAge)
    BY <1>5, <2>1 DEF Pending, IsReady
  <2>3. q[d].first \in Nat
    BY <1>9, <1>12, <2>1 DEF Entries
  <2> QED BY <1>9, <1>12, <2>1, <2>2, <2>3
\* What is still owed under one root only waits, and is not settled.
<1>16. ASSUME NEW r \in Root, NEW d \in Dir, NEW t, t = owed'[r][d], t # Never
       PROVE  r \in Roots(d) /\ r \in watched /\ (Lone(d) => Waiting(quiet, d, t)')
  <2>1. r \in watched /\ ~ Covered(q, PruneNested(settled), r, d) /\ t = owed[r][d]
    BY <1>6, <1>16
  <2>2. r \in Watchers(d) /\ (Lone(d) => Sent(r, d, t) \/ Waiting(quiet, d, t))
    BY <1>9, <1>16, <2>1 DEF OwedIsHeld
  <2>3. r \in Roots(d)
    BY <2>2 DEF Watchers
  <2>4. t \in Time
    BY <1>16, <2>1 DEF DebounceInv, DebounceTypeOK
  <2>5. ASSUME Lone(d) PROVE Waiting(quiet, d, t)'
    <3>1. Waiting(q, d, t)
      <4>1. CASE Sent(r, d, t)
        BY <1>12, <2>1, <2>4, <4>1
      <4>2. CASE Waiting(quiet, d, t)
        <5>1. quiet[d].root = r
          BY <1>9, <2>3, <2>5, <4>2 DEF EntriesYoung, Waiting, Lone
        <5> QED BY <1>10, <1>12, <2>1, <2>4, <4>2, <5>1
      <4> QED BY <2>2, <2>5, <4>1, <4>2
    <3>2. d \notin settled
      <4> SUFFICES ASSUME d \in settled PROVE FALSE
        OBVIOUS
      <4>1. PICK k \in PruneNested(settled) : <<k, d>> \in Under
        BY <1>13, TopmostCovers
      <4>2. k \in settled /\ k \in Dir /\ q[k].root \in Root /\ <<q[k].root, k>> \in Under
        BY <1>12, <1>13 DEF PruneNested, Roots
      <4>3. <<q[k].root, d>> \in Under
        <5>1. \A a, b, c \in Dir : <<a, b>> \in Under /\ <<b, c>> \in Under => <<a, c>> \in Under
          BY DebounceAssumption DEF DebounceAssumption
        <5>2. q[k].root \in Dir
          BY <4>2, DebounceAssumption DEF DebounceAssumption
        <5> QED BY <4>1, <4>2, <5>1, <5>2
      <4>4. q[k].root = r
        BY <2>3, <2>5, <4>2, <4>3 DEF Lone, Roots
      <4> QED BY <2>1, <4>1, <4>4 DEF Covered
    <3>3. quiet'[d] = q[d]
      BY <1>14, <3>2
    <3> QED BY <3>1, <3>3 DEF Waiting
  <2> QED BY <2>1, <2>3, <2>5
<1>17. DebounceTypeOK'
  <2>1. quiet' \in [Dir -> Entries(watched)]
    <3>1. \A d \in Dir : quiet'[d] \in Entries(watched)
      BY <1>12, <1>14 DEF Entries
    <3> QED BY <1>6, <3>1 DEF Swept
  <2>2. owed' \in [Root -> [Dir -> Time \union {Never}]]
    <3>1. owed \in [Root -> [Dir -> Time \union {Never}]]
      BY DEF DebounceInv, DebounceTypeOK
    <3> QED BY <1>6, <3>1
  <2>3. inbox' \in Seq([root : Root, dir : Dir, at : Time])
    BY <1>7
  <2> QED BY <1>6, <1>7, <1>8, <1>9, <2>1, <2>2, <2>3
         DEF DebounceInv, DebounceTypeOK, Entries
<1>18. EntriesYoung'
  BY <1>7, <1>15 DEF EntriesYoung, Roots
<1>19. InboxInOrder'
  BY <1>7 DEF InboxInOrder
<1>20. OwedIsHeld'
  BY <1>6, <1>16 DEF OwedIsHeld, Watchers, Roots, Waiting, Lone
<1>21. (now <= passed + Cadence)'
  BY <1>7, <1>9
<1> QED BY <1>17, <1>18, <1>19, <1>20, <1>21 DEF DebounceInv

\* DebounceInv, the invariant the next three rest on.
THEOREM DebounceInvariance == DebounceSpec => []DebounceInv
<1>1. DebounceInv /\ [DebounceNext]_dvars => DebounceInv'
  <2> SUFFICES ASSUME DebounceInv, [DebounceNext]_dvars PROVE DebounceInv'
    OBVIOUS
  <2>1. unwatched \in 0..MaxUnwatch /\ MaxUnwatch \in Nat /\ registered \subseteq Root
    BY DebounceAssumption DEF DebounceInv, DebounceTypeOK, DebounceAssumption
  <2>2. CASE Clock
    BY <2>2, ClockStep
  <2>3. CASE Reconcile
    BY <2>3, ReconcileStep
  <2>4. ASSUME NEW d \in Dir, Change(d) PROVE DebounceInv'
    BY <2>4, ChangeStep
  <2>5. ASSUME NEW r \in Root, Unregister(r) PROVE DebounceInv'
    <3>1. registered' \subseteq Root /\ unwatched' \in 0..MaxUnwatch
      BY <2>1, <2>5 DEF Unregister
    <3>2. UNCHANGED <<now, passed, watching, inbox, quiet, owed, events>>
      BY <2>5 DEF Unregister
    <3> QED BY <3>1, <3>2, TableStep
  <2>6. ASSUME NEW r \in Root, Register(r) PROVE DebounceInv'
    <3>1. registered' \subseteq Root /\ unwatched' \in 0..MaxUnwatch
      BY <2>1, <2>6 DEF Register
    <3>2. UNCHANGED <<now, passed, watching, inbox, quiet, owed, events>>
      BY <2>6 DEF Register
    <3> QED BY <3>1, <3>2, TableStep
  <2>7. CASE UNCHANGED dvars
    <3>1. registered' \subseteq Root /\ unwatched' \in 0..MaxUnwatch
      BY <2>1, <2>7 DEF dvars
    <3>2. UNCHANGED <<now, passed, watching, inbox, quiet, owed, events>>
      BY <2>7 DEF dvars
    <3> QED BY <3>1, <3>2, TableStep
  <2> QED BY <2>2, <2>3, <2>4, <2>5, <2>6, <2>7 DEF DebounceNext
<1> QED BY DebounceInitHolds, <1>1, PTL DEF DebounceSpec

\* The clock, the inbox and the pending entries stay well formed: no entry is
\* left of a root that is watched no more.
THEOREM DebounceTypeCorrect == DebounceSpec => []DebounceTypeOK
<1>1. DebounceInv => DebounceTypeOK
  BY DEF DebounceInv
<1> QED BY <1>1, DebounceInvariance, PTL

\* Of one directory: the part of ServedInTime that needs no assumption on the other roots.
ServedIfLone ==
  \A r \in watching, d \in Dir :
    Lone(d) /\ owed[r][d] # Never => now - owed[r][d] <= MaxAge + Cadence

\* A change in a directory below one root only is re-listed for it within the
\* ceiling and a cadence (debounce.rs' sweep, prune_nested and forget_root),
\* wherever the other roots lie.
THEOREM LoneIsServed == DebounceSpec => []ServedIfLone
<1>1. DebounceInv => ServedIfLone
  <2> SUFFICES ASSUME DebounceInv, NEW r \in watching, NEW d \in Dir, Lone(d),
                      NEW t, t = owed[r][d], t # Never
               PROVE  now - t <= MaxAge + Cadence
    BY DEF ServedIfLone
  <2>1. now \in Nat /\ passed \in Nat /\ Cadence \in Nat /\ MaxAge \in Nat
        /\ now <= passed + Cadence /\ Time \subseteq Nat /\ Never \notin Time
    BY NeverIsLater, DebounceAssumption DEF DebounceInv, DebounceTypeOK, DebounceAssumption, Time
  <2>2. t \in Time /\ r \in Root
    BY DEF DebounceInv, DebounceTypeOK
  <2>3. Sent(r, d, t) \/ Waiting(quiet, d, t)
    BY <2>2 DEF DebounceInv, OwedIsHeld
  <2>4. CASE Sent(r, d, t)
    <3>1. PICK i \in 1..Len(inbox) : inbox[i].at <= t
      BY <2>4 DEF Sent
    <3>2. passed <= inbox[i].at /\ inbox[i].at <= now
      BY <3>1 DEF DebounceInv, InboxInOrder
    <3>3. inbox[i].at \in Time
      <4>1. inbox \in Seq(Event)
        BY DEF DebounceInv, DebounceTypeOK, Event
      <4>2. inbox[i] \in Event
        BY <3>1, <4>1
      <4> QED BY <4>2 DEF Event
    <3> QED BY <2>1, <2>2, <3>1, <3>2, <3>3
  <2>5. CASE Waiting(quiet, d, t)
    <3>1. quiet[d] # NoEntry /\ quiet[d].first <= t
      BY <2>5 DEF Waiting
    <3>2. passed < quiet[d].first + MaxAge
      BY <3>1 DEF DebounceInv, EntriesYoung
    <3>3. quiet[d].first \in Time
      BY <3>1 DEF DebounceInv, DebounceTypeOK
    <3>4. PICK first : first = quiet[d].first
      OBVIOUS
    <3>5. first \in Nat /\ t \in Nat /\ first <= t /\ passed < first + MaxAge
      BY <2>1, <2>2, <3>1, <3>2, <3>3, <3>4
    <3> QED BY <2>1, <3>5
  <2> QED BY <2>3, <2>4, <2>5
<1> QED BY <1>1, DebounceInvariance, PTL

\* ServedInTime, of roots none of which lies below another.  The debouncer keys
\* its entries by the directory alone (debounce.rs:185-205): below two watched
\* roots the second one's event folds into the first one's entry, which is
\* re-listed for that root only.
THEOREM ServedInTimeHolds ==
  ASSUME \A d \in Dir : Lone(d)
  PROVE  DebounceSpec => []ServedInTime
<1>1. ServedIfLone => ServedInTime
  BY DEF ServedIfLone, ServedInTime
<1> QED BY <1>1, LoneIsServed, PTL

-----------------------------------------------------------------------------
(***************************************************************************)
(* Proof that no turn is ever classed as what it is not, for any shapes,    *)
(* windows and lengths and any number of appends, passes, removals and      *)
(* restarts.  The argument: a window that the backfill has read stays what  *)
(* is stored while a class is missing, since appends come behind it, and a  *)
(* conversation that was removed under the loop comes back with every class *)
(* given; a run that an append classes on one turn of memory differs from   *)
(* the reading from the start only in results that begin it, behind others; *)
(* and what a restatement replaces is a write, classed alike behind any     *)
(* turn.                                                                   *)
(***************************************************************************)

\* What a shape that is spoken is, and stays.
SpokenShape ==
  {t \in TurnShape : /\ t.hook => t.calls = "none" /\ t.results = "none"
                     /\ t.old => t.calls = "other"}

\* The same turn, to the classifier.
Alike(t, u) == t.said = u.said /\ t.hook = u.hook /\ t.calls = u.calls /\ t.results = u.results

\* The first turns of a run are those of a conversation behind one.
PartOf(run, n, whole, after) ==
  /\ n <= Len(run) /\ after + n <= Len(whole)
  /\ \A i \in 1..n : Alike(run[i], whole[after + i])

\* A conversation read from its start: what is remembered, and the classes.
Recall(run) == Memory(FALSE, run)

AsRead(run) == Classes(FALSE, run)

\* What an append behind a conversation starts with.
PickUp(s) == Len(s) # 0 /\ Advance(FALSE, s[Len(s)])

LEMMA ShapesAreSpoken == Shape \subseteq SpokenShape
BY TurnAssumption DEF SpokenShape

\* The cases of the classifier, one after the other.
LEMMA ClassifyCases ==
  ASSUME NEW retrieval \in BOOLEAN, NEW t \in SpokenShape
  PROVE  Classify(retrieval, t) =
           IF t.hook THEN "retrieval_call"
           ELSE IF t.said \/ (t.calls = "none" /\ t.results = "none") THEN "work"
           ELSE IF t.calls # "none"
             THEN IF t.calls = "retrieval" /\ (t.results \in {"none", "echo"} \/ retrieval)
                  THEN "retrieval_call" ELSE "tool_call"
           ELSE IF t.results \in {"none", "echo"} \/ retrieval
                THEN "retrieval_result" ELSE "tool_result"
BY DEF Classify, SpokenShape, TurnShape

LEMMA ClassifyIsClass ==
  ASSUME NEW retrieval \in BOOLEAN, NEW t \in SpokenShape
  PROVE  Classify(retrieval, t) \in Class
BY ClassifyCases DEF Class

LEMMA AdvanceIsBoolean ==
  ASSUME NEW retrieval \in BOOLEAN, NEW t
  PROVE  Advance(retrieval, t) \in BOOLEAN
BY DEF Advance, ResultsOnly

\* Where a call was forgotten, only what answers it is classed otherwise.
LEMMA ClassifyForgets ==
  ASSUME NEW retrieval \in BOOLEAN, NEW t \in SpokenShape,
         Classify(FALSE, t) # Classify(retrieval, t)
  PROVE  t.results # "none" /\ Classify(FALSE, t) \in {"tool_call", "tool_result"}
BY ClassifyCases DEF SpokenShape, TurnShape

\* A write of the old intake reads the same behind any turn.
LEMMA ClassifyOld ==
  ASSUME NEW p \in BOOLEAN, NEW q \in BOOLEAN, NEW t \in SpokenShape, t.old
  PROVE  Classify(p, t) = Classify(q, t)
BY ClassifyCases DEF SpokenShape, TurnShape

LEMMA AlikeSame ==
  ASSUME NEW q \in BOOLEAN, NEW t \in SpokenShape, NEW u \in SpokenShape, Alike(t, u)
  PROVE  /\ Advance(q, t) = Advance(q, u)
         /\ Classify(q, t) = Classify(q, u)
         /\ ResultsOnly(t) = ResultsOnly(u)
<1>1. Classify(q, t) = Classify(q, u)
  BY ClassifyCases DEF Alike
<1> QED BY <1>1 DEF Advance, ResultsOnly, Alike

\* What the classifier remembers along a run.
LEMMA MemoryAlong ==
  ASSUME NEW q \in BOOLEAN, NEW run \in Seq(SpokenShape)
  PROVE  /\ \A i \in 1..Len(run) + 1 : Memory(q, run)[i] \in BOOLEAN
         /\ Memory(q, run)[1] = q
         /\ \A i \in 1..Len(run) : Memory(q, run)[i + 1] = Advance(Memory(q, run)[i], run[i])
<1>1. PICK m \in Nat : m = Len(run)
  OBVIOUS
<1> DEFINE Is(f) == f = [i \in 1..m + 1 |-> IF i = 1 THEN q ELSE Advance(f[i - 1], run[i - 1])]
<1>2. \E f : Is(f)
  <2>1. PICK step : step = [p \in Nat \X BOOLEAN |-> Advance(p[2], run[p[1]])]
    OBVIOUS
  <2>2. step \in [Nat \X BOOLEAN -> BOOLEAN]
    BY <2>1, AdvanceIsBoolean
  <2>3. PICK g : Solves(g, BOOLEAN, q, step, m)
    BY <2>2, RecursionDefines
  <2>4. PICK f : f = [i \in 1..m + 1 |-> g[i - 1]]
    OBVIOUS
  <2>5. g \in [0..m -> BOOLEAN] /\ g[0] = q
    BY <2>3 DEF Solves
  <2>6. ASSUME NEW i \in 1..m + 1
        PROVE  f[i] = IF i = 1 THEN q ELSE Advance(f[i - 1], run[i - 1])
    <3>1. CASE i = 1
      <4>1. f[i] = g[0]
        BY <2>4, <3>1
      <4> QED BY <2>5, <3>1, <4>1
    <3>2. CASE i # 1
      <4>1. i - 1 \in 1..m /\ i - 1 \in 1..m + 1 /\ i - 1 - 1 \in 0..m /\ i - 1 \in Nat
        BY <3>2
      <4>2. f[i] = g[i - 1] /\ f[i - 1] = g[i - 1 - 1] /\ g[i - 1 - 1] \in BOOLEAN
        BY <2>4, <2>5, <4>1
      <4>3. g[i - 1] = step[<<i - 1, g[i - 1 - 1]>>]
        BY <2>3, <4>1 DEF Solves
      <4>4. step[<<i - 1, g[i - 1 - 1]>>] = Advance(g[i - 1 - 1], run[i - 1])
        BY <2>1, <4>1, <4>2
      <4> QED BY <3>2, <4>2, <4>3, <4>4
    <3> QED BY <3>1, <3>2
  <2>7. Is(f)
    BY <2>4, <2>6
  <2> HIDE DEF Is
  <2> QED BY <2>7
<1>3. PICK f : f = CHOOSE g : Is(g)
  OBVIOUS
<1>4. Is(f)
  <2> HIDE DEF Is
  <2> QED BY <1>2, <1>3
<1>5. Memory(q, run) = f
  BY <1>1, <1>3 DEF Memory
<1>6. \A i \in 1..m + 1 : f[i] = IF i = 1 THEN q ELSE Advance(f[i - 1], run[i - 1])
  BY <1>4
<1>7. f[1] = q
  <2>1. 1 \in 1..m + 1
    OBVIOUS
  <2> QED BY <1>6, <2>1, Zenon
<1>8. ASSUME NEW i \in 1..m
      PROVE  f[i + 1] = Advance(f[i], run[i])
  <2>1. i + 1 \in 1..m + 1 /\ i + 1 # 1 /\ i + 1 - 1 = i
    OBVIOUS
  <2> QED BY <1>6, <2>1
<1>9. \A i \in 1..m + 1 : f[i] \in BOOLEAN
  <2> DEFINE S == {n \in Nat : n <= m => f[n + 1] \in BOOLEAN}
  <2>1. 0 \in S
    BY <1>7
  <2>2. ASSUME NEW n \in Nat, n \in S PROVE n + 1 \in S
    <3> SUFFICES ASSUME n + 1 <= m PROVE f[n + 1 + 1] \in BOOLEAN
      OBVIOUS
    <3>1. n + 1 \in 1..m /\ f[n + 1] \in BOOLEAN
      BY <2>2
    <3> QED BY <1>8, <3>1, AdvanceIsBoolean
  <2>3. \A n \in Nat : n \in S
    <3> HIDE DEF S
    <3> QED BY <2>1, <2>2, InductionOnSet
  <2>4. ASSUME NEW i \in 1..m + 1 PROVE f[i] \in BOOLEAN
    <3>1. i - 1 \in Nat /\ i - 1 <= m /\ i - 1 + 1 = i
      OBVIOUS
    <3> QED BY <2>3, <3>1
  <2> QED BY <2>4
<1> QED BY <1>1, <1>5, <1>7, <1>8, <1>9

\* A run is remembered as the part of a conversation that it is.
LEMMA MemoryOfPart ==
  ASSUME NEW p \in BOOLEAN, NEW q \in BOOLEAN,
         NEW run \in Seq(SpokenShape), NEW whole \in Seq(SpokenShape),
         NEW after \in Nat, NEW m \in Nat, PartOf(run, m, whole, after),
         p = Memory(q, whole)[after + 1]
  PROVE  \A i \in 1..m + 1 : Memory(p, run)[i] = Memory(q, whole)[after + i]
<1> DEFINE S == {n \in Nat : n <= m => Memory(p, run)[n + 1] = Memory(q, whole)[after + (n + 1)]}
<1>1. 0 \in S
  BY MemoryAlong
<1>2. ASSUME NEW n \in Nat, n \in S PROVE n + 1 \in S
  <2> SUFFICES ASSUME n + 1 <= m
               PROVE  Memory(p, run)[n + 1 + 1] = Memory(q, whole)[after + (n + 1 + 1)]
    OBVIOUS
  <2>1. PICK i : i = n + 1
    OBVIOUS
  <2>2. PICK k : k = after + i
    OBVIOUS
  <2>3. m <= Len(run) /\ after + m <= Len(whole) /\ \A j \in 1..m : Alike(run[j], whole[after + j])
    BY DEF PartOf
  <2>4. /\ i \in 1..m /\ i \in 1..Len(run) /\ k \in 1..Len(whole)
        /\ i \in 1..Len(run) + 1 /\ k \in 1..Len(whole) + 1
        /\ after + (n + 1 + 1) = k + 1 /\ n + 1 + 1 = i + 1
    BY <2>1, <2>2, <2>3
  <2>5. Memory(p, run)[i] = Memory(q, whole)[k]
    BY <1>2, <2>1, <2>2
  <2>6. Memory(p, run)[i + 1] = Advance(Memory(p, run)[i], run[i])
    BY <2>4, MemoryAlong
  <2>7. Memory(q, whole)[k + 1] = Advance(Memory(q, whole)[k], whole[k])
    BY <2>4, MemoryAlong
  <2>8. Memory(q, whole)[k] \in BOOLEAN
    BY <2>4, MemoryAlong
  <2>9. run[i] \in SpokenShape /\ whole[k] \in SpokenShape /\ Alike(run[i], whole[k])
    BY <2>2, <2>4, <2>3
  <2> QED BY <2>4, <2>5, <2>6, <2>7, <2>8, <2>9, AlikeSame
<1>3. \A n \in Nat : n \in S
  <2> HIDE DEF S
  <2> QED BY <1>1, <1>2, InductionOnSet
<1>4. ASSUME NEW i \in 1..m + 1 PROVE Memory(p, run)[i] = Memory(q, whole)[after + i]
  <2>1. i - 1 \in Nat /\ i - 1 <= m /\ i - 1 + 1 = i
    OBVIOUS
  <2>2. Memory(p, run)[i - 1 + 1] = Memory(q, whole)[after + (i - 1 + 1)]
    BY <1>3, <2>1
  <2> QED BY <2>1, <2>2
<1> QED BY <1>4

LEMMA ClassesAlong ==
  ASSUME NEW q \in BOOLEAN, NEW run \in Seq(SpokenShape)
  PROVE  /\ Classes(q, run) \in Seq(Class) /\ Len(Classes(q, run)) = Len(run)
         /\ \A i \in 1..Len(run) : Classes(q, run)[i] = Classify(Memory(q, run)[i], run[i])
<1>1. DOMAIN run = 1..Len(run)
  OBVIOUS
<1>2. \A i \in 1..Len(run) : Classify(Memory(q, run)[i], run[i]) \in Class
  <2>1. \A i \in 1..Len(run) : i \in 1..Len(run) + 1 /\ run[i] \in SpokenShape
    OBVIOUS
  <2> QED BY <2>1, MemoryAlong, ClassifyIsClass
<1>3. Classes(q, run) = [i \in 1..Len(run) |-> Classify(Memory(q, run)[i], run[i])]
  BY <1>1 DEF Classes
<1> QED BY <1>2, <1>3

LEMMA ClassesOfPart ==
  ASSUME NEW p \in BOOLEAN, NEW q \in BOOLEAN,
         NEW run \in Seq(SpokenShape), NEW whole \in Seq(SpokenShape),
         NEW after \in Nat, NEW m \in Nat, PartOf(run, m, whole, after),
         p = Memory(q, whole)[after + 1]
  PROVE  \A i \in 1..m : Classes(p, run)[i] = Classes(q, whole)[after + i]
<1> SUFFICES ASSUME NEW i \in 1..m
             PROVE  Classes(p, run)[i] = Classes(q, whole)[after + i]
  OBVIOUS
<1>1. PICK k : k = after + i
  OBVIOUS
<1>2. m <= Len(run) /\ after + m <= Len(whole) /\ \A j \in 1..m : Alike(run[j], whole[after + j])
  BY DEF PartOf
<1>3. i \in 1..Len(run) /\ k \in 1..Len(whole) /\ i \in 1..Len(run) + 1 /\ i \in 1..m + 1
  BY <1>1, <1>2
<1>4. Memory(p, run)[i] = Memory(q, whole)[k]
  <2>1. \A j \in 1..m + 1 : Memory(p, run)[j] = Memory(q, whole)[after + j]
    BY MemoryOfPart
  <2> QED BY <1>1, <1>3, <2>1
<1>5. Memory(p, run)[i] \in BOOLEAN
  BY <1>3, MemoryAlong
<1>6. run[i] \in SpokenShape /\ whole[k] \in SpokenShape /\ Alike(run[i], whole[k])
  BY <1>1, <1>3, <1>2
<1>7. Classes(p, run)[i] = Classify(Memory(p, run)[i], run[i])
  BY <1>3, ClassesAlong
<1>8. Classes(q, whole)[k] = Classify(Memory(q, whole)[k], whole[k])
  BY <1>3, ClassesAlong
<1> QED BY <1>1, <1>4, <1>5, <1>6, <1>7, <1>8, AlikeSame

\* What was remembered before a run no longer counts behind any turn of it but
\* results.
LEMMA MemoryForgets ==
  ASSUME NEW p \in BOOLEAN, NEW q \in BOOLEAN, NEW run \in Seq(SpokenShape)
  PROVE  \A i \in 1..Len(run) + 1 :
           \/ Memory(p, run)[i] = Memory(q, run)[i]
           \/ (\A m \in 1..i - 1 : ResultsOnly(run[m])) /\ Memory(p, run)[i] = p
<1> DEFINE Same(i) == Memory(p, run)[i] = Memory(q, run)[i]
           Trailing(i) == (\A m \in 1..i - 1 : ResultsOnly(run[m])) /\ Memory(p, run)[i] = p
           S == {n \in Nat : n <= Len(run) => Same(n + 1) \/ Trailing(n + 1)}
<1>1. 0 \in S
  BY MemoryAlong
<1>2. ASSUME NEW n \in Nat, n \in S PROVE n + 1 \in S
  <2> SUFFICES ASSUME n + 1 <= Len(run)
               PROVE  Same(n + 1 + 1) \/ Trailing(n + 1 + 1)
    OBVIOUS
  <2>1. PICK i \in Nat : i = n + 1
    OBVIOUS
  <2>2. i \in 1..Len(run) /\ i \in 1..Len(run) + 1 /\ i + 1 - 1 = i
    BY <2>1
  <2>3. Same(i) \/ Trailing(i)
    BY <1>2, <2>1
  <2>4. /\ Memory(p, run)[i + 1] = Advance(Memory(p, run)[i], run[i])
        /\ Memory(q, run)[i + 1] = Advance(Memory(q, run)[i], run[i])
        /\ Memory(p, run)[i] \in BOOLEAN /\ Memory(q, run)[i] \in BOOLEAN
    BY <2>2, MemoryAlong
  <2>5. CASE Same(i)
    BY <2>1, <2>4, <2>5
  <2>6. CASE Trailing(i)
    <3>1. CASE ResultsOnly(run[i])
      <4>1. \A m \in 1..i : m \in 1..i - 1 \/ m = i
        BY <2>2
      <4>2. \A m \in 1..i : ResultsOnly(run[m])
        BY <2>6, <3>1, <4>1
      <4>3. Memory(p, run)[i + 1] = p
        <5>1. Advance(p, run[i]) = p
          BY <3>1 DEF Advance, ResultsOnly
        <5> QED BY <2>4, <2>6, <5>1
      <4>4. Trailing(i + 1)
        BY <2>2, <4>2, <4>3
      <4> QED BY <2>1, <4>4
    <3>2. CASE ~ResultsOnly(run[i])
      <4>1. Advance(Memory(p, run)[i], run[i]) = Advance(Memory(q, run)[i], run[i])
        BY <3>2 DEF Advance
      <4> QED BY <2>1, <2>4, <4>1
    <3> QED BY <3>1, <3>2
  <2> QED BY <2>3, <2>5, <2>6
<1>3. \A n \in Nat : n \in S
  <2> HIDE DEF S
  <2> QED BY <1>1, <1>2, InductionOnSet
<1>4. ASSUME NEW i \in 1..Len(run) + 1 PROVE Same(i) \/ Trailing(i)
  <2>1. i - 1 \in Nat /\ i - 1 <= Len(run) /\ i - 1 + 1 = i
    OBVIOUS
  <2>2. Same(i - 1 + 1) \/ Trailing(i - 1 + 1)
    BY <1>3, <2>1
  <2> QED BY <2>1, <2>2
<1> QED BY <1>4

\* A run that is appended is classed as it reads, or was cut off.
LEMMA AppendedTruly ==
  ASSUME NEW s \in Seq(SpokenShape), NEW run \in Seq(SpokenShape),
         NEW p \in BOOLEAN, p <=> PickUp(s)
  PROVE  \A i \in 1..Len(run) :
           \/ Classes(p, run)[i] = AsRead(s \o run)[Len(s) + i]
           \/ /\ s # <<>> /\ ResultsOnly(s[Len(s)])
              /\ run[i].results # "none"
              /\ \A m \in 1..i - 1 : ResultsOnly(run[m])
              /\ Classes(p, run)[i] \in {"tool_call", "tool_result"}
<1> SUFFICES ASSUME NEW i \in 1..Len(run)
             PROVE  \/ Classes(p, run)[i] = AsRead(s \o run)[Len(s) + i]
                    \/ /\ s # <<>> /\ ResultsOnly(s[Len(s)])
                       /\ run[i].results # "none"
                       /\ \A m \in 1..i - 1 : ResultsOnly(run[m])
                       /\ Classes(p, run)[i] \in {"tool_call", "tool_result"}
  OBVIOUS
<1>1. PICK whole \in Seq(SpokenShape) : whole = s \o run
  BY ConcatProperties
<1>2. PICK last \in Nat : last = Len(s)
  OBVIOUS
<1>3. /\ Len(whole) = last + Len(run)
      /\ \A m \in 1..last : whole[m] = s[m]
      /\ \A m \in 1..Len(run) : whole[last + m] = run[m]
  BY <1>1, <1>2
<1>4. PICK start \in BOOLEAN : start = FALSE
  OBVIOUS
<1>5. PICK q \in BOOLEAN : q = Memory(start, whole)[last + 1]
  <2>1. last + 1 \in 1..Len(whole) + 1
    BY <1>3
  <2> QED BY <1>4, <2>1, MemoryAlong
<1>6. q \in BOOLEAN
  OBVIOUS
<1>7. AsRead(s \o run) = Classes(start, whole)
  BY <1>1, <1>4 DEF AsRead
<1>8. Classes(q, run)[i] = Classes(start, whole)[last + i]
  <2>1. PICK n \in Nat : n = Len(run)
    OBVIOUS
  <2>2. PartOf(run, n, whole, last)
    BY <1>3, <2>1 DEF PartOf, Alike
  <2>3. \A m \in 1..n : Classes(q, run)[m] = Classes(start, whole)[last + m]
    BY <1>5, <2>2, ClassesOfPart
  <2> QED BY <2>1, <2>3
<1>9. CASE p = q
  BY <1>2, <1>8, <1>9, <1>7
<1>10. CASE p # q
  <2>1. last # 0
    <3> SUFFICES ASSUME last = 0 PROVE FALSE
      OBVIOUS
    <3>1. q = FALSE
      BY <1>5, <1>4, MemoryAlong
    <3> QED BY <1>2, <1>10, <1>4, <3>1 DEF PickUp
  <2>2. last \in 1..Len(whole) /\ last \in 1..Len(whole) + 1 /\ last \in 1..last
    BY <1>3, <2>1
  <2>3. PICK before \in BOOLEAN : before = Memory(start, whole)[last]
    BY <1>4, <2>2, MemoryAlong
  <2>4. q = Advance(before, s[last])
    <3>1. whole[last] = s[last]
      BY <1>3, <2>2
    <3> QED BY <1>5, <1>4, <2>2, <2>3, <3>1, MemoryAlong
  <2>5. p = Advance(FALSE, s[last])
    <3>1. Advance(FALSE, s[last]) \in BOOLEAN
      BY AdvanceIsBoolean
    <3> QED BY <1>2, <2>1, <3>1 DEF PickUp
  <2>6. ResultsOnly(s[last]) /\ p = FALSE
    BY <1>6, <1>10, <2>3, <2>4, <2>5 DEF Advance, ResultsOnly
  <2>7. s # <<>>
    BY <1>2, <2>1
  <2>8. i \in 1..Len(run) + 1 /\ run[i] \in SpokenShape
    OBVIOUS
  <2>9. /\ Memory(p, run)[i] \in BOOLEAN /\ Memory(q, run)[i] \in BOOLEAN
        /\ Classes(p, run)[i] = Classify(Memory(p, run)[i], run[i])
        /\ Classes(q, run)[i] = Classify(Memory(q, run)[i], run[i])
    BY <1>6, <2>8, MemoryAlong, ClassesAlong
  <2>10. \/ Memory(p, run)[i] = Memory(q, run)[i]
         \/ (\A m \in 1..i - 1 : ResultsOnly(run[m])) /\ Memory(p, run)[i] = p
    BY <1>6, <2>8, MemoryForgets
  <2>11. CASE Memory(p, run)[i] = Memory(q, run)[i]
    BY <1>2, <1>8, <1>7, <2>9, <2>11
  <2>12. CASE (\A m \in 1..i - 1 : ResultsOnly(run[m])) /\ Memory(p, run)[i] = p
    <3>1. CASE Classes(p, run)[i] = Classes(q, run)[i]
      BY <1>2, <1>8, <1>7, <3>1
    <3>2. CASE Classes(p, run)[i] # Classes(q, run)[i]
      <4>1. run[i].results # "none" /\ Classify(FALSE, run[i]) \in {"tool_call", "tool_result"}
        <5>1. Classify(FALSE, run[i]) # Classify(Memory(q, run)[i], run[i])
          BY <2>6, <2>9, <2>12, <3>2
        <5> QED BY <2>8, <2>9, <5>1, ClassifyForgets
      <4>2. Classes(p, run)[i] = Classify(FALSE, run[i])
        BY <2>6, <2>9, <2>12
      <4> QED BY <1>2, <2>6, <2>7, <2>12, <4>1, <4>2
    <3> QED BY <3>1, <3>2
  <2> QED BY <2>10, <2>11, <2>12
<1> QED BY <1>9, <1>10

-----------------------------------------------------------------------------
(* A conversation read from its start.                                     *)

LEMMA RecallAlong ==
  ASSUME NEW run \in Seq(SpokenShape)
  PROVE  /\ \A i \in 1..Len(run) + 1 : Recall(run)[i] \in BOOLEAN
         /\ Recall(run)[1] = FALSE
         /\ AsRead(run) \in Seq(Class) /\ Len(AsRead(run)) = Len(run)
<1>1. PICK start \in BOOLEAN : start = FALSE
  OBVIOUS
<1>2. Recall(run) = Memory(start, run) /\ AsRead(run) = Classes(start, run)
  BY <1>1 DEF Recall, AsRead
<1>3. /\ \A i \in 1..Len(run) + 1 : Memory(start, run)[i] \in BOOLEAN
      /\ Memory(start, run)[1] = start
  BY MemoryAlong
<1>4. Classes(start, run) \in Seq(Class) /\ Len(Classes(start, run)) = Len(run)
  BY ClassesAlong
<1> QED BY <1>1, <1>2, <1>3, <1>4

\* A window taken up where it was left reads as the conversation does.
LEMMA WindowRead ==
  ASSUME NEW p \in BOOLEAN, NEW run \in Seq(SpokenShape), NEW whole \in Seq(SpokenShape),
         NEW after \in Nat, NEW m \in Nat, PartOf(run, m, whole, after),
         p = Recall(whole)[after + 1]
  PROVE  /\ \A i \in 1..m + 1 : Memory(p, run)[i] = Recall(whole)[after + i]
         /\ \A i \in 1..m : Classes(p, run)[i] = AsRead(whole)[after + i]
<1>1. PICK start \in BOOLEAN : start = FALSE
  OBVIOUS
<1>2. Recall(whole) = Memory(start, whole) /\ AsRead(whole) = Classes(start, whole)
  BY <1>1 DEF Recall, AsRead
<1>3. p = Memory(start, whole)[after + 1]
  BY <1>2
<1>4. \A i \in 1..m + 1 : Memory(p, run)[i] = Memory(start, whole)[after + i]
  BY <1>3, MemoryOfPart
<1>5. \A i \in 1..m : Classes(p, run)[i] = Classes(start, whole)[after + i]
  BY <1>3, ClassesOfPart
<1> QED BY <1>2, <1>4, <1>5

\* What begins alike reads alike.
LEMMA BeginningRead ==
  ASSUME NEW run \in Seq(SpokenShape), NEW whole \in Seq(SpokenShape),
         NEW m \in Nat, PartOf(run, m, whole, 0)
  PROVE  /\ \A i \in 1..m + 1 : Recall(run)[i] = Recall(whole)[i]
         /\ \A i \in 1..m : AsRead(run)[i] = AsRead(whole)[i]
<1>1. PICK start \in BOOLEAN : start = FALSE
  OBVIOUS
<1>2. Recall(run) = Memory(start, run) /\ AsRead(run) = Classes(start, run)
  BY <1>1 DEF Recall, AsRead
<1>3. PICK zero \in Nat : zero = 0
  OBVIOUS
<1>4. start = Recall(whole)[zero + 1]
  <2>1. zero + 1 = 1
    BY <1>3
  <2> QED BY <1>1, <2>1, RecallAlong
<1>5. PartOf(run, m, whole, zero)
  BY <1>3
<1>6. /\ \A i \in 1..m + 1 : Memory(start, run)[i] = Recall(whole)[zero + i]
      /\ \A i \in 1..m : Classes(start, run)[i] = AsRead(whole)[zero + i]
  BY <1>4, <1>5, WindowRead
<1> QED BY <1>2, <1>3, <1>6

\* A write of the old intake is classed as it reads wherever one begins.
LEMMA OldRead ==
  ASSUME NEW p \in BOOLEAN, NEW run \in Seq(SpokenShape), NEW whole \in Seq(SpokenShape),
         NEW after \in Nat, PartOf(run, Len(run), whole, after)
  PROVE  \A i \in 1..Len(run) : run[i].old => Classes(p, run)[i] = AsRead(whole)[after + i]
<1> SUFFICES ASSUME NEW i \in 1..Len(run), run[i].old
             PROVE  Classes(p, run)[i] = AsRead(whole)[after + i]
  OBVIOUS
<1>1. PICK start \in BOOLEAN : start = FALSE
  OBVIOUS
<1>2. PICK k \in Nat : k = after + i
  OBVIOUS
<1>3. k \in 1..Len(whole) /\ k \in 1..Len(whole) + 1 /\ i \in 1..Len(run) + 1 /\ Alike(run[i], whole[k])
  BY <1>2 DEF PartOf
<1>4. run[i] \in SpokenShape /\ whole[k] \in SpokenShape
  BY <1>3
<1>5. Classes(p, run)[i] = Classify(Memory(p, run)[i], run[i]) /\ Memory(p, run)[i] \in BOOLEAN
  BY <1>3, ClassesAlong, MemoryAlong
<1>6. /\ Classes(start, whole)[k] = Classify(Memory(start, whole)[k], whole[k])
      /\ Memory(start, whole)[k] \in BOOLEAN
  BY <1>3, ClassesAlong, MemoryAlong
<1>7. Classify(Memory(p, run)[i], run[i]) = Classify(Memory(start, whole)[k], run[i])
  BY <1>4, <1>5, <1>6, ClassifyOld
<1>8. Classify(Memory(start, whole)[k], run[i]) = Classify(Memory(start, whole)[k], whole[k])
  BY <1>3, <1>4, <1>6, AlikeSame
<1> QED BY <1>1, <1>2, <1>5, <1>6, <1>7, <1>8 DEF AsRead

-----------------------------------------------------------------------------
(* The invariant.                                                          *)

TurnsSound ==
  /\ turns \in Seq(SpokenShape) /\ Len(turns) <= MaxTurns
  /\ class \in Seq(Class \union {Unclassed}) /\ Len(class) = Len(turns)
  /\ rewrite \in 0..Rewritten
  /\ queued \subseteq DOMAIN turns /\ missed \subseteq DOMAIN turns /\ cuts \subseteq DOMAIN turns
  /\ stumbles \in 0..MaxStumbles

LoopPlace == {"idle", "probe", "read", "write", "label", "restate", "queue"}

LoopState ==
  [at : LoopPlace, after : Nat, retrieval : BOOLEAN, read : Seq(Class), written : BOOLEAN,
   replaced : SUBSET Nat]

LoopSound ==
  /\ loop \in LoopState
  /\ loop.after + Len(loop.read) <= MaxTurns /\ Len(loop.read) <= BackfillWindow
  /\ loop.at # "write" => loop.read = <<>>

SomeBlank == \E n \in DOMAIN class : class[n] = Unclassed

\* While a class is missing, the conversation is the one the loop has read up
\* to where it is, and it remembers what reading that gave.
LoopKnows ==
  SomeBlank =>
    /\ loop.after + Len(loop.read) <= Len(turns)
    /\ \A i \in 1..Len(loop.read) : loop.read[i] = AsRead(turns)[loop.after + i]
    /\ loop.retrieval = Recall(turns)[loop.after + Len(loop.read) + 1]

\* A pass that has found no class to write has left none missing behind it.
SweptBehind ==
  /\ ~loop.written => \A n \in DOMAIN class : class[n] = Unclassed => n > loop.after
  /\ loop.at = "label" => ~SomeBlank

TurnsInv == TurnsSound /\ LoopSound /\ ClassedTruly /\ LoopKnows /\ SweptBehind

\* The window behind a turn.
LEMMA WindowIsPart ==
  ASSUME turns \in Seq(SpokenShape), NEW n \in Nat
  PROVE  /\ WindowAfter(n) \in Seq(SpokenShape) /\ Len(WindowAfter(n)) <= BackfillWindow
         /\ WindowAfter(n) = <<>> <=> n >= Len(turns)
         /\ n < Len(turns) => PartOf(WindowAfter(n), Len(WindowAfter(n)), turns, n)
         /\ \A i \in 1..Len(WindowAfter(n)) : WindowAfter(n)[i] = turns[n + i]
<1>1. PICK last \in Nat : last = IF n + BackfillWindow < Len(turns) THEN n + BackfillWindow ELSE Len(turns)
  BY TurnAssumption
<1>2. WindowAfter(n) = SubSeq(turns, n + 1, last)
  BY <1>1 DEF WindowAfter
<1>3. CASE n < Len(turns)
  <2>1. n < last /\ last <= Len(turns) /\ last <= n + BackfillWindow
    BY <1>1, <1>3, TurnAssumption
  <2>2. \A i \in n + 1 .. last : turns[i] \in SpokenShape
    BY <2>1
  <2>3. /\ WindowAfter(n) \in Seq(SpokenShape) /\ Len(WindowAfter(n)) = last - n
        /\ \A i \in 1..last - n : WindowAfter(n)[i] = turns[n + i]
    BY <1>2, <2>1
  <2>4. WindowAfter(n) # <<>>
    BY <2>1, <2>3
  <2> QED BY <1>3, <2>1, <2>3, <2>4, TurnAssumption DEF PartOf, Alike
<1>4. CASE n >= Len(turns)
  <2>1. last < n + 1
    BY <1>1, <1>4, TurnAssumption
  <2>2. WindowAfter(n) = <<>>
    BY <1>2, <2>1, SubSeqEmpty
  <2> QED BY <1>4, <2>2, TurnAssumption
<1> QED BY <1>3, <1>4

\* A loop that has read nothing.
LEMMA LoopAfresh ==
  ASSUME NEW at \in LoopPlace, NEW replaced \in SUBSET Nat
  PROVE  /\ LoopAt(at, replaced) \in LoopState /\ LoopAt(at, replaced).at = at
         /\ LoopAt(at, replaced).after = 0 /\ LoopAt(at, replaced).read = <<>>
         /\ LoopAt(at, replaced).retrieval = FALSE
<1>1. <<>> \in Seq(Class)
  BY EmptySeq
<1>2. PICK no \in BOOLEAN : no = FALSE
  OBVIOUS
<1>3. LoopAt(at, replaced) = [at |-> at, after |-> 0, retrieval |-> no, read |-> <<>>,
                              written |-> no, replaced |-> replaced]
  BY <1>2 DEF LoopAt
<1>4. LoopAt(at, replaced) \in LoopState
  BY <1>1, <1>3 DEF LoopState
<1>5. /\ LoopAt(at, replaced).at = at /\ LoopAt(at, replaced).after = 0
      /\ LoopAt(at, replaced).retrieval = no /\ LoopAt(at, replaced).read = <<>>
  BY <1>3
<1> QED BY <1>2, <1>4, <1>5

-----------------------------------------------------------------------------
(* The start.                                                              *)

LEMMA TurnsInitially == TurnsInit => TurnsInv
<1> SUFFICES ASSUME TurnsInit PROVE TurnsInv
  OBVIOUS
<1>1. turns \in Seq(SpokenShape) /\ Len(turns) <= MaxTurns
  <2>1. PICK m \in 0..MaxStored : turns \in [1..m -> Shape]
    BY TurnAssumption DEF TurnsInit
  <2>2. turns \in [1..m -> SpokenShape] /\ m \in Nat /\ m <= MaxTurns
    BY <2>1, TurnAssumption, ShapesAreSpoken
  <2> QED BY <2>2
<1>2. PICK n \in 0..Len(turns) :
        class = [i \in DOMAIN turns |-> IF i <= n THEN Unclassed ELSE AsRead(turns)[i]]
  BY DEF TurnsInit, AsRead
<1>3. DOMAIN turns = 1..Len(turns)
  BY <1>1
<1>4. AsRead(turns) \in Seq(Class) /\ Len(AsRead(turns)) = Len(turns) /\ Recall(turns)[1] = FALSE
  BY <1>1, RecallAlong
<1>5. class \in Seq(Class \union {Unclassed}) /\ Len(class) = Len(turns)
  <2>1. \A i \in 1..Len(turns) : AsRead(turns)[i] \in Class
    BY <1>4
  <2>2. class \in [1..Len(turns) -> Class \union {Unclassed}]
    BY <1>2, <1>3, <2>1
  <2> QED BY <1>1, <2>2
<1>6. TurnsSound
  <2>1. /\ rewrite = 0 /\ queued = DOMAIN turns /\ missed = {} /\ cuts = {} /\ stumbles = 0
    BY DEF TurnsInit
  <2>2. rewrite \in 0..Rewritten /\ stumbles \in 0..MaxStumbles
    BY <2>1, TurnAssumption DEF Rewritten
  <2> QED BY <1>1, <1>5, <2>1, <2>2 DEF TurnsSound
<1>7. LoopSound /\ loop.after = 0 /\ loop.read = <<>> /\ loop.retrieval = FALSE /\ loop.at = "idle"
  <2>1. PICK at \in LoopPlace : at = "idle"
    BY DEF LoopPlace
  <2>2. PICK replaced \in SUBSET Nat : replaced = {}
    OBVIOUS
  <2>3. loop = LoopAt(at, replaced)
    BY <2>1, <2>2 DEF TurnsInit
  <2>4. /\ LoopAt(at, replaced) \in LoopState /\ LoopAt(at, replaced).at = at
        /\ LoopAt(at, replaced).after = 0 /\ LoopAt(at, replaced).read = <<>>
        /\ LoopAt(at, replaced).retrieval = FALSE
    BY LoopAfresh
  <2>5. loop \in LoopState /\ loop.after = 0 /\ loop.read = <<>> /\ loop.at = "idle"
    BY <2>1, <2>3, <2>4
  <2>6. loop.retrieval = FALSE
    BY <2>3, <2>4, Zenon
  <2> QED BY <2>5, <2>6, TurnAssumption DEF LoopSound
<1>8. ClassedTruly
  BY <1>2 DEF ClassedTruly, ClassedAsRead, AsRead
<1>9. LoopKnows
  <2>1. Len(loop.read) = 0 /\ loop.after + Len(loop.read) + 1 = 1
    BY <1>7
  <2>2. loop.retrieval = Recall(turns)[1]
    BY <1>4, <1>7, Zenon
  <2>3. loop.after + Len(loop.read) <= Len(turns)
    BY <1>1, <1>7, <2>1
  <2> QED BY <2>1, <2>2, <2>3 DEF LoopKnows
<1>10. SweptBehind
  BY <1>5, <1>7 DEF SweptBehind
<1> QED BY <1>6, <1>7, <1>8, <1>9, <1>10 DEF TurnsInv

-----------------------------------------------------------------------------
(* Steps of the loop that leave the turns and their classes alone.         *)

\* The loop is sent somewhere, and has read nothing there.
LEMMA LoopSent ==
  ASSUME TurnsInv, UNCHANGED <<turns, class, cuts>>,
         rewrite' \in 0..Rewritten, queued' \subseteq DOMAIN turns, missed' \subseteq DOMAIN turns,
         stumbles' \in 0..MaxStumbles,
         NEW at \in {"idle", "probe", "read", "label", "restate", "queue"},
         NEW replaced \in SUBSET Nat,
         loop' = LoopAt(at, replaced),
         at = "label" => ~SomeBlank
  PROVE  TurnsInv'
<1>1. TurnsSound'
  BY DEF TurnsInv, TurnsSound
<1>2. LoopSound' /\ loop'.after = 0 /\ loop'.read = <<>> /\ loop'.retrieval = FALSE /\ loop'.at = at
  <2>1. at \in LoopPlace
    BY DEF LoopPlace
  <2>2. /\ LoopAt(at, replaced) \in LoopState /\ LoopAt(at, replaced).at = at
        /\ LoopAt(at, replaced).after = 0 /\ LoopAt(at, replaced).read = <<>>
        /\ LoopAt(at, replaced).retrieval = FALSE
    BY <2>1, LoopAfresh
  <2>3. loop' \in LoopState /\ loop'.after = 0 /\ loop'.read = <<>> /\ loop'.at = at
    BY <2>2
  <2>4. loop'.retrieval = FALSE
    BY <2>2, Zenon
  <2> QED BY <2>3, <2>4, TurnAssumption DEF LoopSound
<1>3. ClassedTruly'
  BY DEF TurnsInv, ClassedTruly, ClassedAsRead, CutOff
<1>4. LoopKnows'
  <2>1. Len(loop'.read) = 0 /\ loop'.after + Len(loop'.read) + 1 = 1
    BY <1>2
  <2>2. turns' \in Seq(SpokenShape)
    BY DEF TurnsInv, TurnsSound
  <2>3. Recall(turns')[1] = FALSE
    BY <2>2, RecallAlong
  <2>4. loop'.retrieval = Recall(turns')[1]
    BY <1>2, <2>3, Zenon
  <2>5. loop'.after + Len(loop'.read) <= Len(turns')
    BY <1>2, <2>1, <2>2
  <2> QED BY <2>1, <2>4, <2>5 DEF LoopKnows
<1>5. SweptBehind'
  BY <1>2 DEF TurnsInv, TurnsSound, SweptBehind, SomeBlank
<1> QED BY <1>1, <1>2, <1>3, <1>4, <1>5 DEF TurnsInv

\* The same, of a loop that holds nothing.
LEMMA LoopGoesOn ==
  ASSUME TurnsInv, UNCHANGED <<turns, class, cuts>>,
         rewrite' \in 0..Rewritten, queued' \subseteq DOMAIN turns, missed' \subseteq DOMAIN turns,
         stumbles' \in 0..MaxStumbles,
         NEW at \in {"idle", "probe", "read", "label", "restate", "queue"},
         LoopGoes(at), at = "label" => ~SomeBlank
  PROVE  TurnsInv'
<1>1. PICK replaced \in SUBSET Nat : replaced = {}
  OBVIOUS
<1>2. loop' = LoopAt(at, replaced)
  BY <1>1 DEF LoopGoes
<1> QED BY <1>2, LoopSent

\* A conversation with no class missing is read to its end without a write.
LEMMA EndIsSwept ==
  ASSUME TurnsInv, ~loop.written, WindowAfter(loop.after) = <<>>
  PROVE  ~SomeBlank
<1> SUFFICES ASSUME NEW n \in DOMAIN class, class[n] = Unclassed PROVE FALSE
  BY DEF SomeBlank
<1>1. n \in 1..Len(turns) /\ n > loop.after
  BY DEF TurnsInv, TurnsSound, SweptBehind
<1>2. loop.after \in Nat /\ turns \in Seq(SpokenShape)
  BY DEF TurnsInv, TurnsSound, LoopSound, LoopState
<1>3. loop.after >= Len(turns)
  BY <1>2, WindowIsPart
<1> QED BY <1>1, <1>2, <1>3

LEMMA LoopStepsOn ==
  ASSUME TurnsInv,
         Tick \/ ProbeUnclassed \/ ReadToEnd \/ NothingToRestate \/ QueueReplaced \/ WaitForQueue
           \/ PassStops \/ RestartSweeps
  PROVE  TurnsInv'
<1>1. /\ rewrite \in 0..Rewritten /\ queued \subseteq DOMAIN turns /\ missed \subseteq DOMAIN turns
      /\ stumbles \in 0..MaxStumbles
  BY DEF TurnsInv, TurnsSound
<1>2. CASE Tick
  BY <1>2, <1>1, LoopGoesOn DEF Tick
<1>3. CASE ProbeUnclassed
  BY <1>3, <1>1, LoopGoesOn DEF ProbeUnclassed
<1>4. CASE ReadToEnd
  <2>1. PICK at : at = IF loop.written THEN "probe" ELSE "label"
    OBVIOUS
  <2>2. LoopGoes(at)
    BY <1>4, <2>1 DEF ReadToEnd
  <2>3. at = "label" => ~SomeBlank
    BY <1>4, <2>1, EndIsSwept DEF ReadToEnd
  <2> QED BY <1>4, <1>1, <2>1, <2>2, <2>3, LoopGoesOn DEF ReadToEnd
<1>5. CASE NothingToRestate
  BY <1>5, <1>1, LoopGoesOn DEF NothingToRestate
<1>6. CASE QueueReplaced
  BY <1>6, <1>1, LoopGoesOn DEF QueueReplaced
<1>7. CASE WaitForQueue
  BY <1>7, <1>1, LoopGoesOn DEF WaitForQueue
<1>8. CASE PassStops
  <2>1. stumbles' \in 0..MaxStumbles
    BY <1>8, <1>1, TurnAssumption DEF PassStops, Stumble
  <2>2. missed' \subseteq DOMAIN turns /\ UNCHANGED <<turns, class, rewrite, queued, cuts>>
    BY <1>8, <1>1 DEF PassStops
  <2>3. LoopGoes("idle")
    BY <1>8 DEF PassStops
  <2> QED BY <1>1, <2>1, <2>2, <2>3, LoopGoesOn
<1>9. CASE RestartSweeps
  <2>1. stumbles' \in 0..MaxStumbles
    BY <1>9, <1>1, TurnAssumption DEF RestartSweeps, Stumble
  <2>2. /\ queued' \subseteq DOMAIN turns /\ missed' \subseteq DOMAIN turns
        /\ UNCHANGED <<turns, class, rewrite, cuts>>
    BY <1>9 DEF RestartSweeps
  <2>3. LoopGoes("idle")
    BY <1>9 DEF RestartSweeps
  <2> QED BY <1>1, <2>1, <2>2, <2>3, LoopGoesOn
<1> QED BY <1>2, <1>3, <1>4, <1>5, <1>6, <1>7, <1>8, <1>9

\* A window is read, on from where the last one ended.
LEMMA WindowTaken ==
  ASSUME TurnsInv, ReadWindow
  PROVE  TurnsInv'
<1>1. PICK after \in Nat : after = loop.after
  BY DEF TurnsInv, LoopSound, LoopState
<1>2. PICK run : run = WindowAfter(after)
  OBVIOUS
<1>3. turns \in Seq(SpokenShape) /\ Len(turns) <= MaxTurns
  BY DEF TurnsInv, TurnsSound
<1>4. /\ run \in Seq(SpokenShape) /\ Len(run) <= BackfillWindow
      /\ after < Len(turns) /\ PartOf(run, Len(run), turns, after)
  <2>1. run # <<>>
    BY <1>1, <1>2 DEF ReadWindow
  <2>2. /\ run \in Seq(SpokenShape) /\ Len(run) <= BackfillWindow
        /\ run = <<>> <=> after >= Len(turns)
        /\ after < Len(turns) => PartOf(run, Len(run), turns, after)
    BY <1>2, <1>3, WindowIsPart
  <2> QED BY <1>3, <2>1, <2>2
<1>5. PICK n \in Nat : n = Len(run)
  BY <1>4
<1>6. PICK p \in BOOLEAN : p = loop.retrieval
  BY DEF TurnsInv, LoopSound, LoopState
<1>7. loop.at = "read" /\ loop.read = <<>> /\ after + n <= Len(turns)
  BY <1>4, <1>5 DEF ReadWindow, TurnsInv, LoopSound, PartOf
<1>8. /\ Classes(p, run) \in Seq(Class) /\ Len(Classes(p, run)) = n
      /\ Memory(p, run)[n + 1] \in BOOLEAN
  <2>1. n + 1 \in 1..Len(run) + 1
    BY <1>5
  <2> QED BY <1>4, <1>5, <2>1, ClassesAlong, MemoryAlong
<1>9. loop' = [loop EXCEPT !.at = "write", !.read = Classes(p, run), !.retrieval = Memory(p, run)[n + 1]]
  BY <1>1, <1>2, <1>5, <1>6 DEF ReadWindow, TakeAlong
<1>10. UNCHANGED <<turns, class, rewrite, queued, missed, cuts, stumbles>>
  BY DEF ReadWindow
<1>11. /\ loop'.at = "write" /\ loop'.read = Classes(p, run) /\ loop'.after = after
       /\ loop'.retrieval = Memory(p, run)[n + 1] /\ loop'.written = loop.written
       /\ loop' \in LoopState
  BY <1>1, <1>8, <1>9 DEF TurnsInv, LoopSound, LoopState, LoopPlace
<1>12. TurnsSound'
  BY <1>10 DEF TurnsInv, TurnsSound
<1>13. LoopSound'
  <2>1. loop'.after + Len(loop'.read) <= MaxTurns /\ Len(loop'.read) <= BackfillWindow
    BY <1>3, <1>4, <1>5, <1>7, <1>8, <1>11, TurnAssumption
  <2> QED BY <1>11, <2>1 DEF LoopSound
<1>14. ClassedTruly'
  BY <1>10 DEF TurnsInv, ClassedTruly, ClassedAsRead, CutOff
<1>15. LoopKnows'
  <2> SUFFICES ASSUME SomeBlank'
               PROVE  /\ after + n <= Len(turns)
                      /\ \A i \in 1..n : Classes(p, run)[i] = AsRead(turns)[after + i]
                      /\ Memory(p, run)[n + 1] = Recall(turns)[after + n + 1]
    BY <1>8, <1>10, <1>11 DEF LoopKnows
  <2>1. SomeBlank
    BY <1>10 DEF SomeBlank
  <2>2. p = Recall(turns)[after + 1]
    <3>1. after + Len(loop.read) + 1 = after + 1
      BY <1>7
    <3> QED BY <1>1, <1>6, <2>1, <3>1 DEF TurnsInv, LoopKnows
  <2>3. PartOf(run, n, turns, after)
    BY <1>4, <1>5
  <2>4. /\ \A i \in 1..n + 1 : Memory(p, run)[i] = Recall(turns)[after + i]
        /\ \A i \in 1..n : Classes(p, run)[i] = AsRead(turns)[after + i]
    BY <1>3, <1>4, <2>2, <2>3, WindowRead
  <2>5. n + 1 \in 1..n + 1 /\ after + (n + 1) = after + n + 1
    OBVIOUS
  <2> QED BY <1>7, <2>4, <2>5
<1>16. SweptBehind'
  BY <1>1, <1>10, <1>11 DEF TurnsInv, SweptBehind, SomeBlank
<1> QED BY <1>12, <1>13, <1>14, <1>15, <1>16 DEF TurnsInv

-----------------------------------------------------------------------------
(* Steps that give classes.                                                *)

LEMMA WindowWritten ==
  ASSUME TurnsInv, WriteWindow
  PROVE  TurnsInv'
<1>1. PICK after \in Nat : after = loop.after
  BY DEF TurnsInv, LoopSound, LoopState
<1>2. PICK read \in Seq(Class) : read = loop.read
  BY DEF TurnsInv, LoopSound, LoopState
<1>3. PICK k \in Nat : k = Len(read)
  BY <1>2
<1>4. PICK blank : blank = {n \in DOMAIN class \intersect (after + 1 .. after + k) : class[n] = Unclassed}
  OBVIOUS
<1>5. /\ class' = [n \in DOMAIN class |-> IF n \in blank THEN read[n - after] ELSE class[n]]
      /\ loop' = [loop EXCEPT !.at = "read", !.after = after + k, !.read = <<>>,
                    !.written = @ \/ blank # {}]
      /\ UNCHANGED <<turns, rewrite, queued, missed, cuts, stumbles>>
  BY <1>1, <1>2, <1>3, <1>4 DEF WriteWindow
<1>6. turns \in Seq(SpokenShape) /\ Len(turns) <= MaxTurns
  BY DEF TurnsInv, TurnsSound
<1>7. class \in Seq(Class \union {Unclassed}) /\ Len(class) = Len(turns) /\ DOMAIN class = 1..Len(turns)
  BY <1>6 DEF TurnsInv, TurnsSound
<1>8. \A n \in blank : /\ n \in 1..Len(turns) /\ n - after \in 1..k /\ after + (n - after) = n
                       /\ class[n] = Unclassed /\ read[n - after] \in Class
  <2> SUFFICES ASSUME NEW n \in blank
               PROVE  /\ n \in 1..Len(turns) /\ n - after \in 1..k /\ after + (n - after) = n
                      /\ class[n] = Unclassed /\ read[n - after] \in Class
    OBVIOUS
  <2>1. n \in 1..Len(turns) /\ n \in after + 1 .. after + k /\ class[n] = Unclassed
    BY <1>4, <1>7
  <2>2. n - after \in 1..k /\ after + (n - after) = n
    BY <2>1
  <2>3. read[n - after] \in Class
    BY <1>3, <2>2
  <2> QED BY <2>1, <2>2, <2>3
<1>9. class' \in Seq(Class \union {Unclassed}) /\ Len(class') = Len(turns) /\ DOMAIN class' = 1..Len(turns)
  <2>1. \A n \in 1..Len(turns) : class[n] \in Class \union {Unclassed}
    BY <1>7
  <2>2. class' \in [1..Len(turns) -> Class \union {Unclassed}]
    BY <1>5, <1>7, <1>8, <2>1
  <2> QED BY <1>6, <2>2
<1>10. \A n \in 1..Len(turns) : /\ n \in blank => class'[n] = read[n - after]
                                /\ n \notin blank => class'[n] = class[n]
  BY <1>5, <1>7
<1>11. Unclassed \notin Class
  BY DEF Class, Unclassed
<1>12. \A n \in 1..Len(turns) : class'[n] = Unclassed => n \notin blank /\ class[n] = Unclassed
  BY <1>8, <1>10, <1>11
<1>13. SomeBlank' => SomeBlank
  BY <1>7, <1>9, <1>12 DEF SomeBlank
<1>14. blank # {} => SomeBlank
  BY <1>7, <1>8 DEF SomeBlank
<1>15. TurnsSound'
  BY <1>5, <1>9 DEF TurnsInv, TurnsSound
<1>16. /\ loop' \in LoopState /\ loop'.at = "read" /\ loop'.after = after + k /\ loop'.read = <<>>
       /\ loop'.retrieval = loop.retrieval /\ Len(loop'.read) = 0
  <2>1. <<>> \in Seq(Class) /\ Len(<<>>) = 0
    BY EmptySeq
  <2>2. loop \in LoopState
    BY DEF TurnsInv, LoopSound
  <2>3. PICK written \in BOOLEAN : written = (loop.written \/ blank # {})
    OBVIOUS
  <2>4. PICK empty \in Seq(Class) : empty = <<>>
    BY <2>1
  <2>5. loop' = [loop EXCEPT !.at = "read", !.after = after + k, !.read = empty, !.written = written]
    BY <1>5, <2>3, <2>4
  <2>6. /\ loop.retrieval \in BOOLEAN /\ loop.replaced \in SUBSET Nat
        /\ loop = [at |-> loop.at, after |-> loop.after, retrieval |-> loop.retrieval,
                   read |-> loop.read, written |-> loop.written, replaced |-> loop.replaced]
    BY <2>2 DEF LoopState
  <2>7. loop' = [at |-> "read", after |-> after + k, retrieval |-> loop.retrieval, read |-> empty,
                 written |-> written, replaced |-> loop.replaced]
    BY <2>5, <2>6
  <2>8. loop' \in LoopState
    BY <2>6, <2>7 DEF LoopState, LoopPlace
  <2>9. /\ loop'.at = "read" /\ loop'.after = after + k /\ loop'.read = empty
        /\ loop'.retrieval = loop.retrieval
    BY <2>7
  <2> QED BY <2>1, <2>4, <2>8, <2>9
<1>17. LoopSound'
  <2>1. after + k <= MaxTurns
    BY <1>1, <1>2, <1>3 DEF TurnsInv, LoopSound
  <2> QED BY <1>16, <2>1, TurnAssumption DEF LoopSound
<1>18. ClassedTruly'
  <2>1. ASSUME NEW n \in blank PROVE ClassedAsRead(n)'
    <3>1. n \in 1..Len(turns) /\ n - after \in 1..k /\ after + (n - after) = n
      BY <1>8, <2>1
    <3>2. read[n - after] = AsRead(turns)[after + (n - after)]
      BY <1>2, <1>3, <1>1, <1>14, <2>1, <3>1 DEF TurnsInv, LoopKnows
    <3>3. class'[n] = AsRead(turns)[n]
      BY <1>10, <2>1, <3>1, <3>2
    <3> QED BY <1>5, <3>3 DEF ClassedAsRead, AsRead
  <2>2. ASSUME NEW n \in 1..Len(turns), n \notin blank
        PROVE  class'[n] = Unclassed \/ ClassedAsRead(n)'
    <3>1. class'[n] = class[n] /\ (class[n] = Unclassed \/ ClassedAsRead(n))
      BY <1>6, <1>10, <2>2 DEF TurnsInv, ClassedTruly
    <3> QED BY <1>5, <3>1 DEF ClassedAsRead, CutOff
  <2>3. \A n \in 1..Len(turns) : class'[n] = Unclassed \/ ClassedAsRead(n)'
    BY <2>1, <2>2
  <2>4. DOMAIN turns' = 1..Len(turns)
    BY <1>5, <1>6
  <2> QED BY <2>3, <2>4, Zenon DEF ClassedTruly
<1>19. LoopKnows'
  <2> SUFFICES ASSUME SomeBlank'
               PROVE  /\ after + k <= Len(turns)
                      /\ loop.retrieval = Recall(turns)[after + k + 1]
    BY <1>5, <1>16 DEF LoopKnows
  <2> QED BY <1>1, <1>2, <1>3, <1>13 DEF TurnsInv, LoopKnows
<1>20. SweptBehind'
  <2>1. ~loop'.written => ~loop.written /\ blank = {}
    <3>1. loop \in LoopState
      BY DEF TurnsInv, LoopSound
    <3> QED BY <1>5, <3>1 DEF LoopState
  <2>2. ASSUME ~loop'.written, NEW n \in 1..Len(turns), class'[n] = Unclassed
        PROVE  n > after + k
    <3>1. class[n] = Unclassed /\ n > after
      BY <1>1, <1>7, <1>12, <2>1, <2>2 DEF TurnsInv, SweptBehind
    <3>2. n \notin after + 1 .. after + k
      BY <1>4, <1>7, <2>1, <2>2, <3>1
    <3> QED BY <3>1, <3>2
  <2> QED BY <1>9, <1>16, <2>2 DEF SweptBehind
<1> QED BY <1>15, <1>17, <1>18, <1>19, <1>20 DEF TurnsInv

\* There is nothing left to label.
LEMMA NothingLeft ==
  ASSUME TurnsInv, LabelRest
  PROVE  TurnsInv'
<1>1. \A n \in DOMAIN class : class[n] # Unclassed
  BY DEF TurnsInv, SweptBehind, LabelRest, SomeBlank
<1>2. class' = [n \in DOMAIN class |-> class[n]]
  BY <1>1 DEF LabelRest
<1>3. class' = class
  BY <1>2 DEF TurnsInv, TurnsSound
<1> QED BY <1>3, LoopGoesOn DEF LabelRest, TurnsInv, TurnsSound

LEMMA TurnsRemoved ==
  ASSUME TurnsInv, RemoveTurns
  PROVE  TurnsInv'
<1>1. /\ turns' = <<>> /\ class' = <<>> /\ rewrite' = Rewritten
      /\ queued' = {} /\ missed' = {} /\ cuts' = {} /\ loop' = loop
      /\ stumbles < MaxStumbles /\ stumbles' = stumbles + 1
  BY DEF RemoveTurns, Stumble
<1>2. /\ <<>> \in Seq(SpokenShape) /\ <<>> \in Seq(Class \union {Unclassed}) /\ Len(<<>>) = 0
      /\ DOMAIN <<>> = {}
  BY EmptySeq
<1>3. TurnsSound'
  <2>1. rewrite' \in 0..Rewritten /\ stumbles' \in 0..MaxStumbles
    BY <1>1, TurnAssumption DEF Rewritten, TurnsInv, TurnsSound
  <2> QED BY <1>1, <1>2, <2>1, TurnAssumption DEF TurnsSound
<1>4. ~SomeBlank'
  BY <1>1, <1>2 DEF SomeBlank
<1>5. ClassedTruly'
  BY <1>1, <1>2 DEF ClassedTruly
<1>6. SweptBehind'
  BY <1>1, <1>2, <1>4 DEF SweptBehind
<1> QED BY <1>1, <1>3, <1>4, <1>5, <1>6 DEF TurnsInv, LoopSound, LoopKnows

-----------------------------------------------------------------------------
(* Steps that change the turns.                                            *)

\* What an append or a restatement does to the turns that are there.
LEMMA ReadingKept ==
  ASSUME turns \in Seq(SpokenShape), turns' \in Seq(SpokenShape),
         PartOf(turns, Len(turns), turns', 0), cuts \subseteq DOMAIN turns, cuts \subseteq cuts'
  PROVE  /\ \A i \in 1..Len(turns) + 1 : Recall(turns')[i] = Recall(turns)[i]
         /\ \A i \in 1..Len(turns) : AsRead(turns')[i] = AsRead(turns)[i]
         /\ \A n \in 1..Len(turns) : CutOff(n) => CutOff(n)'
<1>1. PICK last \in Nat : last = Len(turns)
  OBVIOUS
<1>2. /\ \A i \in 1..last + 1 : Recall(turns)[i] = Recall(turns')[i]
      /\ \A i \in 1..last : AsRead(turns)[i] = AsRead(turns')[i]
  BY <1>1, BeginningRead
<1>3. \A i \in 1..last : Alike(turns[i], turns'[i])
  BY <1>1 DEF PartOf
<1>4. \A i \in 1..last : turns[i] \in SpokenShape /\ turns'[i] \in SpokenShape
  BY <1>1 DEF PartOf
<1>5. \A i \in 1..last : /\ ResultsOnly(turns[i]) = ResultsOnly(turns'[i])
                         /\ turns[i].results = turns'[i].results
  <2>1. PICK q \in BOOLEAN : q = FALSE
    OBVIOUS
  <2> QED BY <1>3, <1>4, AlikeSame DEF Alike
<1>6. ASSUME NEW n \in 1..last, CutOff(n) PROVE CutOff(n)'
  <2>1. PICK c \in cuts : c <= n /\ \A m \in c .. n - 1 : ResultsOnly(turns[m])
    BY <1>6 DEF CutOff
  <2>2. c \in 1..last /\ c \in cuts'
    BY <1>1
  <2>3. \A m \in c .. n - 1 : m \in 1..last
    BY <2>2
  <2>4. \A m \in c .. n - 1 : ResultsOnly(turns'[m])
    BY <1>5, <2>1, <2>3
  <2>5. turns'[n].results # "none"
    BY <1>5, <1>6 DEF CutOff
  <2> QED BY <2>1, <2>2, <2>4, <2>5 DEF CutOff
<1> QED BY <1>1, <1>2, <1>6

LEMMA TurnsAppended ==
  ASSUME TurnsInv, NEW run \in Seq(Shape), AppendTurns(run)
  PROVE  TurnsInv'
<1>1. run \in Seq(SpokenShape)
  BY ShapesAreSpoken
<1>2. PICK last \in Nat : last = Len(turns)
  BY DEF TurnsInv, TurnsSound
<1>3. PICK n \in Nat : n = Len(run)
  OBVIOUS
<1>4. PICK p \in BOOLEAN : p <=> PickUpAfter(last)
  OBVIOUS
<1>5. /\ turns' = turns \o run /\ class' = class \o Classes(p, run) /\ last + n <= MaxTurns
      /\ queued' = queued \union (DOMAIN turns' \ DOMAIN turns)
      /\ cuts' = IF turns # <<>> /\ ResultsOnly(turns[Len(turns)])
                 THEN cuts \union {Len(turns) + 1} ELSE cuts
      /\ UNCHANGED <<rewrite, missed, loop, stumbles>>
  <2>1. p = PickUpAfter(Len(turns))
    <3>1. PickUpAfter(last) \in BOOLEAN
      BY DEF PickUpAfter
    <3> QED BY <1>2, <1>4, <3>1
  <2> QED BY <1>2, <1>3, <2>1 DEF AppendTurns
<1>6. /\ turns \in Seq(SpokenShape) /\ class \in Seq(Class \union {Unclassed}) /\ Len(class) = last
      /\ DOMAIN turns = 1..last /\ DOMAIN class = 1..last
  BY <1>2 DEF TurnsInv, TurnsSound
<1>7. Classes(p, run) \in Seq(Class) /\ Len(Classes(p, run)) = n
  BY <1>1, <1>3, ClassesAlong
<1>8. /\ turns' \in Seq(SpokenShape) /\ Len(turns') = last + n /\ DOMAIN turns' = 1..last + n
      /\ \A i \in 1..last : turns'[i] = turns[i]
      /\ \A i \in 1..n : turns'[last + i] = run[i]
  <2>1. turns' \in Seq(SpokenShape) /\ Len(turns') = last + n
    BY <1>1, <1>2, <1>3, <1>5, <1>6, ConcatProperties
  <2> QED BY <1>1, <1>2, <1>3, <1>5, <1>6, <2>1
<1>9. /\ class' \in Seq(Class \union {Unclassed}) /\ Len(class') = last + n /\ DOMAIN class' = 1..last + n
      /\ \A i \in 1..last : class'[i] = class[i]
      /\ \A i \in 1..n : class'[last + i] = Classes(p, run)[i] /\ class'[last + i] \in Class
  <2>1. Classes(p, run) \in Seq(Class \union {Unclassed})
    BY <1>7
  <2>2. class' \in Seq(Class \union {Unclassed}) /\ Len(class') = last + n
    BY <1>5, <1>6, <1>7, <2>1, ConcatProperties
  <2>3. \A i \in 1..n : Classes(p, run)[i] \in Class
    BY <1>7
  <2>4. \A i \in 1..last : class'[i] = class[i]
    BY <1>5, <1>6, <2>1
  <2>5. \A i \in 1..n : class'[last + i] = Classes(p, run)[i]
    <3>1. PICK given \in Seq(Class \union {Unclassed}) : given = Classes(p, run)
      BY <2>1
    <3>2. class' = class \o given /\ Len(given) = n
      BY <1>5, <1>7, <3>1
    <3>3. ASSUME NEW i \in 1..n PROVE class'[last + i] = given[i]
      <4>1. \A j \in 1..last + n : class'[j] = IF j <= last THEN class[j] ELSE given[j - last]
        BY <1>6, <3>1, <3>2, ConcatProperties
      <4>2. last + i \in 1..last + n /\ ~(last + i <= last) /\ last + i - last = i
        OBVIOUS
      <4> QED BY <4>1, <4>2
    <3> QED BY <3>1, <3>3
  <2>6. DOMAIN class' = 1..last + n
    BY <2>2
  <2> QED BY <2>2, <2>3, <2>4, <2>5, <2>6
<1>10. PartOf(turns, last, turns', 0)
  BY <1>2, <1>8 DEF PartOf, Alike
<1>11. cuts \subseteq 1..last /\ cuts' \subseteq 1..last + n /\ cuts \subseteq cuts'
  <2>1. cuts \subseteq 1..last
    BY <1>6 DEF TurnsInv, TurnsSound
  <2>2. n # 0
    BY <1>3 DEF AppendTurns
  <2>3. last + 1 \in 1..last + n /\ 1..last \subseteq 1..last + n
    BY <2>2
  <2>4. cuts' = cuts \union {last + 1} \/ cuts' = cuts
    BY <1>2, <1>5
  <2> QED BY <2>1, <2>3, <2>4
<1>12. /\ \A i \in 1..last + 1 : Recall(turns')[i] = Recall(turns)[i]
       /\ \A i \in 1..last : AsRead(turns')[i] = AsRead(turns)[i]
       /\ \A i \in 1..last : CutOff(i) => CutOff(i)'
  BY <1>2, <1>6, <1>8, <1>10, <1>11, ReadingKept
<1>13. TurnsSound'
  <2>1. queued' \subseteq DOMAIN turns' /\ missed' \subseteq DOMAIN turns' /\ cuts' \subseteq DOMAIN turns'
    BY <1>5, <1>6, <1>8, <1>11 DEF TurnsInv, TurnsSound
  <2> QED BY <1>5, <1>8, <1>9, <2>1 DEF TurnsInv, TurnsSound
<1>14. ClassedTruly'
  <2>1. ASSUME NEW i \in 1..last
        PROVE  class'[i] = Unclassed \/ ClassedAsRead(i)'
    <3>1. class[i] = Unclassed \/ ClassedAsRead(i)
      BY <1>6 DEF TurnsInv, ClassedTruly
    <3> QED BY <1>9, <1>12, <3>1 DEF ClassedAsRead, AsRead
  <2>2. ASSUME NEW i \in 1..n
        PROVE  ClassedAsRead(last + i)'
    <3>1. p <=> PickUp(turns)
      BY <1>2, <1>4 DEF PickUpAfter, PickUp
    <3>2. \/ Classes(p, run)[i] = AsRead(turns \o run)[last + i]
          \/ /\ turns # <<>> /\ ResultsOnly(turns[last])
             /\ run[i].results # "none"
             /\ \A m \in 1..i - 1 : ResultsOnly(run[m])
             /\ Classes(p, run)[i] \in {"tool_call", "tool_result"}
      BY <1>1, <1>2, <1>3, <1>6, <3>1, AppendedTruly
    <3>3. CASE Classes(p, run)[i] = AsRead(turns \o run)[last + i]
      BY <1>5, <1>9, <3>3 DEF ClassedAsRead, AsRead
    <3>4. CASE /\ turns # <<>> /\ ResultsOnly(turns[last])
               /\ run[i].results # "none"
               /\ \A m \in 1..i - 1 : ResultsOnly(run[m])
               /\ Classes(p, run)[i] \in {"tool_call", "tool_result"}
      <4>1. last + 1 \in cuts'
        BY <1>2, <1>5, <3>4
      <4>2. ASSUME NEW m \in last + 1 .. last + i - 1
            PROVE  ResultsOnly(turns'[m])
        <5>1. m - last \in 1..i - 1 /\ m - last \in 1..n /\ last + (m - last) = m
          OBVIOUS
        <5>2. turns'[m] = run[m - last]
          BY <1>8, <5>1
        <5> QED BY <3>4, <5>1, <5>2
      <4>3. turns'[last + i].results # "none"
        BY <1>8, <3>4
      <4>4. CutOff(last + i)'
        BY <4>1, <4>2, <4>3 DEF CutOff
      <4>5. class'[last + i] \in {"tool_call", "tool_result"}
        BY <1>9, <3>4
      <4> QED BY <4>4, <4>5 DEF ClassedAsRead
    <3> QED BY <3>2, <3>3, <3>4
  <2>3. \A i \in 1..last + n : class'[i] = Unclassed \/ ClassedAsRead(i)'
    <3> SUFFICES ASSUME NEW i \in 1..last + n, i \notin 1..last
                 PROVE  ClassedAsRead(i)'
      BY <2>1
    <3>1. i - last \in 1..n /\ last + (i - last) = i
      OBVIOUS
    <3>2. ClassedAsRead(last + (i - last))'
      BY <2>2, <3>1
    <3> QED BY <3>1, <3>2
  <2> QED BY <1>8, <2>3, Zenon DEF ClassedTruly
<1>15. \A i \in 1..last + n : class'[i] = Unclassed => i \in 1..last /\ class[i] = Unclassed
  <2> SUFFICES ASSUME NEW i \in 1..last + n, class'[i] = Unclassed, i \notin 1..last
               PROVE  FALSE
    BY <1>9
  <2>1. i - last \in 1..n /\ last + (i - last) = i
    OBVIOUS
  <2>2. class'[i] \in Class
    BY <1>9, <2>1
  <2> QED BY <2>2 DEF Class, Unclassed
<1>16. SomeBlank' => SomeBlank
  BY <1>6, <1>9, <1>15 DEF SomeBlank
<1>17. LoopKnows'
  <2>1. PICK after \in Nat : after = loop.after
    BY DEF TurnsInv, LoopSound, LoopState
  <2>2. PICK k \in Nat : k = Len(loop.read)
    BY DEF TurnsInv, LoopSound, LoopState
  <2> SUFFICES ASSUME SomeBlank'
               PROVE  /\ after + k <= Len(turns')
                      /\ \A i \in 1..k : loop.read[i] = AsRead(turns')[after + i]
                      /\ loop.retrieval = Recall(turns')[after + k + 1]
    BY <1>5, <2>1, <2>2 DEF LoopKnows
  <2>3. /\ after + k <= last
        /\ \A i \in 1..k : loop.read[i] = AsRead(turns)[after + i]
        /\ loop.retrieval = Recall(turns)[after + k + 1]
    BY <1>2, <1>16, <2>1, <2>2 DEF TurnsInv, LoopKnows
  <2>4. after + k + 1 \in 1..last + 1 /\ \A i \in 1..k : after + i \in 1..last
    BY <2>3
  <2> QED BY <1>8, <1>12, <2>3, <2>4
<1>18. SweptBehind'
  BY <1>5, <1>6, <1>9, <1>15, <1>16 DEF TurnsInv, SweptBehind
<1> QED BY <1>5, <1>13, <1>14, <1>17, <1>18 DEF TurnsInv, LoopSound

\* The window the restatement takes is of the conversation, and what it gives
\* is what the conversation reads.
LEMMA TurnsRestated ==
  ASSUME TurnsInv, RestateWindow
  PROVE  TurnsInv'
<1>1. PICK last \in Nat : last = Len(turns)
  BY DEF TurnsInv, TurnsSound
<1>2. PICK after \in Nat : after = rewrite
  BY TurnAssumption DEF TurnsInv, TurnsSound, Rewritten
<1>3. PICK run : run = WindowAfter(after)
  OBVIOUS
<1>4. PICK stale : stale = {n \in after + 1 .. after + Len(run) : turns[n].old}
  OBVIOUS
<1>5. PICK p \in BOOLEAN : p = PickUpAfter(after)
  <2>1. PickUpAfter(after) \in BOOLEAN
    BY DEF PickUpAfter
  <2> QED BY <2>1
<1>6. /\ turns' = [n \in DOMAIN turns |-> IF n \in stale THEN [turns[n] EXCEPT !.old = FALSE]
                                                       ELSE turns[n]]
      /\ class' = [n \in DOMAIN class |-> IF n \in stale THEN Classes(p, run)[n - after]
                                                       ELSE class[n]]
      /\ queued' = queued \ stale
      /\ rewrite' = IF Len(run) < BackfillWindow THEN Rewritten ELSE after + Len(run)
      /\ loop' = LoopAt("queue", stale)
      /\ UNCHANGED <<missed, cuts, stumbles>>
  BY <1>2, <1>3, <1>4, <1>5 DEF RestateWindow
<1>7. /\ turns \in Seq(SpokenShape) /\ class \in Seq(Class \union {Unclassed}) /\ Len(class) = last
      /\ DOMAIN turns = 1..last /\ DOMAIN class = 1..last /\ last <= MaxTurns
  BY <1>1 DEF TurnsInv, TurnsSound
<1>8. /\ run \in Seq(SpokenShape)
      /\ after < last => PartOf(run, Len(run), turns, after)
      /\ after >= last => run = <<>>
      /\ \A i \in 1..Len(run) : run[i] = turns[after + i]
  BY <1>1, <1>3, <1>7, WindowIsPart
<1>9. PICK k \in Nat : k = Len(run)
  BY <1>8
<1>10. after < last => after + k <= last
  BY <1>1, <1>8, <1>9 DEF PartOf
<1>11. after >= last => k = 0
  BY <1>8, <1>9
<1>12. \A n \in stale : /\ n \in 1..last /\ n - after \in 1..k /\ after + (n - after) = n
                        /\ turns[n].old
  BY <1>4, <1>9, <1>10, <1>11
<1>13. \A n \in stale : Classes(p, run)[n - after] = AsRead(turns)[n]
  <2> SUFFICES ASSUME NEW n \in stale
               PROVE  Classes(p, run)[n - after] = AsRead(turns)[n]
    OBVIOUS
  <2>1. PICK i \in 1..k : i = n - after /\ after + i = n
    BY <1>12
  <2>2. PartOf(run, Len(run), turns, after)
    BY <1>8, <1>11, <2>1
  <2>3. \A j \in 1..Len(run) : run[j].old => Classes(p, run)[j] = AsRead(turns)[after + j]
    BY <1>7, <1>8, <2>2, OldRead
  <2>4. run[i].old
    BY <1>8, <1>9, <1>12, <2>1
  <2> QED BY <1>9, <2>1, <2>3, <2>4
<1>14. /\ AsRead(turns) \in Seq(Class) /\ Len(AsRead(turns)) = last
  BY <1>1, <1>7, RecallAlong
<1>15. /\ turns' \in Seq(SpokenShape) /\ Len(turns') = last /\ DOMAIN turns' = 1..last
       /\ \A n \in 1..last : Alike(turns[n], turns'[n])
  <2>1. \A n \in 1..last : /\ turns'[n] = IF n \in stale THEN [turns[n] EXCEPT !.old = FALSE] ELSE turns[n]
                           /\ turns[n] \in SpokenShape
    BY <1>6, <1>7
  <2>2. ASSUME NEW t \in SpokenShape
        PROVE  [t EXCEPT !.old = FALSE] \in SpokenShape /\ Alike(t, [t EXCEPT !.old = FALSE])
    BY DEF SpokenShape, TurnShape, Alike
  <2>3. \A n \in 1..last : turns'[n] \in SpokenShape /\ Alike(turns[n], turns'[n])
    BY <2>1, <2>2 DEF Alike
  <2>4. turns' \in [1..last -> SpokenShape]
    BY <1>6, <1>7, <2>3
  <2> QED BY <2>3, <2>4
<1>16. /\ class' \in Seq(Class \union {Unclassed}) /\ Len(class') = last /\ DOMAIN class' = 1..last
       /\ \A n \in 1..last : n \in stale => class'[n] = AsRead(turns)[n]
       /\ \A n \in 1..last : n \notin stale => class'[n] = class[n]
  <2>1. \A n \in 1..last : /\ n \in stale => class'[n] = AsRead(turns)[n]
                           /\ n \notin stale => class'[n] = class[n]
    BY <1>6, <1>7, <1>13
  <2>2. \A n \in 1..last : AsRead(turns)[n] \in Class /\ class[n] \in Class \union {Unclassed}
    BY <1>7, <1>14
  <2>3. \A n \in 1..last : class'[n] \in Class \union {Unclassed}
    BY <2>1, <2>2
  <2>4. class' \in [1..last -> Class \union {Unclassed}]
    BY <1>6, <1>7, <2>3
  <2> QED BY <2>1, <2>4
<1>17. PartOf(turns, last, turns', 0)
  BY <1>1, <1>15 DEF PartOf
<1>18. cuts \subseteq 1..last /\ cuts' = cuts
  BY <1>6, <1>7 DEF TurnsInv, TurnsSound
<1>19. /\ \A i \in 1..last : AsRead(turns')[i] = AsRead(turns)[i]
       /\ \A i \in 1..last : CutOff(i) => CutOff(i)'
  BY <1>1, <1>7, <1>15, <1>17, <1>18, ReadingKept
<1>20. TurnsSound'
  <2>1. rewrite' \in 0..Rewritten
    <3>1. Rewritten = MaxTurns + 1 /\ MaxTurns \in Nat /\ BackfillWindow \in Nat \ {0}
      BY TurnAssumption DEF Rewritten
    <3>2. after + k <= MaxTurns \/ k = 0
      BY <1>7, <1>10, <1>11, <3>1
    <3> QED BY <1>6, <1>9, <3>1, <3>2
  <2>2. queued' \subseteq 1..last /\ missed' \subseteq 1..last
    BY <1>6, <1>7 DEF TurnsInv, TurnsSound
  <2> QED BY <1>6, <1>7, <1>15, <1>16, <1>18, <2>1, <2>2 DEF TurnsInv, TurnsSound
<1>21. PICK replaced \in SUBSET Nat : replaced = stale
  BY <1>12
<1>22. /\ LoopSound' /\ loop'.after = 0 /\ loop'.read = <<>> /\ loop'.retrieval = FALSE
       /\ loop'.at = "queue"
  <2>1. PICK at \in LoopPlace : at = "queue"
    BY DEF LoopPlace
  <2>2. loop' = LoopAt(at, replaced)
    BY <1>6, <1>21, <2>1
  <2>3. /\ LoopAt(at, replaced) \in LoopState /\ LoopAt(at, replaced).at = at
        /\ LoopAt(at, replaced).after = 0 /\ LoopAt(at, replaced).read = <<>>
        /\ LoopAt(at, replaced).retrieval = FALSE
    BY LoopAfresh
  <2>4. loop' \in LoopState /\ loop'.after = 0 /\ loop'.read = <<>> /\ loop'.at = "queue"
    BY <2>1, <2>2, <2>3
  <2>5. loop'.retrieval = FALSE
    BY <2>2, <2>3, Zenon
  <2> QED BY <2>4, <2>5, TurnAssumption DEF LoopSound
<1>23. ClassedTruly'
  <2>1. ASSUME NEW n \in 1..last
        PROVE  class'[n] = Unclassed \/ ClassedAsRead(n)'
    <3>1. CASE n \in stale
      BY <1>16, <1>19, <3>1 DEF ClassedAsRead, AsRead
    <3>2. CASE n \notin stale
      <4>1. class[n] = Unclassed \/ ClassedAsRead(n)
        BY <1>7 DEF TurnsInv, ClassedTruly
      <4> QED BY <1>16, <1>19, <3>2, <4>1 DEF ClassedAsRead, AsRead
    <3> QED BY <3>1, <3>2
  <2> QED BY <1>15, <2>1, Zenon DEF ClassedTruly
<1>24. LoopKnows'
  <2>1. Len(loop'.read) = 0 /\ loop'.after + Len(loop'.read) + 1 = 1
    BY <1>22
  <2>2. Recall(turns')[1] = FALSE
    BY <1>15, RecallAlong
  <2>3. loop'.retrieval = Recall(turns')[1]
    BY <1>22, <2>2, Zenon
  <2>4. loop'.after + Len(loop'.read) <= Len(turns')
    BY <1>15, <1>22, <2>1
  <2> QED BY <2>1, <2>3, <2>4 DEF LoopKnows
<1>25. SweptBehind'
  BY <1>16, <1>22 DEF SweptBehind
<1> QED BY <1>20, <1>22, <1>23, <1>24, <1>25 DEF TurnsInv

-----------------------------------------------------------------------------
(* Every step.                                                             *)

LEMMA TurnsPreserved ==
  ASSUME TurnsInv, [TurnsNext]_tvars
  PROVE  TurnsInv'
<1>1. CASE UNCHANGED tvars
  BY <1>1 DEF tvars, TurnsInv, TurnsSound, LoopSound, ClassedTruly, ClassedAsRead, CutOff, LoopKnows,
              SweptBehind, SomeBlank
<1>2. CASE TurnsNext
  <2>1. CASE LoopStep
    BY <2>1, LoopStepsOn, WindowTaken, WindowWritten, NothingLeft DEF LoopStep
  <2>2. CASE WaitForQueue \/ PassStops \/ RestartSweeps
    BY <2>2, LoopStepsOn
  <2>3. CASE RestateWindow
    BY <2>3, TurnsRestated
  <2>4. ASSUME NEW n \in 0..MaxTogether, NEW run \in [1..n -> Shape], AppendTurns(run)
        PROVE  TurnsInv'
    <3>1. n \in Nat
      BY TurnAssumption
    <3>2. run \in Seq(Shape)
      BY <3>1
    <3> QED BY <2>4, <3>2, TurnsAppended
  <2>5. CASE RemoveTurns
    BY <2>5, TurnsRemoved
  <2> QED BY <1>2, <2>1, <2>2, <2>3, <2>4, <2>5 DEF TurnsNext
<1> QED BY <1>1, <1>2

LEMMA TurnsTyped == TurnsInv => TurnsTypeOK
<1> SUFFICES ASSUME TurnsInv PROVE TurnsTypeOK
  OBVIOUS
<1>1. turns \in Seq(TurnShape) /\ Len(turns) <= MaxTurns
  BY DEF TurnsInv, TurnsSound, SpokenShape
<1>2. DOMAIN class = DOMAIN turns /\ \A n \in DOMAIN class : class[n] \in Class \union {Unclassed}
  BY DEF TurnsInv, TurnsSound
<1>3. /\ loop.at \in LoopPlace /\ loop.after \in Nat /\ loop.retrieval \in BOOLEAN
      /\ loop.written \in BOOLEAN /\ loop.read \in Seq(Class)
  BY DEF TurnsInv, LoopSound, LoopState
<1>4. loop.after \in 0..MaxTurns /\ Len(loop.read) <= BackfillWindow
  BY <1>3, TurnAssumption DEF TurnsInv, LoopSound
<1> QED BY <1>1, <1>2, <1>3, <1>4 DEF TurnsTypeOK, TurnsInv, TurnsSound, LoopPlace

-----------------------------------------------------------------------------
(* The theorems.                                                           *)

\* The turns, their classes, the cursors and what the loop holds stay well
\* formed (turn_class_backfill.rs, intake_restate.rs).
THEOREM TurnsTypeCorrect == TurnsSpec => []TurnsTypeOK
<1>1. TurnsInit => TurnsInv
  BY TurnsInitially
<1>2. TurnsInv /\ [TurnsNext]_tvars => TurnsInv'
  BY TurnsPreserved
<1>3. TurnsInv => TurnsTypeOK
  BY TurnsTyped
<1> QED BY <1>1, <1>2, <1>3, PTL DEF TurnsSpec

\* ClassedTruly: of every class that an append, the backfill, its label for
\* the rest or a restatement writes (conversations.rs:232-655).
THEOREM TurnsClassedTruly == TurnsSpec => []ClassedTruly
<1>1. TurnsInit => TurnsInv
  BY TurnsInitially
<1>2. TurnsInv /\ [TurnsNext]_tvars => TurnsInv'
  BY TurnsPreserved
<1>3. TurnsInv => ClassedTruly
  BY DEF TurnsInv
<1> QED BY <1>1, <1>2, <1>3, PTL DEF TurnsSpec

-----------------------------------------------------------------------------
(***************************************************************************)
(* Proof that the installation, the update row and the messages stay well   *)
(* formed, for any versions and any number of releases, reinstalls, crashes *)
(* and faults: what is at the lock or has it has a release to install, so   *)
(* no interleaving of the daemon and doctor swaps in nothing.               *)
(***************************************************************************)

Maybe == Version \union {0}

RowType == [seen : Maybe, installed : Maybe, blocked : BOOLEAN]

Message == {"installed", "blocked"} \X Maybe

UpdaterState ==
  [at : {"rest", "probe", "lock", "break", "swap", "unlock", "record", "block", "disk", "note",
         "read", "sync", "write"},
   running : Version, booted : BOOLEAN, checking : BOOLEAN, target : Maybe,
   outcome : {"none", "current", "blocked", "installed", "error"}, found : Maybe, view : RowType,
   gone : SUBSET Message]

\* Who is at the lock, or has it, has a release to install.
HasTarget(state) == state.at \in {"lock", "break", "swap"} => state.target \in Version

UpdaterSound(state) == state \in UpdaterState /\ HasTarget(state)

WorldSound ==
  /\ latest \in [version : Version, good : BOOLEAN] /\ installed \in Version
  /\ lockfile \in [held : BOOLEAN, stale : BOOLEAN] /\ row \in RowType
  /\ due \in BOOLEAN /\ auto \in BOOLEAN
  /\ queue \subseteq Message

UpdateInv ==
  /\ WorldSound
  /\ up \in [Updater -> UpdaterState] /\ \A u \in Updater : HasTarget(up[u])

LEMMA EmptyRowTyped == EmptyRow \in RowType
<1>1. PICK no \in BOOLEAN : no = FALSE
  OBVIOUS
<1>2. EmptyRow = [seen |-> 0, installed |-> 0, blocked |-> no]
  BY <1>1 DEF EmptyRow
<1> QED BY <1>2 DEF RowType, Maybe

LEMMA RestingRests ==
  ASSUME NEW running \in Version
  PROVE  UpdaterSound(Resting(running))
<1>1. PICK no \in BOOLEAN : no = FALSE
  OBVIOUS
<1>2. PICK view \in RowType : view = EmptyRow
  BY EmptyRowTyped
<1>3. Resting(running) =
        [at |-> "rest", running |-> running, booted |-> no, checking |-> no,
         target |-> 0, outcome |-> "none", found |-> 0, view |-> view, gone |-> {}]
  BY <1>1, <1>2 DEF Resting
<1> QED BY <1>3 DEF UpdaterSound, UpdaterState, HasTarget, Maybe

LEMMA RestingSound ==
  ASSUME NEW running \in Version, NEW booted \in BOOLEAN
  PROVE  UpdaterSound([Resting(running) EXCEPT !.booted = booted])
<1>1. PICK rest \in UpdaterState : rest = Resting(running) /\ rest.at = "rest"
  BY RestingRests DEF UpdaterSound, Resting
<1>2. [rest EXCEPT !.booted = booted] \in UpdaterState /\ [rest EXCEPT !.booted = booted].at = "rest"
  BY <1>1 DEF UpdaterState
<1> QED BY <1>1, <1>2 DEF UpdaterSound, HasTarget

\* An updater goes on, and the other stands still.
LEMMA GoesOn ==
  ASSUME UpdateInv, NEW u \in Updater, NEW state, UpdaterSound(state), Goto(u, state)
  PROVE  up' \in [Updater -> UpdaterState] /\ \A w \in Updater : HasTarget(up'[w])
<1>1. up' = [w \in Updater |-> IF w = u THEN state ELSE up[w]]
  BY DEF Goto, UpdateInv
<1> QED BY <1>1 DEF UpdateInv, UpdaterSound

\* A row and the messages it asks for.
LEMMA DesiredTyped ==
  ASSUME NEW state \in RowType, NEW running \in Version
  PROVE  Desired(state, running) \subseteq Message
BY DEF Desired, RowType, Message

\* The pass of an updater is over.
LEMMA PassOverTyped ==
  ASSUME UpdateInv, NEW u \in Updater, PassOver(u)
  PROVE  up' \in [Updater -> UpdaterState] /\ \A w \in Updater : HasTarget(up'[w])
<1>1. PICK mine \in UpdaterState : mine = up[u]
  BY DEF UpdateInv
<1>2. mine.running \in Version /\ mine.booted \in BOOLEAN
  BY DEF UpdaterState
<1>3. UpdaterSound([Resting(mine.running) EXCEPT !.booted = mine.booted])
  BY <1>2, RestingSound
<1> QED BY <1>1, <1>3, GoesOn DEF PassOver

LEMMA GivingUp ==
  ASSUME UpdateInv, NEW u \in Updater, CheckEnds(u)
  PROVE  up' \in [Updater -> UpdaterState] /\ \A w \in Updater : HasTarget(up'[w])
<1>1. PICK mine \in UpdaterState : mine = up[u]
  BY DEF UpdateInv
<1>2. UpdaterSound([mine EXCEPT !.at = "disk"])
  BY DEF UpdaterSound, UpdaterState, HasTarget
<1>3. UpdaterSound(Resting(1))
  BY SelfUpdateAssumption, RestingRests DEF Version
<1>4. Goto(u, [mine EXCEPT !.at = "disk"]) \/ Goto(u, Resting(1))
  BY <1>1 DEF CheckEnds
<1> QED BY <1>2, <1>3, <1>4, GoesOn

LEMMA UpdateInitially == SelfUpdateInit => UpdateInv
<1> SUFFICES ASSUME SelfUpdateInit PROVE UpdateInv
  OBVIOUS
<1>1. 1 \in Version
  BY SelfUpdateAssumption DEF Version
<1>2. NoLock \in [held : BOOLEAN, stale : BOOLEAN]
  BY DEF NoLock
<1>3. WorldSound
  <2>1. latest \in [version : Version, good : BOOLEAN]
    BY <1>1 DEF SelfUpdateInit
  <2> QED BY <1>1, <1>2, <2>1, EmptyRowTyped DEF SelfUpdateInit, WorldSound
<1>4. up \in [Updater -> UpdaterState] /\ \A u \in Updater : HasTarget(up[u])
  BY <1>1, RestingRests DEF SelfUpdateInit, UpdaterSound
<1> QED BY <1>3, <1>4 DEF UpdateInv

LEMMA ReleaseTyped ==
  ASSUME UpdateInv, NEW v \in Version, NEW good \in BOOLEAN, Release(v, good)
  PROVE  UpdateInv'
<1>1. latest' \in [version : Version, good : BOOLEAN]
  BY DEF Release
<1> QED BY <1>1 DEF UpdateInv, WorldSound, Release

LEMMA ReinstallTyped ==
  ASSUME UpdateInv, NEW v \in Version, Reinstall(v)
  PROVE  UpdateInv'
BY DEF UpdateInv, WorldSound, Reinstall

LEMMA IntervalTyped ==
  ASSUME UpdateInv, IntervalPasses
  PROVE  UpdateInv'
BY DEF UpdateInv, WorldSound, IntervalPasses

LEMMA LockAgesTyped ==
  ASSUME UpdateInv, LockAges
  PROVE  UpdateInv'
BY DEF UpdateInv, WorldSound, LockAges

LEMMA RestartTyped ==
  ASSUME UpdateInv, Restart
  PROVE  UpdateInv'
<1>1. UpdaterSound(Resting(installed)) /\ Goto(Daemon, Resting(installed)) /\ Daemon \in Updater
  BY RestingRests DEF UpdateInv, WorldSound, Restart, Goto, Updater
<1>2. up' \in [Updater -> UpdaterState] /\ \A w \in Updater : HasTarget(up'[w])
  BY <1>1, GoesOn
<1> QED BY <1>2 DEF UpdateInv, WorldSound, Restart

LEMMA BeginPassTyped ==
  ASSUME UpdateInv, BeginPass
  PROVE  UpdateInv'
<1> DEFINE first == ~up[Daemon].booted
           checking == auto /\ (first \/ due)
           place == IF checking THEN "probe" ELSE IF first THEN "disk" ELSE "read"
<1>1. PICK yes \in BOOLEAN, asks \in BOOLEAN : yes = TRUE /\ asks = (checking \/ first)
  OBVIOUS
<1>2. PICK to \in {"probe", "disk", "read"} : to = place
  OBVIOUS
<1>3. PICK mine \in UpdaterState : mine = up[Daemon]
  BY DEF UpdateInv, Updater
<1>4. UpdaterSound([mine EXCEPT !.booted = yes, !.checking = asks, !.at = to])
  BY DEF UpdaterSound, UpdaterState, HasTarget
<1>5. Goto(Daemon, [mine EXCEPT !.booted = yes, !.checking = asks, !.at = to])
  BY <1>1, <1>2, <1>3 DEF BeginPass
<1>6. up' \in [Updater -> UpdaterState] /\ \A w \in Updater : HasTarget(up'[w])
  BY <1>4, <1>5, GoesOn DEF Updater
<1>7. due' \in BOOLEAN
  BY DEF BeginPass, UpdateInv, WorldSound
<1> QED BY <1>6, <1>7 DEF UpdateInv, WorldSound, BeginPass

LEMMA ClaimFailsTyped ==
  ASSUME UpdateInv, ClaimFails
  PROVE  UpdateInv'
<1>1. PICK mine \in UpdaterState : mine = up[Daemon] /\ mine.at = "rest"
  BY DEF UpdateInv, Updater, ClaimFails, At
<1>2. PICK yes \in BOOLEAN : yes = TRUE
  OBVIOUS
<1>3. UpdaterSound([mine EXCEPT !.booted = yes])
  BY <1>1 DEF UpdaterSound, UpdaterState, HasTarget
<1>4. Goto(Daemon, [mine EXCEPT !.booted = yes])
  BY <1>1, <1>2 DEF ClaimFails
<1>5. up' \in [Updater -> UpdaterState] /\ \A w \in Updater : HasTarget(up'[w])
  BY <1>3, <1>4, GoesOn DEF Updater
<1> QED BY <1>5 DEF UpdateInv, WorldSound, ClaimFails

LEMMA BeginUpgradeTyped ==
  ASSUME UpdateInv, BeginUpgrade
  PROVE  UpdateInv'
<1>1. PICK rest \in UpdaterState : rest = Resting(installed)
  BY RestingRests DEF UpdaterSound, UpdateInv, WorldSound
<1>2. PICK yes \in BOOLEAN : yes = TRUE
  OBVIOUS
<1>3. UpdaterSound([rest EXCEPT !.at = "probe", !.checking = yes])
  BY DEF UpdaterSound, UpdaterState, HasTarget
<1>4. Goto(Person, [rest EXCEPT !.at = "probe", !.checking = yes])
  BY <1>1, <1>2 DEF BeginUpgrade
<1>5. up' \in [Updater -> UpdaterState] /\ \A w \in Updater : HasTarget(up'[w])
  BY <1>3, <1>4, GoesOn DEF Updater
<1> QED BY <1>5 DEF UpdateInv, WorldSound, BeginUpgrade

LEMMA Concluding ==
  ASSUME UpdateInv, NEW u \in Updater, NEW outcome \in {"current", "blocked"}, Conclude(u, outcome)
  PROVE  up' \in [Updater -> UpdaterState] /\ \A w \in Updater : HasTarget(up'[w])
<1>1. PICK mine \in UpdaterState : mine = up[u]
  BY DEF UpdateInv
<1>2. UpdaterSound([mine EXCEPT !.at = "record", !.outcome = outcome])
  BY DEF UpdaterSound, UpdaterState, HasTarget
<1> QED BY <1>1, <1>2, GoesOn DEF Conclude

LEMMA ProbeTyped ==
  ASSUME UpdateInv, NEW u \in Updater, Probe(u)
  PROVE  UpdateInv'
<1>1. PICK mine \in UpdaterState : mine = up[u]
  BY DEF UpdateInv
<1>2. latest.version \in Version /\ latest.good \in BOOLEAN
  BY DEF UpdateInv, WorldSound
<1>3. WorldSound'
  BY DEF UpdateInv, WorldSound, Probe
<1>4. CASE Conclude(u, "current")
  BY <1>3, <1>4, Concluding DEF UpdateInv
<1>5. CASE Goto(u, [up[u] EXCEPT !.target = latest.version,
                                 !.at = IF latest.good THEN "lock" ELSE "record",
                                 !.outcome = IF latest.good THEN @ ELSE "blocked"])
  <2>1. PICK place \in {"lock", "record"} : place = IF latest.good THEN "lock" ELSE "record"
    OBVIOUS
  <2>2. PICK outcome \in {"none", "current", "blocked", "installed", "error"} :
          outcome = IF latest.good THEN mine.outcome ELSE "blocked"
    BY DEF UpdaterState
  <2>3. UpdaterSound([mine EXCEPT !.target = latest.version, !.at = place, !.outcome = outcome])
    BY <1>2 DEF UpdaterSound, UpdaterState, HasTarget, Maybe
  <2>4. Goto(u, [mine EXCEPT !.target = latest.version, !.at = place, !.outcome = outcome])
    BY <1>1, <1>5, <2>1, <2>2 DEF Goto
  <2> QED BY <1>3, <2>3, <2>4, GoesOn DEF UpdateInv
<1> QED BY <1>4, <1>5 DEF Probe

LEMMA ProbeFailsTyped ==
  ASSUME UpdateInv, NEW u \in Updater, ProbeFails(u)
  PROVE  UpdateInv'
BY GivingUp DEF UpdateInv, WorldSound, ProbeFails

LEMMA TakeLockTyped ==
  ASSUME UpdateInv, NEW u \in Updater, TakeLock(u)
  PROVE  UpdateInv'
<1>1. PICK mine \in UpdaterState : mine = up[u] /\ mine.at = "lock" /\ mine.target \in Version
  BY DEF UpdateInv, TakeLock, At, HasTarget
<1>2. WorldSound'
  <2>1. [held |-> TRUE, stale |-> FALSE] \in [held : BOOLEAN, stale : BOOLEAN]
    OBVIOUS
  <2>2. lockfile' \in [held : BOOLEAN, stale : BOOLEAN]
    BY <2>1 DEF UpdateInv, WorldSound, TakeLock
  <2> QED BY <2>2 DEF UpdateInv, WorldSound, TakeLock
<1>3. /\ UpdaterSound([mine EXCEPT !.at = "swap"])
      /\ UpdaterSound([mine EXCEPT !.at = "break"])
  BY <1>1 DEF UpdaterSound, UpdaterState, HasTarget
<1>4. \/ Goto(u, [mine EXCEPT !.at = "swap"])
      \/ Goto(u, [mine EXCEPT !.at = "break"])
      \/ Conclude(u, "blocked")
  BY <1>1 DEF TakeLock
<1> QED BY <1>2, <1>3, <1>4, GoesOn, Concluding DEF UpdateInv

LEMMA BreakLockTyped ==
  ASSUME UpdateInv, NEW u \in Updater, BreakLock(u)
  PROVE  UpdateInv'
<1>1. PICK mine \in UpdaterState : mine = up[u] /\ mine.at = "break" /\ mine.target \in Version
  BY DEF UpdateInv, BreakLock, At, HasTarget
<1>2. WorldSound'
  <2>1. [held |-> TRUE, stale |-> FALSE] \in [held : BOOLEAN, stale : BOOLEAN]
    OBVIOUS
  <2>2. lockfile' \in [held : BOOLEAN, stale : BOOLEAN]
    BY <2>1 DEF UpdateInv, WorldSound, BreakLock
  <2> QED BY <2>2 DEF UpdateInv, WorldSound, BreakLock
<1>3. UpdaterSound([mine EXCEPT !.at = "swap"])
  BY <1>1 DEF UpdaterSound, UpdaterState, HasTarget
<1>4. Goto(u, [mine EXCEPT !.at = "swap"]) \/ Conclude(u, "blocked")
  BY <1>1 DEF BreakLock
<1> QED BY <1>2, <1>3, <1>4, GoesOn, Concluding DEF UpdateInv

LEMMA SwapTyped ==
  ASSUME UpdateInv, NEW u \in Updater, Swap(u)
  PROVE  UpdateInv'
<1>1. PICK mine \in UpdaterState : mine = up[u] /\ mine.target \in Version
  BY DEF UpdateInv, Swap, At, HasTarget
<1>2. UpdaterSound([mine EXCEPT !.at = "unlock", !.outcome = "installed"])
  BY DEF UpdaterSound, UpdaterState, HasTarget
<1>3. Goto(u, [mine EXCEPT !.at = "unlock", !.outcome = "installed"])
  BY <1>1 DEF Swap
<1>4. up' \in [Updater -> UpdaterState] /\ \A w \in Updater : HasTarget(up'[w])
  BY <1>2, <1>3, GoesOn
<1>5. WorldSound'
  BY <1>1 DEF UpdateInv, WorldSound, Swap
<1> QED BY <1>4, <1>5 DEF UpdateInv

LEMMA SwapEndsTyped ==
  ASSUME UpdateInv, NEW u \in Updater, SwapRefused(u) \/ SwapFails(u)
  PROVE  UpdateInv'
<1>1. PICK mine \in UpdaterState : mine = up[u]
  BY DEF UpdateInv
<1>2. \A end \in {"blocked", "error"} :
        UpdaterSound([mine EXCEPT !.at = "unlock", !.outcome = end])
  BY DEF UpdaterSound, UpdaterState, HasTarget
<1>3. \E end \in {"blocked", "error"} : Goto(u, [mine EXCEPT !.at = "unlock", !.outcome = end])
  BY <1>1 DEF SwapRefused, SwapFails
<1>4. up' \in [Updater -> UpdaterState] /\ \A w \in Updater : HasTarget(up'[w])
  BY <1>2, <1>3, GoesOn
<1>5. WorldSound'
  BY DEF UpdateInv, WorldSound, SwapRefused, SwapFails
<1> QED BY <1>4, <1>5 DEF UpdateInv

LEMMA UnlockTyped ==
  ASSUME UpdateInv, NEW u \in Updater, Unlock(u)
  PROVE  UpdateInv'
<1>1. PICK mine \in UpdaterState : mine = up[u]
  BY DEF UpdateInv
<1>2. UpdaterSound([mine EXCEPT !.at = "record"])
  BY DEF UpdaterSound, UpdaterState, HasTarget
<1>3. Goto(u, [mine EXCEPT !.at = "record"]) \/ CheckEnds(u)
  BY <1>1 DEF Unlock
<1>4. up' \in [Updater -> UpdaterState] /\ \A w \in Updater : HasTarget(up'[w])
  BY <1>2, <1>3, GoesOn, GivingUp
<1>5. NoLock \in [held : BOOLEAN, stale : BOOLEAN]
  BY DEF NoLock
<1>6. WorldSound'
  BY <1>5 DEF UpdateInv, WorldSound, Unlock
<1> QED BY <1>4, <1>6 DEF UpdateInv

LEMMA RecordTyped ==
  ASSUME UpdateInv, NEW u \in Updater, Record(u)
  PROVE  UpdateInv'
<1>1. PICK mine \in UpdaterState : mine = up[u]
  BY DEF UpdateInv
<1>2. \A place \in {"block", "disk"} : UpdaterSound([mine EXCEPT !.at = place])
  BY DEF UpdaterSound, UpdaterState, HasTarget
<1>3. \E place \in {"block", "disk"} : Goto(u, [mine EXCEPT !.at = place])
  BY <1>1 DEF Record
<1>4. up' \in [Updater -> UpdaterState] /\ \A w \in Updater : HasTarget(up'[w])
  BY <1>2, <1>3, GoesOn
<1>5. row' \in RowType
  <2>1. row \in RowType
    BY DEF UpdateInv, WorldSound
  <2>2. PICK blocked \in BOOLEAN : blocked = (row.blocked /\ mine.outcome = "blocked")
    OBVIOUS
  <2>3. PICK seen \in Maybe : seen = IF mine.outcome = "current" THEN row.seen ELSE mine.target
    BY <2>1 DEF RowType, UpdaterState
  <2>4. row' = [row EXCEPT !.blocked = blocked, !.seen = seen]
    BY <1>1, <2>2, <2>3 DEF Record
  <2> QED BY <2>1, <2>4 DEF RowType
<1>6. WorldSound'
  BY <1>5 DEF UpdateInv, WorldSound, Record
<1> QED BY <1>4, <1>6 DEF UpdateInv

LEMMA RecordBlockedTyped ==
  ASSUME UpdateInv, NEW u \in Updater, RecordBlocked(u)
  PROVE  UpdateInv'
<1>1. PICK mine \in UpdaterState : mine = up[u]
  BY DEF UpdateInv
<1>2. UpdaterSound([mine EXCEPT !.at = "disk"])
  BY DEF UpdaterSound, UpdaterState, HasTarget
<1>3. Goto(u, [mine EXCEPT !.at = "disk"])
  BY <1>1 DEF RecordBlocked
<1>4. up' \in [Updater -> UpdaterState] /\ \A w \in Updater : HasTarget(up'[w])
  BY <1>2, <1>3, GoesOn
<1>5. row' \in RowType
  <2>1. PICK yes \in BOOLEAN : yes = TRUE
    OBVIOUS
  <2>2. row' = [row EXCEPT !.blocked = yes] /\ row \in RowType
    BY <2>1 DEF RecordBlocked, UpdateInv, WorldSound
  <2> QED BY <2>2 DEF RowType
<1>6. WorldSound'
  BY <1>5 DEF UpdateInv, WorldSound, RecordBlocked
<1> QED BY <1>4, <1>6 DEF UpdateInv

LEMMA AskDiskTyped ==
  ASSUME UpdateInv, NEW u \in Updater, AskDisk(u)
  PROVE  UpdateInv'
<1>1. PICK mine \in UpdaterState : mine = up[u]
  BY DEF UpdateInv
<1>2. UpdaterSound([mine EXCEPT !.at = "note", !.found = installed])
  BY DEF UpdaterSound, UpdaterState, HasTarget, UpdateInv, WorldSound, Maybe
<1>3. Goto(u, [mine EXCEPT !.at = "note", !.found = installed])
  BY <1>1 DEF AskDisk
<1>4. up' \in [Updater -> UpdaterState] /\ \A w \in Updater : HasTarget(up'[w])
  BY <1>2, <1>3, GoesOn
<1>5. WorldSound'
  BY DEF UpdateInv, WorldSound, AskDisk
<1> QED BY <1>4, <1>5 DEF UpdateInv

LEMMA NoteDiskTyped ==
  ASSUME UpdateInv, NEW u \in Updater, NoteDisk(u)
  PROVE  UpdateInv'
<1>1. PICK mine \in UpdaterState : mine = up[u]
  BY DEF UpdateInv
<1>2. UpdaterSound([mine EXCEPT !.at = "read"])
  BY DEF UpdaterSound, UpdaterState, HasTarget
<1>3. Goto(u, [mine EXCEPT !.at = "read"])
  BY <1>1 DEF NoteDisk
<1>4. up' \in [Updater -> UpdaterState] /\ \A w \in Updater : HasTarget(up'[w])
  BY <1>2, <1>3, GoesOn
<1>5. row' \in RowType
  BY <1>1 DEF NoteDisk, NoteOfDisk, UpdateInv, WorldSound, RowType, UpdaterState
<1>6. WorldSound'
  BY <1>5 DEF UpdateInv, WorldSound, NoteDisk
<1> QED BY <1>4, <1>6 DEF UpdateInv

LEMMA ReadRowTyped ==
  ASSUME UpdateInv, NEW u \in Updater, ReadRow(u)
  PROVE  UpdateInv'
<1>1. PICK mine \in UpdaterState : mine = up[u]
  BY DEF UpdateInv
<1>2. UpdaterSound([mine EXCEPT !.at = "sync", !.view = row])
  BY DEF UpdaterSound, UpdaterState, HasTarget, UpdateInv, WorldSound
<1>3. Goto(u, [mine EXCEPT !.at = "sync", !.view = row])
  BY <1>1 DEF ReadRow
<1>4. up' \in [Updater -> UpdaterState] /\ \A w \in Updater : HasTarget(up'[w])
  BY <1>2, <1>3, GoesOn
<1>5. WorldSound'
  BY DEF UpdateInv, WorldSound, ReadRow
<1> QED BY <1>4, <1>5 DEF UpdateInv

LEMMA RetractTyped ==
  ASSUME UpdateInv, NEW u \in Updater, Retract(u)
  PROVE  UpdateInv'
<1>1. PICK mine \in UpdaterState : mine = up[u]
  BY DEF UpdateInv
<1>2. PICK gone : gone = {KeyOf(m) : m \in queue} \ Declared(u)
  OBVIOUS
<1>3. gone \subseteq Message
  BY <1>2 DEF UpdateInv, WorldSound, KeyOf, Message, Maybe
<1>4. UpdaterSound([mine EXCEPT !.at = "write", !.gone = gone])
  BY <1>3 DEF UpdaterSound, UpdaterState, HasTarget
<1>5. Goto(u, [mine EXCEPT !.at = "write", !.gone = gone])
  BY <1>1, <1>2 DEF Retract
<1>6. up' \in [Updater -> UpdaterState] /\ \A w \in Updater : HasTarget(up'[w])
  BY <1>4, <1>5, GoesOn
<1>7. WorldSound'
  BY DEF UpdateInv, WorldSound, Retract
<1> QED BY <1>6, <1>7 DEF UpdateInv

LEMMA SyncTyped ==
  ASSUME UpdateInv, NEW u \in Updater, Sync(u)
  PROVE  UpdateInv'
<1>1. PICK mine \in UpdaterState : mine = up[u]
  BY DEF UpdateInv
<1>2. mine.running \in Version /\ mine.view \in RowType
  BY DEF UpdaterState
<1>3. up' \in [Updater -> UpdaterState] /\ \A w \in Updater : HasTarget(up'[w])
  BY PassOverTyped DEF Sync
<1>4. WorldSound'
  <2>1. queue' \subseteq Message
    BY <1>1, <1>2, DesiredTyped DEF Sync, UpdateInv, WorldSound
  <2> QED BY <2>1 DEF UpdateInv, WorldSound, Sync
<1> QED BY <1>3, <1>4 DEF UpdateInv

LEMMA StoreFailsTyped ==
  ASSUME UpdateInv, NEW u \in Updater, StoreFails(u)
  PROVE  UpdateInv'
BY PassOverTyped DEF UpdateInv, WorldSound, StoreFails

LEMMA UpdatePreserved == UpdateInv /\ [SelfUpdateNext]_uvars => UpdateInv'
<1> SUFFICES ASSUME UpdateInv, [SelfUpdateNext]_uvars PROVE UpdateInv'
  OBVIOUS
<1>1. CASE \E v \in Version, good \in BOOLEAN : Release(v, good)
  BY <1>1, ReleaseTyped
<1>2. CASE \E v \in Version : Reinstall(v)
  BY <1>2, ReinstallTyped
<1>3. CASE \/ IntervalPasses \/ LockAges \/ Restart \/ BeginPass \/ ClaimFails \/ BeginUpgrade
  BY <1>3, IntervalTyped, LockAgesTyped, RestartTyped, BeginPassTyped, ClaimFailsTyped,
     BeginUpgradeTyped
<1>4. CASE \E u \in Updater :
             UpdaterStep(u) \/ ProbeFails(u) \/ SwapFails(u) \/ SwapRefused(u) \/ StoreFails(u)
  <2>1. PICK u \in Updater :
          UpdaterStep(u) \/ ProbeFails(u) \/ SwapFails(u) \/ SwapRefused(u) \/ StoreFails(u)
    BY <1>4
  <2>2. CASE UpdaterStep(u)
    BY <2>2, ProbeTyped, TakeLockTyped, BreakLockTyped, SwapTyped, UnlockTyped, RecordTyped,
       RecordBlockedTyped, AskDiskTyped, NoteDiskTyped, ReadRowTyped, RetractTyped, SyncTyped
       DEF UpdaterStep
  <2> QED BY <2>1, <2>2, ProbeFailsTyped, SwapEndsTyped, StoreFailsTyped
<1>5. CASE UNCHANGED uvars
  BY <1>5 DEF uvars, UpdateInv, WorldSound
<1> QED BY <1>1, <1>2, <1>3, <1>4, <1>5 DEF SelfUpdateNext

LEMMA UpdateTyped == UpdateInv => SelfUpdateTypeOK
BY DEF UpdateInv, WorldSound, SelfUpdateTypeOK, UpdaterState, RowType, Maybe, Message

\* The lock file, the row, the messages and the updaters keep their types: what
\* is installed is always a release, so an updater that swaps has a target.
THEOREM SelfUpdateTypeCorrect == SelfUpdateSpec => []SelfUpdateTypeOK
<1>1. SelfUpdateSpec => []UpdateInv
  BY UpdateInitially, UpdatePreserved, PTL DEF SelfUpdateSpec
<1> QED BY <1>1, UpdateTyped, PTL

-----------------------------------------------------------------------------
(***************************************************************************)
(* The services side by side, as MCServices composes them: whichever runs,  *)
(* each takes a step of its own specification or stands still.              *)
(***************************************************************************)

LEMMA EachBegins ==
  ASSUME MCInit
  PROVE  /\ DebounceInit /\ ScopeInit /\ GovernorInit /\ WorktreesInit /\ SelfUpdateInit
         /\ ExactInit /\ TurnsInit
BY DEF MCInit

LEMMA EachSteps ==
  ASSUME [MCNext]_mcvars
  PROVE  /\ [DebounceNext]_dvars /\ [ScopeNext]_scvars /\ [GovernorNext]_gvars
         /\ [WorktreesNext]_wvars /\ [SelfUpdateNext]_uvars /\ [ExactNext]_xvars /\ [TurnsNext]_tvars
<1>1. CASE UNCHANGED mcvars
  BY <1>1 DEF mcvars
<1>2. CASE MCNext
  BY <1>2 DEF MCNext, Watcher, ScopeReads, Governor, Supervisor, Update, Exact, Turns
<1> QED BY <1>1, <1>2

\* Every service stays well formed beside the others.
THEOREM ServicesTypeCorrect == MCSpec => []ServicesTypeOK
<1>1. MCInit => /\ DebounceInit /\ ScopeInit /\ GovernorInit /\ WorktreesInit /\ SelfUpdateInit
                /\ ExactInit /\ TurnsInit
  BY EachBegins
<1>2. [MCNext]_mcvars =>
        /\ [DebounceNext]_dvars /\ [ScopeNext]_scvars /\ [GovernorNext]_gvars
        /\ [WorktreesNext]_wvars /\ [SelfUpdateNext]_uvars /\ [ExactNext]_xvars /\ [TurnsNext]_tvars
  BY EachSteps
<1>3. MCInit /\ [][MCNext]_mcvars => []DebounceTypeOK
  BY <1>1, <1>2, DebounceTypeCorrect, PTL DEF DebounceSpec
<1>4. MCInit /\ [][MCNext]_mcvars => []ScopeTypeOK
  BY <1>1, <1>2, ScopeTypeCorrect, PTL DEF ScopeSpec
<1>5. MCInit /\ [][MCNext]_mcvars => []GovernorTypeOK
  <2>1. GovernorInit => GovernorInv
    BY InitGovernorInv
  <2>2. GovernorInv /\ [GovernorNext]_gvars => GovernorInv'
    BY NextKeepsGovernorInv
  <2>3. GovernorInv => GovernorTypeOK
    BY DEF GovernorInv
  <2> QED BY <1>1, <1>2, <2>1, <2>2, <2>3, PTL
<1>6. MCInit /\ [][MCNext]_mcvars => []WorktreesTypeOK
  <2>1. WorktreesInit => WorktreesInv
    BY InitWorktreesInv
  <2>2. WorktreesInv /\ [WorktreesNext]_wvars => WorktreesInv'
    BY NextKeepsWorktreesInv
  <2>3. WorktreesInv => WorktreesTypeOK
    BY DEF WorktreesInv
  <2> QED BY <1>1, <1>2, <2>1, <2>2, <2>3, PTL
<1>7. MCInit /\ [][MCNext]_mcvars => []SelfUpdateTypeOK
  BY <1>1, <1>2, UpdateInitially, UpdatePreserved, UpdateTyped, PTL
<1>8. MCInit /\ [][MCNext]_mcvars => []ExactTypeOK
  BY <1>1, <1>2, ExactTypeCorrect, PTL DEF ExactSpec
<1>9. MCInit /\ [][MCNext]_mcvars => []TurnsTypeOK
  <2>1. TurnsInit => TurnsInv
    BY TurnsInitially
  <2>2. TurnsInv /\ [TurnsNext]_tvars => TurnsInv'
    BY TurnsPreserved
  <2> QED BY <1>1, <1>2, <2>1, <2>2, TurnsTyped, PTL
<1>10. DebounceTypeOK /\ ScopeTypeOK /\ GovernorTypeOK /\ WorktreesTypeOK /\ SelfUpdateTypeOK
         /\ ExactTypeOK /\ TurnsTypeOK => ServicesTypeOK
  BY DEF ServicesTypeOK
<1> QED BY <1>3, <1>4, <1>5, <1>6, <1>7, <1>8, <1>9, <1>10, PTL DEF MCSpec
=============================================================================
