------------------------------- MODULE Bucket -------------------------------
(***************************************************************************)
(* One rate-limit group's token bucket, as src/src/rate_limit.rs keeps it: *)
(* struct Bucket and its methods as pure operators on a record.  Instants  *)
(* are natural numbers on one clock; durations are numbers of its ticks.   *)
(***************************************************************************)
EXTENDS Integers, Sequences, FiniteSets

CONSTANTS
  None,                 \* an absent Option
  MAX_REQUEST_COST,     \* the most tokens one response costs (5)
  MAX_POLL,             \* the longest single sleep of a waiter
  DEFAULT_RETRY_AFTER   \* how long a 429 without Retry-After holds its group

ASSUME CostAssumption == MAX_REQUEST_COST \in Nat \ {0}
ASSUME DelayAssumption == MAX_POLL \in Nat \ {0} /\ DEFAULT_RETRY_AFTER \in Nat

Option(S) == S \cup {None}
Instant == Nat
Spend == [at : Instant, tokens : Nat \ {0}]
Observation == [remaining : Nat, at : Instant]
Budget == [max_tokens : Nat, window : Nat \ {0}]

BucketType ==
  [max_tokens : Nat, window : Nat \ {0}, observed : Option(Observation),
   spends : Seq(Spend), in_flight : Nat, blocked_until : Option(Instant)]

ASSUME NoneAssumption ==
  /\ None \notin Int
  /\ None \notin Observation
  /\ None \notin BucketType

NewBucket(budget) ==
  [max_tokens |-> budget.max_tokens, window |-> budget.window,
   observed |-> None, spends |-> << >>, in_flight |-> 0,
   blocked_until |-> None]

(***************************************************************************)
(* u32::saturating_sub, u32::min and Instant::max.                         *)
(***************************************************************************)
SaturatingSub(a, b) == IF b <= a THEN a - b ELSE 0
AtMost(a, b) == IF a <= b THEN a ELSE b
Later(a, b) == IF a <= b THEN b ELSE a

(***************************************************************************)
(* The sum of f over I, as the number of single tokens <<i, k>>: counting  *)
(* them instead of folding lets the theorems on finite sets apply.         *)
(***************************************************************************)
TokenSum(f, I) == Cardinality(UNION {{i} \X (1 .. f[i]) : i \in I})

SpentBy(b, I) == TokenSum([i \in DOMAIN b.spends |-> b.spends[i].tokens], I)

(***************************************************************************)
(* Bucket::settle: everything that has happened by now, in the code's      *)
(* order: a lifted 429 hold drops the observation that came with it, an    *)
(* observation a whole window old is dropped, and the spends at the front  *)
(* of the queue that are a window old are popped, crediting the            *)
(* observation that deducted them.                                         *)
(***************************************************************************)
Lift(b, now) ==
  IF b.blocked_until # None /\ now >= b.blocked_until
  THEN [b EXCEPT !.blocked_until = None, !.observed = None]
  ELSE b

Forget(b, now) ==
  IF b.observed # None /\ now >= b.observed.at + b.window
  THEN [b EXCEPT !.observed = None]
  ELSE b

\* Mutant of Popped: a spend is released a tick before it is a window old.
PoppedEarly(b, now) ==
  {i \in DOMAIN b.spends :
     \A j \in 1 .. i : b.spends[j].at + b.window <= now + 1}

\* The spends the loop pops: it stops at the first that is not a window old.
Popped(b, now) ==
  {i \in DOMAIN b.spends : \A j \in 1 .. i : b.spends[j].at + b.window <= now}

\* The observation already deducts the spend (without one, they all count).
Deducted(b, i) == b.observed # None => b.spends[i].at <= b.observed.at

Credited(b, I) ==
  LET credit == {i \in I : Deducted(b, i)}
  IN  IF b.observed = None \/ credit = {} THEN b.observed
      ELSE [remaining |-> AtMost(b.observed.remaining + SpentBy(b, credit),
                                 b.max_tokens),
            at |-> b.observed.at]

\* Mutant of Release: crediting the observation also renews it.
ReleaseRenewing(b, now) ==
  LET popped == Popped(b, now)
      credited == Credited(b, popped)
  IN  [b EXCEPT !.observed =
                  IF credited = b.observed THEN credited
                  ELSE [remaining |-> credited.remaining, at |-> now],
                !.spends = SubSeq(b.spends, Cardinality(popped) + 1,
                                  Len(b.spends))]

Release(b, now) ==
  LET popped == Popped(b, now)
  IN  [b EXCEPT !.observed = Credited(b, popped),
                !.spends = SubSeq(b.spends, Cardinality(popped) + 1,
                                  Len(b.spends))]

Settle(b, now) == Release(Forget(Lift(b, now), now), now)

(***************************************************************************)
(* Bucket::available, reservation_cost and ready_at, on a settled bucket.  *)
(***************************************************************************)
Balance(b) ==
  IF b.observed # None THEN b.observed.remaining
  ELSE SaturatingSub(b.max_tokens, SpentBy(b, DOMAIN b.spends))

\* Mutant of Available: calls in flight are not counted.
AvailableGross(b) == Balance(b)

Available(b) == SaturatingSub(Balance(b), b.in_flight)

\* Mutant of ReservationCost: what a success costs, not the worst case.
ReservationCostOfSuccess(b) == AtMost(2, b.max_tokens)

ReservationCost(b) == AtMost(MAX_REQUEST_COST, b.max_tokens)

\* The spends whose release, after those before it, leaves enough tokens.
Enough(b) ==
  {i \in DOMAIN b.spends :
     /\ Deducted(b, i)
     /\ Available(b) + SpentBy(b, {j \in 1 .. i : Deducted(b, j)})
          >= ReservationCost(b)}

Earliest(I) == CHOOSE i \in I : \A j \in I : i <= j

\* Mutant of ReadyAt: a waiter waits for the whole window of the observation.
ReadyAtWholeWindow(b, now) ==
  IF b.blocked_until # None THEN b.blocked_until
  ELSE IF Available(b) >= ReservationCost(b) THEN now
  ELSE IF b.observed # None THEN b.observed.at + b.window
  ELSE now + MAX_POLL

\* Mutant of ReadyAt: the balance is looked at before the hold.
ReadyAtBalanceFirst(b, now) ==
  IF Available(b) >= ReservationCost(b) THEN now
  ELSE IF b.blocked_until # None THEN b.blocked_until
  ELSE now + MAX_POLL

ReadyAt(b, now) ==
  IF b.blocked_until # None THEN b.blocked_until
  ELSE IF Available(b) >= ReservationCost(b) THEN now
  ELSE IF Enough(b) # {} THEN b.spends[Earliest(Enough(b))].at + b.window
  ELSE IF b.observed # None THEN b.observed.at + b.window
  ELSE now + MAX_POLL

(***************************************************************************)
(* What RateLimiter::record does to the bucket of a response's group, with *)
(* the headers already parsed: h.limit, h.remaining, h.used and            *)
(* h.retry_after are None when the header is absent or unusable.           *)
(***************************************************************************)
Resize(b, limit) ==
  IF limit = None THEN b
  ELSE [b EXCEPT !.max_tokens = limit.max_tokens, !.window = limit.window]

\* Mutant of Charge: a response that used nothing is queued as a spend.
ChargeAlways(b, used, now) ==
  IF used = None THEN b
  ELSE [b EXCEPT !.spends = Append(@, [at |-> now, tokens |-> used])]

Charge(b, used, now) ==
  IF used = None \/ used = 0 THEN b
  ELSE [b EXCEPT !.spends = Append(@, [at |-> now, tokens |-> used])]

Observe(b, remaining, now) ==
  [b EXCEPT !.observed =
     IF remaining = None THEN None
     ELSE [remaining |-> AtMost(remaining, b.max_tokens), at |-> now]]

HoldUntil(h, now) ==
  now + (IF h.retry_after = None THEN DEFAULT_RETRY_AFTER ELSE h.retry_after)

\* Mutant of Hold: the last 429 replaces a longer hold.
HoldLatest(b, h, now) ==
  IF ~h.rate_limited THEN b
  ELSE [b EXCEPT !.blocked_until = HoldUntil(h, now)]

Hold(b, h, now) ==
  IF ~h.rate_limited THEN b
  ELSE [b EXCEPT !.blocked_until =
          IF @ = None THEN HoldUntil(h, now) ELSE Later(@, HoldUntil(h, now))]

Recorded(b, h, now) ==
  LET settled == Settle(Resize(b, h.limit), now)
  IN  Hold(Observe(Charge(settled, h.used, now), h.remaining, now), h, now)
=============================================================================
