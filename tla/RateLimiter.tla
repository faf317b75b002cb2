---------------------------- MODULE RateLimiter ----------------------------
(***************************************************************************)
(* RateLimiter of src/src/rate_limit.rs and the requests that go through   *)
(* it.  Each call of the client runs acquire (a loop of polls under the    *)
(* mutex with sleeps between them), sends, records the response, and drops *)
(* its reservation; tasks interleave between any two of these steps, and   *)
(* the future of a call may be dropped wherever it is.  The server is any  *)
(* server: a call may be answered with every member of Headers.            *)
(***************************************************************************)
EXTENDS Bucket

CONSTANTS
  Operations,   \* operation ids
  Groups,       \* rate-limit group names
  Requests,     \* the calls made; OperationOf says of which operation
  OperationOf,
  SpecLimit,    \* spec_rate_limit: what the spec declares for an operation
  Headers,      \* the parsed headers a response may carry
  TIMEOUT,      \* reqwest's total timeout: a call is answered or fails by then
  CallBy,       \* bound: calls start no later than this
  MaxTime       \* bound: the clock stops here

Declared == [group : Groups, max_tokens : Nat, window : Nat \ {0}]

Header ==
  [group : Option(Groups), limit : Option(Budget), remaining : Option(Nat),
   used : Option(Nat), rate_limited : BOOLEAN, retry_after : Option(Nat)]

ASSUME RequestsAssumption ==
  IsFiniteSet(Requests) /\ OperationOf \in [Requests -> Operations]
ASSUME GroupsAssumption ==
  None \notin Groups /\ SpecLimit \in [Operations -> Option(Declared)]
ASSUME HeadersAssumption == Headers \subseteq Header
ASSUME BoundsAssumption == TIMEOUT \in Nat /\ CallBy \in Nat /\ MaxTime \in Nat

VARIABLES
  now,          \* Instant::now()
  buckets,      \* State.buckets, None where there is no entry
  learned,      \* State.learned
  pc,           \* where each call is
  timer,        \* when its sleep ends; while sent, when it times out; else 0
  reservation,  \* the Reservation it holds
  retryAt       \* history: the latest Retry-After instant recorded per group

vars == <<now, buckets, learned, pc, timer, reservation, retryAt>>

NoReservation == [group |-> None, tokens |-> 0]

Init ==
  /\ now = 0
  /\ buckets = [g \in Groups |-> None]
  /\ learned = [o \in Operations |-> None]
  /\ pc = [r \in Requests |-> "idle"]
  /\ timer = [r \in Requests |-> 0]
  /\ reservation = [r \in Requests |-> NoReservation]
  /\ retryAt = [g \in Groups |-> 0]

(***************************************************************************)
(* State::bucket_for: a group learned from headers wins over the spec's;   *)
(* the bucket is created from the spec's declaration on first use.         *)
(***************************************************************************)
GroupOf(o) ==
  IF learned[o] # None THEN learned[o]
  ELSE IF SpecLimit[o] # None THEN SpecLimit[o].group
  ELSE None

BucketFor(o) ==
  IF GroupOf(o) = None THEN None
  ELSE IF buckets[GroupOf(o)] # None THEN buckets[GroupOf(o)]
  ELSE IF SpecLimit[o] # None THEN NewBucket(SpecLimit[o])
  ELSE None

(***************************************************************************)
(* One round of the loop in acquire, from taking the lock to releasing it. *)
(***************************************************************************)
Poll(r) ==
  \/ pc[r] = "idle" /\ now <= CallBy
  \/ pc[r] = "waiting" /\ timer[r] <= now

\* (Bound by \E below so that TLC evaluates it once.)
SettledFor(r) == Settle(BucketFor(OperationOf[r]), now)

Send(r) ==
  /\ pc' = [pc EXCEPT ![r] = "sent"]
  /\ timer' = [timer EXCEPT ![r] = now + TIMEOUT]

\* No known group, or no budget for it: the call proceeds unreserved.
Proceed(r) ==
  /\ Poll(r)
  /\ BucketFor(OperationOf[r]) = None
  /\ Send(r)
  /\ UNCHANGED <<now, buckets, learned, reservation, retryAt>>

Reserve(r) ==
  /\ Poll(r)
  /\ BucketFor(OperationOf[r]) # None
  /\ \E bucket \in {SettledFor(r)} :
       LET group == GroupOf(OperationOf[r])
           cost == ReservationCost(bucket)
       IN  /\ ReadyAt(bucket, now) <= now
           /\ buckets' = [buckets EXCEPT ![group] =
                            [bucket EXCEPT !.in_flight = @ + cost]]
           /\ reservation' = [reservation EXCEPT ![r] =
                                [group |-> group, tokens |-> cost]]
  /\ Send(r)
  /\ UNCHANGED <<now, learned, retryAt>>

Sleep(r) ==
  /\ Poll(r)
  /\ BucketFor(OperationOf[r]) # None
  /\ \E bucket \in {SettledFor(r)} :
       \E ready \in {ReadyAt(bucket, now)} :
         /\ ready > now
         /\ buckets' = [buckets EXCEPT ![GroupOf(OperationOf[r])] = bucket]
         /\ timer' = [timer EXCEPT ![r] = now + AtMost(ready - now, MAX_POLL)]
  /\ pc' = [pc EXCEPT ![r] = "waiting"]
  /\ UNCHANGED <<now, learned, reservation, retryAt>>

(***************************************************************************)
(* RateLimiter::record.  A response without any of the headers that is not *)
(* a 429 is ignored, and so is one whose group or whose group's budget     *)
(* nobody knows -- though by then the group may have been learned.         *)
(***************************************************************************)
Ignored(h) ==
  h.limit = None /\ h.remaining = None /\ h.used = None /\ ~h.rate_limited

Learns(o, h) ==
  /\ ~Ignored(h)
  /\ h.group # None
  /\ SpecLimit[o] = None \/ SpecLimit[o].group # h.group

RecordGroup(o, h) == IF h.group # None THEN h.group ELSE GroupOf(o)

RecordBucket(o, h) ==
  LET group == RecordGroup(o, h)
  IN  IF Ignored(h) \/ group = None THEN None
      ELSE IF buckets[group] # None THEN buckets[group]
      ELSE IF h.limit # None THEN NewBucket(h.limit)
      ELSE IF SpecLimit[o] # None THEN NewBucket(SpecLimit[o])
      ELSE None

Respond(r, h) ==
  LET o == OperationOf[r]
      group == RecordGroup(o, h)
  IN  /\ pc[r] = "sent"
      /\ learned' = IF Learns(o, h) THEN [learned EXCEPT ![o] = h.group]
                    ELSE learned
      /\ IF RecordBucket(o, h) = None
         THEN UNCHANGED <<buckets, retryAt>>
         ELSE /\ buckets' = [buckets EXCEPT ![group] =
                               Recorded(RecordBucket(o, h), h, now)]
              /\ retryAt' = IF h.rate_limited
                            THEN [retryAt EXCEPT ![group] =
                                    Later(@, HoldUntil(h, now))]
                            ELSE retryAt
      /\ pc' = [pc EXCEPT ![r] = "answered"]
      /\ timer' = [timer EXCEPT ![r] = 0]
      /\ UNCHANGED <<now, reservation>>

\* The transport failed or timed out: there is nothing to record.
Fail(r) ==
  /\ pc[r] = "sent"
  /\ pc' = [pc EXCEPT ![r] = "answered"]
  /\ timer' = [timer EXCEPT ![r] = 0]
  /\ UNCHANGED <<now, buckets, learned, reservation, retryAt>>

\* Mutant of GiveBack: the cost is computed anew instead of remembered.
GiveBackCurrentCost(r) ==
  /\ buckets' =
       IF reservation[r].group = None THEN buckets
       ELSE LET bucket == buckets[reservation[r].group]
            IN  [buckets EXCEPT ![reservation[r].group].in_flight =
                   SaturatingSub(@, ReservationCost(bucket))]
  /\ reservation' = [reservation EXCEPT ![r] = NoReservation]
  /\ pc' = [pc EXCEPT ![r] = "done"]
  /\ timer' = [timer EXCEPT ![r] = 0]
  /\ UNCHANGED <<now, learned, retryAt>>

\* Mutant of GiveBack: only a call that got its answer returns its tokens.
GiveBackIfAnswered(r) ==
  /\ buckets' =
       IF reservation[r].group = None \/ pc[r] # "answered" THEN buckets
       ELSE [buckets EXCEPT ![reservation[r].group].in_flight =
               SaturatingSub(@, reservation[r].tokens)]
  /\ reservation' = [reservation EXCEPT ![r] = NoReservation]
  /\ pc' = [pc EXCEPT ![r] = "done"]
  /\ timer' = [timer EXCEPT ![r] = 0]
  /\ UNCHANGED <<now, learned, retryAt>>

\* Reservation::drop.
GiveBack(r) ==
  /\ buckets' =
       IF reservation[r].group = None \/ buckets[reservation[r].group] = None
       THEN buckets
       ELSE [buckets EXCEPT ![reservation[r].group].in_flight =
               SaturatingSub(@, reservation[r].tokens)]
  /\ reservation' = [reservation EXCEPT ![r] = NoReservation]
  /\ pc' = [pc EXCEPT ![r] = "done"]
  /\ timer' = [timer EXCEPT ![r] = 0]
  /\ UNCHANGED <<now, learned, retryAt>>

Finish(r) == pc[r] = "answered" /\ GiveBack(r)

\* The caller drops the future, wherever it is.
Cancel(r) == pc[r] \in {"waiting", "sent"} /\ GiveBack(r)

\* RateLimiter::budgets, which settles every bucket it reports.
Budgets ==
  /\ buckets' = [g \in Groups |->
                   IF buckets[g] = None THEN None ELSE Settle(buckets[g], now)]
  /\ UNCHANGED <<now, learned, pc, timer, reservation, retryAt>>

Tick ==
  /\ now < MaxTime
  /\ now' = now + 1
  /\ UNCHANGED <<buckets, learned, pc, timer, reservation, retryAt>>

Acquire(r) == Proceed(r) \/ Reserve(r) \/ Sleep(r)
Answer(r) == Fail(r) \/ \E h \in Headers : Respond(r, h)
Request(r) == Acquire(r) \/ Answer(r) \/ Finish(r) \/ Cancel(r)

Next == Tick \/ Budgets \/ \E r \in Requests : Request(r)

Spec == Init /\ [][Next]_vars

-----------------------------------------------------------------------------
(***************************************************************************)
(* Every variable has its type.                                            *)
(***************************************************************************)
ReservationType == [group : Option(Groups), tokens : Nat]

TypeOK ==
  /\ now \in Instant
  /\ buckets \in [Groups -> Option(BucketType)]
  /\ learned \in [Operations -> Option(Groups)]
  /\ pc \in [Requests -> {"idle", "waiting", "sent", "answered", "done"}]
  /\ timer \in [Requests -> Instant]
  /\ reservation \in [Requests -> ReservationType]
  /\ retryAt \in [Groups -> Instant]

Live(g) == {r \in Requests : reservation[r].group = g}

Reserved(g) == TokenSum([r \in Requests |-> reservation[r].tokens], Live(g))

(***************************************************************************)
(* Tokens are conserved: a bucket's in_flight is the sum of the            *)
(* reservations its calls hold, whatever was cancelled, failed or          *)
(* re-sized meanwhile, and a call holds one only while it is out.  So the  *)
(* saturating_sub in Reservation::drop never saturates: no capacity leaks  *)
(* and none is returned twice.                                             *)
(***************************************************************************)
InFlightConserved ==
  /\ \A g \in Groups :
       IF buckets[g] = None THEN Live(g) = {}
       ELSE buckets[g].in_flight = Reserved(g)
  /\ \A r \in Requests :
       pc[r] \in {"idle", "waiting", "done"} => reservation[r].group = None

(***************************************************************************)
(* A 429 is never forgotten early: while the latest Retry-After instant of *)
(* a group lies ahead, its bucket is blocked at least until then, and no   *)
(* request is let into the group before it ("nothing is sent to this group *)
(* before this instant", Bucket.blocked_until).                            *)
(***************************************************************************)
HoldKept ==
  \A g \in Groups :
    retryAt[g] > now =>
      /\ buckets[g] # None
      /\ buckets[g].blocked_until # None
      /\ buckets[g].blocked_until >= retryAt[g]

Admitted(r) == reservation[r].group = None /\ reservation'[r].group # None

HoldRespected ==
  [][\A r \in Requests : Admitted(r) => now >= retryAt[reservation'[r].group]]_vars

(***************************************************************************)
(* Settling is observation, not action: settling a bucket now and again    *)
(* later leaves what settling it later alone leaves.  So polling           *)
(* rate_budgets, or a waiter waking early, changes no outcome.             *)
(***************************************************************************)
SettleCoalesces ==
  \A g \in Groups :
    buckets[g] # None =>
      LET horizon == now .. now + buckets[g].window + 1
      IN  \A s, t \in horizon :
            s <= t => Settle(Settle(buckets[g], s), t) = Settle(buckets[g], t)

(***************************************************************************)
(* ready_at is never late: if no response arrives, no instant before the   *)
(* one it returns would have let a request in ("The earliest instant a     *)
(* request could reserve its worst-case cost").                            *)
(***************************************************************************)
Admits(b, t) ==
  LET settled == Settle(b, t)
  IN  /\ settled.blocked_until = None
      /\ Available(settled) >= ReservationCost(settled)

ReadyNeverLate ==
  \A g \in Groups :
    buckets[g] # None =>
      \A t \in now .. ReadyAt(Settle(buckets[g], now), now) - 1 :
        ~ Admits(buckets[g], t)
=============================================================================
