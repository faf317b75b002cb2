----------------------- MODULE RateLimitedEsi_proofs -----------------------
(***************************************************************************)
(* Proofs that, on a network that keeps up, a client that has its buckets  *)
(* for itself is never rate-limited: what the limiter believes a bucket    *)
(* holds is covered by the ledger ESI keeps for it.                        *)
(***************************************************************************)
EXTENDS RateLimitedEsi, RateLimiter_proofs

-----------------------------------------------------------------------------
(***************************************************************************)
(* When the promise holds.  The network: responses are recorded in the     *)
(* order ESI gave them, at once, and none is lost.  The server: nobody     *)
(* else spends from the buckets.  The spec: operations of one group        *)
(* declare one limit, no smaller than the worst case of one request (in    *)
(* src/spec/esi-latest.json every group has one limit, the smallest 15),   *)
(* and ESI grants what they declare.                                       *)
(***************************************************************************)
PromptNetwork == Ordered /\ MaxLatency = 0 /\ ~Lossy

SpecAgrees ==
  /\ Groups = {SpecLimit[o].group : o \in Operations}
  /\ \A o, p \in Operations :
       SpecLimit[o].group = SpecLimit[p].group => SpecLimit[o] = SpecLimit[p]
  /\ \A o \in Operations : MAX_REQUEST_COST <= SpecLimit[o].max_tokens
  /\ \A o \in Operations :
       Granted[SpecLimit[o].group] =
         [max_tokens |-> SpecLimit[o].max_tokens, window |-> SpecLimit[o].window]

OneClient == PromptNetwork /\ OtherCosts = {} /\ SpecAgrees

-----------------------------------------------------------------------------
(***************************************************************************)
(* The inductive invariant.  Per group: the bucket the limiter keeps or    *)
(* would create, the calls ESI may still answer, those whose answer is     *)
(* under way, and what these used.                                         *)
(***************************************************************************)
BucketOf(g) == IF buckets[g] = None THEN NewBucket(BudgetOf(g)) ELSE buckets[g]

Tokens == [r \in Requests |-> reservation[r].tokens]
Used == [r \in Requests |-> IF reply[r] = None THEN 0 ELSE reply[r].header.used]

Sent(g) == {r \in Requests : pc[r] = "sent" /\ ServerGroup(r) = g}
Pending(g) == {r \in Requests : reply[r] # None /\ ServerGroup(r) = g}

\* Tokens reserved for calls not recorded, and tokens used but not recorded.
Held(g) == TokenSum(Tokens, Sent(g))
Unrecorded(g) == TokenSum(Used, Pending(g))

\* The calls of r's group that ESI answered after r.
After(r) ==
  {q \in Pending(ServerGroup(r)) :
     \E i, j \in DOMAIN answered : i < j /\ answered[i] = r /\ answered[j] = q}

\* What ESI's own ledger has spent.
Spent(g) == SpentSince(ledger[g], now - BudgetOf(g).window + 1)

\* The limiter: nothing is learned, the budgets are the spec's, nothing held.
LimiterState ==
  /\ learned = [o \in Operations |-> None]
  /\ \A g \in Groups : /\ BucketOf(g).max_tokens = BudgetOf(g).max_tokens
                       /\ BucketOf(g).window = BudgetOf(g).window
                       /\ BucketOf(g).blocked_until = None

\* A call that is out holds the worst case of its group.
CallState ==
  \A r \in Requests : pc[r] \in {"sent", "answered"} =>
    reservation[r] = [group |-> ServerGroup(r), tokens |-> MAX_REQUEST_COST]

\* An answer under way paid for what it used.
Paid(g) ==
  [group : {g}, limit : {BudgetOf(g)}, remaining : Nat,
   used : 0 .. MAX_REQUEST_COST, rate_limited : {FALSE}, retry_after : {None}]

ReplyState ==
  /\ reply \in [Requests -> Option(ReplyType)]
  /\ \A r \in Requests : reply[r] # None =>
       /\ pc[r] = "sent"
       /\ reply[r] \in [at : 0 .. now, header : Paid(ServerGroup(r))]
  /\ answered \in Seq(Requests)
  /\ \A i, j \in 1 .. Len(answered) : answered[i] = answered[j] => i = j
  /\ \A r \in Requests :
       reply[r] # None <=> \E i \in 1 .. Len(answered) : answered[i] = r

LedgerState ==
  /\ ledger \in [Groups -> Seq(Spend)]
  /\ \A g \in Groups :
       /\ \A i, j \in DOMAIN ledger[g] : i <= j => ledger[g][i].at <= ledger[g][j].at
       /\ \A i \in DOMAIN ledger[g] :
            ledger[g][i].at <= now /\ now < ledger[g][i].at + BudgetOf(g).window

\* The limiter's queue is ESI's ledger, but for the answers under way.
QueueIsLedger(g) ==
  \A t \in Int :
    t > now - BudgetOf(g).window =>
      SpentSince(ledger[g], t)
        = SpentSince(BucketOf(g).spends, t) + (IF t <= now THEN Unrecorded(g) ELSE 0)

\* An observation and the spends it deducts fit the bucket.
Fits(b) ==
  b.observed # None =>
    b.observed.remaining + SpentSince(b.spends, 0) <= b.max_tokens

\* What is held is no more than what the limiter believes there is.
HeldBelieved(g) == Held(g) <= Balance(Settle(BucketOf(g), now))

LedgerFits(g) == Spent(g) <= BudgetOf(g).max_tokens

Books(g) ==
  QueueIsLedger(g) /\ Fits(BucketOf(g)) /\ HeldBelieved(g) /\ LedgerFits(g)

\* An answer under way reports what was left when it was given.
RepliesCurrent ==
  \A r \in Requests : reply[r] # None =>
    reply[r].header.remaining + Spent(ServerGroup(r))
      = BudgetOf(ServerGroup(r)).max_tokens + TokenSum(Used, After(r))

EsiInv ==
  /\ TypeOK /\ InFlightConserved /\ BookkeepingOrdered
  /\ LimiterState /\ CallState /\ ReplyState /\ LedgerState
  /\ \A g \in Groups : Books(g)
  /\ RepliesCurrent

-----------------------------------------------------------------------------
(* A settled bucket's balance, by what its queue has spent since.          *)

\* Settled, a bucket believes no more than its queue leaves; exactly that
\* once its observation is gone.
LEMMA SettledBalance ==
  ASSUME NEW b \in BucketType, NEW v \in Nat, Settleable(b, v), NEW t \in Nat,
         Fits(b), SpentSince(b.spends, t - b.window + 1) <= b.max_tokens
  PROVE  LET left == b.max_tokens - SpentSince(b.spends, t - b.window + 1)
         IN  /\ left \in Nat /\ Balance(Settle(b, t)) \in Nat
             /\ Balance(Settle(b, t)) <= left
             /\ ~ Kept(b, t) => Balance(Settle(b, t)) = left
             /\ Kept(b, t) =>
                  /\ b.observed.remaining \in Nat
                  /\ Balance(Settle(b, t))
                       = b.observed.remaining + SpentSince(b.spends, 0)
                           - SpentSince(b.spends, t - b.window + 1)
                  /\ Settle(b, t).observed.remaining = Balance(Settle(b, t))
<1> DEFINE c == Settle(b, t)
           since == t - b.window + 1
           x == SpentBy(b, 1 .. Cardinality(Popped(b, t)))
           s == SpentSince(b.spends, since)
           all == SpentSince(b.spends, 0)
           M == b.max_tokens
           rest == c.spends
<1>1. /\ since \in Int /\ x + s = all
      /\ rest \in Seq(Spend)
      /\ SpentSince(rest, since) = s
      /\ \A i \in DOMAIN rest : rest[i].at >= since
  <2>1. since \in Int /\ since >= since
    BY DEF BucketType
  <2> QED  BY <2>1, PoppedAndLeft
<1>2. c \in BucketType /\ c.max_tokens = M /\ M \in Nat /\ Balance(c) \in Nat
  BY SettleType, SettleFields, AvailableType DEF Instant, BucketType
<1>3. x \in Nat
  <2>1. 1 .. Cardinality(Popped(b, t)) \in SUBSET (DOMAIN b.spends)
    BY PoppedBound, PoppedOldest DEF Settleable, Instant
  <2> QED  BY <2>1, SpentByType
<1>4. s \in Nat
  <2>1. b.spends \in Seq(Spend)
    BY DEF BucketType
  <2> QED  BY <1>1, <2>1, SpentSinceType
<1>5. all \in Nat
  <2>1. b.spends \in Seq(Spend) /\ 0 \in Int
    BY DEF BucketType
  <2> QED  BY <2>1, SpentSinceType
<1>6. s <= M
  OBVIOUS
<1>7. CASE Kept(b, t)
  <2>1. c.observed = [remaining |-> AtMost(b.observed.remaining + x, M),
                      at |-> b.observed.at] /\ c.observed # None
    BY <1>7, SettledShape
  <2>2. b.observed.remaining \in Nat
    BY <1>7 DEF Kept, BucketType, Option, Observation
  <2>3. b.observed.remaining + all <= M
    BY <1>7 DEF Kept, Fits
  <2>4. Balance(c) = AtMost(b.observed.remaining + x, M)
        /\ c.observed.remaining = Balance(c)
    BY <2>1 DEF Balance
  <2> DEFINE r == b.observed.remaining
  <2> HIDE DEF c, x, s, all, M, r, since
  <2>5. r \in Nat /\ r + all <= M /\ Balance(c) = AtMost(r + x, M) /\ x + s = all
    BY <1>1, <2>2, <2>3, <2>4 DEF r
  <2>6. Balance(c) = r + x
    BY <2>5, <1>2, <1>3, <1>4, <1>5 DEF AtMost
  <2>7. Balance(c) = r + all - s /\ Balance(c) <= M - s /\ M - s \in Nat
    BY <2>5, <2>6, <1>2, <1>3, <1>4, <1>5, <1>6
  <2> QED  BY <1>2, <1>7, <2>4, <2>2, <2>7 DEF c, s, all, M, r, since
<1>8. CASE ~ Kept(b, t)
  <2>1. c.observed = None
    BY <1>8, SettledShape
  <2>2. SpentBy(c, DOMAIN c.spends) = SpentSince(c.spends, 0)
    BY <1>2, AllSpent
  <2>3. SpentSince(rest, 0) = s
    <3> HIDE DEF rest, since
    <3>1. SpentSince(rest, 0) = SpentSince(rest, since)
      BY <1>1, SpentSinceAll
    <3> QED  BY <1>1, <3>1
  <2>4. Balance(c) = SaturatingSub(M, s)
    BY <1>2, <2>1, <2>2, <2>3 DEF Balance
  <2> HIDE DEF c, s, M, since
  <2>5. Balance(c) = M - s /\ M - s \in Nat
    BY <1>2, <1>4, <1>6, <2>4 DEF SaturatingSub
  <2> QED  BY <1>2, <1>8, <2>5 DEF c, s, M, since
<1> QED  BY <1>7, <1>8

\* Settling keeps it fitting.
LEMMA FitsSettled ==
  ASSUME NEW b \in BucketType, NEW v \in Nat, Settleable(b, v), NEW t \in Nat,
         Fits(b), SpentSince(b.spends, t - b.window + 1) <= b.max_tokens
  PROVE  Fits(Settle(b, t))
<1> DEFINE c == Settle(b, t)
           since == t - b.window + 1
           s == SpentSince(b.spends, since)
           M == b.max_tokens
           rest == c.spends
<1> SUFFICES ASSUME c.observed # None
             PROVE  c.observed.remaining + SpentSince(rest, 0) <= M
  BY SettleFields DEF Fits, Instant
<1>1. Kept(b, t)
  BY SettledShape
<1>2. since \in Int /\ since >= since
  BY DEF BucketType
<1>3. /\ rest \in Seq(Spend)
      /\ SpentSince(rest, since) = s
      /\ \A i \in DOMAIN rest : rest[i].at >= since
  BY <1>2, PoppedAndLeft
<1>4. SpentSince(rest, 0) = s
  <2> HIDE DEF rest, since
  <2>1. SpentSince(rest, 0) = SpentSince(rest, since)
    BY <1>2, <1>3, SpentSinceAll
  <2> QED  BY <1>3, <2>1
<1>5. c.observed.remaining = Balance(c) /\ Balance(c) <= M - s /\ Balance(c) \in Nat
  BY <1>1, SettledBalance
<1>6. s \in Nat /\ M \in Nat
  <2>1. b.spends \in Seq(Spend) /\ M \in Nat
    BY DEF BucketType
  <2> QED  BY <1>2, <2>1, SpentSinceType
<1> HIDE DEF c, s, M, rest
<1> QED  BY <1>4, <1>5, <1>6

\* If no response arrives, the balance grows.
LEMMA BalanceGrows ==
  ASSUME NEW b \in BucketType, NEW v \in Nat, Settleable(b, v),
         b.blocked_until = None, Fits(b),
         NEW t \in Nat, NEW u \in Nat, t <= u,
         SpentSince(b.spends, t - b.window + 1) <= b.max_tokens
  PROVE  /\ Balance(Settle(b, t)) <= Balance(Settle(b, u))
         /\ SpentSince(b.spends, u - b.window + 1) <= b.max_tokens
<1> DEFINE w == b.window
           M == b.max_tokens
           q == b.spends
           st == SpentSince(q, t - w + 1)
           su == SpentSince(q, u - w + 1)
           all == SpentSince(q, 0)
           bt == Balance(Settle(b, t))
           bu == Balance(Settle(b, u))
<1>1. w \in Nat /\ M \in Nat /\ q \in Seq(Spend)
  BY DEF BucketType
<1>2. st \in Nat /\ su \in Nat /\ su <= st
  <2> HIDE DEF w, q
  <2>1. t - w + 1 \in Int /\ u - w + 1 \in Int /\ t - w + 1 <= u - w + 1
    BY <1>1
  <2>2. st \in Nat /\ su \in Nat
    BY <1>1, <2>1, SpentSinceType
  <2>3. su <= st
    BY <1>1, <2>1, SpentSinceLater
  <2> QED  BY <2>2, <2>3
<1>3. all \in Nat
  <2>1. 0 \in Int
    OBVIOUS
  <2> QED  BY <1>1, <2>1, SpentSinceType
<1>4. st <= M /\ su <= M
  <2>1. st <= M
    OBVIOUS
  <2> HIDE DEF st, su, M
  <2> QED  BY <1>1, <1>2, <2>1
<1>5. bt \in Nat /\ bt <= M - st
  BY <1>4, SettledBalance
<1>6. bu \in Nat /\ (~ Kept(b, u) => bu = M - su)
  BY <1>4, SettledBalance
<1>7. CASE ~ Kept(b, u)
  <2>1. bu = M - su
    BY <1>6, <1>7
  <2> HIDE DEF bt, bu, st, su, M
  <2>2. bt <= bu
    BY <1>1, <1>2, <1>5, <2>1
  <2> QED  BY <1>4, <2>2 DEF bt, bu, su, M
<1>8. CASE Kept(b, u)
  <2>1. Kept(b, t)
    <3> DEFINE at == b.observed.at
    <3>1. b.observed # None /\ at \in Nat /\ u < at + w
      BY <1>8 DEF Kept, BucketType, Option, Observation, Instant
    <3>2. t < at + w
      <4> HIDE DEF at, w
      <4> QED  BY <1>1, <3>1
    <3> QED  BY <3>1, <3>2 DEF Kept, HoldAt
  <2> DEFINE r == b.observed.remaining
  <2>2. r \in Nat /\ bt = r + all - st
    BY <1>4, <2>1, SettledBalance
  <2>3. bu = r + all - su
    BY <1>4, <1>8, SettledBalance
  <2> HIDE DEF bt, bu, st, su, all, r
  <2>4. bt <= bu
    BY <1>2, <1>3, <2>2, <2>3
  <2> QED  BY <1>4, <2>4 DEF bt, bu, su
<1> QED  BY <1>7, <1>8

\* Whoever is let in leaves its worst case free beside what is in flight.
LEMMA AdmissionCovered ==
  ASSUME NEW c \in BucketType, NEW t \in Nat, Settleable(c, t),
         c.blocked_until = None, c.observed # None => Kept(c, t),
         \A i \in DOMAIN c.spends : t < c.spends[i].at + c.window,
         ReadyAt(c, t) <= t, MAX_REQUEST_COST <= c.max_tokens
  PROVE  /\ ReservationCost(c) = MAX_REQUEST_COST
         /\ c.in_flight + MAX_REQUEST_COST <= Balance(c)
<1>1. ReservationCost(c) = MAX_REQUEST_COST
  BY DEF ReservationCost, AtMost
<1>2. Available(c) \in Nat /\ Balance(c) \in Nat
  BY AvailableType
<1>3. Available(c) >= MAX_REQUEST_COST
  <2> SUFFICES ASSUME ~ (Available(c) >= ReservationCost(c))  PROVE FALSE
    BY <1>1
  <2>1. CASE Enough(c) # {}
    <3> DEFINE m == Earliest(Enough(c))
    <3>1. m \in DOMAIN c.spends
      <4>1. DOMAIN c.spends \in SUBSET Nat /\ Enough(c) \in SUBSET (DOMAIN c.spends)
        BY SpendsType DEF Enough
      <4>2. m \in Enough(c)
        BY <2>1, <4>1, LeastNatural DEF Earliest
      <4> QED  BY <4>1, <4>2
    <3>2. ReadyAt(c, t) = c.spends[m].at + c.window
      BY <2>1 DEF ReadyAt
    <3>3. t < c.spends[m].at + c.window
      BY <3>1
    <3>4. c.spends[m].at \in Nat /\ c.window \in Nat
      BY <3>1, SpendsType DEF BucketType
    <3> DEFINE x == c.spends[m].at + c.window
    <3>5. x \in Nat /\ ReadyAt(c, t) = x /\ t < x
      BY <3>2, <3>3, <3>4
    <3> HIDE DEF x
    <3> QED  BY <3>5
  <2>2. CASE Enough(c) = {} /\ c.observed # None
    <3>1. ReadyAt(c, t) = c.observed.at + c.window
      BY <2>2 DEF ReadyAt
    <3>2. t < c.observed.at + c.window
      BY <2>2 DEF Kept
    <3>3. c.observed.at \in Nat /\ c.window \in Nat
      BY <2>2 DEF BucketType, Option, Observation, Instant
    <3> DEFINE x == c.observed.at + c.window
    <3>4. x \in Nat /\ ReadyAt(c, t) = x /\ t < x
      BY <3>1, <3>2, <3>3
    <3> HIDE DEF x
    <3> QED  BY <3>4
  <2>3. CASE Enough(c) = {} /\ c.observed = None
    <3>1. ReadyAt(c, t) = t + MAX_POLL
      BY <2>3 DEF ReadyAt
    <3> QED  BY <3>1, DelayAssumption
  <2> QED  BY <2>1, <2>2, <2>3
<1>4. c.in_flight \in Nat /\ Available(c) = SaturatingSub(Balance(c), c.in_flight)
  BY DEF BucketType, Available
<1> QED  BY <1>1, <1>2, <1>3, <1>4, CostAssumption DEF SaturatingSub

\* Settled, no spend and no observation is a window old.
LEMMA SettledIsRecent ==
  ASSUME NEW b \in BucketType, NEW t \in Nat, Settleable(b, t),
         b.blocked_until = None
  PROVE  LET c == Settle(b, t)
         IN  /\ c \in BucketType /\ Settleable(c, t)
             /\ c.max_tokens = b.max_tokens /\ c.window = b.window
             /\ c.in_flight = b.in_flight
             /\ c.blocked_until = None
             /\ c.observed # None => Kept(c, t)
             /\ \A i \in DOMAIN c.spends : t < c.spends[i].at + c.window
             /\ \A u \in Int : u > t - b.window =>
                  SpentSince(c.spends, u) = SpentSince(b.spends, u)
             /\ SpentSince(c.spends, 0) = SpentSince(b.spends, t - b.window + 1)
<1> DEFINE c == Settle(b, t)
           w == b.window
           since == t - w + 1
           rest == c.spends
<1>1. c \in BucketType /\ Settleable(c, t)
  BY SettledIsSettleable
<1>2. /\ c.max_tokens = b.max_tokens /\ c.window = w
      /\ c.in_flight = b.in_flight /\ c.blocked_until = None
  BY SettleFields DEF Instant, HoldAt
<1>3. c.observed # None => Kept(c, t)
  <2> SUFFICES ASSUME c.observed # None  PROVE Kept(c, t)
    OBVIOUS
  <2>1. Kept(b, t)
    BY SettledShape
  <2>2. c.observed = [remaining |-> AtMost(b.observed.remaining
                                    + SpentBy(b, 1 .. Cardinality(Popped(b, t))),
                                    b.max_tokens),
                      at |-> b.observed.at]
    BY <2>1, SettledShape
  <2>3. c.observed.at = b.observed.at
    BY <2>2
  <2> QED  BY <1>2, <2>1, <2>3 DEF Kept, HoldAt
<1>4. w \in Nat /\ since \in Int /\ since >= since
  BY DEF BucketType
<1>5. /\ rest \in Seq(Spend)
      /\ \A u \in Int : u >= since => SpentSince(rest, u) = SpentSince(b.spends, u)
      /\ \A i \in DOMAIN rest : rest[i].at >= since
  BY PoppedAndLeft
<1>6. SpentSince(rest, since) = SpentSince(b.spends, since)
  BY <1>4, <1>5
<1>7. SpentSince(rest, 0) = SpentSince(b.spends, since)
  <2> HIDE DEF rest, since
  <2>1. SpentSince(rest, 0) = SpentSince(rest, since)
    BY <1>4, <1>5, SpentSinceAll
  <2> QED  BY <1>6, <2>1
<1>8. \A i \in DOMAIN c.spends : t < c.spends[i].at + c.window
  <2> SUFFICES ASSUME NEW i \in DOMAIN rest  PROVE t < rest[i].at + w
    BY <1>2
  <2> DEFINE at == rest[i].at
  <2>1. at \in Nat /\ at >= since
    BY <1>1, <1>5, SpendsType
  <2> HIDE DEF at, w, rest
  <2>2. t < at + w
    BY <1>4, <2>1
  <2> QED  BY <2>2 DEF at
<1>9. \A u \in Int : u > t - w => SpentSince(rest, u) = SpentSince(b.spends, u)
  <2> SUFFICES ASSUME NEW u \in Int, u > t - w
               PROVE  SpentSince(rest, u) = SpentSince(b.spends, u)
    OBVIOUS
  <2>1. u >= since
    <3> HIDE DEF w
    <3> QED  BY <1>4
  <2> HIDE DEF since, rest
  <2> QED  BY <1>5, <2>1
<1> QED  BY <1>1, <1>2, <1>3, <1>7, <1>8, <1>9

\* The record of a response that was paid for.
LEMMA RecordedPaid ==
  ASSUME NEW b \in BucketType, NEW t \in Nat, Settleable(b, t),
         b.blocked_until = None,
         NEW h \in Header, ~h.rate_limited,
         h.limit = [max_tokens |-> b.max_tokens, window |-> b.window],
         h.used \in Nat, h.remaining \in Nat, h.remaining <= b.max_tokens
  PROVE  LET c == Recorded(b, h, t)
         IN  /\ c.max_tokens = b.max_tokens /\ c.window = b.window
             /\ c.blocked_until = None
             /\ c.observed # None /\ c.observed.remaining = h.remaining
             /\ \A u \in Int : u > t - b.window =>
                  SpentSince(c.spends, u)
                    = SpentSince(b.spends, u) + (IF u <= t THEN h.used ELSE 0)
             /\ SpentSince(c.spends, 0)
                  = SpentSince(b.spends, t - b.window + 1) + h.used
             /\ Balance(Settle(c, t)) = h.remaining
<1> DEFINE s == Settle(b, t)
           d == Charge(s, h.used, t)
           c == Recorded(b, h, t)
           e == [at |-> t, tokens |-> h.used]
           w == b.window
<1>1. Resize(b, h.limit) = b
  <2>1. [b EXCEPT !.max_tokens = b.max_tokens, !.window = b.window] = b
    BY DEF BucketType
  <2> QED  BY <2>1 DEF Resize
<1>2. /\ s \in BucketType /\ Settleable(s, t)
      /\ s.max_tokens = b.max_tokens /\ s.window = w
      /\ s.blocked_until = None
      /\ \A i \in DOMAIN s.spends : t < s.spends[i].at + s.window
      /\ \A u \in Int : u > t - w => SpentSince(s.spends, u) = SpentSince(b.spends, u)
      /\ SpentSince(s.spends, 0) = SpentSince(b.spends, t - w + 1)
  BY SettledIsRecent
<1>3. /\ c \in BucketType /\ Settleable(c, t)
      /\ c = Observe(d, h.remaining, t)
  <2>1. c = Hold(Observe(d, h.remaining, t), h, t)
    BY <1>1 DEF Recorded
  <2>2. c = Observe(d, h.remaining, t)
    BY <2>1 DEF Hold
  <2>3. c \in BucketType
    BY RecordedType DEF Instant
  <2>4. InOrder(b, t)
    BY DEF Settleable
  <2>5. Settleable(c, t)
    BY <2>4, RecordedOrdered DEF Settleable, Instant
  <2> QED  BY <2>2, <2>3, <2>5
<1> HIDE DEF s
<1>4. /\ d.max_tokens = b.max_tokens /\ d.window = w
      /\ d.blocked_until = None
      /\ d.spends = IF h.used = 0 THEN s.spends ELSE Append(s.spends, e)
      /\ d \in BucketType
  <2>1. h.used # None
    BY NoneAssumption
  <2>2. d = IF h.used = 0 THEN s ELSE [s EXCEPT !.spends = Append(@, e)]
    BY <2>1 DEF Charge
  <2>3. CASE h.used = 0
    BY <1>2, <2>2, <2>3
  <2>4. CASE h.used # 0
    <3>1. e \in Spend /\ s.spends \in Seq(Spend)
      BY <1>2, <2>4 DEF Spend, Instant, BucketType
    <3>2. Append(s.spends, e) \in Seq(Spend)
      BY <3>1
    <3> DEFINE q == Append(s.spends, e)
    <3>3. d = [s EXCEPT !.spends = q] /\ q \in Seq(Spend)
      BY <2>2, <2>4, <3>2
    <3> HIDE DEF q
    <3>4. /\ d.max_tokens = b.max_tokens /\ d.window = w
          /\ d.blocked_until = None /\ d.spends = q /\ d \in BucketType
      BY <1>2, <3>3 DEF BucketType
    <3> QED  BY <2>4, <3>4 DEF q
  <2> QED  BY <2>3, <2>4
<1> HIDE DEF d
<1>5. /\ c.max_tokens = b.max_tokens /\ c.window = w
      /\ c.blocked_until = None /\ c.spends = d.spends
      /\ c.observed = [remaining |-> h.remaining, at |-> t] /\ c.observed # None
  <2>1. h.remaining # None
    BY NoneAssumption
  <2>2. AtMost(h.remaining, d.max_tokens) = h.remaining
    BY <1>4 DEF AtMost
  <2>3. c = [d EXCEPT !.observed = [remaining |-> h.remaining, at |-> t]]
    BY <1>3, <2>1, <2>2 DEF Observe
  <2>4. [remaining |-> h.remaining, at |-> t] \in Observation
    BY DEF Observation, Instant
  <2>5. [remaining |-> h.remaining, at |-> t] # None
    BY <2>4, NoneAssumption
  <2> QED  BY <1>4, <2>3, <2>5 DEF BucketType
<1> HIDE DEF c
<1>6. w \in Nat /\ t - w + 1 \in Int /\ s.spends \in Seq(Spend)
  BY <1>2 DEF BucketType
<1>7. ASSUME NEW u \in Int
      PROVE  SpentSince(c.spends, u)
               = SpentSince(s.spends, u) + (IF u <= t THEN h.used ELSE 0)
  <2>1. SpentSince(s.spends, u) \in Nat
    BY <1>6, SpentSinceType
  <2>2. CASE h.used = 0
    BY <1>4, <1>5, <2>1, <2>2
  <2>3. CASE h.used # 0
    <3>1. e \in Spend
      BY <2>3 DEF Spend, Instant
    <3>2. c.spends = Append(s.spends, e)
      BY <1>4, <1>5, <2>3
    <3>3. SpentSince(Append(s.spends, e), u)
            = SpentSince(s.spends, u) + (IF e.at >= u THEN e.tokens ELSE 0)
      BY <1>6, <3>1, SpentSinceAppend
    <3>4. e.at = t /\ e.tokens = h.used
      OBVIOUS
    <3> HIDE DEF e
    <3>5. (e.at >= u) <=> (u <= t)
      BY <3>4
    <3> QED  BY <3>2, <3>3, <3>4, <3>5
  <2> QED  BY <2>2, <2>3
<1>8. ASSUME NEW u \in Int, u > t - w
      PROVE  SpentSince(c.spends, u)
               = SpentSince(b.spends, u) + (IF u <= t THEN h.used ELSE 0)
  BY <1>2, <1>7, <1>8
<1>9. SpentSince(c.spends, 0) = SpentSince(b.spends, t - w + 1) + h.used
  <2>1. 0 \in Int /\ 0 <= t
    OBVIOUS
  <2>2. SpentSince(c.spends, 0) = SpentSince(s.spends, 0) + h.used
    BY <1>7, <2>1
  <2> QED  BY <1>2, <2>2
<1>10. Balance(Settle(c, t)) = h.remaining
  <2> DEFINE k == Cardinality(Popped(c, t))
             n == Len(c.spends)
  <2>1. /\ k \in 0 .. n /\ n \in Nat
        /\ \A i \in 1 .. n : i <= k <=> c.spends[i].at + c.window <= t
    BY <1>3, PoppedOldest, SpendsType DEF Settleable
  <2>2. k = 0
    <3> SUFFICES ASSUME k # 0  PROVE FALSE
      OBVIOUS
    <3> HIDE DEF k, n
    <3>1. 1 \in 1 .. n /\ 1 <= k
      BY <2>1
    <3>2. c.spends[1].at + w <= t
      BY <1>5, <2>1, <3>1
    <3>3. CASE Len(s.spends) = 0
      <4>1. h.used # 0
        <5> SUFFICES ASSUME h.used = 0  PROVE FALSE
          OBVIOUS
        <5>1. c.spends = s.spends
          BY <1>4, <1>5
        <5> QED  BY <2>1, <3>1, <3>3, <5>1 DEF n
      <4>2. s.spends = << >>
        BY <1>6, <3>3, EmptySeq
      <4>3. c.spends[1] = e
        BY <1>4, <1>5, <4>1, <4>2
      <4>4. c.spends[1].at = t
        BY <4>3
      <4>5. w # 0
        BY DEF BucketType
      <4> QED  BY <1>6, <3>2, <4>4, <4>5
    <3>4. CASE Len(s.spends) # 0
      <4>1. 1 \in DOMAIN s.spends
        BY <1>6, <3>4
      <4>2. c.spends[1] = s.spends[1]
        BY <1>4, <1>5, <1>6, <4>1
      <4>3. t < s.spends[1].at + w /\ s.spends[1].at \in Nat
        BY <1>2, <4>1, SpendsType
      <4> DEFINE at == s.spends[1].at
      <4>4. at + w <= t /\ t < at + w /\ at \in Nat
        BY <3>2, <4>2, <4>3
      <4> HIDE DEF at
      <4> QED  BY <1>6, <4>4
    <3> QED  BY <3>3, <3>4
  <2>3. SpentBy(c, 1 .. k) = 0
    <3>1. 1 .. k = {}
      BY <2>2
    <3> QED  BY <3>1, TokenSumEmpty DEF SpentBy
  <2>4. Kept(c, t)
    <3>1. w # 0
      BY DEF BucketType
    <3>2. t < t + w
      BY <1>6, <3>1
    <3> QED  BY <1>5, <3>2 DEF Kept, HoldAt
  <2>5. Settle(c, t).observed =
          [remaining |-> AtMost(c.observed.remaining + SpentBy(c, 1 .. k), c.max_tokens),
           at |-> c.observed.at] /\ Settle(c, t).observed # None
    BY <1>3, <2>4, SettledShape
  <2>6. Balance(Settle(c, t)) = AtMost(c.observed.remaining + SpentBy(c, 1 .. k), c.max_tokens)
    BY <2>5 DEF Balance
  <2>7. c.observed.remaining = h.remaining
    BY <1>5
  <2>8. AtMost(h.remaining + 0, b.max_tokens) = h.remaining
    BY DEF AtMost
  <2> QED  BY <1>5, <2>3, <2>6, <2>7, <2>8
<1> QED  BY <1>5, <1>8, <1>9, <1>10 DEF c

-----------------------------------------------------------------------------
(* The spec's budgets and the buckets of a state.                          *)

\* Every group has a budget that covers the worst case of a request.
LEMMA BudgetOfGroup ==
  ASSUME SpecAgrees, NEW g \in Groups
  PROVE  /\ BudgetOf(g) \in Budget
         /\ BudgetOf(g) = [max_tokens |-> BudgetOf(g).max_tokens,
                           window |-> BudgetOf(g).window]
         /\ BudgetOf(g).max_tokens \in Nat /\ BudgetOf(g).window \in Nat \ {0}
         /\ MAX_REQUEST_COST <= BudgetOf(g).max_tokens
<1>1. PICK o \in Operations : SpecLimit[o].group = g
  BY DEF SpecAgrees
<1>2. SpecLimit[o] \in Declared
  BY <1>1, GroupsAssumption, ServerAssumption DEF Option
<1>3. MAX_REQUEST_COST <= SpecLimit[o].max_tokens
  BY <1>1 DEF SpecAgrees
<1>4. BudgetOf(g) = [max_tokens |-> SpecLimit[o].max_tokens,
                     window |-> SpecLimit[o].window]
  BY <1>1 DEF BudgetOf, SpecAgrees
<1> QED  BY <1>2, <1>3, <1>4 DEF Declared, Budget

\* ESI and the limiter agree on a call's group and its budget.
LEMMA GroupOfCall ==
  ASSUME SpecAgrees, NEW r \in Requests
  PROVE  /\ OperationOf[r] \in Operations
         /\ SpecLimit[OperationOf[r]] # None
         /\ ServerGroup(r) \in Groups /\ ServerGroup(r) # None
         /\ SpecLimit[OperationOf[r]].group = ServerGroup(r)
         /\ NewBucket(SpecLimit[OperationOf[r]]) = NewBucket(BudgetOf(ServerGroup(r)))
<1> DEFINE q == OperationOf[r]
           g == ServerGroup(r)
<1>1. q \in Operations
  BY RequestsAssumption
<1>2. SpecLimit[q] # None /\ SpecLimit[q] \in Declared
  BY <1>1, GroupsAssumption, ServerAssumption DEF Option
<1>3. g \in Groups /\ g # None /\ SpecLimit[q].group = g
  BY <1>2, GroupsAssumption DEF ServerGroup, Declared
<1>5. BudgetOf(g) = [max_tokens |-> SpecLimit[q].max_tokens,
                     window |-> SpecLimit[q].window]
  BY <1>1, <1>3 DEF BudgetOf, SpecAgrees
<1> HIDE DEF q, g
<1>6. NewBucket(SpecLimit[q]) = NewBucket(BudgetOf(g))
  BY <1>5 DEF NewBucket
<1> QED  BY <1>1, <1>2, <1>3, <1>6 DEF q, g

\* The bucket of a group, whether it is there yet or not.
LEMMA BucketOfType ==
  ASSUME SpecAgrees, TypeOK, BookkeepingOrdered, LimiterState,
         NEW g \in Groups
  PROVE  /\ BucketOf(g) \in BucketType
         /\ now \in Nat /\ Settleable(BucketOf(g), now)
         /\ BucketOf(g).max_tokens = BudgetOf(g).max_tokens
         /\ BucketOf(g).window = BudgetOf(g).window
         /\ BucketOf(g).blocked_until = None
         /\ BucketOf(g).spends \in Seq(Spend)
<1>1. /\ BucketOf(g).max_tokens = BudgetOf(g).max_tokens
      /\ BucketOf(g).window = BudgetOf(g).window
      /\ BucketOf(g).blocked_until = None
  BY DEF LimiterState
<1>2. now \in Nat
  BY DEF TypeOK, Instant
<1>3. CASE buckets[g] = None
  <2>1. BucketOf(g) = NewBucket(BudgetOf(g))
    BY <1>3 DEF BucketOf
  <2>2. NewBucket(BudgetOf(g)) \in BucketType
    BY BudgetOfGroup, EmptySeq DEF NewBucket, BucketType, Budget, Option
  <2>3. Settleable(NewBucket(BudgetOf(g)), now)
    BY NewBucketOrdered DEF Settleable
  <2> QED  BY <1>1, <1>2, <2>1, <2>2, <2>3 DEF BucketType
<1>4. CASE buckets[g] # None
  <2>1. BucketOf(g) = buckets[g]
    BY <1>4 DEF BucketOf
  <2>2. buckets[g] \in BucketType
    BY <1>4 DEF TypeOK, Option
  <2>3. Settleable(buckets[g], now)
    BY <1>4 DEF BookkeepingOrdered, Settleable
  <2> QED  BY <1>1, <1>2, <2>1, <2>2, <2>3 DEF BucketType
<1> QED  BY <1>3, <1>4

\* What a call that is out holds, and what an answer under way says.
LEMMA CallOut ==
  ASSUME CallState, NEW r \in Requests, pc[r] \in {"sent", "answered"}
  PROVE  reservation[r].group = ServerGroup(r) /\ Tokens[r] = MAX_REQUEST_COST
<1>1. reservation[r] = [group |-> ServerGroup(r), tokens |-> MAX_REQUEST_COST]
  BY DEF CallState
<1>2. Tokens[r] = reservation[r].tokens
  BY DEF Tokens
<1> QED  BY <1>1, <1>2

LEMMA ReplyUnderWay ==
  ASSUME ReplyState, NEW r \in Requests, reply[r] # None
  PROVE  LET h == reply[r].header
         IN  /\ pc[r] = "sent" /\ reply[r].at \in 0 .. now
             /\ h.group = ServerGroup(r) /\ h.limit = BudgetOf(ServerGroup(r))
             /\ h.remaining \in Nat /\ h.used \in 0 .. MAX_REQUEST_COST
             /\ h.used \in Nat /\ Used[r] = h.used
             /\ h.rate_limited = FALSE /\ h.retry_after = None
             /\ h \in Paid(ServerGroup(r))
<1>1. pc[r] = "sent" /\ reply[r] \in [at : 0 .. now, header : Paid(ServerGroup(r))]
  BY DEF ReplyState
<1>2. reply[r].at \in 0 .. now /\ reply[r].header \in Paid(ServerGroup(r))
  BY <1>1
<1> DEFINE h == reply[r].header
<1>3. Used[r] = h.used
  BY DEF Used
<1>4. h \in Paid(ServerGroup(r))
  BY <1>2
<1> HIDE DEF h
<1>5. /\ h.group = ServerGroup(r) /\ h.limit = BudgetOf(ServerGroup(r))
      /\ h.remaining \in Nat /\ h.used \in 0 .. MAX_REQUEST_COST
      /\ h.rate_limited = FALSE /\ h.retry_after = None
  BY <1>4 DEF Paid
<1>6. h.used \in Nat
  BY <1>5, CostAssumption
<1> QED  BY <1>1, <1>2, <1>3, <1>5, <1>6 DEF h

\* What the two sums over calls range over.
LEMMA CallSums ==
  ASSUME TypeOK, ReplyState, NEW g
  PROVE  /\ Tokens \in [Requests -> Nat] /\ Used \in [Requests -> Nat]
         /\ Sent(g) \in SUBSET Requests /\ IsFiniteSet(Sent(g))
         /\ Pending(g) \in SUBSET Requests /\ IsFiniteSet(Pending(g))
         /\ Pending(g) \subseteq Sent(g)
         /\ Held(g) \in Nat /\ Unrecorded(g) \in Nat
<1>1. Tokens \in [Requests -> Nat]
  BY DEF Tokens, TypeOK, ReservationType
<1>2. Used \in [Requests -> Nat]
  <2> SUFFICES ASSUME NEW r \in Requests, reply[r] # None
               PROVE  reply[r].header.used \in Nat
    BY DEF Used
  <2> QED  BY ReplyUnderWay
<1>3. /\ Sent(g) \in SUBSET Requests /\ Pending(g) \in SUBSET Requests
      /\ Pending(g) \subseteq Sent(g)
  BY DEF Sent, Pending, ReplyState
<1>4. IsFiniteSet(Sent(g)) /\ IsFiniteSet(Pending(g))
  BY <1>3, RequestsAssumption, FS_Subset
<1>5. Held(g) \in Nat
  BY <1>1, <1>3, <1>4, TokenSumType DEF Held
<1>6. Unrecorded(g) \in Nat
  BY <1>2, <1>3, <1>4, TokenSumType DEF Unrecorded
<1> QED  BY <1>1, <1>2, <1>3, <1>4, <1>5, <1>6

\* What the calls not recorded hold covers what the unanswered ones hold and
\* what the answered ones used, and is part of what is in flight.
LEMMA HeldCovers ==
  ASSUME TypeOK, CallState, ReplyState, NEW g \in Groups
  PROVE  LET open == TokenSum(Tokens, Unanswered(g))
         IN  /\ open \in Nat /\ open + Unrecorded(g) <= Held(g)
             /\ Reserved(g) \in Nat /\ Held(g) <= Reserved(g)
             /\ Unanswered(g) = {r \in Sent(g) : reply[r] = None}
             /\ Live(g) = {} => Held(g) = 0
<1> DEFINE open == Unanswered(g)
<1>1. /\ Tokens \in [Requests -> Nat] /\ Used \in [Requests -> Nat]
      /\ Sent(g) \in SUBSET Requests /\ IsFiniteSet(Sent(g))
      /\ Pending(g) \in SUBSET Requests /\ IsFiniteSet(Pending(g))
      /\ Pending(g) \subseteq Sent(g)
      /\ Held(g) \in Nat /\ Unrecorded(g) \in Nat
  BY CallSums
<1>2. Sent(g) \subseteq Live(g) /\ Live(g) \in SUBSET Requests
  BY CallOut DEF Sent, Live
<1>3. open = {r \in Sent(g) : reply[r] = None}
  <2>1. \A r \in Requests : pc[r] = "sent" => reservation[r].group = ServerGroup(r)
    BY CallOut
  <2> QED  BY <2>1 DEF Unanswered, Live, Sent
<1>4. Sent(g) = open \cup Pending(g) /\ open \cap Pending(g) = {}
  BY <1>1, <1>3 DEF Pending, Sent
<1>5. open \in SUBSET Requests /\ IsFiniteSet(open) /\ IsFiniteSet(Live(g))
  BY <1>1, <1>2, <1>3, RequestsAssumption, FS_Subset
<1>6. Held(g) = TokenSum(Tokens, open) + TokenSum(Tokens, Pending(g))
  <2> HIDE DEF open
  <2> QED  BY <1>1, <1>4, <1>5, TokenSumSplit DEF Held
<1>7. TokenSum(Tokens, open) \in Nat /\ TokenSum(Tokens, Pending(g)) \in Nat
  BY <1>1, <1>5, TokenSumType
<1>8. Unrecorded(g) <= TokenSum(Tokens, Pending(g))
  <2>1. \A r \in Pending(g) : Used[r] <= Tokens[r]
    <3> SUFFICES ASSUME NEW r \in Requests, r \in Pending(g)
                 PROVE  Used[r] <= Tokens[r]
      BY <1>1
    <3>1. reply[r] # None /\ pc[r] = "sent"
      BY DEF Pending, ReplyState
    <3>2. Used[r] \in 0 .. MAX_REQUEST_COST
      BY <3>1, ReplyUnderWay
    <3>3. Tokens[r] = MAX_REQUEST_COST
      BY <3>1, CallOut
    <3> QED  BY <3>2, <3>3, CostAssumption
  <2> QED  BY <1>1, <2>1, TokenSumLeq DEF Unrecorded
<1>9. Reserved(g) = TokenSum(Tokens, Live(g))
  BY DEF Reserved, Tokens
<1>10. Reserved(g) \in Nat
  BY <1>1, <1>2, <1>5, <1>9, TokenSumType
<1>11. Held(g) <= Reserved(g)
  <2>1. \A r \in Sent(g) : Tokens[r] <= Tokens[r]
    BY <1>1
  <2> QED  BY <1>1, <1>2, <1>5, <1>9, <2>1, TokenSumLeq DEF Held
<1>12. Live(g) = {} => Held(g) = 0
  <2> SUFFICES ASSUME Live(g) = {}  PROVE Held(g) = 0
    OBVIOUS
  <2>1. Sent(g) = {}
    BY <1>2
  <2> QED  BY <2>1, TokenSumEmpty DEF Held
<1>13. TokenSum(Tokens, open) + Unrecorded(g) <= Held(g)
  BY <1>1, <1>6, <1>7, <1>8
<1> QED  BY <1>3, <1>7, <1>10, <1>11, <1>12, <1>13

-----------------------------------------------------------------------------
(* What the invariant says: the belief is covered by the ledger.           *)

\* The abstract ledger counts and sums as the bucket does.
LEMMA LedgerCounts ==
  /\ \A S : Ledger!Cardinality(S) = Cardinality(S)
  /\ \A f, I : Ledger!TokenSum(f, I) = TokenSum(f, I)
<1>1. ASSUME NEW S  PROVE Ledger!Cardinality(S) = Cardinality(S)
  BY DEF Ledger!Cardinality, Cardinality
<1>2. ASSUME NEW f, NEW I  PROVE Ledger!TokenSum(f, I) = TokenSum(f, I)
  BY <1>1 DEF Ledger!TokenSum, TokenSum
<1> QED  BY <1>1, <1>2

\* ESI's ledger, by what the limiter's queue has spent since.
LEMMA LedgerSpent ==
  ASSUME SpecAgrees, TypeOK, BookkeepingOrdered, LimiterState,
         ReplyState, LedgerState, NEW g \in Groups, Books(g)
  PROVE  LET b == BucketOf(g)
             s == SpentSince(b.spends, now - b.window + 1)
         IN  /\ s \in Nat /\ Spent(g) \in Nat /\ Unrecorded(g) \in Nat
             /\ Spent(g) = s + Unrecorded(g)
             /\ Spent(g) <= b.max_tokens /\ s <= b.max_tokens
             /\ b.max_tokens \in Nat
             /\ Ledger!Spent(ledger[g]) = Spent(g)
             /\ Left(g) = b.max_tokens - Spent(g) /\ Left(g) \in Nat
<1> DEFINE b == BucketOf(g)
           since == now - BudgetOf(g).window + 1
           s == SpentSince(b.spends, since)
           M == BudgetOf(g).max_tokens
<1>1. /\ b.max_tokens = M /\ b.window = BudgetOf(g).window
      /\ M \in Nat /\ BudgetOf(g).window \in Nat /\ now \in Nat
      /\ since \in Int /\ b.spends \in Seq(Spend)
  BY BucketOfType, BudgetOfGroup
<1>2. Unrecorded(g) \in Nat
  BY CallSums
<1>3. s \in Nat
  BY <1>1, SpentSinceType
<1>4. Spent(g) = s + Unrecorded(g)
  <2> DEFINE w == BudgetOf(g).window
  <2>1. w \in Nat /\ w # 0
    BY BudgetOfGroup
  <2>2. since > now - w /\ since <= now
    <3>1. since = now - w + 1
      OBVIOUS
    <3> HIDE DEF w, since
    <3> QED  BY <1>1, <2>1, <3>1
  <2>3. SpentSince(ledger[g], since)
          = s + (IF since <= now THEN Unrecorded(g) ELSE 0)
    <3> HIDE DEF since
    <3> QED  BY <1>1, <2>2 DEF Books, QueueIsLedger
  <2> QED  BY <2>2, <2>3 DEF Spent
<1>5. Spent(g) <= M
  BY DEF Books, LedgerFits
<1>6. ledger[g] \in Seq(Spend)
  BY DEF LedgerState
<1>7. Ledger!Spent(ledger[g]) = Spent(g)
  <2>1. \A i \in DOMAIN ledger[g] : ledger[g][i].at >= since
    <3> SUFFICES ASSUME NEW i \in DOMAIN ledger[g]
                 PROVE  ledger[g][i].at >= since
      OBVIOUS
    <3> DEFINE at == ledger[g][i].at
               w == BudgetOf(g).window
    <3>1. at \in Nat /\ now < at + w
      BY <1>6, QueueType DEF LedgerState
    <3> HIDE DEF at, w
    <3> QED  BY <1>1, <3>1 DEF at, w
  <2> DEFINE q == ledger[g]
  <2> HIDE DEF since, q
  <2>2. TokenSum([i \in DOMAIN q |-> q[i].tokens], DOMAIN q) = SpentSince(q, since)
    BY <1>1, <1>6, <2>1, SpentSinceAll DEF q
  <2>3. Ledger!Spent(q) = TokenSum([i \in DOMAIN q |-> q[i].tokens], DOMAIN q)
    BY LedgerCounts DEF Ledger!Spent
  <2> QED  BY <2>2, <2>3 DEF Spent, q, since
<1> HIDE DEF s, M, b
<1>8. s <= M /\ Spent(g) \in Nat /\ M - Spent(g) \in Nat
  BY <1>1, <1>2, <1>3, <1>4, <1>5
<1>9. Left(g) = M - Spent(g)
  BY <1>1, <1>5, <1>7, <1>8 DEF Left, SaturatingSub, M
<1> QED  BY <1>1, <1>2, <1>3, <1>4, <1>5, <1>7, <1>8, <1>9 DEF s, b

\* What the limiter believes a bucket holds, ESI's ledger holds, once what the
\* answers under way used is put back.
LEMMA BeliefBounded ==
  ASSUME SpecAgrees, TypeOK, BookkeepingOrdered, LimiterState,
         ReplyState, LedgerState, NEW g \in Groups, Books(g)
  PROVE  /\ Balance(Settle(BucketOf(g), now)) \in Nat
         /\ Balance(Settle(BucketOf(g), now)) <= Left(g) + Unrecorded(g)
<1> DEFINE b == BucketOf(g)
           s == SpentSince(b.spends, now - b.window + 1)
           M == b.max_tokens
           B == Balance(Settle(b, now))
<1>1. b \in BucketType /\ now \in Nat /\ Settleable(b, now)
  BY BucketOfType
<1>2. /\ s \in Nat /\ Spent(g) \in Nat /\ Unrecorded(g) \in Nat
      /\ Spent(g) = s + Unrecorded(g) /\ M \in Nat /\ s <= M
      /\ Left(g) = M - Spent(g)
  BY LedgerSpent
<1>3. Fits(b)
  BY DEF Books
<1> HIDE DEF b
<1>4. B \in Nat /\ B <= M - s
  BY <1>1, <1>2, <1>3, SettledBalance
<1> HIDE DEF s, M, B
<1>5. B <= Left(g) + Unrecorded(g)
  BY <1>2, <1>4
<1> QED  BY <1>4, <1>5 DEF B, b

\* The calls ESI has not answered yet can be paid for.
LEMMA OpenCallsCovered ==
  ASSUME SpecAgrees, EsiInv, NEW g \in Groups
  PROVE  /\ TokenSum(Tokens, Unanswered(g)) <= Left(g)
         /\ Left(g) \in Nat
         /\ \A r \in Unanswered(g) : MAX_REQUEST_COST <= Left(g)
<1> DEFINE open == Unanswered(g)
           x == TokenSum(Tokens, open)
           B == Balance(Settle(BucketOf(g), now))
<1>1. /\ x \in Nat /\ x + Unrecorded(g) <= Held(g)
      /\ open = {r \in Sent(g) : reply[r] = None}
  BY HeldCovers DEF EsiInv
<1>2. Unrecorded(g) \in Nat /\ Left(g) \in Nat
  BY LedgerSpent DEF EsiInv
<1>3. B \in Nat /\ B <= Left(g) + Unrecorded(g)
  BY BeliefBounded DEF EsiInv
<1>4. Held(g) <= B /\ Held(g) \in Nat
  BY CallSums DEF EsiInv, Books, HeldBelieved
<1> HIDE DEF B
<1>5. x <= Left(g)
  <2> HIDE DEF x
  <2> QED  BY <1>1, <1>2, <1>3, <1>4
<1>6. ASSUME NEW r \in open  PROVE MAX_REQUEST_COST <= x
  <2>1. /\ r \in Requests /\ pc[r] = "sent"
        /\ open \in SUBSET Requests /\ IsFiniteSet(open)
    BY <1>1, RequestsAssumption, FS_Subset DEF Sent
  <2>2. Tokens[r] = MAX_REQUEST_COST /\ Tokens \in [Requests -> Nat]
    BY <2>1, CallOut, CallSums DEF EsiInv
  <2>3. {r} \subseteq open /\ {r} = {} \cup {r} /\ {} \in SUBSET Requests
    BY <1>6
  <2>4. TokenSum(Tokens, {} \cup {r}) = TokenSum(Tokens, {}) + Tokens[r]
    BY ONLY <2>1, <2>2, FS_EmptySet, TokenSumAdd
  <2>5. TokenSum(Tokens, {r}) = MAX_REQUEST_COST
    BY <2>2, <2>3, <2>4, TokenSumEmpty, CostAssumption
  <2> HIDE DEF open
  <2>6. TokenSum(Tokens, {r}) <= TokenSum(Tokens, open)
    <3>1. {r} \subseteq Requests
      BY <2>1
    <3>2. \A i \in {r} : Tokens[i] <= Tokens[i]
      BY <2>2, CostAssumption
    <3> QED  BY ONLY <2>1, <2>2, <2>3, <3>1, <3>2, TokenSumLeq
  <2> QED  BY <2>5, <2>6
<1>7. ASSUME NEW r \in open  PROVE MAX_REQUEST_COST <= Left(g)
  <2>1. MAX_REQUEST_COST <= x
    BY <1>6, <1>7
  <2> HIDE DEF x
  <2> QED  BY <1>1, <1>2, <1>5, <2>1, CostAssumption
<1> QED  BY <1>2, <1>5, <1>7

LEMMA InvCovers == SpecAgrees /\ EsiInv => BeliefCovered /\ NeverRateLimited
<1> SUFFICES ASSUME SpecAgrees, EsiInv  PROVE BeliefCovered /\ NeverRateLimited
  OBVIOUS
<1>1. NeverRateLimited
  <2> SUFFICES ASSUME NEW r \in Requests, reply[r] # None
               PROVE  reply[r].header.rate_limited = FALSE
    BY DEF NeverRateLimited
  <2> QED  BY ReplyUnderWay DEF EsiInv
<1>2. BeliefCovered
  <2> SUFFICES ASSUME NEW g \in Groups, buckets[g] # None
               PROVE  Available(Settle(buckets[g], now))
                        + TokenSum(Tokens, Unanswered(g)) <= Left(g)
    BY DEF BeliefCovered, Tokens
  <2> DEFINE c == Settle(buckets[g], now)
             x == TokenSum(Tokens, Unanswered(g))
  <2>1. BucketOf(g) = buckets[g] /\ buckets[g] \in BucketType /\ now \in Nat
    BY DEF BucketOf, EsiInv, TypeOK, Option, Instant
  <2>2. /\ x \in Nat /\ x + Unrecorded(g) <= Held(g)
        /\ Reserved(g) \in Nat /\ Held(g) <= Reserved(g)
    BY HeldCovers DEF EsiInv
  <2>3. Unrecorded(g) \in Nat /\ Held(g) \in Nat
    BY CallSums DEF EsiInv
  <2>4. Balance(c) \in Nat /\ Balance(c) <= Left(g) + Unrecorded(g)
    BY <2>1, BeliefBounded DEF EsiInv
  <2>5. c.in_flight = Reserved(g)
    BY <2>1, SettleFields DEF EsiInv, InFlightConserved, Instant
  <2>6. Available(c) = SaturatingSub(Balance(c), Reserved(g))
    BY <2>5 DEF Available
  <2>7. x <= Left(g) /\ Left(g) \in Nat
    BY OpenCallsCovered
  <2> HIDE DEF c, x
  <2>8. Available(c) + x <= Left(g)
    BY <2>2, <2>3, <2>4, <2>6, <2>7 DEF SaturatingSub
  <2> QED  BY <2>8 DEF c, x
<1> QED  BY <1>1, <1>2

-----------------------------------------------------------------------------
(* Steps that leave ESI alone. *)

\* in_flight has no part in the balance.
LEMMA SameBalance ==
  ASSUME NEW b \in BucketType, NEW v \in Nat, Settleable(b, v),
         NEW c \in BucketType, NEW t \in Nat,
         c.max_tokens = b.max_tokens, c.window = b.window,
         c.observed = b.observed, c.spends = b.spends,
         c.blocked_until = b.blocked_until
  PROVE  /\ Settleable(c, v)
         /\ Balance(Settle(c, t)) = Balance(Settle(b, t))
<1> DEFINE k == Cardinality(Popped(b, t))
<1>1. Popped(c, t) = Popped(b, t)
  BY DEF Popped
<1>2. SpentBy(c, 1 .. k) = SpentBy(b, 1 .. k)
  BY DEF SpentBy
<1>3. Kept(c, t) <=> Kept(b, t)
  BY DEF Kept, HoldAt
<1>4. Settleable(c, v)
  BY DEF Settleable, InOrder, ObservationIsNewest
<1> DEFINE d == Settle(c, t)
           e == Settle(b, t)
<1>5. /\ d.spends = SubSeq(c.spends, k + 1, Len(c.spends))
      /\ d.observed =
           IF Kept(c, t)
           THEN [remaining |-> AtMost(c.observed.remaining + SpentBy(c, 1 .. k),
                                      c.max_tokens),
                 at |-> c.observed.at]
           ELSE None
  BY <1>1, <1>4, SettledShape
<1>6. /\ e.spends = SubSeq(b.spends, k + 1, Len(b.spends))
      /\ e.observed =
           IF Kept(b, t)
           THEN [remaining |-> AtMost(b.observed.remaining + SpentBy(b, 1 .. k),
                                      b.max_tokens),
                 at |-> b.observed.at]
           ELSE None
  BY SettledShape
<1>7. d.max_tokens = c.max_tokens /\ e.max_tokens = b.max_tokens
  BY SettleFields DEF Instant
<1> HIDE DEF d, e, k
<1>8. /\ d.spends = e.spends /\ d.observed = e.observed
      /\ d.max_tokens = e.max_tokens
  BY <1>2, <1>3, <1>5, <1>6, <1>7
<1>9. Balance(d) = Balance(e)
  BY <1>8 DEF Balance, SpentBy
<1> QED  BY <1>4, <1>9 DEF d, e

\* The bucket a call goes through is its group's.
LEMMA BucketForCall ==
  ASSUME SpecAgrees, TypeOK, BookkeepingOrdered, LimiterState,
         NEW r \in Requests
  PROVE  /\ GroupOf(OperationOf[r]) = ServerGroup(r)
         /\ BucketFor(OperationOf[r]) = BucketOf(ServerGroup(r))
         /\ BucketFor(OperationOf[r]) # None
<1> DEFINE o == OperationOf[r]
           g == ServerGroup(r)
<1>1. /\ o \in Operations /\ SpecLimit[o] # None /\ g \in Groups /\ g # None
      /\ SpecLimit[o].group = g
      /\ NewBucket(SpecLimit[o]) = NewBucket(BudgetOf(g))
  BY GroupOfCall
<1>2. learned[o] = None
  BY <1>1 DEF LimiterState
<1> HIDE DEF o, g
<1>3. GroupOf(o) = g
  BY <1>1, <1>2 DEF GroupOf
<1>4. BucketFor(o) = BucketOf(g)
  BY <1>1, <1>3 DEF BucketFor, BucketOf
<1>5. BucketOf(g) # None
  BY <1>1, BucketOfType, NoneAssumption
<1> QED  BY <1>3, <1>4, <1>5 DEF o, g

\* A group's books stay right while its bucket is settled at most, ESI does
\* nothing, and what is held stays within the belief.
LEMMA BooksKept ==
  ASSUME SpecAgrees, EsiInv, NEW g \in Groups,
         NEW b \in {BucketOf(g), Settle(BucketOf(g), now)},
         BucketOf(g)' \in BucketType,
         BucketOf(g)'.max_tokens = b.max_tokens,
         BucketOf(g)'.window = b.window,
         BucketOf(g)'.observed = b.observed, BucketOf(g)'.spends = b.spends,
         BucketOf(g)'.blocked_until = b.blocked_until,
         now' = now, ledger'[g] = ledger[g], Unrecorded(g)' = Unrecorded(g),
         Held(g)' <= Balance(Settle(BucketOf(g), now))
  PROVE  Books(g)'
<1> DEFINE a == BucketOf(g)
           c == BucketOf(g)'
           w == BudgetOf(g).window
           M == BudgetOf(g).max_tokens
<1>1. /\ a \in BucketType /\ now \in Nat /\ Settleable(a, now)
      /\ a.max_tokens = M /\ a.window = w /\ a.blocked_until = None
  BY BucketOfType DEF EsiInv
<1>2. /\ QueueIsLedger(g) /\ Fits(a) /\ HeldBelieved(g) /\ LedgerFits(g)
      /\ SpentSince(a.spends, now - w + 1) <= M
  BY <1>1, LedgerSpent DEF EsiInv, Books
<1>3. /\ b \in BucketType /\ Settleable(b, now) /\ b.max_tokens = M
      /\ \A t \in Int : t > now - w => SpentSince(b.spends, t) = SpentSince(a.spends, t)
      /\ Fits(b)
      /\ Balance(Settle(b, now)) = Balance(Settle(a, now))
  <2>1. CASE b = a
    BY <1>1, <1>2, <2>1
  <2>2. CASE b = Settle(a, now)
    <3>1. /\ b \in BucketType /\ Settleable(b, now) /\ b.max_tokens = M
          /\ \A t \in Int : t > now - w =>
               SpentSince(b.spends, t) = SpentSince(a.spends, t)
      <4> HIDE DEF a, w, M
      <4> QED  BY <1>1, <2>2, SettledIsRecent
    <3>2. Fits(b)
      <4> HIDE DEF a
      <4> QED  BY <1>1, <1>2, <2>2, FitsSettled
    <3>3. Settle(b, now) = Settle(a, now)
      <4>1. now <= now
        BY <1>1
      <4> HIDE DEF a
      <4> QED  BY <1>1, <2>2, <4>1, SettleTwice
    <3> QED  BY <3>1, <3>2, <3>3
  <2> QED  BY <2>1, <2>2
<1>4. Balance(Settle(c, now)) = Balance(Settle(a, now))
  <2> HIDE DEF a, c
  <2>1. /\ c \in BucketType /\ c.max_tokens = b.max_tokens /\ c.window = b.window
        /\ c.observed = b.observed /\ c.spends = b.spends
        /\ c.blocked_until = b.blocked_until
    BY DEF c
  <2>2. Balance(Settle(c, now)) = Balance(Settle(b, now))
    BY <1>1, <1>3, <2>1, SameBalance
  <2> QED  BY <1>3, <2>2
<1>5. QueueIsLedger(g)'
  <2> SUFFICES ASSUME NEW t \in Int, t > now - w
               PROVE  SpentSince(ledger[g], t)
                        = SpentSince(b.spends, t)
                            + (IF t <= now THEN Unrecorded(g) ELSE 0)
    BY DEF QueueIsLedger
  <2> QED  BY <1>2, <1>3 DEF QueueIsLedger
<1>6. Fits(BucketOf(g))'
  BY <1>1, <1>3 DEF Fits
<1>7. HeldBelieved(g)'
  BY <1>4 DEF HeldBelieved
<1>8. LedgerFits(g)'
  BY <1>2 DEF LedgerFits, Spent
<1> QED  BY <1>5, <1>6, <1>7, <1>8 DEF Books

\* One call's step: how what the groups hold for calls not recorded changes.
LEMMA HeldChange ==
  ASSUME TypeOK, TypeOK', NEW r \in Requests, NEW g,
         \A q \in Requests : q # r => pc'[q] = pc[q] /\ reservation'[q] = reservation[q]
  PROVE  /\ ServerGroup(r) # g => Held(g)' = Held(g)
         /\ pc[r] # "sent" /\ pc'[r] # "sent" => Held(g)' = Held(g)
         /\ ServerGroup(r) = g /\ pc[r] # "sent" /\ pc'[r] = "sent"
              => Held(g)' = Held(g) + reservation'[r].tokens
         /\ ServerGroup(r) = g /\ pc[r] = "sent" /\ pc'[r] # "sent"
              => Held(g) = Held(g)' + reservation[r].tokens
<1>1. /\ Tokens \in [Requests -> Nat] /\ Tokens' \in [Requests -> Nat]
      /\ Sent(g) \in SUBSET Requests /\ Sent(g)' \in SUBSET Requests
  BY DEF Tokens, TypeOK, ReservationType, Sent
<1>2. IsFiniteSet(Sent(g)) /\ IsFiniteSet(Sent(g)')
  BY <1>1, RequestsAssumption, FS_Subset
<1>3. \A q \in Requests : q # r => Tokens'[q] = Tokens[q]
  BY DEF Tokens
<1>4. Tokens[r] = reservation[r].tokens /\ Tokens'[r] = reservation'[r].tokens
  BY DEF Tokens
<1>5. Held(g) = TokenSum(Tokens, Sent(g)) /\ Held(g)' = TokenSum(Tokens', Sent(g)')
  BY DEF Held
<1>6. ASSUME Sent(g)' = Sent(g), r \notin Sent(g)
      PROVE  Held(g)' = Held(g)
  <2>1. \A q \in Sent(g) : Tokens'[q] = Tokens[q]
    BY <1>1, <1>3, <1>6
  <2>2. TokenSum(Tokens', Sent(g)) = TokenSum(Tokens, Sent(g))
    BY ONLY <2>1, TokenSumSame
  <2> QED  BY <1>5, <1>6, <2>2
<1>7. CASE ServerGroup(r) # g \/ (pc[r] # "sent" /\ pc'[r] # "sent")
  <2>1. Sent(g)' = Sent(g) /\ r \notin Sent(g)
    BY <1>7 DEF Sent
  <2>2. Held(g)' = Held(g)
    BY <1>6, <2>1
  <2> QED  BY <1>7, <2>2
<1>8. CASE ServerGroup(r) = g /\ pc[r] # "sent" /\ pc'[r] = "sent"
  <2>1. Sent(g)' = Sent(g) \cup {r} /\ r \notin Sent(g)
    BY <1>8 DEF Sent
  <2>2. TokenSum(Tokens', Sent(g) \cup {r}) = TokenSum(Tokens', Sent(g)) + Tokens'[r]
    BY <1>1, <1>2, <2>1, TokenSumAdd
  <2>3. \A q \in Sent(g) : Tokens'[q] = Tokens[q]
    BY <1>1, <1>3, <2>1
  <2>4. TokenSum(Tokens', Sent(g)) = TokenSum(Tokens, Sent(g))
    BY ONLY <2>3, TokenSumSame
  <2> QED  BY <1>4, <1>5, <1>8, <2>1, <2>2, <2>4
<1>9. CASE ServerGroup(r) = g /\ pc[r] = "sent" /\ pc'[r] # "sent"
  <2>1. Sent(g) = Sent(g)' \cup {r} /\ r \notin Sent(g)'
    BY <1>9 DEF Sent
  <2>2. TokenSum(Tokens, Sent(g)' \cup {r}) = TokenSum(Tokens, Sent(g)') + Tokens[r]
    BY <1>1, <1>2, <2>1, TokenSumAdd
  <2>3. \A q \in Sent(g)' : Tokens'[q] = Tokens[q]
    BY <1>1, <1>3, <2>1
  <2>4. TokenSum(Tokens', Sent(g)') = TokenSum(Tokens, Sent(g)')
    BY ONLY <2>3, TokenSumSame
  <2> QED  BY <1>4, <1>5, <1>9, <2>1, <2>2, <2>4
<1>10. CASE ServerGroup(r) = g /\ pc[r] = "sent" /\ pc'[r] = "sent"
  BY <1>10
<1> QED  BY <1>7, <1>8, <1>9, <1>10

\* What holds whatever the limiter does while ESI does nothing.
LEMMA EsiIdle ==
  ASSUME EsiInv, now' = now, UNCHANGED esiVars
  PROVE  /\ LedgerState' /\ RepliesCurrent'
         /\ \A g : Pending(g)' = Pending(g) /\ Unrecorded(g)' = Unrecorded(g)
<1>1. /\ ledger' = ledger /\ reply' = reply /\ answered' = answered
  BY DEF esiVars
<1>2. LedgerState'
  BY <1>1 DEF EsiInv, LedgerState
<1>3. Used' = Used /\ \A g : Pending(g)' = Pending(g)
  BY <1>1 DEF Used, Pending
<1>4. \A g : Unrecorded(g)' = Unrecorded(g)
  BY <1>3 DEF Unrecorded
<1>5. RepliesCurrent'
  <2>1. RepliesCurrent
    BY DEF EsiInv
  <2>2. \A r : After(r)' = After(r)
    BY <1>1, <1>3 DEF After
  <2>3. \A g : Spent(g)' = Spent(g)
    BY <1>1 DEF Spent
  <2> QED  BY <1>1, <1>3, <2>1, <2>2, <2>3 DEF RepliesCurrent
<1> QED  BY <1>2, <1>3, <1>4, <1>5

\* The part of the invariant that is about ESI.
Tallies ==
  /\ LimiterState /\ CallState /\ ReplyState /\ LedgerState
  /\ \A g \in Groups : Books(g)
  /\ RepliesCurrent

\* A call is let in, or put to sleep.
LEMMA AcquireTallies ==
  ASSUME SpecAgrees, EsiInv, TypeOK', NEW r \in Requests, Acquire(r),
         UNCHANGED esiVars
  PROVE  Tallies'
<1> DEFINE g0 == ServerGroup(r)
           a == BucketOf(g0)
           c == Settle(a, now)
           n == ReservationCost(c)
<1>1. /\ GroupOf(OperationOf[r]) = g0 /\ BucketFor(OperationOf[r]) = a
      /\ BucketFor(OperationOf[r]) # None /\ g0 \in Groups
  BY BucketForCall, GroupOfCall DEF EsiInv
<1>2. /\ pc[r] \in {"idle", "waiting"} /\ now' = now /\ learned' = learned
      /\ ~ Proceed(r)
  BY <1>1 DEF Acquire, Poll, Proceed, Reserve, Sleep
<1>3. /\ a \in BucketType /\ now \in Nat /\ Settleable(a, now)
      /\ a.max_tokens = BudgetOf(g0).max_tokens
      /\ a.window = BudgetOf(g0).window /\ a.blocked_until = None
  BY <1>1, BucketOfType DEF EsiInv
<1>4. /\ c \in BucketType /\ Settleable(c, now)
      /\ c.max_tokens = a.max_tokens /\ c.window = a.window
      /\ c.in_flight = a.in_flight /\ c.blocked_until = None
      /\ c.observed # None => Kept(c, now)
      /\ \A i \in DOMAIN c.spends : now < c.spends[i].at + c.window
  BY <1>3, SettledIsRecent
<1>5. /\ LedgerState' /\ RepliesCurrent'
      /\ \A g : Pending(g)' = Pending(g) /\ Unrecorded(g)' = Unrecorded(g)
      /\ reply' = reply /\ answered' = answered /\ ledger' = ledger
  BY <1>2, EsiIdle DEF esiVars
<1>6. /\ \A q \in Requests : q # r => pc'[q] = pc[q] /\ reservation'[q] = reservation[q]
      /\ \A g \in Groups : g # g0 => buckets'[g] = buckets[g]
      /\ BucketOf(g0)' \in BucketType
      /\ \E m \in Nat :
           /\ buckets'[g0] = [c EXCEPT !.in_flight = m]
           /\ \/ /\ pc'[r] = "waiting" /\ reservation' = reservation
              \/ /\ pc'[r] = "sent" /\ ReadyAt(c, now) <= now
                 /\ reservation'[r] = [group |-> g0, tokens |-> n]
  <2>1. SettledFor(r) = c
    BY <1>1 DEF SettledFor
  <2>2. c.in_flight \in Nat /\ n \in Nat
    BY <1>4, AvailableType DEF BucketType
  <2> HIDE DEF c, n, g0
  <2>3. CASE Reserve(r)
    <3> DEFINE m == c.in_flight + n
               new == [c EXCEPT !.in_flight = m]
    <3>1. /\ buckets' = [buckets EXCEPT ![g0] = [c EXCEPT !.in_flight = @ + n]]
          /\ reservation' = [reservation EXCEPT ![r] = [group |-> g0, tokens |-> n]]
          /\ pc' = [pc EXCEPT ![r] = "sent"] /\ ReadyAt(c, now) <= now
      BY <1>1, <2>1, <2>3 DEF Reserve, Send, n
    <3>2. [c EXCEPT !.in_flight = @ + n] = new /\ m \in Nat /\ new \in BucketType
      BY <1>4, <2>2 DEF BucketType
    <3> HIDE DEF m, new
    <3>3. /\ buckets \in [Groups -> Option(BucketType)]
          /\ pc \in [Requests -> {"idle", "waiting", "sent", "answered", "done"}]
          /\ reservation \in [Requests -> ReservationType]
      BY DEF EsiInv, TypeOK
    <3>4. buckets'[g0] = new /\ new # None
      BY <1>1, <3>1, <3>2, <3>3, NoneAssumption
    <3>5. BucketOf(g0)' = new
      BY <3>4 DEF BucketOf
    <3>6. pc'[r] = "sent" /\ reservation'[r] = [group |-> g0, tokens |-> n]
      BY <3>1, <3>3
    <3>7. /\ \A q \in Requests : q # r => pc'[q] = pc[q] /\ reservation'[q] = reservation[q]
          /\ \A g \in Groups : g # g0 => buckets'[g] = buckets[g]
      BY <3>1, <3>3
    <3> QED  BY <3>1, <3>2, <3>4, <3>5, <3>6, <3>7 DEF new
  <2>4. CASE Sleep(r)
    <3>1. /\ buckets' = [buckets EXCEPT ![g0] = c]
          /\ reservation' = reservation /\ pc' = [pc EXCEPT ![r] = "waiting"]
      BY <1>1, <2>1, <2>4 DEF Sleep
    <3>2. /\ buckets \in [Groups -> Option(BucketType)]
          /\ pc \in [Requests -> {"idle", "waiting", "sent", "answered", "done"}]
      BY DEF EsiInv, TypeOK
    <3>3. buckets'[g0] = c /\ c # None /\ c = [c EXCEPT !.in_flight = c.in_flight]
      BY <1>1, <1>4, <3>1, <3>2, NoneAssumption DEF BucketType
    <3>4. BucketOf(g0)' = c
      BY <3>3 DEF BucketOf
    <3>5. /\ \A q \in Requests : q # r => pc'[q] = pc[q] /\ reservation'[q] = reservation[q]
          /\ \A g \in Groups : g # g0 => buckets'[g] = buckets[g]
          /\ pc'[r] = "waiting"
      BY <3>1, <3>2
    <3> QED  BY <1>4, <2>2, <3>1, <3>3, <3>4, <3>5
  <2> QED  BY <1>2, <2>3, <2>4 DEF Acquire
<1> PICK m \in Nat :
      /\ buckets'[g0] = [c EXCEPT !.in_flight = m]
      /\ \/ /\ pc'[r] = "waiting" /\ reservation' = reservation
         \/ /\ pc'[r] = "sent" /\ ReadyAt(c, now) <= now
            /\ reservation'[r] = [group |-> g0, tokens |-> n]
  BY <1>6
<1> DEFINE e == [c EXCEPT !.in_flight = m]
<1>7. /\ e.max_tokens = c.max_tokens /\ e.window = c.window
      /\ e.observed = c.observed /\ e.spends = c.spends
      /\ e.blocked_until = None /\ e \in BucketType
  <2> HIDE DEF c
  <2> QED  BY <1>4 DEF BucketType
<1>8. BucketOf(g0)' = e
  <2>1. buckets'[g0] = e /\ e # None
    BY <1>7, NoneAssumption
  <2> HIDE DEF e
  <2> QED  BY <2>1 DEF BucketOf
<1>9. ASSUME pc'[r] = "sent"
      PROVE  /\ n = MAX_REQUEST_COST
             /\ reservation'[r] = [group |-> g0, tokens |-> MAX_REQUEST_COST]
             /\ c.in_flight + MAX_REQUEST_COST <= Balance(c)
  <2>1. ReadyAt(c, now) <= now /\ reservation'[r] = [group |-> g0, tokens |-> n]
    BY <1>9
  <2>2. MAX_REQUEST_COST <= c.max_tokens
    BY <1>1, <1>3, <1>4, BudgetOfGroup
  <2> HIDE DEF c
  <2>3. ReservationCost(c) = MAX_REQUEST_COST
        /\ c.in_flight + MAX_REQUEST_COST <= Balance(c)
    BY <1>3, <1>4, <2>1, <2>2, AdmissionCovered
  <2> QED  BY <2>1, <2>3
<1>10. LimiterState'
  <2>1. LimiterState
    BY DEF EsiInv
  <2>2. ASSUME NEW g \in Groups
        PROVE  /\ BucketOf(g)'.max_tokens = BudgetOf(g).max_tokens
               /\ BucketOf(g)'.window = BudgetOf(g).window
               /\ BucketOf(g)'.blocked_until = None
    <3>1. CASE g = g0
      <4> HIDE DEF a, c, e
      <4> QED  BY <1>3, <1>4, <1>7, <1>8, <3>1
    <3>2. CASE g # g0
      <4>1. BucketOf(g)' = BucketOf(g)
        BY <1>6, <3>2 DEF BucketOf
      <4> QED  BY <2>1, <4>1 DEF LimiterState
    <3> QED  BY <3>1, <3>2
  <2> QED  BY <1>2, <2>1, <2>2 DEF LimiterState
<1>11. CallState'
  <2> SUFFICES ASSUME NEW q \in Requests, pc'[q] \in {"sent", "answered"}
               PROVE  reservation'[q] = [group |-> ServerGroup(q),
                                         tokens |-> MAX_REQUEST_COST]
    BY DEF CallState
  <2>1. CASE q = r
    BY <1>9, <2>1
  <2>2. CASE q # r
    BY <1>6, <2>2 DEF EsiInv, CallState
  <2> QED  BY <2>1, <2>2
<1>12. ReplyState'
  <2>1. reply[r] = None
    BY <1>2 DEF EsiInv, ReplyState
  <2>2. \A q \in Requests : reply[q] # None => pc'[q] = pc[q]
    BY <1>6, <2>1
  <2> QED  BY <1>2, <1>5, <2>2 DEF EsiInv, ReplyState
<1>13. ASSUME NEW g \in Groups  PROVE Books(g)'
  <2>1. Held(g) <= Balance(Settle(BucketOf(g), now)) /\ Held(g) \in Nat
    BY CallSums DEF EsiInv, Books, HeldBelieved
  <2>2. TypeOK /\ TypeOK'
    BY DEF EsiInv
  <2>3. CASE g # g0
    <3>1. BucketOf(g)' = BucketOf(g)
      BY <1>6, <2>3 DEF BucketOf
    <3>2. Held(g)' = Held(g)
      BY <1>6, <2>2, <2>3, HeldChange
    <3>3. BucketOf(g) \in BucketType
      BY BucketOfType DEF EsiInv
    <3> QED  BY <1>2, <1>5, <2>1, <3>1, <3>2, <3>3, BooksKept
  <2>4. CASE g = g0
    <3>1. Held(g)' <= Balance(c)
      <4>1. CASE pc'[r] = "waiting"
        <5>1. pc[r] # "sent" /\ pc'[r] # "sent"
          BY <1>2, <4>1
        <5>2. Held(g)' = Held(g)
          BY <1>6, <2>2, <5>1, HeldChange
        <5> QED  BY <2>1, <2>4, <5>2
      <4>2. CASE pc'[r] = "sent"
        <5>1. Held(g)' = Held(g) + reservation'[r].tokens
          BY <1>2, <1>6, <2>2, <2>4, <4>2, HeldChange
        <5>2. reservation'[r].tokens = MAX_REQUEST_COST
          BY <1>9, <4>2
        <5>3. Held(g) <= c.in_flight
          <6>1. /\ Reserved(g) \in Nat /\ Held(g) <= Reserved(g)
                /\ Live(g) = {} => Held(g) = 0
            BY HeldCovers DEF EsiInv
          <6>2. CASE buckets[g] = None
            <7>1. Held(g) = 0
              BY <6>1, <6>2 DEF EsiInv, InFlightConserved
            <7>2. c.in_flight \in Nat
              BY <1>4 DEF BucketType
            <7> QED  BY <7>1, <7>2
          <6>3. CASE buckets[g] # None
            <7>1. a = buckets[g] /\ a.in_flight = Reserved(g)
              BY <2>4, <6>3 DEF EsiInv, InFlightConserved, BucketOf
            <7> QED  BY <1>4, <6>1, <7>1
          <6> QED  BY <6>2, <6>3
        <5>4. c.in_flight \in Nat /\ Balance(c) \in Nat
              /\ c.in_flight + MAX_REQUEST_COST <= Balance(c)
          BY <1>4, <1>9, <4>2, AvailableType DEF BucketType
        <5> HIDE DEF c
        <5> QED  BY <2>1, <5>1, <5>2, <5>3, <5>4, CostAssumption
      <4> QED  BY <4>1, <4>2
    <3>2. c \in {BucketOf(g), Settle(BucketOf(g), now)}
      BY <2>4
    <3> HIDE DEF e
    <3>3. /\ BucketOf(g)' \in BucketType
          /\ BucketOf(g)'.max_tokens = c.max_tokens
          /\ BucketOf(g)'.window = c.window
          /\ BucketOf(g)'.observed = c.observed /\ BucketOf(g)'.spends = c.spends
          /\ BucketOf(g)'.blocked_until = c.blocked_until
      BY <1>4, <1>7, <1>8, <2>4
    <3>4. Held(g)' <= Balance(Settle(BucketOf(g), now))
      BY <2>4, <3>1
    <3> HIDE DEF c
    <3> QED  BY <1>2, <1>5, <3>2, <3>3, <3>4, BooksKept
  <2> QED  BY <2>3, <2>4
<1> QED  BY <1>5, <1>10, <1>11, <1>12, <1>13 DEF Tallies

\* A call that ESI is done with, or never saw, drops its reservation.
LEMMA ReturnTallies ==
  ASSUME SpecAgrees, EsiInv, TypeOK', NEW r \in Requests,
         pc[r] \in {"waiting", "answered"}, GiveBack(r), UNCHANGED esiVars
  PROVE  Tallies'
<1>1. /\ now' = now /\ learned' = learned /\ pc'[r] = "done"
      /\ \A q \in Requests : q # r => pc'[q] = pc[q] /\ reservation'[q] = reservation[q]
  BY DEF GiveBack, EsiInv, TypeOK
<1>2. /\ LedgerState' /\ RepliesCurrent'
      /\ \A g : Pending(g)' = Pending(g) /\ Unrecorded(g)' = Unrecorded(g)
      /\ reply' = reply /\ answered' = answered /\ ledger' = ledger
  BY <1>1, EsiIdle DEF esiVars
<1>3. TypeOK /\ LimiterState
  BY DEF EsiInv
<1>4. ASSUME NEW g \in Groups
      PROVE  /\ BucketOf(g)' \in BucketType
             /\ BucketOf(g)'.max_tokens = BucketOf(g).max_tokens
             /\ BucketOf(g)'.window = BucketOf(g).window
             /\ BucketOf(g)'.observed = BucketOf(g).observed
             /\ BucketOf(g)'.spends = BucketOf(g).spends
             /\ BucketOf(g)'.blocked_until = BucketOf(g).blocked_until
  <2>1. CASE buckets[g] = None
    <3>1. buckets'[g] = None
      BY <1>3, <2>1, GiveBackFields
    <3>2. BucketOf(g)' = BucketOf(g)
      BY <2>1, <3>1 DEF BucketOf
    <3>3. BucketOf(g) \in BucketType
      BY BucketOfType DEF EsiInv
    <3> QED  BY <3>2, <3>3
  <2>2. CASE buckets[g] # None
    <3>1. /\ buckets'[g] # None
          /\ buckets'[g].max_tokens = buckets[g].max_tokens
          /\ buckets'[g].window = buckets[g].window
          /\ buckets'[g].observed = buckets[g].observed
          /\ buckets'[g].spends = buckets[g].spends
          /\ buckets'[g].blocked_until = buckets[g].blocked_until
      BY <1>3, <2>2, GiveBackFields
    <3>2. BucketOf(g) = buckets[g] /\ BucketOf(g)' = buckets'[g]
      BY <2>2, <3>1 DEF BucketOf
    <3>3. buckets'[g] \in BucketType
      BY <3>1 DEF TypeOK, Option
    <3> QED  BY <3>1, <3>2, <3>3
  <2> QED  BY <2>1, <2>2
<1>5. LimiterState'
  BY <1>1, <1>3, <1>4 DEF LimiterState
<1>6. CallState'
  <2> SUFFICES ASSUME NEW q \in Requests, pc'[q] \in {"sent", "answered"}
               PROVE  reservation'[q] = [group |-> ServerGroup(q),
                                         tokens |-> MAX_REQUEST_COST]
    BY DEF CallState
  <2>1. q # r
    BY <1>1
  <2> QED  BY <1>1, <2>1 DEF EsiInv, CallState
<1>7. ReplyState'
  <2>1. reply[r] = None
    BY DEF EsiInv, ReplyState
  <2>2. \A q \in Requests : reply[q] # None => pc'[q] = pc[q]
    BY <1>1, <2>1
  <2> QED  BY <1>1, <1>2, <2>2 DEF EsiInv, ReplyState
<1>8. ASSUME NEW g \in Groups  PROVE Books(g)'
  <2>1. Held(g) <= Balance(Settle(BucketOf(g), now))
    BY DEF EsiInv, Books, HeldBelieved
  <2>2. pc[r] # "sent" /\ pc'[r] # "sent"
    BY <1>1
  <2>3. Held(g)' = Held(g)
    BY <1>1, <1>3, <2>2, HeldChange
  <2> QED  BY <1>1, <1>2, <1>4, <2>1, <2>3, BooksKept
<1> QED  BY <1>2, <1>5, <1>6, <1>7, <1>8 DEF Tallies

-----------------------------------------------------------------------------
(* Steps of ESI. *)

\* ESI pays for a call in full, out of what its ledger has left.
LEMMA ServePays ==
  ASSUME SpecAgrees, EsiInv, NEW r \in Requests, NEW cost \in Costs, Serve(r, cost)
  PROVE  LET g == ServerGroup(r)
         IN  /\ g \in Groups /\ r \in Unanswered(g)
             /\ cost \in Nat /\ cost <= MAX_REQUEST_COST
             /\ Spent(g) \in Nat /\ Spent(g) + cost <= BudgetOf(g).max_tokens
             /\ BudgetOf(g).max_tokens \in Nat
             /\ SaturatingSub(Left(g), cost) = BudgetOf(g).max_tokens - Spent(g) - cost
             /\ SaturatingSub(Left(g), cost) \in Nat
<1> DEFINE g == ServerGroup(r)
<1>1. g \in Groups
  BY GroupOfCall
<1>2. r \in Unanswered(g)
  <2>1. pc[r] = "sent" /\ reply[r] = None
    BY DEF Serve
  <2>2. reservation[r].group = g
    BY <2>1, CallOut DEF EsiInv
  <2> QED  BY <2>1, <2>2 DEF Unanswered, Live
<1>3. cost \in Nat /\ cost <= MAX_REQUEST_COST
  BY ServerAssumption, CostAssumption
<1> HIDE DEF g
<1>4. MAX_REQUEST_COST <= Left(g) /\ Left(g) \in Nat
  BY <1>1, <1>2, OpenCallsCovered
<1>5. /\ Spent(g) \in Nat /\ BudgetOf(g).max_tokens \in Nat
      /\ Left(g) = BudgetOf(g).max_tokens - Spent(g)
  <2>1. BucketOf(g).max_tokens = BudgetOf(g).max_tokens
    BY <1>1 DEF EsiInv, LimiterState
  <2> QED  BY <1>1, <2>1, LedgerSpent, BudgetOfGroup DEF EsiInv
<1>6. /\ Spent(g) + cost <= BudgetOf(g).max_tokens
      /\ SaturatingSub(Left(g), cost) = BudgetOf(g).max_tokens - Spent(g) - cost
      /\ SaturatingSub(Left(g), cost) \in Nat
  <2> DEFINE M == BudgetOf(g).max_tokens
             x == Spent(g)
             l == Left(g)
  <2>1. M \in Nat /\ x \in Nat /\ l = M - x /\ l \in Nat /\ MAX_REQUEST_COST <= l
    BY <1>4, <1>5
  <2> HIDE DEF M, x, l
  <2>2. x + cost <= M /\ l - cost = M - x - cost /\ l - cost \in Nat /\ cost <= l
    BY <1>3, <2>1, CostAssumption
  <2>3. SaturatingSub(l, cost) = l - cost
    BY <2>2 DEF SaturatingSub
  <2> QED  BY <2>2, <2>3 DEF M, x, l
<1> QED  BY <1>1, <1>2, <1>3, <1>5, <1>6 DEF g

\* What a spend of now adds to a group's ledger.
LEMMA ChargedLedger ==
  ASSUME LedgerState, now \in Nat, SpecAgrees, NEW g \in Groups, NEW cost \in Nat,
         ledger' = Charged(g, cost), now' = now
  PROVE  /\ LedgerState'
         /\ \A h \in Groups : h # g => ledger'[h] = ledger[h]
         /\ \A t \in Int : SpentSince(ledger'[g], t)
                             = SpentSince(ledger[g], t) + (IF t <= now THEN cost ELSE 0)
<1> DEFINE e == [at |-> now, tokens |-> cost]
           q == ledger[g]
<1>1. /\ ledger \in [Groups -> Seq(Spend)] /\ q \in Seq(Spend)
      /\ BudgetOf(g).window \in Nat \ {0}
  BY BudgetOfGroup DEF LedgerState
<1>2. CASE cost = 0
  <2>1. ledger' = ledger
    BY <1>2 DEF Charged
  <2>2. LedgerState'
    BY <2>1 DEF LedgerState
  <2>3. \A t \in Int : SpentSince(q, t) \in Nat
    <3> HIDE DEF q
    <3> QED  BY <1>1, SpentSinceType
  <2> QED  BY <1>2, <2>1, <2>2, <2>3
<1>3. CASE cost # 0
  <2>1. e \in Spend
    BY <1>3 DEF Spend, Instant
  <2> DEFINE new == Append(q, e)
  <2>2. ledger' = [ledger EXCEPT ![g] = new] /\ new \in Seq(Spend)
    BY <1>1, <1>3, <2>1 DEF Charged
  <2>3. /\ ledger'[g] = new /\ ledger' \in [Groups -> Seq(Spend)]
        /\ \A h \in Groups : h # g => ledger'[h] = ledger[h]
    <3> HIDE DEF new
    <3> QED  BY <1>1, <2>2
  <2>4. \A t \in Int : SpentSince(new, t) = SpentSince(q, t) + (IF t <= now THEN cost ELSE 0)
    <3> TAKE t \in Int
    <3>1. SpentSince(new, t) = SpentSince(q, t) + (IF e.at >= t THEN e.tokens ELSE 0)
      <4> HIDE DEF q, e
      <4> QED  BY <1>1, <2>1, SpentSinceAppend
    <3>2. e.at = now /\ e.tokens = cost /\ (e.at >= t <=> t <= now)
      OBVIOUS
    <3> HIDE DEF e, q, new
    <3> QED  BY <3>1, <3>2
  <2>5. LedgerState'
    <3> SUFFICES ASSUME NEW h \in Groups
                 PROVE  /\ \A i, j \in DOMAIN ledger'[h] :
                             i <= j => ledger'[h][i].at <= ledger'[h][j].at
                        /\ \A i \in DOMAIN ledger'[h] :
                             /\ ledger'[h][i].at <= now
                             /\ now < ledger'[h][i].at + BudgetOf(h).window
      BY <2>3 DEF LedgerState
    <3>1. CASE h # g
      BY <2>3, <3>1 DEF LedgerState
    <3>2. CASE h = g
      <4> DEFINE n == Len(q)
      <4>1. /\ n \in Nat /\ DOMAIN new = 1 .. n + 1 /\ DOMAIN q = 1 .. n
            /\ \A i \in 1 .. n : new[i] = q[i]
            /\ new[n + 1] = e
        BY <1>1, <2>1
      <4>2. /\ \A i, j \in 1 .. n : i <= j => q[i].at <= q[j].at
            /\ \A i \in 1 .. n : q[i].at <= now /\ now < q[i].at + BudgetOf(g).window
        BY <4>1 DEF LedgerState
      <4>3. e.at = now /\ now < now + BudgetOf(g).window
        <5> DEFINE w == BudgetOf(g).window
        <5> HIDE DEF w
        <5>1. now < now + w
          BY <1>1 DEF w
        <5> QED  BY <5>1 DEF w
      <4> HIDE DEF n, new, e, q
      <4>4. ASSUME NEW i \in 1 .. n + 1
            PROVE  new[i].at <= now /\ now < new[i].at + BudgetOf(g).window
        <5>1. CASE i = n + 1
          BY <4>1, <4>3, <5>1
        <5>2. CASE i # n + 1
          <6>1. i \in 1 .. n
            BY <4>1, <5>2
          <6> QED  BY <4>1, <4>2, <6>1
        <5> QED  BY <5>1, <5>2
      <4>5. ASSUME NEW i \in 1 .. n + 1, NEW j \in 1 .. n + 1, i <= j
            PROVE  new[i].at <= new[j].at
        <5>1. CASE j = n + 1
          BY <4>1, <4>3, <4>4, <5>1
        <5>2. CASE j # n + 1
          <6>1. i \in 1 .. n /\ j \in 1 .. n
            BY <4>1, <4>5, <5>2
          <6> QED  BY <4>1, <4>2, <4>5, <6>1
        <5> QED  BY <5>1, <5>2
      <4> QED  BY <2>3, <3>2, <4>1, <4>4, <4>5
    <3> QED  BY <3>1, <3>2
  <2> QED  BY <2>3, <2>4, <2>5
<1> QED  BY <1>2, <1>3

\* ESI answers a call.
LEMMA ServeTallies ==
  ASSUME SpecAgrees, EsiInv, NEW r \in Requests, NEW cost \in Costs, Serve(r, cost)
  PROVE  Tallies'
<1> DEFINE g0 == ServerGroup(r)
           left == SaturatingSub(Left(g0), cost)
           n == Len(answered)
<1>1. /\ g0 \in Groups /\ cost \in Nat /\ cost <= MAX_REQUEST_COST
      /\ Spent(g0) \in Nat /\ Spent(g0) + cost <= BudgetOf(g0).max_tokens
      /\ BudgetOf(g0).max_tokens \in Nat
      /\ left = BudgetOf(g0).max_tokens - Spent(g0) - cost /\ left \in Nat
  BY ServePays
<1>2. /\ pc[r] = "sent" /\ reply[r] = None /\ UNCHANGED vars
      /\ now' = now /\ buckets' = buckets /\ pc' = pc /\ reservation' = reservation
      /\ learned' = learned
      /\ ledger' = Charged(g0, cost) /\ answered' = Append(answered, r)
  BY DEF Serve, vars
<1>3. /\ reply'[r].at = now
      /\ reply'[r] # None
      /\ reply'[r].header.remaining = left /\ reply'[r].header.used = cost
      /\ reply'[r] \in [at : 0 .. now, header : Paid(g0)]
      /\ \A q \in Requests : q # r => reply'[q] = reply[q]
      /\ reply' \in [Requests -> Option(ReplyType)]
  <2> DEFINE h == [group |-> g0, limit |-> BudgetOf(g0), remaining |-> left,
                   used |-> cost, rate_limited |-> FALSE, retry_after |-> None]
             a == [at |-> now, header |-> h]
  <2>1. reply' = [reply EXCEPT ![r] = a]
    BY DEF Serve
  <2>2. h \in Paid(g0) /\ h \in Header
    <3>1. BudgetOf(g0) \in Budget
      BY <1>1, BudgetOfGroup
    <3> HIDE DEF g0, left
    <3> QED  BY <1>1, <3>1, CostAssumption DEF Paid, Header, Option
  <2>3. now \in Nat
    BY DEF EsiInv, TypeOK, Instant
  <2>4. h.remaining = left /\ h.used = cost
    OBVIOUS
  <2> HIDE DEF h
  <2>5. a \in [at : 0 .. now, header : Paid(g0)]
    BY <2>2, <2>3
  <2>6. a.at = now /\ a.header = h
    OBVIOUS
  <2>7. a \in ReplyType
    BY <2>2, <2>3 DEF ReplyType, Instant
  <2> HIDE DEF a
  <2>8. reply \in [Requests -> Option(ReplyType)]
    BY DEF EsiInv, ReplyState
  <2>9. /\ reply'[r] = a /\ \A q \in Requests : q # r => reply'[q] = reply[q]
        /\ reply' \in [Requests -> Option(ReplyType)]
    BY <2>1, <2>7, <2>8 DEF Option
  <2> QED  BY <2>4, <2>5, <2>6, <2>7, <2>9, ReplyAssumption
<1>4. /\ n \in Nat /\ answered' \in Seq(Requests) /\ Len(answered') = n + 1
      /\ DOMAIN answered = 1 .. n /\ DOMAIN answered' = 1 .. n + 1
      /\ \A i \in 1 .. n : answered'[i] = answered[i] /\ answered[i] # r
      /\ answered'[n + 1] = r
      /\ \A i, j \in 1 .. n : answered[i] = answered[j] => i = j
      /\ \A q \in Requests : reply[q] # None <=> \E i \in 1 .. n : answered[i] = q
  BY <1>2 DEF EsiInv, ReplyState
<1> HIDE DEF n
<1>5. ReplyState'
  <2>1. ASSUME NEW q \in Requests, reply'[q] # None
        PROVE  /\ pc'[q] = "sent"
               /\ reply'[q] \in [at : 0 .. now', header : Paid(ServerGroup(q))]
    <3>1. CASE q = r
      BY <1>2, <1>3, <3>1
    <3>2. CASE q # r
      BY <1>2, <1>3, <2>1, <3>2 DEF EsiInv, ReplyState
    <3> QED  BY <3>1, <3>2
  <2>2. ASSUME NEW i \in 1 .. n + 1, NEW j \in 1 .. n + 1,
               answered'[i] = answered'[j]
        PROVE  i = j
    <3>1. CASE i = n + 1 /\ j = n + 1
      BY <3>1
    <3>2. CASE i # n + 1
      <4>1. i \in 1 .. n
        BY <1>4, <3>2
      <4> QED  BY <1>4, <2>2, <4>1
    <3>3. CASE j # n + 1
      <4>1. j \in 1 .. n
        BY <1>4, <3>3
      <4> QED  BY <1>4, <2>2, <4>1
    <3> QED  BY <3>1, <3>2, <3>3
  <2>3. ASSUME NEW q \in Requests
        PROVE  reply'[q] # None <=> \E i \in 1 .. n + 1 : answered'[i] = q
    <3>1. CASE q = r
      <4>1. n + 1 \in 1 .. n + 1
        BY <1>4
      <4> QED  BY <1>3, <1>4, <3>1, <4>1
    <3>2. CASE q # r
      <4>1. reply'[q] = reply[q]
        BY <1>3, <3>2
      <4>2. ASSUME NEW i \in 1 .. n, answered[i] = q
            PROVE  \E j \in 1 .. n + 1 : answered'[j] = q
        <5>1. i \in 1 .. n + 1
          BY <1>4
        <5> QED  BY <1>4, <4>2, <5>1
      <4>3. ASSUME NEW i \in 1 .. n + 1, answered'[i] = q
            PROVE  \E j \in 1 .. n : answered[j] = q
        <5>1. i \in 1 .. n
          BY <1>4, <3>2, <4>3
        <5> QED  BY <1>4, <4>3, <5>1
      <4> QED  BY <1>4, <4>1, <4>2, <4>3
    <3> QED  BY <3>1, <3>2
  <2>4. reply' \in [Requests -> Option(ReplyType)]
    BY <1>3
  <2> QED  BY <1>4, <2>1, <2>2, <2>3, <2>4 DEF ReplyState
<1>6. \A g : BucketOf(g)' = BucketOf(g) /\ Held(g)' = Held(g)
  BY <1>2 DEF BucketOf, Held, Tokens, Sent
<1>7. LimiterState' /\ CallState'
  BY <1>2, <1>6 DEF EsiInv, LimiterState, CallState
<1>8. /\ now \in Nat /\ LedgerState'
      /\ \A h \in Groups : h # g0 => ledger'[h] = ledger[h]
      /\ \A t \in Int : SpentSince(ledger'[g0], t)
                          = SpentSince(ledger[g0], t) + (IF t <= now THEN cost ELSE 0)
  <2>1. now \in Nat /\ LedgerState
    BY DEF EsiInv, TypeOK, Instant
  <2> HIDE DEF g0
  <2> QED  BY <1>1, <1>2, <2>1, ChargedLedger
<1>9. /\ Used \in [Requests -> Nat] /\ Used' \in [Requests -> Nat]
      /\ \A q \in Requests : q # r => Used'[q] = Used[q]
      /\ Used'[r] = cost
  <2>1. Used \in [Requests -> Nat]
    BY CallSums DEF EsiInv
  <2>2. /\ \A q \in Requests : q # r => Used'[q] = Used[q]
        /\ Used'[r] = cost
    BY <1>3 DEF Used
  <2>3. Used' \in [Requests -> Nat]
    <3>1. \A q \in Requests : Used'[q] \in Nat
      BY <1>1, <2>1, <2>2
    <3> QED  BY <3>1 DEF Used
  <2> QED  BY <2>1, <2>2, <2>3
<1>10. /\ \A g : r \notin Pending(g)
       /\ \A g : g # g0 => Pending(g)' = Pending(g)
       /\ Pending(g0)' = Pending(g0) \cup {r}
       /\ \A g : Pending(g) \in SUBSET Requests /\ IsFiniteSet(Pending(g))
  <2>1. \A q \in Requests : q # r => (reply'[q] # None <=> reply[q] # None)
    BY <1>3
  <2>2. \A g : Pending(g) \in SUBSET Requests
    BY DEF Pending
  <2> QED  BY <1>2, <1>3, <2>1, <2>2, RequestsAssumption, FS_Subset DEF Pending
<1>11. ASSUME NEW I \in SUBSET Requests, IsFiniteSet(I), r \notin I
       PROVE  /\ TokenSum(Used', I) = TokenSum(Used, I)
              /\ TokenSum(Used', I \cup {r}) = TokenSum(Used, I) + cost
              /\ TokenSum(Used, I) \in Nat
  <2>1. \A q \in I : Used'[q] = Used[q]
    BY <1>9, <1>11
  <2>2. TokenSum(Used', I) = TokenSum(Used, I)
    BY ONLY <2>1, TokenSumSame
  <2>3. TokenSum(Used', I \cup {r}) = TokenSum(Used', I) + Used'[r]
    BY <1>9, <1>11, TokenSumAdd
  <2>4. TokenSum(Used, I) \in Nat
    BY <1>9, <1>11, TokenSumType
  <2> QED  BY <1>9, <2>2, <2>3, <2>4
<1>12. /\ \A g : g # g0 => Unrecorded(g)' = Unrecorded(g)
       /\ Unrecorded(g0)' = Unrecorded(g0) + cost
       /\ Unrecorded(g0) \in Nat
  BY <1>10, <1>11 DEF Unrecorded
<1>13. /\ \A g \in Groups : g # g0 => Spent(g)' = Spent(g)
       /\ Spent(g0)' = Spent(g0) + cost
  <2>1. \A g \in Groups : g # g0 => Spent(g)' = Spent(g)
    BY <1>2, <1>8 DEF Spent
  <2> DEFINE since == now - BudgetOf(g0).window + 1
             w == BudgetOf(g0).window
  <2>2. since \in Int /\ since <= now
    <3>1. w \in Nat \ {0}
      BY <1>1, BudgetOfGroup
    <3>2. since = now - w + 1
      OBVIOUS
    <3> HIDE DEF w, since
    <3> QED  BY <1>8, <3>1, <3>2
  <2>3. SpentSince(ledger'[g0], since) = SpentSince(ledger[g0], since) + cost
    <3> HIDE DEF since
    <3> QED  BY <1>8, <2>2
  <2> QED  BY <1>2, <2>1, <2>3 DEF Spent
<1> HIDE DEF left
<1>14. ASSUME NEW g \in Groups  PROVE Books(g)'
  <2>1. Books(g)
    BY DEF EsiInv
  <2>2. Fits(BucketOf(g))' /\ HeldBelieved(g)'
    <3>1. Fits(BucketOf(g)) /\ HeldBelieved(g)
      BY <2>1 DEF Books
    <3> QED  BY <1>2, <1>6, <3>1 DEF HeldBelieved, Fits
  <2>3. QueueIsLedger(g)'
    <3> SUFFICES ASSUME NEW t \in Int, t > now - BudgetOf(g).window
                 PROVE  SpentSince(ledger'[g], t)
                          = SpentSince(BucketOf(g).spends, t)
                              + (IF t <= now THEN Unrecorded(g)' ELSE 0)
      BY <1>2, <1>6 DEF QueueIsLedger
    <3>1. SpentSince(ledger[g], t)
            = SpentSince(BucketOf(g).spends, t) + (IF t <= now THEN Unrecorded(g) ELSE 0)
      BY <2>1 DEF Books, QueueIsLedger
    <3>2. CASE g # g0
      BY <1>8, <1>12, <3>1, <3>2
    <3>3. CASE g = g0
      <4>1. SpentSince(BucketOf(g).spends, t) \in Nat
        BY BucketOfType, SpentSinceType DEF EsiInv
      <4>2. SpentSince(ledger'[g], t)
              = SpentSince(ledger[g], t) + (IF t <= now THEN cost ELSE 0)
        BY <1>8, <3>3
      <4>3. Unrecorded(g)' = Unrecorded(g) + cost /\ Unrecorded(g) \in Nat
        BY <1>12, <3>3
      <4> HIDE DEF g0
      <4> QED  BY <1>1, <1>8, <3>1, <4>1, <4>2, <4>3
    <3> QED  BY <3>2, <3>3
  <2>4. LedgerFits(g)'
    <3>1. CASE g # g0
      BY <1>13, <2>1, <3>1 DEF Books, LedgerFits
    <3>2. CASE g = g0
      BY <1>1, <1>13, <3>2 DEF LedgerFits
    <3> QED  BY <3>1, <3>2
  <2> QED  BY <2>2, <2>3, <2>4 DEF Books
<1>15. ASSUME NEW q \in Requests, reply'[q] # None
       PROVE  reply'[q].header.remaining + Spent(ServerGroup(q))'
                = BudgetOf(ServerGroup(q)).max_tokens + TokenSum(Used', After(q)')
  <2>1. After(q)' = {p \in Pending(ServerGroup(q))' :
                       \E i, j \in 1 .. n + 1 :
                         i < j /\ answered'[i] = q /\ answered'[j] = p}
    BY <1>4 DEF After
  <2>2. After(q) = {p \in Pending(ServerGroup(q)) :
                      \E i, j \in 1 .. n : i < j /\ answered[i] = q /\ answered[j] = p}
    BY <1>4 DEF After
  <2>3. r \notin After(q) /\ After(q) \in SUBSET Requests /\ IsFiniteSet(After(q))
    <3>1. r \notin After(q) /\ After(q) \subseteq Pending(ServerGroup(q))
      BY <1>10, <2>2
    <3> QED  BY <1>10, <3>1, FS_Subset
  <2>4. CASE q = r
    <3>1. After(q)' = {}
      <4> SUFFICES ASSUME NEW i \in 1 .. n + 1, NEW j \in 1 .. n + 1,
                          i < j, answered'[i] = r
                   PROVE  FALSE
        BY <2>1, <2>4
      <4>1. i \in 1 .. n
        BY <1>4
      <4> QED  BY <1>4, <4>1
    <3>2. TokenSum(Used', After(q)') = 0
      BY <3>1, TokenSumEmpty
    <3>3. reply'[q].header.remaining = BudgetOf(g0).max_tokens - Spent(g0) - cost
      BY <1>1, <1>3, <2>4
    <3>4. Spent(ServerGroup(q))' = Spent(g0) + cost
      BY <1>13, <2>4
    <3> DEFINE M == BudgetOf(g0).max_tokens
               x == Spent(g0)
    <3>5. /\ reply'[q].header.remaining = M - x - cost
          /\ Spent(ServerGroup(q))' = x + cost /\ x \in Nat /\ M \in Nat
      BY <1>1, <3>3, <3>4
    <3>6. BudgetOf(ServerGroup(q)).max_tokens = M
      BY <2>4
    <3> HIDE DEF M, x, g0
    <3> QED  BY <1>1, <3>2, <3>5, <3>6
  <2>5. CASE q # r
    <3>1. reply'[q] = reply[q] /\ reply[q] # None
      BY <1>3, <2>5, <2>1, <1>15
    <3>2. reply[q].header.remaining + Spent(ServerGroup(q))
            = BudgetOf(ServerGroup(q)).max_tokens + TokenSum(Used, After(q))
      BY <3>1 DEF EsiInv, RepliesCurrent
    <3>3. ServerGroup(q) \in Groups
      BY GroupOfCall
    <3>4. \A p \in Requests : p # r =>
            ((\E i, j \in 1 .. n + 1 : i < j /\ answered'[i] = q /\ answered'[j] = p)
             <=> (\E i, j \in 1 .. n : i < j /\ answered[i] = q /\ answered[j] = p))
      <4> SUFFICES ASSUME NEW p \in Requests, p # r
                   PROVE  (\E i, j \in 1 .. n + 1 :
                             i < j /\ answered'[i] = q /\ answered'[j] = p)
                            <=> (\E i, j \in 1 .. n :
                                   i < j /\ answered[i] = q /\ answered[j] = p)
        OBVIOUS
      <4>1. ASSUME NEW i \in 1 .. n + 1, NEW j \in 1 .. n + 1,
                   i < j, answered'[i] = q, answered'[j] = p
            PROVE  i \in 1 .. n /\ j \in 1 .. n /\ answered[i] = q /\ answered[j] = p
        BY <1>4, <2>5, <4>1
      <4>2. ASSUME NEW i \in 1 .. n, NEW j \in 1 .. n,
                   i < j, answered[i] = q, answered[j] = p
            PROVE  /\ i \in 1 .. n + 1 /\ j \in 1 .. n + 1
                   /\ answered'[i] = q /\ answered'[j] = p
        BY <1>4, <4>2
      <4> QED  BY <4>1, <4>2
    <3>5. \A g : Pending(g)' \subseteq Requests
      BY DEF Pending
    <3>6. CASE ServerGroup(q) # g0
      <4>1. After(q)' = After(q)
        <5>1. \A p \in Pending(ServerGroup(q)) : p \in Requests /\ p # r
          BY <1>10
        <5>2. Pending(ServerGroup(q))' = Pending(ServerGroup(q))
          BY <1>10, <3>6
        <5> QED  BY <2>1, <2>2, <3>4, <5>1, <5>2
      <4>2. TokenSum(Used', After(q)') = TokenSum(Used, After(q))
        BY <1>11, <2>3, <4>1
      <4> QED  BY <1>13, <3>1, <3>2, <3>3, <3>6, <4>2
    <3>7. CASE ServerGroup(q) = g0
      <4>1. After(q)' = After(q) \cup {r}
        <5>1. \E i, j \in 1 .. n + 1 : i < j /\ answered'[i] = q /\ answered'[j] = r
          <6>1. PICK i \in 1 .. n : answered[i] = q
            BY <1>4, <3>1
          <6>2. i \in 1 .. n + 1 /\ n + 1 \in 1 .. n + 1 /\ i < n + 1
            BY <1>4
          <6> QED  BY <1>4, <6>1, <6>2
        <5>2. \A p \in Pending(ServerGroup(q)) : p \in Requests /\ p # r
          BY <1>10
        <5>3. Pending(ServerGroup(q))' = Pending(ServerGroup(q)) \cup {r}
          BY <1>10, <3>7
        <5> HIDE DEF g0
        <5> QED  BY <2>1, <2>2, <3>4, <5>1, <5>2, <5>3
      <4>2. TokenSum(Used', After(q)') = TokenSum(Used, After(q)) + cost
            /\ TokenSum(Used, After(q)) \in Nat
        BY <1>11, <2>3, <4>1
      <4> DEFINE M == BudgetOf(ServerGroup(q)).max_tokens
                 x == Spent(ServerGroup(q))
                 y == reply[q].header.remaining
                 z == TokenSum(Used, After(q))
      <4>3. M \in Nat /\ x \in Nat /\ z \in Nat /\ y \in Nat
        BY <1>1, <3>1, <3>7, <4>2, ReplyUnderWay DEF EsiInv
      <4>4. y + x = M + z
        BY <3>2
      <4>5. /\ reply'[q].header.remaining = y
            /\ Spent(ServerGroup(q))' = x + cost
            /\ TokenSum(Used', After(q)') = z + cost
        BY <1>13, <3>1, <3>7, <4>2
      <4> HIDE DEF M, x, y, z, g0
      <4>6. y + (x + cost) = M + (z + cost)
        BY <1>1, <4>3, <4>4
      <4> QED  BY <4>5, <4>6 DEF M
    <3> QED  BY <3>6, <3>7
  <2> QED  BY <2>4, <2>5
<1>16. RepliesCurrent'
  BY <1>15 DEF RepliesCurrent
<1> QED  BY <1>5, <1>7, <1>8, <1>14, <1>16 DEF Tallies

\* The response of the call answered first is recorded.
LEMMA DeliverTallies ==
  ASSUME SpecAgrees, Ordered, EsiInv, TypeOK', NEW r \in Requests, Deliver(r)
  PROVE  Tallies'
<1> DEFINE g0 == ServerGroup(r)
           b == BucketOf(g0)
           h == reply[r].header
           n == Len(answered)
           M == BudgetOf(g0).max_tokens
           w == BudgetOf(g0).window
           o == OperationOf[r]
<1>1. /\ reply[r] # None /\ answered[1] = r /\ Respond(r, h) /\ Forgotten(r)
      /\ TypeOK /\ CallState /\ ReplyState /\ LimiterState
  BY DEF Deliver, EsiInv
<1>2. /\ pc[r] = "sent" /\ h.group = g0 /\ h.limit = BudgetOf(g0)
      /\ h.remaining \in Nat /\ h.used \in Nat /\ h.used <= MAX_REQUEST_COST
      /\ Used[r] = h.used /\ h.rate_limited = FALSE
      /\ h \in Header
  <2>1. reply[r] \in ReplyType
    BY <1>1 DEF ReplyState, Option
  <2>2. h \in Header
    BY <2>1 DEF ReplyType
  <2> HIDE DEF h
  <2>3. /\ pc[r] = "sent" /\ h.group = g0 /\ h.limit = BudgetOf(g0)
        /\ h.remaining \in Nat /\ h.used \in 0 .. MAX_REQUEST_COST /\ h.used \in Nat
        /\ Used[r] = h.used /\ h.rate_limited = FALSE
    BY <1>1, ReplyUnderWay DEF h
  <2> QED  BY <2>2, <2>3, CostAssumption
<1>3. /\ o \in Operations /\ SpecLimit[o] # None /\ g0 \in Groups /\ g0 # None
      /\ SpecLimit[o].group = g0
  BY GroupOfCall
<1>4. /\ b = buckets[g0] /\ buckets[g0] # None /\ b \in BucketType
      /\ now \in Nat /\ Settleable(b, now) /\ b.max_tokens = M /\ b.window = w
      /\ b.blocked_until = None /\ b.spends \in Seq(Spend)
      /\ reservation[r].tokens = MAX_REQUEST_COST
  <2>1. reservation[r].group = g0 /\ Tokens[r] = MAX_REQUEST_COST
    BY <1>1, <1>2, CallOut
  <2>2. r \in Live(g0)
    BY <2>1 DEF Live
  <2>3. buckets[g0] # None
    BY <1>3, <2>2 DEF EsiInv, InFlightConserved
  <2> QED  BY <1>3, <2>1, <2>3, BucketOfType DEF EsiInv, BucketOf, Tokens
<1> DEFINE c == Recorded(b, h, now)
<1> HIDE DEF h, o, g0
<1>5. /\ learned' = learned /\ now' = now /\ reservation' = reservation
      /\ pc' = [pc EXCEPT ![r] = "answered"]
      /\ buckets' = [buckets EXCEPT ![g0] = c]
  <2>1. ~ Ignored(h)
    BY <1>2, NoneAssumption DEF Ignored
  <2>2. ~ Learns(o, h)
    BY <1>2, <1>3 DEF Learns
  <2>3. RecordGroup(o, h) = g0
    BY <1>2, <1>3 DEF RecordGroup
  <2>4. RecordBucket(o, h) = b /\ b # None
    BY <1>3, <1>4, <2>1, <2>3 DEF RecordBucket
  <2> HIDE DEF b
  <2> QED  BY <1>1, <2>2, <2>3, <2>4 DEF Respond, o
<1>6. /\ n \in Nat \ {0}
      /\ answered' \in Seq(Requests) /\ Len(answered') = n - 1
      /\ \A i \in 1 .. n - 1 : answered'[i] = answered[i + 1]
      /\ DOMAIN answered = 1 .. n /\ DOMAIN answered' = 1 .. n - 1
      /\ \A i, j \in 1 .. n : answered[i] = answered[j] => i = j
      /\ \A q \in Requests : reply[q] # None <=> \E i \in 1 .. n : answered[i] = q
      /\ answered \in Seq(Requests)
  <2>1. /\ answered \in Seq(Requests) /\ n \in Nat /\ DOMAIN answered = 1 .. n
        /\ \A i, j \in 1 .. n : answered[i] = answered[j] => i = j
        /\ \A q \in Requests : reply[q] # None <=> \E i \in 1 .. n : answered[i] = q
    BY <1>1 DEF ReplyState
  <2>2. n # 0 /\ 1 \in 1 .. n
    BY <1>1, <2>1
  <2>3. (CHOOSE i \in DOMAIN answered : answered[i] = r) = 1
    <3>1. \A i \in DOMAIN answered : answered[i] = r => i = 1
      BY <1>1, <2>1, <2>2
    <3> QED  BY <1>1, <2>1, <2>2, <3>1
  <2>4. answered' = Without(answered, 1)
    BY <1>1, <2>3 DEF Forgotten
  <2> DEFINE front == SubSeq(answered, 1, 0)
             back == SubSeq(answered, 2, n)
  <2>5. front = << >>
    BY SubSeqEmpty
  <2>6. /\ back \in Seq(Requests) /\ Len(back) = n - 1
        /\ \A i \in 1 .. n - 1 : back[i] = answered[i + 1]
    <3>1. \A i \in 2 .. n : answered[i] \in Requests
      BY <2>1
    <3>2. /\ back \in Seq(Requests)
          /\ Len(back) = IF 2 <= n THEN n - 2 + 1 ELSE 0
          /\ \A i \in 1 .. n - 2 + 1 : back[i] = answered[2 + i - 1]
      BY <2>1, <3>1, SubSeqProperties
    <3> HIDE DEF back, n
    <3> QED  BY <2>1, <2>2, <3>2
  <2>7. answered' = front \o back
    BY <2>4 DEF Without
  <2> HIDE DEF front, back
  <2>8. answered' = back
    BY <2>5, <2>6, <2>7, ConcatEmptySeq
  <2>9. DOMAIN back = 1 .. Len(back)
    BY <2>6
  <2> HIDE DEF n
  <2> QED  BY <2>1, <2>2, <2>6, <2>8, <2>9
<1> HIDE DEF n
<1>7. /\ reply'[r] = None
      /\ \A q \in Requests : q # r => reply'[q] = reply[q]
      /\ reply' \in [Requests -> Option(ReplyType)]
      /\ ledger' = ledger
  <2>1. reply \in [Requests -> Option(ReplyType)]
    BY <1>1 DEF ReplyState
  <2> QED  BY <1>1, <2>1 DEF Forgotten, Option
<1>8. /\ pc'[r] = "answered"
      /\ \A q \in Requests : q # r => pc'[q] = pc[q]
  BY <1>1, <1>5 DEF TypeOK
<1>9. ReplyState'
  <2>1. ASSUME NEW q \in Requests, reply'[q] # None
        PROVE  /\ pc'[q] = "sent"
               /\ reply'[q] \in [at : 0 .. now', header : Paid(ServerGroup(q))]
    <3>1. q # r
      BY <1>7, <2>1
    <3> QED  BY <1>1, <1>5, <1>7, <1>8, <2>1, <3>1 DEF ReplyState
  <2>2. ASSUME NEW i \in 1 .. n - 1, NEW j \in 1 .. n - 1,
               answered'[i] = answered'[j]
        PROVE  i = j
    <3>1. i + 1 \in 1 .. n /\ j + 1 \in 1 .. n
      BY <1>6
    <3>2. i + 1 = j + 1
      BY <1>6, <2>2, <3>1
    <3> QED  BY <1>6, <3>2
  <2>3. ASSUME NEW q \in Requests
        PROVE  reply'[q] # None <=> \E i \in 1 .. n - 1 : answered'[i] = q
    <3>1. CASE q = r
      <4>1. ASSUME NEW i \in 1 .. n - 1, answered'[i] = r  PROVE FALSE
        <5>1. i + 1 \in 1 .. n /\ 1 \in 1 .. n /\ i + 1 # 1
          BY <1>6
        <5> QED  BY <1>1, <1>6, <4>1, <5>1
      <4> QED  BY <1>7, <3>1, <4>1
    <3>2. CASE q # r
      <4>1. reply'[q] = reply[q]
        BY <1>7, <3>2
      <4>2. ASSUME NEW i \in 1 .. n, answered[i] = q
            PROVE  \E j \in 1 .. n - 1 : answered'[j] = q
        <5>1. i # 1
          BY <1>1, <3>2, <4>2
        <5>2. i - 1 \in 1 .. n - 1 /\ (i - 1) + 1 = i
          BY <1>6, <5>1
        <5>3. answered'[i - 1] = q
          BY <1>6, <4>2, <5>2
        <5> QED  BY <5>2, <5>3
      <4>3. ASSUME NEW i \in 1 .. n - 1, answered'[i] = q
            PROVE  \E j \in 1 .. n : answered[j] = q
        <5>1. i + 1 \in 1 .. n
          BY <1>6
        <5> QED  BY <1>6, <4>3, <5>1
      <4> QED  BY <1>6, <4>1, <4>2, <4>3
    <3> QED  BY <3>1, <3>2
  <2> QED  BY <1>6, <1>7, <2>1, <2>2, <2>3 DEF ReplyState
<1>10. LedgerState'
  BY <1>5, <1>7 DEF EsiInv, LedgerState
<1>11. CallState'
  <2> SUFFICES ASSUME NEW q \in Requests, pc'[q] \in {"sent", "answered"}
               PROVE  reservation'[q] = [group |-> ServerGroup(q),
                                         tokens |-> MAX_REQUEST_COST]
    BY DEF CallState
  <2>1. pc[q] \in {"sent", "answered"}
    BY <1>2, <1>8
  <2> QED  BY <1>1, <1>5, <2>1 DEF CallState
<1>12. ASSUME NEW I \in SUBSET Requests, IsFiniteSet(I), r \notin I
       PROVE  /\ TokenSum(Used', I) = TokenSum(Used, I)
              /\ TokenSum(Used, I \cup {r}) = TokenSum(Used, I) + h.used
              /\ TokenSum(Used, I) \in Nat
  <2>1. Used \in [Requests -> Nat]
    BY <1>1, CallSums
  <2>2. \A q \in Requests : q # r => Used'[q] = Used[q]
    BY <1>7 DEF Used
  <2>3. \A q \in I : Used'[q] = Used[q]
    BY <1>12, <2>2
  <2>4. TokenSum(Used', I) = TokenSum(Used, I)
    BY ONLY <2>3, TokenSumSame
  <2>5. TokenSum(Used, I \cup {r}) = TokenSum(Used, I) + Used[r]
    BY <1>12, <2>1, TokenSumAdd
  <2>6. TokenSum(Used, I) \in Nat
    BY <1>12, <2>1, TokenSumType
  <2> QED  BY <1>2, <2>4, <2>5, <2>6
<1>13. /\ \A g : g # g0 => r \notin Pending(g) /\ Pending(g)' = Pending(g)
       /\ Pending(g0) = Pending(g0)' \cup {r} /\ r \notin Pending(g0)'
       /\ \A g : Pending(g)' \in SUBSET Requests /\ IsFiniteSet(Pending(g)')
  <2>1. \A q \in Requests : q # r => (reply'[q] # None <=> reply[q] # None)
    BY <1>7
  <2>2. \A g : Pending(g)' \in SUBSET Requests
    BY DEF Pending
  <2> QED  BY <1>1, <1>7, <2>1, <2>2, RequestsAssumption, FS_Subset DEF Pending, g0
<1>14. /\ \A g : g # g0 => Unrecorded(g)' = Unrecorded(g)
       /\ Unrecorded(g0) = Unrecorded(g0)' + h.used
       /\ Unrecorded(g0)' \in Nat
       /\ Unrecorded(g0)' = TokenSum(Used, Pending(g0)')
  <2>1. ASSUME NEW g, g # g0  PROVE Unrecorded(g)' = Unrecorded(g)
    BY <1>12, <1>13, <2>1 DEF Unrecorded
  <2>2. /\ TokenSum(Used', Pending(g0)') = TokenSum(Used, Pending(g0)')
        /\ TokenSum(Used, Pending(g0)' \cup {r}) = TokenSum(Used, Pending(g0)') + h.used
        /\ TokenSum(Used, Pending(g0)') \in Nat
    BY <1>12, <1>13
  <2> QED  BY <1>13, <2>1, <2>2 DEF Unrecorded
<1>15. After(r) = Pending(g0)'
  <2>1. After(r) = {q \in Pending(g0) :
                      \E i, j \in 1 .. n : i < j /\ answered[i] = r /\ answered[j] = q}
    BY <1>6 DEF After, g0
  <2>2. ASSUME NEW q \in Pending(g0)'
        PROVE  \E i, j \in 1 .. n : i < j /\ answered[i] = r /\ answered[j] = q
    <3>1. q \in Requests /\ reply[q] # None /\ q # r
      BY <1>1, <1>7, <1>13, <2>2 DEF Pending
    <3>2. PICK j \in 1 .. n : answered[j] = q
      BY <1>6, <3>1
    <3>3. 1 \in 1 .. n /\ j # 1 /\ 1 < j
      BY <1>1, <1>6, <3>1, <3>2
    <3> QED  BY <1>1, <3>2, <3>3
  <2>3. ASSUME NEW i \in 1 .. n, NEW j \in 1 .. n, i < j, answered[i] = r,
               answered[j] = r
        PROVE  FALSE
    BY <1>6, <2>3
  <2> QED  BY <1>13, <2>1, <2>2, <2>3
<1> DEFINE S == Spent(g0)
           s == SpentSince(b.spends, now - w + 1)
           U == Unrecorded(g0)
           V == Unrecorded(g0)'
<1>16. /\ h.remaining + S = M + V /\ S = s + U /\ U = V + h.used
       /\ S \in Nat /\ s \in Nat /\ V \in Nat /\ M \in Nat /\ S <= M
       /\ Left(g0) = M - S
  <2>1. h.remaining + S = M + TokenSum(Used, After(r))
    BY <1>1 DEF EsiInv, RepliesCurrent, g0, h
  <2>2. /\ S = s + U /\ S \in Nat /\ s \in Nat /\ M \in Nat /\ S <= M
        /\ Left(g0) = M - S
    BY <1>3, <1>4, LedgerSpent DEF EsiInv
  <2> QED  BY <1>14, <1>15, <2>1, <2>2
<1>17. h.remaining <= M
  <2> HIDE DEF S, s, U, V, M
  <2> QED  BY <1>2, <1>16
<1>18. /\ c.max_tokens = M /\ c.window = w /\ c.blocked_until = None
       /\ c.observed # None /\ c.observed.remaining = h.remaining
       /\ \A t \in Int : t > now - w =>
            SpentSince(c.spends, t)
              = SpentSince(b.spends, t) + (IF t <= now THEN h.used ELSE 0)
       /\ SpentSince(c.spends, 0) = s + h.used
       /\ Balance(Settle(c, now)) = h.remaining
  <2>1. h.limit = [max_tokens |-> b.max_tokens, window |-> b.window]
    BY <1>2, <1>3, <1>4, BudgetOfGroup
  <2>2. ~ h.rate_limited /\ h.remaining <= b.max_tokens
    BY <1>2, <1>4, <1>17
  <2> HIDE DEF b, M, w
  <2> QED  BY <1>2, <1>4, <2>1, <2>2, RecordedPaid
<1> HIDE DEF c
<1>19. /\ \A g \in Groups : g # g0 => BucketOf(g)' = BucketOf(g)
       /\ BucketOf(g0)' = c
  <2>1. /\ \A g \in Groups : g # g0 => buckets'[g] = buckets[g]
        /\ buckets'[g0] = c
    BY <1>1, <1>3, <1>5 DEF TypeOK
  <2>2. c # None
    BY <1>4, <1>2, RecordedType, NoneAssumption DEF c, Instant
  <2> QED  BY <2>1, <2>2 DEF BucketOf
<1>20. LimiterState'
  <2>1. ASSUME NEW g \in Groups
        PROVE  /\ BucketOf(g)'.max_tokens = BudgetOf(g).max_tokens
               /\ BucketOf(g)'.window = BudgetOf(g).window
               /\ BucketOf(g)'.blocked_until = None
    BY <1>1, <1>18, <1>19 DEF LimiterState
  <2> QED  BY <1>1, <1>5, <2>1 DEF LimiterState
<1>21. ASSUME NEW g \in Groups  PROVE Books(g)'
  <2>1. Books(g)
    BY DEF EsiInv
  <2>2. \A q \in Requests : q # r => pc'[q] = pc[q] /\ reservation'[q] = reservation[q]
    BY <1>5, <1>8
  <2>3. CASE g # g0
    <3>1. Held(g)' = Held(g)
      BY <1>1, <2>2, <2>3, HeldChange DEF g0
    <3>2. Held(g) <= Balance(Settle(BucketOf(g), now))
      BY <2>1 DEF Books, HeldBelieved
    <3>3. BucketOf(g) \in BucketType
      BY BucketOfType DEF EsiInv
    <3> QED  BY <1>5, <1>7, <1>14, <1>19, <2>3, <3>1, <3>2, <3>3, BooksKept
  <2>4. CASE g = g0
    <3>1. QueueIsLedger(g)'
      <4> SUFFICES ASSUME NEW t \in Int, t > now - w
                   PROVE  SpentSince(ledger[g], t)
                            = SpentSince(c.spends, t) + (IF t <= now THEN V ELSE 0)
        BY <1>5, <1>7, <1>19, <2>4 DEF QueueIsLedger
      <4>1. SpentSince(ledger[g], t)
              = SpentSince(b.spends, t) + (IF t <= now THEN U ELSE 0)
        BY <2>1, <2>4 DEF Books, QueueIsLedger
      <4>2. SpentSince(b.spends, t) \in Nat
        BY <1>4, SpentSinceType
      <4>3. SpentSince(c.spends, t)
              = SpentSince(b.spends, t) + (IF t <= now THEN h.used ELSE 0)
        BY <1>18
      <4> DEFINE x == SpentSince(b.spends, t)
      <4> HIDE DEF x, U, V, b, w
      <4> QED  BY <1>2, <1>4, <1>16, <4>1, <4>2, <4>3 DEF x
    <3>2. Fits(BucketOf(g))'
      <4>1. c.observed.remaining + SpentSince(c.spends, 0) <= c.max_tokens
        <5>1. /\ c.observed.remaining = h.remaining /\ c.max_tokens = M
              /\ SpentSince(c.spends, 0) = s + h.used
          BY <1>18
        <5> HIDE DEF S, s, U, V, M
        <5>2. h.remaining + (s + h.used) <= M
          BY <1>2, <1>16
        <5> QED  BY <5>1, <5>2
      <4> QED  BY <1>19, <2>4, <4>1 DEF Fits
    <3>3. HeldBelieved(g)'
      <4>1. Held(g) = Held(g)' + MAX_REQUEST_COST
        <5>1. ServerGroup(r) = g /\ pc[r] = "sent" /\ pc'[r] # "sent"
          BY <1>2, <1>8, <2>4 DEF g0
        <5>2. Held(g) = Held(g)' + reservation[r].tokens
          BY <1>1, <2>2, <5>1, HeldChange
        <5> QED  BY <1>4, <5>2
      <4>2. Held(g)' \in Nat
        <5>1. /\ Tokens' \in [Requests -> Nat] /\ Sent(g)' \in SUBSET Requests
              /\ Held(g)' = TokenSum(Tokens', Sent(g)')
          BY DEF Tokens, TypeOK, ReservationType, Sent, Held
        <5> QED  BY <5>1, RequestsAssumption, FS_Subset, TokenSumType
      <4>3. /\ Balance(Settle(b, now)) \in Nat
            /\ Balance(Settle(b, now)) <= M - S + U
            /\ Held(g) <= Balance(Settle(b, now))
        BY <1>3, <1>16, <2>1, <2>4, BeliefBounded DEF EsiInv, Books, HeldBelieved
      <4>4. Held(g)' <= h.remaining
        <5> DEFINE B == Balance(Settle(b, now))
        <5> HIDE DEF S, s, U, V, M, B
        <5> QED  BY <1>2, <1>16, <4>1, <4>2, <4>3, CostAssumption DEF B
      <4> QED  BY <1>5, <1>18, <1>19, <2>4, <4>4 DEF HeldBelieved
    <3>4. LedgerFits(g)'
      BY <1>5, <1>7, <2>1 DEF Books, LedgerFits, Spent
    <3> QED  BY <3>1, <3>2, <3>3, <3>4 DEF Books
  <2> QED  BY <2>3, <2>4
<1>22. RepliesCurrent'
  <2> SUFFICES ASSUME NEW q \in Requests, reply'[q] # None
               PROVE  reply'[q].header.remaining + Spent(ServerGroup(q))'
                        = BudgetOf(ServerGroup(q)).max_tokens
                            + TokenSum(Used', After(q)')
    BY DEF RepliesCurrent
  <2>1. q # r /\ reply'[q] = reply[q] /\ reply[q] # None
    BY <1>7
  <2>2. reply[q].header.remaining + Spent(ServerGroup(q))
          = BudgetOf(ServerGroup(q)).max_tokens + TokenSum(Used, After(q))
    BY <2>1 DEF EsiInv, RepliesCurrent
  <2>3. Spent(ServerGroup(q))' = Spent(ServerGroup(q))
    BY <1>5, <1>7 DEF Spent
  <2>4. After(q)' = {p \in Pending(ServerGroup(q))' :
                       \E i, j \in 1 .. n - 1 :
                         i < j /\ answered'[i] = q /\ answered'[j] = p}
    BY <1>6 DEF After
  <2>5. After(q) = {p \in Pending(ServerGroup(q)) :
                      \E i, j \in 1 .. n : i < j /\ answered[i] = q /\ answered[j] = p}
    BY <1>6 DEF After
  <2>6. ASSUME NEW p \in Requests
        PROVE  (\E i, j \in 1 .. n - 1 : i < j /\ answered'[i] = q /\ answered'[j] = p)
                 <=> (\E i, j \in 1 .. n : i < j /\ answered[i] = q /\ answered[j] = p)
    <3>1. ASSUME NEW i \in 1 .. n - 1, NEW j \in 1 .. n - 1,
                 i < j, answered'[i] = q, answered'[j] = p
          PROVE  /\ i + 1 \in 1 .. n /\ j + 1 \in 1 .. n /\ i + 1 < j + 1
                 /\ answered[i + 1] = q /\ answered[j + 1] = p
      BY <1>6, <3>1
    <3>2. ASSUME NEW i \in 1 .. n, NEW j \in 1 .. n,
                 i < j, answered[i] = q, answered[j] = p
          PROVE  /\ i - 1 \in 1 .. n - 1 /\ j - 1 \in 1 .. n - 1 /\ i - 1 < j - 1
                 /\ answered'[i - 1] = q /\ answered'[j - 1] = p
      <4>1. i # 1 /\ j # 1
        BY <1>1, <1>6, <2>1, <3>2
      <4>2. /\ i - 1 \in 1 .. n - 1 /\ j - 1 \in 1 .. n - 1 /\ i - 1 < j - 1
            /\ (i - 1) + 1 = i /\ (j - 1) + 1 = j
        BY <1>6, <3>2, <4>1
      <4>3. answered'[i - 1] = answered[i] /\ answered'[j - 1] = answered[j]
        BY <1>6, <4>2
      <4> QED  BY <3>2, <4>2, <4>3
    <3> QED  BY <3>1, <3>2
  <2>7. r \notin After(q)
    <3> SUFFICES ASSUME NEW i \in 1 .. n, NEW j \in 1 .. n,
                        i < j, answered[j] = r
                 PROVE  FALSE
      BY <2>5
    <3>1. j = 1
      BY <1>1, <1>6
    <3> QED  BY <1>6, <3>1
  <2>8. After(q)' = After(q)
    <3>1. \A p \in Pending(ServerGroup(q))' : p \in Requests /\ p # r
      BY <1>13
    <3>2. \A p \in Pending(ServerGroup(q)) :
            p \in Requests /\ (p # r => p \in Pending(ServerGroup(q))')
      BY <1>7 DEF Pending
    <3>3. \A p \in Pending(ServerGroup(q))' : p \in Pending(ServerGroup(q))
      BY <1>13
    <3> QED  BY <2>4, <2>5, <2>6, <2>7, <3>1, <3>2, <3>3
  <2>9. After(q) \in SUBSET Requests /\ IsFiniteSet(After(q))
    <3>1. After(q) \in SUBSET Requests
      BY DEF After, Pending
    <3> QED  BY <3>1, RequestsAssumption, FS_Subset
  <2>10. TokenSum(Used', After(q)') = TokenSum(Used, After(q))
    BY <1>12, <2>7, <2>8, <2>9
  <2> QED  BY <2>1, <2>2, <2>3, <2>10
<1> QED  BY <1>9, <1>10, <1>11, <1>20, <1>21, <1>22 DEF Tallies

\* The ledger after a tick: what is a window old is gone.
LEMMA FreshLedger ==
  ASSUME SpecAgrees, TypeOK, LedgerState, now' = now + 1,
         ledger' = [g \in Groups |-> Ledger!Fresh(g, now + 1)]
  PROVE  /\ LedgerState'
         /\ \A g \in Groups : \A t \in Int :
              t > now + 1 - BudgetOf(g).window
                => SpentSince(ledger'[g], t) = SpentSince(ledger[g], t)
<1>1. now \in Nat /\ ledger \in [Groups -> Seq(Spend)]
  BY DEF TypeOK, Instant, LedgerState
<1>2. ASSUME NEW g \in Groups
      PROVE  /\ ledger'[g] \in Seq(Spend)
             /\ \A i, j \in DOMAIN ledger'[g] :
                  i <= j => ledger'[g][i].at <= ledger'[g][j].at
             /\ \A i \in DOMAIN ledger'[g] :
                  /\ ledger'[g][i].at <= now + 1
                  /\ now + 1 < ledger'[g][i].at + BudgetOf(g).window
             /\ \A t \in Int : t > now + 1 - BudgetOf(g).window
                  => SpentSince(ledger'[g], t) = SpentSince(ledger[g], t)
  <2> DEFINE q == ledger[g]
             w == BudgetOf(g).window
             n == Len(q)
             old == {i \in 1 .. n : q[i].at + w <= now + 1}
             k == Cardinality(old)
             rest == SubSeq(q, k + 1, n)
  <2>1. /\ q \in Seq(Spend) /\ n \in Nat /\ DOMAIN q = 1 .. n
        /\ \A i \in 1 .. n : q[i].at \in Nat
        /\ w \in Nat
        /\ \A i, j \in 1 .. n : i <= j => q[i].at <= q[j].at
        /\ \A i \in 1 .. n : q[i].at <= now /\ now < q[i].at + w
    <3>1. q \in Seq(Spend) /\ w \in Nat
      BY <1>1, BudgetOfGroup
    <3>2. n \in Nat /\ DOMAIN q = 1 .. n /\ \A i \in DOMAIN q : q[i].at \in Nat
      BY <3>1, QueueType
    <3>3. /\ \A i, j \in DOMAIN q : i <= j => q[i].at <= q[j].at
          /\ \A i \in DOMAIN q : q[i].at <= now /\ now < q[i].at + w
      BY DEF LedgerState
    <3> HIDE DEF n
    <3> QED  BY <3>1, <3>2, <3>3
  <2>2. ledger'[g] = rest
    <3>1. Ledger!Returned(g, now + 1) = {i \in DOMAIN q : q[i].at + w <= now + 1}
      BY DEF Ledger!Returned
    <3>2. Ledger!Returned(g, now + 1) = old
      BY <2>1, <3>1
    <3>3. Ledger!Fresh(g, now + 1) = rest
      BY <3>2, LedgerCounts DEF Ledger!Fresh
    <3> QED  BY <3>3
  <2> HIDE DEF q, w, n
  <2>3. old = 1 .. k /\ k \in 0 .. n
    <3>1. \A i \in old : \A j \in 1 .. i : j \in old
      <4> SUFFICES ASSUME NEW i \in old, NEW j \in 1 .. i
                   PROVE  j \in 1 .. n /\ q[j].at + w <= now + 1
        OBVIOUS
      <4>1. /\ i \in 1 .. n /\ j \in 1 .. n /\ j <= i
            /\ q[i].at + w <= now + 1
        BY <2>1
      <4> DEFINE x == q[i].at
                 y == q[j].at
      <4>2. x \in Nat /\ y \in Nat /\ y <= x /\ x + w <= now + 1
        BY <2>1, <4>1
      <4> HIDE DEF x, y
      <4>3. y + w <= now + 1
        BY <1>1, <2>1, <4>2
      <4> QED  BY <4>1, <4>3 DEF y
    <3>2. old \in SUBSET (1 .. n)
      OBVIOUS
    <3> HIDE DEF old
    <3> QED  BY <2>1, <3>1, <3>2, InitialInterval
  <2>4. \A i \in 1 .. n : i <= k <=> q[i].at + w <= now + 1
    <3> TAKE i \in 1 .. n
    <3>1. i \in old <=> q[i].at + w <= now + 1
      OBVIOUS
    <3> HIDE DEF old
    <3>2. i \in 1 .. k <=> i <= k
      BY <2>1, <2>3
    <3> QED  BY <2>3, <3>1, <3>2
  <2> HIDE DEF old, k
  <2>5. /\ rest \in Seq(Spend) /\ DOMAIN rest = 1 .. n - k
        /\ \A i \in 1 .. n - k : rest[i] = q[k + i] /\ k + i \in 1 .. n /\ k + i > k
    <3>1. k \in Int /\ k + 1 \in Int /\ n \in Int /\ k <= n /\ 0 <= k
      BY <2>1, <2>3
    <3>2. \A i \in k + 1 .. n : q[i] \in Spend
      BY <2>1, <3>1
    <3>3. /\ rest \in Seq(Spend)
          /\ Len(rest) = IF k + 1 <= n THEN n - (k + 1) + 1 ELSE 0
          /\ \A i \in 1 .. n - (k + 1) + 1 : rest[i] = q[k + 1 + i - 1]
      BY <3>1, <3>2, SubSeqProperties
    <3> HIDE DEF rest
    <3>4. Len(rest) = n - k /\ DOMAIN rest = 1 .. Len(rest)
      BY <3>1, <3>3
    <3>5. \A i \in 1 .. n - k : rest[i] = q[k + i] /\ k + i \in 1 .. n /\ k + i > k
      <4> TAKE i \in 1 .. n - k
      <4>1. i \in 1 .. n - (k + 1) + 1 /\ k + 1 + i - 1 = k + i
            /\ k + i \in 1 .. n /\ k + i > k
        BY <3>1
      <4> QED  BY <3>3, <4>1
    <3> QED  BY <3>3, <3>4, <3>5
  <2>6. ASSUME NEW t \in Int, t > now + 1 - w
        PROVE  SpentSince(rest, t) = SpentSince(q, t)
    <3>1. \A i \in 1 .. k : q[i].at < t
      <4> TAKE i \in 1 .. k
      <4>1. i \in 1 .. n /\ i <= k
        BY <2>1, <2>3
      <4> DEFINE x == q[i].at
      <4>2. x \in Nat /\ x + w <= now + 1
        BY <2>1, <2>4, <4>1
      <4> HIDE DEF x
      <4>3. x < t
        BY <1>1, <2>1, <2>6, <4>2
      <4> QED  BY <4>3 DEF x
    <3> QED  BY <2>1, <2>3, <3>1, SpentSinceRest DEF n
  <2> HIDE DEF rest
  <2>7. ASSUME NEW i \in 1 .. n - k
        PROVE  rest[i].at <= now + 1 /\ now + 1 < rest[i].at + w
    <3> DEFINE x == rest[i].at
    <3>1. x \in Nat /\ x <= now /\ ~ (x + w <= now + 1)
      BY <2>1, <2>3, <2>4, <2>5
    <3> HIDE DEF x
    <3>2. x <= now + 1 /\ now + 1 < x + w
      BY <1>1, <2>1, <3>1
    <3> QED  BY <3>2 DEF x
  <2>8. ASSUME NEW i \in 1 .. n - k, NEW j \in 1 .. n - k, i <= j
        PROVE  rest[i].at <= rest[j].at
    <3>1. k + i <= k + j
      BY <2>1, <2>3, <2>8
    <3> QED  BY <2>1, <2>5, <3>1
  <2> QED  BY <2>2, <2>5, <2>6, <2>7, <2>8 DEF q, w
<1>3. ledger' \in [Groups -> Seq(Spend)]
  BY <1>2
<1> QED  BY <1>2, <1>3 DEF LedgerState

\* The clock moves on: every answer is recorded, and spends grow old.
LEMMA TickTallies ==
  ASSUME SpecAgrees, MaxLatency = 0, EsiInv, EsiTick
  PROVE  Tallies'
<1>1. /\ now \in Nat /\ now' = now + 1 /\ buckets' = buckets /\ pc' = pc
      /\ reservation' = reservation /\ learned' = learned
      /\ reply' = reply /\ answered' = answered
      /\ ledger' = [g \in Groups |-> Ledger!Fresh(g, now + 1)]
      /\ TypeOK /\ BookkeepingOrdered
      /\ LimiterState /\ CallState /\ ReplyState /\ LedgerState
  BY DEF EsiTick, Tick, EsiInv, TypeOK, Instant
<1>t. now \in Nat /\ now' \in Nat /\ now' = now + 1
  BY <1>1
<1>2. \A r \in Requests : reply[r] = None
  <2> SUFFICES ASSUME NEW r \in Requests, reply[r] # None  PROVE FALSE
    OBVIOUS
  <2> DEFINE at == reply[r].at
  <2>1. at \in 0 .. now
    BY <1>1, ReplyUnderWay
  <2>2. now < at + MaxLatency
    BY DEF EsiTick
  <2> HIDE DEF at
  <2> QED  BY <1>1, <2>1, <2>2
<1>3. ASSUME NEW g
      PROVE  /\ BucketOf(g)' = BucketOf(g) /\ Held(g)' = Held(g)
             /\ Unrecorded(g) = 0 /\ Unrecorded(g)' = 0
  <2>1. BucketOf(g)' = BucketOf(g) /\ Tokens' = Tokens /\ Sent(g)' = Sent(g)
    BY <1>1 DEF BucketOf, Tokens, Sent
  <2>2. Pending(g) = {} /\ Pending(g)' = {}
    BY <1>1, <1>2 DEF Pending
  <2>3. Unrecorded(g) = 0 /\ Unrecorded(g)' = 0
    BY <2>2, TokenSumEmpty DEF Unrecorded
  <2> QED  BY <2>1, <2>3 DEF Held
<1>4. LimiterState'
  BY <1>1, <1>3 DEF LimiterState
<1>5. CallState'
  BY <1>1 DEF CallState
<1>6. ReplyState'
  BY <1>1, <1>2 DEF ReplyState
<1>7. RepliesCurrent'
  BY <1>1, <1>2 DEF RepliesCurrent
<1>8. LedgerState'
  BY <1>1, FreshLedger
<1>9. ASSUME NEW g \in Groups  PROVE Books(g)'
  <2> DEFINE b == BucketOf(g)
             w == BudgetOf(g).window
             M == BudgetOf(g).max_tokens
  <2>1. /\ b \in BucketType /\ Settleable(b, now)
        /\ b.max_tokens = M /\ b.window = w /\ b.blocked_until = None
        /\ w \in Nat /\ M \in Nat
    BY <1>1, BucketOfType, BudgetOfGroup
  <2>2. /\ QueueIsLedger(g) /\ Fits(b) /\ HeldBelieved(g) /\ LedgerFits(g)
        /\ SpentSince(b.spends, now - w + 1) <= M
    BY <2>1, LedgerSpent DEF EsiInv, Books
  <2>3. /\ Balance(Settle(b, now)) <= Balance(Settle(b, now + 1))
        /\ SpentSince(b.spends, now + 1 - w + 1) <= M
    <3>1. now + 1 \in Nat /\ now <= now + 1
      BY <1>1
    <3> HIDE DEF b, w, M
    <3> QED  BY <1>1, <2>1, <2>2, <3>1, BalanceGrows
  <2>4. \A t \in Int : t > now + 1 - w
          => SpentSince(ledger'[g], t) = SpentSince(b.spends, t)
    <3> TAKE t \in Int
    <3> HAVE t > now + 1 - w
    <3>1. SpentSince(ledger'[g], t) = SpentSince(ledger[g], t)
      BY <1>1, FreshLedger
    <3>2. t > now - w
      <4> HIDE DEF w
      <4> QED  BY <1>1, <2>1
    <3>3. SpentSince(ledger[g], t)
            = SpentSince(b.spends, t) + (IF t <= now THEN 0 ELSE 0)
      BY <1>3, <2>2, <3>2 DEF QueueIsLedger
    <3>4. SpentSince(b.spends, t) \in Nat
      <4>1. b.spends \in Seq(Spend)
        BY <2>1 DEF BucketType
      <4> QED  BY <4>1, SpentSinceType
    <3> DEFINE x == SpentSince(b.spends, t)
    <3> HIDE DEF x
    <3>5. x + (IF t <= now THEN 0 ELSE 0) = x
      BY <3>4 DEF x
    <3> QED  BY <3>1, <3>3, <3>5 DEF x
  <2>5. QueueIsLedger(g)'
    <3> SUFFICES ASSUME NEW t \in Int, t > now' - w
                 PROVE  SpentSince(ledger'[g], t) = SpentSince(b.spends, t)
                          + (IF t <= now' THEN 0 ELSE 0)
      BY <1>3 DEF QueueIsLedger
    <3>1. t > now + 1 - w
      <4> HIDE DEF w
      <4> QED  BY <1>t, <2>1
    <3>4. SpentSince(ledger'[g], t) = SpentSince(b.spends, t)
      BY <2>4, <3>1
    <3>2. SpentSince(b.spends, t) \in Nat
      <4>1. b.spends \in Seq(Spend)
        BY <2>1 DEF BucketType
      <4> QED  BY <4>1, SpentSinceType
    <3> DEFINE x == SpentSince(b.spends, t)
    <3> HIDE DEF x
    <3>3. x + (IF t <= now' THEN 0 ELSE 0) = x
      BY <3>2 DEF x
    <3> QED  BY <3>3, <3>4 DEF x
  <2>6. Fits(BucketOf(g))'
    BY <1>3, <2>2 DEF Fits
  <2>7. HeldBelieved(g)'
    <3>1. Held(g) <= Balance(Settle(b, now)) /\ Held(g) \in Nat
      BY <1>1, <2>2, CallSums DEF HeldBelieved
    <3>2. Balance(Settle(b, now)) \in Nat
      BY <1>1, <2>1, <2>2, SettledBalance
    <3>3. Balance(Settle(b, now + 1)) \in Nat
      BY <1>1, <2>1, <2>2, <2>3, SettledBalance
    <3> DEFINE x == Balance(Settle(b, now))
               y == Balance(Settle(b, now + 1))
    <3> HIDE DEF x, y
    <3>4. Held(g) <= y
      BY <2>3, <3>1, <3>2, <3>3 DEF x, y
    <3> QED  BY <1>1, <1>3, <3>4 DEF HeldBelieved, y
  <2>8. LedgerFits(g)'
    <3>1. now + 1 - w + 1 \in Int /\ now + 1 - w + 1 > now + 1 - w
      <4> HIDE DEF w
      <4> QED  BY <1>1, <2>1
    <3>2. SpentSince(ledger'[g], now + 1 - w + 1) <= M
      BY <2>3, <2>4, <3>1
    <3>3. SpentSince(ledger'[g], now' - w + 1) <= M
      <4>1. now' - w + 1 = now + 1 - w + 1
        <5> HIDE DEF w
        <5> QED  BY <1>t, <2>1
      <4> DEFINE u == now + 1 - w + 1
      <4>2. SpentSince(ledger'[g], u) <= M /\ now' - w + 1 = u
        BY <3>2, <4>1
      <4> HIDE DEF u
      <4> QED  BY <4>2
    <3> QED  BY <3>3 DEF LedgerFits, Spent
  <2> QED  BY <2>5, <2>6, <2>7, <2>8 DEF Books
<1> QED  BY <1>4, <1>5, <1>6, <1>7, <1>8, <1>9 DEF Tallies

-----------------------------------------------------------------------------
(* The invariant is inductive. *)

\* Nothing is spent from an empty queue.
LEMMA NothingSpent ==
  ASSUME NEW t
  PROVE  SpentSince(<< >>, t) = 0
<1>1. DOMAIN << >> = {}
  OBVIOUS
<1>2. {i \in DOMAIN << >> : << >>[i].at >= t} = {}
  BY <1>1
<1> QED  BY <1>1, <1>2, TokenSumEmpty DEF SpentSince

LEMMA EsiInvInit ==
  ASSUME SpecAgrees, EsiInit
  PROVE  EsiInv
<1>1. /\ Init /\ now = 0 /\ TypeOK /\ InFlightConserved /\ BookkeepingOrdered
      /\ buckets = [g \in Groups |-> None] /\ learned = [o \in Operations |-> None]
      /\ pc = [r \in Requests |-> "idle"]
      /\ ledger = [g \in Groups |-> << >>] /\ reply = [r \in Requests |-> None]
      /\ answered = << >>
  BY TypeInit, ConservedInit, DeductsInit DEF EsiInit, Init
<1>2. \A r \in Requests : reply[r] = None /\ pc[r] = "idle"
  BY <1>1
<1>3. \A g \in Groups : BucketOf(g) = NewBucket(BudgetOf(g)) /\ ledger[g] = << >>
  BY <1>1 DEF BucketOf
<1>4. ASSUME NEW g \in Groups
      PROVE  /\ BucketOf(g).max_tokens = BudgetOf(g).max_tokens
             /\ BucketOf(g).window = BudgetOf(g).window
             /\ BucketOf(g).blocked_until = None
             /\ BucketOf(g).observed = None /\ BucketOf(g).spends = << >>
  BY <1>3 DEF NewBucket
<1>5. LimiterState
  BY <1>1, <1>4 DEF LimiterState
<1>6. CallState
  BY <1>2 DEF CallState
<1>7. ReplyState
  <2>1. answered \in Seq(Requests) /\ Len(answered) = 0
    BY <1>1
  <2>2. reply \in [Requests -> Option(ReplyType)]
    BY <1>1 DEF Option
  <2> QED  BY <1>2, <2>1, <2>2 DEF ReplyState
<1>8. LedgerState
  <2>1. << >> \in Seq(Spend) /\ DOMAIN << >> = {}
    OBVIOUS
  <2>2. ledger \in [Groups -> Seq(Spend)] /\ \A g \in Groups : DOMAIN ledger[g] = {}
    BY <1>1, <2>1
  <2> QED  BY <2>2 DEF LedgerState
<1>9. RepliesCurrent
  BY <1>2 DEF RepliesCurrent
<1>10. ASSUME NEW g \in Groups  PROVE Books(g)
  <2>1. Held(g) = 0 /\ Unrecorded(g) = 0
    <3>1. Sent(g) = {} /\ Pending(g) = {}
      BY <1>2 DEF Sent, Pending
    <3> QED  BY <3>1, TokenSumEmpty DEF Held, Unrecorded
  <2>2. QueueIsLedger(g)
    <3> SUFFICES ASSUME NEW t \in Int
                 PROVE  SpentSince(<< >>, t) = SpentSince(<< >>, t)
                                              + (IF t <= now THEN 0 ELSE 0)
      BY <1>3, <1>4, <2>1 DEF QueueIsLedger
    <3> QED  BY NothingSpent
  <2>3. Fits(BucketOf(g))
    BY <1>4 DEF Fits
  <2>4. HeldBelieved(g)
    <3>1. BucketOf(g) \in BucketType /\ now \in Nat
      BY <1>1, <1>5, BucketOfType
    <3>2. Settle(BucketOf(g), now) \in BucketType
      BY <3>1, SettleType DEF Instant
    <3>3. Balance(Settle(BucketOf(g), now)) \in Nat
      BY <3>2, AvailableType
    <3> DEFINE x == Balance(Settle(BucketOf(g), now))
    <3>4. x \in Nat
      BY <3>3
    <3> HIDE DEF x
    <3>5. 0 <= x
      BY <3>4
    <3> QED  BY <2>1, <3>5 DEF HeldBelieved, x
  <2>5. LedgerFits(g)
    <3>1. Spent(g) = 0
      BY <1>3, NothingSpent DEF Spent
    <3>2. BudgetOf(g).max_tokens \in Nat
      BY BudgetOfGroup
    <3> QED  BY <3>1, <3>2 DEF LedgerFits
  <2> QED  BY <2>2, <2>3, <2>4, <2>5 DEF Books
<1> QED  BY <1>1, <1>5, <1>6, <1>7, <1>8, <1>9, <1>10 DEF EsiInv

\* What a step of the whole can be, when the client is alone and the network
\* keeps up: ESI has nothing to refuse, and nothing is lost.
LEMMA EsiSteps ==
  ASSUME OneClient, EsiInv, EsiNext
  PROVE  \/ EsiTick
         \/ \E r \in Requests :
              \/ Acquire(r) /\ UNCHANGED esiVars
              \/ Finish(r) /\ UNCHANGED esiVars
              \/ pc[r] = "waiting" /\ Cancel(r) /\ UNCHANGED esiVars
              \/ \E cost \in Costs : Serve(r, cost)
              \/ Deliver(r)
<1>1. SpecAgrees /\ ~ Lossy /\ OtherCosts = {}
  BY DEF OneClient, PromptNetwork
<1>2. ASSUME NEW r \in Requests, Refuse(r)  PROVE FALSE
  <2> DEFINE g == ServerGroup(r)
  <2>1. pc[r] = "sent" /\ reply[r] = None /\ Left(g) = 0
    BY <1>2 DEF Refuse
  <2>2. g \in Groups
    BY <1>1, GroupOfCall
  <2>3. reservation[r].group = g
    BY <2>1, CallOut DEF EsiInv
  <2>4. r \in Unanswered(g)
    BY <2>1, <2>3 DEF Unanswered, Live
  <2> HIDE DEF g
  <2>5. MAX_REQUEST_COST <= Left(g)
    BY <1>1, <2>2, <2>4, OpenCallsCovered
  <2> QED  BY <2>1, <2>5, CostAssumption
<1>3. \A r \in Requests : ~ Lose(r)
  BY <1>1 DEF Lose
<1>4. ~ \E g \in Groups, cost \in OtherCosts : Share(g, cost)
  BY <1>1
<1> QED  BY <1>2, <1>3, <1>4 DEF EsiNext, EsiStep, GiveUp

\* Every step is one of the limiter's, which keeps what RateLimiter_proofs
\* proves of it.
LEMMA EsiStepsLimiter ==
  ASSUME OneClient, EsiInv, [EsiNext]_<<vars, esiVars>>
  PROVE  [AnyStep]_vars
<1>1. CASE UNCHANGED <<vars, esiVars>>
  BY <1>1
<1>2. CASE EsiNext
  <2>1. CASE EsiTick
    BY <2>1 DEF EsiTick, AnyStep
  <2>2. ASSUME NEW r \in Requests,
               Acquire(r) \/ Finish(r) \/ Cancel(r)
        PROVE  AnyStep
    BY <2>2 DEF AnyStep
  <2>3. ASSUME NEW r \in Requests, NEW cost \in Costs, Serve(r, cost)
        PROVE  UNCHANGED vars
    BY <2>3 DEF Serve
  <2>4. ASSUME NEW r \in Requests, Deliver(r)  PROVE AnyStep
    <3>1. reply[r] # None /\ reply[r] \in Option(ReplyType)
      BY <2>4 DEF Deliver, EsiInv, ReplyState
    <3>2. reply[r].header \in Header
      BY <3>1 DEF Option, ReplyType
    <3>3. Respond(r, reply[r].header)
      BY <2>4 DEF Deliver
    <3> QED  BY <3>2, <3>3 DEF AnyStep
  <2> QED  BY <1>2, <2>1, <2>2, <2>3, <2>4, EsiSteps
<1> QED  BY <1>1, <1>2

LEMMA EsiInvNext ==
  ASSUME OneClient, EsiInv, [EsiNext]_<<vars, esiVars>>
  PROVE  EsiInv'
<1>1. SpecAgrees /\ MaxLatency = 0 /\ Ordered
  BY DEF OneClient, PromptNetwork
<1>2. TypeOK' /\ InFlightConserved' /\ BookkeepingOrdered'
  <2>1. TypeOK /\ InFlightConserved /\ BookkeepingOrdered
    BY DEF EsiInv
  <2> QED  BY <2>1, EsiStepsLimiter, TypeNext, ConservedNext, DeductsNext
<1>3. Tallies'
  <2>1. CASE UNCHANGED <<vars, esiVars>>
    <3>1. /\ now' = now /\ buckets' = buckets /\ learned' = learned /\ pc' = pc
          /\ reservation' = reservation
          /\ ledger' = ledger /\ reply' = reply /\ answered' = answered
      BY <2>1 DEF vars, esiVars
    <3>2. Tallies
      BY DEF EsiInv, Tallies
    <3>3. Tokens' = Tokens /\ Used' = Used
      BY <3>1 DEF Tokens, Used
    <3>4. ASSUME NEW g
          PROVE  /\ BucketOf(g)' = BucketOf(g) /\ Sent(g)' = Sent(g)
                 /\ Pending(g)' = Pending(g) /\ Spent(g)' = Spent(g)
      BY <3>1 DEF BucketOf, Sent, Pending, Spent
    <3>5. ASSUME NEW g
          PROVE  Held(g)' = Held(g) /\ Unrecorded(g)' = Unrecorded(g)
      BY <3>3, <3>4 DEF Held, Unrecorded
    <3>6. LimiterState' /\ CallState' /\ ReplyState' /\ LedgerState'
      BY <3>1, <3>2, <3>4 DEF Tallies, LimiterState, CallState, ReplyState, LedgerState
    <3>7. ASSUME NEW g \in Groups  PROVE Books(g)'
      <4>1. Books(g)
        BY <3>2 DEF Tallies
      <4> QED  BY <4>1, <3>1, <3>4, <3>5 DEF Books, QueueIsLedger, Fits,
                 HeldBelieved, LedgerFits
    <3>8. RepliesCurrent'
      <4>1. \A r : After(r)' = After(r)
        BY <3>1, <3>4 DEF After
      <4> QED  BY <4>1, <3>1, <3>2, <3>3, <3>4 DEF Tallies, RepliesCurrent
    <3> QED  BY <3>6, <3>7, <3>8 DEF Tallies
  <2>2. CASE EsiTick
    BY <1>1, <2>2, TickTallies
  <2>3. ASSUME NEW r \in Requests, Acquire(r), UNCHANGED esiVars  PROVE Tallies'
    BY <1>1, <1>2, <2>3, AcquireTallies
  <2>4. ASSUME NEW r \in Requests, UNCHANGED esiVars,
               Finish(r) \/ (pc[r] = "waiting" /\ Cancel(r))
        PROVE  Tallies'
    <3>1. pc[r] \in {"waiting", "answered"} /\ GiveBack(r)
      BY <2>4 DEF Finish, Cancel
    <3> QED  BY <1>1, <1>2, <2>4, <3>1, ReturnTallies
  <2>5. ASSUME NEW r \in Requests, NEW cost \in Costs, Serve(r, cost)  PROVE Tallies'
    BY <1>1, <2>5, ServeTallies
  <2>6. ASSUME NEW r \in Requests, Deliver(r)  PROVE Tallies'
    BY <1>1, <1>2, <2>6, DeliverTallies
  <2> QED  BY <2>1, <2>2, <2>3, <2>4, <2>5, <2>6, EsiSteps
<1> QED  BY <1>2, <1>3 DEF EsiInv, Tallies

\* A step of the whole is a step of the ledger's specification, or leaves it
\* alone.
LEMMA StepsInBudget ==
  ASSUME OneClient, EsiInv, [EsiNext]_<<vars, esiVars>>
  PROVE  [Ledger!WBNext]_<<now, ledger>>
<1>1. SpecAgrees
  BY DEF OneClient
<1>2. CASE UNCHANGED <<vars, esiVars>>
  BY <1>2 DEF vars, esiVars
<1>3. CASE EsiTick
  <2>1. now' = now + 1 /\ ledger' = [g \in Groups |-> Ledger!Fresh(g, now + 1)]
    BY <1>3 DEF EsiTick, Tick
  <2> QED  BY <2>1 DEF Ledger!WBNext, Ledger!Pass
<1>4. ASSUME NEW r \in Requests, NEW cost \in Costs, Serve(r, cost)
      PROVE  Ledger!WBNext
  <2> DEFINE g == ServerGroup(r)
             limits == [h \in Groups |-> BudgetOf(h)]
  <2>1. /\ g \in Groups /\ Spent(g) + cost <= BudgetOf(g).max_tokens
        /\ limits[g] = BudgetOf(g)
    BY <1>1, <1>4, ServePays
  <2>2. Ledger!Spent(ledger[g]) = Spent(g)
    BY <1>1, <2>1, LedgerSpent DEF EsiInv
  <2>3. ledger' = Charged(g, cost) /\ now' = now
    BY <1>4 DEF Serve, vars
  <2> HIDE DEF g
  <2>4. Ledger!Pay(g, cost)
    BY <2>1, <2>2, <2>3 DEF Ledger!Pay, Charged
  <2> QED  BY <2>1, <2>4 DEF Ledger!WBNext
<1>5. ASSUME NEW r \in Requests, Deliver(r)
      PROVE  UNCHANGED <<now, ledger>>
  BY <1>5 DEF Deliver, Respond, Forgotten
<1>6. ASSUME NEW r \in Requests, UNCHANGED esiVars,
             Acquire(r) \/ Finish(r) \/ Cancel(r)
      PROVE  UNCHANGED <<now, ledger>>
  BY <1>6 DEF Acquire, Proceed, Reserve, Sleep, Finish, Cancel, GiveBack, esiVars
<1> QED  BY <1>2, <1>3, <1>4, <1>5, <1>6, EsiSteps

-----------------------------------------------------------------------------
(***************************************************************************)
(* "A client's own traffic therefore never drives a bucket into 429, even  *)
(* with concurrent requests" (src/src/rate_limit.rs): on a network that    *)
(* keeps up, with the buckets to itself, a client of any number of calls   *)
(* is never refused by ESI.                                                *)
(***************************************************************************)
THEOREM OwnTrafficNeverLimits ==
  ASSUME OneClient
  PROVE  EsiSpec => []NeverRateLimited
<1>1. EsiInit => EsiInv
  BY EsiInvInit DEF OneClient
<1>2. EsiInv /\ [EsiNext]_<<vars, esiVars>> => EsiInv'
  BY EsiInvNext
<1>3. EsiInv => NeverRateLimited
  BY InvCovers DEF OneClient
<1> QED  BY <1>1, <1>2, <1>3, PTL DEF EsiSpec

(***************************************************************************)
(* The reason: what acquire would let a new call spend and what it holds   *)
(* for calls ESI has not answered is always covered by ESI's own ledger.   *)
(***************************************************************************)
THEOREM BeliefIsCovered ==
  ASSUME OneClient
  PROVE  EsiSpec => []BeliefCovered
<1>1. EsiInit => EsiInv
  BY EsiInvInit DEF OneClient
<1>2. EsiInv /\ [EsiNext]_<<vars, esiVars>> => EsiInv'
  BY EsiInvNext
<1>3. EsiInv => BeliefCovered
  BY InvCovers DEF OneClient
<1> QED  BY <1>1, <1>2, <1>3, PTL DEF EsiSpec

(***************************************************************************)
(* The client and ESI together implement the promise of the module's doc:  *)
(* every response is paid for in full by what its bucket holds, and spends *)
(* come back a window later.                                               *)
(***************************************************************************)
THEOREM ImplementsWindowedBudget ==
  ASSUME OneClient
  PROVE  EsiSpec => StaysInBudget
<1>1. EsiInit => EsiInv
  BY EsiInvInit DEF OneClient
<1>2. EsiInv /\ [EsiNext]_<<vars, esiVars>> => EsiInv'
  BY EsiInvNext
<1>3. EsiInit => Ledger!WBInit
  BY DEF EsiInit, Init, Ledger!WBInit
<1>4. EsiInv /\ [EsiNext]_<<vars, esiVars>> => [Ledger!WBNext]_<<now, ledger>>
  BY StepsInBudget
<1> QED  BY <1>1, <1>2, <1>3, <1>4, PTL DEF EsiSpec, StaysInBudget, Ledger!WBSpec
=============================================================================
