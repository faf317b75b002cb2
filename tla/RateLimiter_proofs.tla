------------------------ MODULE RateLimiter_proofs ------------------------
(***************************************************************************)
(* Theorems of RateLimiter, for every number of calls, operations and      *)
(* groups, every budget and window, every server and every bound.          *)
(***************************************************************************)
EXTENDS RateLimiter, FiniteSetTheorems, SequenceTheorems, TLAPS

-----------------------------------------------------------------------------
(***************************************************************************)
(* A supporting invariant, of the client's own clock only: spends are      *)
(* queued in the order in which they were recorded, and none was recorded  *)
(* after the observation that is kept.  It says nothing about ESI: whether *)
(* ESI had charged for a spend when it gave the figure observed is the     *)
(* matter of BeliefCovered (RateLimitedEsi).                               *)
(***************************************************************************)
InOrder(b, t) ==
  /\ \A i, j \in DOMAIN b.spends : i <= j => b.spends[i].at <= b.spends[j].at
  /\ \A i \in DOMAIN b.spends : b.spends[i].at <= t

ObservationIsNewest(b, t) ==
  b.observed # None =>
    /\ b.observed.at <= t
    /\ b.observed.remaining <= b.max_tokens
    /\ \A i \in DOMAIN b.spends : b.spends[i].at <= b.observed.at

BookkeepingOrdered ==
  \A g \in Groups :
    buckets[g] # None =>
      InOrder(buckets[g], now) /\ ObservationIsNewest(buckets[g], now)

-----------------------------------------------------------------------------
(* Sums of tokens. *)

\* A set of naturals has a least element.
LEMMA LeastNatural ==
  ASSUME NEW S \in SUBSET Nat, S # {}
  PROVE  \E m \in S : \A n \in S : m <= n
<1> DEFINE R == OpToRel(<, Nat)
<1>1. IsWellFoundedOn(R, Nat)
  BY NatLessThanWellFounded
<1>2. PICK m \in S : \A n \in S : ~ (<<n, m>> \in R)
  <2> HIDE DEF R
  <2> QED  BY <1>1, WFMin
<1>3. \A n \in S : ~ (n < m)
  BY <1>2 DEF OpToRel
<1> QED  BY <1>3

\* The single tokens a sum counts are finitely many.
LEMMA TokensFinite ==
  ASSUME NEW S, NEW f \in [S -> Nat], NEW I \in SUBSET S, IsFiniteSet(I)
  PROVE  IsFiniteSet(UNION {{i} \X (1 .. f[i]) : i \in I})
<1> DEFINE Block(i) == {i} \X (1 .. f[i])
           T == {Block(i) : i \in I}
           g == [i \in I |-> Block(i)]
<1>1. IsFiniteSet(T)
  <2>1. g \in Surjection(I, T)  BY DEF Surjection
  <2> QED  BY <2>1, FS_Surjection
<1>2. ASSUME NEW i \in I  PROVE IsFiniteSet(Block(i))
  <2>1. IsFiniteSet({i})
    BY FS_Singleton
  <2>2. IsFiniteSet(1 .. f[i])
    <3>1. 1 \in Int /\ f[i] \in Int
      OBVIOUS
    <3> QED  BY <3>1, FS_Interval
  <2> QED  BY <2>1, <2>2, FS_Product
<1> QED  BY <1>1, <1>2, FS_UNION

\* A sum of tokens is a natural number.
LEMMA TokenSumType ==
  ASSUME NEW S, NEW f \in [S -> Nat], NEW I \in SUBSET S, IsFiniteSet(I)
  PROVE  TokenSum(f, I) \in Nat
BY TokensFinite, FS_CardinalityType DEF TokenSum

-----------------------------------------------------------------------------
(* The bucket's operators keep its type. *)

\* A bucket's spends, position by position.
LEMMA SpendsType ==
  ASSUME NEW b \in BucketType
  PROVE  /\ Len(b.spends) \in Nat
         /\ DOMAIN b.spends = 1 .. Len(b.spends)
         /\ \A i \in DOMAIN b.spends : /\ b.spends[i] \in Spend
                                      /\ b.spends[i].at \in Nat
                                      /\ b.spends[i].tokens \in Nat
<1>1. b.spends \in Seq(Spend)
  BY DEF BucketType
<1>2. \A i \in DOMAIN b.spends : b.spends[i] \in Spend
  BY <1>1
<1> QED  BY <1>1, <1>2 DEF Spend, Instant

\* An interval 1 .. n is finite and has n elements.
LEMMA IndicesFinite ==
  ASSUME NEW n \in Nat
  PROVE  IsFiniteSet(1 .. n) /\ Cardinality(1 .. n) = n
<1>1. 1 \in Int /\ n \in Int
  OBVIOUS
<1>2. IsFiniteSet(1 .. n) /\ Cardinality(1 .. n) = IF 1 > n THEN 0 ELSE n - 1 + 1
  BY <1>1, FS_Interval
<1> QED  BY <1>2

\* settle pops no more spends than the queue has.
LEMMA PoppedBound ==
  ASSUME NEW b \in BucketType, NEW t \in Instant
  PROVE  /\ Popped(b, t) \in SUBSET (DOMAIN b.spends)
         /\ IsFiniteSet(Popped(b, t))
         /\ Cardinality(Popped(b, t)) \in 0 .. Len(b.spends)
<1>1. DOMAIN b.spends = 1 .. Len(b.spends) /\ Len(b.spends) \in Nat
  BY SpendsType
<1>2. IsFiniteSet(1 .. Len(b.spends)) /\ Cardinality(1 .. Len(b.spends)) = Len(b.spends)
  BY <1>1, IndicesFinite
<1>3. Popped(b, t) \in SUBSET (1 .. Len(b.spends))
  BY <1>1 DEF Popped
<1>4. IsFiniteSet(Popped(b, t)) /\ Cardinality(Popped(b, t)) <= Len(b.spends)
  BY <1>2, <1>3, FS_Subset
<1> QED  BY <1>1, <1>3, <1>4, FS_CardinalityType

\* What some of the spends cost together is a natural number.
LEMMA SpentByType ==
  ASSUME NEW b \in BucketType, NEW I \in SUBSET (DOMAIN b.spends)
  PROVE  SpentBy(b, I) \in Nat
<1>1. DOMAIN b.spends = 1 .. Len(b.spends) /\ Len(b.spends) \in Nat
  BY SpendsType
<1>2. IsFiniteSet(I)
  BY <1>1, IndicesFinite, FS_Subset
<1>3. [i \in DOMAIN b.spends |-> b.spends[i].tokens] \in [DOMAIN b.spends -> Nat]
  BY SpendsType
<1> QED  BY <1>2, <1>3, TokenSumType DEF SpentBy

\* The first two steps of settle touch the hold and the observation alone.
LEMMA LiftForgetType ==
  ASSUME NEW b \in BucketType, NEW t \in Instant
  PROVE  /\ Lift(b, t) \in BucketType
         /\ Forget(b, t) \in BucketType
         /\ Lift(b, t).spends = b.spends /\ Forget(b, t).spends = b.spends
         /\ Lift(b, t).observed \in {b.observed, None}
         /\ Forget(b, t).observed \in {b.observed, None}
BY DEF Lift, Forget, BucketType, Option

\* Crediting keeps the observation, its instant and its bound max_tokens.
LEMMA CreditedType ==
  ASSUME NEW b \in BucketType, NEW I \in SUBSET (DOMAIN b.spends)
  PROVE  /\ Credited(b, I) \in Option(Observation)
         /\ (Credited(b, I) = None) <=> (b.observed = None)
         /\ b.observed # None => Credited(b, I).at = b.observed.at
         /\ b.observed # None /\ b.observed.remaining <= b.max_tokens
              => Credited(b, I).remaining <= b.max_tokens
<1> DEFINE credit == {i \in I : Deducted(b, i)}
<1>1. SpentBy(b, credit) \in Nat
  BY SpentByType
<1>2. b.observed # None => b.observed \in Observation
  BY DEF BucketType, Option
<1>3. b.max_tokens \in Nat
  BY DEF BucketType
<1>4. CASE b.observed = None \/ credit = {}
  <2>1. Credited(b, I) = b.observed
    BY <1>4 DEF Credited
  <2> QED  BY <1>2, <2>1 DEF Option
<1>5. CASE ~ (b.observed = None \/ credit = {})
  <2> DEFINE sum == AtMost(b.observed.remaining + SpentBy(b, credit), b.max_tokens)
  <2>1. Credited(b, I) = [remaining |-> sum, at |-> b.observed.at]
    BY <1>5 DEF Credited
  <2>2. sum \in Nat /\ sum <= b.max_tokens
    BY <1>1, <1>2, <1>3, <1>5 DEF AtMost, Observation
  <2>3. [remaining |-> sum, at |-> b.observed.at] \in Observation
    BY <1>2, <1>5, <2>2 DEF Observation
  <2>4. [remaining |-> sum, at |-> b.observed.at] # None
    BY <2>3, NoneAssumption
  <2> QED  BY <1>5, <2>1, <2>2, <2>3, <2>4 DEF Option
<1> QED  BY <1>4, <1>5

\* Popping the released spends leaves a bucket.
LEMMA ReleaseType ==
  ASSUME NEW b \in BucketType, NEW t \in Instant
  PROVE  Release(b, t) \in BucketType
<1>1. Credited(b, Popped(b, t)) \in Option(Observation)
  BY PoppedBound, CreditedType
<1>2. SubSeq(b.spends, Cardinality(Popped(b, t)) + 1, Len(b.spends)) \in Seq(Spend)
  BY PoppedBound, SubSeqProperties DEF BucketType
<1> QED  BY <1>1, <1>2 DEF Release, BucketType

\* Bucket::settle leaves a bucket.
LEMMA SettleType ==
  ASSUME NEW b \in BucketType, NEW t \in Instant
  PROVE  Settle(b, t) \in BucketType
BY LiftForgetType, ReleaseType DEF Settle

\* No balance is ever negative: what saturating_sub is for.
LEMMA AvailableType ==
  ASSUME NEW b \in BucketType
  PROVE  /\ Balance(b) \in Nat
         /\ Available(b) \in Nat
         /\ ReservationCost(b) \in Nat
<1>1. SpentBy(b, DOMAIN b.spends) \in Nat
  BY SpentByType
<1>2. Balance(b) \in Nat
  BY <1>1 DEF Balance, SaturatingSub, BucketType, Option, Observation
<1> QED  BY <1>2, CostAssumption
         DEF Available, ReservationCost, SaturatingSub, AtMost, BucketType

\* Bucket::ready_at is an instant, whatever the bucket holds.
LEMMA ReadyAtType ==
  ASSUME NEW b \in BucketType, NEW t \in Instant
  PROVE  ReadyAt(b, t) \in Instant
<1>1. ASSUME Enough(b) # {}
      PROVE  b.spends[Earliest(Enough(b))].at + b.window \in Nat
  <2>1. Enough(b) \in SUBSET (DOMAIN b.spends)
    BY DEF Enough
  <2>2. DOMAIN b.spends \in SUBSET Nat
    BY SpendsType
  <2>3. Earliest(Enough(b)) \in Enough(b)
    BY <1>1, <2>1, <2>2, LeastNatural DEF Earliest
  <2>4. b.spends[Earliest(Enough(b))].at \in Nat
    BY <2>1, <2>3, SpendsType
  <2>5. b.window \in Nat
    BY DEF BucketType
  <2> QED  BY <2>4, <2>5
<1> QED  BY <1>1, DelayAssumption
         DEF ReadyAt, BucketType, Option, Observation, Instant

\* RateLimiter::record leaves a bucket, whatever the headers say.
LEMMA RecordedType ==
  ASSUME NEW b \in BucketType, NEW h \in Header, NEW t \in Instant
  PROVE  Recorded(b, h, t) \in BucketType
<1> DEFINE resized == Resize(b, h.limit)
           settled == Settle(resized, t)
           charged == Charge(settled, h.used, t)
           observed == Observe(charged, h.remaining, t)
<1>1. resized \in BucketType
  BY DEF Resize, BucketType, Header, Option, Budget
<1>2. settled \in BucketType
  BY <1>1, SettleType
<1>3. charged \in BucketType
  <2>1. h.used # None /\ h.used # 0 => [at |-> t, tokens |-> h.used] \in Spend
    BY DEF Header, Option, Spend
  <2> HIDE DEF settled
  <2> QED  BY <1>2, <2>1, AppendProperties DEF Charge, BucketType
<1>4. observed \in BucketType
  <2> HIDE DEF charged
  <2> QED  BY <1>3 DEF Observe, BucketType, Header, Option, Observation, AtMost
<1>5. HoldUntil(h, t) \in Instant
  BY DelayAssumption DEF HoldUntil, Header, Option, Instant
<1> HIDE DEF observed
<1>6. Hold(observed, h, t) \in BucketType
  BY <1>4, <1>5 DEF Hold, BucketType, Option, Later
<1> QED  BY <1>6 DEF Recorded, observed

-----------------------------------------------------------------------------
(* Type correctness. *)

\* State::bucket_for finds a bucket only where it knows the group.
LEMMA BucketForType ==
  ASSUME TypeOK, NEW o \in Operations
  PROVE  /\ GroupOf(o) \in Option(Groups)
         /\ BucketFor(o) \in Option(BucketType)
         /\ BucketFor(o) # None => GroupOf(o) \in Groups
<1>1. SpecLimit[o] # None => SpecLimit[o] \in Declared
  BY GroupsAssumption DEF Option
<1>2. SpecLimit[o] # None => NewBucket(SpecLimit[o]) \in BucketType
  <2>1. << >> \in Seq(Spend)
    BY EmptySeq
  <2> QED  BY <1>1, <2>1 DEF NewBucket, BucketType, Declared, Option
<1>3. GroupOf(o) \in Option(Groups)
  BY <1>1 DEF TypeOK, GroupOf, Option, Declared
<1>4. GroupOf(o) \in Groups => buckets[GroupOf(o)] \in Option(BucketType)
  BY DEF TypeOK
<1> QED  BY <1>2, <1>3, <1>4 DEF BucketFor, Option

\* record works on a bucket of a known group.
LEMMA RecordBucketType ==
  ASSUME TypeOK, NEW o \in Operations, NEW h \in Header,
         RecordBucket(o, h) # None
  PROVE  /\ RecordGroup(o, h) \in Groups
         /\ RecordBucket(o, h) \in BucketType
<1>1. RecordGroup(o, h) \in Groups
  BY BucketForType DEF RecordGroup, RecordBucket, Header, Option
<1>2. SpecLimit[o] # None => SpecLimit[o] \in Declared
  BY GroupsAssumption DEF Option
<1>3. << >> \in Seq(Spend)
  BY EmptySeq
<1>4. h.limit # None => NewBucket(h.limit) \in BucketType
  BY <1>3 DEF NewBucket, BucketType, Header, Budget, Option
<1>5. SpecLimit[o] # None => NewBucket(SpecLimit[o]) \in BucketType
  BY <1>2, <1>3 DEF NewBucket, BucketType, Declared, Option
<1>6. buckets[RecordGroup(o, h)] # None
        => buckets[RecordGroup(o, h)] \in BucketType
  BY <1>1 DEF TypeOK, Option
<1> QED  BY <1>1, <1>4, <1>5, <1>6 DEF RecordBucket

\* The initial state has its type.
LEMMA TypeInit == Init => TypeOK
BY DEF Init, TypeOK, Option, Instant, ReservationType, NoReservation

\* acquire keeps the type when it lets the call through,
LEMMA TypeReserve ==
  ASSUME TypeOK, NEW r \in Requests, Reserve(r)
  PROVE  TypeOK'
<1> DEFINE o == OperationOf[r]
<1>1. o \in Operations
  BY RequestsAssumption
<1>2. BucketFor(o) \in BucketType /\ GroupOf(o) \in Groups
  BY <1>1, BucketForType DEF Reserve, Option
<1>3. SettledFor(r) \in BucketType
  BY <1>2, SettleType DEF SettledFor, TypeOK
<1> DEFINE bucket == SettledFor(r)
           cost == ReservationCost(bucket)
<1>4. cost \in Nat
  BY <1>3, AvailableType
<1>5. [bucket EXCEPT !.in_flight = @ + cost] \in BucketType
  BY <1>3, <1>4 DEF BucketType
<1>6. buckets' \in [Groups -> Option(BucketType)]
  BY <1>2, <1>5 DEF Reserve, TypeOK, Option
<1>7. reservation' \in [Requests -> ReservationType]
  BY <1>2, <1>4 DEF Reserve, TypeOK, ReservationType, Option
<1>8. /\ pc' \in [Requests -> {"idle", "waiting", "sent", "answered", "done"}]
      /\ timer' \in [Requests -> Instant]
  BY BoundsAssumption DEF Reserve, Send, TypeOK, Instant
<1> QED  BY <1>6, <1>7, <1>8 DEF Reserve, TypeOK

\* and when it makes the call wait,
LEMMA TypeSleep ==
  ASSUME TypeOK, NEW r \in Requests, Sleep(r)
  PROVE  TypeOK'
<1> DEFINE o == OperationOf[r]
<1>1. o \in Operations
  BY RequestsAssumption
<1>2. BucketFor(o) \in BucketType /\ GroupOf(o) \in Groups
  BY <1>1, BucketForType DEF Sleep, Option
<1> DEFINE bucket == SettledFor(r)
           ready == ReadyAt(bucket, now)
<1>3. bucket \in BucketType
  BY <1>2, SettleType DEF SettledFor, TypeOK
<1>4. now \in Nat /\ ready \in Nat
  BY <1>3, ReadyAtType DEF TypeOK, Instant
<1>5. ready > now => now + AtMost(ready - now, MAX_POLL) \in Instant
  BY <1>4, DelayAssumption DEF AtMost, Instant
<1>6. buckets' \in [Groups -> Option(BucketType)]
  BY <1>2, <1>3 DEF Sleep, TypeOK, Option
<1>7. timer' \in [Requests -> Instant]
  <2> HIDE DEF bucket
  <2> QED  BY <1>5 DEF Sleep, TypeOK, bucket
<1>8. pc' \in [Requests -> {"idle", "waiting", "sent", "answered", "done"}]
  BY DEF Sleep, TypeOK
<1> QED  BY <1>6, <1>7, <1>8 DEF Sleep, TypeOK

\* as does record,
LEMMA TypeRespond ==
  ASSUME TypeOK, NEW r \in Requests, NEW h \in Header, Respond(r, h)
  PROVE  TypeOK'
<1> DEFINE o == OperationOf[r]
<1>1. o \in Operations /\ now \in Instant
  BY RequestsAssumption DEF TypeOK
<1>2. HoldUntil(h, now) \in Nat
  BY <1>1, DelayAssumption DEF HoldUntil, Header, Option, Instant
<1>3. /\ buckets' \in [Groups -> Option(BucketType)]
      /\ retryAt' \in [Groups -> Instant]
  <2>1. CASE RecordBucket(o, h) = None
    BY <2>1 DEF Respond, TypeOK
  <2>2. CASE RecordBucket(o, h) # None
    <3>1. /\ RecordGroup(o, h) \in Groups
          /\ Recorded(RecordBucket(o, h), h, now) \in BucketType
      BY <1>1, <2>2, RecordBucketType, RecordedType
    <3>2. Later(retryAt[RecordGroup(o, h)], HoldUntil(h, now)) \in Instant
      BY <1>2, <3>1 DEF TypeOK, Later, Instant
    <3> QED  BY <2>2, <3>1, <3>2 DEF Respond, TypeOK, Option
  <2> QED  BY <2>1, <2>2
<1>4. learned' \in [Operations -> Option(Groups)]
  BY <1>1 DEF Respond, Learns, TypeOK, Header, Option
<1>5. /\ pc' \in [Requests -> {"idle", "waiting", "sent", "answered", "done"}]
      /\ timer' \in [Requests -> Instant]
  BY DEF Respond, TypeOK, Instant
<1> QED  BY <1>3, <1>4, <1>5 DEF Respond, TypeOK

\* and Reservation's drop.
LEMMA TypeGiveBack ==
  ASSUME TypeOK, NEW r \in Requests, GiveBack(r)
  PROVE  TypeOK'
<1>1. reservation[r] \in ReservationType
  BY DEF TypeOK
<1>2. buckets' \in [Groups -> Option(BucketType)]
  <2>1. CASE reservation[r].group = None \/ buckets[reservation[r].group] = None
    BY <2>1 DEF GiveBack, TypeOK
  <2>2. CASE ~ (reservation[r].group = None \/ buckets[reservation[r].group] = None)
    <3> DEFINE g == reservation[r].group
               b == buckets[g]
    <3>1. g \in Groups /\ b \in Option(BucketType) /\ reservation[r].tokens \in Nat
      BY <1>1, <2>2 DEF TypeOK, ReservationType, Option
    <3>2. b \in BucketType
      BY <2>2, <3>1 DEF Option
    <3>3. SaturatingSub(b.in_flight, reservation[r].tokens) \in Nat
      BY <3>1, <3>2 DEF SaturatingSub, BucketType
    <3>4. [b EXCEPT !.in_flight = SaturatingSub(@, reservation[r].tokens)] \in BucketType
      BY <3>2, <3>3 DEF BucketType
    <3> QED  BY <2>2, <3>1, <3>4 DEF GiveBack, TypeOK, Option
  <2> QED  BY <2>1, <2>2
<1> QED  BY <1>2 DEF GiveBack, TypeOK, ReservationType, NoReservation, Option, Instant

\* Giving back changes no other field of any bucket.
LEMMA GiveBackFields ==
  ASSUME TypeOK, NEW r \in Requests, GiveBack(r), NEW g \in Groups
  PROVE  /\ buckets[g] = None => buckets'[g] = None
         /\ buckets[g] # None =>
              /\ buckets'[g] # None
              /\ buckets'[g].max_tokens = buckets[g].max_tokens
              /\ buckets'[g].window = buckets[g].window
              /\ buckets'[g].observed = buckets[g].observed
              /\ buckets'[g].spends = buckets[g].spends
              /\ buckets'[g].blocked_until = buckets[g].blocked_until
<1>1. CASE buckets' = buckets
  BY <1>1
<1>2. CASE buckets' # buckets
  <2> DEFINE q == reservation[r].group
             n == SaturatingSub(buckets[q].in_flight, reservation[r].tokens)
  <2>1. /\ q # None /\ q \in Groups /\ buckets[q] # None
        /\ reservation[r].tokens \in Nat
    BY <1>2 DEF GiveBack, TypeOK, ReservationType, Option
  <2>2. buckets[q] \in BucketType
    BY <2>1 DEF TypeOK, Option
  <2>3. n \in Nat
    BY <2>1, <2>2 DEF SaturatingSub, BucketType
  <2>4. buckets' = [buckets EXCEPT ![q] = [buckets[q] EXCEPT !.in_flight = n]]
    BY <1>2 DEF GiveBack
  <2> HIDE DEF n
  <2>5. [buckets[q] EXCEPT !.in_flight = n] \in BucketType
    BY <2>2, <2>3 DEF BucketType
  <2>6. CASE g = q
    <3>1. buckets'[g] = [buckets[q] EXCEPT !.in_flight = n]
      BY <2>1, <2>4, <2>6 DEF TypeOK
    <3>2. buckets'[g] # None
      BY <2>5, <3>1, NoneAssumption
    <3> QED  BY <2>1, <2>2, <2>6, <3>1, <3>2 DEF BucketType
  <2>7. CASE g # q
    BY <2>4, <2>7 DEF TypeOK
  <2> QED  BY <2>6, <2>7
<1> QED  BY <1>1, <1>2

\* Reserving changes the settled bucket in in_flight alone.
LEMMA ReservedFields ==
  ASSUME NEW b \in BucketType, NEW n \in Nat
  PROVE  LET c == [b EXCEPT !.in_flight = @ + n]
         IN  /\ c \in BucketType
             /\ c.in_flight = b.in_flight + n
             /\ c.max_tokens = b.max_tokens
             /\ c.window = b.window
             /\ c.observed = b.observed
             /\ c.spends = b.spends
             /\ c.blocked_until = b.blocked_until
BY DEF BucketType

\* A step of the limiter when the server may answer with any headers at all.
AnyStep ==
  \/ Tick \/ Budgets
  \/ \E r \in Requests :
       \/ Acquire(r) \/ Fail(r) \/ Finish(r) \/ Cancel(r)
       \/ \E h \in Header : Respond(r, h)

LEMMA NextIsAnyStep == [Next]_vars => [AnyStep]_vars
BY HeadersAssumption DEF Next, Request, Answer, AnyStep

\* So every step keeps the type.
LEMMA TypeNext == TypeOK /\ [AnyStep]_vars => TypeOK'
<1> SUFFICES ASSUME TypeOK, [AnyStep]_vars  PROVE TypeOK'
  OBVIOUS
<1>1. CASE UNCHANGED vars
  BY <1>1 DEF vars, TypeOK
<1>2. CASE Tick
  BY <1>2 DEF Tick, TypeOK, Instant
<1>3. CASE Budgets
  <2>1. \A g \in Groups : buckets[g] # None => Settle(buckets[g], now) \in BucketType
    BY SettleType DEF TypeOK, Option
  <2> QED  BY <1>3, <2>1 DEF Budgets, TypeOK, Option
<1>4. ASSUME NEW r \in Requests, Proceed(r)  PROVE TypeOK'
  BY <1>4, BoundsAssumption DEF Proceed, Send, TypeOK, Instant
<1>5. ASSUME NEW r \in Requests, Fail(r)  PROVE TypeOK'
  BY <1>5 DEF Fail, TypeOK, Instant
<1>6. ASSUME NEW r \in Requests, NEW h \in Header, Respond(r, h)  PROVE TypeOK'
  BY <1>6, TypeRespond
<1> QED
  BY <1>1, <1>2, <1>3, <1>4, <1>5, <1>6, TypeReserve, TypeSleep, TypeGiveBack
     DEF AnyStep, Acquire, Finish, Cancel

(***************************************************************************)
(* Type correctness of RateLimiter, including that no subtraction in it    *)
(* leaves the naturals and that no step acts on a bucket that is missing.  *)
(***************************************************************************)
THEOREM TypeCorrect == Spec => []TypeOK
<1>1. Spec => Init /\ [][Next]_vars
  BY DEF Spec
<1> QED  BY <1>1, TypeInit, TypeNext, NextIsAnyStep, PTL

-----------------------------------------------------------------------------
(* What settling and recording leave of the other fields of a bucket. *)

\* The hold that settling leaves, and the hold that a response makes of it.
HoldAt(b, t) ==
  IF b.blocked_until # None /\ t >= b.blocked_until THEN None
  ELSE b.blocked_until

HoldAfter(held, h, t) ==
  IF ~h.rate_limited THEN held
  ELSE IF held = None THEN HoldUntil(h, t)
  ELSE Later(held, HoldUntil(h, t))

\* settle leaves the budget and in_flight alone and lifts a hold that is over.
LEMMA SettleFields ==
  ASSUME NEW b \in BucketType, NEW t \in Instant
  PROVE  /\ Settle(b, t).in_flight = b.in_flight
         /\ Settle(b, t).max_tokens = b.max_tokens
         /\ Settle(b, t).window = b.window
         /\ Settle(b, t).blocked_until =
              HoldAt(b, t)
<1> DEFINE c == Forget(Lift(b, t), t)
<1>1. /\ c \in BucketType
      /\ c.in_flight = b.in_flight
      /\ c.max_tokens = b.max_tokens
      /\ c.window = b.window
      /\ c.blocked_until =
           HoldAt(b, t)
  <2>1. c \in BucketType
    BY LiftForgetType
  <2> QED  BY <2>1 DEF Lift, Forget, BucketType, HoldAt
<1>2. /\ Release(c, t).in_flight = c.in_flight
      /\ Release(c, t).max_tokens = c.max_tokens
      /\ Release(c, t).window = c.window
      /\ Release(c, t).blocked_until = c.blocked_until
  <2> HIDE DEF c
  <2> QED  BY <1>1 DEF Release, BucketType
<1> HIDE DEF c
<1>3. Settle(b, t) = Release(c, t)
  BY DEF Settle, c
<1> QED  BY <1>1, <1>2, <1>3

\* record leaves in_flight alone, and a 429 only ever extends a hold.
LEMMA RecordedFields ==
  ASSUME NEW b \in BucketType, NEW h \in Header, NEW t \in Instant
  PROVE  /\ Recorded(b, h, t).in_flight = b.in_flight
         /\ Recorded(b, h, t).blocked_until = HoldAfter(HoldAt(b, t), h, t)
<1> DEFINE resized == Resize(b, h.limit)
           settled == Settle(resized, t)
           charged == Charge(settled, h.used, t)
<1>1. /\ resized \in BucketType
      /\ resized.in_flight = b.in_flight
      /\ resized.blocked_until = b.blocked_until
  BY DEF Resize, BucketType, Header, Option, Budget
<1>2. /\ settled \in BucketType
      /\ settled.in_flight = b.in_flight
      /\ settled.blocked_until = HoldAt(b, t)
  BY <1>1, SettleType, SettleFields DEF HoldAt
<1>3. Recorded(b, h, t) = Hold(Observe(charged, h.remaining, t), h, t)
  BY DEF Recorded
<1> HIDE DEF settled, resized
<1>4. /\ Recorded(b, h, t).in_flight = settled.in_flight
      /\ Recorded(b, h, t).blocked_until
           = HoldAfter(settled.blocked_until, h, t)
  BY <1>2, <1>3 DEF Hold, Observe, Charge, BucketType, HoldAfter
<1> QED  BY <1>2, <1>4

-----------------------------------------------------------------------------
(* A 429 holds its group. *)

\* settle does not lift a hold that a 429 still asks for.
LEMMA HoldSurvivesSettle ==
  ASSUME TypeOK, HoldKept, NEW g \in Groups, retryAt[g] > now
  PROVE  /\ buckets[g] \in BucketType
         /\ Settle(buckets[g], now).blocked_until = buckets[g].blocked_until
         /\ buckets[g].blocked_until \in Nat
         /\ buckets[g].blocked_until >= retryAt[g]
<1>1. buckets[g] \in BucketType /\ now \in Instant /\ retryAt[g] \in Nat /\ now \in Nat
  BY DEF TypeOK, HoldKept, Option, Instant
<1>2. buckets[g].blocked_until \in Nat /\ buckets[g].blocked_until >= retryAt[g]
  BY <1>1 DEF HoldKept, BucketType, Option, Instant
<1> QED  BY <1>1, <1>2, SettleFields DEF HoldAt

\* Every step keeps the holds.
LEMMA HoldNext == TypeOK /\ HoldKept /\ [Next]_vars => HoldKept'
<1> SUFFICES ASSUME TypeOK, HoldKept, [Next]_vars,
                    NEW g \in Groups, retryAt'[g] > now'
             PROVE  /\ buckets'[g] # None
                    /\ buckets'[g].blocked_until # None
                    /\ buckets'[g].blocked_until >= retryAt'[g]
  BY DEF HoldKept
<1> USE NoneAssumption DEF Instant
<1>t. now \in Nat /\ retryAt[g] \in Nat
  BY DEF TypeOK
<1>1. CASE UNCHANGED vars
  BY <1>1 DEF vars, HoldKept
<1>2. CASE Tick
  BY <1>2, <1>t DEF Tick, HoldKept
<1>3. CASE Budgets
  <2>1. buckets'[g] = Settle(buckets[g], now) /\ retryAt[g] > now /\ retryAt' = retryAt
    BY <1>3 DEF Budgets, HoldKept
  <2>2. Settle(buckets[g], now) \in BucketType
    BY <2>1, HoldSurvivesSettle, SettleType DEF TypeOK
  <2> QED  BY <2>1, <2>2, HoldSurvivesSettle
<1>4. ASSUME NEW r \in Requests, Proceed(r) \/ Fail(r)
      PROVE  UNCHANGED <<buckets, retryAt, now>>
  BY <1>4 DEF Proceed, Fail
<1>5. ASSUME NEW r \in Requests, Reserve(r) \/ Sleep(r)
      PROVE  /\ buckets'[g] # None
             /\ buckets'[g].blocked_until # None
             /\ buckets'[g].blocked_until >= retryAt'[g]
  <2> DEFINE o == OperationOf[r]
  <2>1. retryAt[g] > now /\ retryAt' = retryAt
    BY <1>5 DEF Reserve, Sleep
  <2>2. /\ BucketFor(o) \in BucketType
        /\ GroupOf(o) \in Groups
        /\ SettledFor(r) \in BucketType
    BY <1>5, RequestsAssumption, BucketForType, SettleType
       DEF Reserve, Sleep, Option, SettledFor, TypeOK
  <2>3. CASE GroupOf(o) = g
    <3>1. SettledFor(r) = Settle(buckets[g], now)
      BY <2>1, <2>3, GroupsAssumption DEF SettledFor, BucketFor, HoldKept
    <3>2. /\ buckets'[g] \in BucketType
          /\ buckets'[g].blocked_until = SettledFor(r).blocked_until
      <4>1. CASE Reserve(r)
        <5>1. buckets'[g] = [SettledFor(r) EXCEPT
                               !.in_flight = @ + ReservationCost(SettledFor(r))]
          BY <2>3, <2>2, <4>1 DEF Reserve, TypeOK
        <5>2. ReservationCost(SettledFor(r)) \in Nat
          BY <2>2, AvailableType
        <5> QED  BY <2>2, <5>1, <5>2, ReservedFields
      <4>2. CASE Sleep(r)
        BY <2>2, <2>3, <4>2 DEF Sleep, TypeOK
      <4> QED  BY <1>5, <4>1, <4>2
    <3> QED  BY <2>1, <3>1, <3>2, HoldSurvivesSettle
  <2>4. CASE GroupOf(o) # g
    <3>1. buckets'[g] = buckets[g]
      BY <1>5, <2>2, <2>4 DEF Reserve, Sleep, TypeOK
    <3> QED  BY <2>1, <3>1 DEF HoldKept
  <2> QED  BY <2>3, <2>4
<1>6. ASSUME NEW r \in Requests, NEW h \in Headers, Respond(r, h)
      PROVE  /\ buckets'[g] # None
             /\ buckets'[g].blocked_until # None
             /\ buckets'[g].blocked_until >= retryAt'[g]
  <2> DEFINE o == OperationOf[r]
             b == RecordBucket(o, h)
             until == HoldUntil(h, now)
  <2>1. o \in Operations /\ h \in Header /\ now \in Instant /\ now' = now
    BY <1>6, RequestsAssumption, HeadersAssumption DEF TypeOK, Respond
  <2>2. until \in Nat /\ until >= now
    BY <2>1, DelayAssumption DEF HoldUntil, Header, Option
  <2>3. CASE b = None \/ RecordGroup(o, h) # g
    <3>1. buckets'[g] = buckets[g] /\ retryAt'[g] = retryAt[g]
      BY <1>6, <2>3 DEF Respond, TypeOK
    <3> QED  BY <2>1, <3>1 DEF HoldKept
  <2>4. CASE b # None /\ RecordGroup(o, h) = g
    <3>1. b \in BucketType
      BY <2>1, <2>4, RecordBucketType
    <3>2. buckets'[g] = Recorded(b, h, now)
      BY <1>6, <2>4 DEF Respond, TypeOK
    <3>3. retryAt'[g] = IF h.rate_limited THEN Later(retryAt[g], until) ELSE retryAt[g]
      BY <1>6, <2>4 DEF Respond, TypeOK
    <3>7. retryAt[g] > now => b.blocked_until # None /\ b.blocked_until >= retryAt[g]
      BY <2>4 DEF HoldKept, RecordBucket
    <3> HIDE DEF b
    <3>4. Recorded(b, h, now).blocked_until = HoldAfter(HoldAt(b, now), h, now)
      BY <2>1, <3>1, RecordedFields
    <3>5. Recorded(b, h, now) # None
      BY <2>1, <3>1, RecordedType
    <3>6. b.blocked_until # None => b.blocked_until \in Nat
      BY <3>1 DEF BucketType, Option
    <3> HIDE DEF until
    <3>8. CASE h.rate_limited
      BY <1>t, <2>1, <2>2, <3>2, <3>3, <3>4, <3>5, <3>6, <3>7, <3>8
         DEF HoldAt, HoldAfter, Later, until
    <3>9. CASE ~h.rate_limited
      BY <1>t, <2>1, <3>2, <3>3, <3>4, <3>5, <3>6, <3>7, <3>9
         DEF HoldAt, HoldAfter
    <3> QED  BY <3>8, <3>9
  <2> QED  BY <2>3, <2>4
<1>7. ASSUME NEW r \in Requests, GiveBack(r)
      PROVE  /\ buckets'[g] # None
             /\ buckets'[g].blocked_until # None
             /\ buckets'[g].blocked_until >= retryAt'[g]
  <2>1. retryAt[g] > now /\ retryAt' = retryAt
    BY <1>7 DEF GiveBack
  <2>2. buckets[g] \in BucketType
    BY <2>1, HoldSurvivesSettle
  <2>5. buckets'[g].blocked_until = buckets[g].blocked_until /\ buckets'[g] # None
    BY <1>7, <2>2, GiveBackFields
  <2> QED  BY <2>1, <2>5 DEF HoldKept
<1> QED
  BY <1>1, <1>2, <1>3, <1>4, <1>5, <1>6, <1>7
     DEF Next, Request, Acquire, Answer, Finish, Cancel, HoldKept

\* At first nothing is held.
LEMMA HoldInit == Init => HoldKept
BY DEF Init, HoldKept

(***************************************************************************)
(* While a Retry-After instant that any 429 of a group named lies ahead,   *)
(* the group's bucket is blocked at least until then.                      *)
(***************************************************************************)
THEOREM HoldIsKept == Spec => []HoldKept
<1>1. Spec => Init /\ [][Next]_vars
  BY DEF Spec
<1> QED  BY <1>1, TypeCorrect, HoldInit, HoldNext, PTL

\* Only Reserve hands out a reservation, and only to its own call.
LEMMA OnlyReserveAdmits ==
  ASSUME TypeOK, [Next]_vars, NEW r \in Requests, Admitted(r)
  PROVE  Reserve(r)
<1>1. reservation' # reservation /\ reservation'[r] # reservation[r]
  BY DEF Admitted
<1>2. ASSUME NEW q \in Requests, GiveBack(q)  PROVE FALSE
  <2>1. q = r
    BY <1>1, <1>2 DEF GiveBack, TypeOK
  <2> QED  BY <1>2, <2>1 DEF GiveBack, TypeOK, Admitted, NoReservation
<1>3. ASSUME NEW q \in Requests, Reserve(q)  PROVE Reserve(r)
  <2>1. q = r
    BY <1>1, <1>3 DEF Reserve, TypeOK
  <2> QED  BY <1>3, <2>1
<1>4. ~ UNCHANGED reservation
  BY <1>1
<1> QED
  BY <1>2, <1>3, <1>4
     DEF Next, Request, Acquire, Answer, Finish, Cancel, Tick, Budgets,
         Proceed, Sleep, Respond, Fail, vars

\* Whoever is admitted finds no hold on the group.
LEMMA AdmissionRespectsHold ==
  ASSUME TypeOK, HoldKept, [Next]_vars, NEW r \in Requests, Admitted(r)
  PROVE  now >= retryAt[reservation'[r].group]
<1> DEFINE g == GroupOf(OperationOf[r])
           b == SettledFor(r)
<1>1. Reserve(r)
  BY OnlyReserveAdmits
<1>2. BucketFor(OperationOf[r]) \in BucketType /\ g \in Groups
  BY <1>1, RequestsAssumption, BucketForType DEF Reserve, Option
<1>3. ReadyAt(b, now) <= now /\ reservation'[r].group = g
  BY <1>1 DEF Reserve, TypeOK
<1>4. now \in Nat /\ retryAt[g] \in Nat
  BY <1>2 DEF TypeOK, Instant
<1>5. CASE retryAt[g] > now
  <2>1. b = Settle(buckets[g], now)
    BY <1>2, <1>5, GroupsAssumption DEF SettledFor, BucketFor, HoldKept
  <2>2. b.blocked_until \in Nat /\ b.blocked_until >= retryAt[g]
    BY <1>2, <1>5, <2>1, HoldSurvivesSettle
  <2>3. ReadyAt(b, now) = b.blocked_until
    BY <2>2, NoneAssumption DEF ReadyAt
  <2> QED  BY <1>3, <1>4, <1>5, <2>2, <2>3
<1> QED  BY <1>3, <1>4, <1>5

(***************************************************************************)
(* No request is let into a group before every Retry-After instant that    *)
(* the group's 429s named has passed, however many calls, 429s and         *)
(* re-sized budgets interleave ("nothing is sent to this group before this *)
(* instant").                                                              *)
(***************************************************************************)
THEOREM HoldIsRespected == Spec => HoldRespected
<1>1. TypeOK /\ HoldKept /\ [Next]_vars
        => [\A r \in Requests :
              Admitted(r) => now >= retryAt[reservation'[r].group]]_vars
  BY AdmissionRespectsHold
<1>2. Spec => Init /\ [][Next]_vars
  BY DEF Spec
<1> QED  BY <1>1, <1>2, TypeCorrect, HoldIsKept, PTL DEF HoldRespected

-----------------------------------------------------------------------------
(* The observation deducts every spend. *)

\* Popping from the front keeps the order of the queue and the observation.
LEMMA ReleaseOrdered ==
  ASSUME NEW b \in BucketType, NEW t \in Instant, InOrder(b, t)
  PROVE  /\ InOrder(Release(b, t), t)
         /\ ObservationIsNewest(b, t) => ObservationIsNewest(Release(b, t), t)
<1> DEFINE k == Cardinality(Popped(b, t))
           rest == SubSeq(b.spends, k + 1, Len(b.spends))
           c == Release(b, t)
<1>1. k \in 0 .. Len(b.spends) /\ Len(b.spends) \in Nat
  BY PoppedBound, SpendsType
<1>2. /\ c.spends = rest
      /\ c.observed = Credited(b, Popped(b, t))
      /\ c.max_tokens = b.max_tokens
  BY DEF Release, BucketType
<1>3. /\ DOMAIN rest = 1 .. Len(b.spends) - k
      /\ \A i \in 1 .. Len(b.spends) - k : rest[i] = b.spends[k + i]
  <2> HIDE DEF k
  <2>1. b.spends \in Seq(Spend)
    BY DEF BucketType
  <2> QED  BY <1>1, <2>1
<1>4. \A i \in DOMAIN rest : k + i \in DOMAIN b.spends
  <2> HIDE DEF rest, k
  <2> QED  BY <1>1, <1>3, SpendsType
<1> HIDE DEF k, rest, c
<1>5. InOrder(c, t)
  <2>1. ASSUME NEW i \in DOMAIN rest, NEW j \in DOMAIN rest, i <= j
        PROVE  rest[i].at <= rest[j].at
    <3>1. k + i \in DOMAIN b.spends /\ k + j \in DOMAIN b.spends /\ k + i <= k + j
      BY <1>1, <1>3, <1>4, <2>1
    <3> QED  BY <1>3, <3>1 DEF InOrder
  <2>2. ASSUME NEW i \in DOMAIN rest  PROVE rest[i].at <= t
    BY <1>3, <1>4 DEF InOrder
  <2> QED  BY <1>2, <2>1, <2>2 DEF InOrder
<1>6. ASSUME ObservationIsNewest(b, t)  PROVE ObservationIsNewest(c, t)
  <2> SUFFICES ASSUME c.observed # None
               PROVE  /\ c.observed.at <= t
                      /\ c.observed.remaining <= c.max_tokens
                      /\ \A i \in DOMAIN c.spends : c.spends[i].at <= c.observed.at
    BY DEF ObservationIsNewest
  <2>1. /\ b.observed # None
        /\ c.observed.at = b.observed.at
        /\ c.observed.remaining <= b.max_tokens
    BY <1>2, <1>6, PoppedBound, CreditedType DEF ObservationIsNewest
  <2>2. ASSUME NEW i \in DOMAIN rest  PROVE rest[i].at <= b.observed.at
    BY <1>3, <1>4, <1>6, <2>1 DEF ObservationIsNewest
  <2> QED  BY <1>2, <1>6, <2>1, <2>2 DEF ObservationIsNewest
<1> QED  BY <1>5, <1>6 DEF c

\* So does settle as a whole.
LEMMA SettleOrdered ==
  ASSUME NEW b \in BucketType, NEW t \in Instant, InOrder(b, t)
  PROVE  /\ InOrder(Settle(b, t), t)
         /\ ObservationIsNewest(b, t) => ObservationIsNewest(Settle(b, t), t)
<1> DEFINE c == Forget(Lift(b, t), t)
<1>1. /\ c \in BucketType
      /\ c.spends = b.spends
      /\ c.observed \in {b.observed, None}
  BY LiftForgetType
<1>2. c.max_tokens = b.max_tokens
  <2>1. Lift(b, t) \in BucketType /\ Lift(b, t).max_tokens = b.max_tokens
    BY LiftForgetType DEF Lift, BucketType
  <2> QED  BY <2>1 DEF Forget, BucketType
<1>3. Settle(b, t) = Release(c, t)
  BY DEF Settle
<1> HIDE DEF c
<1>4. InOrder(c, t) /\ (ObservationIsNewest(b, t) => ObservationIsNewest(c, t))
  BY <1>1, <1>2 DEF InOrder, ObservationIsNewest
<1> QED  BY <1>1, <1>3, <1>4, ReleaseOrdered

\* record queues its spend last, and its observation deducts them all.
LEMMA RecordedOrdered ==
  ASSUME NEW b \in BucketType, NEW h \in Header, NEW t \in Instant, InOrder(b, t)
  PROVE  InOrder(Recorded(b, h, t), t) /\ ObservationIsNewest(Recorded(b, h, t), t)
<1> DEFINE resized == Resize(b, h.limit)
           settled == Settle(resized, t)
           charged == Charge(settled, h.used, t)
           c == Recorded(b, h, t)
<1>1. resized \in BucketType /\ InOrder(resized, t)
  BY DEF Resize, BucketType, Header, Option, Budget, InOrder
<1>2. settled \in BucketType /\ InOrder(settled, t)
  BY <1>1, SettleType, SettleOrdered
<1> HIDE DEF settled
<1>3. /\ charged \in BucketType
      /\ InOrder(charged, t)
  <2>1. CASE h.used = None \/ h.used = 0
    BY <1>2, <2>1 DEF Charge
  <2>2. CASE ~ (h.used = None \/ h.used = 0)
    <3> DEFINE spend == [at |-> t, tokens |-> h.used]
               spends == Append(settled.spends, spend)
               n == Len(settled.spends)
    <3>1. spend \in Spend
      BY <2>2 DEF Header, Option, Spend
    <3>2. settled.spends \in Seq(Spend) /\ n \in Nat
      BY <1>2 DEF BucketType
    <3>3. /\ spends \in Seq(Spend)
          /\ DOMAIN spends = 1 .. n + 1
          /\ \A i \in 1 .. n : spends[i] = settled.spends[i]
          /\ spends[n + 1] = spend
      BY <3>1, <3>2, AppendProperties
    <3>4. charged = [settled EXCEPT !.spends = spends]
      BY <2>2 DEF Charge
    <3> HIDE DEF spends
    <3>5. charged \in BucketType /\ charged.spends = spends
      BY <1>2, <3>3, <3>4 DEF BucketType
    <3>6. \A i \in 1 .. n : i \in DOMAIN settled.spends /\ settled.spends[i].at \in Nat
      BY <1>2, SpendsType
    <3>7. ASSUME NEW i \in 1 .. n + 1, NEW j \in 1 .. n + 1, i <= j
          PROVE  spends[i].at <= spends[j].at
      <4>1. CASE j \in 1 .. n
        BY <1>2, <3>2, <3>3, <3>6, <3>7, <4>1 DEF InOrder
      <4>2. CASE j = n + 1 /\ i \in 1 .. n
        BY <1>2, <3>3, <3>6, <4>2 DEF InOrder
      <4>3. CASE j = n + 1 /\ i = n + 1
        BY <3>3, <4>3 DEF Instant
      <4> QED  BY <3>2, <3>7, <4>1, <4>2, <4>3
    <3>8. ASSUME NEW i \in 1 .. n + 1  PROVE spends[i].at <= t
      <4>1. CASE i \in 1 .. n
        BY <1>2, <3>3, <3>6, <4>1 DEF InOrder
      <4>2. CASE i = n + 1
        BY <3>3, <4>2 DEF Instant
      <4> QED  BY <3>2, <4>1, <4>2
    <3> QED  BY <3>3, <3>5, <3>7, <3>8 DEF InOrder
  <2> QED  BY <2>1, <2>2
<1>4. c = Hold(Observe(charged, h.remaining, t), h, t)
  BY DEF Recorded, settled
<1> HIDE DEF charged
<1>5. /\ c.spends = charged.spends
      /\ c.max_tokens = charged.max_tokens
      /\ c.observed =
           IF h.remaining = None THEN None
           ELSE [remaining |-> AtMost(h.remaining, charged.max_tokens), at |-> t]
  BY <1>3, <1>4 DEF Hold, Observe, BucketType
<1> HIDE DEF c
<1>6. InOrder(c, t)
  BY <1>3, <1>5 DEF InOrder
<1>7. ObservationIsNewest(c, t)
  <2>1. charged.max_tokens \in Nat /\ (h.remaining # None => h.remaining \in Nat)
    BY <1>3 DEF BucketType, Header, Option
  <2> QED  BY <1>3, <1>5, <2>1 DEF ObservationIsNewest, InOrder, AtMost, Instant
<1> QED  BY <1>6, <1>7 DEF c

\* Both survive the clock and a change of in_flight.
LEMMA OrderedLater ==
  ASSUME NEW b \in BucketType, NEW c \in BucketType,
         c.spends = b.spends, c.observed = b.observed,
         c.max_tokens = b.max_tokens,
         NEW t \in Nat, NEW u \in Nat, t <= u,
         InOrder(b, t), ObservationIsNewest(b, t)
  PROVE  InOrder(c, u) /\ ObservationIsNewest(c, u)
<1>1. /\ \A i \in DOMAIN b.spends : b.spends[i].at \in Nat
      /\ b.observed # None => b.observed.at \in Nat
  BY SpendsType DEF BucketType, Option, Observation, Instant
<1> QED  BY <1>1 DEF InOrder, ObservationIsNewest

\* At first there are no spends.
LEMMA DeductsInit == Init => BookkeepingOrdered
BY DEF Init, BookkeepingOrdered

\* A new bucket has none either.
LEMMA NewBucketOrdered ==
  ASSUME NEW budget, NEW t
  PROVE  InOrder(NewBucket(budget), t) /\ ObservationIsNewest(NewBucket(budget), t)
<1>1. DOMAIN NewBucket(budget).spends = {} /\ NewBucket(budget).observed = None
  BY DEF NewBucket
<1> QED  BY <1>1 DEF InOrder, ObservationIsNewest

\* Every step keeps the observation newest.
LEMMA DeductsNext ==
  TypeOK /\ BookkeepingOrdered /\ [AnyStep]_vars => BookkeepingOrdered'
<1> DEFINE Good(b, t) == InOrder(b, t) /\ ObservationIsNewest(b, t)
<1> SUFFICES ASSUME TypeOK, BookkeepingOrdered, [AnyStep]_vars,
                    NEW g \in Groups, buckets'[g] # None
             PROVE  Good(buckets'[g], now')
  BY DEF BookkeepingOrdered
<1>t. /\ now \in Instant /\ now \in Nat
      /\ buckets[g] # None => buckets[g] \in BucketType /\ Good(buckets[g], now)
  BY DEF TypeOK, BookkeepingOrdered, Option, Instant
<1> HIDE DEF Good
<1>1. CASE UNCHANGED vars
  BY <1>1, <1>t DEF vars
<1>2. CASE Tick
  <2>1. buckets' = buckets /\ now' \in Nat /\ now <= now'
    BY <1>2, <1>t DEF Tick
  <2> QED  BY <1>t, <2>1, OrderedLater DEF Good
<1>3. CASE Budgets
  <2>1. buckets[g] # None /\ buckets'[g] = Settle(buckets[g], now) /\ now' = now
    BY <1>3 DEF Budgets
  <2> QED  BY <1>t, <2>1, SettleOrdered DEF Good
<1>4. ASSUME NEW r \in Requests, Proceed(r) \/ Fail(r)
      PROVE  buckets' = buckets /\ now' = now
  BY <1>4 DEF Proceed, Fail
<1>5. ASSUME NEW r \in Requests, Reserve(r) \/ Sleep(r)
      PROVE  Good(buckets'[g], now')
  <2> DEFINE o == OperationOf[r]
             b == BucketFor(o)
             c == SettledFor(r)
  <2>1. b \in BucketType /\ GroupOf(o) \in Groups /\ now' = now
    BY <1>5, RequestsAssumption, BucketForType DEF Reserve, Sleep, Option
  <2>2. CASE GroupOf(o) # g
    <3>1. buckets'[g] = buckets[g]
      BY <1>5, <2>1, <2>2 DEF Reserve, Sleep, TypeOK
    <3> QED  BY <1>t, <2>1, <3>1
  <2>3. CASE GroupOf(o) = g
    <3>1. Good(b, now)
      <4>1. (b = buckets[g] /\ buckets[g] # None) \/ b = NewBucket(SpecLimit[o])
        BY <2>1, <2>3, NoneAssumption DEF BucketFor
      <4> QED  BY <1>t, <4>1, NewBucketOrdered DEF Good
    <3>2. c \in BucketType /\ Good(c, now)
      BY <1>t, <2>1, <3>1, SettleType, SettleOrdered DEF SettledFor, Good
    <3> HIDE DEF c
    <3>3. CASE Sleep(r)
      <4>1. buckets'[g] = c
        BY <2>1, <2>3, <3>3 DEF Sleep, TypeOK, c
      <4> QED  BY <2>1, <3>2, <4>1
    <3>4. CASE Reserve(r)
      <4> DEFINE n == ReservationCost(c)
                 d == [c EXCEPT !.in_flight = @ + n]
      <4>1. buckets'[g] = d
        BY <2>1, <2>3, <3>4 DEF Reserve, TypeOK, c
      <4>2. n \in Nat
        BY <3>2, AvailableType
      <4> HIDE DEF n
      <4>3. /\ d \in BucketType
            /\ d.spends = c.spends /\ d.observed = c.observed
            /\ d.max_tokens = c.max_tokens
        BY <3>2, <4>2, ReservedFields
      <4> HIDE DEF d
      <4> QED  BY <1>t, <2>1, <3>2, <4>1, <4>3, OrderedLater DEF Good
    <3> QED  BY <1>5, <3>3, <3>4
  <2> QED  BY <2>2, <2>3
<1>6. ASSUME NEW r \in Requests, NEW h \in Header, Respond(r, h)
      PROVE  Good(buckets'[g], now')
  <2> DEFINE o == OperationOf[r]
             b == RecordBucket(o, h)
  <2>1. o \in Operations /\ h \in Header /\ now' = now
    BY <1>6, RequestsAssumption DEF Respond
  <2>2. CASE b = None \/ RecordGroup(o, h) # g
    <3>1. buckets'[g] = buckets[g]
      BY <1>6, <2>2 DEF Respond, TypeOK
    <3> QED  BY <1>t, <2>1, <3>1
  <2>3. CASE b # None /\ RecordGroup(o, h) = g
    <3>1. b \in BucketType
      BY <2>1, <2>3, RecordBucketType
    <3>2. buckets'[g] = Recorded(b, h, now)
      BY <1>6, <2>3 DEF Respond, TypeOK
    <3>3. InOrder(b, now)
      <4>1. \/ b = buckets[g] /\ buckets[g] # None
            \/ b = NewBucket(h.limit)
            \/ b = NewBucket(SpecLimit[o])
        BY <2>3, NoneAssumption DEF RecordBucket
      <4> QED  BY <1>t, <4>1, NewBucketOrdered DEF Good
    <3> HIDE DEF b
    <3> QED  BY <1>t, <2>1, <3>1, <3>2, <3>3, RecordedOrdered DEF Good
  <2> QED  BY <2>2, <2>3
<1>7. ASSUME NEW r \in Requests, GiveBack(r)
      PROVE  Good(buckets'[g], now')
  <2>1. /\ buckets[g] # None /\ now' = now
        /\ buckets'[g].spends = buckets[g].spends
        /\ buckets'[g].observed = buckets[g].observed
        /\ buckets'[g].max_tokens = buckets[g].max_tokens
    BY <1>7, GiveBackFields DEF GiveBack
  <2>2. buckets'[g] \in BucketType
    BY <1>7, TypeGiveBack DEF TypeOK, Option
  <2> QED  BY <1>t, <2>1, <2>2, OrderedLater DEF Good
<1> QED
  BY <1>1, <1>2, <1>3, <1>4, <1>5, <1>6, <1>7, <1>t
     DEF AnyStep, Acquire, Finish, Cancel

\* The client's own bookkeeping is in order, on the client's own clock.
LEMMA BookkeepingInOrder == Spec => []BookkeepingOrdered
<1>1. Spec => Init /\ [][Next]_vars
  BY DEF Spec
<1> QED  BY <1>1, TypeCorrect, DeductsInit, DeductsNext, NextIsAnyStep, PTL

-----------------------------------------------------------------------------
(* Tokens are conserved. *)

\* A sum depends on nothing outside its index set.
LEMMA TokenSumSame ==
  ASSUME NEW I, NEW f, NEW g, \A i \in I : f[i] = g[i]
  PROVE  TokenSum(f, I) = TokenSum(g, I)
<1>1. {{i} \X (1 .. f[i]) : i \in I} = {{i} \X (1 .. g[i]) : i \in I}
  OBVIOUS
<1> QED  BY <1>1 DEF TokenSum

\* One more index adds its own tokens.
LEMMA TokenSumAdd ==
  ASSUME NEW S, NEW f \in [S -> Nat], NEW I \in SUBSET S, IsFiniteSet(I),
         NEW r \in S, r \notin I
  PROVE  TokenSum(f, I \cup {r}) = TokenSum(f, I) + f[r]
<1> DEFINE Block(i) == {i} \X (1 .. f[i])
           old == UNION {Block(i) : i \in I}
           new == UNION {Block(i) : i \in I \cup {r}}
<1>1. IsFiniteSet(old)
  BY TokensFinite
<1>2. IsFiniteSet(Block(r)) /\ Cardinality(Block(r)) = f[r]
  <2>1. IsFiniteSet({r}) /\ Cardinality({r}) = 1
    BY FS_Singleton
  <2>2. f[r] \in Nat
    OBVIOUS
  <2>3. IsFiniteSet(1 .. f[r]) /\ Cardinality(1 .. f[r]) = f[r]
    BY <2>2, IndicesFinite
  <2>4. IsFiniteSet(Block(r)) /\ Cardinality(Block(r)) = 1 * f[r]
    BY <2>1, <2>3, FS_Product
  <2> QED  BY <2>2, <2>4
<1>3. new = old \cup Block(r)
  OBVIOUS
<1>4. old \cap Block(r) = {}
  OBVIOUS
<1>5. Cardinality(old) \in Nat /\ f[r] \in Nat
  BY <1>1, FS_CardinalityType
<1>6. Cardinality(old \cup Block(r))
        = Cardinality(old) + Cardinality(Block(r)) - Cardinality(old \cap Block(r))
  BY <1>1, <1>2, FS_Union
<1>7. Cardinality(old \cap Block(r)) = 0
  BY <1>4, FS_EmptySet
<1>8. TokenSum(f, I \cup {r}) = Cardinality(new) /\ TokenSum(f, I) = Cardinality(old)
  BY DEF TokenSum
<1> HIDE DEF old, new, Block
<1> QED  BY <1>2, <1>3, <1>5, <1>6, <1>7, <1>8

\* The calls that hold a reservation in a group are finitely many.
LEMMA LiveFinite ==
  ASSUME NEW g
  PROVE  IsFiniteSet(Live(g)) /\ Live(g) \in SUBSET Requests
<1>1. Live(g) \in SUBSET Requests
  BY DEF Live
<1> QED  BY <1>1, RequestsAssumption, FS_Subset

\* Without one, nothing is reserved.
LEMMA ReservedEmpty ==
  ASSUME NEW g, Live(g) = {}
  PROVE  Reserved(g) = 0
<1>1. UNION {{i} \X (1 .. [r \in Requests |-> reservation[r].tokens][i]) : i \in Live(g)} = {}
  OBVIOUS
<1> QED  BY <1>1, FS_EmptySet DEF Reserved, TokenSum

\* One call's reservation changes: how the sums of the groups change.
LEMMA ReservedChange ==
  ASSUME TypeOK, TypeOK', NEW r \in Requests, NEW new \in ReservationType,
         reservation' = [reservation EXCEPT ![r] = new], NEW g \in Groups
  PROVE  /\ reservation[r].group # g /\ new.group # g
              => Live(g)' = Live(g) /\ Reserved(g)' = Reserved(g)
         /\ reservation[r].group # g /\ new.group = g
              => Reserved(g)' = Reserved(g) + new.tokens
         /\ reservation[r].group = g /\ new.group # g
              => Reserved(g) = Reserved(g)' + reservation[r].tokens
<1> DEFINE f == [q \in Requests |-> reservation[q].tokens]
           h == [q \in Requests |-> reservation'[q].tokens]
<1>1. f \in [Requests -> Nat] /\ h \in [Requests -> Nat]
  BY DEF TypeOK, ReservationType
<1>2. \A q \in Requests : q # r => reservation'[q] = reservation[q]
  BY DEF TypeOK
<1>3. reservation'[r] = new
  BY DEF TypeOK
<1>4. Reserved(g) = TokenSum(f, Live(g)) /\ Reserved(g)' = TokenSum(h, Live(g)')
  BY DEF Reserved
<1>5. \A q \in Requests : q # r => f[q] = h[q]
  BY <1>2
<1>6. f[r] = reservation[r].tokens /\ h[r] = new.tokens
  BY <1>3
<1>7. /\ IsFiniteSet(Live(g)) /\ Live(g) \in SUBSET Requests
      /\ IsFiniteSet(Live(g)') /\ Live(g)' \in SUBSET Requests
  <2>1. Live(g)' \in SUBSET Requests
    BY DEF Live
  <2> QED  BY <2>1, LiveFinite, RequestsAssumption, FS_Subset
<1> HIDE DEF f, h
<1>8. CASE reservation[r].group # g /\ new.group # g
  <2>1. Live(g)' = Live(g) /\ r \notin Live(g)
    BY <1>2, <1>3, <1>8 DEF Live
  <2>2. \A i \in Live(g) : f[i] = h[i]
    BY <1>5, <1>7, <2>1
  <2>3. TokenSum(f, Live(g)) = TokenSum(h, Live(g))
    BY <2>2, TokenSumSame
  <2> QED  BY <1>4, <1>8, <2>1, <2>3
<1>9. CASE reservation[r].group # g /\ new.group = g
  <2>1. Live(g)' = Live(g) \cup {r} /\ r \notin Live(g)
    BY <1>2, <1>3, <1>9 DEF Live
  <2>2. TokenSum(h, Live(g) \cup {r}) = TokenSum(h, Live(g)) + h[r]
    BY <1>1, <1>7, <2>1, TokenSumAdd
  <2>3. \A i \in Live(g) : f[i] = h[i]
    BY <1>5, <1>7, <2>1
  <2>4. TokenSum(f, Live(g)) = TokenSum(h, Live(g))
    BY <2>3, TokenSumSame
  <2> QED  BY <1>4, <1>6, <1>9, <2>1, <2>2, <2>4
<1>10. CASE reservation[r].group = g /\ new.group # g
  <2>1. Live(g) = Live(g)' \cup {r} /\ r \notin Live(g)'
    BY <1>2, <1>3, <1>10 DEF Live
  <2>2. TokenSum(f, Live(g)' \cup {r}) = TokenSum(f, Live(g)') + f[r]
    BY <1>1, <1>7, <2>1, TokenSumAdd
  <2>3. \A i \in Live(g)' : f[i] = h[i]
    BY <1>5, <1>7, <2>1
  <2>4. TokenSum(f, Live(g)') = TokenSum(h, Live(g)')
    BY <2>3, TokenSumSame
  <2> QED  BY <1>4, <1>6, <1>10, <2>1, <2>2, <2>4
<1> QED  BY <1>8, <1>9, <1>10

\* A step that moves no reservation conserves tokens if every bucket it
\* changes keeps its in_flight and every bucket it creates is empty.
LEMMA ConservedBesides ==
  ASSUME TypeOK, InFlightConserved, reservation' = reservation,
         NEW g \in Groups,
         \/ buckets'[g] = buckets[g]
         \/ /\ buckets'[g] # None
            /\ buckets'[g].in_flight = IF buckets[g] = None THEN 0
                                        ELSE buckets[g].in_flight
  PROVE  IF buckets'[g] = None THEN Live(g)' = {}
         ELSE buckets'[g].in_flight = Reserved(g)'
<1>1. Live(g)' = Live(g) /\ Reserved(g)' = Reserved(g)
  BY DEF Live, Reserved
<1>2. CASE buckets'[g] = buckets[g]
  BY <1>1, <1>2 DEF InFlightConserved
<1>3. CASE buckets[g] = None /\ buckets'[g] # None /\ buckets'[g].in_flight = 0
  BY <1>1, <1>3, ReservedEmpty DEF InFlightConserved
<1>4. CASE /\ buckets[g] # None /\ buckets'[g] # None
           /\ buckets'[g].in_flight = buckets[g].in_flight
  BY <1>1, <1>4 DEF InFlightConserved
<1> QED  BY <1>2, <1>3, <1>4

\* The bucket a call finds is its group's, or new and empty.
LEMMA FoundInFlight ==
  ASSUME TypeOK, NEW r \in Requests, BucketFor(OperationOf[r]) # None
  PROVE  LET g == GroupOf(OperationOf[r])
         IN  /\ g \in Groups
             /\ SettledFor(r) \in BucketType
             /\ SettledFor(r).in_flight = IF buckets[g] = None THEN 0
                                           ELSE buckets[g].in_flight
<1> DEFINE o == OperationOf[r]
<1>1. BucketFor(o) \in BucketType /\ GroupOf(o) \in Groups /\ now \in Instant
  BY RequestsAssumption, BucketForType DEF Option, TypeOK
<1>2. /\ SettledFor(r) \in BucketType
      /\ SettledFor(r).in_flight = BucketFor(o).in_flight
  BY <1>1, SettleType, SettleFields DEF SettledFor
<1>3. BucketFor(o).in_flight = IF buckets[GroupOf(o)] = None THEN 0
                               ELSE buckets[GroupOf(o)].in_flight
  BY <1>1 DEF BucketFor, NewBucket
<1> QED  BY <1>1, <1>2, <1>3

\* A reservation adds to in_flight what its call will give back.
LEMMA ReserveConserves ==
  ASSUME TypeOK, InFlightConserved, NEW r \in Requests, Reserve(r),
         NEW g \in Groups
  PROVE  IF buckets'[g] = None THEN Live(g)' = {}
         ELSE buckets'[g].in_flight = Reserved(g)'
<1> DEFINE q == GroupOf(OperationOf[r])
           b == SettledFor(r)
           n == ReservationCost(b)
           c == [b EXCEPT !.in_flight = @ + n]
           new == [group |-> q, tokens |-> n]
<1>1. /\ q \in Groups
      /\ b \in BucketType
      /\ b.in_flight = IF buckets[q] = None THEN 0 ELSE buckets[q].in_flight
  BY FoundInFlight DEF Reserve
<1>2. n \in Nat
  BY <1>1, AvailableType
<1>3. buckets' = [buckets EXCEPT ![q] = c] /\ reservation' = [reservation EXCEPT ![r] = new]
  BY DEF Reserve
<1>4. TypeOK'
  BY TypeReserve
<1>5. reservation[r].group = None
  BY DEF InFlightConserved, Reserve, Poll
<1>6. new \in ReservationType
  BY <1>1, <1>2 DEF ReservationType, Option
<1> HIDE DEF b, n
<1>7. c \in BucketType /\ c.in_flight = b.in_flight + n /\ c # None
  BY <1>1, <1>2, ReservedFields, NoneAssumption
<1> HIDE DEF c
<1>8. CASE g # q
  <2>1. buckets'[g] = buckets[g]
    BY <1>3, <1>8 DEF TypeOK
  <2>2. Live(g)' = Live(g) /\ Reserved(g)' = Reserved(g)
    BY <1>3, <1>4, <1>5, <1>6, <1>8, ReservedChange, GroupsAssumption
  <2> QED  BY <2>1, <2>2 DEF InFlightConserved
<1>9. CASE g = q
  <2>1. buckets'[g] = c
    BY <1>1, <1>3, <1>9 DEF TypeOK
  <2>2. Reserved(g)' = Reserved(g) + n
    BY <1>3, <1>4, <1>5, <1>6, <1>9, ReservedChange, GroupsAssumption
  <2>3. b.in_flight = Reserved(g)
    BY <1>1, <1>9, ReservedEmpty DEF InFlightConserved
  <2> QED  BY <1>7, <2>1, <2>2, <2>3
<1> QED  BY <1>8, <1>9

\* Dropping one takes that much away, and never saturates.
LEMMA GiveBackConserves ==
  ASSUME TypeOK, InFlightConserved, NEW r \in Requests, GiveBack(r),
         NEW g \in Groups
  PROVE  IF buckets'[g] = None THEN Live(g)' = {}
         ELSE buckets'[g].in_flight = Reserved(g)'
<1> DEFINE q == reservation[r].group
           n == reservation[r].tokens
<1>1. TypeOK'
  BY TypeGiveBack
<1>2. /\ reservation' = [reservation EXCEPT ![r] = NoReservation]
      /\ NoReservation \in ReservationType
      /\ NoReservation.group = None
  BY DEF GiveBack, NoReservation, ReservationType, Option
<1>3. q \in Option(Groups) /\ n \in Nat
  BY DEF TypeOK, ReservationType
<1>4. CASE q # g
  <2>1. buckets'[g] = buckets[g]
    BY <1>4 DEF GiveBack, TypeOK
  <2>2. Live(g)' = Live(g) /\ Reserved(g)' = Reserved(g)
    BY <1>1, <1>2, <1>4, ReservedChange, GroupsAssumption
  <2> QED  BY <2>1, <2>2 DEF InFlightConserved
<1>5. CASE q = g
  <2>1. r \in Live(g)
    BY <1>5 DEF Live
  <2>2. buckets[g] # None /\ buckets[g].in_flight = Reserved(g)
    BY <2>1 DEF InFlightConserved
  <2>3. buckets[g] \in BucketType
    BY <2>2 DEF TypeOK, Option
  <2>4. Reserved(g) = Reserved(g)' + n
    BY <1>1, <1>2, <1>5, ReservedChange, GroupsAssumption
  <2>5. Reserved(g)' \in Nat
    <3>1. /\ IsFiniteSet(Live(g)') /\ Live(g)' \in SUBSET Requests
      <4>1. Live(g)' \in SUBSET Requests
        BY DEF Live
      <4> QED  BY <4>1, RequestsAssumption, FS_Subset
    <3>2. [p \in Requests |-> reservation'[p].tokens] \in [Requests -> Nat]
      BY <1>1 DEF TypeOK, ReservationType
    <3> QED  BY <3>1, <3>2, TokenSumType DEF Reserved
  <2>6. SaturatingSub(buckets[g].in_flight, n) = Reserved(g)'
    BY <1>3, <2>2, <2>4, <2>5 DEF SaturatingSub
  <2>7. buckets'[g] = [buckets[g] EXCEPT !.in_flight = Reserved(g)']
    BY <1>5, <2>2, <2>6, GroupsAssumption DEF GiveBack, TypeOK
  <2>8. buckets'[g].in_flight = Reserved(g)' /\ buckets'[g] # None
    BY <2>2, <2>3, <2>7, GiveBackFields DEF BucketType
  <2> QED  BY <2>8
<1> QED  BY <1>4, <1>5

\* At first nothing is reserved.
LEMMA ConservedInit == Init => InFlightConserved
<1> SUFFICES ASSUME Init  PROVE InFlightConserved
  OBVIOUS
<1>1. \A g \in Groups : Live(g) = {}
  BY GroupsAssumption DEF Init, Live, NoReservation
<1> QED  BY <1>1 DEF Init, InFlightConserved, NoReservation

\* Every step conserves the tokens in flight.
LEMMA ConservedNext ==
  TypeOK /\ InFlightConserved /\ [AnyStep]_vars => InFlightConserved'
<1> DEFINE Conserved(g) == IF buckets'[g] = None THEN Live(g)' = {}
                           ELSE buckets'[g].in_flight = Reserved(g)'
           Unsent == \A r \in Requests :
                       pc'[r] \in {"idle", "waiting", "done"}
                         => reservation'[r].group = None
<1> SUFFICES ASSUME TypeOK, InFlightConserved, [AnyStep]_vars
             PROVE  (\A g \in Groups : Conserved(g)) /\ Unsent
  BY DEF InFlightConserved
<1> USE NoneAssumption
<1>1. CASE UNCHANGED vars \/ Tick
  <2>1. /\ reservation' = reservation /\ pc' = pc /\ buckets' = buckets
    BY <1>1 DEF vars, Tick
  <2>2. Unsent
    BY <2>1 DEF InFlightConserved
  <2> QED  BY <2>1, <2>2, ConservedBesides
<1>2. CASE Budgets
  <2>1. reservation' = reservation /\ pc' = pc
    BY <1>2 DEF Budgets
  <2>2. ASSUME NEW g \in Groups  PROVE Conserved(g)
    <3>1. CASE buckets[g] = None
      BY <1>2, <2>1, <3>1, ConservedBesides DEF Budgets
    <3>2. CASE buckets[g] # None
      <4>1. buckets[g] \in BucketType /\ now \in Instant
        BY <3>2 DEF TypeOK, Option
      <4>2. buckets'[g] = Settle(buckets[g], now)
        BY <1>2, <3>2 DEF Budgets
      <4>3. buckets'[g] # None /\ buckets'[g].in_flight = buckets[g].in_flight
        BY <4>1, <4>2, SettleType, SettleFields
      <4> QED  BY <2>1, <3>2, <4>3, ConservedBesides
    <3> QED  BY <3>1, <3>2
  <2> QED  BY <2>1, <2>2 DEF InFlightConserved
<1>3. ASSUME NEW r \in Requests, Proceed(r) \/ Fail(r)
      PROVE  (\A g \in Groups : Conserved(g)) /\ Unsent
  <2>1. reservation' = reservation /\ buckets' = buckets
    BY <1>3 DEF Proceed, Fail
  <2>2. Unsent
    BY <1>3, <2>1 DEF InFlightConserved, Proceed, Fail, Send, TypeOK
  <2> QED  BY <2>1, <2>2, ConservedBesides
<1>4. ASSUME NEW r \in Requests, Reserve(r)
      PROVE  (\A g \in Groups : Conserved(g)) /\ Unsent
  <2>1. Unsent
    BY <1>4 DEF InFlightConserved, Reserve, Send, TypeOK
  <2> QED  BY <1>4, <2>1, ReserveConserves
<1>5. ASSUME NEW r \in Requests, Sleep(r)
      PROVE  (\A g \in Groups : Conserved(g)) /\ Unsent
  <2> DEFINE q == GroupOf(OperationOf[r])
  <2>1. reservation' = reservation
    BY <1>5 DEF Sleep
  <2>2. Unsent
    BY <1>5, <2>1 DEF InFlightConserved, Sleep, Poll, TypeOK
  <2>3. /\ q \in Groups
        /\ SettledFor(r) # None
        /\ SettledFor(r).in_flight = IF buckets[q] = None THEN 0
                                      ELSE buckets[q].in_flight
    BY <1>5, FoundInFlight DEF Sleep
  <2>4. buckets' = [buckets EXCEPT ![q] = SettledFor(r)]
    BY <1>5 DEF Sleep
  <2>5. ASSUME NEW g \in Groups  PROVE Conserved(g)
    <3>1. CASE g = q
      <4>1. buckets'[g] = SettledFor(r)
        BY <2>3, <2>4, <3>1 DEF TypeOK
      <4> QED  BY <2>1, <2>3, <3>1, <4>1, ConservedBesides
    <3>2. CASE g # q
      <4>1. buckets'[g] = buckets[g]
        BY <2>4, <3>2 DEF TypeOK
      <4> QED  BY <2>1, <4>1, ConservedBesides
    <3> QED  BY <3>1, <3>2
  <2> QED  BY <2>2, <2>5
<1>6. ASSUME NEW r \in Requests, NEW h \in Header, Respond(r, h)
      PROVE  (\A g \in Groups : Conserved(g)) /\ Unsent
  <2> DEFINE o == OperationOf[r]
             b == RecordBucket(o, h)
  <2>1. /\ o \in Operations /\ h \in Header /\ now \in Instant
        /\ reservation' = reservation
    BY <1>6, RequestsAssumption DEF Respond, TypeOK
  <2>2. Unsent
    BY <1>6, <2>1 DEF InFlightConserved, Respond, TypeOK
  <2>3. ASSUME NEW g \in Groups  PROVE Conserved(g)
    <3>1. CASE b = None \/ RecordGroup(o, h) # g
      <4>1. buckets'[g] = buckets[g]
        BY <1>6, <3>1 DEF Respond, TypeOK
      <4> QED  BY <2>1, <4>1, ConservedBesides
    <3>2. CASE b # None /\ RecordGroup(o, h) = g
      <4>1. b \in BucketType
        BY <2>1, <3>2, RecordBucketType
      <4>2. buckets'[g] = Recorded(b, h, now)
        BY <1>6, <3>2 DEF Respond, TypeOK
      <4>3. b.in_flight = IF buckets[g] = None THEN 0 ELSE buckets[g].in_flight
        BY <3>2 DEF RecordBucket, NewBucket
      <4> HIDE DEF b
      <4>4. buckets'[g] # None /\ buckets'[g].in_flight = b.in_flight
        BY <2>1, <4>1, <4>2, RecordedType, RecordedFields
      <4> QED  BY <2>1, <4>3, <4>4, ConservedBesides
    <3> QED  BY <3>1, <3>2
  <2> QED  BY <2>2, <2>3
<1>7. ASSUME NEW r \in Requests, GiveBack(r)
      PROVE  (\A g \in Groups : Conserved(g)) /\ Unsent
  <2>1. Unsent
    BY <1>7 DEF InFlightConserved, GiveBack, NoReservation, TypeOK
  <2> QED  BY <1>7, <2>1, GiveBackConserves
<1> HIDE DEF Conserved, Unsent
<1> QED
  BY <1>1, <1>2, <1>3, <1>4, <1>5, <1>6, <1>7
     DEF AnyStep, Acquire, Finish, Cancel

(***************************************************************************)
(* Tokens are conserved for every number of calls: in_flight is the sum of *)
(* the reservations held, so dropping one never saturates.                 *)
(***************************************************************************)
THEOREM TokensConserved == Spec => []InFlightConserved
<1>1. Spec => Init /\ [][Next]_vars
  BY DEF Spec
<1> QED  BY <1>1, TypeCorrect, ConservedInit, ConservedNext, NextIsAnyStep, PTL

-----------------------------------------------------------------------------
(* Sums of tokens over sets of indices, and what a queue has spent since.  *)

\* A larger function sums to no less over a larger set.
LEMMA TokenSumLeq ==
  ASSUME NEW S, NEW f \in [S -> Nat], NEW T, NEW h \in [T -> Nat],
         NEW I, NEW J \in SUBSET T, I \subseteq J, I \subseteq S,
         IsFiniteSet(J), \A i \in I : f[i] <= h[i]
  PROVE  TokenSum(f, I) <= TokenSum(h, J)
<1> DEFINE less == UNION {{i} \X (1 .. f[i]) : i \in I}
           more == UNION {{i} \X (1 .. h[i]) : i \in J}
<1>1. ASSUME NEW x \in less  PROVE x \in more
  <2>1. PICK i \in I : x \in {i} \X (1 .. f[i])
    OBVIOUS
  <2>2. f[i] \in Nat /\ h[i] \in Nat /\ i \in J
    OBVIOUS
  <2>3. 1 .. f[i] \subseteq 1 .. h[i]
    BY <2>2
  <2> QED  BY <2>1, <2>2, <2>3
<1>2. IsFiniteSet(more)
  BY TokensFinite
<1>3. Cardinality(less) <= Cardinality(more)
  <2> HIDE DEF less, more
  <2> QED  BY <1>1, <1>2, FS_Subset
<1> QED  BY <1>3 DEF TokenSum

\* Disjoint sets of indices add up.
LEMMA TokenSumSplit ==
  ASSUME NEW S, NEW f \in [S -> Nat],
         NEW I \in SUBSET S, NEW J \in SUBSET S,
         IsFiniteSet(I), IsFiniteSet(J), I \cap J = {}
  PROVE  TokenSum(f, I \cup J) = TokenSum(f, I) + TokenSum(f, J)
<1> DEFINE A == UNION {{i} \X (1 .. f[i]) : i \in I}
           B == UNION {{i} \X (1 .. f[i]) : i \in J}
           C == UNION {{i} \X (1 .. f[i]) : i \in I \cup J}
<1>1. IsFiniteSet(A) /\ IsFiniteSet(B)
  BY TokensFinite
<1>2. C = A \cup B
  OBVIOUS
<1>3. A \cap B = {}
  OBVIOUS
<1>4. /\ TokenSum(f, I \cup J) = Cardinality(C)
      /\ TokenSum(f, I) = Cardinality(A)
      /\ TokenSum(f, J) = Cardinality(B)
  BY DEF TokenSum
<1> HIDE DEF A, B, C
<1>5. Cardinality(A) \in Nat /\ Cardinality(B) \in Nat /\ Cardinality({}) = 0
  BY <1>1, FS_CardinalityType, FS_EmptySet
<1>6. Cardinality(A \cap B) = 0
  BY <1>3, <1>5
<1>7. Cardinality(A \cup B)
        = Cardinality(A) + Cardinality(B) - Cardinality(A \cap B)
  BY <1>1, FS_Union
<1>8. Cardinality(C) = Cardinality(A) + Cardinality(B)
  BY <1>2, <1>5, <1>6, <1>7
<1> QED  BY <1>4, <1>8

\* Nothing costs nothing.
LEMMA TokenSumEmpty ==
  ASSUME NEW f
  PROVE  TokenSum(f, {}) = 0
<1>1. UNION {{i} \X (1 .. f[i]) : i \in {}} = {}
  OBVIOUS
<1> QED  BY <1>1, FS_EmptySet DEF TokenSum

Shifted(J, k) == {j + k : j \in J}

\* Renumbering changes no sum.
LEMMA TokenSumShift ==
  ASSUME NEW J \in SUBSET Nat, IsFiniteSet(J), NEW k \in Nat,
         NEW f, NEW h \in [J -> Nat], \A j \in J : h[j] = f[j + k]
  PROVE  TokenSum(h, J) = TokenSum(f, Shifted(J, k))
<1> DEFINE here == UNION {{j} \X (1 .. h[j]) : j \in J}
           there == UNION {{i} \X (1 .. f[i]) : i \in {j + k : j \in J}}
           move == [x \in here |-> <<x[1] + k, x[2]>>]
<1>1. ASSUME NEW x \in here
      PROVE  x[1] \in J /\ x[2] \in 1 .. h[x[1]] /\ x = <<x[1], x[2]>>
  OBVIOUS
<1>2. ASSUME NEW j \in J, NEW n \in 1 .. h[j]  PROVE <<j, n>> \in here
  OBVIOUS
<1>3. ASSUME NEW x \in here  PROVE move[x] \in there
  <2>1. x[1] \in J /\ x[2] \in 1 .. f[x[1] + k]
    BY <1>1
  <2> QED  BY <2>1
<1>4. ASSUME NEW y \in there  PROVE \E x \in here : move[x] = y
  <2>1. PICK j \in J : y \in {j + k} \X (1 .. f[j + k])
    OBVIOUS
  <2>2. y = <<j + k, y[2]>> /\ y[2] \in 1 .. h[j]
    BY <2>1
  <2>3. <<j, y[2]>> \in here
    BY <2>2, <1>2
  <2>4. move[<<j, y[2]>>] = y
    BY <2>2, <2>3
  <2> QED  BY <2>3, <2>4
<1>5. ASSUME NEW x \in here, NEW y \in here, move[x] = move[y]  PROVE x = y
  <2>1. <<x[1] + k, x[2]>> = <<y[1] + k, y[2]>>
    BY <1>5
  <2>2. x[1] \in Nat /\ y[1] \in Nat
    BY <1>1
  <2>3. x[1] + k = y[1] + k /\ x[2] = y[2]
    BY <2>1
  <2>4. x[1] = y[1]
    <3> DEFINE a == x[1]  b == y[1]
    <3>1. a \in Nat /\ b \in Nat /\ a + k = b + k
      BY <2>2, <2>3
    <3> HIDE DEF a, b
    <3>2. a = b
      BY <3>1
    <3> QED  BY <3>2 DEF a, b
  <2> QED  BY <1>1, <2>3, <2>4
<1>6. IsFiniteSet(here)
  BY TokensFinite
<1>7. /\ TokenSum(h, J) = Cardinality(here)
      /\ TokenSum(f, Shifted(J, k)) = Cardinality(there)
  BY DEF TokenSum, Shifted
<1>8. move \in Bijection(here, there)
  <2>1. move \in [here -> there]
    BY <1>3
  <2> HIDE DEF move, here, there
  <2> QED  BY <2>1, <1>4, <1>5 DEF Bijection, Injection, Surjection, IsInjective
<1> HIDE DEF here, there
<1> QED  BY <1>6, <1>7, <1>8, FS_Bijection DEF ExistsBijection

\* A set of indices that holds all the earlier ones is an initial interval.
LEMMA InitialInterval ==
  ASSUME NEW n \in Nat, NEW S \in SUBSET (1 .. n),
         \A i \in S : \A j \in 1 .. i : j \in S
  PROVE  S = 1 .. Cardinality(S) /\ Cardinality(S) \in 0 .. n
<1> DEFINE Rest == (1 .. n) \ S
<1>1. \E m \in 0 .. n : S = 1 .. m
  <2>1. CASE Rest = {}
    <3>1. S = 1 .. n
      BY <2>1
    <3> QED  BY <3>1
  <2>2. CASE Rest # {}
    <3>1. PICK m \in Rest : \A i \in Rest : m <= i
      <4>1. Rest \in SUBSET Nat
        OBVIOUS
      <4> HIDE DEF Rest
      <4> QED  BY <2>2, <4>1, LeastNatural
    <3>2. \A i \in 1 .. n : i < m => i \in S
      BY <3>1
    <3>3. \A i \in S : i < m
      <4> SUFFICES ASSUME NEW i \in S, ~ (i < m)  PROVE FALSE
        OBVIOUS
      <4>1. i \in Nat /\ m \in 1 .. n /\ m \in 1 .. i
        OBVIOUS
      <4> QED  BY <4>1
    <3>4. m \in 1 .. n /\ \A i \in 1 .. n : i \in S <=> i < m
      BY <3>2, <3>3
    <3>5. m - 1 \in 0 .. n /\ \A i \in 1 .. n : i \in S <=> i \in 1 .. m - 1
      BY <3>4
    <3>6. 1 .. m - 1 \subseteq 1 .. n
      BY <3>4
    <3>7. S = 1 .. m - 1
      BY <3>5, <3>6
    <3> QED  BY <3>5, <3>7
  <2> QED  BY <2>1, <2>2
<1>2. PICK m \in 0 .. n : S = 1 .. m
  BY <1>1
<1> QED  BY <1>2, IndicesFinite

\* What a queue of spends has spent at instant t or later.
SpentSince(s, t) ==
  TokenSum([i \in DOMAIN s |-> s[i].tokens], {i \in DOMAIN s : s[i].at >= t})

\* A queue of spends, position by position.
LEMMA QueueType ==
  ASSUME NEW s \in Seq(Spend)
  PROVE  /\ Len(s) \in Nat
         /\ DOMAIN s = 1 .. Len(s)
         /\ IsFiniteSet(DOMAIN s)
         /\ \A i \in DOMAIN s : /\ s[i] \in Spend
                               /\ s[i].at \in Nat /\ s[i].tokens \in Nat
         /\ [i \in DOMAIN s |-> s[i].tokens] \in [DOMAIN s -> Nat]
<1>1. Len(s) \in Nat /\ DOMAIN s = 1 .. Len(s)
  OBVIOUS
<1>2. \A i \in DOMAIN s : s[i] \in Spend
  OBVIOUS
<1>3. \A i \in DOMAIN s : s[i].at \in Nat /\ s[i].tokens \in Nat
  BY <1>2 DEF Spend, Instant
<1> QED  BY <1>1, <1>2, <1>3, IndicesFinite

\* What it has spent is a natural number, and less the later one begins.
LEMMA SpentSinceType ==
  ASSUME NEW s \in Seq(Spend), NEW t \in Int
  PROVE  SpentSince(s, t) \in Nat
<1>1. {i \in DOMAIN s : s[i].at >= t} \in SUBSET (DOMAIN s)
  OBVIOUS
<1> QED  BY <1>1, QueueType, FS_Subset, TokenSumType DEF SpentSince

LEMMA SpentSinceLater ==
  ASSUME NEW s \in Seq(Spend), NEW t \in Int, NEW u \in Int, t <= u
  PROVE  SpentSince(s, u) <= SpentSince(s, t)
<1> DEFINE f == [i \in DOMAIN s |-> s[i].tokens]
           I == {i \in DOMAIN s : s[i].at >= u}
           J == {i \in DOMAIN s : s[i].at >= t}
<1>1. f \in [DOMAIN s -> Nat] /\ IsFiniteSet(DOMAIN s)
  BY QueueType
<1>2. I \subseteq J
  BY QueueType
<1>3. IsFiniteSet(J)
  BY <1>1, FS_Subset
<1>4. \A i \in I : f[i] <= f[i]
  BY <1>1
<1>5. J \in SUBSET (DOMAIN s) /\ I \subseteq DOMAIN s
  OBVIOUS
<1> HIDE DEF f, I, J
<1>6. TokenSum(f, I) <= TokenSum(f, J)
  BY <1>1, <1>2, <1>3, <1>4, <1>5, TokenSumLeq
<1> QED  BY <1>6 DEF SpentSince, f, I, J

\* A spend counts from its own instant on.
LEMMA SpentSinceAppend ==
  ASSUME NEW s \in Seq(Spend), NEW e \in Spend, NEW t \in Int
  PROVE  SpentSince(Append(s, e), t)
           = SpentSince(s, t) + (IF e.at >= t THEN e.tokens ELSE 0)
<1> DEFINE n == Len(s)
           a == Append(s, e)
           f == [i \in DOMAIN s |-> s[i].tokens]
           h == [i \in DOMAIN a |-> a[i].tokens]
           I == {i \in DOMAIN s : s[i].at >= t}
           J == {i \in DOMAIN a : a[i].at >= t}
<1>1. /\ a \in Seq(Spend) /\ Len(a) = n + 1 /\ n \in Nat
      /\ \A i \in 1 .. n : a[i] = s[i]
      /\ a[n + 1] = e
  BY AppendProperties
<1>2. /\ DOMAIN s = 1 .. n /\ DOMAIN a = 1 .. n + 1
      /\ f \in [DOMAIN s -> Nat] /\ h \in [DOMAIN a -> Nat]
      /\ IsFiniteSet(DOMAIN s)
  BY <1>1, QueueType
<1>3. IsFiniteSet(I) /\ I \in SUBSET (DOMAIN s) /\ I \in SUBSET (DOMAIN a)
  <2>1. I \in SUBSET (DOMAIN s)
    OBVIOUS
  <2> QED  BY <1>2, <2>1, FS_Subset
<1>4. \A i \in I : f[i] = h[i]
  BY <1>1, <1>2
<1>5. TokenSum(h, I) = TokenSum(f, I)
  BY <1>4, TokenSumSame
<1>6. n + 1 \notin I /\ n + 1 \in DOMAIN a /\ h[n + 1] = e.tokens
  BY <1>1, <1>2
<1>7. CASE e.at >= t
  <2>1. J = I \cup {n + 1}
    BY <1>1, <1>2, <1>7
  <2> HIDE DEF a, f, h, I, J
  <2>2. TokenSum(h, J) = TokenSum(h, I) + h[n + 1]
    BY <1>2, <1>3, <1>6, <2>1, TokenSumAdd
  <2> QED  BY <1>5, <1>6, <1>7, <2>2 DEF SpentSince, a, f, h, I, J
<1>8. CASE ~ (e.at >= t)
  <2>1. J = I
    BY <1>1, <1>2, <1>8
  <2>2. TokenSum(f, I) \in Nat
    BY <1>2, <1>3, TokenSumType
  <2> HIDE DEF a, f, h, I, J
  <2>3. TokenSum(h, J) = TokenSum(f, I) + 0
    BY <1>5, <2>1, <2>2
  <2> QED  BY <1>8, <2>3 DEF SpentSince, a, f, h, I, J
<1> QED  BY <1>7, <1>8

\* Spends made before an instant do not count from it on.
LEMMA SpentSinceRest ==
  ASSUME NEW s \in Seq(Spend), NEW k \in 0 .. Len(s), NEW t \in Int,
         \A i \in 1 .. k : s[i].at < t
  PROVE  /\ SubSeq(s, k + 1, Len(s)) \in Seq(Spend)
         /\ SpentSince(SubSeq(s, k + 1, Len(s)), t) = SpentSince(s, t)
<1> DEFINE n == Len(s)
           rest == SubSeq(s, k + 1, n)
           f == [i \in DOMAIN s |-> s[i].tokens]
           h == [i \in DOMAIN rest |-> rest[i].tokens]
           I == {i \in DOMAIN s : s[i].at >= t}
           J == {i \in DOMAIN rest : rest[i].at >= t}
<1>1. n \in Nat /\ DOMAIN s = 1 .. n /\ k \in Nat /\ k <= n
  BY QueueType
<1>2. /\ rest \in Seq(Spend) /\ Len(rest) = n - k
      /\ \A i \in 1 .. n - k : rest[i] = s[k + i]
  <2>1. \A i \in k + 1 .. n : s[i] \in Spend
    BY <1>1, QueueType
  <2>2. k + 1 \in Int /\ n \in Int
    BY <1>1
  <2> HIDE DEF n
  <2>3. /\ rest \in Seq(Spend)
        /\ Len(rest) = IF k + 1 <= n THEN n - (k + 1) + 1 ELSE 0
        /\ \A i \in 1 .. n - (k + 1) + 1 : rest[i] = s[(k + 1) + i - 1]
    BY <2>1, <2>2, SubSeqProperties
  <2> HIDE DEF rest
  <2> QED  BY <1>1, <2>3
<1> HIDE DEF rest
<1>3. DOMAIN rest = 1 .. n - k /\ h \in [DOMAIN rest -> Nat] /\ IsFiniteSet(DOMAIN rest)
  BY <1>2, QueueType
<1>4. I = Shifted(J, k)
  <2>1. ASSUME NEW i \in I  PROVE \E j \in J : i = j + k
    <3>1. i \in 1 .. n /\ ~ (i \in 1 .. k) /\ s[i].at \in Nat
      BY <1>1, QueueType
    <3>2. i - k \in DOMAIN rest /\ rest[i - k] = s[i]
      BY <1>1, <1>2, <1>3, <3>1
    <3>3. i - k \in J
      BY <3>2
    <3>4. i = (i - k) + k
      BY <1>1, <3>1
    <3> HIDE DEF J
    <3> QED  BY <3>3, <3>4
  <2>2. ASSUME NEW j \in J  PROVE j + k \in I
    <3>1. j + k \in DOMAIN s /\ rest[j] = s[j + k]
      BY <1>1, <1>2, <1>3
    <3> QED  BY <3>1
  <2> HIDE DEF I, J
  <2> QED  BY <2>1, <2>2 DEF Shifted
<1>5. J \in SUBSET Nat /\ J \in SUBSET (DOMAIN rest) /\ IsFiniteSet(J)
  <2>1. J \in SUBSET (DOMAIN rest)
    OBVIOUS
  <2> HIDE DEF J
  <2> QED  BY <1>1, <1>3, <2>1, FS_Subset
<1>6. \A j \in J : h[j] = f[j + k]
  BY <1>1, <1>2, <1>3
<1> DEFINE g == [j \in J |-> h[j]]
<1>7. g \in [J -> Nat] /\ \A j \in J : g[j] = f[j + k] /\ g[j] = h[j]
  BY <1>3, <1>5, <1>6
<1> HIDE DEF rest, f, h, I, J, g
<1>8. TokenSum(g, J) = TokenSum(f, I)
  <2>1. k \in Nat /\ g \in [J -> Nat] /\ J \in SUBSET Nat /\ IsFiniteSet(J)
    BY <1>1, <1>5, <1>7
  <2>2. \A j \in J : g[j] = f[j + k]
    BY <1>7
  <2>3. TokenSum(g, J) = TokenSum(f, Shifted(J, k))
    BY ONLY <2>1, <2>2, TokenSumShift
  <2> QED  BY <1>4, <2>3
<1>9. TokenSum(g, J) = TokenSum(h, J)
  BY <1>7, TokenSumSame
<1> QED  BY <1>2, <1>8, <1>9 DEF SpentSince, rest, f, h, I, J

\* All of them count from an instant none of them precedes.
LEMMA SpentSinceAll ==
  ASSUME NEW s \in Seq(Spend), NEW t \in Int, \A i \in DOMAIN s : s[i].at >= t
  PROVE  /\ TokenSum([i \in DOMAIN s |-> s[i].tokens], DOMAIN s) = SpentSince(s, t)
         /\ SpentSince(s, 0) = SpentSince(s, t)
<1>1. {i \in DOMAIN s : s[i].at >= t} = DOMAIN s
  OBVIOUS
<1>2. \A i \in DOMAIN s : s[i].at >= 0
  BY QueueType
<1>3. {i \in DOMAIN s : s[i].at >= 0} = DOMAIN s
  BY <1>2
<1> QED  BY <1>1, <1>3 DEF SpentSince

-----------------------------------------------------------------------------
(* What settling does to a bucket whose spends are in order. *)

Settleable(b, t) == InOrder(b, t) /\ ObservationIsNewest(b, t)

\* Settling at t keeps the observation.
Kept(b, t) ==
  /\ b.observed # None
  /\ HoldAt(b, t) = b.blocked_until
  /\ t < b.observed.at + b.window

\* The spends popped are the k oldest, exactly those a window old.
LEMMA PoppedOldest ==
  ASSUME NEW b \in BucketType, NEW t \in Nat, NEW v \in Nat, InOrder(b, v)
  PROVE  LET k == Cardinality(Popped(b, t))
         IN  /\ k \in 0 .. Len(b.spends)
             /\ Popped(b, t) = 1 .. k
             /\ \A i \in 1 .. Len(b.spends) :
                  i <= k <=> b.spends[i].at + b.window <= t
<1> DEFINE k == Cardinality(Popped(b, t))
           n == Len(b.spends)
<1>1. /\ n \in Nat /\ DOMAIN b.spends = 1 .. n
      /\ \A i \in 1 .. n : b.spends[i].at \in Nat
      /\ b.window \in Nat
  BY SpendsType DEF BucketType
<1>2. Popped(b, t) \in SUBSET (1 .. n)
  BY <1>1 DEF Popped
<1>3. ASSUME NEW i \in Popped(b, t), NEW j \in 1 .. i
      PROVE  j \in Popped(b, t)
  <2>1. i \in 1 .. n /\ j \in 1 .. n /\ 1 .. j \subseteq 1 .. i
    BY <1>1, <1>2
  <2> QED  BY <1>1, <2>1 DEF Popped
<1>4. Popped(b, t) = 1 .. k /\ k \in 0 .. n
  <2> HIDE DEF n
  <2> QED  BY <1>1, <1>2, <1>3, InitialInterval
<1>5. ASSUME NEW i \in 1 .. n
      PROVE  i \in Popped(b, t) <=> b.spends[i].at + b.window <= t
  <2>1. ASSUME NEW j \in 1 .. i
        PROVE  j \in 1 .. n /\ b.spends[j].at <= b.spends[i].at
    <3>1. j \in 1 .. n /\ j <= i
      BY <1>1
    <3> QED  BY <1>1, <3>1 DEF InOrder
  <2>2. i \in 1 .. i
    OBVIOUS
  <2> QED  BY <1>1, <2>1, <2>2 DEF Popped
<1> HIDE DEF k, n
<1>6. \A i \in 1 .. n : i <= k <=> i \in Popped(b, t)
  BY <1>1, <1>4
<1> QED  BY <1>1, <1>4, <1>5, <1>6 DEF k, n

\* What settling makes of the queue and of the observation.
LEMMA SettledShape ==
  ASSUME NEW b \in BucketType, NEW t \in Nat, NEW v \in Nat, Settleable(b, v)
  PROVE  LET k == Cardinality(Popped(b, t))
         IN  /\ Settle(b, t).spends = SubSeq(b.spends, k + 1, Len(b.spends))
             /\ Settle(b, t).observed =
                  IF Kept(b, t)
                  THEN [remaining |-> AtMost(b.observed.remaining + SpentBy(b, 1 .. k),
                                             b.max_tokens),
                        at |-> b.observed.at]
                  ELSE None
             /\ Settle(b, t).observed # None <=> Kept(b, t)
<1> DEFINE k == Cardinality(Popped(b, t))
           l == Lift(b, t)
           c == Forget(l, t)
<1>1. /\ l \in BucketType /\ c \in BucketType
      /\ c.spends = b.spends
  BY LiftForgetType DEF Instant
<1>2. /\ c.window = b.window /\ c.max_tokens = b.max_tokens
      /\ c.observed = IF Kept(b, t) THEN b.observed ELSE None
  <2>1. /\ l.window = b.window /\ l.max_tokens = b.max_tokens
        /\ l.observed = IF HoldAt(b, t) = b.blocked_until THEN b.observed ELSE None
    BY DEF Lift, HoldAt, BucketType
  <2> HIDE DEF l
  <2>2. /\ c.window = l.window /\ c.max_tokens = l.max_tokens
        /\ c.observed = IF l.observed # None /\ t >= l.observed.at + l.window
                        THEN None ELSE l.observed
    BY <1>1 DEF Forget, BucketType
  <2>3. b.observed # None => b.observed.at \in Nat
    BY DEF BucketType, Option, Observation, Instant
  <2>4. b.window \in Nat
    BY DEF BucketType
  <2> HIDE DEF c
  <2> QED  BY <2>1, <2>2, <2>3, <2>4 DEF Kept
<1>3. Popped(c, t) = Popped(b, t)
  <2> HIDE DEF c
  <2> QED  BY <1>1, <1>2 DEF Popped
<1>4. /\ Settle(b, t).spends = SubSeq(b.spends, k + 1, Len(b.spends))
      /\ Settle(b, t).observed = Credited(c, Popped(b, t))
  <2>1. Settle(b, t) = Release(c, t)
    BY DEF Settle
  <2> HIDE DEF c
  <2> QED  BY <1>1, <1>3, <2>1 DEF Release, BucketType
<1>5. Popped(b, t) = 1 .. k /\ k \in 0 .. Len(b.spends) /\ Len(b.spends) \in Nat
      /\ DOMAIN b.spends = 1 .. Len(b.spends)
  BY PoppedOldest, SpendsType DEF Settleable
<1>8. Settle(b, t).observed # None <=> Kept(b, t)
  <2>1. Credited(c, Popped(c, t)) # None <=> c.observed # None
    <3> HIDE DEF c
    <3> QED  BY <1>1, PoppedBound, CreditedType DEF Instant
  <2> QED  BY <1>2, <1>3, <1>4, <2>1 DEF Kept
<1>6. CASE ~ Kept(b, t)
  BY <1>2, <1>4, <1>6, <1>8
<1>7. CASE Kept(b, t)
  <2>1. \A i \in 1 .. k : Deducted(c, i)
    BY <1>1, <1>2, <1>5, <1>7 DEF Deducted, Settleable, ObservationIsNewest
  <2>2. {i \in 1 .. k : Deducted(c, i)} = 1 .. k
    BY <2>1
  <2>3. SpentBy(c, 1 .. k) = SpentBy(b, 1 .. k)
    BY <1>1 DEF SpentBy
  <2>4. /\ b.observed \in Observation /\ b.observed # None
        /\ b.observed.remaining \in Nat /\ b.max_tokens \in Nat
        /\ b.observed.remaining <= b.max_tokens
    BY <1>7 DEF Kept, BucketType, Option, Observation, Settleable, ObservationIsNewest
  <2> DEFINE sum == AtMost(b.observed.remaining + SpentBy(b, 1 .. k), b.max_tokens)
  <2>5. CASE 1 .. k = {}
    <3>1. Credited(c, 1 .. k) = b.observed
      BY <1>2, <1>7, <2>2, <2>5 DEF Credited
    <3>2. SpentBy(b, 1 .. k) = 0
      BY <2>5, TokenSumEmpty DEF SpentBy
    <3>3. sum = b.observed.remaining
      BY <2>4, <3>2 DEF AtMost
    <3>4. b.observed = [remaining |-> b.observed.remaining, at |-> b.observed.at]
      BY <2>4 DEF Observation
    <3> QED  BY <1>4, <1>5, <1>7, <1>8, <3>1, <3>3, <3>4
  <2>6. CASE 1 .. k # {}
    <3>1. Credited(c, 1 .. k) = [remaining |-> AtMost(c.observed.remaining + SpentBy(c, 1 .. k),
                                                      c.max_tokens),
                                 at |-> c.observed.at]
      BY <1>2, <1>7, <2>2, <2>4, <2>6 DEF Credited
    <3>2. Credited(c, 1 .. k) = [remaining |-> sum, at |-> b.observed.at]
      BY <1>2, <1>7, <2>3, <3>1
    <3> QED  BY <1>4, <1>5, <1>7, <1>8, <3>2
  <2> QED  BY <2>5, <2>6
<1> QED  BY <1>4, <1>6, <1>7

\* The spends before an instant, popped from the front, and those since.
LEMMA SplitQueue ==
  ASSUME NEW s \in Seq(Spend), NEW k \in 0 .. Len(s), NEW since \in Int,
         \A i \in 1 .. Len(s) : i <= k <=> s[i].at < since
  PROVE  LET rest == SubSeq(s, k + 1, Len(s))
         IN  /\ TokenSum([i \in DOMAIN s |-> s[i].tokens], 1 .. k)
                  + SpentSince(s, since) = SpentSince(s, 0)
             /\ rest \in Seq(Spend)
             /\ \A u \in Int : u >= since => SpentSince(rest, u) = SpentSince(s, u)
             /\ \A i \in DOMAIN rest : rest[i].at >= since
<1> DEFINE n == Len(s)
           old == 1 .. k
           rest == SubSeq(s, k + 1, n)
           f == [i \in DOMAIN s |-> s[i].tokens]
           I == {i \in DOMAIN s : s[i].at >= since}
           J == {i \in DOMAIN s : s[i].at >= 0}
<1>1. /\ n \in Nat /\ DOMAIN s = 1 .. n /\ k \in 0 .. n
      /\ \A i \in DOMAIN s : s[i].at \in Nat
  BY QueueType
<1>2. IsFiniteSet(DOMAIN s) /\ f \in [DOMAIN s -> Nat]
  BY QueueType
<1>3. old \in SUBSET (DOMAIN s) /\ I \in SUBSET (DOMAIN s)
  BY <1>1
<1>4. \A i \in DOMAIN s : s[i].at >= since <=> ~ (i <= k)
  BY <1>1
<1>5. old \cap I = {}
  BY <1>4
<1>6. J = old \cup I
  <2>1. \A i \in DOMAIN s : s[i].at >= 0
    BY <1>1
  <2>2. \A i \in DOMAIN s : i \in old \cup I
    BY <1>1, <1>4
  <2> QED  BY <1>3, <2>1, <2>2
<1>7. TokenSum(f, old) + SpentSince(s, since) = SpentSince(s, 0)
  <2>1. IsFiniteSet(old) /\ IsFiniteSet(I)
    BY <1>2, <1>3, FS_Subset
  <2> HIDE DEF f, old, I, J
  <2>2. TokenSum(f, old \cup I) = TokenSum(f, old) + TokenSum(f, I)
    BY <1>2, <1>3, <1>5, <2>1, TokenSumSplit
  <2> QED  BY <1>6, <2>2 DEF SpentSince, f, I, J
<1>8. /\ rest \in Seq(Spend) /\ Len(rest) = n - k
      /\ \A i \in 1 .. n - k : rest[i] = s[i + k]
  <2>1. \A i \in k + 1 .. n : s[i] \in Spend
    BY <1>1, QueueType
  <2>2. k + 1 \in Int /\ n \in Int
    BY <1>1
  <2> HIDE DEF n
  <2>3. /\ rest \in Seq(Spend)
        /\ Len(rest) = IF k + 1 <= n THEN n - (k + 1) + 1 ELSE 0
        /\ \A i \in 1 .. n - (k + 1) + 1 : rest[i] = s[(k + 1) + i - 1]
    BY <2>1, <2>2, SubSeqProperties
  <2> HIDE DEF rest
  <2> QED  BY <1>1, <2>3
<1>9. ASSUME NEW u \in Int, u >= since
      PROVE  SpentSince(rest, u) = SpentSince(s, u)
  <2>1. \A i \in 1 .. k : s[i].at < u
    BY <1>1, <1>9
  <2> QED  BY <2>1, SpentSinceRest
<1>10. \A i \in DOMAIN rest : rest[i].at >= since
  <2> HIDE DEF rest
  <2>1. DOMAIN rest = 1 .. n - k
    BY <1>8
  <2>2. ASSUME NEW i \in 1 .. n - k  PROVE rest[i].at >= since
    <3>1. i + k \in DOMAIN s /\ ~ (i + k <= k)
      BY <1>1
    <3> QED  BY <1>4, <1>8, <3>1
  <2> QED  BY <2>1, <2>2
<1> HIDE DEF rest, f, old
<1> QED  BY <1>7, <1>8, <1>9, <1>10 DEF rest, f, old

\* What settling pops and what it leaves are all there is.
LEMMA PoppedAndLeft ==
  ASSUME NEW b \in BucketType, NEW t \in Nat, NEW v \in Nat, Settleable(b, v)
  PROVE  LET since == t - b.window + 1
             rest == Settle(b, t).spends
         IN  /\ since \in Int
             /\ SpentBy(b, 1 .. Cardinality(Popped(b, t)))
                  + SpentSince(b.spends, since) = SpentSince(b.spends, 0)
             /\ rest \in Seq(Spend)
             /\ \A u \in Int : u >= since =>
                  SpentSince(rest, u) = SpentSince(b.spends, u)
             /\ \A i \in DOMAIN rest : rest[i].at >= since
<1> DEFINE k == Cardinality(Popped(b, t))
           s == b.spends
           since == t - b.window + 1
<1>1. /\ s \in Seq(Spend) /\ b.window \in Nat
      /\ \A i \in 1 .. Len(s) : s[i].at \in Nat
  BY QueueType DEF BucketType
<1>2. /\ k \in 0 .. Len(s)
      /\ \A i \in 1 .. Len(s) : i <= k <=> s[i].at + b.window <= t
  BY PoppedOldest DEF Settleable
<1>3. since \in Int
  BY <1>1
<1>4. \A i \in 1 .. Len(s) : i <= k <=> s[i].at < since
  <2> DEFINE w == b.window
  <2>1. w \in Nat /\ since = t - w + 1
    BY <1>1
  <2>2. ASSUME NEW i \in 1 .. Len(s)
        PROVE  s[i].at \in Nat /\ (i <= k <=> s[i].at + w <= t)
    BY <1>1, <1>2
  <2> HIDE DEF s, k, w, since
  <2> QED  BY <2>1, <2>2
<1>5. Settle(b, t).spends = SubSeq(s, k + 1, Len(s))
  BY SettledShape
<1> HIDE DEF k, s, since
<1>6. /\ TokenSum([i \in DOMAIN s |-> s[i].tokens], 1 .. k)
           + SpentSince(s, since) = SpentSince(s, 0)
      /\ SubSeq(s, k + 1, Len(s)) \in Seq(Spend)
      /\ \A u \in Int : u >= since =>
           SpentSince(SubSeq(s, k + 1, Len(s)), u) = SpentSince(s, u)
      /\ \A i \in DOMAIN SubSeq(s, k + 1, Len(s)) :
           SubSeq(s, k + 1, Len(s))[i].at >= since
  BY <1>1, <1>2, <1>3, <1>4, SplitQueue
<1> QED  BY <1>3, <1>5, <1>6 DEF SpentBy, k, s, since

\* Settling at an instant leaves a bucket that can be settled from it on.
LEMMA SettledIsSettleable ==
  ASSUME NEW b \in BucketType, NEW v \in Nat, Settleable(b, v),
         NEW t \in Nat, v <= t
  PROVE  Settle(b, t) \in BucketType /\ Settleable(Settle(b, t), t)
<1>1. Settleable(b, t)
  BY OrderedLater DEF Settleable
<1> QED  BY <1>1, SettleOrdered, SettleType DEF Settleable, Instant

\* Settled twice, the queue is popped as far as by the second time alone.
LEMMA SpendsSettledTwice ==
  ASSUME NEW b \in BucketType, NEW v \in Nat, Settleable(b, v),
         NEW s \in Nat, NEW t \in Nat, v <= s, s <= t
  PROVE  Settle(Settle(b, s), t).spends = Settle(b, t).spends
<1> DEFINE c == Settle(b, s)
           q == b.spends
           n == Len(q)
           w == b.window
           first == Cardinality(Popped(b, s))
           second == Cardinality(Popped(c, t))
           both == Cardinality(Popped(b, t))
<1>1. /\ q \in Seq(Spend) /\ n \in Nat /\ w \in Nat
      /\ \A i \in 1 .. n : q[i].at \in Nat
  BY QueueType DEF BucketType
<1>2. c \in BucketType /\ Settleable(c, s) /\ c.window = w
  BY SettledIsSettleable, SettleFields DEF Instant
<1>3. /\ first \in 0 .. n /\ both \in 0 .. n
      /\ \A i \in 1 .. n : i <= first <=> q[i].at + w <= s
      /\ \A i \in 1 .. n : i <= both <=> q[i].at + w <= t
  BY PoppedOldest DEF Settleable
<1>4. c.spends = SubSeq(q, first + 1, n)
  BY SettledShape
<1> HIDE DEF c
<1>5. /\ second \in 0 .. Len(c.spends)
      /\ \A i \in 1 .. Len(c.spends) : i <= second <=> c.spends[i].at + w <= t
  BY <1>2, PoppedOldest DEF Settleable
<1>6. Settle(c, t).spends = SubSeq(c.spends, second + 1, Len(c.spends))
  BY <1>2, SettledShape
<1>7. Settle(b, t).spends = SubSeq(q, both + 1, n)
  BY SettledShape
<1> HIDE DEF q, n, w, first, second, both
<1>8. /\ c.spends \in Seq(Spend) /\ Len(c.spends) = n - first
      /\ \A i \in 1 .. n - first : c.spends[i] = q[i + first]
  <2>1. n = Len(q)
    BY DEF n
  <2> QED  BY <1>1, <1>3, <1>4, <2>1
<1>9. both = first + second
  <2>1. first <= both
    <3>1. CASE first = 0
      BY <1>3, <3>1
    <3>2. CASE first # 0
      <4>1. first \in 1 .. n /\ first <= first
        BY <1>1, <1>3, <3>2
      <4> DEFINE a == q[first].at
      <4>2. a + w <= s /\ a \in Nat /\ w \in Nat
        BY <1>1, <1>3, <4>1
      <4>3. a + w <= t
        <5> HIDE DEF a
        <5> QED  BY <4>2
      <4> QED  BY <1>3, <4>1, <4>3
    <3> QED  BY <3>1, <3>2
  <2>2. \A i \in 1 .. n - first : i <= second <=> i + first <= both
    <3>1. ASSUME NEW i \in 1 .. n - first
          PROVE  i <= second <=> i + first <= both
      <4>1. i \in 1 .. Len(c.spends) /\ i + first \in 1 .. n
        BY <1>1, <1>3, <1>8
      <4>2. c.spends[i].at = q[i + first].at
        BY <1>8
      <4> QED  BY <1>3, <1>5, <4>1, <4>2
    <3> QED  BY <3>1
  <2>3. second \in 0 .. n - first
    BY <1>5, <1>8
  <2>4. ~ (second < both - first)
    <3> SUFFICES ASSUME second < both - first  PROVE FALSE
      OBVIOUS
    <3>1. second + 1 \in 1 .. n - first /\ second + 1 + first <= both
      BY <1>1, <1>3, <2>3
    <3> QED  BY <2>2, <2>3, <3>1
  <2>5. ~ (second > both - first)
    <3> SUFFICES ASSUME second > both - first  PROVE FALSE
      OBVIOUS
    <3>1. second \in 1 .. n - first /\ ~ (second + first <= both)
      BY <1>1, <1>3, <2>1, <2>3
    <3> QED  BY <2>2, <2>3, <3>1
  <2> QED  BY <1>3, <2>3, <2>4, <2>5
<1>10. /\ Settle(c, t).spends \in Seq(Spend)
       /\ Len(Settle(c, t).spends) = n - both
       /\ \A i \in 1 .. n - both : Settle(c, t).spends[i] = c.spends[i + second]
  <2>1. Len(c.spends) \in Nat /\ second \in 0 .. Len(c.spends)
    BY <1>5, <1>8
  <2>2. Len(c.spends) - second = n - both
    BY <1>1, <1>3, <1>5, <1>8, <1>9
  <2> DEFINE p == c.spends
  <2>3. p \in Seq(Spend)
    BY <1>8
  <2> HIDE DEF p
  <2>4. /\ SubSeq(p, second + 1, Len(p)) \in Seq(Spend)
        /\ Len(p) \in Nat /\ second \in 0 .. Len(p)
        /\ Len(SubSeq(p, second + 1, Len(p))) = Len(p) - second
        /\ \A i \in 1 .. Len(p) - second :
             SubSeq(p, second + 1, Len(p))[i] = p[i + second]
    <3>1. Len(p) \in Nat /\ second \in 0 .. Len(p)
      BY <2>1 DEF p
    <3> QED  BY <2>3, <3>1
  <2> QED  BY <1>6, <2>2, <2>4 DEF p
<1>11. /\ Settle(b, t).spends \in Seq(Spend)
       /\ Len(Settle(b, t).spends) = n - both
       /\ \A i \in 1 .. n - both : Settle(b, t).spends[i] = q[i + both]
  <2>1. /\ SubSeq(q, both + 1, n) \in Seq(Spend)
        /\ Len(SubSeq(q, both + 1, n)) = n - both
        /\ \A i \in 1 .. n - both : SubSeq(q, both + 1, n)[i] = q[i + both]
    <3>1. n = Len(q)
      BY DEF n
    <3> QED  BY <1>1, <1>3, <3>1
  <2> QED  BY <1>7, <2>1
<1>12. ASSUME NEW i \in 1 .. n - both
       PROVE  Settle(c, t).spends[i] = Settle(b, t).spends[i]
  <2>1. i + second \in 1 .. n - first /\ (i + second) + first = i + both
    BY <1>1, <1>3, <1>5, <1>8, <1>9
  <2>2. c.spends[i + second] = q[i + both]
    BY <1>8, <2>1
  <2> QED  BY <1>10, <1>11, <2>2
<1>13. Settle(c, t).spends = Settle(b, t).spends
  BY <1>10, <1>11, <1>12, SeqEqual
<1> QED  BY <1>13 DEF c

\* An observation lasts until it is a window old or the hold is lifted.
LEMMA KeptTwice ==
  ASSUME NEW b \in BucketType, NEW v \in Nat, Settleable(b, v),
         NEW s \in Nat, NEW t \in Nat, s <= t
  PROVE  /\ Kept(Settle(b, s), t) <=> Kept(b, t)
         /\ HoldAt(Settle(b, s), t) = HoldAt(b, t)
         /\ Kept(b, t) => Kept(b, s)
<1> DEFINE c == Settle(b, s)
<1>1. c.window = b.window /\ c.blocked_until = HoldAt(b, s)
  BY SettleFields DEF Instant
<1>2. /\ c.observed = None <=> ~ Kept(b, s)
      /\ Kept(b, s) => c.observed.at = b.observed.at
  <2> DEFINE sum == AtMost(b.observed.remaining
                            + SpentBy(b, 1 .. Cardinality(Popped(b, s))), b.max_tokens)
  <2>1. /\ c.observed # None <=> Kept(b, s)
        /\ Kept(b, s) => c.observed = [remaining |-> sum, at |-> b.observed.at]
    BY SettledShape
  <2> HIDE DEF sum, c
  <2> QED  BY <2>1
<1>3. /\ b.blocked_until # None => b.blocked_until \in Nat
      /\ b.observed # None => b.observed.at \in Nat
      /\ b.window \in Nat
  BY DEF BucketType, Option, Observation, Instant
<1> HIDE DEF c
<1>4. HoldAt(c, t) = HoldAt(b, t)
  BY <1>1, <1>3 DEF HoldAt
<1>5. Kept(b, t) => Kept(b, s)
  BY <1>3 DEF Kept, HoldAt
<1>6. Kept(c, t) <=> Kept(b, t)
  BY <1>1, <1>2, <1>3, <1>4, <1>5 DEF Kept, HoldAt
<1> QED  BY <1>4, <1>5, <1>6 DEF c

\* and as much is popped.
LEMMA PoppedTwice ==
  ASSUME NEW b \in BucketType, NEW v \in Nat, Settleable(b, v),
         NEW s \in Nat, NEW t \in Nat, v <= s, s <= t
  PROVE  LET c == Settle(b, s)
         IN  /\ SpentBy(b, 1 .. Cardinality(Popped(b, t)))
                  = SpentBy(b, 1 .. Cardinality(Popped(b, s)))
                      + SpentBy(c, 1 .. Cardinality(Popped(c, t)))
             /\ SpentBy(b, 1 .. Cardinality(Popped(b, s))) \in Nat
             /\ SpentBy(c, 1 .. Cardinality(Popped(c, t))) \in Nat
<1> DEFINE c == Settle(b, s)
           S == s - b.window + 1
           T == t - b.window + 1
           x == SpentBy(b, 1 .. Cardinality(Popped(b, s)))
           y == SpentBy(c, 1 .. Cardinality(Popped(c, t)))
           z == SpentBy(b, 1 .. Cardinality(Popped(b, t)))
<1>1. c \in BucketType /\ Settleable(c, s) /\ c.window = b.window
  BY SettledIsSettleable, SettleFields DEF Instant
<1>2. S \in Int /\ T \in Int /\ T >= S
  <2> DEFINE w == b.window
  <2>1. w \in Nat
    BY DEF BucketType
  <2> HIDE DEF w
  <2>2. s - w + 1 \in Int /\ t - w + 1 \in Int /\ t - w + 1 >= s - w + 1
    BY <2>1
  <2> QED  BY <2>2 DEF w
<1>3. /\ x + SpentSince(b.spends, S) = SpentSince(b.spends, 0)
      /\ c.spends \in Seq(Spend)
      /\ \A u \in Int : u >= S => SpentSince(c.spends, u) = SpentSince(b.spends, u)
      /\ \A i \in DOMAIN c.spends : c.spends[i].at >= S
  BY PoppedAndLeft
<1>4. z + SpentSince(b.spends, T) = SpentSince(b.spends, 0)
  BY PoppedAndLeft
<1>5. x \in Nat /\ z \in Nat
  <2>1. /\ 1 .. Cardinality(Popped(b, s)) \in SUBSET (DOMAIN b.spends)
        /\ 1 .. Cardinality(Popped(b, t)) \in SUBSET (DOMAIN b.spends)
    BY PoppedBound, PoppedOldest DEF Settleable, Instant
  <2> QED  BY <2>1, SpentByType
<1> HIDE DEF c, x, z
<1>6. y + SpentSince(c.spends, T) = SpentSince(c.spends, 0)
  BY <1>1, PoppedAndLeft
<1>7. y \in Nat
  <2>1. 1 .. Cardinality(Popped(c, t)) \in SUBSET (DOMAIN c.spends)
    BY <1>1, PoppedBound, PoppedOldest DEF Settleable, Instant
  <2> QED  BY <1>1, <2>1, SpentByType
<1> HIDE DEF S, T, y
<1>8. SpentSince(c.spends, 0) = SpentSince(b.spends, S)
  <2> DEFINE rest == c.spends
  <2>1. rest \in Seq(Spend) /\ S \in Int /\ \A i \in DOMAIN rest : rest[i].at >= S
    BY <1>2, <1>3
  <2> HIDE DEF rest
  <2>2. SpentSince(rest, 0) = SpentSince(rest, S)
    BY <2>1, SpentSinceAll
  <2> QED  BY <1>2, <1>3, <2>2 DEF rest
<1>9. SpentSince(c.spends, T) = SpentSince(b.spends, T)
  BY <1>2, <1>3
<1>10. /\ SpentSince(b.spends, S) \in Nat /\ SpentSince(b.spends, T) \in Nat
       /\ SpentSince(b.spends, 0) \in Nat
  <2>1. b.spends \in Seq(Spend) /\ 0 \in Int
    BY DEF BucketType
  <2> QED  BY <1>2, <2>1, SpentSinceType
<1>11. z = x + y
  BY <1>3, <1>4, <1>5, <1>6, <1>7, <1>8, <1>9, <1>10
<1> QED  BY <1>5, <1>7, <1>11 DEF c, x, y, z

\* Buckets with the same fields are the same.
LEMMA SameBucket ==
  ASSUME NEW b \in BucketType, NEW c \in BucketType,
         b.max_tokens = c.max_tokens, b.window = c.window,
         b.observed = c.observed, b.spends = c.spends,
         b.in_flight = c.in_flight, b.blocked_until = c.blocked_until
  PROVE  b = c
BY DEF BucketType

\* Settling at an instant and again later is settling later.
LEMMA SettleTwice ==
  ASSUME NEW b \in BucketType, NEW v \in Nat, Settleable(b, v),
         NEW s \in Nat, NEW t \in Nat, v <= s, s <= t
  PROVE  Settle(Settle(b, s), t) = Settle(b, t)
<1> DEFINE c == Settle(b, s)
           d == Settle(c, t)
           e == Settle(b, t)
<1>1. /\ c \in BucketType /\ Settleable(c, s) /\ c.window = b.window
      /\ c.max_tokens = b.max_tokens /\ c.in_flight = b.in_flight
  BY SettledIsSettleable, SettleFields DEF Instant
<1>2. e \in BucketType
  BY SettleType DEF Instant
<1>3. d.spends = e.spends
  BY SpendsSettledTwice
<1>4. /\ Kept(c, t) <=> Kept(b, t)
      /\ HoldAt(c, t) = HoldAt(b, t)
      /\ Kept(b, t) => Kept(b, s)
  BY KeptTwice
<1>5. /\ e.max_tokens = b.max_tokens /\ e.window = b.window
      /\ e.in_flight = b.in_flight /\ e.blocked_until = HoldAt(b, t)
  BY SettleFields DEF Instant
<1> DEFINE x == SpentBy(b, 1 .. Cardinality(Popped(b, s)))
           y == SpentBy(c, 1 .. Cardinality(Popped(c, t)))
           z == SpentBy(b, 1 .. Cardinality(Popped(b, t)))
           r == b.observed.remaining
           M == b.max_tokens
<1>6. z = x + y /\ x \in Nat /\ y \in Nat
  BY PoppedTwice
<1>7. /\ Kept(b, s) => c.observed = [remaining |-> AtMost(r + x, M), at |-> b.observed.at]
      /\ Kept(b, t) => e.observed = [remaining |-> AtMost(r + z, M), at |-> b.observed.at]
      /\ ~ Kept(b, t) => e.observed = None
  BY SettledShape
<1> HIDE DEF c
<1>8. /\ d \in BucketType
      /\ d.max_tokens = b.max_tokens /\ d.window = b.window
      /\ d.in_flight = b.in_flight /\ d.blocked_until = HoldAt(c, t)
  BY <1>1, SettleType, SettleFields DEF Instant
<1>9. /\ Kept(c, t) => d.observed = [remaining |-> AtMost(c.observed.remaining + y, c.max_tokens),
                                     at |-> c.observed.at]
      /\ ~ Kept(c, t) => d.observed = None
  BY <1>1, SettledShape
<1> HIDE DEF d, e, x, y, z
<1>10. d.observed = e.observed
  <2>1. CASE ~ Kept(b, t)
    BY <1>4, <1>7, <1>9, <2>1
  <2>2. CASE Kept(b, t)
    <3>1. r \in Nat /\ M \in Nat
      BY <2>2 DEF Kept, BucketType, Option, Observation
    <3>2. c.observed.remaining = AtMost(r + x, M) /\ c.observed.at = b.observed.at
      BY <1>4, <1>7, <2>2
    <3>3. d.observed = [remaining |-> AtMost(AtMost(r + x, M) + y, M), at |-> b.observed.at]
      BY <1>1, <1>4, <1>9, <2>2, <3>2
    <3> HIDE DEF r, M
    <3>4. AtMost(AtMost(r + x, M) + y, M) = AtMost(r + z, M)
      BY <1>6, <3>1 DEF AtMost
    <3> QED  BY <1>7, <2>2, <3>3, <3>4
  <2> QED  BY <2>1, <2>2
<1>11. d = e
  BY <1>2, <1>3, <1>4, <1>5, <1>8, <1>10, SameBucket
<1> QED  BY <1>11 DEF c, d, e

(***************************************************************************)
(* Settling is observation, not action: however often and whenever a       *)
(* bucket is settled in between (by a poll, by a waiter that wakes early,  *)
(* by budgets), settling it at a later instant gives the same bucket.      *)
(***************************************************************************)
THEOREM SettlingCoalesces == Spec => []SettleCoalesces
<1>1. TypeOK /\ BookkeepingOrdered => SettleCoalesces
  <2> SUFFICES ASSUME TypeOK, BookkeepingOrdered,
                      NEW g \in Groups, buckets[g] # None,
                      NEW s \in now .. now + buckets[g].window + 1,
                      NEW t \in now .. now + buckets[g].window + 1, s <= t
               PROVE  Settle(Settle(buckets[g], s), t) = Settle(buckets[g], t)
    BY DEF SettleCoalesces
  <2>1. buckets[g] \in BucketType /\ now \in Nat
    BY DEF TypeOK, Option, Instant
  <2>2. Settleable(buckets[g], now)
    BY DEF BookkeepingOrdered, Settleable
  <2>3. s \in Nat /\ t \in Nat /\ now <= s
    BY <2>1 DEF BucketType
  <2> QED  BY <2>1, <2>2, <2>3, SettleTwice
<1> QED  BY <1>1, TypeCorrect, BookkeepingInOrder, PTL

-----------------------------------------------------------------------------
(* ready_at is never late. *)

\* All the spends of a bucket count from instant 0 on.
LEMMA AllSpent ==
  ASSUME NEW b \in BucketType
  PROVE  SpentBy(b, DOMAIN b.spends) = SpentSince(b.spends, 0)
<1>1. b.spends \in Seq(Spend)
  BY DEF BucketType
<1>2. \A i \in DOMAIN b.spends : b.spends[i].at >= 0
  BY <1>1, QueueType
<1> QED  BY <1>1, <1>2, SpentSinceAll DEF SpentBy

\* While its observation lasts, a bucket gains what is popped and no more.
LEMMA BalanceLater ==
  ASSUME NEW b \in BucketType, NEW v \in Nat, Settleable(b, v), NEW t \in Nat,
         b.observed # None => Kept(b, t)
  PROVE  Balance(Settle(b, t))
           <= Balance(b) + SpentBy(b, 1 .. Cardinality(Popped(b, t)))
<1> DEFINE c == Settle(b, t)
           since == t - b.window + 1
           x == SpentBy(b, 1 .. Cardinality(Popped(b, t)))
           M == b.max_tokens
<1>1. c \in BucketType /\ c.max_tokens = M /\ M \in Nat
  BY SettleType, SettleFields DEF Instant, BucketType
<1>2. x \in Nat
  <2>1. 1 .. Cardinality(Popped(b, t)) \in SUBSET (DOMAIN b.spends)
    BY PoppedBound, PoppedOldest DEF Settleable, Instant
  <2> QED  BY <2>1, SpentByType
<1>3. CASE b.observed # None
  <2>1. c.observed = [remaining |-> AtMost(b.observed.remaining + x, M),
                      at |-> b.observed.at]
    BY <1>3, SettledShape
  <2>2. c.observed # None
    BY <1>3, SettledShape
  <2>3. b.observed.remaining \in Nat
    BY <1>3 DEF BucketType, Option, Observation
  <2> HIDE DEF c, x
  <2>4. Balance(b) = b.observed.remaining /\ Balance(c) = AtMost(b.observed.remaining + x, M)
    BY <1>3, <2>1, <2>2 DEF Balance
  <2> DEFINE r == b.observed.remaining
  <2> HIDE DEF r, M
  <2>5. AtMost(r + x, M) <= r + x
    BY <1>1, <1>2, <2>3 DEF AtMost, r
  <2> QED  BY <2>4, <2>5 DEF c, x, r, M
<1>4. CASE b.observed = None
  <2>1. c.observed = None
    BY <1>4, SettledShape DEF Kept
  <2>2. /\ since \in Int
        /\ x + SpentSince(b.spends, since) = SpentSince(b.spends, 0)
        /\ c.spends \in Seq(Spend)
        /\ SpentSince(c.spends, since) = SpentSince(b.spends, since)
        /\ \A i \in DOMAIN c.spends : c.spends[i].at >= since
    <3>1. since >= since
      <4> DEFINE w == b.window
      <4>1. w \in Nat
        BY DEF BucketType
      <4> HIDE DEF w
      <4>2. t - w + 1 >= t - w + 1
        BY <4>1
      <4> QED  BY <4>2 DEF w
    <3> QED  BY <3>1, PoppedAndLeft
  <2> HIDE DEF c, x, since
  <2> DEFINE rest == c.spends
             left == SpentSince(b.spends, since)
             all == SpentSince(b.spends, 0)
  <2>3. SpentSince(rest, 0) = left
    <3>1. rest \in Seq(Spend) /\ \A i \in DOMAIN rest : rest[i].at >= since
      BY <2>2
    <3> HIDE DEF rest
    <3>2. SpentSince(rest, 0) = SpentSince(rest, since)
      BY <2>2, <3>1, SpentSinceAll
    <3> QED  BY <2>2, <3>2 DEF rest
  <2>4. Balance(c) = SaturatingSub(M, left) /\ Balance(b) = SaturatingSub(M, all)
    BY <1>1, <1>4, <2>1, <2>3, AllSpent DEF Balance
  <2>5. left \in Nat /\ all \in Nat /\ x + left = all
    <3>1. b.spends \in Seq(Spend)
      BY DEF BucketType
    <3>2. left \in Nat
      BY <2>2, <3>1, SpentSinceType
    <3>3. all \in Nat
      <4>1. 0 \in Int
        OBVIOUS
      <4> QED  BY <3>1, <4>1, SpentSinceType
    <3>4. x + left = all
      BY <2>2
    <3> QED  BY <3>2, <3>3, <3>4
  <2> HIDE DEF left, all, M
  <2>6. SaturatingSub(M, left) <= SaturatingSub(M, all) + x
    BY <1>1, <1>2, <2>5 DEF SaturatingSub
  <2>7. Balance(c) <= Balance(b) + x
    BY <2>4, <2>6 DEF M, left, all
  <2> QED  BY <2>7 DEF c, x
<1> QED  BY <1>3, <1>4

\* A settled bucket lets nobody in before the instant ready_at names.
LEMMA NotBeforeReady ==
  ASSUME NEW c \in BucketType, NEW s \in Nat, Settleable(c, s),
         NEW t \in Nat, s <= t, t < ReadyAt(c, s)
  PROVE  LET e == Settle(c, t)
         IN  ~ (e.blocked_until = None /\ Available(e) >= ReservationCost(e))
<1> DEFINE e == Settle(c, t)
           k == Cardinality(Popped(c, t))
           cost == ReservationCost(c)
<1>1. /\ e \in BucketType /\ e.max_tokens = c.max_tokens
      /\ e.in_flight = c.in_flight /\ e.blocked_until = HoldAt(c, t)
  BY SettleType, SettleFields DEF Instant
<1>2. CASE c.blocked_until # None
  <2>1. ReadyAt(c, s) = c.blocked_until
    BY <1>2 DEF ReadyAt
  <2>2. c.blocked_until \in Nat
    BY <1>2 DEF BucketType, Option, Instant
  <2>3. HoldAt(c, t) = c.blocked_until
    BY <2>1, <2>2 DEF HoldAt
  <2> QED  BY <1>1, <1>2, <2>3
<1>3. CASE c.blocked_until = None
  <2>1. cost \in Nat /\ Available(c) \in Nat /\ Available(c) < cost
    <3>1. ~ (Available(c) >= cost)
      BY <1>3 DEF ReadyAt
    <3> QED  BY <3>1, AvailableType
  <2>2. \A i \in DOMAIN c.spends :
          Deducted(c, i) /\ {j \in 1 .. i : Deducted(c, j)} = 1 .. i
    <3>1. \A i \in DOMAIN c.spends : Deducted(c, i)
      BY DEF Deducted, Settleable, ObservationIsNewest
    <3>2. \A i \in DOMAIN c.spends : \A j \in 1 .. i : j \in DOMAIN c.spends
      BY SpendsType
    <3> QED  BY <3>1, <3>2
  <2>3. Enough(c) = {i \in DOMAIN c.spends : Available(c) + SpentBy(c, 1 .. i) >= cost}
    BY <2>2 DEF Enough
  <2>4. /\ k \in 0 .. Len(c.spends) /\ Len(c.spends) \in Nat
        /\ DOMAIN c.spends = 1 .. Len(c.spends)
        /\ \A i \in 1 .. Len(c.spends) : i <= k <=> c.spends[i].at + c.window <= t
        /\ \A i \in 1 .. Len(c.spends) : c.spends[i].at \in Nat
        /\ c.window \in Nat
    BY PoppedOldest, SpendsType DEF Settleable, BucketType
  <2>5. ASSUME Enough(c) # {}
        PROVE  /\ Earliest(Enough(c)) \in Enough(c)
               /\ \A i \in Enough(c) : Earliest(Enough(c)) <= i
               /\ Earliest(Enough(c)) \in 1 .. Len(c.spends)
               /\ ReadyAt(c, s) = c.spends[Earliest(Enough(c))].at + c.window
    <3>1. Enough(c) \in SUBSET (1 .. Len(c.spends)) /\ Enough(c) \in SUBSET Nat
      BY <2>3, <2>4
    <3>2. /\ Earliest(Enough(c)) \in Enough(c)
          /\ \A i \in Enough(c) : Earliest(Enough(c)) <= i
      BY <2>5, <3>1, LeastNatural DEF Earliest
    <3>3. ReadyAt(c, s) = c.spends[Earliest(Enough(c))].at + c.window
      BY <1>3, <2>1, <2>5 DEF ReadyAt
    <3> QED  BY <3>1, <3>2, <3>3
  <2> HIDE DEF e, k
  <2>6. k \notin Enough(c)
    <3> SUFFICES ASSUME k \in Enough(c)  PROVE FALSE
      OBVIOUS
    <3> DEFINE m == Earliest(Enough(c))
    <3>1. m \in 1 .. Len(c.spends) /\ m <= k /\ ReadyAt(c, s) = c.spends[m].at + c.window
      BY <2>5
    <3> HIDE DEF m
    <3>2. c.spends[m].at + c.window <= t
      BY <2>4, <3>1
    <3> QED  BY <2>4, <3>1, <3>2
  <2>7. SpentBy(c, 1 .. k) \in Nat /\ Available(c) + SpentBy(c, 1 .. k) < cost
    <3>1. SpentBy(c, 1 .. k) \in Nat
      <4>1. 1 .. k \in SUBSET (DOMAIN c.spends)
        BY <2>4
      <4> QED  BY <4>1, SpentByType
    <3>2. CASE k = 0
      <4>1. 1 .. k = {}
        BY <3>2
      <4>2. SpentBy(c, 1 .. k) = 0
        BY <4>1, TokenSumEmpty DEF SpentBy
      <4> QED  BY <2>1, <4>2
    <3>3. CASE k # 0
      <4>1. k \in DOMAIN c.spends
        BY <2>4, <3>3
      <4>2. ~ (Available(c) + SpentBy(c, 1 .. k) >= cost)
        BY <2>3, <2>6, <4>1
      <4> QED  BY <2>1, <3>1, <4>2
    <3> QED  BY <3>1, <3>2, <3>3
  <2>8. c.observed # None => Kept(c, t)
    <3> SUFFICES ASSUME c.observed # None  PROVE Kept(c, t)
      OBVIOUS
    <3>1. c.observed.at \in Nat
      BY DEF BucketType, Option, Observation, Instant
    <3>2. t < c.observed.at + c.window
      <4>1. CASE Enough(c) = {}
        BY <1>3, <2>1, <4>1 DEF ReadyAt
      <4>2. CASE Enough(c) # {}
        <5> DEFINE m == Earliest(Enough(c))
        <5>1. m \in 1 .. Len(c.spends) /\ ReadyAt(c, s) = c.spends[m].at + c.window
          BY <2>5, <4>2
        <5> HIDE DEF m
        <5>2. c.spends[m].at <= c.observed.at /\ c.spends[m].at \in Nat
          BY <2>4, <5>1 DEF Settleable, ObservationIsNewest
        <5> DEFINE at == c.spends[m].at
                   w  == c.window
        <5>3. /\ at \in Nat /\ at <= c.observed.at
              /\ ReadyAt(c, s) = at + w /\ w \in Nat
              /\ t < ReadyAt(c, s)
          BY <2>4, <5>1, <5>2
        <5> HIDE DEF at
        <5>4. t < c.observed.at + w
          <6> HIDE DEF w
          <6> QED  BY <3>1, <5>3
        <5> QED  BY <5>4
      <4> QED  BY <4>1, <4>2
    <3> QED  BY <1>3, <3>2 DEF Kept, HoldAt
  <2>9. Balance(e) <= Balance(c) + SpentBy(c, 1 .. k)
    BY <2>8, BalanceLater DEF e, k
  <2>10. /\ Balance(e) \in Nat /\ Balance(c) \in Nat /\ c.in_flight \in Nat
         /\ Available(e) = SaturatingSub(Balance(e), c.in_flight)
         /\ Available(c) = SaturatingSub(Balance(c), c.in_flight)
         /\ ReservationCost(e) = cost
    BY <1>1, AvailableType DEF Available, ReservationCost, BucketType
  <2> DEFINE x == SpentBy(c, 1 .. k)
  <2> HIDE DEF x, cost
  <2>11. Available(e) <= Available(c) + x
    <3>1. x \in Nat /\ Balance(e) <= Balance(c) + x
      BY <2>7, <2>9 DEF x
    <3> QED  BY <2>10, <3>1 DEF SaturatingSub
  <2>12. Available(e) < cost
    BY <1>1, <2>1, <2>7, <2>11, AvailableType DEF x
  <2>13. Available(e) \in Nat
    BY <1>1, AvailableType
  <2> QED  BY <2>1, <2>10, <2>12, <2>13 DEF e
<1> QED  BY <1>2, <1>3

(***************************************************************************)
(* ready_at is never late: whatever a bucket holds, no instant before the  *)
(* one its waiters are told would let a request in if no response arrives. *)
(***************************************************************************)
THEOREM ReadyIsNeverLate == Spec => []ReadyNeverLate
<1>1. TypeOK /\ BookkeepingOrdered => ReadyNeverLate
  <2> SUFFICES ASSUME TypeOK, BookkeepingOrdered,
                      NEW g \in Groups, buckets[g] # None,
                      NEW t \in now .. ReadyAt(Settle(buckets[g], now), now) - 1
               PROVE  ~ Admits(buckets[g], t)
    BY DEF ReadyNeverLate
  <2> DEFINE b == buckets[g]
             c == Settle(b, now)
  <2>1. b \in BucketType /\ now \in Nat /\ Settleable(b, now)
    BY DEF TypeOK, BookkeepingOrdered, Option, Instant, Settleable
  <2>2. c \in BucketType /\ Settleable(c, now)
    BY <2>1, SettledIsSettleable
  <2>3. ReadyAt(c, now) \in Nat
    BY <2>1, <2>2, ReadyAtType DEF Instant
  <2>4. t \in Nat /\ now <= t /\ t < ReadyAt(c, now)
    BY <2>1, <2>3
  <2>5. Settle(c, t) = Settle(b, t)
    BY <2>1, <2>4, SettleTwice
  <2> HIDE DEF b, c
  <2>6. ~ (Settle(c, t).blocked_until = None
             /\ Available(Settle(c, t)) >= ReservationCost(Settle(c, t)))
    BY <2>1, <2>2, <2>4, NotBeforeReady
  <2> QED  BY <2>5, <2>6 DEF Admits, b
<1> QED  BY <1>1, TypeCorrect, BookkeepingInOrder, PTL
=============================================================================
