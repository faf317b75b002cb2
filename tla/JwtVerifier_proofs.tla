------------------------ MODULE JwtVerifier_proofs ------------------------
(***************************************************************************)
(* Theorems of JwtVerifier, for any number of callers, any tokens and      *)
(* keys, whatever CCP publishes and retires, and any failures: the lock,   *)
(* the key set held, which tokens are accepted, and how soon a new key is. *)
(***************************************************************************)
EXTENDS JwtVerifier, Mutex_proofs, SequenceTheorems, FiniteSetTheorems

-----------------------------------------------------------------------------
(***************************************************************************)
(* The inductive invariant.                                                *)
(***************************************************************************)
\* The mutex: who is in verify is queued once, and who fetches is first.
LockState ==
  /\ queue \in Seq(Callers)
  /\ \A i, j \in 1 .. Len(queue) : queue[i] = queue[j] => i = j
  /\ \A c \in Callers : pc[c] # "idle" <=> \E i \in 1 .. Len(queue) : queue[i] = c
  /\ \A c \in Callers : pc[c] = "fetching" => queue[1] = c

\* A call that is under way has brought a readable token; a fetch is not over
\* its time.
CallState ==
  \A c \in Callers :
    /\ pc[c] # "idle" => token[c] \in Tokens /\ Unreadable(token[c]) = None
    /\ pc[c] = "fetching" => now <= timer[c] /\ timer[c] <= now + TIMEOUT
    /\ body[c] # None => pc[c] = "fetching"

\* CCP: sets are published in order, and a key retired does not come back.
EditionState ==
  /\ editions \in Seq([keys : SUBSET Kids, at : Nat])
  /\ Len(editions) > 0
  /\ \A i \in 1 .. Len(editions) : editions[i].at <= now
  /\ \A i, j \in 1 .. Len(editions) :
       i <= j => editions[i].at <= editions[j].at
  /\ \A i, j, l \in 1 .. Len(editions) : \A k \in Kids :
       i <= j /\ j <= l /\ k \in editions[i].keys /\ k \in editions[l].keys
         => k \in editions[j].keys

\* The key set of an edition was taken when it was the last, or later editions
\* came after t.
LastAt(i, t) == i < Len(editions) => t <= editions[i + 1].at

KeyState ==
  /\ KeysOfOneEdition
  /\ held \in 0 .. Len(editions)
  /\ fetched_at # None => fetched_at <= now /\ held # 0
  /\ http /\ fetched_at # None => LastAt(held, fetched_at - TIMEOUT)
  /\ \A c \in Callers :
       body[c] # None =>
         /\ body[c] \in 1 .. Len(editions)
         /\ held <= body[c]
         /\ LastAt(body[c], timer[c] - TIMEOUT)

JwtInv == TypeOK /\ LockState /\ CallState /\ EditionState /\ KeyState

-----------------------------------------------------------------------------
(* The mutex. *)

\* Whoever leaves the queue leaves everyone else as they were.
LEMMA Unlocked ==
  ASSUME LockState, NEW c \in Callers, pc[c] # "idle", Unlock(c)
  PROVE  /\ queue' \in Seq(Callers) /\ Distinct(queue')
         /\ \A d : InQueue(queue', d) <=> InQueue(queue, d) /\ d # c
         /\ queue[1] # c => queue'[1] = queue[1]
<1>1. queue \in Seq(Callers) /\ Distinct(queue) /\ InQueue(queue, c)
  BY DEF LockState, Distinct, InQueue
<1>2. queue' = Released(queue, c)
  BY DEF Unlock
<1> QED  BY <1>1, <1>2, ReleasedOne

-----------------------------------------------------------------------------
(* What a token is checked for, and what a fetched key set leaves. *)

LEMMA CheckedOutcome ==
  ASSUME NEW t
  PROVE  Checked(t) \in Outcomes
<1> DEFINE claims == Claims(t)
           audience == {claims.audience[i] : i \in DOMAIN claims.audience}
<1>1. Checked(t) \in {"malformed", "bad_signature", "wrong_issuer", "wrong_audience",
                      "ok", "expired"}
  <2>1. Checked(t) = IF t.signature = None THEN "malformed"
      ELSE IF t.signature # t.header.kid THEN "bad_signature"
      ELSE IF claims = None THEN "malformed"
      ELSE IF claims.issuer \notin ISSUERS THEN "wrong_issuer"
      ELSE IF ~Addressed(audience) THEN "wrong_audience"
      ELSE IF claims.expires_at = None THEN "malformed"
      ELSE IF claims.expires_at + LEEWAY > now THEN "ok"
      ELSE "expired"
    BY DEF Checked
  <2> HIDE DEF claims, audience
  <2> QED  BY <2>1
<1> QED  BY <1>1 DEF Outcomes

LEMMA ParsedKeys ==
  ASSUME NEW set, ParseJwks(set) # None
  PROVE  ParseJwks(set) = {k \in set : Kind[k] = "RSA"}
BY DEF ParseJwks

\* A token accepted is genuine.
LEMMA CheckedGenuine ==
  ASSUME JwtInv, NEW t \in Tokens, Unreadable(t) = None, Checked(t) = "ok",
         NEW i \in 1 .. Len(editions), t.header.kid \in editions[i].keys
  PROVE  Genuine(t) /\ now < t.payload.exp + LEEWAY
<1> DEFINE claims == Claims(t)
           audience == {claims.audience[j] : j \in DOMAIN claims.audience}
<1>1. t \in Token
  BY TokensAssumption
<1>2. /\ t.header \in Header /\ t.header.alg = "RS256"
  <2>1. t.header # None /\ t.header.alg = "RS256"
    BY NoneAssumption DEF Unreadable, Outcomes
  <2> QED  BY <1>1, <2>1 DEF Token, Option
<1>3. /\ t.signature = t.header.kid /\ claims # None
      /\ claims.issuer \in ISSUERS /\ Addressed(audience)
      /\ claims.expires_at # None /\ claims.expires_at + LEEWAY > now
  <2>1. Checked(t) = IF t.signature = None THEN "malformed"
      ELSE IF t.signature # t.header.kid THEN "bad_signature"
      ELSE IF claims = None THEN "malformed"
      ELSE IF claims.issuer \notin ISSUERS THEN "wrong_issuer"
      ELSE IF ~Addressed(audience) THEN "wrong_audience"
      ELSE IF claims.expires_at = None THEN "malformed"
      ELSE IF claims.expires_at + LEEWAY > now THEN "ok"
      ELSE "expired"
    BY DEF Checked
  <2> HIDE DEF claims, audience
  <2> QED  BY <2>1
<1>4. /\ t.payload \in RawClaims
      /\ claims.issuer = t.payload.iss /\ claims.expires_at = t.payload.exp
      /\ claims.audience = IntoVec(t.payload.aud)
  <2>1. t.payload # None /\ claims = FromRaw(t.payload)
    BY <1>3 DEF Claims
  <2>2. t.payload \in RawClaims
    BY <1>1, <2>1 DEF Token, Option
  <2> QED  BY <2>1, <2>2 DEF FromRaw
<1>5. t.payload.exp \in Nat /\ LEEWAY \in Nat /\ now \in Nat
  BY <1>3, <1>4, TimesAssumption DEF RawClaims, Option, JwtInv, TypeOK
<1>6. ASSUME NEW a \in {ClientId, EVE_AUDIENCE}
      PROVE  Names(t.payload.aud, a)
  <2> DEFINE aud == t.payload.aud
  <2>1. PICK j \in DOMAIN IntoVec(aud) : IntoVec(aud)[j] = a
    <3>1. a \in audience
      BY <1>3 DEF Addressed
    <3> QED  BY <1>4, <3>1
  <2>2. aud \in OneOrMany(Audiences)
    BY <1>4 DEF RawClaims
  <2> HIDE DEF aud
  <2>3. aud # None
    <3> SUFFICES ASSUME aud = None  PROVE FALSE
      OBVIOUS
    <3>1. IntoVec(aud) = << >>
      BY DEF IntoVec
    <3> QED  BY <2>1, <3>1
  <2>4. CASE aud \in [one : Audiences]
    <3>1. IntoVec(aud) = <<aud.one>>
      BY <2>3, <2>4 DEF IntoVec
    <3>2. aud.one = a
      BY <2>1, <3>1
    <3>3. aud \in [one : {a}]
      BY <2>4, <3>2
    <3> QED  BY <3>3 DEF Names, aud
  <2>5. CASE aud \in [many : Seq(Audiences)]
    <3>1. "one" \notin DOMAIN aud
      BY <2>5
    <3>2. IntoVec(aud) = aud.many
      BY <2>3, <3>1 DEF IntoVec
    <3> QED  BY <2>1, <2>5, <3>2 DEF Names, aud
  <2> QED  BY <2>2, <2>3, <2>4, <2>5 DEF OneOrMany, Option
<1>7. i \in DOMAIN editions
  BY DEF JwtInv, EditionState
<1>8. Genuine(t)
  BY <1>2, <1>3, <1>4, <1>6, <1>7 DEF Genuine
<1>9. now < t.payload.exp + LEEWAY
  <2> DEFINE x == t.payload.exp
  <2>1. x \in Nat /\ x + LEEWAY > now
    BY <1>3, <1>4, <1>5
  <2> HIDE DEF x
  <2> QED  BY <1>5, <2>1 DEF x
<1> QED  BY <1>8, <1>9

-----------------------------------------------------------------------------
(* The key sets CCP publishes. *)

\* A set of naturals has a least element.
LEMMA LeastNatural ==
  ASSUME NEW S \in SUBSET Nat, S # {}
  PROVE  \E m \in S : \A n \in S : m <= n
<1> DEFINE R == OpToRel(<, Nat)
<1>1. IsWellFoundedOn(R, Nat)
  BY NatLessThanWellFounded
<1>2. PICK m \in S : \A n \in S : ~ (<<n, m>> \in R)
  <2> HIDE DEF R
  <2> QED  BY <1>1, WFMin
<1>3. \A n \in S : ~ (n < m)
  BY <1>2 DEF OpToRel
<1> QED  BY <1>3

\* The sequence of editions, place by place.
LEMMA EditionsType ==
  ASSUME EditionState
  PROVE  /\ Len(editions) \in Nat /\ Len(editions) > 0
         /\ DOMAIN editions = 1 .. Len(editions)
         /\ Len(editions) \in 1 .. Len(editions)
         /\ \A i \in 1 .. Len(editions) :
              editions[i].at \in Nat /\ editions[i].keys \in SUBSET Kids
<1> DEFINE Edition == [keys : SUBSET Kids, at : Nat]
<1>1. editions \in Seq(Edition) /\ Len(editions) > 0
  BY DEF EditionState
<1>2. \A e \in Edition : e.at \in Nat /\ e.keys \in SUBSET Kids
  OBVIOUS
<1> HIDE DEF Edition
<1>3. /\ Len(editions) \in Nat /\ DOMAIN editions = 1 .. Len(editions)
      /\ \A i \in 1 .. Len(editions) : editions[i] \in Edition
  BY <1>1
<1> QED  BY <1>1, <1>2, <1>3

\* A key published now and not in edition e is newer than all that e was the
\* last edition at.
LEMMA PublishedLater ==
  ASSUME EditionState, NEW k \in Kids, k \in Published,
         NEW e \in 1 .. Len(editions), k \notin editions[e].keys,
         NEW t \in Int, LastAt(e, t)
  PROVE  t <= Since(k) /\ Since(k) \in Nat
<1> DEFINE n == Len(editions)
           P == {i \in 1 .. n : k \in editions[i].keys}
           First0(i) == /\ k \in editions[i].keys
                        /\ \A j \in 1 .. i - 1 : k \notin editions[j].keys
           f == CHOOSE i \in DOMAIN editions : First0(i)
<1>1. /\ n \in Nat /\ n \in 1 .. n /\ DOMAIN editions = 1 .. n
      /\ k \in editions[n].keys
      /\ \A i \in 1 .. n : editions[i].at \in Nat
      /\ \A i, j \in 1 .. n : i <= j => editions[i].at <= editions[j].at
      /\ \A i, j, l \in 1 .. n :
           i <= j /\ j <= l /\ k \in editions[i].keys /\ k \in editions[l].keys
             => k \in editions[j].keys
  <2>1. /\ n \in Nat /\ n \in 1 .. n /\ DOMAIN editions = 1 .. n
        /\ \A i \in 1 .. n : editions[i].at \in Nat
    BY EditionsType
  <2> QED  BY <2>1 DEF EditionState, Published
<1> HIDE DEF n
<1>2. \E i \in DOMAIN editions : First0(i)
  <2>1. P \in SUBSET Nat /\ P # {}
    BY <1>1
  <2>2. PICK m \in P : \A i \in P : m <= i
    <3> HIDE DEF P
    <3> QED  BY <2>1, LeastNatural
  <2>3. \A j \in 1 .. m - 1 : k \notin editions[j].keys
    <3> SUFFICES ASSUME NEW j \in 1 .. m - 1, k \in editions[j].keys  PROVE FALSE
      OBVIOUS
    <3>1. j \in 1 .. n /\ j < m
      BY <1>1, <2>1
    <3> QED  BY <2>2, <3>1
  <2> QED  BY <1>1, <2>2, <2>3
<1>3. f \in 1 .. n /\ First0(f)
  BY <1>1, <1>2
<1>4. Since(k) = editions[f].at
  BY DEF Since
<1>5. k \in editions[f].keys
  BY <1>3
<1> HIDE DEF f, First0, P
<1>6. e \in 1 .. n
  BY DEF n
<1>7. e < f
  <2> SUFFICES ASSUME f <= e  PROVE FALSE
    BY <1>1, <1>3, <1>6
  <2> QED  BY <1>1, <1>3, <1>5, <1>6
<1>8. e + 1 \in 1 .. n /\ e < n /\ e + 1 <= f
  BY <1>1, <1>3, <1>6, <1>7
<1>9. t <= editions[e + 1].at
  BY <1>8 DEF LastAt, n
<1>10. editions[e + 1].at <= editions[f].at
  BY <1>1, <1>3, <1>8
<1> DEFINE x == editions[e + 1].at
           y == editions[f].at
<1>11. x \in Nat /\ y \in Nat /\ t <= x /\ x <= y
  BY <1>1, <1>3, <1>8, <1>9, <1>10
<1> HIDE DEF x, y
<1>12. t <= y
  BY <1>11
<1> QED  BY <1>4, <1>11, <1>12 DEF y

\* The new set of an edit follows the others.
LEMMA EditionsFollow ==
  ASSUME EditionState, TypeOK, NEW set \in SUBSET Kids,
         editions' = Append(editions, [keys |-> set, at |-> now]), now' = now,
         \A k \in set : \/ k \in Published
                        \/ \A i \in DOMAIN editions : k \notin editions[i].keys
  PROVE  /\ EditionState'
         /\ Len(editions') = Len(editions) + 1 /\ Len(editions) \in Nat
         /\ \A i \in 1 .. Len(editions) : editions'[i] = editions[i]
         /\ editions'[Len(editions) + 1].at = now
<1> DEFINE n == Len(editions)
           Edition == [keys : SUBSET Kids, at : Nat]
           e == [keys |-> set, at |-> now]
<1>1. /\ now \in Nat /\ editions \in Seq(Edition) /\ n \in Nat /\ n > 0
      /\ DOMAIN editions = 1 .. n
      /\ \A i \in 1 .. n : editions[i].at \in Nat /\ editions[i].at <= now
      /\ \A i, j \in 1 .. n : i <= j => editions[i].at <= editions[j].at
      /\ \A i, j, l \in 1 .. n : \A k \in Kids :
           i <= j /\ j <= l /\ k \in editions[i].keys /\ k \in editions[l].keys
             => k \in editions[j].keys
  <2>1. /\ n \in Nat /\ n > 0 /\ DOMAIN editions = 1 .. n
        /\ \A i \in 1 .. n : editions[i].at \in Nat
    BY EditionsType
  <2>2. now \in Nat
    BY DEF TypeOK
  <2> QED  BY <2>1, <2>2 DEF EditionState
<1>2. e \in Edition /\ e.at = now /\ e.keys = set
  BY <1>1
<1>3. /\ editions' \in Seq(Edition) /\ Len(editions') = n + 1
      /\ \A i \in 1 .. n : editions'[i] = editions[i]
      /\ editions'[n + 1] = e
  <2> HIDE DEF e, Edition
  <2> QED  BY <1>1, <1>2 DEF e
<1>4. \A i \in 1 .. n + 1 : i \in 1 .. n \/ i = n + 1
  <2> HIDE DEF n
  <2> QED  BY <1>1
<1> HIDE DEF n, e
<1>5. \A i \in 1 .. n + 1 : editions'[i].at <= now
  BY <1>1, <1>2, <1>3, <1>4
<1>6. \A i, j \in 1 .. n + 1 : i <= j => editions'[i].at <= editions'[j].at
  <2> SUFFICES ASSUME NEW i \in 1 .. n + 1, NEW j \in 1 .. n + 1, i <= j
               PROVE  editions'[i].at <= editions'[j].at
    OBVIOUS
  <2>1. CASE j = n + 1
    BY <1>2, <1>3, <1>5, <2>1
  <2>2. CASE j \in 1 .. n
    <3>1. i \in 1 .. n
      BY <1>1, <1>4, <2>2
    <3> QED  BY <1>1, <1>3, <2>2, <3>1
  <2> QED  BY <1>4, <2>1, <2>2
<1>7. ASSUME NEW i \in 1 .. n + 1, NEW j \in 1 .. n + 1, NEW l \in 1 .. n + 1,
             NEW k \in Kids, i <= j, j <= l,
             k \in editions'[i].keys, k \in editions'[l].keys
      PROVE  k \in editions'[j].keys
  <2>1. CASE j = n + 1
    <3>1. l = n + 1
      BY <1>1, <1>7, <2>1
    <3> QED  BY <1>7, <2>1, <3>1
  <2>2. CASE j \in 1 .. n
    <3>1. i \in 1 .. n /\ k \in editions[i].keys
      BY <1>1, <1>3, <1>4, <1>7, <2>2
    <3>2. CASE l \in 1 .. n
      BY <1>1, <1>3, <1>7, <2>2, <3>1, <3>2
    <3>3. CASE l = n + 1
      <4>1. k \in set
        BY <1>2, <1>3, <1>7, <3>3
      <4>2. k \in editions[n].keys
        BY <1>1, <3>1, <4>1 DEF Published, n
      <4>3. n \in 1 .. n /\ j <= n
        BY <1>1, <2>2
      <4>4. k \in editions[j].keys
        BY <1>1, <1>7, <2>2, <3>1, <4>2, <4>3
      <4> QED  BY <1>3, <2>2, <4>4
    <3> QED  BY <1>4, <3>2, <3>3
  <2> QED  BY <1>4, <2>1, <2>2
<1>8. EditionState'
  <2>1. Len(editions') > 0
    BY <1>1, <1>3
  <2> QED  BY <1>3, <1>5, <1>6, <1>7, <2>1 DEF EditionState
<1> QED  BY <1>1, <1>2, <1>3, <1>8 DEF n

-----------------------------------------------------------------------------
(* The invariant is inductive. *)

LEMMA InvInit == Init => JwtInv
<1> SUFFICES ASSUME Init  PROVE JwtInv
  OBVIOUS
<1>1. /\ now = 0 /\ queue = << >> /\ http \in BOOLEAN
      /\ pc = [c \in Callers |-> "idle"] /\ token = [c \in Callers |-> None]
      /\ timer = [c \in Callers |-> 0] /\ body = [c \in Callers |-> None]
      /\ result = None /\ editions = <<[keys |-> First, at |-> 0]>>
  BY DEF Init
<1>2. /\ Len(editions) = 1 /\ editions[1].keys = First /\ editions[1].at = 0
      /\ editions \in Seq([keys : SUBSET Kids, at : Nat])
  BY <1>1, KeysAssumption
<1>3. \/ keys = {} /\ fetched_at = None /\ held = 0
      \/ keys = {k \in First : Kind[k] = "RSA"} /\ fetched_at = 0 /\ held = 1
         /\ http = FALSE
  BY ParsedKeys DEF Init
<1>4. \A c \in Callers : pc[c] = "idle" /\ body[c] = None
  BY <1>1
<1>5. queue \in Seq(Callers) /\ Len(queue) = 0
  BY <1>1
<1>6. keys \subseteq Kids /\ fetched_at \in Nat \cup {None} /\ held \in Nat
  BY <1>3, KeysAssumption
<1>7. TypeOK
  BY <1>1, <1>2, <1>4, <1>5, <1>6 DEF TypeOK, Option
<1>8. LockState
  BY <1>4, <1>5 DEF LockState
<1>9. CallState
  BY <1>4 DEF CallState
<1>10. EditionState
  BY <1>1, <1>2 DEF EditionState
<1>11. KeyState
  <2>1. KeysOfOneEdition
    BY <1>2, <1>3 DEF KeysOfOneEdition
  <2>2. held \in 0 .. Len(editions)
    BY <1>2, <1>3
  <2>3. fetched_at # None => fetched_at <= now /\ held # 0 /\ http = FALSE
    BY <1>1, <1>3
  <2> QED  BY <1>4, <2>1, <2>2, <2>3 DEF KeyState
<1> QED  BY <1>7, <1>8, <1>9, <1>10, <1>11 DEF JwtInv

\* When verify returns to c, everyone else stays where they are.
LEMMA Returned ==
  ASSUME JwtInv, NEW c \in Callers, pc[c] # "idle", NEW o \in Outcomes, Return(c, o),
         now' = now, http' = http, editions' = editions,
         keys' \subseteq Kids, fetched_at' \in Nat \cup {None}, held' \in Nat
  PROVE  /\ TypeOK' /\ LockState' /\ CallState' /\ EditionState'
         /\ body'[c] = None
         /\ \A d \in Callers : d # c => body'[d] = body[d] /\ timer'[d] = timer[d]
<1>1. TypeOK /\ LockState /\ CallState /\ EditionState
  BY DEF JwtInv
<1>2. /\ result' = [caller |-> c, outcome |-> o]
      /\ pc' = [pc EXCEPT ![c] = "idle"] /\ token' = [token EXCEPT ![c] = None]
      /\ timer' = [timer EXCEPT ![c] = 0] /\ body' = [body EXCEPT ![c] = None]
  BY DEF Return
<1>3. /\ pc'[c] = "idle" /\ body'[c] = None
      /\ \A d \in Callers : d # c => /\ pc'[d] = pc[d] /\ token'[d] = token[d]
                                     /\ timer'[d] = timer[d] /\ body'[d] = body[d]
  BY <1>1, <1>2 DEF TypeOK
<1>4. /\ queue' \in Seq(Callers) /\ Distinct(queue')
      /\ \A d : InQueue(queue', d) <=> InQueue(queue, d) /\ d # c
      /\ queue[1] # c => queue'[1] = queue[1]
  <2>1. Unlock(c)
    BY DEF Return
  <2> QED  BY <1>1, <2>1, Unlocked
<1>5. LockState'
  <2>1. \A i, j \in 1 .. Len(queue') : queue'[i] = queue'[j] => i = j
    BY <1>4 DEF Distinct
  <2>2. \A d \in Callers : pc'[d] # "idle" <=> InQueue(queue', d)
    <3>1. \A d \in Callers : pc[d] # "idle" <=> InQueue(queue, d)
      BY <1>1 DEF LockState, InQueue
    <3> QED  BY <1>3, <1>4, <3>1
  <2>3. \A d \in Callers : pc'[d] = "fetching" => queue'[1] = d
    <3> SUFFICES ASSUME NEW d \in Callers, pc'[d] = "fetching"
                 PROVE  queue'[1] = d
      OBVIOUS
    <3>1. d # c /\ queue[1] = d
      BY <1>1, <1>3 DEF LockState
    <3> QED  BY <1>4, <3>1
  <2> QED  BY <1>4, <2>1, <2>2, <2>3 DEF LockState, InQueue
<1>6. CallState'
  BY <1>1, <1>3 DEF CallState
<1>7. EditionState'
  BY <1>1 DEF EditionState
<1>8. TypeOK'
  <2>1. \A d \in Callers : pc'[d] = "fetching" => queue' # << >> /\ Head(queue') = d
    <3> SUFFICES ASSUME NEW d \in Callers, pc'[d] = "fetching"
                 PROVE  queue' # << >> /\ Head(queue') = d
      OBVIOUS
    <3>1. InQueue(queue', d) /\ queue'[1] = d
      BY <1>5 DEF LockState, InQueue
    <3> QED  BY <1>4, <3>1, FirstIsHead
  <2>2. result' \in Option(Result)
    BY <1>2 DEF Option, Result
  <2> QED  BY <1>1, <1>2, <1>4, <2>1, <2>2 DEF TypeOK
<1> QED  BY <1>3, <1>5, <1>6, <1>7, <1>8

\* A verification ends without a fetch of its own.
LEMMA InvReturn ==
  ASSUME JwtInv, NEW c \in Callers, pc[c] # "idle", NEW o \in Outcomes, Return(c, o),
         UNCHANGED <<now, http, cache, editions>>
  PROVE  JwtInv'
<1>1. /\ now' = now /\ http' = http /\ editions' = editions
      /\ keys' = keys /\ fetched_at' = fetched_at /\ held' = held
  BY DEF cache
<1>2. keys' \subseteq Kids /\ fetched_at' \in Nat \cup {None} /\ held' \in Nat
  BY <1>1 DEF JwtInv, TypeOK
<1>3. /\ TypeOK' /\ LockState' /\ CallState' /\ EditionState' /\ body'[c] = None
      /\ \A d \in Callers : d # c => body'[d] = body[d] /\ timer'[d] = timer[d]
  BY <1>1, <1>2, Returned
<1>4. KeyState'
  BY <1>1, <1>3 DEF JwtInv, KeyState, KeysOfOneEdition, LastAt
<1> QED  BY <1>3, <1>4 DEF JwtInv

\* The key set that a fetch brings back is the newest held so far.
LEMMA InvFetched ==
  ASSUME JwtInv, NEW c \in Callers, Fetched(c)
  PROVE  JwtInv' /\ KeysOfOneEdition' /\ held <= held'
<1> DEFINE parsed == ParseJwks(editions[body[c]].keys)
           o == IF Kid(c) \in parsed THEN Checked(token[c]) ELSE "unknown_key"
<1>1. /\ pc[c] = "fetching" /\ body[c] # None /\ pc[c] # "idle"
      /\ now' = now /\ http' = http /\ editions' = editions
  BY DEF Fetched
<1>2. TypeOK /\ LockState /\ CallState /\ EditionState /\ KeyState
  BY DEF JwtInv
<1>3. /\ body[c] \in 1 .. Len(editions) /\ held <= body[c]
      /\ LastAt(body[c], timer[c] - TIMEOUT)
  BY <1>1, <1>2 DEF KeyState
<1>4. /\ now \in Nat /\ timer[c] \in Nat /\ TIMEOUT \in Nat /\ held \in Nat
      /\ Len(editions) \in Nat /\ now <= timer[c]
      /\ editions[body[c]].keys \in SUBSET Kids
      /\ \A i \in 1 .. Len(editions) : editions[i].at \in Nat
  BY <1>1, <1>2, <1>3, EditionsType, TimesAssumption DEF TypeOK, CallState
<1>5. CASE parsed = None
  <2>1. Return(c, "jwks") /\ UNCHANGED <<now, http, cache, editions>>
    BY <1>1, <1>5 DEF Fetched
  <2>2. JwtInv' /\ held' = held
    BY <1>1, <2>1, InvReturn DEF Outcomes, cache
  <2> QED  BY <1>4, <2>2 DEF JwtInv, KeyState
<1>6. CASE parsed # None
  <2>1. /\ keys' = parsed /\ fetched_at' = now /\ held' = body[c]
        /\ Return(c, o)
    BY <1>6 DEF Fetched, Replaced
  <2>2. keys' = {k \in editions[body[c]].keys : Kind[k] = "RSA"}
    BY <1>6, <2>1, ParsedKeys
  <2>3. o \in Outcomes
    BY CheckedOutcome DEF Outcomes
  <2>4. keys' \subseteq Kids /\ fetched_at' \in Nat \cup {None} /\ held' \in Nat
    BY <1>3, <1>4, <2>1, <2>2
  <2> HIDE DEF o, parsed
  <2>5. /\ TypeOK' /\ LockState' /\ CallState' /\ EditionState' /\ body'[c] = None
        /\ \A d \in Callers : d # c => body'[d] = body[d]
    BY <1>1, <2>1, <2>3, <2>4, Returned
  <2>6. KeysOfOneEdition'
    BY <1>1, <1>3, <2>1, <2>2 DEF KeysOfOneEdition
  <2>7. \A d \in Callers : body'[d] = None
    <3> SUFFICES ASSUME NEW d \in Callers, body'[d] # None  PROVE FALSE
      OBVIOUS
    <3>1. d # c /\ body[d] # None
      BY <2>5
    <3>2. pc[d] = "fetching"
      BY <1>2, <3>1 DEF CallState
    <3> QED  BY <1>1, <1>2, <3>1, <3>2 DEF LockState
  <2>8. LastAt(body[c], now - TIMEOUT)
    <3> SUFFICES ASSUME body[c] < Len(editions)
                 PROVE  now - TIMEOUT <= editions[body[c] + 1].at
      BY DEF LastAt
    <3> DEFINE x == editions[body[c] + 1].at
               s == timer[c]
    <3>1. s - TIMEOUT <= x /\ x \in Nat /\ s \in Nat /\ now <= s
      BY <1>3, <1>4 DEF LastAt
    <3> HIDE DEF x, s
    <3> QED  BY <1>4, <3>1 DEF x
  <2>9. KeyState'
    <3>1. held' \in 0 .. Len(editions') /\ held' # 0 /\ fetched_at' <= now'
      BY <1>1, <1>3, <1>4, <2>1
    <3>2. LastAt(held, fetched_at - TIMEOUT)'
      BY <1>1, <2>1, <2>8 DEF LastAt
    <3> QED  BY <2>6, <2>7, <3>1, <3>2 DEF KeyState
  <2>10. JwtInv'
    BY <2>5, <2>9 DEF JwtInv
  <2>11. held <= held'
    BY <1>3, <2>1
  <2> QED  BY <2>6, <2>10, <2>11
<1> QED  BY <1>5, <1>6

\* A verification begins: its caller joins the queue.
LEMMA InvVerify ==
  ASSUME JwtInv, NEW c \in Callers, NEW t \in Tokens, Verify(c, t)
  PROVE  JwtInv'
<1> DEFINE n == Len(queue)
<1>1. /\ pc[c] = "idle" /\ Unreadable(t) = None
      /\ queue' = Append(queue, c) /\ pc' = [pc EXCEPT ![c] = "queued"]
      /\ token' = [token EXCEPT ![c] = t] /\ result' = None
      /\ now' = now /\ http' = http /\ keys' = keys /\ fetched_at' = fetched_at
      /\ held' = held /\ timer' = timer /\ body' = body /\ editions' = editions
  BY DEF Verify, cache
<1>2. TypeOK /\ LockState /\ CallState /\ EditionState /\ KeyState
  BY DEF JwtInv
<1>3. /\ pc'[c] = "queued" /\ token'[c] = t
      /\ \A d \in Callers : d # c => pc'[d] = pc[d] /\ token'[d] = token[d]
  BY <1>1, <1>2 DEF TypeOK
<1>4. /\ queue' \in Seq(Callers) /\ n \in Nat /\ Len(queue') = n + 1
      /\ \A i \in 1 .. n : queue'[i] = queue[i]
      /\ queue'[n + 1] = c
  BY <1>1, <1>2 DEF TypeOK
<1>5. /\ \A i, j \in 1 .. n : queue[i] = queue[j] => i = j
      /\ \A d \in Callers : pc[d] # "idle" <=> \E i \in 1 .. n : queue[i] = d
      /\ \A d \in Callers : pc[d] = "fetching" => queue[1] = d
  BY <1>2 DEF LockState
<1> HIDE DEF n
<1>6. \A i \in 1 .. n + 1 : i \in 1 .. n \/ i = n + 1
  BY <1>4
<1>7. \A i \in 1 .. n : queue[i] # c
  BY <1>1, <1>5
<1>8. LockState'
  <2>1. \A i, j \in 1 .. n + 1 : queue'[i] = queue'[j] => i = j
    BY <1>4, <1>5, <1>6, <1>7
  <2>2. ASSUME NEW d \in Callers
        PROVE  pc'[d] # "idle" <=> \E i \in 1 .. n + 1 : queue'[i] = d
    <3>1. \A i \in 1 .. n : i \in 1 .. n + 1
      BY <1>4
    <3>2. n + 1 \in 1 .. n + 1
      BY <1>4
    <3>3. CASE d = c
      BY <1>3, <1>4, <3>2, <3>3
    <3>4. CASE d # c
      BY <1>3, <1>4, <1>5, <1>6, <3>1, <3>4
    <3> QED  BY <3>3, <3>4
  <2>3. ASSUME NEW d \in Callers, pc'[d] = "fetching"
        PROVE  queue'[1] = d
    <3>1. pc[d] = "fetching" /\ queue[1] = d
      BY <1>3, <1>5, <2>3
    <3>2. 1 \in 1 .. n
      BY <1>4, <1>5, <3>1
    <3> QED  BY <1>4, <3>1, <3>2
  <2> QED  BY <1>4, <2>1, <2>2, <2>3 DEF LockState
<1>9. TypeOK'
  <2>1. \A d \in Callers : pc'[d] = "fetching" => queue' # << >> /\ Head(queue') = d
    <3> SUFFICES ASSUME NEW d \in Callers, pc'[d] = "fetching"
                 PROVE  queue' # << >> /\ Head(queue') = d
      OBVIOUS
    <3>1. InQueue(queue', d) /\ queue'[1] = d
      BY <1>8 DEF LockState, InQueue
    <3> QED  BY <1>4, <3>1, FirstIsHead
  <2> QED  BY <1>1, <1>2, <1>4, <2>1 DEF TypeOK, Option
<1>10. CallState'
  BY <1>1, <1>2, <1>3 DEF CallState
<1>11. EditionState'
  BY <1>1, <1>2 DEF EditionState
<1>12. KeyState'
  BY <1>1, <1>2 DEF KeyState, KeysOfOneEdition, LastAt
<1> QED  BY <1>8, <1>9, <1>10, <1>11, <1>12 DEF JwtInv

\* A fetch begins, and is answered.
LEMMA InvFetch ==
  ASSUME JwtInv, NEW c \in Callers, Fetch(c) \/ Serve(c)
  PROVE  JwtInv'
<1>1. /\ now' = now /\ http' = http /\ keys' = keys /\ fetched_at' = fetched_at
      /\ held' = held /\ editions' = editions /\ queue' = queue /\ token' = token
      /\ result' = None
  BY DEF Fetch, Ask, Serve, cache
<1>2. TypeOK /\ LockState /\ CallState /\ EditionState /\ KeyState
  BY DEF JwtInv
<1>3. /\ now \in Nat /\ TIMEOUT \in Nat /\ Len(editions) \in Nat /\ Len(editions) > 0
      /\ held \in 0 .. Len(editions)
  BY <1>2, EditionsType, TimesAssumption DEF TypeOK, KeyState
<1>4. EditionState'
  BY <1>1, <1>2 DEF EditionState
<1>5. CASE Fetch(c)
  <2>1. /\ pc[c] = "queued" /\ Head(queue) = c
        /\ pc' = [pc EXCEPT ![c] = "fetching"]
        /\ timer' = [timer EXCEPT ![c] = now + TIMEOUT] /\ body' = body
    BY <1>5 DEF Fetch, Locks, Ask
  <2>2. /\ pc'[c] = "fetching" /\ timer'[c] = now + TIMEOUT
        /\ \A d \in Callers : d # c => pc'[d] = pc[d] /\ timer'[d] = timer[d]
    BY <1>2, <2>1 DEF TypeOK
  <2>3. queue # << >> /\ Head(queue) = queue[1]
    <3>1. InQueue(queue, c) /\ queue \in Seq(Callers)
      BY <1>2, <2>1 DEF LockState, InQueue
    <3> QED  BY <3>1, FirstIsHead
  <2>4. \A d \in Callers : pc'[d] = "fetching" => queue[1] = d
    BY <1>2, <2>1, <2>2, <2>3 DEF LockState
  <2>5. \A d \in Callers : pc'[d] # "idle" <=> pc[d] # "idle"
    BY <2>1, <2>2
  <2>6. LockState'
    BY <1>1, <1>2, <2>4, <2>5 DEF LockState
  <2>7. TypeOK'
    BY <1>1, <1>2, <1>3, <2>1, <2>3, <2>4 DEF TypeOK, Option
  <2>8. body[c] = None
    BY <1>2, <2>1 DEF CallState
  <2>9. CallState'
    <3> SUFFICES ASSUME NEW d \in Callers
                 PROVE  /\ pc'[d] # "idle" =>
                             token[d] \in Tokens /\ Unreadable(token[d]) = None
                        /\ pc'[d] = "fetching" =>
                             now <= timer'[d] /\ timer'[d] <= now + TIMEOUT
                        /\ body[d] # None => pc'[d] = "fetching"
      BY <1>1, <2>1 DEF CallState
    <3>1. CASE d = c
      <4>1. now <= timer'[d] /\ timer'[d] <= now + TIMEOUT
        BY <1>3, <2>2, <3>1
      <4> QED  BY <1>2, <2>1, <2>2, <3>1, <4>1 DEF CallState
    <3>2. CASE d # c
      BY <1>2, <2>2, <3>2 DEF CallState
    <3> QED  BY <3>1, <3>2
  <2>10. KeyState'
    BY <1>1, <1>2, <2>1, <2>2, <2>8 DEF KeyState, KeysOfOneEdition, LastAt
  <2> QED  BY <1>4, <2>6, <2>7, <2>9, <2>10 DEF JwtInv
<1>6. CASE Serve(c)
  <2>1. /\ pc[c] = "fetching" /\ body[c] = None
        /\ body' = [body EXCEPT ![c] = Len(editions)] /\ pc' = pc /\ timer' = timer
    BY <1>6 DEF Serve
  <2>2. /\ body'[c] = Len(editions)
        /\ \A d \in Callers : d # c => body'[d] = body[d]
    BY <1>2, <2>1 DEF TypeOK
  <2>3. TypeOK'
    BY <1>1, <1>2, <1>3, <2>1 DEF TypeOK, Option
  <2>4. LockState'
    BY <1>1, <1>2, <2>1 DEF LockState
  <2>5. CallState'
    BY <1>1, <1>2, <2>1, <2>2 DEF CallState
  <2>6. KeyState'
    <3>1. ASSUME NEW d \in Callers, body'[d] # None
          PROVE  /\ body'[d] \in 1 .. Len(editions) /\ held <= body'[d]
                 /\ LastAt(body'[d], timer[d] - TIMEOUT)
      <4>1. CASE d = c
        <5>1. body'[d] \in 1 .. Len(editions) /\ held <= body'[d]
          BY <1>3, <2>2, <4>1
        <5>2. ~ (body'[d] < Len(editions))
          BY <1>3, <2>2, <4>1
        <5> QED  BY <5>1, <5>2 DEF LastAt
      <4>2. CASE d # c
        BY <1>2, <2>2, <3>1, <4>2 DEF KeyState
      <4> QED  BY <4>1, <4>2
    <3> QED  BY <1>1, <1>2, <2>1, <3>1 DEF KeyState, KeysOfOneEdition, LastAt
  <2> QED  BY <1>4, <2>3, <2>4, <2>5, <2>6 DEF JwtInv
<1> QED  BY <1>5, <1>6

\* CCP publishes or retires a key.
LEMMA InvEdit ==
  ASSUME JwtInv, NEW k \in Kids, Publish(k) \/ Retire(k)
  PROVE  JwtInv'
<1> DEFINE n == Len(editions)
<1>1. PICK set \in SUBSET Kids :
        /\ Edit(set)
        /\ \A q \in set : \/ q \in Published
                          \/ \A i \in DOMAIN editions : q \notin editions[i].keys
  <2>1. Published \in SUBSET Kids
    BY EditionsType DEF JwtInv, Published
  <2>2. CASE Publish(k)
    BY <2>1, <2>2 DEF Publish
  <2>3. CASE Retire(k)
    BY <2>1, <2>3 DEF Retire
  <2> QED  BY <2>2, <2>3
<1>2. /\ now' = now /\ http' = http /\ keys' = keys /\ fetched_at' = fetched_at
      /\ held' = held /\ queue' = queue /\ token' = token /\ pc' = pc
      /\ timer' = timer /\ body' = body /\ result' = None
      /\ editions' = Append(editions, [keys |-> set, at |-> now])
  BY <1>1 DEF Edit, cache
<1>3. TypeOK /\ LockState /\ CallState /\ EditionState /\ KeyState
  BY DEF JwtInv
<1>4. /\ EditionState' /\ Len(editions') = n + 1 /\ n \in Nat
      /\ \A i \in 1 .. n : editions'[i] = editions[i]
      /\ editions'[n + 1].at = now
  BY <1>1, <1>2, <1>3, EditionsFollow
<1>5. /\ now \in Nat /\ TIMEOUT \in Nat /\ held \in 0 .. n
      /\ fetched_at # None => fetched_at \in Nat /\ fetched_at <= now /\ held # 0
  BY <1>3, TimesAssumption DEF TypeOK, KeyState
<1>6. LockState' /\ CallState'
  BY <1>2, <1>3 DEF LockState, CallState
<1>7. TypeOK'
  BY <1>2, <1>3, <1>4 DEF TypeOK, Option, EditionState
\* Where a set was the last one, the new one comes now.
<1>8. ASSUME NEW i \in 1 .. n, NEW t \in Int, t <= now, LastAt(i, t)
      PROVE  LastAt(i, t)'
  <2> SUFFICES ASSUME i < n + 1  PROVE t <= editions'[i + 1].at
    BY <1>4 DEF LastAt
  <2>1. CASE i < n
    <3>1. i + 1 \in 1 .. n /\ t <= editions[i + 1].at
      BY <1>4, <1>8, <2>1 DEF LastAt
    <3> QED  BY <1>4, <3>1
  <2>2. CASE i = n
    BY <1>4, <1>8, <2>2
  <2> HIDE DEF n
  <2> QED  BY <1>4, <2>1, <2>2
<1>9. KeyState'
  <2>1. KeysOfOneEdition'
    <3>1. KeysOfOneEdition
      BY <1>3 DEF KeyState
    <3>2. CASE held = 0
      BY ONLY <1>2, <3>1, <3>2 DEF KeysOfOneEdition
    <3>3. CASE held # 0
      <4>1. held \in 1 .. n
        BY <1>4, <1>5, <3>3
      <4>2. editions'[held].keys = editions[held].keys
        BY <1>4, <4>1
      <4> QED  BY ONLY <1>2, <3>1, <3>3, <4>2 DEF KeysOfOneEdition
    <3> QED  BY <3>2, <3>3
  <2>2. held' \in 0 .. Len(editions')
    <3> HIDE DEF n
    <3> QED  BY <1>2, <1>4, <1>5
  <2>3. ASSUME http, fetched_at # None
        PROVE  LastAt(held, fetched_at - TIMEOUT)'
    <3>1. LastAt(held, fetched_at - TIMEOUT)
      BY <1>3, <2>3 DEF KeyState
    <3> HIDE DEF n
    <3>2. held \in 1 .. n /\ fetched_at - TIMEOUT \in Int /\ fetched_at - TIMEOUT <= now
      BY <1>4, <1>5, <2>3
    <3>3. (fetched_at - TIMEOUT)' = fetched_at - TIMEOUT /\ held' = held
      BY <1>2
    <3> DEFINE t == fetched_at - TIMEOUT
    <3>4. t \in Int /\ t <= now /\ LastAt(held, t)
      BY <3>1, <3>2
    <3> HIDE DEF t
    <3>5. held < Len(editions') => t <= editions'[held + 1].at
      BY <1>8, <3>2, <3>4 DEF LastAt
    <3> QED  BY <1>2, <3>5 DEF LastAt, t
  <2>4. ASSUME NEW c \in Callers, body[c] # None
        PROVE  /\ body[c] \in 1 .. Len(editions') /\ held <= body[c]
               /\ LastAt(body[c], timer[c] - TIMEOUT)'
    <3>1. /\ body[c] \in 1 .. n /\ held <= body[c]
          /\ LastAt(body[c], timer[c] - TIMEOUT)
      BY <1>3, <2>4 DEF KeyState
    <3>2. timer[c] \in Nat /\ timer[c] <= now + TIMEOUT
      BY <1>3, <2>4 DEF TypeOK, CallState
    <3> HIDE DEF n
    <3> DEFINE t == timer[c] - TIMEOUT
               b == body[c]
    <3>3. t \in Int /\ t <= now
      BY <1>5, <3>2
    <3>4. b \in 1 .. n /\ LastAt(b, t)
      BY <3>1
    <3> HIDE DEF t, b
    <3>5. b < Len(editions') => t <= editions'[b + 1].at
      BY <1>8, <3>3, <3>4 DEF LastAt
    <3>6. b \in 1 .. Len(editions')
      BY <1>4, <3>4
    <3>7. LastAt(body[c], timer[c] - TIMEOUT)'
      BY <1>2, <3>5 DEF LastAt, t, b
    <3> QED  BY <3>1, <3>6, <3>7 DEF b
  <2> QED  BY <1>2, <1>5, <2>1, <2>2, <2>3, <2>4 DEF KeyState
<1> QED  BY <1>4, <1>6, <1>7, <1>9 DEF JwtInv

\* Time passes, but no fetch's time runs out.
LEMMA InvTick ==
  ASSUME JwtInv, Tick
  PROVE  JwtInv'
<1>1. /\ now' = now + 1 /\ http' = http /\ keys' = keys /\ fetched_at' = fetched_at
      /\ held' = held /\ queue' = queue /\ token' = token /\ pc' = pc
      /\ timer' = timer /\ body' = body /\ editions' = editions /\ result' = None
  BY DEF Tick, cache
<1>2. TypeOK /\ LockState /\ CallState /\ EditionState /\ KeyState
  BY DEF JwtInv
<1>3. /\ now \in Nat /\ TIMEOUT \in Nat
      /\ \A c \in Callers : timer[c] \in Nat
      /\ \A i \in 1 .. Len(editions) : editions[i].at \in Nat /\ editions[i].at <= now
  BY <1>2, EditionsType, TimesAssumption DEF TypeOK, EditionState
<1>4. \A x \in Nat : x <= now => x <= now + 1
  BY <1>3
<1>5. EditionState'
  BY <1>1, <1>2, <1>3, <1>4 DEF EditionState
<1>6. LockState'
  BY <1>1, <1>2 DEF LockState
<1>7. CallState'
  <2>1. \A c \in Callers : pc[c] = "fetching" =>
          now + 1 <= timer[c] /\ timer[c] <= now + 1 + TIMEOUT
    <3> SUFFICES ASSUME NEW c \in Callers, pc[c] = "fetching"
                 PROVE  now + 1 <= timer[c] /\ timer[c] <= now + 1 + TIMEOUT
      OBVIOUS
    <3>1. now < timer[c] /\ timer[c] <= now + TIMEOUT
      BY <1>2 DEF Tick, CallState
    <3> QED  BY <1>3, <3>1
  <2> QED  BY <1>1, <1>2, <2>1 DEF CallState
<1>8. TypeOK'
  BY <1>1, <1>2 DEF TypeOK, Option
<1>9. KeyState'
  <2>1. fetched_at # None => fetched_at <= now + 1
    BY <1>2, <1>3, <1>4 DEF KeyState, TypeOK
  <2> QED  BY <1>1, <1>2, <2>1 DEF KeyState, KeysOfOneEdition, LastAt
<1> QED  BY <1>5, <1>6, <1>7, <1>8, <1>9 DEF JwtInv

\* The calls that return without a fetch of their own, and what they return.
Returns(c, o) ==
  /\ pc[c] # "idle" /\ Return(c, o)
  /\ UNCHANGED <<now, http, cache, editions>>

\* Every step, by what it does to the lock and the keys.
LEMMA Steps ==
  ASSUME JwtInv, Next
  PROVE  \/ Tick
         \/ \E k \in Kids : Publish(k) \/ Retire(k)
         \/ \E c \in Callers :
              \/ \E t \in Tokens : Refuse(c, t) \/ Verify(c, t)
              \/ Fetch(c) \/ Serve(c) \/ Fetched(c)
              \/ Known(c) /\ Returns(c, Checked(token[c]))
              \/ Unknown(c) /\ Returns(c, "unknown_key")
              \/ Returns(c, "jwks") \/ Returns(c, "dropped")
BY DEF Next, Advance, Known, Unknown, Locks, Fail, Cancel, Returns

LEMMA InvNext == JwtInv /\ [Next]_vars => JwtInv'
<1> SUFFICES ASSUME JwtInv, [Next]_vars  PROVE JwtInv'
  OBVIOUS
<1>1. ASSUME now' = now, http' = http, UNCHANGED cache, UNCHANGED editions,
             UNCHANGED <<queue, pc, token, timer, body>>, result' \in Option(Result)
      PROVE  JwtInv'
  <2>1. /\ keys' = keys /\ fetched_at' = fetched_at /\ held' = held
        /\ queue' = queue /\ pc' = pc /\ token' = token /\ timer' = timer
        /\ body' = body /\ editions' = editions /\ now' = now /\ http' = http
    BY <1>1 DEF cache
  <2>2. TypeOK'
    BY <1>1, <2>1 DEF JwtInv, TypeOK
  <2>3. LockState' /\ CallState' /\ EditionState'
    BY <2>1 DEF JwtInv, LockState, CallState, EditionState
  <2>4. KeyState'
    BY <2>1 DEF JwtInv, KeyState, KeysOfOneEdition, LastAt
  <2> QED  BY <2>2, <2>3, <2>4 DEF JwtInv
<1>2. CASE UNCHANGED vars
  BY <1>1, <1>2 DEF vars, cache, JwtInv, TypeOK
<1>3. CASE Tick
  BY <1>3, InvTick
<1>4. ASSUME NEW k \in Kids, Publish(k) \/ Retire(k)  PROVE JwtInv'
  BY <1>4, InvEdit
<1>5. ASSUME NEW c \in Callers, NEW t \in Tokens, Refuse(c, t)  PROVE JwtInv'
  <2>1. Unreadable(t) \in {"malformed", "unsupported_algorithm"}
    BY <1>5 DEF Refuse, Unreadable
  <2>2. result' \in Option(Result)
    BY <1>5, <2>1 DEF Refuse, Option, Result, Outcomes
  <2> QED  BY <1>1, <1>5, <2>2 DEF Refuse
<1>6. ASSUME NEW c \in Callers, NEW t \in Tokens, Verify(c, t)  PROVE JwtInv'
  BY <1>6, InvVerify
<1>7. ASSUME NEW c \in Callers, Fetch(c) \/ Serve(c)  PROVE JwtInv'
  BY <1>7, InvFetch
<1>8. ASSUME NEW c \in Callers, Fetched(c)  PROVE JwtInv'
  BY <1>8, InvFetched
<1>9. ASSUME NEW c \in Callers, NEW o \in Outcomes, Returns(c, o)  PROVE JwtInv'
  BY <1>9, InvReturn DEF Returns
<1>10. ASSUME NEW c \in Callers, Returns(c, Checked(token[c]))  PROVE JwtInv'
  BY <1>9, <1>10, CheckedOutcome
<1>11. {"unknown_key", "jwks", "dropped"} \subseteq Outcomes
  BY DEF Outcomes
<1> QED  BY <1>2, <1>3, <1>4, <1>5, <1>6, <1>7, <1>8, <1>9, <1>10, <1>11, Steps

-----------------------------------------------------------------------------
(* What verify returns. *)

\* Where an outcome comes from: a token without a usable header, the key that
\* is held, no key, the key set that has been fetched, a fetch that failed, or
\* a caller that left.
LEMMA Reports ==
  ASSUME JwtInv, Next, NEW c \in Callers, NEW o \in Outcomes, Reported(c, o)
  PROVE  \/ o \in {"malformed", "unsupported_algorithm", "jwks", "dropped"}
         \/ Locks(c) /\ Kid(c) \in keys /\ o = Checked(token[c])
         \/ Unknown(c) /\ o = "unknown_key"
         \/ /\ pc[c] = "fetching" /\ body[c] # None
            /\ LET parsed == ParseJwks(editions[body[c]].keys)
               IN  /\ parsed # None
                   /\ o = IF Kid(c) \in parsed THEN Checked(token[c])
                          ELSE "unknown_key"
<1>1. result' # None
  BY NoneAssumption DEF Reported, Result
<1>2. ASSUME NEW d, NEW p, result' = [caller |-> d, outcome |-> p]
      PROVE  d = c /\ p = o
  <2>1. [caller |-> d, outcome |-> p] = [caller |-> c, outcome |-> o]
    BY <1>2 DEF Reported
  <2>2. /\ [caller |-> d, outcome |-> p].caller = d
        /\ [caller |-> d, outcome |-> p].outcome = p
        /\ [caller |-> c, outcome |-> o].caller = c
        /\ [caller |-> c, outcome |-> o].outcome = o
    OBVIOUS
  <2> QED  BY ONLY <2>1, <2>2
<1>3. ASSUME NEW d, NEW p, Return(d, p)
      PROVE  d = c /\ p = o
  BY <1>2, <1>3 DEF Return
<1>4. CASE Tick
  BY <1>1, <1>4 DEF Tick
<1>5. ~ \E k \in Kids : Publish(k) \/ Retire(k)
  BY <1>1 DEF Publish, Retire, Edit
<1>6. ASSUME NEW d \in Callers, NEW t \in Tokens, Refuse(d, t)
      PROVE  o \in {"malformed", "unsupported_algorithm"}
  <2>1. Unreadable(t) \in {"malformed", "unsupported_algorithm"}
    BY <1>6 DEF Refuse, Unreadable
  <2>2. o = Unreadable(t)
    BY <1>2, <1>6 DEF Refuse
  <2> QED  BY <2>1, <2>2
<1>7. ASSUME NEW d \in Callers, NEW t \in Tokens  PROVE ~ Verify(d, t)
  BY <1>1 DEF Verify
<1>8. ASSUME NEW d \in Callers  PROVE ~ Fetch(d) /\ ~ Serve(d)
  BY <1>1 DEF Fetch, Serve, Ask
<1>9. ASSUME NEW d \in Callers, Known(d)
      PROVE  Locks(c) /\ Kid(c) \in keys /\ o = Checked(token[c])
  BY <1>3, <1>9 DEF Known
<1>10. ASSUME NEW d \in Callers, Unknown(d)
       PROVE  Unknown(c) /\ o = "unknown_key"
  BY <1>3, <1>10 DEF Unknown
<1>11. ASSUME NEW d \in Callers, Fail(d) \/ Cancel(d)
       PROVE  o \in {"jwks", "dropped"}
  BY <1>3, <1>11 DEF Fail, Cancel
<1>12. ASSUME NEW d \in Callers, Fetched(d)
       PROVE  \/ o = "jwks"
              \/ /\ pc[c] = "fetching" /\ body[c] # None
                 /\ LET parsed == ParseJwks(editions[body[c]].keys)
                    IN  /\ parsed # None
                        /\ o = IF Kid(c) \in parsed THEN Checked(token[c])
                               ELSE "unknown_key"
  <2> DEFINE parsed == ParseJwks(editions[body[d]].keys)
  <2>1. pc[d] = "fetching" /\ body[d] # None
    BY <1>12 DEF Fetched
  <2>2. \/ parsed = None /\ Return(d, "jwks")
        \/ parsed # None /\ Return(d, IF Kid(d) \in parsed THEN Checked(token[d])
                                      ELSE "unknown_key")
    BY <1>12 DEF Fetched
  <2> HIDE DEF parsed
  <2>3. CASE parsed = None
    BY <1>3, <2>2, <2>3
  <2>4. CASE parsed # None
    <3>1. /\ d = c
          /\ o = IF Kid(d) \in parsed THEN Checked(token[d]) ELSE "unknown_key"
      BY <1>3, <2>2, <2>4
    <3> QED  BY <2>1, <2>4, <3>1 DEF parsed
  <2> QED  BY <2>3, <2>4
<1> QED  BY <1>4, <1>5, <1>6, <1>7, <1>8, <1>9, <1>10, <1>11, <1>12 DEF Next, Advance

\* A key that is held is one of the edition held, and a call that is under way
\* asks for a key.
LEMMA HeldKeys ==
  ASSUME JwtInv
  PROVE  /\ \A k \in keys : /\ held \in 1 .. Len(editions)
                            /\ k \in editions[held].keys
         /\ \A c \in Callers : pc[c] # "idle" =>
              /\ token[c] \in Tokens /\ Unreadable(token[c]) = None
              /\ Kid(c) \in Kids
<1>1. /\ KeyState /\ EditionState /\ CallState /\ held \in 0 .. Len(editions)
      /\ KeysOfOneEdition
  BY DEF JwtInv, KeyState
<1>2. ASSUME NEW k \in keys
      PROVE  held \in 1 .. Len(editions) /\ k \in editions[held].keys
  <2>1. held # 0 /\ k \in editions[held].keys
    BY ONLY <1>1, <1>2 DEF KeysOfOneEdition
  <2> QED  BY <1>1, <2>1, EditionsType
<1>3. ASSUME NEW t \in Tokens, Unreadable(t) = None  PROVE t.header.kid \in Kids
  <2>1. t.header # None /\ t.header.kid # None
    BY <1>3, NoneAssumption DEF Unreadable, Outcomes
  <2>2. t \in Token
    BY TokensAssumption
  <2>3. t.header \in Header
    BY <2>1, <2>2 DEF Token, Option
  <2> QED  BY <2>1, <2>3 DEF Header, Option
<1> QED  BY <1>1, <1>2, <1>3 DEF CallState, Kid

-----------------------------------------------------------------------------
(* Every variable has its type, and whoever fetches holds the lock. *)
THEOREM TypeCorrect == Spec => []TypeOK
<1>1. JwtInv => TypeOK
  BY DEF JwtInv
<1> QED  BY <1>1, InvInit, InvNext, PTL DEF Spec

(***************************************************************************)
(* KeyCache (key, fetch and parse_jwks): the keys held are the RSA keys of *)
(* one set that CCP published, and no fetch, however slow, brings back an  *)
(* older set, for any number of callers that fail or are dropped.          *)
(***************************************************************************)
THEOREM KeysFollow == Spec => KeysFollowCCP
<1>1. ASSUME JwtInv, [Next]_vars
      PROVE  [KeysOfOneEdition' /\ held <= held']_vars
  <2>1. JwtInv'
    BY <1>1, InvNext
  <2>2. KeysOfOneEdition'
    BY <2>1 DEF JwtInv, KeyState
  <2>3. CASE UNCHANGED vars
    BY <2>3
  <2>4. CASE Next
    <3>1. \/ held' = held
          \/ \E c \in Callers : Fetched(c)
      BY <2>4 DEF Next, Advance, Tick, Publish, Retire, Edit, Refuse, Verify, Known,
                  Unknown, Fetch, Ask, Serve, Fail, Cancel, cache
    <3>2. held <= held'
      <4>1. held \in Nat
        BY <1>1 DEF JwtInv, TypeOK
      <4> QED  BY <1>1, <3>1, <4>1, InvFetched
    <3> QED  BY <2>2, <3>2
  <2> QED  BY <1>1, <2>3, <2>4
<1> QED  BY <1>1, InvInit, InvNext, PTL DEF Spec, KeysFollowCCP

(***************************************************************************)
(* verify: whatever token is brought and however long it waits for the     *)
(* key, it is accepted only if CCP published the key that signed it, the   *)
(* issuer is EVE SSO, both audiences are named, and it has not expired by  *)
(* more than the leeway when verify returns.                               *)
(***************************************************************************)
THEOREM AcceptedOnlyGenuine == Spec => AcceptedGenuine
<1>1. ASSUME JwtInv, Next, NEW c \in Callers, Reported(c, "ok")
      PROVE  Genuine(token[c]) /\ now < token[c].payload.exp + LEEWAY
  <2>1. "ok" \in Outcomes
    BY DEF Outcomes
  <2>2. CASE Locks(c) /\ Kid(c) \in keys /\ "ok" = Checked(token[c])
    <3>1. /\ held \in 1 .. Len(editions) /\ token[c].header.kid \in editions[held].keys
          /\ token[c] \in Tokens /\ Unreadable(token[c]) = None
      BY <1>1, <2>2, HeldKeys DEF Locks, Kid
    <3> QED  BY <1>1, <2>2, <3>1, CheckedGenuine
  <2>3. CASE /\ pc[c] = "fetching" /\ body[c] # None
             /\ LET parsed == ParseJwks(editions[body[c]].keys)
                IN  /\ parsed # None
                    /\ "ok" = IF Kid(c) \in parsed THEN Checked(token[c])
                              ELSE "unknown_key"
    <3> DEFINE set == editions[body[c]].keys
    <3>1. ParseJwks(set) # None /\ Kid(c) \in ParseJwks(set) /\ Checked(token[c]) = "ok"
      BY <2>3
    <3>2. body[c] \in 1 .. Len(editions)
      BY <1>1, <2>3 DEF JwtInv, KeyState
    <3>3. Kid(c) \in set
      <4> HIDE DEF set
      <4> QED  BY <3>1, ParsedKeys
    <3>4. token[c] \in Tokens /\ Unreadable(token[c]) = None
      BY <1>1, <2>3, HeldKeys
    <3>5. token[c].header.kid \in editions[body[c]].keys
      BY <3>3 DEF Kid
    <3> QED  BY <1>1, <3>1, <3>2, <3>4, <3>5, CheckedGenuine
  <2> QED  BY <1>1, <2>1, <2>2, <2>3, Reports
<1>2. JwtInv /\ [Next]_vars =>
        [\A c \in Callers : Reported(c, "ok") =>
           Genuine(token[c]) /\ now < token[c].payload.exp + LEEWAY]_vars
  BY <1>1
<1> QED  BY <1>2, InvInit, InvNext, PTL DEF Spec, AcceptedGenuine

(***************************************************************************)
(* key: "CCP's key rotation is picked up".  However many calls bring       *)
(* tokens of unknown keys, an RSA key is not reported unknown once CCP has *)
(* published it for REFETCH_INTERVAL and the time of one fetch.            *)
(***************************************************************************)
THEOREM RotationIsPickedUp == Spec => RotationPickedUp
<1>1. ASSUME JwtInv, Next, NEW c \in Callers, Reported(c, "unknown_key"),
             http, Kid(c) \in Published, Kind[Kid(c)] = "RSA"
      PROVE  now <= Since(Kid(c)) + REFETCH_INTERVAL + TIMEOUT
  <2>1. "unknown_key" \in Outcomes
    BY DEF Outcomes
  <2>2. /\ now \in Nat /\ TIMEOUT \in Nat /\ REFETCH_INTERVAL \in Nat
        /\ fetched_at # None => fetched_at \in Nat
        /\ timer[c] \in Nat
    BY <1>1, TimesAssumption DEF JwtInv, TypeOK
  <2>3. EditionState /\ KeyState /\ KeysOfOneEdition
    BY <1>1 DEF JwtInv, KeyState
  <2>4. Checked(token[c]) # "unknown_key"
    BY DEF Checked
  <2> DEFINE k == Kid(c)
  <2>5. ASSUME NEW e \in 1 .. Len(editions), k \in Kids, k \notin editions[e].keys,
               NEW t \in Nat, LastAt(e, t - TIMEOUT)
        PROVE  t <= Since(k) + TIMEOUT /\ Since(k) \in Nat
    <3> DEFINE s == t - TIMEOUT
    <3>1. s \in Int /\ LastAt(e, s)
      BY <2>2, <2>5
    <3> HIDE DEF k, s
    <3>2. k \in Published
      BY <1>1 DEF k
    <3>3. s <= Since(k) /\ Since(k) \in Nat
      BY <2>3, <2>5, <3>1, <3>2, PublishedLater
    <3> DEFINE since == Since(k)
    <3>4. s <= since /\ since \in Nat
      BY <3>3
    <3> HIDE DEF since
    <3>5. t <= since + TIMEOUT
      BY <2>2, <3>4 DEF s
    <3> QED  BY <3>4, <3>5 DEF since
  <2>6. CASE Unknown(c)
    <3>1. /\ Kid(c) \notin keys /\ pc[c] = "queued"
          /\ fetched_at # None /\ now - fetched_at < REFETCH_INTERVAL
      BY <1>1, <2>6 DEF Unknown, Locks, Recently
    <3>2. held \in 1 .. Len(editions) /\ LastAt(held, fetched_at - TIMEOUT)
      BY <1>1, <2>3, <3>1, EditionsType DEF KeyState
    <3>3. k \notin editions[held].keys
      BY <1>1, <2>3, <3>1, <3>2 DEF KeysOfOneEdition
    <3>4. k \in Kids
      BY <1>1, <3>1, HeldKeys
    <3>5. fetched_at <= Since(k) + TIMEOUT /\ Since(k) \in Nat
      BY <2>2, <2>5, <3>1, <3>2, <3>3, <3>4
    <3> DEFINE since == Since(k)
    <3>6. fetched_at <= since + TIMEOUT /\ since \in Nat /\ fetched_at \in Nat
      BY <2>2, <3>1, <3>5
    <3> HIDE DEF since
    <3>7. now <= since + REFETCH_INTERVAL + TIMEOUT
      BY <2>2, <3>1, <3>6
    <3> QED  BY <3>7 DEF since
  <2>7. CASE /\ pc[c] = "fetching" /\ body[c] # None
             /\ LET parsed == ParseJwks(editions[body[c]].keys)
                IN  /\ parsed # None
                    /\ "unknown_key" = IF Kid(c) \in parsed THEN Checked(token[c])
                                       ELSE "unknown_key"
    <3> DEFINE set == editions[body[c]].keys
    <3>1. ParseJwks(set) # None /\ Kid(c) \notin ParseJwks(set)
      BY <2>4, <2>7
    <3>2. Kid(c) \notin set
      <4> HIDE DEF set
      <4> QED  BY <1>1, <3>1, ParsedKeys
    <3>3. body[c] \in 1 .. Len(editions) /\ LastAt(body[c], timer[c] - TIMEOUT)
      BY <2>3, <2>7 DEF KeyState
    <3>4. k \in Kids
      BY <1>1, <2>7, HeldKeys
    <3>5. timer[c] <= Since(k) + TIMEOUT /\ Since(k) \in Nat
      BY <2>2, <2>5, <3>2, <3>3, <3>4
    <3>6. now <= timer[c]
      BY <1>1, <2>7 DEF JwtInv, CallState
    <3> DEFINE since == Since(k)
               end == timer[c]
    <3>7. end <= since + TIMEOUT /\ since \in Nat /\ end \in Nat /\ now <= end
      BY <2>2, <3>5, <3>6
    <3> HIDE DEF since, end
    <3>8. now <= since + REFETCH_INTERVAL + TIMEOUT
      BY <2>2, <3>7
    <3> QED  BY <3>8 DEF since
  <2> QED  BY <1>1, <2>1, <2>4, <2>6, <2>7, Reports
<1>2. JwtInv /\ [Next]_vars =>
        [\A c \in Callers :
           /\ Reported(c, "unknown_key")
           /\ http /\ Kid(c) \in Published /\ Kind[Kid(c)] = "RSA"
           => now <= Since(Kid(c)) + REFETCH_INTERVAL + TIMEOUT]_vars
  BY <1>1
<1> QED  BY <1>2, InvInit, InvNext, PTL DEF Spec, RotationPickedUp
=============================================================================
