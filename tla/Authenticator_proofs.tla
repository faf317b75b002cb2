------------------------ MODULE Authenticator_proofs ------------------------
(***************************************************************************)
(* Theorems of Authenticator, for any number of callers, any answers and   *)
(* failures, and callers dropped at any await: the lock, the token set     *)
(* held, what the listener stores, and which tokens are returned.          *)
(***************************************************************************)
EXTENDS Authenticator, Mutex_proofs, SequenceTheorems

\* EVE SSO reports a grant as revoked only when it does not accept it.
HonestSso == \A f \in Failures : ~ IsRevoked(FromTokenRequest(f))

-----------------------------------------------------------------------------
(***************************************************************************)
(* The inductive invariant.  e is when the access tokens issued expire,    *)
(* and r the refresh token that SSO accepts; refresh tokens only get newer.*)
(***************************************************************************)
Rank(refresh) == IF refresh = None THEN 0 ELSE refresh

Kept(answer, old) == IF answer.refresh = None THEN old ELSE answer.refresh

OfSso(set, e, r) ==
  /\ set.access \in 1 .. Len(e)
  /\ set.refresh # None => 1 <= set.refresh /\ set.refresh <= Rank(r)

\* An answer with tokens, to a request of the grant old that times out at the
\* deadline.
Pending(answer, deadline, old, e, r) ==
  /\ OfSso(answer, e, r)
  /\ answer.access = Len(e) => Kept(answer, old) = r
  /\ answer.exp # None => answer.exp = e[answer.access]
  /\ answer.expires_in # None => answer.expires_in = LIFETIME
  /\ deadline + LIFETIME <= e[answer.access] + TIMEOUT

\* A token set that has been adopted.
Held(set, e, r) ==
  /\ OfSso(set, e, r)
  /\ set.access = Len(e) => set.refresh = r
  /\ set.expires_at # None => set.expires_at <= e[set.access] + TIMEOUT

\* The refresh of a token set: answers are newer than it, and it is reported
\* revoked only if SSO accepts a newer one.
Refreshing(old, deadline, answer, set, e, r) ==
  /\ old = set.refresh /\ old # None
  /\ Answered(answer) =>
       /\ Pending(answer, deadline, old, e, r)
       /\ set.access < answer.access
       /\ answer.refresh # None => old <= answer.refresh
  /\ HonestSso /\ Refused(answer) /\ IsRevoked(FromTokenRequest(answer)) =>
       old < Rank(r)

SsoState == accepted # None => 1 <= accepted /\ accepted <= Len(expiry)

Within == {"queued", "refreshing", "notifying", "failing"}

\* The mutex: who is in access_token is queued once, and who refreshes or has
\* the listener told is first.
LockState ==
  /\ queue \in Seq(Callers) /\ Distinct(queue)
  /\ \A c \in Callers : pc[c] \in Within <=> InQueue(queue, c)
  /\ \A c \in Callers : pc[c] \in {"refreshing", "notifying", "failing"} => queue[1] = c

LoginState ==
  login # None =>
    /\ stored = None /\ \A c \in Callers : pc[c] = "idle"
    /\ login.stage = "exchanging" => now <= login.timer /\ login.timer <= now + TIMEOUT
    /\ login.stage # "failed" /\ login.reply = None => accepted = None
    /\ login.stage # "exchanging" => login.reply = None
    /\ Answered(login.reply) => Pending(login.reply, login.timer, None, expiry, accepted)

TokenState ==
  tokens # None =>
    /\ Held(tokens, expiry, accepted)
    /\ stored # None => /\ stored.access <= tokens.access
                        /\ Rank(stored.refresh) <= Rank(tokens.refresh)

RefreshOf(c) ==
  /\ reply[c] # None => pc[c] \in {"refreshing", "failing"}
  /\ pc[c] = "refreshing" =>
       /\ Refreshing(asked[c], timer[c], reply[c], tokens, expiry, accepted)
       /\ now <= timer[c] /\ timer[c] <= now + TIMEOUT
  /\ pc[c] = "failing" /\ reply[c] # None =>
       Refused(reply[c])
         /\ Refreshing(asked[c], timer[c], reply[c], tokens, expiry, accepted)
  /\ pc[c] = "notifying" => now + LIFETIME <= expiry[tokens.access] + TIMEOUT

RefreshState == \A c \in Callers : RefreshOf(c)

AuthInv ==
  TypeOK /\ SsoState /\ LockState /\ LoginState /\ TokenState /\ RefreshState

-----------------------------------------------------------------------------
(* SSO only adds to what it has issued, and only moves its refresh token on. *)

Refreshes == Nat \cup {None}

Grows(e, r, f, s) ==
  /\ e \in Seq(Nat) /\ f \in Seq(Nat) /\ Len(e) <= Len(f)
  /\ r \in Refreshes /\ s \in Refreshes /\ Rank(r) <= Rank(s)
  /\ \A i \in 1 .. Len(e) : f[i] = e[i]
  /\ \/ e = f /\ r = s
     \/ Len(e) < Len(f)

LEMMA RankType ==
  ASSUME NEW r \in Refreshes
  PROVE  Rank(r) \in Nat /\ (r # None => r \in Nat /\ Rank(r) = r)
BY NoneAssumption DEF Rank, Refreshes

LEMMA OfSsoGrows ==
  ASSUME NEW e, NEW r, NEW f, NEW s, Grows(e, r, f, s),
         NEW set, set.refresh \in Refreshes, OfSso(set, e, r)
  PROVE  /\ OfSso(set, f, s) /\ f[set.access] = e[set.access]
         /\ set.access = Len(f) => set.access = Len(e) /\ e = f /\ r = s
<1> DEFINE a == set.access
           m == Len(e)
           n == Len(f)
<1>1. /\ m \in Nat /\ n \in Nat /\ m <= n /\ a \in 1 .. m
      /\ (e = f /\ r = s) \/ m < n
      /\ \A i \in 1 .. m : f[i] = e[i]
  BY DEF Grows, OfSso
<1>2. f[a] = e[a]
  BY <1>1
<1>3. a = n => a = m /\ e = f /\ r = s
  <2> HIDE DEF a, m, n
  <2> QED  BY <1>1
<1>4. a \in 1 .. n
  <2> HIDE DEF a, m, n
  <2> QED  BY <1>1
<1>5. set.refresh # None => 1 <= set.refresh /\ set.refresh <= Rank(s)
  <2> DEFINE q == set.refresh
             x == Rank(r)
             y == Rank(s)
  <2>1. x \in Nat /\ y \in Nat /\ x <= y /\ (q # None => q \in Nat)
    BY RankType DEF Grows
  <2>2. q # None => 1 <= q /\ q <= x
    BY DEF OfSso
  <2> HIDE DEF q, x, y
  <2>3. q # None => 1 <= q /\ q <= y
    BY <2>1, <2>2
  <2> QED  BY <2>3 DEF q, y
<1> QED  BY <1>2, <1>3, <1>4, <1>5 DEF OfSso

LEMMA HeldGrows ==
  ASSUME NEW e, NEW r, NEW f, NEW s, Grows(e, r, f, s),
         NEW set \in TokenSet, Held(set, e, r)
  PROVE  Held(set, f, s)
<1>1. set.refresh \in Refreshes /\ OfSso(set, e, r)
  BY DEF TokenSet, Refreshes, Held
<1>2. /\ OfSso(set, f, s) /\ f[set.access] = e[set.access]
      /\ set.access = Len(f) => set.access = Len(e) /\ r = s
  BY <1>1, OfSsoGrows
<1> QED  BY <1>2 DEF Held

LEMMA PendingGrows ==
  ASSUME NEW e, NEW r, NEW f, NEW s, Grows(e, r, f, s),
         NEW a \in Reply, Answered(a), NEW d, NEW old, Pending(a, d, old, e, r)
  PROVE  Pending(a, d, old, f, s)
<1>1. a.refresh \in Refreshes
  BY DEF Reply, Refreshes, Answered, Outcome
<1>2. OfSso(a, e, r)
  BY DEF Pending
<1>3. /\ OfSso(a, f, s) /\ f[a.access] = e[a.access]
      /\ a.access = Len(f) => a.access = Len(e) /\ r = s
  BY <1>1, <1>2, OfSsoGrows
<1> QED  BY <1>3 DEF Pending

LEMMA RefreshingGrows ==
  ASSUME NEW e, NEW r, NEW f, NEW s, Grows(e, r, f, s),
         NEW a \in Reply \cup {None}, NEW d, NEW old \in Refreshes, NEW set,
         Refreshing(old, d, a, set, e, r)
  PROVE  Refreshing(old, d, a, set, f, s)
<1>1. Answered(a) => Pending(a, d, old, f, s)
  BY PendingGrows DEF Refreshing, Answered
<1>2. HonestSso /\ Refused(a) /\ IsRevoked(FromTokenRequest(a)) => old < Rank(s)
  <2> DEFINE x == Rank(r)
             y == Rank(s)
  <2>1. x \in Nat /\ y \in Nat /\ x <= y /\ old \in Nat
    BY RankType DEF Grows, Refreshing, Refreshes
  <2>2. HonestSso /\ Refused(a) /\ IsRevoked(FromTokenRequest(a)) => old < x
    BY DEF Refreshing
  <2> HIDE DEF x, y
  <2>3. HonestSso /\ Refused(a) /\ IsRevoked(FromTokenRequest(a)) => old < y
    BY <2>1, <2>2
  <2> QED  BY <2>3 DEF y
<1> QED  BY <1>1, <1>2 DEF Refreshing

\* What is issued is the newest there is, and pending from then on.
LEMMA Issues ==
  ASSUME TypeOK, SsoState, NEW rotates \in BOOLEAN, Issue(rotates)
  PROVE  /\ Grows(expiry, accepted, expiry', accepted') /\ SsoState'
         /\ Len(expiry') = Len(expiry) + 1 /\ expiry'[Len(expiry) + 1] = now + LIFETIME
         /\ accepted' = IF rotates THEN Len(expiry) + 1 ELSE accepted
<1> DEFINE n == Len(expiry)
           t == now + LIFETIME
<1>1. /\ expiry \in Seq(Nat) /\ n \in Nat /\ t \in Nat /\ accepted \in Refreshes
      /\ expiry' = Append(expiry, t)
      /\ accepted' = IF rotates THEN n + 1 ELSE accepted
      /\ accepted # None => 1 <= accepted /\ accepted <= n
  BY TimesAssumption DEF TypeOK, Issue, SsoState, Refreshes
<1>2. /\ expiry' \in Seq(Nat) /\ Len(expiry') = n + 1 /\ expiry'[n + 1] = t
      /\ \A i \in 1 .. n : expiry'[i] = expiry[i]
  BY <1>1
<1> HIDE DEF n
<1>3. /\ accepted' \in Refreshes /\ Rank(accepted) <= Rank(accepted')
      /\ accepted' # None => 1 <= accepted' /\ accepted' <= n + 1
  <2>1. n + 1 \in Nat /\ n + 1 # None /\ Rank(n + 1) = n + 1
    BY <1>1, NoneAssumption DEF Rank
  <2>2. /\ accepted = None => Rank(accepted) = 0
        /\ accepted # None => Rank(accepted) = accepted /\ accepted \in Nat
    BY <1>1 DEF Rank, Refreshes
  <2>3. CASE rotates
    <3>1. accepted' = n + 1
      BY <1>1, <2>3
    <3>2. Rank(accepted) <= n + 1
      <4>1. CASE accepted = None
        BY <1>1, <2>2, <4>1
      <4>2. CASE accepted # None
        <5>1. accepted \in Nat /\ accepted <= n /\ Rank(accepted) = accepted
          BY <1>1, <2>2, <4>2
        <5> QED  BY <1>1, <5>1
      <4> QED  BY <4>1, <4>2
    <3>3. 1 <= n + 1 /\ n + 1 <= n + 1
      BY <1>1
    <3> QED  BY <2>1, <3>1, <3>2, <3>3 DEF Refreshes
  <2>4. CASE ~ rotates
    BY <1>1, <2>2, <2>4
  <2> QED  BY <2>3, <2>4
<1>4. n <= n + 1 /\ n < n + 1
  BY <1>1
<1>5. Grows(expiry, accepted, expiry', accepted')
  BY <1>1, <1>2, <1>3, <1>4 DEF Grows, n
<1>6. SsoState'
  BY <1>2, <1>3 DEF SsoState
<1> QED  BY <1>1, <1>2, <1>5, <1>6 DEF n

LEMMA SsoSame ==
  ASSUME TypeOK, SsoState, expiry' = expiry, accepted' = accepted
  PROVE  Grows(expiry, accepted, expiry', accepted') /\ SsoState'
<1>1. expiry \in Seq(Nat) /\ Len(expiry) \in Nat /\ accepted \in Refreshes
  BY DEF TypeOK, Refreshes
<1>2. Rank(accepted) <= Rank(accepted)
  BY <1>1, RankType
<1>3. Len(expiry) <= Len(expiry)
  BY <1>1
<1> QED  BY <1>1, <1>2, <1>3 DEF Grows, SsoState

\* SSO's answer to a request of its grant.
LEMMA IssuedPending ==
  ASSUME TypeOK, SsoState, NEW rotates \in BOOLEAN, Issue(rotates),
         NEW given \in Expiries, NEW d \in Nat, d <= now + TIMEOUT
  PROVE  LET a == Issued(rotates, given)
         IN  /\ a \in Reply /\ Answered(a) /\ a.access = Len(expiry) + 1
             /\ a.refresh # None => a.refresh = Len(expiry) + 1
             /\ Pending(a, d, accepted, expiry', accepted')
<1> DEFINE a == Issued(rotates, given)
           n == Len(expiry)
<1>1. /\ n \in Nat /\ now \in Nat /\ LIFETIME \in Nat /\ TIMEOUT \in Nat
      /\ accepted \in Refreshes
  BY TimesAssumption DEF TypeOK, Refreshes
<1>2. /\ a.kind = "Tokens" /\ a.access = n + 1
      /\ a.refresh = IF rotates THEN n + 1 ELSE None
      /\ a.expires_in = IF given = "expires_in" THEN LIFETIME ELSE None
      /\ a.exp = IF given = "neither" THEN None ELSE now + LIFETIME
      /\ a \in [kind : {"Tokens"}, access : Nat, refresh : Nat \cup {None},
                expires_in : Nat \cup {None}, exp : Nat \cup {None}]
  BY <1>1 DEF Issued
<1>3. a \in Reply
  BY <1>2 DEF Reply
<1>4. a # None
  <2>1. None \notin Reply
    BY NoneAssumption
  <2> QED  BY <1>3, <2>1
<1>5. /\ Len(expiry') = n + 1 /\ expiry'[n + 1] = now + LIFETIME
      /\ accepted' = IF rotates THEN n + 1 ELSE accepted
  BY Issues
<1>6. n + 1 # None /\ LIFETIME # None /\ now + LIFETIME # None /\ Rank(n + 1) = n + 1
  BY <1>1, NoneAssumption DEF Rank
<1> HIDE DEF a, n
<1>7. OfSso(a, expiry', accepted')
  <2>1. n + 1 \in 1 .. n + 1 /\ 1 <= n + 1 /\ n + 1 <= n + 1
    BY <1>1
  <2>2. a.refresh # None => a.refresh = n + 1 /\ accepted' = n + 1
    BY <1>2, <1>5
  <2> QED  BY <1>2, <1>5, <1>6, <2>1, <2>2 DEF OfSso
<1>8. Kept(a, accepted) = accepted'
  BY <1>2, <1>5, <1>6 DEF Kept
<1>9. d + LIFETIME <= now + LIFETIME + TIMEOUT
  BY <1>1
<1>10. Pending(a, d, accepted, expiry', accepted')
  BY <1>2, <1>5, <1>7, <1>8, <1>9 DEF Pending
<1>11. a.refresh # None => a.refresh = n + 1
  BY <1>2
<1> QED  BY <1>2, <1>3, <1>4, <1>10, <1>11 DEF Answered, a, n

-----------------------------------------------------------------------------
(* What comes of a request, and what is made of it. *)

\* SSO is not asked, or issues tokens, or answers.
LEMMA Outcome_Sso ==
  ASSUME TypeOK, SsoState, NEW accepts \in BOOLEAN, NEW answer, Outcomes(accepts, answer)
  PROVE  /\ Grows(expiry, accepted, expiry', accepted') /\ SsoState'
         /\ answer \in Reply
         /\ expiry' \in Seq(Nat) /\ accepted' \in Refreshes
         /\ Answered(answer) =>
              /\ accepts
              /\ \E rotates \in BOOLEAN, given \in Expiries :
                   answer = Issued(rotates, given) /\ Issue(rotates)
         /\ HonestSso /\ Refused(answer) /\ IsRevoked(FromTokenRequest(answer)) =>
              ~ accepts /\ UNCHANGED <<expiry, accepted>>
<1>1. Rotates \subseteq BOOLEAN /\ Failures \subseteq Outcome
  BY ChoicesAssumption
<1>2. \A f \in Outcome : f.kind # "Tokens"
  BY DEF Outcome
<1>3. InvalidGrant \in Outcome
  BY DEF InvalidGrant, Outcome, Codes
<1>4. \/ \E rotates \in BOOLEAN : Issue(rotates)
      \/ expiry' = expiry /\ accepted' = accepted
  BY <1>1 DEF Outcomes
<1>5. Grows(expiry, accepted, expiry', accepted') /\ SsoState'
  BY <1>4, Issues, SsoSame
<1>6. expiry' \in Seq(Nat) /\ accepted' \in Refreshes
  BY <1>5 DEF Grows
<1>7. CASE /\ accepts
           /\ \E rotates \in Rotates, given \in Expiries :
                answer = Issued(rotates, given) /\ Issue(rotates)
  <2>1. PICK rotates \in BOOLEAN, given \in Expiries :
          answer = Issued(rotates, given) /\ Issue(rotates)
    BY <1>1, <1>7
  <2>2. now \in Nat /\ TIMEOUT \in Nat /\ now <= now + TIMEOUT
    BY TimesAssumption DEF TypeOK
  <2>3. answer \in Reply /\ Answered(answer)
    BY <2>1, <2>2, IssuedPending
  <2>4. ~ Refused(answer)
    BY <2>3 DEF Answered, Refused
  <2> QED  BY <1>5, <1>6, <1>7, <2>1, <2>3, <2>4
<1>8. CASE ~ accepts /\ answer = InvalidGrant /\ UNCHANGED <<expiry, accepted>>
  <2>1. answer \in Reply /\ ~ Answered(answer)
    BY <1>2, <1>3, <1>8 DEF Reply, Answered
  <2> QED  BY <1>5, <1>6, <1>8, <2>1
<1>9. CASE answer \in Failures
  <2>1. answer \in Reply /\ ~ Answered(answer)
    BY <1>1, <1>2, <1>9 DEF Reply, Answered
  <2>2. HonestSso => ~ IsRevoked(FromTokenRequest(answer))
    BY <1>9 DEF HonestSso
  <2> QED  BY <1>5, <1>6, <2>1, <2>2
<1> QED  BY <1>7, <1>8, <1>9 DEF Outcomes

\* from_response and refresh_with_scopes, of a pending answer that is in time.
LEMMA AdoptedHeld ==
  ASSUME TypeOK, SsoState, NEW a \in Reply, Answered(a), NEW old \in Refreshes,
         old # None => 1 <= old /\ old <= Rank(accepted),
         NEW d \in Nat, now <= d, Pending(a, d, old, expiry, accepted)
  PROVE  LET set == Fresh(a, old)
         IN  /\ set \in TokenSet /\ Held(set, expiry, accepted)
             /\ set.access = a.access /\ set.refresh = Kept(a, old)
             /\ now + LIFETIME <= expiry[set.access] + TIMEOUT
<1> DEFINE set == Fresh(a, old)
<1>1. /\ a.access \in Nat /\ a.refresh \in Refreshes
      /\ a.expires_in \in Nat \cup {None} /\ a.exp \in Nat \cup {None}
  BY DEF Reply, Answered, Outcome, Refreshes
<1>2. /\ now \in Nat /\ LIFETIME \in Nat /\ TIMEOUT \in Nat /\ expiry \in Seq(Nat)
  BY TimesAssumption DEF TypeOK
<1>3. /\ OfSso(a, expiry, accepted) /\ a.access \in 1 .. Len(expiry)
      /\ a.access = Len(expiry) => Kept(a, old) = accepted
      /\ a.exp # None => a.exp = expiry[a.access]
      /\ a.expires_in # None => a.expires_in = LIFETIME
      /\ d + LIFETIME <= expiry[a.access] + TIMEOUT
  BY DEF Pending, OfSso
<1> DEFINE x == expiry[a.access]
           until == IF a.expires_in # None THEN now + a.expires_in ELSE a.exp
<1>4. set = [access |-> a.access, refresh |-> Kept(a, old), expires_at |-> until]
  BY DEF Fresh, FromResponse, Kept
<1>5. Kept(a, old) \in Refreshes
  BY <1>1 DEF Kept
<1>6. until \in Nat \cup {None}
  BY <1>1, <1>2, <1>3
<1>7. x \in Nat
  BY <1>2, <1>3
<1>8. now + LIFETIME <= x + TIMEOUT
  <2>1. d + LIFETIME <= x + TIMEOUT
    BY <1>3
  <2> HIDE DEF x
  <2> QED  BY <1>2, <1>7, <2>1
<1>9. until # None => until <= x + TIMEOUT
  <2>1. a.exp # None => a.exp = x
    BY <1>3
  <2> HIDE DEF x
  <2>2. x <= x + TIMEOUT
    BY <1>2, <1>7
  <2> QED  BY <1>3, <1>8, <2>1, <2>2
<1>10. OfSso(set, expiry, accepted)
  <2>1. Kept(a, old) # None => 1 <= Kept(a, old) /\ Kept(a, old) <= Rank(accepted)
    BY <1>3 DEF OfSso, Kept
  <2> QED  BY <1>3, <1>4, <2>1 DEF OfSso
<1>11. Held(set, expiry, accepted)
  BY <1>3, <1>4, <1>9, <1>10 DEF Held
<1>12. set \in TokenSet
  BY <1>1, <1>4, <1>5, <1>6 DEF TokenSet, Refreshes
<1> QED  BY <1>4, <1>8, <1>11, <1>12

-----------------------------------------------------------------------------
(* The mutex. *)

\* Only one caller refreshes or notifies.
LEMMA OneHolder ==
  ASSUME LockState, NEW c \in Callers, NEW d \in Callers,
         pc[c] \in {"refreshing", "notifying", "failing"}, pc[d] \in {"refreshing", "notifying", "failing"}
  PROVE  c = d
BY DEF LockState

\* Whoever leaves access_token leaves the others as they were.
LEMMA Unlocked ==
  ASSUME LockState, pc \in [Callers -> {"idle", "queued", "refreshing", "notifying",
                                        "failing", "returned"}],
         NEW c \in Callers, pc[c] \in Within, Unlock(c),
         NEW p \in {"idle", "returned"}, pc' = [pc EXCEPT ![c] = p]
  PROVE  LockState'
<1>1. queue \in Seq(Callers) /\ Distinct(queue) /\ InQueue(queue, c)
  BY DEF LockState
<1>2. queue' = Released(queue, c)
  BY DEF Unlock
<1>3. /\ queue' \in Seq(Callers) /\ Distinct(queue')
      /\ \A d : InQueue(queue', d) <=> InQueue(queue, d) /\ d # c
      /\ queue[1] # c => queue'[1] = queue[1]
  BY <1>1, <1>2, ReleasedOne
<1>4. pc'[c] = p /\ \A d \in Callers : d # c => pc'[d] = pc[d]
  OBVIOUS
<1>5. \A d \in Callers : pc'[d] \in Within <=> InQueue(queue', d)
  BY <1>3, <1>4 DEF LockState, Within
<1>6. ASSUME NEW d \in Callers, pc'[d] \in {"refreshing", "notifying", "failing"}
      PROVE  queue'[1] = d
  <2>1. d # c /\ queue[1] = d
    BY <1>4, <1>6 DEF LockState
  <2> QED  BY <1>3, <2>1
<1> QED  BY <1>3, <1>5, <1>6 DEF LockState

\* The first in the queue goes on to the refresh, and then to the listener.
LEMMA StillFirst ==
  ASSUME LockState, pc \in [Callers -> {"idle", "queued", "refreshing", "notifying",
                                        "failing", "returned"}],
         NEW c \in Callers, pc[c] \in Within, queue' = queue, queue[1] = c,
         NEW p \in Within, pc' = [pc EXCEPT ![c] = p]
  PROVE  LockState'
<1>1. pc'[c] = p /\ \A d \in Callers : d # c => pc'[d] = pc[d]
  OBVIOUS
<1> QED  BY <1>1 DEF LockState

-----------------------------------------------------------------------------
(* What a step leaves as it is. *)

Pcs == {"idle", "queued", "refreshing", "notifying", "failing", "returned"}

\* TypeOK without its last conjunct, which follows from LockState.
Types ==
  /\ now \in Nat /\ queue \in Seq(Callers)
  /\ tokens = None \/ tokens \in TokenSet
  /\ login \in Login \cup {None}
  /\ (login = None) <=> (tokens # None)
  /\ pc \in [Callers -> Pcs]
  /\ asked \in [Callers -> Refreshes]
  /\ timer \in [Callers -> Nat]
  /\ reply \in [Callers -> Reply \cup {None}]
  /\ result \in [Callers -> ResultType \cup {None}]
  /\ stored = None \/ stored \in TokenSet
  /\ expiry \in Seq(Nat) /\ accepted \in Refreshes /\ orphans \subseteq Nat

LEMMA TypesOf == ASSUME TypeOK  PROVE Types
BY DEF TypeOK, Types, Pcs, Refreshes

LEMMA TypeStep == ASSUME Types', LockState'  PROVE TypeOK'
<1>1. ASSUME NEW c \in Callers, pc'[c] \in {"refreshing", "notifying", "failing"}
      PROVE  queue' # << >> /\ Head(queue') = c
  <2>1. queue' \in Seq(Callers) /\ InQueue(queue', c) /\ queue'[1] = c
    BY <1>1 DEF LockState, Within
  <2> QED  BY <2>1, FirstIsHead
<1> QED  BY <1>1 DEF Types, TypeOK, Holds, Pcs, Refreshes

\* A call is only under way once there are tokens.
LEMMA LoggedIn ==
  ASSUME AuthInv, NEW c \in Callers, pc[c] # "idle"
  PROVE  /\ login = None /\ tokens # None /\ tokens \in TokenSet
         /\ Held(tokens, expiry, accepted) /\ tokens.access \in 1 .. Len(expiry)
<1>1. login = None
  BY DEF AuthInv, LoginState
<1>2. tokens # None /\ tokens \in TokenSet
  BY <1>1 DEF AuthInv, TypeOK
<1> QED  BY <1>1, <1>2 DEF AuthInv, TokenState, Held, OfSso

LEMMA TokenFrame ==
  ASSUME AuthInv, Grows(expiry, accepted, expiry', accepted'), tokens' = tokens,
         stored' = stored \/ stored' = None \/ stored' = tokens
  PROVE  TokenState'
<1> SUFFICES ASSUME tokens # None
             PROVE  /\ Held(tokens, expiry', accepted')
                    /\ stored' # None => /\ stored'.access <= tokens.access
                                         /\ Rank(stored'.refresh) <= Rank(tokens.refresh)
  BY DEF TokenState
<1>1. tokens \in TokenSet /\ Held(tokens, expiry, accepted)
  BY DEF AuthInv, TypeOK, TokenState
<1>2. Held(tokens, expiry', accepted')
  BY <1>1, HeldGrows
<1>3. tokens.access <= tokens.access /\ Rank(tokens.refresh) <= Rank(tokens.refresh)
  <2>1. tokens.access \in Nat /\ tokens.refresh \in Refreshes
    BY <1>1 DEF TokenSet, Refreshes
  <2> QED  BY <2>1, RankType
<1>4. stored # None => /\ stored.access <= tokens.access
                       /\ Rank(stored.refresh) <= Rank(tokens.refresh)
  BY DEF AuthInv, TokenState
<1> QED  BY <1>2, <1>3, <1>4

\* What holds of the calls that a step does not concern.
LEMMA RefreshFrame ==
  ASSUME AuthInv, Grows(expiry, accepted, expiry', accepted'), now' = now,
         tokens' = tokens, NEW d \in Callers, pc'[d] = pc[d], asked'[d] = asked[d],
         timer'[d] = timer[d], reply'[d] = reply[d]
  PROVE  RefreshOf(d)'
<1>1. RefreshOf(d) /\ reply[d] \in Reply \cup {None} /\ asked[d] \in Refreshes
  BY TypesOf DEF AuthInv, RefreshState, Types
<1>2. CASE pc[d] = "refreshing"
  <2>1. Refreshing(asked[d], timer[d], reply[d], tokens, expiry, accepted)
    BY <1>1, <1>2 DEF RefreshOf
  <2>2. Refreshing(asked[d], timer[d], reply[d], tokens, expiry', accepted')
    BY <1>1, <2>1, RefreshingGrows
  <2> QED  BY <1>1, <1>2, <2>2 DEF RefreshOf
<1>3. CASE pc[d] = "notifying"
  <2>1. tokens.access \in 1 .. Len(expiry)
    BY <1>3, LoggedIn
  <2>2. expiry'[tokens.access] = expiry[tokens.access]
    BY <2>1 DEF Grows
  <2> QED  BY <1>1, <1>3, <2>2 DEF RefreshOf
<1>4. CASE pc[d] = "failing"
  <2>1. reply[d] # None =>
          Refused(reply[d]) /\ Refreshing(asked[d], timer[d], reply[d], tokens, expiry, accepted)
    BY <1>1, <1>4 DEF RefreshOf
  <2>2. reply[d] # None => Refreshing(asked[d], timer[d], reply[d], tokens, expiry', accepted')
    BY <1>1, <2>1, RefreshingGrows
  <2> QED  BY <1>1, <1>4, <2>1, <2>2 DEF RefreshOf
<1>5. CASE pc[d] \notin {"refreshing", "notifying", "failing"}
  BY <1>1, <1>5 DEF RefreshOf
<1> QED  BY <1>2, <1>3, <1>4, <1>5

LEMMA SsoFrame ==
  ASSUME AuthInv, UNCHANGED <<expiry, accepted>>
  PROVE  Grows(expiry, accepted, expiry', accepted') /\ SsoState'
BY SsoSame DEF AuthInv

\* Once logged in, the login is over.
LEMMA LoginFrame ==
  ASSUME login' = None
  PROVE  LoginState'
BY DEF LoginState

-----------------------------------------------------------------------------
(* The invariant holds at the start, and every step of the login keeps it. *)

LEMMA InvInit == Init => AuthInv
<1> SUFFICES ASSUME Init  PROVE AuthInv
  OBVIOUS
<1>1. PICK secret \in Secrets :
        login = [stage |-> "start", confidential |-> secret # None,
                 challenge |-> FALSE, verifier |-> FALSE, timer |-> 0, reply |-> None]
  BY DEF Init
<1>2. /\ now = 0 /\ queue = << >> /\ tokens = None /\ stored = None /\ expiry = << >>
      /\ accepted = None /\ orphans = {}
      /\ pc = [c \in Callers |-> "idle"] /\ asked = [c \in Callers |-> None]
      /\ timer = [c \in Callers |-> 0] /\ reply = [c \in Callers |-> None]
      /\ result = [c \in Callers |-> None]
  BY DEF Init
<1>3. /\ queue \in Seq(Callers) /\ expiry \in Seq(Nat) /\ Len(queue) = 0
      /\ \A d : ~ InQueue(queue, d)
  BY <1>2 DEF InQueue
<1>4. login \in Login
  BY <1>1 DEF Login
<1>5. login # None
  BY <1>4, NoneAssumption
<1>6. TypeOK
  BY <1>2, <1>3, <1>4, <1>5 DEF TypeOK
<1>7. LockState
  BY <1>2, <1>3 DEF LockState, Within, Distinct
<1>8. SsoState /\ TokenState /\ RefreshState
  BY <1>2 DEF SsoState, TokenState, RefreshState, RefreshOf
<1>9. LoginState
  BY <1>1, <1>2 DEF LoginState, Answered
<1> QED  BY <1>6, <1>7, <1>8, <1>9 DEF AuthInv

\* A step of the login is a step of nobody else.
LEMMA LoginStep ==
  ASSUME AuthInv, login # None, login' \in Login, now' = now, tokens' = tokens,
         stored' = stored, result' = result, queue' = queue, pc' = pc, asked' = asked,
         timer' = timer, reply' = reply, orphans' = orphans,
         Grows(expiry, accepted, expiry', accepted'), SsoState', LoginState'
  PROVE  AuthInv'
<1>1. Types /\ LockState /\ tokens = None
  BY TypesOf DEF AuthInv, Types
<1>2. login' # None
  BY NoneAssumption
<1>3. expiry' \in Seq(Nat) /\ accepted' \in Refreshes
  BY DEF Grows
<1>4. Types'
  BY <1>1, <1>2, <1>3 DEF Types
<1>5. LockState'
  BY <1>1 DEF LockState
<1>6. TypeOK'
  BY <1>4, <1>5, TypeStep
<1>7. TokenState'
  BY <1>1 DEF TokenState
<1>8. RefreshState'
  BY RefreshFrame DEF RefreshState
<1> QED  BY <1>5, <1>6, <1>7, <1>8 DEF AuthInv

LEMMA LoginType ==
  ASSUME AuthInv, tokens = None
  PROVE  /\ login # None /\ login \in Login
         /\ stored = None /\ \A c \in Callers : pc[c] = "idle"
         /\ login.timer \in Nat /\ login.reply \in Reply \cup {None}
         /\ login.verifier \in BOOLEAN /\ login.challenge \in BOOLEAN
<1>1. login # None /\ login \in Login
  BY DEF AuthInv, TypeOK
<1> QED  BY <1>1 DEF AuthInv, LoginState, Login

\* The user is sent to SSO and comes back with a code; its exchange begins, or
\* fails.
LEMMA InvLogin ==
  ASSUME AuthInv,
         \/ \E pkce \in BOOLEAN : Authorize(pkce) \/ Exchange(pkce)
         \/ ExchangeFailed
  PROVE  AuthInv'
<1>1. /\ tokens = None /\ now' = now /\ tokens' = tokens /\ stored' = stored
      /\ result' = result /\ queue' = queue /\ pc' = pc /\ asked' = asked
      /\ timer' = timer /\ reply' = reply /\ expiry' = expiry /\ accepted' = accepted
      /\ orphans' = orphans
  BY DEF Authorize, Exchange, ExchangeFailed, request, sso
<1>2. /\ login # None /\ login \in Login /\ stored = None
      /\ \A c \in Callers : pc[c] = "idle"
  BY <1>1, LoginType
<1>3. /\ now \in Nat /\ TIMEOUT \in Nat /\ now + TIMEOUT \in Nat
      /\ now <= now + TIMEOUT /\ now + TIMEOUT <= now + TIMEOUT
  BY TimesAssumption DEF AuthInv, TypeOK
<1>4. Grows(expiry, accepted, expiry', accepted') /\ SsoState'
  BY <1>1, SsoFrame
<1>5. LoginState
  BY DEF AuthInv
<1>6. ASSUME NEW pkce \in BOOLEAN, Authorize(pkce)
      PROVE  login' \in Login /\ LoginState'
  <2>1. /\ login.stage = "start"
        /\ login' = [login EXCEPT !.stage = "code", !.challenge = pkce]
    BY <1>6 DEF Authorize
  <2>2. login' \in Login /\ login'.stage = "code" /\ login'.reply = login.reply
    BY <1>2, <2>1 DEF Login
  <2>3. login.reply = None /\ accepted = None
    BY <1>2, <1>5, <2>1 DEF LoginState
  <2> QED  BY <1>1, <1>2, <2>2, <2>3 DEF LoginState, Answered
<1>7. ASSUME NEW pkce \in BOOLEAN, Exchange(pkce)
      PROVE  login' \in Login /\ LoginState'
  <2>1. /\ login.stage = "code"
        /\ login' = [login EXCEPT !.stage = "exchanging", !.verifier = pkce,
                                  !.timer = now + TIMEOUT]
    BY <1>7 DEF Exchange
  <2>2. /\ login' \in Login /\ login'.stage = "exchanging"
        /\ login'.reply = login.reply /\ login'.timer = now + TIMEOUT
    BY <1>2, <1>3, <2>1 DEF Login
  <2>3. login.reply = None /\ accepted = None
    BY <1>2, <1>5, <2>1 DEF LoginState
  <2> QED  BY <1>1, <1>2, <1>3, <2>2, <2>3 DEF LoginState, Answered
<1>8. ASSUME ExchangeFailed
      PROVE  login' \in Login /\ LoginState'
  <2>1. login' = [login EXCEPT !.stage = "failed", !.timer = 0, !.reply = None]
    BY <1>8 DEF ExchangeFailed
  <2>2. login' \in Login /\ login'.stage = "failed" /\ login'.reply = None
    BY <1>2, <2>1 DEF Login
  <2> QED  BY <1>1, <1>2, <2>2 DEF LoginState, Answered
<1>9. login' \in Login /\ LoginState'
  BY <1>6, <1>7, <1>8
<1> QED  BY <1>1, <1>2, <1>4, <1>9, LoginStep

\* SSO answers the exchange.
LEMMA InvAdmit ==
  ASSUME AuthInv, Admit
  PROVE  AuthInv'
<1> DEFINE accepts == login.verifier = login.challenge
<1>1. PICK answer \in Answers :
        Outcomes(accepts, answer) /\ login' = [login EXCEPT !.reply = answer]
  BY DEF Admit
<1>2. /\ tokens = None /\ now' = now /\ tokens' = tokens /\ stored' = stored
      /\ result' = result /\ queue' = queue /\ pc' = pc /\ asked' = asked
      /\ timer' = timer /\ reply' = reply /\ orphans' = orphans
      /\ login.stage = "exchanging" /\ login.reply = None
  BY DEF Admit, request
<1>3. /\ login # None /\ login \in Login /\ stored = None /\ login.timer \in Nat
      /\ \A c \in Callers : pc[c] = "idle"
  BY <1>2, LoginType
<1>4. TypeOK /\ SsoState /\ LoginState
  BY DEF AuthInv
<1>5. accepts \in BOOLEAN
  OBVIOUS
<1> HIDE DEF accepts
<1>6. /\ Grows(expiry, accepted, expiry', accepted') /\ SsoState' /\ answer \in Reply
      /\ Answered(answer) =>
           \E rotates \in BOOLEAN, given \in Expiries :
             answer = Issued(rotates, given) /\ Issue(rotates)
  BY <1>1, <1>4, <1>5, Outcome_Sso
<1>7. /\ login' \in Login /\ login'.stage = "exchanging" /\ login'.timer = login.timer
      /\ login'.reply = answer
  BY <1>1, <1>2, <1>3, <1>6 DEF Login
<1>8. accepted = None /\ now <= login.timer /\ login.timer <= now + TIMEOUT
  BY <1>2, <1>3, <1>4 DEF LoginState
<1>9. Answered(answer) => Pending(answer, login.timer, None, expiry', accepted')
  BY <1>3, <1>4, <1>6, <1>8, IssuedPending
<1>10. answer # None
  BY <1>6, NoneAssumption
<1>11. LoginState'
  BY <1>2, <1>3, <1>7, <1>8, <1>9, <1>10 DEF LoginState
<1> QED  BY <1>2, <1>3, <1>6, <1>7, <1>11, LoginStep

\* The user is logged in.
LEMMA InvExchanged ==
  ASSUME AuthInv, Exchanged
  PROVE  AuthInv'
<1>1. /\ tokens = None /\ now' = now /\ result' = result /\ queue' = queue /\ pc' = pc
      /\ asked' = asked /\ timer' = timer /\ reply' = reply /\ orphans' = orphans
      /\ expiry' = expiry /\ accepted' = accepted
      /\ login' = None /\ Answered(login.reply)
      /\ tokens' = FromResponse(login.reply) /\ stored' = tokens'
  BY DEF Exchanged, request, sso
<1> DEFINE a == login.reply
<1>2. /\ login # None /\ login.timer \in Nat /\ \A c \in Callers : pc[c] = "idle"
      /\ a \in Reply
  BY <1>1, LoginType DEF Answered
<1>3. TypeOK /\ Types /\ SsoState /\ LockState /\ LoginState
  BY TypesOf DEF AuthInv
<1>4. /\ Pending(a, login.timer, None, expiry, accepted)
      /\ now <= login.timer
  BY <1>1, <1>2, <1>3 DEF LoginState, Answered
<1>5. Fresh(a, None) = FromResponse(a)
  BY DEF Fresh, FromResponse
<1> HIDE DEF a
<1>6. Fresh(a, None) \in TokenSet /\ Held(Fresh(a, None), expiry, accepted)
  BY <1>1, <1>2, <1>3, <1>4, AdoptedHeld DEF Refreshes, a
<1>7. tokens' \in TokenSet /\ Held(tokens', expiry', accepted') /\ tokens' # None
  BY <1>1, <1>5, <1>6, NoneAssumption DEF a
<1>8. Types'
  BY <1>1, <1>3, <1>7 DEF Types
<1>9. LockState' /\ SsoState'
  BY <1>1, <1>3 DEF LockState, SsoState
<1>10. TypeOK'
  BY <1>8, <1>9, TypeStep
<1>11. TokenState'
  <2>1. tokens'.access \in Nat /\ tokens'.refresh \in Refreshes
    BY <1>7 DEF TokenSet, Refreshes
  <2>2. tokens'.access <= tokens'.access /\ Rank(tokens'.refresh) <= Rank(tokens'.refresh)
    BY <2>1, RankType
  <2> QED  BY <1>1, <1>7, <2>2 DEF TokenState
<1>12. RefreshState'
  BY <1>1, <1>2 DEF AuthInv, RefreshState, RefreshOf
<1>13. LoginState'
  BY <1>1, LoginFrame
<1> QED  BY <1>9, <1>10, <1>11, <1>12, <1>13 DEF AuthInv

-----------------------------------------------------------------------------
(* Time, and the requests of callers that have left. *)

LEMMA InvTick ==
  ASSUME AuthInv, Tick
  PROVE  AuthInv'
<1>1. /\ now' = now + 1 /\ login' = login /\ queue' = queue /\ tokens' = tokens
      /\ pc' = pc /\ asked' = asked /\ timer' = timer /\ reply' = reply
      /\ result' = result /\ stored' = stored /\ expiry' = expiry
      /\ accepted' = accepted /\ orphans' = orphans
      /\ login # None => login.stage = "exchanging" /\ now < login.timer
      /\ \A c \in Callers : pc[c] = "refreshing" => now < timer[c]
      /\ \A c \in Callers : pc[c] # "notifying"
  BY DEF Tick, request, sso
<1>2. Types /\ LockState /\ LoginState /\ RefreshState /\ SsoState
  BY TypesOf DEF AuthInv
<1>3. now \in Nat /\ now + 1 \in Nat /\ TIMEOUT \in Nat
  BY <1>2, TimesAssumption DEF Types
<1>4. ASSUME NEW t \in Nat, now < t, t <= now + TIMEOUT
      PROVE  now + 1 <= t /\ t <= now + 1 + TIMEOUT
  BY <1>3, <1>4
<1>5. Types'
  BY <1>1, <1>2, <1>3 DEF Types
<1>6. LockState' /\ SsoState'
  BY <1>1, <1>2 DEF LockState, SsoState
<1>7. TypeOK'
  BY <1>5, <1>6, TypeStep
<1>8. LoginState'
  <2> SUFFICES ASSUME login # None  PROVE LoginState'
    BY <1>1, LoginFrame
  <2>1. login.stage = "exchanging" /\ now < login.timer /\ login.timer <= now + TIMEOUT
    BY <1>1, <1>2 DEF LoginState
  <2>2. login.timer \in Nat
    BY <1>2 DEF Types, Login
  <2>3. now + 1 <= login.timer /\ login.timer <= now + 1 + TIMEOUT
    BY <1>4, <2>1, <2>2
  <2> QED  BY <1>1, <1>2, <2>3 DEF LoginState
<1>9. TokenState'
  BY <1>1 DEF AuthInv, TokenState
<1>10. ASSUME NEW c \in Callers  PROVE RefreshOf(c)'
  <2>1. CASE pc[c] = "refreshing"
    <3>1. /\ Refreshing(asked[c], timer[c], reply[c], tokens, expiry, accepted)
          /\ now < timer[c] /\ timer[c] <= now + TIMEOUT /\ timer[c] \in Nat
      BY <1>1, <1>2, <2>1 DEF RefreshState, RefreshOf, Types
    <3>2. now + 1 <= timer[c] /\ timer[c] <= now + 1 + TIMEOUT
      BY <1>4, <3>1
    <3> QED  BY <1>1, <2>1, <3>1, <3>2 DEF RefreshOf
  <2>2. CASE pc[c] # "refreshing"
    BY <1>1, <1>2, <2>2 DEF RefreshState, RefreshOf
  <2> QED  BY <2>1, <2>2
<1>11. RefreshState'
  BY <1>10 DEF RefreshState
<1> QED  BY <1>6, <1>7, <1>8, <1>9, <1>11 DEF AuthInv

LEMMA InvOrphan ==
  ASSUME AuthInv, Orphan
  PROVE  AuthInv'
<1>1. PICK refresh \in orphans :
        /\ orphans' = orphans \ {refresh}
        /\ \/ UNCHANGED <<expiry, accepted>>
           \/ refresh = accepted /\ \E rotates \in Rotates : Issue(rotates)
        /\ UNCHANGED <<now, login, queue, tokens, pc, request, result, stored>>
  BY DEF Orphan
<1>2. /\ now' = now /\ login' = login /\ queue' = queue /\ tokens' = tokens
      /\ pc' = pc /\ asked' = asked /\ timer' = timer /\ reply' = reply
      /\ result' = result /\ stored' = stored
  BY <1>1 DEF request
<1>3. TypeOK /\ Types /\ LockState /\ LoginState /\ SsoState
  BY TypesOf DEF AuthInv
<1>4. Grows(expiry, accepted, expiry', accepted') /\ SsoState'
  <2>1. Rotates \subseteq BOOLEAN
    BY ChoicesAssumption
  <2> QED  BY <1>1, <1>3, <2>1, Issues, SsoSame
<1>5. Types'
  BY <1>1, <1>2, <1>3, <1>4 DEF Types, Grows
<1>6. LockState'
  BY <1>2, <1>3 DEF LockState
<1>7. TypeOK'
  BY <1>5, <1>6, TypeStep
<1>8. LoginState'
  <2> SUFFICES ASSUME login # None  PROVE LoginState'
    BY <1>2, LoginFrame
  <2>1. Answered(login.reply) => Pending(login.reply, login.timer, None, expiry', accepted')
    <3>1. Answered(login.reply) =>
            /\ login.reply \in Reply
            /\ Pending(login.reply, login.timer, None, expiry, accepted)
      BY <1>3 DEF LoginState, Types, Login, Answered
    <3> QED  BY <1>4, <3>1, PendingGrows
  <2>2. accepted = None => accepted' = None
    <3>1. refresh # None
      BY <1>3, NoneAssumption DEF Types
    <3> QED  BY <1>1, <3>1
  <2> QED  BY <1>2, <1>3, <2>1, <2>2 DEF LoginState
<1>9. TokenState'
  BY <1>2, <1>4, TokenFrame
<1>10. RefreshState'
  BY <1>2, <1>4, RefreshFrame DEF RefreshState
<1> QED  BY <1>4, <1>6, <1>7, <1>8, <1>9, <1>10 DEF AuthInv

-----------------------------------------------------------------------------
(* access_token. *)

\* A caller whose request is over leaves, with an answer or without.
LEMMA InvLeave ==
  ASSUME AuthInv, NEW c \in Callers, pc[c] \in Within, Unlock(c),
         NEW p \in {"idle", "returned"}, pc' = [pc EXCEPT ![c] = p],
         now' = now, login' = login, tokens' = tokens, UNCHANGED <<expiry, accepted>>,
         \/ Done(c)
         \/ pc[c] \in {"queued", "notifying"} /\ UNCHANGED <<asked, timer, reply>>,
         result' \in [Callers -> ResultType \cup {None}], orphans' \subseteq Nat,
         stored' = stored \/ stored' = None \/ stored' = tokens
  PROVE  AuthInv'
<1>1. Types /\ LockState /\ RefreshState
  BY TypesOf DEF AuthInv
<1>2. login = None /\ tokens \in TokenSet
  BY LoggedIn DEF Within
<1>3. Grows(expiry, accepted, expiry', accepted') /\ SsoState'
  BY SsoFrame
<1>4. /\ pc'[c] = p /\ reply'[c] = None
      /\ \A d \in Callers : d # c => /\ pc'[d] = pc[d] /\ asked'[d] = asked[d]
                                     /\ timer'[d] = timer[d] /\ reply'[d] = reply[d]
  BY <1>1 DEF Types, Done, RefreshState, RefreshOf
<1>5. /\ asked' \in [Callers -> Refreshes] /\ timer' \in [Callers -> Nat]
      /\ reply' \in [Callers -> Reply \cup {None}]
  <2>1. /\ asked \in [Callers -> Refreshes] /\ timer \in [Callers -> Nat]
        /\ reply \in [Callers -> Reply \cup {None}]
    BY <1>1 DEF Types
  <2>2. None \in Refreshes /\ None \in Reply \cup {None} /\ 0 \in Nat
    BY DEF Refreshes
  <2>3. CASE Done(c)
    BY <2>1, <2>2, <2>3 DEF Done
  <2>4. CASE UNCHANGED <<asked, timer, reply>>
    BY <2>1, <2>4
  <2> QED  BY <2>3, <2>4
<1>6. pc' \in [Callers -> Pcs]
  BY <1>1 DEF Types, Pcs
<1>7. stored' = None \/ stored' \in TokenSet
  BY <1>1, <1>2 DEF Types
<1>8. LockState'
  BY <1>1, Unlocked DEF Types, Pcs
<1>9. Types'
  BY <1>1, <1>2, <1>5, <1>6, <1>7, <1>8 DEF Types, LockState
<1>10. TypeOK'
  BY <1>8, <1>9, TypeStep
<1>11. LoginState'
  BY <1>2, LoginFrame
<1>12. TokenState'
  BY <1>3, TokenFrame
<1>13. RefreshState'
  <2>1. RefreshOf(c)'
    BY <1>4 DEF RefreshOf
  <2>2. ASSUME NEW d \in Callers, d # c  PROVE RefreshOf(d)'
    BY <1>3, <1>4, <2>2, RefreshFrame
  <2> QED  BY <2>1, <2>2 DEF RefreshState
<1> QED  BY <1>3, <1>8, <1>10, <1>11, <1>12, <1>13 DEF AuthInv

\* What is returned has its type.
LEMMA Results ==
  ASSUME NEW c \in Callers, NEW r, result \in [Callers -> ResultType \cup {None}],
         \/ \E set \in TokenSet : r = Granted(set)
         \/ \E err \in AuthError : r = Failed(err),
         result' = [result EXCEPT ![c] = r]
  PROVE  /\ r \in ResultType /\ result' \in [Callers -> ResultType \cup {None}]
         /\ result'[c] = r
BY DEF ResultType, Granted, Failed, TokenSet

LEMMA FailureType ==
  /\ NoRefreshToken \in AuthError
  /\ \A r \in Reply : Refused(r) => FromTokenRequest(r) \in AuthError
<1>1. ASSUME NEW r \in Reply, Refused(r)  PROVE FromTokenRequest(r) \in AuthError
  <2>1. r \in Outcome
    BY <1>1 DEF Reply, Refused
  <2>2. CASE r.kind = "ServerResponse"
    BY <2>1, <2>2 DEF Outcome, FromTokenRequest, AuthError
  <2>3. CASE r.kind \in {"Request", "Parse"}
    BY <2>1, <2>3 DEF Outcome, FromTokenRequest, AuthError
  <2>4. CASE r.kind = "Other"
    BY <2>1, <2>4 DEF Outcome, FromTokenRequest, AuthError
  <2> QED  BY <2>1, <2>2, <2>3, <2>4 DEF Outcome
<1> QED  BY <1>1 DEF NoRefreshToken, AuthError

LEMMA InvReturn ==
  ASSUME AuthInv, NEW c \in Callers,
         Reuse(c) \/ Notify(c) \/ NotifyFailed(c) \/ Cancel(c)
  PROVE  AuthInv'
<1>1. Types /\ RefreshState
  BY TypesOf DEF AuthInv
<1>2. pc[c] \in Within
  BY DEF Reuse, Notify, NotifyFailed, Cancel, Within
<1>3. tokens \in TokenSet
  BY <1>2, LoggedIn DEF Within
<1>4. /\ now' = now /\ login' = login /\ tokens' = tokens
      /\ UNCHANGED <<expiry, accepted>> /\ Unlock(c)
  BY DEF Reuse, Notify, NotifyFailed, Cancel, Return, sso
<1>5. CASE Reuse(c) \/ Notify(c)
  <2>1. /\ pc' = [pc EXCEPT ![c] = "returned"] /\ pc[c] \in {"queued", "notifying"}
        /\ UNCHANGED <<asked, timer, reply>> /\ orphans' = orphans
        /\ stored' = stored \/ stored' = tokens
    BY <1>5 DEF Reuse, Notify, Return, request, sso
  <2>2. result' = [result EXCEPT ![c] = Granted(tokens)]
    BY <1>5 DEF Reuse, Notify, Return
  <2>3. result' \in [Callers -> ResultType \cup {None}]
    BY <1>1, <1>3, <2>2, Results DEF Types
  <2>4. orphans' \subseteq Nat
    BY <1>1, <2>1 DEF Types
  <2> QED  BY <1>2, <1>4, <2>1, <2>3, <2>4, InvLeave
<1>6. CASE NotifyFailed(c)
  <2> DEFINE err == IF reply[c] = None THEN NoRefreshToken ELSE FromTokenRequest(reply[c])
  <2>1. /\ pc' = [pc EXCEPT ![c] = "returned"] /\ Done(c) /\ orphans' = orphans
        /\ stored' = stored \/ stored' = None
        /\ result' = [result EXCEPT ![c] = Failed(err)]
        /\ pc[c] = "failing"
    BY <1>6 DEF NotifyFailed, Return, sso
  <2>2. reply[c] # None => Refused(reply[c]) /\ reply[c] \in Reply
    BY <1>1, <2>1 DEF Types, RefreshState, RefreshOf
  <2>3. err \in AuthError
    BY <2>2, FailureType
  <2> HIDE DEF err
  <2>4. result' \in [Callers -> ResultType \cup {None}]
    BY <1>1, <2>1, <2>3, Results DEF Types
  <2>5. orphans' \subseteq Nat
    BY <1>1, <2>1 DEF Types
  <2> QED  BY <1>2, <1>4, <2>1, <2>4, <2>5, InvLeave
<1>7. CASE Cancel(c)
  <2>1. /\ pc' = [pc EXCEPT ![c] = "idle"] /\ Done(c)
        /\ result' = result /\ stored' = stored
        /\ \/ orphans' = orphans
           \/ pc[c] = "refreshing" /\ orphans' = orphans \cup {asked[c]}
    BY <1>7 DEF Cancel
  <2>2. pc[c] = "refreshing" => asked[c] \in Nat
    BY <1>1 DEF RefreshState, RefreshOf, Refreshing, Types, Refreshes
  <2>3. orphans' \subseteq Nat /\ result' \in [Callers -> ResultType \cup {None}]
    BY <1>1, <2>1, <2>2 DEF Types
  <2> QED  BY <1>2, <1>4, <2>1, <2>3, InvLeave
<1> QED  BY <1>5, <1>6, <1>7

\* A refresh fails, or there is none to make: the listener is told.
LEMMA InvFall ==
  ASSUME AuthInv, NEW c \in Callers, GiveUp(c) \/ Fall(c)
  PROVE  AuthInv'
<1>1. /\ now' = now /\ login' = login /\ queue' = queue /\ tokens' = tokens
      /\ asked' = asked /\ timer' = timer /\ reply' = reply /\ result' = result
      /\ stored' = stored /\ expiry' = expiry /\ accepted' = accepted
      /\ orphans' = orphans
      /\ pc' = [pc EXCEPT ![c] = "failing"] /\ pc[c] \in {"queued", "refreshing"}
  BY DEF GiveUp, Fall, request, sso
<1>2. Types /\ LockState /\ RefreshState
  BY TypesOf DEF AuthInv
<1>3. login = None
  BY <1>1, LoggedIn
<1>4. Grows(expiry, accepted, expiry', accepted') /\ SsoState'
  BY <1>1, SsoFrame
<1>5. /\ pc'[c] = "failing" /\ \A d \in Callers : d # c => pc'[d] = pc[d]
      /\ pc' \in [Callers -> Pcs]
  BY <1>1, <1>2 DEF Types, Pcs
<1>6. LockState'
  <2>1. queue[1] = c
    BY <1>1, <1>2 DEF GiveUp, Fall, Holds, Types, LockState
  <2> QED  BY <1>1, <1>2, <2>1, StillFirst DEF Types, Pcs, Within
<1>7. TypeOK'
  <2>1. Types'
    BY <1>1, <1>2, <1>5 DEF Types
  <2> QED  BY <1>6, <2>1, TypeStep
<1>8. LoginState' /\ TokenState'
  BY <1>1, <1>3, <1>4, LoginFrame, TokenFrame
<1>9. RefreshOf(c)'
  <2>1. CASE GiveUp(c)
    <3>1. reply[c] = None
      BY <1>2, <2>1 DEF GiveUp, RefreshState, RefreshOf
    <3> QED  BY <1>1, <1>5, <3>1 DEF RefreshOf
  <2>2. CASE Fall(c)
    BY <1>1, <1>2, <1>5, <2>2 DEF Fall, RefreshState, RefreshOf
  <2> QED  BY <2>1, <2>2
<1>10. RefreshState'
  <2>1. ASSUME NEW d \in Callers, d # c  PROVE RefreshOf(d)'
    BY <1>1, <1>4, <1>5, <2>1, RefreshFrame
  <2> QED  BY <1>9, <2>1 DEF RefreshState
<1> QED  BY <1>4, <1>6, <1>7, <1>8, <1>10 DEF AuthInv

\* A caller joins the queue, or sends its request with what it was given.
LEMMA InvLock ==
  ASSUME AuthInv, NEW c \in Callers, Lock(c) \/ Send(c)
  PROVE  AuthInv'
<1>1. /\ now' = now /\ login' = login /\ tokens' = tokens /\ asked' = asked
      /\ timer' = timer /\ reply' = reply /\ stored' = stored /\ expiry' = expiry
      /\ accepted' = accepted /\ orphans' = orphans
  BY DEF Lock, Send, request, sso
<1>2. Types /\ LockState /\ RefreshState
  BY TypesOf DEF AuthInv
<1>3. login = None
  <2>1. CASE Lock(c)
    <3>1. tokens # None
      BY <2>1 DEF Lock
    <3> QED  BY <1>2, <3>1 DEF Types
  <2>2. CASE Send(c)
    BY <2>2, LoggedIn DEF Send
  <2> QED  BY <2>1, <2>2
<1>4. Grows(expiry, accepted, expiry', accepted') /\ SsoState'
  BY <1>1, SsoFrame
<1>5. /\ pc'[c] \in {"idle", "queued"} /\ pc[c] \in {"idle", "returned"}
      /\ pc' \in [Callers -> Pcs]
      /\ \A d \in Callers : d # c => pc'[d] = pc[d]
      /\ result' \in [Callers -> ResultType \cup {None}]
  BY <1>2 DEF Lock, Send, Types, Pcs
<1>6. LockState'
  <2>1. queue \in Seq(Callers) /\ Distinct(queue) /\ ~ InQueue(queue, c)
    BY <1>2, <1>5 DEF LockState, Within
  <2>2. CASE Lock(c)
    <3>1. queue' = Append(queue, c) /\ pc'[c] = "queued"
      BY <1>2, <2>2 DEF Lock, Types
    <3>2. /\ queue' \in Seq(Callers) /\ Distinct(queue')
          /\ \A d : InQueue(queue', d) <=> InQueue(queue, d) \/ d = c
          /\ queue # << >> => queue'[1] = queue[1]
      BY <2>1, <3>1, JoinedLast
    <3>3. \A d \in Callers : pc'[d] \in Within <=> InQueue(queue', d)
      BY <1>2, <1>5, <3>1, <3>2 DEF LockState, Within
    <3>4. ASSUME NEW d \in Callers, pc'[d] \in {"refreshing", "notifying", "failing"}
          PROVE  queue'[1] = d
      <4>1. d # c /\ queue[1] = d /\ InQueue(queue, d)
        BY <1>2, <1>5, <3>1, <3>4 DEF LockState, Within
      <4>2. queue # << >>
        BY <2>1, <4>1, FirstIsHead
      <4> QED  BY <3>2, <4>1, <4>2
    <3> QED  BY <3>2, <3>3, <3>4 DEF LockState
  <2>3. CASE Send(c)
    <3>1. queue' = queue /\ pc'[c] = "idle"
      BY <1>2, <2>3 DEF Send, Types
    <3>2. \A d \in Callers : pc'[d] \in Within <=> InQueue(queue', d)
      BY <1>2, <1>5, <2>1, <3>1 DEF LockState, Within
    <3>3. \A d \in Callers : pc'[d] \in {"refreshing", "notifying", "failing"} => queue'[1] = d
      BY <1>2, <1>5, <3>1 DEF LockState
    <3> QED  BY <2>1, <3>1, <3>2, <3>3 DEF LockState
  <2> QED  BY <2>2, <2>3
<1>7. Types'
  BY <1>1, <1>2, <1>5, <1>6 DEF Types, LockState
<1>8. TypeOK'
  BY <1>6, <1>7, TypeStep
<1>9. LoginState'
  BY <1>1, <1>3, LoginFrame
<1>10. TokenState'
  BY <1>1, <1>4, TokenFrame
<1>11. RefreshState'
  <2>1. RefreshOf(c)'
    BY <1>1, <1>2, <1>5 DEF RefreshOf, RefreshState
  <2>2. ASSUME NEW d \in Callers, d # c  PROVE RefreshOf(d)'
    BY <1>1, <1>4, <1>5, <2>2, RefreshFrame
  <2> QED  BY <2>1, <2>2 DEF RefreshState
<1> QED  BY <1>4, <1>6, <1>8, <1>9, <1>10, <1>11 DEF AuthInv

\* A refresh begins.
LEMMA InvRefresh ==
  ASSUME AuthInv, NEW c \in Callers, Refresh(c)
  PROVE  AuthInv'
<1>1. /\ now' = now /\ login' = login /\ queue' = queue /\ tokens' = tokens
      /\ reply' = reply /\ result' = result /\ stored' = stored
      /\ expiry' = expiry /\ accepted' = accepted /\ orphans' = orphans
      /\ asked' = [asked EXCEPT ![c] = tokens.refresh]
      /\ timer' = [timer EXCEPT ![c] = now + TIMEOUT]
      /\ pc' = [pc EXCEPT ![c] = "refreshing"]
      /\ pc[c] = "queued" /\ Holds(c) /\ tokens.refresh # None
  BY DEF Refresh, Ask, sso
<1>2. Types /\ LockState /\ RefreshState
  BY TypesOf DEF AuthInv
<1>3. login = None /\ tokens \in TokenSet
  BY <1>1, LoggedIn
<1>4. Grows(expiry, accepted, expiry', accepted') /\ SsoState'
  BY <1>1, SsoFrame
<1>5. /\ now \in Nat /\ now + TIMEOUT \in Nat /\ now <= now + TIMEOUT
      /\ now + TIMEOUT <= now + TIMEOUT /\ tokens.refresh \in Refreshes
  BY <1>2, <1>3, TimesAssumption DEF Types, TokenSet, Refreshes
<1>6. /\ pc'[c] = "refreshing" /\ asked'[c] = tokens.refresh /\ timer'[c] = now + TIMEOUT
      /\ \A d \in Callers : d # c => /\ pc'[d] = pc[d] /\ asked'[d] = asked[d]
                                     /\ timer'[d] = timer[d]
      /\ asked' \in [Callers -> Refreshes] /\ timer' \in [Callers -> Nat]
  BY <1>1, <1>2, <1>5 DEF Types
<1>7. pc' \in [Callers -> Pcs]
  BY <1>1, <1>2 DEF Types, Pcs
<1>8. LockState'
  <2>1. queue[1] = c
    BY <1>1, <1>2 DEF Holds, Types
  <2> QED  BY <1>1, <1>2, <2>1, StillFirst DEF Types, Pcs, Within
<1>9. Types'
  BY <1>1, <1>2, <1>6, <1>7 DEF Types
<1>10. TypeOK'
  BY <1>8, <1>9, TypeStep
<1>11. LoginState' /\ TokenState'
  BY <1>1, <1>3, <1>4, LoginFrame, TokenFrame
<1>12. RefreshOf(c)'
  <2>1. reply[c] = None
    BY <1>1, <1>2 DEF RefreshState, RefreshOf
  <2>2. Refreshing(tokens.refresh, now + TIMEOUT, None, tokens, expiry', accepted')
    BY <1>1 DEF Refreshing, Answered, Refused
  <2> QED  BY <1>1, <1>5, <1>6, <2>1, <2>2 DEF RefreshOf
<1>13. RefreshState'
  <2>1. ASSUME NEW d \in Callers, d # c  PROVE RefreshOf(d)'
    BY <1>1, <1>4, <1>6, <2>1, RefreshFrame
  <2> QED  BY <1>12, <2>1 DEF RefreshState
<1> QED  BY <1>4, <1>8, <1>10, <1>11, <1>13 DEF AuthInv

\* SSO answers a refresh.
LEMMA InvServe ==
  ASSUME AuthInv, NEW c \in Callers, Serve(c)
  PROVE  AuthInv'
<1> DEFINE accepts == asked[c] = accepted
<1>1. PICK answer \in Answers :
        Outcomes(accepts, answer) /\ reply' = [reply EXCEPT ![c] = answer]
  BY DEF Serve
<1>2. /\ now' = now /\ login' = login /\ queue' = queue /\ tokens' = tokens
      /\ pc' = pc /\ asked' = asked /\ timer' = timer /\ result' = result
      /\ stored' = stored /\ orphans' = orphans /\ pc[c] = "refreshing"
  BY DEF Serve
<1>3. TypeOK /\ Types /\ LockState /\ RefreshState /\ SsoState
  BY TypesOf DEF AuthInv
<1>4. login = None /\ tokens # None /\ tokens \in TokenSet /\ tokens.access \in 1 .. Len(expiry)
      /\ Held(tokens, expiry, accepted)
  BY <1>2, LoggedIn
<1>5. accepts \in BOOLEAN
  OBVIOUS
<1>6. /\ Grows(expiry, accepted, expiry', accepted') /\ SsoState' /\ answer \in Reply
      /\ expiry' \in Seq(Nat) /\ accepted' \in Refreshes
      /\ Answered(answer) =>
           /\ accepts
           /\ \E rotates \in BOOLEAN, given \in Expiries :
                answer = Issued(rotates, given) /\ Issue(rotates)
      /\ HonestSso /\ Refused(answer) /\ IsRevoked(FromTokenRequest(answer)) =>
           ~ accepts /\ UNCHANGED <<expiry, accepted>>
  <2> HIDE DEF accepts
  <2> QED  BY <1>1, <1>3, <1>5, Outcome_Sso
<1>7. /\ reply'[c] = answer /\ reply' \in [Callers -> Reply \cup {None}]
      /\ \A d \in Callers : d # c => reply'[d] = reply[d]
  BY <1>1, <1>3, <1>6 DEF Types
<1>8. /\ asked[c] = tokens.refresh /\ asked[c] # None /\ asked[c] \in Nat
      /\ timer[c] \in Nat /\ now <= timer[c] /\ timer[c] <= now + TIMEOUT
  BY <1>2, <1>3 DEF RefreshState, RefreshOf, Refreshing, Types, Refreshes
<1>9. Refreshing(asked[c], timer[c], answer, tokens, expiry', accepted')
  <2>1. ASSUME Answered(answer)
        PROVE  /\ Pending(answer, timer[c], asked[c], expiry', accepted')
               /\ tokens.access < answer.access
               /\ answer.refresh # None => asked[c] <= answer.refresh
    <3>1. PICK rotates \in BOOLEAN, given \in Expiries :
            answer = Issued(rotates, given) /\ Issue(rotates)
      BY <1>6, <2>1
    <3>2. /\ Pending(answer, timer[c], accepted, expiry', accepted')
          /\ answer.access = Len(expiry) + 1
          /\ answer.refresh # None => answer.refresh = Len(expiry) + 1
      BY <1>3, <1>8, <3>1, IssuedPending
    <3>3. asked[c] = accepted
      BY <1>6, <2>1
    <3> DEFINE n == Len(expiry)
               x == tokens.access
               y == asked[c]
    <3>4. n \in Nat /\ x \in 1 .. n /\ y \in Nat /\ y <= n
      BY <1>3, <1>4, <1>8, <3>3 DEF SsoState, Types
    <3> HIDE DEF n, x, y
    <3>5. x < n + 1 /\ y <= n + 1
      BY <3>4
    <3> QED  BY <3>2, <3>3, <3>5 DEF n, x, y
  <2>2. ASSUME HonestSso, Refused(answer), IsRevoked(FromTokenRequest(answer))
        PROVE  asked[c] < Rank(accepted')
    <3>1. asked[c] # accepted /\ accepted' = accepted
      BY <1>6, <2>2
    <3>2. 1 <= asked[c] /\ asked[c] <= Rank(accepted)
      BY <1>4, <1>8 DEF Held, OfSso
    <3> DEFINE y == asked[c]
               r == Rank(accepted)
    <3>3. y \in Nat /\ r \in Nat /\ 1 <= y /\ y <= r
          /\ (accepted = None => r = 0) /\ (accepted # None => r = accepted)
      BY <1>3, <1>8, <3>2, RankType DEF Types, Rank
    <3>4. y # accepted
      BY <3>1
    <3> HIDE DEF y, r
    <3>5. y # r
      BY <3>3, <3>4
    <3>6. y < r
      BY <3>3, <3>5
    <3> QED  BY <3>1, <3>6 DEF y, r
  <2> QED  BY <1>8, <2>1, <2>2 DEF Refreshing
<1>10. LockState'
  BY <1>2, <1>3 DEF LockState
<1>11. Types'
  BY <1>2, <1>3, <1>6, <1>7 DEF Types
<1>12. TypeOK'
  BY <1>10, <1>11, TypeStep
<1>13. LoginState' /\ TokenState'
  BY <1>2, <1>4, <1>6, LoginFrame, TokenFrame
<1>14. RefreshState'
  <2>1. RefreshOf(c)'
    BY <1>2, <1>7, <1>8, <1>9 DEF RefreshOf
  <2>2. ASSUME NEW d \in Callers, d # c  PROVE RefreshOf(d)'
    BY <1>2, <1>6, <1>7, <2>2, RefreshFrame
  <2> QED  BY <2>1, <2>2 DEF RefreshState
<1> QED  BY <1>6, <1>10, <1>12, <1>13, <1>14 DEF AuthInv

\* The answer is adopted.
LEMMA AdoptedNewer ==
  ASSUME AuthInv, NEW c \in Callers, Adopt(c)
  PROVE  /\ tokens \in TokenSet /\ tokens' \in TokenSet
         /\ tokens.access < tokens'.access
         /\ Rank(tokens.refresh) <= Rank(tokens'.refresh)
         /\ Held(tokens', expiry, accepted)
         /\ now + LIFETIME <= expiry[tokens'.access] + TIMEOUT
<1> DEFINE a == reply[c]
           old == asked[c]
<1>1. pc[c] = "refreshing" /\ Answered(a) /\ tokens' = Fresh(a, old)
  BY DEF Adopt
<1>2. TypeOK /\ Types /\ RefreshState /\ SsoState
  BY TypesOf DEF AuthInv
<1>3. tokens \in TokenSet /\ Held(tokens, expiry, accepted)
  BY <1>1, LoggedIn
<1>4. /\ a \in Reply /\ old \in Refreshes /\ timer[c] \in Nat
      /\ old = tokens.refresh /\ old # None /\ now <= timer[c]
      /\ Pending(a, timer[c], old, expiry, accepted)
      /\ tokens.access < a.access
      /\ a.refresh # None => old <= a.refresh
  BY <1>1, <1>2 DEF RefreshState, RefreshOf, Refreshing, Types, Answered
<1>5. 1 <= old /\ old <= Rank(accepted)
  BY <1>3, <1>4 DEF Held, OfSso
<1> HIDE DEF a, old
<1>6. LET set == Fresh(a, old)
      IN  /\ set \in TokenSet /\ Held(set, expiry, accepted)
          /\ set.access = a.access /\ set.refresh = Kept(a, old)
          /\ now + LIFETIME <= expiry[set.access] + TIMEOUT
  BY <1>1, <1>2, <1>4, <1>5, AdoptedHeld
<1>7. Rank(old) <= Rank(Kept(a, old))
  <2>1. old \in Nat /\ Rank(old) = old
    BY <1>4, RankType DEF Refreshes
  <2>2. CASE a.refresh = None
    <3>1. Kept(a, old) = old
      BY <2>2 DEF Kept
    <3> QED  BY <2>1, <3>1
  <2>3. CASE a.refresh # None
    <3>1. Kept(a, old) = a.refresh /\ Rank(a.refresh) = a.refresh
      BY <2>3 DEF Kept, Rank
    <3> QED  BY <1>4, <2>1, <2>3, <3>1
  <2> QED  BY <2>2, <2>3
<1> QED  BY <1>1, <1>3, <1>4, <1>6, <1>7

LEMMA InvAdopt ==
  ASSUME AuthInv, NEW c \in Callers, Adopt(c)
  PROVE  AuthInv'
<1>1. /\ now' = now /\ login' = login /\ queue' = queue /\ result' = result
      /\ stored' = stored /\ expiry' = expiry /\ accepted' = accepted
      /\ orphans' = orphans /\ Done(c) /\ pc[c] = "refreshing"
      /\ pc' = [pc EXCEPT ![c] = "notifying"]
  BY DEF Adopt, sso
<1>2. Types /\ LockState /\ RefreshState /\ TokenState
  BY TypesOf DEF AuthInv
<1>3. login = None /\ tokens # None
  BY <1>1, LoggedIn
<1>4. /\ tokens \in TokenSet /\ tokens' \in TokenSet
      /\ tokens.access < tokens'.access
      /\ Rank(tokens.refresh) <= Rank(tokens'.refresh)
      /\ Held(tokens', expiry, accepted)
      /\ now + LIFETIME <= expiry[tokens'.access] + TIMEOUT
  BY AdoptedNewer
<1>5. Grows(expiry, accepted, expiry', accepted') /\ SsoState'
  BY <1>1, SsoFrame
<1>6. /\ asked' \in [Callers -> Refreshes] /\ timer' \in [Callers -> Nat]
      /\ reply' \in [Callers -> Reply \cup {None}] /\ reply'[c] = None
      /\ \A d \in Callers : d # c => reply'[d] = reply[d]
  <2>1. None \in Refreshes /\ None \in Reply \cup {None} /\ 0 \in Nat
    BY DEF Refreshes
  <2> QED  BY <1>1, <1>2, <2>1 DEF Types, Done
<1>7. /\ pc' \in [Callers -> Pcs] /\ pc'[c] = "notifying"
      /\ \A d \in Callers : d # c => pc'[d] = pc[d]
  BY <1>1, <1>2 DEF Types, Pcs
<1>8. LockState'
  <2>1. queue[1] = c
    BY <1>1, <1>2 DEF LockState
  <2> QED  BY <1>1, <1>2, <2>1, StillFirst DEF Types, Pcs, Within
<1>9. Types'
  <2>1. tokens' # None
    BY <1>4, NoneAssumption
  <2> QED  BY <1>1, <1>2, <1>3, <1>4, <1>6, <1>7, <2>1 DEF Types
<1>10. TypeOK'
  BY <1>8, <1>9, TypeStep
<1>11. LoginState'
  BY <1>1, <1>3, LoginFrame
<1>12. TokenState'
  <2> SUFFICES ASSUME stored # None
               PROVE  /\ stored.access <= tokens'.access
                      /\ Rank(stored.refresh) <= Rank(tokens'.refresh)
    BY <1>1, <1>4 DEF TokenState
  <2> DEFINE x == stored.access
             y == Rank(stored.refresh)
             u == tokens.access
             v == Rank(tokens.refresh)
             xx == tokens'.access
             yy == Rank(tokens'.refresh)
  <2>1. stored \in TokenSet
    BY <1>2 DEF Types
  <2>2. /\ x \in Nat /\ u \in Nat /\ xx \in Nat
        /\ stored.refresh \in Refreshes /\ tokens.refresh \in Refreshes
        /\ tokens'.refresh \in Refreshes
    BY <1>4, <2>1 DEF TokenSet, Refreshes
  <2>3. y \in Nat /\ v \in Nat /\ yy \in Nat
    BY <2>2, RankType
  <2>4. x <= u /\ y <= v /\ u < xx /\ v <= yy
    BY <1>2, <1>3, <1>4 DEF TokenState
  <2> HIDE DEF x, y, u, v, xx, yy
  <2>5. x <= xx /\ y <= yy
    BY <2>2, <2>3, <2>4
  <2> QED  BY <2>5 DEF x, y, xx, yy
<1>13. RefreshState'
  <2>1. RefreshOf(c)'
    BY <1>1, <1>4, <1>6, <1>7 DEF RefreshOf
  <2>2. ASSUME NEW d \in Callers, d # c  PROVE RefreshOf(d)'
    <3>1. pc[d] \notin {"refreshing", "notifying", "failing"}
      BY <1>1, <1>2, <2>2, OneHolder
    <3>2. pc'[d] \notin {"refreshing", "notifying", "failing"} /\ reply'[d] = None
      BY <1>2, <1>6, <1>7, <2>2, <3>1 DEF RefreshState, RefreshOf
    <3> QED  BY <3>2 DEF RefreshOf
  <2> QED  BY <2>1, <2>2 DEF RefreshState
<1> QED  BY <1>5, <1>8, <1>10, <1>11, <1>12, <1>13 DEF AuthInv

LEMMA InvNext == AuthInv /\ [Next]_vars => AuthInv'
<1> SUFFICES ASSUME AuthInv, [Next]_vars  PROVE AuthInv'
  OBVIOUS
<1>1. CASE UNCHANGED vars
  <2>1. /\ now' = now /\ login' = login /\ queue' = queue /\ tokens' = tokens
        /\ pc' = pc /\ asked' = asked /\ timer' = timer /\ reply' = reply
        /\ result' = result /\ stored' = stored /\ expiry' = expiry
        /\ accepted' = accepted /\ orphans' = orphans
    BY <1>1 DEF vars
  <2>2. TypeOK'
    BY <2>1 DEF AuthInv, TypeOK, Holds
  <2>3. SsoState' /\ LockState'
    BY <2>1 DEF AuthInv, SsoState, LockState
  <2>4. LoginState' /\ TokenState'
    BY <2>1 DEF AuthInv, LoginState, TokenState
  <2>5. RefreshState'
    BY <2>1 DEF AuthInv, RefreshState, RefreshOf
  <2> QED  BY <2>2, <2>3, <2>4, <2>5 DEF AuthInv
<1>2. ASSUME NEW c \in Callers,
             Lock(c) \/ Serve(c) \/ Advance(c) \/ Cancel(c) \/ Send(c)
      PROVE  AuthInv'
  BY <1>2, InvLock, InvServe, InvReturn, InvFall, InvRefresh, InvAdopt
     DEF Advance
<1> QED  BY <1>1, <1>2, InvLogin, InvAdmit, InvExchanged, InvTick, InvOrphan DEF Next

-----------------------------------------------------------------------------
(* Every variable has its type, and whoever refreshes or notifies holds the  *)
(* lock: "concurrent callers wait for a single refresh".                     *)
THEOREM TypeCorrect == Spec => []TypeOK
<1>1. AuthInv => TypeOK
  BY DEF AuthInv
<1> QED  BY <1>1, InvInit, InvNext, PTL DEF Spec

(***************************************************************************)
(* refresh_with_scopes: the refresh token held is the one SSO accepts,     *)
(* whenever the newest token set has been adopted, rotated or kept.        *)
(***************************************************************************)
THEOREM HeldIsAccepted == Spec => []HeldTokenAccepted
<1>1. AuthInv => HeldTokenAccepted
  BY DEF AuthInv, TokenState, Held, HeldTokenAccepted
<1> QED  BY <1>1, InvInit, InvNext, PTL DEF Spec

(***************************************************************************)
(* access_token and the listener: "stored tokens are always written in the *)
(* order EVE issued them", though callers are dropped between the answer   *)
(* and the listener and dropped requests still reach SSO.                  *)
(***************************************************************************)
THEOREM StoringInOrder == Spec => StoredInOrder
<1>1. ASSUME AuthInv, Next, stored # None, stored' # None
      PROVE  stored.access <= stored'.access
  <2>1. tokens # None
    <3>1. tokens = None => stored = None
      BY <1>1, LoginType
    <3> QED  BY <1>1, <3>1
  <2>2. stored.access <= tokens.access
    BY <1>1, <2>1 DEF AuthInv, TokenState
  <2>3. stored' = stored \/ stored' = None \/ stored' = tokens
    BY <1>1, <2>1 DEF Next, Authorize, Exchange, Admit, Exchanged, ExchangeFailed, Tick,
       Orphan, Lock, Serve, Advance, Reuse, GiveUp, Refresh, Adopt, Notify, Fall,
       NotifyFailed, Cancel, Send
  <2>4. stored \in TokenSet
    BY <1>1, TypesOf DEF AuthInv, Types
  <2>5. stored.access <= stored.access
    BY <2>4 DEF TokenSet
  <2> QED  BY <1>1, <2>2, <2>3, <2>5
<1>2. AuthInv /\ [Next]_vars =>
        [stored # None /\ stored' # None => stored.access <= stored'.access]_vars
  BY <1>1
<1> QED  BY <1>2, InvInit, InvNext, PTL DEF Spec, StoredInOrder

(***************************************************************************)
(* refresh_failed and is_revoked: a listener that drops what it stored     *)
(* when a refresh is reported revoked never drops a refresh token that SSO *)
(* still accepts, if SSO reports only grants as revoked that it does not   *)
(* accept.                                                                 *)
(***************************************************************************)
THEOREM DroppedOnlyRevoked ==
  ASSUME HonestSso
  PROVE  Spec => DroppedOnlyIfRevoked
<1>1. ASSUME AuthInv, Next, stored # None, stored' = None
      PROVE  stored.refresh # accepted
  <2>1. tokens # None /\ tokens \in TokenSet
    <3>1. tokens = None => stored = None
      BY <1>1, LoginType
    <3> QED  BY <1>1, <3>1, TypesOf DEF AuthInv, Types
  <2>2. PICK c \in Callers :
          NotifyFailed(c) /\ reply[c] # None /\ IsRevoked(FromTokenRequest(reply[c]))
    <3>1. tokens # stored'
      BY <1>1, <2>1
    <3>2. stored' # stored
      BY <1>1
    <3> QED  BY <1>1, <2>1, <3>1, <3>2 DEF Next, Authorize, Exchange, Admit, Exchanged,
          ExchangeFailed, Tick, Orphan, Lock, Serve, Advance, Reuse, GiveUp, Refresh,
          Adopt, Notify, Fall, NotifyFailed, Cancel, Send, IsRevoked, NoRefreshToken
  <2>3. Refused(reply[c]) /\ pc[c] = "failing"
    BY <1>1, <2>2 DEF NotifyFailed, AuthInv, RefreshState, RefreshOf
  <2>4. asked[c] = tokens.refresh /\ asked[c] # None /\ asked[c] < Rank(accepted)
    BY <1>1, <2>2, <2>3, HonestSso DEF AuthInv, RefreshState, RefreshOf, Refreshing
  <2>5. Rank(stored.refresh) <= Rank(tokens.refresh)
    BY <1>1, <2>1 DEF AuthInv, TokenState
  <2>6. /\ stored.refresh \in Refreshes /\ tokens.refresh \in Refreshes
        /\ accepted \in Refreshes
    BY <1>1, <2>1, TypesOf DEF AuthInv, Types, TokenSet, Refreshes
  <2> DEFINE x == Rank(stored.refresh)
             y == Rank(tokens.refresh)
             z == Rank(accepted)
  <2>7. x \in Nat /\ y \in Nat /\ z \in Nat /\ y = tokens.refresh
    BY <2>4, <2>6, RankType
  <2>8. x <= y /\ y < z
    BY <2>4, <2>5, <2>7
  <2> HIDE DEF x, y, z
  <2>9. x # z
    BY <2>7, <2>8
  <2> QED  BY <2>9 DEF x, z
<1>2. AuthInv /\ [Next]_vars =>
        [stored # None /\ stored' = None => stored.refresh # accepted]_vars
  BY <1>1
<1> QED  BY <1>2, InvInit, InvNext, PTL DEF Spec, DroppedOnlyIfRevoked

(***************************************************************************)
(* access_token: "a currently-valid access token".  An answer may be under *)
(* way for TIMEOUT before the expiry is counted from it, and the margin is *)
(* no shorter than that; what has just been fetched lives longer than the  *)
(* fetch may take.                                                         *)
(***************************************************************************)
THEOREM ReturnedIsValid ==
  ASSUME TIMEOUT <= REFRESH_MARGIN, TIMEOUT < LIFETIME
  PROVE  Spec => ReturnedTokenValid
<1>1. ASSUME AuthInv, Next, NEW c \in Callers, Returned(c), result'[c].error = None,
             tokens.expires_at # None
      PROVE  now < ValidUntil(result'[c].access)
  <2>1. TypeOK /\ Types /\ RefreshState
    BY <1>1, TypesOf DEF AuthInv
  <2>2. Reuse(c) \/ Notify(c) \/ NotifyFailed(c)
    <3>1. pc'[c] = "returned" /\ pc[c] # "returned"
      BY <1>1 DEF Returned
    <3>2. ASSUME NEW d \in Callers, NEW p, pc' = [pc EXCEPT ![d] = p]
          PROVE  d = c /\ p = "returned"
      BY <2>1, <3>1, <3>2 DEF Types
    <3>3. pc' # pc
      BY <3>1
    <3>4. ~ \E pkce \in BOOLEAN : Authorize(pkce) \/ Exchange(pkce)
      BY <3>3 DEF Authorize, Exchange
    <3>5. ~ (Admit \/ Exchanged \/ ExchangeFailed \/ Tick \/ Orphan)
      BY <3>3 DEF Admit, Exchanged, ExchangeFailed, Tick, Orphan
    <3>6. ASSUME NEW d \in Callers
          PROVE  ~ \/ Lock(d) \/ Serve(d) \/ GiveUp(d) \/ Refresh(d) \/ Adopt(d)
                   \/ Fall(d) \/ Cancel(d) \/ Send(d)
      BY <3>2, <3>3 DEF Lock, Serve, GiveUp, Refresh, Ask, Adopt, Fall, Cancel, Send
    <3>7. ASSUME NEW d \in Callers, Reuse(d) \/ Notify(d) \/ NotifyFailed(d)
          PROVE  d = c
      BY <3>2, <3>7 DEF Reuse, Notify, NotifyFailed, Return
    <3> QED  BY <1>1, <3>4, <3>5, <3>6, <3>7 DEF Next, Advance
  <2>3. pc[c] # "idle"
    BY <2>2 DEF Reuse, Notify, NotifyFailed
  <2>4. /\ tokens \in TokenSet /\ Held(tokens, expiry, accepted)
        /\ tokens.access \in 1 .. Len(expiry)
    BY <1>1, <2>3, LoggedIn
  <2> DEFINE x == expiry[tokens.access]
             u == tokens.expires_at
  <2>5. /\ now \in Nat /\ TIMEOUT \in Nat /\ REFRESH_MARGIN \in Nat /\ LIFETIME \in Nat
        /\ x \in Nat /\ u \in Nat /\ u <= x + TIMEOUT
    BY <1>1, <2>1, <2>4, TimesAssumption DEF Types, TokenSet, Held
  <2>6. \A r : result' = [result EXCEPT ![c] = r] => result'[c] = r
    BY <2>1 DEF Types
  <2>7. Reuse(c) \/ Notify(c)
    <3>1. ASSUME NEW err \in AuthError, result' = [result EXCEPT ![c] = Failed(err)]
          PROVE  FALSE
      <4>1. result'[c].error = err
        BY <2>6, <3>1 DEF Failed
      <4> QED  BY <1>1, <4>1, NoneAssumption
    <3>2. ~ NotifyFailed(c)
      <4> DEFINE err == IF reply[c] = None THEN NoRefreshToken
                        ELSE FromTokenRequest(reply[c])
      <4> SUFFICES ASSUME NotifyFailed(c)  PROVE FALSE
        OBVIOUS
      <4>1. pc[c] = "failing" /\ result' = [result EXCEPT ![c] = Failed(err)]
        BY DEF NotifyFailed, Return
      <4>2. reply[c] # None => Refused(reply[c]) /\ reply[c] \in Reply
        BY <2>1, <4>1 DEF Types, RefreshState, RefreshOf
      <4>3. err \in AuthError
        BY <4>2, FailureType
      <4> QED  BY <3>1, <4>1, <4>3
    <3> QED  BY <2>2, <3>2
  <2>8. result'[c].access = tokens.access
    <3>1. result' = [result EXCEPT ![c] = Granted(tokens)]
      BY <2>7 DEF Reuse, Notify, Return
    <3> QED  BY <2>6, <3>1 DEF Granted
  <2>9. now < x
    <3>1. CASE Reuse(c)
      <4>1. ~ (now + REFRESH_MARGIN >= u)
        BY <1>1, <3>1 DEF Reuse, ExpiresWithin
      <4> HIDE DEF x, u
      <4> QED  BY <2>5, <4>1, TIMEOUT <= REFRESH_MARGIN
    <3>2. CASE Notify(c)
      <4>1. now + LIFETIME <= x + TIMEOUT
        BY <2>1, <3>2 DEF Notify, RefreshState, RefreshOf
      <4> HIDE DEF x, u
      <4> QED  BY <2>5, <4>1, TIMEOUT < LIFETIME
    <3> QED  BY <2>7, <3>1, <3>2
  <2> QED  BY <2>8, <2>9 DEF ValidUntil
<1>2. AuthInv /\ [Next]_vars =>
        [\A c \in Callers :
           Returned(c) /\ result'[c].error = None /\ tokens.expires_at # None
             => now < ValidUntil(result'[c].access)]_vars
  BY <1>1
<1> QED  BY <1>2, InvInit, InvNext, PTL DEF Spec, ReturnedTokenValid
=============================================================================
