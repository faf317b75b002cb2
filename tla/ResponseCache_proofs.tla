------------------------ MODULE ResponseCache_proofs ------------------------
(***************************************************************************)
(* Theorems of ResponseCache, for any calls, headers, clock skew and cache *)
(* size: whose response a call gets, how old the content of a hit and of a *)
(* revalidated response is, whose budget it carries, and what a put costs. *)
(***************************************************************************)
EXTENDS ResponseCache, SequenceTheorems, WellFoundedInduction, TLAPS

\* Tokens with one sub are tokens of one character.
SubjectNamesOwner ==
  \A r, s \in Calls :
    LET t == RequestOf[r].token
        u == RequestOf[s].token
    IN  t # None /\ u # None /\ Subject[t] # None /\ Subject[t] = Subject[u]
          => Owner[t] = Owner[u]

\* Calls that share a key ask in one language.
OneLanguage ==
  \A r, s \in Calls :
    KeyFor(r) # None /\ KeyFor(r) = KeyFor(s) => RequestOf[r].lang = RequestOf[s].lang

\* No call sets an If-None-Match of its own.
NoOwnValidator == \A r \in Calls : RequestOf[r].own = None

-----------------------------------------------------------------------------
(***************************************************************************)
(* The inductive invariant.  s is when the versions of each resource were  *)
(* replaced, and t the time.                                               *)
(***************************************************************************)
Span == Horizon + TIMEOUT

KeysNameResources ==
  \A r, s \in Calls : KeyFor(r) # None /\ KeyFor(r) = KeyFor(s) => Resource(r) = Resource(s)

\* The content was still ESI's at instant i, which is not in the future.
Held(content, i, s, t) ==
  /\ i <= t
  /\ content.version < Len(s[content.resource])
       => i <= s[content.resource][content.version + 1]

\* An entry has no budget, its tag is its content's, and it is fresh for at
\* most a lifetime and a transfer after its content was ESI's.
Good(e, s, t) ==
  /\ e.budget = None
  /\ NoOwnValidator /\ e.tag # None => e.tag = e.content
  /\ NoOwnValidator /\ e.expires_at # None =>
       Horizon \in Nat /\ Held(e.content, e.expires_at - Span, s, t)

OfKey(e, k) ==
  KeysNameResources => \A r \in Calls : KeyFor(r) = k => e.content.resource = Resource(r)

EntriesGood(table, s, t) ==
  \A k \in Keys : table[k] # None => Good(table[k], s, t) /\ OfKey(table[k], k)

StaleGood(r, old, s, t) ==
  old # None => KeyFor(r) \in Keys /\ Good(old, s, t) /\ OfKey(old, KeyFor(r))

\* ESI gave its answer to r while r was out: after due - TIMEOUT.
ReplyGood(r, h, due, old, s, t) ==
  /\ h.budget \in {None, r}
  /\ h.status # 200 => h.content = None
  /\ h.status = 200 =>
       /\ h.content \in Content /\ h.content.resource = Resource(r)
       /\ Held(h.content, due - TIMEOUT, s, t)
       /\ h.tag # None => h.tag = h.content
  /\ NoOwnValidator /\ h.status = 304 =>
       /\ old # None /\ Held(old.content, due - TIMEOUT, s, t)
       /\ h.tag # None => h.tag = old.content
  /\ h.expires # None =>
       /\ Horizon \in Nat
       /\ h.date = None => MAX_FRESHNESS <= Horizon
       /\ h.date # None => AtMost(h.expires - h.date, MAX_FRESHNESS) <= Horizon

Out == {"sent", "replied", "reading"}

CallGood(r, at, h, due, old, s, t) ==
  /\ at \in Out => t <= due /\ due <= t + TIMEOUT
  /\ at \in {"replied", "reading"} => h # None /\ ReplyGood(r, h, due, old, s, t)
  /\ at = "reading" => KeyFor(r) \in Keys /\ h.status = 200

AnswerGood(r, a, s, t) ==
  /\ a.budget \in (IF a.from = "hit" THEN {None} ELSE {None, r})
  /\ KeysNameResources /\ a.content # None => a.content.resource = Resource(r)
  /\ NoOwnValidator /\ a.content # None /\ a.from = "hit" =>
       Horizon \in Nat /\ Held(a.content, a.at + 1 - Span, s, t)
  /\ NoOwnValidator /\ a.content # None /\ a.from = "revalidated" =>
       Held(a.content, a.at - TIMEOUT, s, t)

StaleState == \A r \in Calls : StaleGood(r, stale[r], superseded, now)

CallState ==
  \A r \in Calls : CallGood(r, pc[r], reply[r], timer[r], stale[r], superseded, now)

AnswerState == \A r \in Calls : answer[r] # None => AnswerGood(r, answer[r], superseded, now)

CacheInv ==
  /\ TypeOK
  /\ EntriesGood(entries, superseded, now)
  /\ StaleState /\ CallState /\ AnswerState

-----------------------------------------------------------------------------
(* Lemmas about the operators. *)

LEMMA KeysApart ==
  ASSUME SubjectNamesOwner, OneLanguage
  PROVE  KeysNameResources
<1> SUFFICES ASSUME NEW r \in Calls, NEW s \in Calls,
                    KeyFor(r) # None, KeyFor(r) = KeyFor(s)
             PROVE  Resource(r) = Resource(s)
  BY DEF KeysNameResources
<1> DEFINE t == RequestOf[r].token
           u == RequestOf[s].token
           p == IF t = None THEN None ELSE Subject[t]
           q == IF u = None THEN None ELSE Subject[u]
<1>1. /\ KeyFor(r) = [url |-> RequestOf[r].url, principal |-> p]
      /\ t # None => Subject[t] # None
  BY DEF KeyFor
<1>2. /\ KeyFor(s) = [url |-> RequestOf[s].url, principal |-> q]
      /\ u # None => Subject[u] # None
  BY DEF KeyFor
<1>3. RequestOf[r].url = RequestOf[s].url /\ p = q
  <2> HIDE DEF p, q
  <2>1. [url |-> RequestOf[r].url, principal |-> p].url
          = [url |-> RequestOf[s].url, principal |-> q].url
    BY <1>1, <1>2
  <2>2. [url |-> RequestOf[r].url, principal |-> p].principal
          = [url |-> RequestOf[s].url, principal |-> q].principal
    BY <1>1, <1>2
  <2> QED  BY <2>1, <2>2
<1>4. RequestOf[r].lang = RequestOf[s].lang
  BY DEF OneLanguage
<1>5. \/ t = None /\ u = None
      \/ t # None /\ u # None /\ Owner[t] = Owner[u]
  BY <1>1, <1>2, <1>3 DEF SubjectNamesOwner
<1> QED  BY <1>3, <1>4, <1>5 DEF Resource

LEMMA LeastNatural ==
  ASSUME NEW S \in SUBSET Nat, S # {}
  PROVE  \E m \in S : \A n \in S : m <= n
<1> DEFINE R == OpToRel(<, Nat)
<1>1. IsWellFoundedOn(R, Nat)
  BY NatLessThanWellFounded
<1>2. PICK m \in S : \A n \in S : ~ (<<n, m>> \in R)
  <2> HIDE DEF R
  <2> QED  BY <1>1, WFMin
<1>3. \A n \in S : ~ (n < m)
  BY <1>2 DEF OpToRel
<1> QED  BY <1>3

LEMMA AtMostType ==
  ASSUME NEW a \in Int, NEW b \in Int
  PROVE  AtMost(a, b) \in Int /\ AtMost(a, b) <= a /\ AtMost(a, b) <= b
BY DEF AtMost

\* The horizon is a natural, and no lifetime is longer.
LEMMA HorizonBounds ==
  ASSUME NEW g \in Headers, g.lifetime # None
  PROVE  Horizon \in Nat /\ Lifetime(g) <= Horizon
<1> DEFINE Left == {MAX_FRESHNESS - d : d \in Lifetimes}
<1>1. \A h \in Headers : h.lifetime # None =>
        Lifetime(h) \in Nat /\ Lifetime(h) <= MAX_FRESHNESS
  <2> SUFFICES ASSUME NEW h \in Headers, h.lifetime # None
               PROVE  Lifetime(h) \in Nat /\ Lifetime(h) <= MAX_FRESHNESS
    OBVIOUS
  <2>1. h.lifetime \in Nat /\ MAX_FRESHNESS \in Nat
    BY TimesAssumption
  <2> QED  BY <2>1 DEF Lifetime, AtMost
<1>2. \A d \in Lifetimes : d \in Nat /\ d <= MAX_FRESHNESS
  BY <1>1 DEF Lifetimes
<1>3. Lifetime(g) \in Lifetimes
  BY DEF Lifetimes
<1>4. \E t \in Lifetimes : \A d \in Lifetimes : d <= t
  <2>1. Left \in SUBSET Nat /\ Left # {}
    BY <1>2, <1>3, TimesAssumption
  <2>2. PICK l \in Left : \A n \in Left : l <= n
    <3> HIDE DEF Left
    <3> QED  BY <2>1, LeastNatural
  <2>3. PICK t \in Lifetimes : l = MAX_FRESHNESS - t
    BY <2>2
  <2>4. ASSUME NEW d \in Lifetimes  PROVE d <= t
    <3>1. MAX_FRESHNESS - t <= MAX_FRESHNESS - d
      BY <2>2, <2>3
    <3> QED  BY <1>2, <3>1, TimesAssumption
  <2> QED  BY <2>4
<1>5. Horizon \in Lifetimes /\ \A d \in Lifetimes : d <= Horizon
  BY <1>4 DEF Horizon
<1> QED  BY <1>2, <1>3, <1>5

\* What was ESI's at i was ESI's before.
LEMMA HeldBefore ==
  ASSUME NEW content, NEW s, NEW t \in Int, NEW i \in Int, NEW j \in Int, j <= i,
         content \in Content, s \in [Resources -> Seq(Nat)], Held(content, i, s, t)
  PROVE  Held(content, j, s, t)
<1> DEFINE replaced == s[content.resource]
           v == content.version
<1>1. replaced \in Seq(Nat) /\ v \in Nat
  BY DEF Content
<1>2. v < Len(replaced) => replaced[v + 1] \in Nat
  <2> HIDE DEF replaced, v
  <2> QED  BY <1>1
<1>3. i <= t /\ (v < Len(replaced) => i <= replaced[v + 1])
  BY DEF Held
<1>4. j <= t /\ (v < Len(replaced) => j <= replaced[v + 1])
  <2> DEFINE w == replaced[v + 1]
  <2>1. v < Len(replaced) => w \in Nat /\ i <= w
    BY <1>2, <1>3
  <2> HIDE DEF w
  <2>2. v < Len(replaced) => j <= w
    BY <2>1
  <2> QED  BY <1>3, <2>2 DEF w
<1> QED  BY <1>4 DEF Held

\* Time passes, and versions are replaced: what was ESI's, was.
LEMMA HeldTick ==
  ASSUME NEW content, NEW s, NEW t \in Nat, NEW i \in Int, Held(content, i, s, t)
  PROVE  Held(content, i, s, t + 1)
BY DEF Held

LEMMA HeldChange ==
  ASSUME NEW content, NEW s, NEW t \in Nat, NEW i \in Int, NEW resource \in Resources,
         content \in Content, s \in [Resources -> Seq(Nat)], Held(content, i, s, t)
  PROVE  Held(content, i, [s EXCEPT ![resource] = Append(@, t)], t)
<1> DEFINE z == [s EXCEPT ![resource] = Append(@, t)]
           replaced == s[content.resource]
           v == content.version
<1>1. content.resource \in Resources /\ replaced \in Seq(Nat) /\ v \in Nat
  BY DEF Content
<1>2. i <= t /\ (v < Len(replaced) => i <= replaced[v + 1])
  BY DEF Held
<1>3. CASE content.resource # resource
  <2>1. z[content.resource] = replaced
    BY <1>1, <1>3
  <2> QED  BY <1>2, <2>1 DEF Held
<1>4. CASE content.resource = resource
  <2>1. z[content.resource] = Append(replaced, t)
    BY <1>1, <1>4
  <2> HIDE DEF replaced, v, z
  <2>2. v < Len(Append(replaced, t)) => i <= Append(replaced, t)[v + 1]
    <3>1. /\ Len(Append(replaced, t)) = Len(replaced) + 1
          /\ Append(replaced, t)[Len(replaced) + 1] = t
          /\ v < Len(replaced) => Append(replaced, t)[v + 1] = replaced[v + 1]
      BY <1>1, AppendProperties
    <3>2. Len(replaced) \in Nat
      BY <1>1
    <3>3. CASE v < Len(replaced)
      BY <1>2, <3>1, <3>3
    <3>4. CASE v >= Len(replaced)
      <4>1. v < Len(replaced) + 1 => v + 1 = Len(replaced) + 1
        BY <1>1, <3>2, <3>4
      <4> QED  BY <1>2, <3>1, <4>1
    <3> QED  BY <1>1, <3>2, <3>3, <3>4
  <2> QED  BY <1>2, <2>1, <2>2 DEF Held, v, z
<1> QED  BY <1>3, <1>4

LEMMA CurrentHeld ==
  ASSUME NEW s, s \in [Resources -> Seq(Nat)], NEW resource \in Resources, NEW t \in Nat,
         NEW content, content = [resource |-> resource, version |-> Len(s[resource])]
  PROVE  content \in Content /\ Held(content, t, s, t)
<1>1. s[resource] \in Seq(Nat) /\ Len(s[resource]) \in Nat
  OBVIOUS
<1>2. content.resource = resource /\ content.version = Len(s[resource])
  OBVIOUS
<1>3. content \in Content
  BY <1>1 DEF Content
<1> QED  BY <1>1, <1>2, <1>3 DEF Held

LEMMA EntryFields ==
  ASSUME NEW e \in Entry
  PROVE  /\ e.content \in Content /\ e.tag \in OptionOf(Content)
         /\ e.expires_at \in OptionOf(Int) /\ e.budget \in OptionOf(Calls)
         /\ e.tag # None \/ e.expires_at # None
         /\ e # None /\ e.content # None
         /\ e = [content |-> e.content, tag |-> e.tag, expires_at |-> e.expires_at,
                 budget |-> e.budget]
BY NoneAssumption DEF Entry

LEMMA EntryOf ==
  ASSUME NEW content \in Content, NEW tag \in OptionOf(Content),
         NEW at \in OptionOf(Int), NEW budget \in OptionOf(Calls), tag # None \/ at # None
  PROVE  [content |-> content, tag |-> tag, expires_at |-> at, budget |-> budget] \in Entry
BY DEF Entry

LEMMA ReplyFields ==
  ASSUME NEW h \in ReplyType
  PROVE  /\ h.status \in {200, 304, 500} /\ h.content \in OptionOf(Content)
         /\ h.tag \in OptionOf(Content) /\ h.expires \in OptionOf(Int)
         /\ h.date \in OptionOf(Int) /\ h.budget \in OptionOf(Calls) /\ h # None
BY NoneAssumption DEF ReplyType

LEMMA Expiry ==
  ASSUME now \in Nat, NEW h \in ReplyType
  PROVE  /\ ExpiresFrom(h) \in OptionOf(Int)
         /\ ExpiresFrom(h) # None =>
              /\ h.expires # None
              /\ h.date = None => ExpiresFrom(h) <= now + MAX_FRESHNESS
              /\ h.date # None =>
                   ExpiresFrom(h) = now + AtMost(h.expires - h.date, MAX_FRESHNESS)
<1>1. /\ h.expires \in Int \cup {None} /\ h.date \in Int \cup {None}
      /\ MAX_FRESHNESS \in Int /\ None \notin Int
  BY ReplyFields, TimesAssumption, NoneAssumption DEF OptionOf
<1>2. CASE ExpiresFrom(h) = None
  BY <1>2 DEF OptionOf
<1>3. CASE ExpiresFrom(h) # None
  <2>1. h.expires # None /\ h.expires \in Int
    BY <1>1, <1>3 DEF ExpiresFrom
  <2>2. CASE h.date = None
    <3>1. ExpiresFrom(h) = now + AtMost(h.expires - now, MAX_FRESHNESS)
      BY <1>3, <2>2 DEF ExpiresFrom
    <3>2. h.expires - now \in Int
      BY <2>1
    <3>3. AtMost(h.expires - now, MAX_FRESHNESS) \in Int
          /\ AtMost(h.expires - now, MAX_FRESHNESS) <= MAX_FRESHNESS
      BY <1>1, <3>2, AtMostType
    <3> QED  BY <1>1, <2>1, <2>2, <3>1, <3>3 DEF OptionOf
  <2>3. CASE h.date # None
    <3>1. ExpiresFrom(h) = now + AtMost(h.expires - h.date, MAX_FRESHNESS)
      BY <1>3, <2>3 DEF ExpiresFrom
    <3>2. h.expires - h.date \in Int
      BY <1>1, <2>1, <2>3
    <3>3. AtMost(h.expires - h.date, MAX_FRESHNESS) \in Int
      BY <1>1, <3>2, AtMostType
    <3> QED  BY <2>1, <2>3, <3>1, <3>3 DEF OptionOf
  <2> QED  BY <2>2, <2>3
<1> QED  BY <1>2, <1>3

\* What an answer made fresh expires within the horizon.
LEMMA ExpiresSoon ==
  ASSUME now \in Nat, NEW h \in ReplyType, NEW r, NEW due, NEW old, NEW s,
         ReplyGood(r, h, due, old, s, now), ExpiresFrom(h) # None
  PROVE  /\ Horizon \in Nat /\ ExpiresFrom(h) \in Int
         /\ ExpiresFrom(h) <= now + Horizon
<1>1. /\ ExpiresFrom(h) \in Int /\ h.expires # None
      /\ h.date = None => ExpiresFrom(h) <= now + MAX_FRESHNESS
      /\ h.date # None =>
           ExpiresFrom(h) = now + AtMost(h.expires - h.date, MAX_FRESHNESS)
  BY Expiry DEF OptionOf
<1>2. /\ Horizon \in Nat
      /\ h.date = None => MAX_FRESHNESS <= Horizon
      /\ h.date # None => AtMost(h.expires - h.date, MAX_FRESHNESS) <= Horizon
  BY <1>1 DEF ReplyGood
<1>3. CASE h.date = None
  BY <1>1, <1>2, <1>3, TimesAssumption
<1>4. CASE h.date # None
  <2>1. /\ h.expires \in Int /\ h.date \in Int /\ MAX_FRESHNESS \in Int
    BY <1>1, <1>4, ReplyFields, TimesAssumption DEF OptionOf
  <2>2. h.expires - h.date \in Int
    BY <2>1
  <2>3. AtMost(h.expires - h.date, MAX_FRESHNESS) \in Int
    BY <2>1, <2>2, AtMostType
  <2> QED  BY <1>1, <1>2, <1>4, <2>3
<1> QED  BY <1>1, <1>2, <1>3, <1>4

\* Content that was ESI's while r was out, and is fresh from now on.
LEMMA FreshFrom ==
  ASSUME now \in Nat, superseded \in [Resources -> Seq(Nat)], NEW h \in ReplyType, NEW r, NEW old,
         NEW due \in Nat, now <= due, ReplyGood(r, h, due, old, superseded, now),
         ExpiresFrom(h) # None,
         NEW content \in Content, Held(content, due - TIMEOUT, superseded, now)
  PROVE  Horizon \in Nat /\ Held(content, ExpiresFrom(h) - Span, superseded, now)
<1>1. Horizon \in Nat /\ ExpiresFrom(h) \in Int /\ ExpiresFrom(h) <= now + Horizon
  BY ExpiresSoon
<1>2. TIMEOUT \in Nat
  BY TimesAssumption
<1>3. ExpiresFrom(h) - Span \in Int /\ due - TIMEOUT \in Int
  BY <1>1, <1>2 DEF Span
<1>4. ExpiresFrom(h) - Span <= due - TIMEOUT
  <2> DEFINE x == ExpiresFrom(h)
  <2> HIDE DEF x
  <2>1. x \in Int /\ x <= now + Horizon
    BY <1>1 DEF x
  <2>2. x - (Horizon + TIMEOUT) <= due - TIMEOUT
    BY <1>1, <1>2, <2>1
  <2> QED  BY <2>2 DEF Span, x
<1> QED  BY <1>1, <1>3, <1>4, HeldBefore

LEMMA FromPartsGood ==
  ASSUME now \in Nat, superseded \in [Resources -> Seq(Nat)], NEW r \in Calls, NEW h \in ReplyType,
         NEW old, NEW due \in Nat, now <= due, ReplyGood(r, h, due, old, superseded, now),
         h.status = 200, FromParts(h) # None
  PROVE  /\ FromParts(h) \in Entry /\ Good(FromParts(h), superseded, now)
         /\ FromParts(h).content.resource = Resource(r)
<1> DEFINE e == FromParts(h)
           x == ExpiresFrom(h)
<1>1. /\ e = [content |-> h.content, tag |-> h.tag, expires_at |-> x, budget |-> None]
      /\ h.tag # None \/ x # None
  BY DEF FromParts, Cacheable
<1>2. /\ h.content \in Content /\ h.content.resource = Resource(r)
      /\ Held(h.content, due - TIMEOUT, superseded, now)
      /\ h.tag # None => h.tag = h.content
  BY DEF ReplyGood
<1>3. h.tag \in OptionOf(Content) /\ x \in OptionOf(Int) /\ None \in OptionOf(Calls)
  BY ReplyFields, Expiry DEF OptionOf
<1>4. x # None => Horizon \in Nat /\ Held(h.content, x - Span, superseded, now)
  BY <1>2, FreshFrom
<1> HIDE DEF e, x
<1>5. e \in Entry
  BY <1>1, <1>2, <1>3, EntryOf
<1>6. e.content = h.content /\ e.tag = h.tag /\ e.expires_at = x /\ e.budget = None
  BY <1>1
<1>7. Good(e, superseded, now)
  BY <1>2, <1>4, <1>6 DEF Good
<1> QED  BY <1>2, <1>5, <1>6, <1>7 DEF e

LEMMA RevalidateGood ==
  ASSUME now \in Nat, superseded \in [Resources -> Seq(Nat)], NEW r \in Calls, NEW h \in ReplyType,
         NEW old \in Entry, Good(old, superseded, now),
         NEW due \in Nat, now <= due, ReplyGood(r, h, due, old, superseded, now), h.status = 304
  PROVE  /\ Revalidate(old, h) \in Entry /\ Good(Revalidate(old, h), superseded, now)
         /\ Revalidate(old, h).content = old.content
         /\ MergedBudget(old, h) \in {None, r}
<1> DEFINE e == Revalidate(old, h)
           x == ExpiresFrom(h)
           at == IF x # None THEN x ELSE old.expires_at
           tag == IF h.tag # None THEN h.tag ELSE old.tag
<1>1. e = [content |-> old.content, tag |-> tag, expires_at |-> at, budget |-> None]
  <2> DEFINE c == old.content
             g == old.tag
             a == old.expires_at
             b == old.budget
  <2>1. old = [content |-> c, tag |-> g, expires_at |-> a, budget |-> b]
    BY EntryFields
  <2>2. e = [old EXCEPT !.expires_at = at, !.tag = tag, !.budget = None]
    BY DEF Revalidate
  <2> HIDE DEF c, g, a, b, at, tag
  <2>3. e = [content |-> c, tag |-> tag, expires_at |-> at, budget |-> None]
    <3> HIDE DEF e
    <3> QED  BY <2>1, <2>2
  <2> QED  BY <2>3 DEF c
<1>2. /\ old.content \in Content /\ old.tag \in OptionOf(Content)
      /\ old.expires_at \in OptionOf(Int)
      /\ old.tag # None \/ old.expires_at # None
  BY EntryFields
<1>3. h.tag \in OptionOf(Content) /\ x \in OptionOf(Int) /\ None \in OptionOf(Calls)
  BY ReplyFields, Expiry DEF OptionOf
<1>4. NoOwnValidator => /\ Held(old.content, due - TIMEOUT, superseded, now)
                        /\ h.tag # None => h.tag = old.content
  BY DEF ReplyGood
<1>5. NoOwnValidator /\ x # None =>
        Horizon \in Nat /\ Held(old.content, x - Span, superseded, now)
  BY <1>2, <1>4, FreshFrom
<1>6. h.budget \in {None, r} /\ old.budget = None
  BY DEF ReplyGood, Good
<1>7. /\ NoOwnValidator /\ old.tag # None => old.tag = old.content
      /\ NoOwnValidator /\ old.expires_at # None =>
           Horizon \in Nat /\ Held(old.content, old.expires_at - Span, superseded, now)
  BY DEF Good
<1> HIDE DEF e, x
<1>8. tag \in OptionOf(Content) /\ at \in OptionOf(Int) /\ (tag # None \/ at # None)
  BY <1>2, <1>3
<1>9. /\ NoOwnValidator /\ tag # None => tag = old.content
      /\ NoOwnValidator /\ at # None =>
           Horizon \in Nat /\ Held(old.content, at - Span, superseded, now)
  BY <1>4, <1>5, <1>7
<1> HIDE DEF tag, at
<1>10. e \in Entry
  BY <1>1, <1>2, <1>3, <1>8, EntryOf
<1>11. /\ e.content = old.content /\ e.tag = tag /\ e.expires_at = at /\ e.budget = None
  BY <1>1
<1>12. Good(e, superseded, now)
  BY <1>9, <1>11 DEF Good
<1>13. MergedBudget(old, h) \in {None, r}
  BY <1>6 DEF MergedBudget
<1> QED  BY <1>10, <1>11, <1>12, <1>13 DEF e

\* A put stores its entry, keeps or drops the others, and keeps the fresh ones.
LEMMA PutKeeps ==
  ASSUME entries \in [Keys -> OptionOf(Entry)], NEW k \in Keys, NEW e \in Entry
  PROVE  /\ Put(k, e) \in [Keys -> OptionOf(Entry)] /\ Put(k, e)[k] = e
         /\ \A j \in Keys : j # k => Put(k, e)[j] \in {entries[j], None}
         /\ \A j \in FreshKeys : j # k => Put(k, e)[j] = entries[j]
<1> DEFINE full == Cardinality({j \in Keys : entries[j] # None}) >= MAX_ENTRIES
           kept == IF full /\ entries[k] = None
                   THEN [j \in Keys |-> IF j \in FreshKeys THEN entries[j] ELSE None]
                   ELSE entries
<1>1. Put(k, e) = [kept EXCEPT ![k] = e]
  BY DEF Put
<1>2. FreshKeys \subseteq Keys
  BY DEF FreshKeys
<1> HIDE DEF full
<1>3. /\ kept \in [Keys -> OptionOf(Entry)]
      /\ \A j \in Keys : kept[j] \in {entries[j], None}
      /\ \A j \in FreshKeys : kept[j] = entries[j]
  BY <1>2 DEF OptionOf
<1> HIDE DEF kept
<1> QED  BY <1>1, <1>2, <1>3 DEF OptionOf

LEMMA PutGood ==
  ASSUME entries \in [Keys -> OptionOf(Entry)], EntriesGood(entries, superseded, now),
         NEW k \in Keys, NEW e \in Entry, Good(e, superseded, now), OfKey(e, k)
  PROVE  /\ Put(k, e) \in [Keys -> OptionOf(Entry)]
         /\ EntriesGood(Put(k, e), superseded, now)
<1>1. /\ Put(k, e) \in [Keys -> OptionOf(Entry)] /\ Put(k, e)[k] = e
      /\ \A j \in Keys : j # k => Put(k, e)[j] \in {entries[j], None}
  BY PutKeeps
<1> QED  BY <1>1 DEF EntriesGood

-----------------------------------------------------------------------------
(* As time passes and versions are replaced, what is good stays good. *)

Later(s, t) ==
  \A content \in Content, i \in Int :
    Held(content, i, superseded, now) => Held(content, i, s, t)

LEMMA GoodLater ==
  ASSUME NEW s, NEW t, Later(s, t), NEW e \in Entry, Good(e, superseded, now)
  PROVE  Good(e, s, t)
<1>1. e.content \in Content /\ e.expires_at \in OptionOf(Int)
  BY EntryFields
<1>2. /\ e.budget = None
      /\ NoOwnValidator /\ e.tag # None => e.tag = e.content
      /\ NoOwnValidator /\ e.expires_at # None =>
           Horizon \in Nat /\ Held(e.content, e.expires_at - Span, superseded, now)
  BY DEF Good
<1>3. NoOwnValidator /\ e.expires_at # None =>
        Horizon \in Nat /\ Held(e.content, e.expires_at - Span, s, t)
  <2> SUFFICES ASSUME NoOwnValidator, e.expires_at # None
               PROVE  Horizon \in Nat /\ Held(e.content, e.expires_at - Span, s, t)
    OBVIOUS
  <2>1. e.expires_at - Span \in Int
    BY <1>1, <1>2, TimesAssumption DEF Span, OptionOf
  <2> QED  BY <1>1, <1>2, <2>1 DEF Later
<1> QED  BY <1>2, <1>3 DEF Good

LEMMA ReplyLater ==
  ASSUME NEW s, NEW t, Later(s, t), NEW r, NEW h \in ReplyType, NEW due \in Nat,
         NEW old \in OptionOf(Entry), ReplyGood(r, h, due, old, superseded, now)
  PROVE  ReplyGood(r, h, due, old, s, t)
<1>1. due - TIMEOUT \in Int
  BY TimesAssumption
<1>2. h.status = 200 => Held(h.content, due - TIMEOUT, s, t)
  BY <1>1 DEF ReplyGood, Later
<1>3. NoOwnValidator /\ h.status = 304 => Held(old.content, due - TIMEOUT, s, t)
  <2> SUFFICES ASSUME NoOwnValidator, h.status = 304
               PROVE  Held(old.content, due - TIMEOUT, s, t)
    OBVIOUS
  <2>1. old # None /\ Held(old.content, due - TIMEOUT, superseded, now)
    BY DEF ReplyGood
  <2>2. old.content \in Content
    BY <2>1, EntryFields DEF OptionOf
  <2> QED  BY <1>1, <2>1, <2>2 DEF Later
<1> QED  BY <1>2, <1>3 DEF ReplyGood

LEMMA AnswerLater ==
  ASSUME NEW s, NEW t, Later(s, t), NEW r, NEW a \in AnswerType,
         AnswerGood(r, a, superseded, now)
  PROVE  AnswerGood(r, a, s, t)
<1>1. a.content \in OptionOf(Content) /\ a.at \in Nat /\ TIMEOUT \in Nat
  BY TimesAssumption DEF AnswerType
<1>2. a.content # None => a.content \in Content
  BY <1>1 DEF OptionOf
<1>3. NoOwnValidator /\ a.content # None /\ a.from = "hit" =>
        Horizon \in Nat /\ Held(a.content, a.at + 1 - Span, s, t)
  <2> SUFFICES ASSUME NoOwnValidator, a.content # None, a.from = "hit"
               PROVE  Horizon \in Nat /\ Held(a.content, a.at + 1 - Span, s, t)
    OBVIOUS
  <2>1. Horizon \in Nat /\ Held(a.content, a.at + 1 - Span, superseded, now)
    BY DEF AnswerGood
  <2>2. a.at + 1 - Span \in Int
    BY <1>1, <2>1 DEF Span
  <2> QED  BY <1>2, <2>1, <2>2 DEF Later
<1>4. NoOwnValidator /\ a.content # None /\ a.from = "revalidated" =>
        Held(a.content, a.at - TIMEOUT, s, t)
  <2>1. a.at - TIMEOUT \in Int
    BY <1>1
  <2> QED  BY <1>2, <2>1 DEF AnswerGood, Later
<1> QED  BY <1>3, <1>4 DEF AnswerGood

LEMMA InvLater ==
  ASSUME CacheInv, TypeOK', Later(superseded', now'),
         UNCHANGED <<entries, pc, stale, timer, reply, answer>>,
         \A r \in Calls : pc[r] \in Out => now' <= timer[r] /\ timer[r] <= now' + TIMEOUT
  PROVE  CacheInv'
<1> USE DEF CacheInv
<1>1. /\ entries \in [Keys -> OptionOf(Entry)] /\ stale \in [Calls -> OptionOf(Entry)]
      /\ timer \in [Calls -> Nat] /\ reply \in [Calls -> OptionOf(ReplyType)]
      /\ answer \in [Calls -> OptionOf(AnswerType)]
  BY DEF TypeOK
<1>2. EntriesGood(entries', superseded', now')
  <2> SUFFICES ASSUME NEW k \in Keys, entries[k] # None
               PROVE  Good(entries[k], superseded', now') /\ OfKey(entries[k], k)
    BY DEF EntriesGood
  <2>1. entries[k] \in Entry
    BY <1>1 DEF OptionOf
  <2>2. Good(entries[k], superseded, now) /\ OfKey(entries[k], k)
    BY DEF EntriesGood
  <2> QED  BY <2>1, <2>2, GoodLater
<1>3. StaleState'
  <2> SUFFICES ASSUME NEW r \in Calls  PROVE StaleGood(r, stale[r], superseded', now')
    BY DEF StaleState
  <2>1. stale[r] # None => stale[r] \in Entry
    BY <1>1 DEF OptionOf
  <2>2. StaleGood(r, stale[r], superseded, now)
    BY DEF StaleState
  <2> QED  BY <2>1, <2>2, GoodLater DEF StaleGood
<1>4. CallState'
  <2> SUFFICES ASSUME NEW r \in Calls
               PROVE  CallGood(r, pc[r], reply[r], timer[r], stale[r], superseded', now')
    BY DEF CallState
  <2>1. CallGood(r, pc[r], reply[r], timer[r], stale[r], superseded, now)
    BY DEF CallState
  <2>2. /\ reply[r] # None => reply[r] \in ReplyType
        /\ timer[r] \in Nat /\ stale[r] \in OptionOf(Entry)
    BY <1>1 DEF OptionOf
  <2>3. reply[r] # None /\ ReplyGood(r, reply[r], timer[r], stale[r], superseded, now)
          => ReplyGood(r, reply[r], timer[r], stale[r], superseded', now')
    BY <2>2, ReplyLater
  <2> QED  BY <2>1, <2>3 DEF CallGood
<1>5. AnswerState'
  <2> SUFFICES ASSUME NEW r \in Calls, answer[r] # None
               PROVE  AnswerGood(r, answer[r], superseded', now')
    BY DEF AnswerState
  <2>1. answer[r] \in AnswerType
    BY <1>1 DEF OptionOf
  <2>2. AnswerGood(r, answer[r], superseded, now)
    BY DEF AnswerState
  <2> QED  BY <2>1, <2>2, AnswerLater
<1> QED  BY <1>2, <1>3, <1>4, <1>5

LEMMA TickStep ==
  ASSUME CacheInv, Tick
  PROVE  CacheInv'
<1>1. /\ now \in Nat /\ now' = now + 1 /\ superseded' = superseded
      /\ UNCHANGED <<entries, pc, stale, timer, reply, answer>>
  BY DEF CacheInv, TypeOK, Tick
<1>2. TypeOK'
  BY <1>1 DEF CacheInv, TypeOK
<1>3. Later(superseded', now')
  BY <1>1, HeldTick DEF Later
<1>4. ASSUME NEW r \in Calls, pc[r] \in Out
      PROVE  now' <= timer[r] /\ timer[r] <= now' + TIMEOUT
  <2>1. now < timer[r]
    BY <1>4 DEF Tick, Out
  <2>2. timer[r] \in Nat /\ timer[r] <= now + TIMEOUT
    BY <1>4 DEF CacheInv, TypeOK, CallState, CallGood
  <2> QED  BY <1>1, <2>1, <2>2, TimesAssumption
<1> QED  BY <1>1, <1>2, <1>3, <1>4, InvLater

LEMMA ChangeStep ==
  ASSUME CacheInv, NEW resource \in Resources, Change(resource)
  PROVE  CacheInv'
<1>1. /\ now \in Nat /\ now' = now /\ superseded \in [Resources -> Seq(Nat)]
      /\ superseded' = [superseded EXCEPT ![resource] = Append(@, now)]
      /\ UNCHANGED <<entries, pc, stale, timer, reply, answer>>
  BY DEF CacheInv, TypeOK, Change
<1>2. TypeOK'
  <2>1. Append(superseded[resource], now) \in Seq(Nat)
    BY <1>1, AppendProperties
  <2>2. superseded' \in [Resources -> Seq(Nat)]
    BY <1>1, <2>1
  <2> QED  BY <1>1, <2>2 DEF CacheInv, TypeOK
<1>3. Later(superseded', now')
  BY <1>1, HeldChange DEF Later
<1>4. ASSUME NEW r \in Calls, pc[r] \in Out
      PROVE  now' <= timer[r] /\ timer[r] <= now' + TIMEOUT
  BY <1>1, <1>4 DEF CacheInv, CallState, CallGood
<1> QED  BY <1>1, <1>2, <1>3, <1>4, InvLater

-----------------------------------------------------------------------------
(* The steps of a call leave the others' state alone. *)

LEMMA CallerStep ==
  ASSUME CacheInv, TypeOK', NEW r \in Calls, now' = now, superseded' = superseded,
         EntriesGood(entries', superseded, now),
         \A d \in Calls : d # r =>
           /\ pc'[d] = pc[d] /\ stale'[d] = stale[d] /\ timer'[d] = timer[d]
           /\ reply'[d] = reply[d] /\ answer'[d] = answer[d],
         StaleGood(r, stale'[r], superseded, now),
         CallGood(r, pc'[r], reply'[r], timer'[r], stale'[r], superseded, now),
         answer'[r] # None => AnswerGood(r, answer'[r], superseded, now)
  PROVE  CacheInv'
<1> USE DEF CacheInv
<1>1. StaleState'
  BY DEF StaleState
<1>2. CallState'
  BY DEF CallState
<1>3. AnswerState'
  BY DEF AnswerState
<1> QED  BY <1>1, <1>2, <1>3

LEMMA AnswerStep ==
  ASSUME CacheInv, NEW r \in Calls, NEW from \in {"hit", "revalidated", "esi"},
         NEW content \in OptionOf(Content), NEW budget \in OptionOf(Calls),
         Answer(r, from, content, budget), now' = now, superseded' = superseded,
         entries' \in [Keys -> OptionOf(Entry)], EntriesGood(entries', superseded, now),
         AnswerGood(r, [from |-> from, content |-> content, budget |-> budget, at |-> now],
                    superseded, now)
  PROVE  CacheInv'
<1> DEFINE a == [from |-> from, content |-> content, budget |-> budget, at |-> now]
<1>1. TypeOK
  BY DEF CacheInv
<1>2. a \in AnswerType
  BY <1>1 DEF TypeOK, AnswerType
<1>3. /\ answer' = [answer EXCEPT ![r] = a] /\ pc' = [pc EXCEPT ![r] = "done"]
      /\ stale' = [stale EXCEPT ![r] = None] /\ timer' = [timer EXCEPT ![r] = 0]
      /\ reply' = [reply EXCEPT ![r] = None]
  BY DEF Answer
<1> HIDE DEF a
<1>4. /\ answer'[r] = a /\ pc'[r] = "done" /\ stale'[r] = None
      /\ \A d \in Calls : d # r =>
           /\ pc'[d] = pc[d] /\ stale'[d] = stale[d] /\ timer'[d] = timer[d]
           /\ reply'[d] = reply[d] /\ answer'[d] = answer[d]
  BY <1>1, <1>3 DEF TypeOK
<1>5. TypeOK'
  BY <1>1, <1>2, <1>3 DEF TypeOK, OptionOf
<1>6. StaleGood(r, stale'[r], superseded, now)
  BY <1>4 DEF StaleGood
<1>7. CallGood(r, pc'[r], reply'[r], timer'[r], stale'[r], superseded, now)
  BY <1>4 DEF CallGood, Out
<1>8. AnswerGood(r, answer'[r], superseded, now)
  BY <1>4 DEF a
<1> QED  BY <1>4, <1>5, <1>6, <1>7, <1>8, CallerStep

LEMMA HitStep ==
  ASSUME CacheInv, NEW r \in Calls, Hit(r)
  PROVE  CacheInv'
<1> DEFINE k == KeyFor(r)
           e == entries[k]
           i == now + 1 - Span
<1>1. TypeOK /\ EntriesGood(entries, superseded, now)
  BY DEF CacheInv
<1>2. /\ k \in Keys /\ e # None /\ e.expires_at # None /\ now < e.expires_at
      /\ Answer(r, "hit", e.content, None) /\ UNCHANGED <<now, entries, superseded>>
  BY DEF Hit, FreshKeys, IsFresh
<1>3. /\ e \in Entry /\ now \in Nat /\ superseded \in [Resources -> Seq(Nat)]
      /\ entries \in [Keys -> OptionOf(Entry)]
  BY <1>1, <1>2 DEF TypeOK, OptionOf
<1>4. e.content \in Content /\ e.expires_at \in Int
  BY <1>2, <1>3, EntryFields DEF OptionOf
<1>5. Good(e, superseded, now) /\ OfKey(e, k)
  BY <1>1, <1>2 DEF EntriesGood
<1>6. KeysNameResources => e.content.resource = Resource(r)
  BY <1>5 DEF OfKey
<1>7. NoOwnValidator => Horizon \in Nat /\ Held(e.content, i, superseded, now)
  <2> SUFFICES ASSUME NoOwnValidator
               PROVE  Horizon \in Nat /\ Held(e.content, i, superseded, now)
    OBVIOUS
  <2>1. Horizon \in Nat /\ Held(e.content, e.expires_at - Span, superseded, now)
    BY <1>2, <1>5 DEF Good
  <2>2. Span \in Int
    BY <2>1, TimesAssumption DEF Span
  <2>3. /\ i \in Int /\ e.expires_at - Span \in Int /\ i <= e.expires_at - Span
        /\ now \in Int
    BY <1>2, <1>3, <1>4, <2>2
  <2> HIDE DEF i
  <2> QED  BY <1>3, <1>4, <2>1, <2>3, HeldBefore
<1> DEFINE a == [from |-> "hit", content |-> e.content, budget |-> None, at |-> now]
<1>8. AnswerGood(r, a, superseded, now)
  <2>1. /\ a.from = "hit" /\ a.content = e.content /\ a.budget = None
        /\ a.at + 1 - Span = i
    OBVIOUS
  <2> HIDE DEF a, i
  <2> QED  BY <1>6, <1>7, <2>1 DEF AnswerGood
<1>9. e.content \in OptionOf(Content) /\ None \in OptionOf(Calls)
  BY <1>4 DEF OptionOf
<1> HIDE DEF e, k
<1> QED  BY <1>1, <1>2, <1>3, <1>8, <1>9, AnswerStep

LEMMA MissStep ==
  ASSUME CacheInv, NEW r \in Calls, Miss(r)
  PROVE  CacheInv'
<1> DEFINE old == IF KeyFor(r) = None THEN None ELSE entries[KeyFor(r)]
<1>1. TypeOK /\ EntriesGood(entries, superseded, now)
  BY DEF CacheInv
<1>2. /\ stale' = [stale EXCEPT ![r] = old] /\ pc' = [pc EXCEPT ![r] = "gated"]
      /\ UNCHANGED <<now, entries, superseded, timer, reply, answer>>
  BY DEF Miss
<1>3. KeyFor(r) # None => KeyFor(r) \in Keys
  BY DEF Keys
<1>4. old \in OptionOf(Entry) /\ StaleGood(r, old, superseded, now)
  BY <1>1, <1>3 DEF TypeOK, OptionOf, StaleGood, EntriesGood
<1> HIDE DEF old
<1>5. /\ stale'[r] = old /\ pc'[r] = "gated"
      /\ \A d \in Calls : d # r => pc'[d] = pc[d] /\ stale'[d] = stale[d]
  BY <1>1, <1>2 DEF TypeOK
<1>6. TypeOK'
  BY <1>1, <1>2, <1>4 DEF TypeOK
<1>7. CallGood(r, pc'[r], reply'[r], timer'[r], stale'[r], superseded, now)
  BY <1>5 DEF CallGood, Out
<1>8. answer'[r] # None => AnswerGood(r, answer'[r], superseded, now)
  BY <1>2 DEF CacheInv, AnswerState
<1> QED  BY <1>1, <1>2, <1>4, <1>5, <1>6, <1>7, <1>8, CallerStep

LEMMA SendStep ==
  ASSUME CacheInv, NEW r \in Calls, Send(r)
  PROVE  CacheInv'
<1>1. TypeOK /\ EntriesGood(entries, superseded, now)
  BY DEF CacheInv
<1>2. /\ pc' = [pc EXCEPT ![r] = "sent"] /\ timer' = [timer EXCEPT ![r] = now + TIMEOUT]
      /\ UNCHANGED <<now, entries, superseded, stale, reply, answer>>
  BY DEF Send
<1>3. now \in Nat /\ TIMEOUT \in Nat /\ now + TIMEOUT \in Nat
  BY <1>1, TimesAssumption DEF TypeOK
<1>4. /\ timer'[r] = now + TIMEOUT /\ pc'[r] = "sent"
      /\ \A d \in Calls : d # r => pc'[d] = pc[d] /\ timer'[d] = timer[d]
  BY <1>1, <1>2 DEF TypeOK
<1>5. TypeOK'
  BY <1>1, <1>2, <1>3 DEF TypeOK
<1>6. CallGood(r, pc'[r], reply'[r], timer'[r], stale'[r], superseded, now)
  BY <1>3, <1>4 DEF CallGood
<1>7. /\ StaleGood(r, stale'[r], superseded, now)
      /\ answer'[r] # None => AnswerGood(r, answer'[r], superseded, now)
  BY <1>2 DEF CacheInv, StaleState, AnswerState
<1> QED  BY <1>1, <1>2, <1>4, <1>5, <1>6, <1>7, CallerStep

LEMMA ReadBodyStep ==
  ASSUME CacheInv, NEW r \in Calls, ReadBody(r)
  PROVE  CacheInv'
<1>1. TypeOK /\ EntriesGood(entries, superseded, now)
  BY DEF CacheInv
<1>2. /\ pc[r] = "replied" /\ KeyFor(r) \in Keys /\ reply[r].status = 200
      /\ pc' = [pc EXCEPT ![r] = "reading"]
      /\ UNCHANGED <<now, entries, superseded, stale, timer, reply, answer>>
  BY DEF ReadBody, Keys
<1>3. pc'[r] = "reading" /\ \A d \in Calls : d # r => pc'[d] = pc[d]
  BY <1>1, <1>2 DEF TypeOK
<1>4. TypeOK'
  BY <1>1, <1>2 DEF TypeOK
<1>5. CallGood(r, pc'[r], reply'[r], timer'[r], stale'[r], superseded, now)
  <2>1. CallGood(r, pc[r], reply[r], timer[r], stale[r], superseded, now)
    BY DEF CacheInv, CallState
  <2> QED  BY <1>2, <1>3, <2>1 DEF CallGood, Out
<1>6. /\ StaleGood(r, stale'[r], superseded, now)
      /\ answer'[r] # None => AnswerGood(r, answer'[r], superseded, now)
  BY <1>2 DEF CacheInv, StaleState, AnswerState
<1> QED  BY <1>1, <1>2, <1>3, <1>4, <1>5, <1>6, CallerStep

LEMMA AbandonStep ==
  ASSUME CacheInv, NEW r \in Calls, Abandon(r)
  PROVE  CacheInv'
<1>1. TypeOK /\ EntriesGood(entries, superseded, now)
  BY DEF CacheInv
<1>2. /\ pc' = [pc EXCEPT ![r] = "done"] /\ stale' = [stale EXCEPT ![r] = None]
      /\ timer' = [timer EXCEPT ![r] = 0] /\ reply' = [reply EXCEPT ![r] = None]
      /\ UNCHANGED <<now, entries, superseded, answer>>
  BY DEF Abandon
<1>3. /\ pc'[r] = "done" /\ stale'[r] = None
      /\ \A d \in Calls : d # r =>
           /\ pc'[d] = pc[d] /\ stale'[d] = stale[d] /\ timer'[d] = timer[d]
           /\ reply'[d] = reply[d]
  BY <1>1, <1>2 DEF TypeOK
<1>4. TypeOK'
  BY <1>1, <1>2 DEF TypeOK, OptionOf
<1>5. /\ StaleGood(r, stale'[r], superseded, now)
      /\ CallGood(r, pc'[r], reply'[r], timer'[r], stale'[r], superseded, now)
  BY <1>3 DEF StaleGood, CallGood, Out
<1>6. answer'[r] # None => AnswerGood(r, answer'[r], superseded, now)
  BY <1>2 DEF CacheInv, AnswerState
<1> QED  BY <1>1, <1>2, <1>3, <1>4, <1>5, <1>6, CallerStep

\* What ESI answers to a call that is out.
LEMMA ResponseGood ==
  ASSUME CacheInv, NEW r \in Calls, pc[r] = "sent", NEW h \in Headers,
         NEW status \in {200, 304}, status = 304 => Condition(r) = Current(Resource(r))
  PROVE  /\ Response(r, status, h) \in ReplyType
         /\ ReplyGood(r, Response(r, status, h), timer[r], stale[r], superseded, now)
<1> DEFINE content == Current(Resource(r))
           body == IF status = 200 THEN content ELSE None
           tag == IF h.tagged THEN content ELSE None
           expires == IF h.lifetime = None THEN None ELSE now + Skew + h.lifetime
           date == IF h.dated THEN now + Skew ELSE None
           budget == IF h.budgeted THEN r ELSE None
           due == timer[r]
           a == Response(r, status, h)
<1>1. TypeOK /\ TIMEOUT \in Nat /\ Skew \in Int /\ MAX_FRESHNESS \in Nat
  BY TimesAssumption DEF CacheInv
<1>2. /\ now \in Nat /\ superseded \in [Resources -> Seq(Nat)] /\ due \in Nat
      /\ stale[r] \in OptionOf(Entry) /\ Resource(r) \in Resources
  BY <1>1 DEF TypeOK, Resources
<1>3. now <= due /\ due <= now + TIMEOUT
  BY DEF CacheInv, CallState, CallGood, Out
<1>4. content \in Content /\ Held(content, now, superseded, now)
  BY <1>2, CurrentHeld DEF Current
<1>5. Held(content, due - TIMEOUT, superseded, now)
  <2>1. due - TIMEOUT \in Int /\ due - TIMEOUT <= now
    BY <1>1, <1>2, <1>3
  <2> QED  BY <1>2, <1>4, <2>1, HeldBefore
<1>6. content.resource = Resource(r)
  BY DEF Current
<1>7. a = [status |-> status, content |-> body, tag |-> tag, expires |-> expires,
           date |-> date, budget |-> budget]
  BY DEF Response
<1>8. h.lifetime # None => h.lifetime \in Nat
  BY TimesAssumption
<1>9. /\ body \in OptionOf(Content) /\ tag \in OptionOf(Content)
      /\ budget \in OptionOf(Calls) /\ budget \in {None, r}
  BY <1>4 DEF OptionOf
<1>10. /\ expires \in OptionOf(Int) /\ date \in OptionOf(Int)
       /\ expires # None <=> h.lifetime # None
       /\ date # None <=> h.dated
  BY <1>1, <1>2, <1>8, NoneAssumption DEF OptionOf
<1>11. expires # None =>
         /\ Horizon \in Nat
         /\ date = None => MAX_FRESHNESS <= Horizon
         /\ date # None => AtMost(expires - date, MAX_FRESHNESS) <= Horizon
  <2> SUFFICES ASSUME expires # None
               PROVE  /\ Horizon \in Nat
                      /\ date = None => MAX_FRESHNESS <= Horizon
                      /\ date # None => AtMost(expires - date, MAX_FRESHNESS) <= Horizon
    OBVIOUS
  <2>1. Horizon \in Nat /\ Lifetime(h) <= Horizon
    BY <1>10, HorizonBounds
  <2>2. CASE date = None
    <3>1. Lifetime(h) = MAX_FRESHNESS
      BY <1>10, <2>2 DEF Lifetime
    <3> QED  BY <2>1, <2>2, <3>1
  <2>3. CASE date # None
    <3>1. Lifetime(h) = AtMost(h.lifetime, MAX_FRESHNESS)
      BY <1>10, <2>3 DEF Lifetime
    <3>2. expires = now + Skew + h.lifetime /\ date = now + Skew /\ h.lifetime \in Nat
      BY <1>8, <1>10, <2>3
    <3>3. expires - date = h.lifetime
      <4> HIDE DEF expires, date
      <4> QED  BY <1>1, <1>2, <3>2
    <3> QED  BY <2>1, <2>3, <3>1, <3>3
  <2> QED  BY <2>2, <2>3
<1>12. NoOwnValidator /\ status = 304 => stale[r] # None /\ stale[r].content = content
  <2> SUFFICES ASSUME NoOwnValidator, status = 304
               PROVE  stale[r] # None /\ stale[r].content = content
    OBVIOUS
  <2>1. Condition(r) = content /\ content # None
    BY <1>4, NoneAssumption
  <2>2. stale[r] # None /\ stale[r].tag = content
    BY <2>1 DEF Condition, NoOwnValidator
  <2>3. Good(stale[r], superseded, now)
    BY <2>2 DEF CacheInv, StaleState, StaleGood
  <2> QED  BY <2>1, <2>2, <2>3 DEF Good
<1>13. /\ status = 200 => body = content
       /\ status # 200 => body = None
       /\ tag # None => tag = content
  OBVIOUS
<1> HIDE DEF content, body, tag, expires, date, budget, a
<1>14. a \in ReplyType
  BY <1>7, <1>9, <1>10 DEF ReplyType
<1>15. /\ a.status = status /\ a.content = body /\ a.tag = tag /\ a.expires = expires
       /\ a.date = date /\ a.budget = budget
  BY <1>7
<1>16. ReplyGood(r, a, due, stale[r], superseded, now)
  BY <1>4, <1>5, <1>6, <1>9, <1>11, <1>12, <1>13, <1>15 DEF ReplyGood
<1> QED  BY <1>14, <1>16 DEF a

LEMMA FailureGood ==
  ASSUME CacheInv, NEW r \in Calls
  PROVE  /\ Failure(r) \in ReplyType
         /\ ReplyGood(r, Failure(r), timer[r], stale[r], superseded, now)
BY DEF Failure, ReplyType, OptionOf, ReplyGood

LEMMA ReplyStep ==
  ASSUME CacheInv, NEW r \in Calls, Reply(r)
  PROVE  CacheInv'
<1>1. TypeOK /\ EntriesGood(entries, superseded, now)
  BY DEF CacheInv
<1>2. PICK a \in Responses(r) : reply' = [reply EXCEPT ![r] = a]
  BY DEF Reply
<1>3. /\ pc[r] = "sent" /\ pc' = [pc EXCEPT ![r] = "replied"]
      /\ UNCHANGED <<now, entries, superseded, stale, timer, answer>>
  BY DEF Reply
<1>4. a \in ReplyType /\ ReplyGood(r, a, timer[r], stale[r], superseded, now)
  <2> DEFINE status == IF Condition(r) = Current(Resource(r)) THEN 304 ELSE 200
  <2>1. a = Failure(r) \/ \E h \in Headers : a = Response(r, status, h)
    BY <1>2 DEF Responses
  <2>2. /\ status \in {200, 304}
        /\ status = 304 => Condition(r) = Current(Resource(r))
    OBVIOUS
  <2> HIDE DEF status
  <2>3. CASE a = Failure(r)
    BY <2>3, FailureGood
  <2>4. ASSUME NEW h \in Headers, a = Response(r, status, h)
        PROVE  a \in ReplyType /\ ReplyGood(r, a, timer[r], stale[r], superseded, now)
    BY <1>3, <2>2, <2>4, ResponseGood
  <2> QED  BY <2>1, <2>3, <2>4
<1>5. a # None
  BY <1>4, ReplyFields
<1>6. /\ reply'[r] = a /\ pc'[r] = "replied"
      /\ \A d \in Calls : d # r => pc'[d] = pc[d] /\ reply'[d] = reply[d]
  BY <1>1, <1>2, <1>3 DEF TypeOK
<1>7. TypeOK'
  BY <1>1, <1>2, <1>3, <1>4 DEF TypeOK, OptionOf
<1>8. CallGood(r, pc'[r], reply'[r], timer'[r], stale'[r], superseded, now)
  <2>1. now <= timer[r] /\ timer[r] <= now + TIMEOUT
    BY <1>3 DEF CacheInv, CallState, CallGood, Out
  <2> QED  BY <1>3, <1>4, <1>5, <1>6, <2>1 DEF CallGood
<1>9. /\ StaleGood(r, stale'[r], superseded, now)
      /\ answer'[r] # None => AnswerGood(r, answer'[r], superseded, now)
  BY <1>3 DEF CacheInv, StaleState, AnswerState
<1> QED  BY <1>1, <1>3, <1>6, <1>7, <1>8, <1>9, CallerStep

\* What exec has when a call's answer has come.
LEMMA Replied ==
  ASSUME CacheInv, NEW r \in Calls, pc[r] \in {"replied", "reading"}
  PROVE  /\ now \in Nat /\ superseded \in [Resources -> Seq(Nat)]
         /\ entries \in [Keys -> OptionOf(Entry)] /\ EntriesGood(entries, superseded, now)
         /\ timer[r] \in Nat /\ now <= timer[r] /\ reply[r] \in ReplyType
         /\ ReplyGood(r, reply[r], timer[r], stale[r], superseded, now)
         /\ stale[r] # None =>
              /\ stale[r] \in Entry /\ KeyFor(r) \in Keys
              /\ Good(stale[r], superseded, now) /\ OfKey(stale[r], KeyFor(r))
         /\ pc[r] = "reading" => KeyFor(r) \in Keys /\ reply[r].status = 200
<1>1. /\ now \in Nat /\ superseded \in [Resources -> Seq(Nat)]
      /\ entries \in [Keys -> OptionOf(Entry)] /\ EntriesGood(entries, superseded, now)
      /\ timer[r] \in Nat /\ reply[r] \in OptionOf(ReplyType)
      /\ stale[r] \in OptionOf(Entry)
  BY DEF CacheInv, TypeOK
<1>2. CallGood(r, pc[r], reply[r], timer[r], stale[r], superseded, now)
  BY DEF CacheInv, CallState
<1>3. StaleGood(r, stale[r], superseded, now)
  BY DEF CacheInv, StaleState
<1> QED  BY <1>1, <1>2, <1>3 DEF OptionOf, CallGood, StaleGood, Out

\* A response as ESI sent it.
LEMMA AsSent ==
  ASSUME CacheInv, NEW r \in Calls, pc[r] \in {"replied", "reading"}
  PROVE  /\ reply[r].content \in OptionOf(Content) /\ reply[r].budget \in OptionOf(Calls)
         /\ AnswerGood(r, [from |-> "esi", content |-> reply[r].content,
                           budget |-> reply[r].budget, at |-> now], superseded, now)
<1> DEFINE c == reply[r].content
           b == reply[r].budget
           a == [from |-> "esi", content |-> c, budget |-> b, at |-> now]
<1>1. c \in OptionOf(Content) /\ b \in OptionOf(Calls)
  BY Replied, ReplyFields
<1>2. b \in {None, r} /\ (c # None => c.resource = Resource(r))
  BY Replied DEF ReplyGood
<1> HIDE DEF b, c
<1>3. a.from = "esi" /\ a.content = c /\ a.budget = b
  OBVIOUS
<1> HIDE DEF a
<1>4. AnswerGood(r, a, superseded, now)
  BY <1>2, <1>3 DEF AnswerGood
<1> QED  BY <1>1, <1>4 DEF a, b, c

LEMMA PassThroughStep ==
  ASSUME CacheInv, NEW r \in Calls, PassThrough(r)
  PROVE  CacheInv'
<1>1. /\ pc[r] \in {"replied", "reading"} /\ UNCHANGED <<now, entries, superseded>>
      /\ Answer(r, "esi", reply[r].content, reply[r].budget)
  BY DEF PassThrough
<1>2. entries' \in [Keys -> OptionOf(Entry)] /\ EntriesGood(entries', superseded, now)
  BY <1>1, Replied
<1> QED  BY <1>1, <1>2, AsSent, AnswerStep

LEMMA UncachedStep ==
  ASSUME CacheInv, NEW r \in Calls, Uncached(r)
  PROVE  CacheInv'
<1>1. /\ pc[r] \in {"replied", "reading"} /\ UNCHANGED <<now, superseded>>
      /\ entries' = IF stale[r] = None THEN entries ELSE [entries EXCEPT ![KeyFor(r)] = None]
      /\ Answer(r, "esi", reply[r].content, reply[r].budget)
  BY DEF Uncached
<1>2. entries \in [Keys -> OptionOf(Entry)] /\ EntriesGood(entries, superseded, now)
  BY <1>1, Replied
<1>3. entries' \in [Keys -> OptionOf(Entry)] /\ EntriesGood(entries', superseded, now)
  BY <1>1, <1>2 DEF OptionOf, EntriesGood
<1> QED  BY <1>1, <1>3, AsSent, AnswerStep

LEMMA StoreStep ==
  ASSUME CacheInv, NEW r \in Calls, Store(r)
  PROVE  CacheInv'
<1> DEFINE e == FromParts(reply[r])
<1>1. /\ pc[r] \in {"replied", "reading"} /\ UNCHANGED <<now, superseded>>
      /\ entries' = IF e = None THEN entries ELSE Put(KeyFor(r), e)
      /\ Answer(r, "esi", reply[r].content, reply[r].budget)
  BY DEF Store
<1>2. /\ entries \in [Keys -> OptionOf(Entry)] /\ EntriesGood(entries, superseded, now)
      /\ KeyFor(r) \in Keys /\ reply[r].status = 200
  BY <1>1, Replied DEF Store
<1>3. entries' \in [Keys -> OptionOf(Entry)] /\ EntriesGood(entries', superseded, now)
  <2>1. CASE e = None
    BY <1>1, <1>2, <2>1
  <2>2. CASE e # None
    <3>1. e \in Entry /\ Good(e, superseded, now) /\ e.content.resource = Resource(r)
      BY <1>1, <1>2, <2>2, Replied, FromPartsGood
    <3> HIDE DEF e
    <3>2. OfKey(e, KeyFor(r))
      BY <1>2, <3>1 DEF OfKey, KeysNameResources, Keys
    <3> QED  BY <1>1, <1>2, <2>2, <3>1, <3>2, PutGood
  <2> QED  BY <2>1, <2>2
<1> QED  BY <1>1, <1>3, AsSent, AnswerStep

LEMMA RevalidatedStep ==
  ASSUME CacheInv, NEW r \in Calls, Revalidated(r)
  PROVE  CacheInv'
<1> DEFINE old == stale[r]
           h == reply[r]
           e == Revalidate(old, h)
           b == MergedBudget(old, h)
           i == now - TIMEOUT
<1>1. /\ pc[r] \in {"replied", "reading"} /\ UNCHANGED <<now, superseded>>
      /\ old # None /\ h.status = 304 /\ entries' = Put(KeyFor(r), e)
      /\ Answer(r, "revalidated", old.content, b)
  BY DEF Revalidated, NotModified
<1>2. /\ now \in Nat /\ superseded \in [Resources -> Seq(Nat)]
      /\ entries \in [Keys -> OptionOf(Entry)] /\ EntriesGood(entries, superseded, now)
      /\ timer[r] \in Nat /\ now <= timer[r] /\ h \in ReplyType
      /\ ReplyGood(r, h, timer[r], old, superseded, now)
      /\ old \in Entry /\ KeyFor(r) \in Keys
      /\ Good(old, superseded, now) /\ OfKey(old, KeyFor(r))
  BY <1>1, Replied
<1>3. /\ e \in Entry /\ Good(e, superseded, now) /\ e.content = old.content
      /\ b \in {None, r}
  BY <1>1, <1>2, RevalidateGood
<1>4. old.content \in Content
  BY <1>2, EntryFields
<1>5. NoOwnValidator => Held(old.content, i, superseded, now)
  <2>1. NoOwnValidator => Held(old.content, timer[r] - TIMEOUT, superseded, now)
    BY <1>1, <1>2 DEF ReplyGood
  <2>2. /\ i \in Int /\ timer[r] - TIMEOUT \in Int /\ i <= timer[r] - TIMEOUT
        /\ now \in Int
    BY <1>2, TimesAssumption
  <2> HIDE DEF i, old
  <2> QED  BY <1>2, <1>4, <2>1, <2>2, HeldBefore
<1>6. KeysNameResources => old.content.resource = Resource(r)
  BY <1>2 DEF OfKey
<1> HIDE DEF old, h, e, b, i
<1>7. entries' \in [Keys -> OptionOf(Entry)] /\ EntriesGood(entries', superseded, now)
  <2>1. OfKey(e, KeyFor(r))
    BY <1>2, <1>3 DEF OfKey
  <2> QED  BY <1>1, <1>2, <1>3, <2>1, PutGood
<1> DEFINE a == [from |-> "revalidated", content |-> old.content, budget |-> b, at |-> now]
<1>8. AnswerGood(r, a, superseded, now)
  <2>1. /\ a.from = "revalidated" /\ a.content = old.content /\ a.budget = b
        /\ a.at - TIMEOUT = i
    BY DEF i
  <2> HIDE DEF a
  <2> QED  BY <1>3, <1>5, <1>6, <2>1 DEF AnswerGood
<1>9. old.content \in OptionOf(Content) /\ b \in OptionOf(Calls)
  BY <1>3, <1>4 DEF OptionOf
<1> QED  BY <1>1, <1>7, <1>8, <1>9, AnswerStep

-----------------------------------------------------------------------------
(* The invariant is inductive. *)

LEMMA InvInit == Init => CacheInv
<1> SUFFICES ASSUME Init  PROVE CacheInv
  OBVIOUS
<1>1. /\ now = 0 /\ entries = [k \in Keys |-> None]
      /\ superseded = [resource \in Resources |-> << >>]
      /\ pc = [r \in Calls |-> "idle"] /\ stale = [r \in Calls |-> None]
      /\ timer = [r \in Calls |-> 0] /\ reply = [r \in Calls |-> None]
      /\ answer = [r \in Calls |-> None]
  BY DEF Init
<1>2. TypeOK
  BY <1>1 DEF TypeOK, OptionOf
<1>3. EntriesGood(entries, superseded, now)
  BY <1>1 DEF EntriesGood
<1>4. StaleState
  BY <1>1 DEF StaleState, StaleGood
<1>5. CallState
  BY <1>1 DEF CallState, CallGood, Out
<1>6. AnswerState
  BY <1>1 DEF AnswerState
<1> QED  BY <1>2, <1>3, <1>4, <1>5, <1>6 DEF CacheInv

LEMMA InvNext == CacheInv /\ [Next]_vars => CacheInv'
<1> SUFFICES ASSUME CacheInv, [Next]_vars  PROVE CacheInv'
  OBVIOUS
<1>1. CASE Tick
  BY <1>1, TickStep
<1>2. ASSUME NEW resource \in Resources, Change(resource)  PROVE CacheInv'
  BY <1>2, ChangeStep
<1>3. ASSUME NEW r \in Calls, Hit(r) \/ Miss(r) \/ Send(r) \/ Reply(r)  PROVE CacheInv'
  BY <1>3, HitStep, MissStep, SendStep, ReplyStep
<1>4. ASSUME NEW r \in Calls, Revalidated(r) \/ PassThrough(r) \/ Uncached(r)
      PROVE  CacheInv'
  BY <1>4, RevalidatedStep, PassThroughStep, UncachedStep
<1>5. ASSUME NEW r \in Calls, ReadBody(r) \/ Store(r) \/ Abandon(r)  PROVE CacheInv'
  BY <1>5, ReadBodyStep, StoreStep, AbandonStep
<1>6. CASE UNCHANGED vars
  <2>1. /\ now' = now /\ entries' = entries /\ superseded' = superseded /\ pc' = pc
        /\ stale' = stale /\ timer' = timer /\ reply' = reply /\ answer' = answer
    BY <1>6 DEF vars
  <2>2. TypeOK'
    BY <2>1 DEF CacheInv, TypeOK
  <2>3. EntriesGood(entries', superseded', now')
    BY <2>1 DEF CacheInv
  <2>4. StaleState' /\ CallState' /\ AnswerState'
    BY <2>1 DEF CacheInv, StaleState, CallState, AnswerState
  <2> QED  BY <2>2, <2>3, <2>4 DEF CacheInv
<1> QED  BY <1>1, <1>2, <1>3, <1>4, <1>5, <1>6 DEF Next

LEMMA Invariant == Spec => []CacheInv
<1> QED  BY InvInit, InvNext, PTL DEF Spec

-----------------------------------------------------------------------------
(***************************************************************************)
(* Every variable has its type, and every entry can be served for a while  *)
(* or revalidated.                                                         *)
(***************************************************************************)
THEOREM TypeCorrect == Spec => []TypeOK
<1>1. CacheInv => TypeOK
  BY DEF CacheInv
<1> QED  BY <1>1, Invariant, PTL

(***************************************************************************)
(* key_for keeps characters apart: a response is of the call's own         *)
(* resource, whichever call fetched it, when a sub names one character and *)
(* the calls of a key ask in one language (which the key does not hold).   *)
(***************************************************************************)
THEOREM AnsweredOwn ==
  ASSUME SubjectNamesOwner, OneLanguage
  PROVE  Spec => []AnswersOwnRequest
<1>1. KeysNameResources
  BY KeysApart
<1>2. CacheInv => AnswersOwnRequest
  BY <1>1 DEF CacheInv, AnswerState, AnswerGood, AnswersOwnRequest, Given
<1> QED  BY <1>2, Invariant, PTL

(***************************************************************************)
(* The error- and rate-limit headers on a response are of the caller's own *)
(* exchange: a hit has none (strip_budget_headers, to_hit).                *)
(***************************************************************************)
THEOREM BudgetsAreOwn == Spec => []BudgetIsOwn
<1>1. CacheInv => BudgetIsOwn
  BY DEF CacheInv, AnswerState, AnswerGood, BudgetIsOwn
<1> QED  BY <1>1, Invariant, PTL

(***************************************************************************)
(* A hit is at most a lifetime and a transfer old, whatever the skew of    *)
(* the clocks and however often a 304 has kept the entry, when no call     *)
(* brings its own validator.                                               *)
(***************************************************************************)
THEOREM HitsAreRecent ==
  ASSUME NoOwnValidator
  PROVE  Spec => []HitIsRecent
<1>1. CacheInv => HitIsRecent
  BY DEF CacheInv, AnswerState, AnswerGood, HitIsRecent, Given, Held, CurrentAt, Span
<1> QED  BY <1>1, Invariant, PTL

(***************************************************************************)
(* A 304 stands for the body it confirms: a revalidated response was ESI's *)
(* while the call was out, when no call brings its own validator.          *)
(***************************************************************************)
THEOREM RevalidationsAreCurrent ==
  ASSUME NoOwnValidator
  PROVE  Spec => []RevalidatedIsCurrent
<1>1. CacheInv => RevalidatedIsCurrent
  BY DEF CacheInv, AnswerState, AnswerGood, RevalidatedIsCurrent, Given, Held, CurrentAt
<1> QED  BY <1>1, Invariant, PTL

(***************************************************************************)
(* MemoryCache::put evicts no fresh entry, and a call costs only its own   *)
(* key an entry.                                                           *)
(***************************************************************************)
THEOREM FreshEntriesAreKept == Spec => FreshKept
<1> DEFINE Kept == \A k \in FreshKeys :
             entries'[k] = None => \E r \in Calls : KeyFor(r) = k /\ Uncached(r)
<1>1. CacheInv /\ [Next]_vars => [Kept]_vars
  <2> SUFFICES ASSUME CacheInv, Next, NEW k \in FreshKeys, entries'[k] = None
               PROVE  \E r \in Calls : KeyFor(r) = k /\ Uncached(r)
    OBVIOUS
  <2>1. /\ k \in Keys /\ entries[k] # None /\ entries \in [Keys -> OptionOf(Entry)]
    BY DEF FreshKeys, CacheInv, TypeOK
  <2>2. ASSUME UNCHANGED entries  PROVE FALSE
    BY <2>1, <2>2
  <2>3. ASSUME NEW r \in Calls, NEW j \in Keys, NEW e \in Entry, entries' = Put(j, e)
        PROVE  FALSE
    BY <2>1, <2>3, PutKeeps, EntryFields
  <2>4. ASSUME NEW r \in Calls, Revalidated(r)  PROVE FALSE
    <3>1. /\ pc[r] \in {"replied", "reading"} /\ stale[r] # None /\ reply[r].status = 304
          /\ entries' = Put(KeyFor(r), Revalidate(stale[r], reply[r]))
      BY <2>4 DEF Revalidated, NotModified
    <3>2. KeyFor(r) \in Keys /\ Revalidate(stale[r], reply[r]) \in Entry
      BY <3>1, Replied, RevalidateGood
    <3> QED  BY <2>3, <3>1, <3>2
  <2>5. ASSUME NEW r \in Calls, Store(r)  PROVE FALSE
    <3>1. /\ pc[r] \in {"replied", "reading"} /\ pc[r] = "reading"
          /\ entries' = IF FromParts(reply[r]) = None THEN entries
                        ELSE Put(KeyFor(r), FromParts(reply[r]))
      BY <2>5 DEF Store
    <3>2. KeyFor(r) \in Keys /\ reply[r].status = 200
      BY <3>1, Replied
    <3>3. CASE FromParts(reply[r]) = None
      BY <2>2, <3>1, <3>3
    <3>4. CASE FromParts(reply[r]) # None
      <4>1. FromParts(reply[r]) \in Entry
        BY <3>1, <3>2, <3>4, Replied, FromPartsGood
      <4> QED  BY <2>3, <3>1, <3>2, <3>4, <4>1
    <3> QED  BY <3>3, <3>4
  <2>6. ASSUME NEW r \in Calls, Uncached(r)  PROVE KeyFor(r) = k
    <3>1. entries' = IF stale[r] = None THEN entries
                     ELSE [entries EXCEPT ![KeyFor(r)] = None]
      BY <2>6 DEF Uncached
    <3> QED  BY <2>1, <3>1
  <2>7. CASE Tick
    BY <2>2, <2>7 DEF Tick
  <2>8. ASSUME NEW resource \in Resources, Change(resource)  PROVE FALSE
    BY <2>2, <2>8 DEF Change
  <2>9. ASSUME NEW r \in Calls, Hit(r) \/ Miss(r) \/ Send(r) \/ Reply(r) \/ PassThrough(r)
                                \/ ReadBody(r) \/ Abandon(r)
        PROVE  FALSE
    BY <2>2, <2>9 DEF Hit, Miss, Send, Reply, PassThrough, ReadBody, Abandon
  <2> QED  BY <2>4, <2>5, <2>6, <2>7, <2>8, <2>9 DEF Next
<1> QED  BY <1>1, Invariant, PTL DEF FreshKept, Spec
=============================================================================
