--------------------------- MODULE ResponseCache ---------------------------
(***************************************************************************)
(* The response cache of src/src/cache.rs in the pipeline of               *)
(* src/src/hooks.rs: GETs look an entry up, wait for the limiters, go to   *)
(* ESI and read its answer, while other calls do the same with the same    *)
(* key, ESI's content changes, and the caller may drop the future at any   *)
(* await.  A content stands for its own (strong) ETag.                     *)
(***************************************************************************)
EXTENDS Integers, Sequences, FiniteSets

CONSTANTS
  None,           \* an absent Option
  Calls,
  RequestOf,      \* each call's [url, token, lang, own, cached]: the last, whether
                  \* it is a GET of a client with a cache
  Subject,        \* the readable sub claim of a token; None if it has none
  Owner,          \* whom ESI takes a token for
  Headers,        \* what ESI's answers carry: [tagged, lifetime, dated, budgeted]
  Skew,           \* ESI's clock minus the client's
  MAX_ENTRIES,
  MAX_FRESHNESS,
  TIMEOUT,        \* reqwest's total timeout: no answer is read later
  MaxVersion,     \* bound: once one has changed so often, none does
  MaxTime         \* bound: the clock stops here

ASSUME TimesAssumption ==
  /\ Headers \subseteq [tagged : BOOLEAN, lifetime : Nat \cup {None},
                        dated : BOOLEAN, budgeted : BOOLEAN]
  /\ Skew \in Int /\ MAX_FRESHNESS \in Nat \ {0} /\ TIMEOUT \in Nat

VARIABLES
  now,         \* SystemTime::now() of the client
  entries,     \* MemoryCache.entries, None where there is no entry
  superseded,  \* ESI: when each earlier version of a resource was replaced
  pc,          \* where each call is
  stale,       \* exec's `stale`: its own copy of the entry it looked up
  timer,       \* when a call sent times out; else 0
  reply,       \* ESI's answer, until exec is done with it
  answer       \* what the caller got, and when

vars == <<now, entries, superseded, pc, stale, timer, reply, answer>>

\* What ESI's content depends on: a path, who asks, and Accept-Language.
Resource(r) ==
  [url |-> RequestOf[r].url, lang |-> RequestOf[r].lang,
   owner |-> IF RequestOf[r].token = None THEN None ELSE Owner[RequestOf[r].token]]

Resources == {Resource(r) : r \in Calls}

Content == [resource : Resources, version : Nat]

OptionOf(S) == S \cup {None}

\* A CachedResponse is of use: fresh for a while or revalidatable.
Entry ==
  {e \in [content : Content, tag : OptionOf(Content),
          expires_at : OptionOf(Int), budget : OptionOf(Calls)] :
     e.tag # None \/ e.expires_at # None}

ReplyType ==
  [status : {200, 304, 500}, content : OptionOf(Content),
   tag : OptionOf(Content), expires : OptionOf(Int), date : OptionOf(Int),
   budget : OptionOf(Calls)]

AnswerType ==
  [from : {"hit", "revalidated", "esi"}, content : OptionOf(Content),
   budget : OptionOf(Calls), at : Nat]

ASSUME NoneAssumption ==
  None \notin Int /\ None \notin Content \cup Entry \cup ReplyType \cup AnswerType

Current(resource) ==
  [resource |-> resource, version |-> Len(superseded[resource])]

\* Mutant of KeyFor: a token without a readable sub is nobody's.
KeyForAnyToken(r) ==
  [url |-> RequestOf[r].url,
   principal |-> IF RequestOf[r].token = None THEN None
                 ELSE Subject[RequestOf[r].token]]

\* The key that exec looks up: key_for, unless there is no cache to look in.
KeyFor(r) ==
  LET token == RequestOf[r].token
  IN  IF ~RequestOf[r].cached THEN None
      ELSE IF token = None THEN [url |-> RequestOf[r].url, principal |-> None]
      ELSE IF Subject[token] = None THEN None
      ELSE [url |-> RequestOf[r].url, principal |-> Subject[token]]

Keys == {KeyFor(r) : r \in Calls} \ {None}

Init ==
  /\ now = 0
  /\ entries = [k \in Keys |-> None]
  /\ superseded = [resource \in Resources |-> << >>]
  /\ pc = [r \in Calls |-> "idle"]
  /\ stale = [r \in Calls |-> None]
  /\ timer = [r \in Calls |-> 0]
  /\ reply = [r \in Calls |-> None]
  /\ answer = [r \in Calls |-> None]

(***************************************************************************)
(* CachedResponse: [content, tag, expires_at, budget], where budget names  *)
(* the call whose answer the error- and rate-limit headers came with.      *)
(***************************************************************************)
AtMost(a, b) == IF a <= b THEN a ELSE b

IsFresh(entry, t) == entry.expires_at # None /\ t < entry.expires_at

FreshKeys == {k \in Keys : entries[k] # None /\ IsFresh(entries[k], now)}

\* Mutant of ExpiresFrom: the lifetime is measured against the local clock.
ExpiresFromLocal(h) ==
  IF h.expires = None \/ h.expires <= now THEN None
  ELSE now + AtMost(h.expires - now, MAX_FRESHNESS)

ExpiresFrom(h) ==
  LET server_now == IF h.date = None THEN now ELSE h.date
  IN  IF h.expires = None \/ h.expires <= server_now THEN None
      ELSE now + AtMost(h.expires - server_now, MAX_FRESHNESS)

Cacheable(h) == h.tag # None \/ ExpiresFrom(h) # None

\* Mutant of FromParts: everything is worth an entry.
FromPartsAlways(h) ==
  [content |-> h.content, tag |-> h.tag, expires_at |-> ExpiresFrom(h),
   budget |-> None]

\* Mutant of FromParts: the budget headers are stored.
FromPartsUnstripped(h) ==
  IF ~Cacheable(h) THEN None
  ELSE [content |-> h.content, tag |-> h.tag, expires_at |-> ExpiresFrom(h),
        budget |-> h.budget]

FromParts(h) ==
  IF ~Cacheable(h) THEN None
  ELSE [content |-> h.content, tag |-> h.tag, expires_at |-> ExpiresFrom(h),
        budget |-> None]

\* revalidate: the entry, and the budget headers of the merged answer.
Revalidate(entry, h) ==
  [entry EXCEPT
     !.expires_at = IF ExpiresFrom(h) # None THEN ExpiresFrom(h) ELSE @,
     !.tag = IF h.tag # None THEN h.tag ELSE @,
     !.budget = None]

MergedBudget(entry, h) == IF h.budget # None THEN h.budget ELSE entry.budget

\* condition: the entry's ETag, unless the caller set their own validator.
Condition(r) ==
  IF RequestOf[r].own # None
  THEN [resource |-> Resource(r), version |-> RequestOf[r].own]
  ELSE IF stale[r] # None THEN stale[r].tag
  ELSE None

\* Mutant of Put: a full cache is cleared.
PutClearing(k, entry) ==
  IF Cardinality({j \in Keys : entries[j] # None}) >= MAX_ENTRIES /\ entries[k] = None
  THEN [j \in Keys |-> IF j = k THEN entry ELSE None]
  ELSE [entries EXCEPT ![k] = entry]

\* MemoryCache::put: a full cache evicts what is not fresh.
Put(k, entry) ==
  LET full == Cardinality({j \in Keys : entries[j] # None}) >= MAX_ENTRIES
      kept == IF full /\ entries[k] = None
              THEN [j \in Keys |-> IF j \in FreshKeys THEN entries[j] ELSE None]
              ELSE entries
  IN  [kept EXCEPT ![k] = entry]

(***************************************************************************)
(* exec, up to the request: a fresh entry answers it, a stale one is kept  *)
(* for later while the call waits for the two limiters.                    *)
(***************************************************************************)
Answer(r, from, content, budget) ==
  /\ answer' = [answer EXCEPT ![r] =
       [from |-> from, content |-> content, budget |-> budget, at |-> now]]
  /\ pc' = [pc EXCEPT ![r] = "done"]
  /\ stale' = [stale EXCEPT ![r] = None]
  /\ timer' = [timer EXCEPT ![r] = 0]
  /\ reply' = [reply EXCEPT ![r] = None]

Hit(r) ==
  /\ pc[r] = "idle"
  /\ KeyFor(r) \in FreshKeys
  /\ Answer(r, "hit", entries[KeyFor(r)].content, None)
  /\ UNCHANGED <<now, entries, superseded>>

Miss(r) ==
  /\ pc[r] = "idle"
  /\ KeyFor(r) \notin FreshKeys
  /\ stale' = [stale EXCEPT ![r] =
                 IF KeyFor(r) = None THEN None ELSE entries[KeyFor(r)]]
  /\ pc' = [pc EXCEPT ![r] = "gated"]
  /\ UNCHANGED <<now, entries, superseded, timer, reply, answer>>

Send(r) ==
  /\ pc[r] = "gated"
  /\ pc' = [pc EXCEPT ![r] = "sent"]
  /\ timer' = [timer EXCEPT ![r] = now + TIMEOUT]
  /\ UNCHANGED <<now, entries, superseded, stale, reply, answer>>

(***************************************************************************)
(* ESI: 304 if the validator is that of the current content, else 200, or  *)
(* an error.  The lifetime of a response is its Expires less its Date.     *)
(***************************************************************************)
Response(r, status, h) ==
  LET content == Current(Resource(r))
  IN  [status |-> status,
       content |-> IF status = 200 THEN content ELSE None,
       tag |-> IF h.tagged THEN content ELSE None,
       expires |-> IF h.lifetime = None THEN None ELSE now + Skew + h.lifetime,
       date |-> IF h.dated THEN now + Skew ELSE None,
       budget |-> IF h.budgeted THEN r ELSE None]

Failure(r) ==
  [status |-> 500, content |-> None, tag |-> None, expires |-> None,
   date |-> None, budget |-> r]

Responses(r) ==
  LET status == IF Condition(r) = Current(Resource(r)) THEN 304 ELSE 200
  IN  {Response(r, status, h) : h \in Headers} \cup {Failure(r)}

Reply(r) ==
  /\ pc[r] = "sent"
  /\ \E response \in Responses(r) : reply' = [reply EXCEPT ![r] = response]
  /\ pc' = [pc EXCEPT ![r] = "replied"]
  /\ UNCHANGED <<now, entries, superseded, stale, timer, answer>>

Change(resource) ==
  /\ \A any \in Resources : Len(superseded[any]) < MaxVersion
  /\ superseded' = [superseded EXCEPT ![resource] = Append(@, now)]
  /\ UNCHANGED <<now, entries, pc, stale, timer, reply, answer>>

(***************************************************************************)
(* exec, from the response on.  A cacheable 200 is stored only when its    *)
(* body has been read.                                                     *)
(***************************************************************************)
\* Mutant of NotModified: a stale entry also stands in for an error.
NotModifiedOrError(r) == reply[r].status \in {304, 500}

NotModified(r) == reply[r].status = 304

Revalidated(r) ==
  /\ pc[r] = "replied" /\ NotModified(r) /\ stale[r] # None
  /\ entries' = Put(KeyFor(r), Revalidate(stale[r], reply[r]))
  /\ Answer(r, "revalidated", stale[r].content, MergedBudget(stale[r], reply[r]))
  /\ UNCHANGED <<now, superseded>>

\* No cache for this call, an error, or a 304 with nothing stale: as ESI sent it.
PassThrough(r) ==
  /\ pc[r] = "replied"
  /\ \/ KeyFor(r) = None
     \/ reply[r].status = 500
     \/ NotModified(r) /\ stale[r] = None
  /\ Answer(r, "esi", reply[r].content, reply[r].budget)
  /\ UNCHANGED <<now, entries, superseded>>

Uncached(r) ==
  /\ pc[r] = "replied" /\ KeyFor(r) # None
  /\ reply[r].status = 200 /\ ~Cacheable(reply[r])
  /\ entries' = IF stale[r] = None THEN entries
                ELSE [entries EXCEPT ![KeyFor(r)] = None]
  /\ Answer(r, "esi", reply[r].content, reply[r].budget)
  /\ UNCHANGED <<now, superseded>>

ReadBody(r) ==
  /\ pc[r] = "replied" /\ KeyFor(r) # None
  /\ reply[r].status = 200 /\ Cacheable(reply[r])
  /\ pc' = [pc EXCEPT ![r] = "reading"]
  /\ UNCHANGED <<now, entries, superseded, stale, timer, reply, answer>>

Store(r) ==
  /\ pc[r] = "reading"
  /\ entries' = IF FromParts(reply[r]) = None THEN entries
                ELSE Put(KeyFor(r), FromParts(reply[r]))
  /\ Answer(r, "esi", reply[r].content, reply[r].budget)
  /\ UNCHANGED <<now, superseded>>

\* The transport failed or timed out, or the caller dropped the future.
Abandon(r) ==
  /\ pc[r] \in {"gated", "sent", "replied", "reading"}
  /\ pc' = [pc EXCEPT ![r] = "done"]
  /\ stale' = [stale EXCEPT ![r] = None]
  /\ timer' = [timer EXCEPT ![r] = 0]
  /\ reply' = [reply EXCEPT ![r] = None]
  /\ UNCHANGED <<now, entries, superseded, answer>>

\* A call sent is over, one way or the other, by its timeout.
Tick ==
  /\ now < MaxTime
  /\ \A r \in Calls :
       pc[r] \in {"sent", "replied", "reading"} => now < timer[r]
  /\ now' = now + 1
  /\ UNCHANGED <<entries, superseded, pc, stale, timer, reply, answer>>

Next ==
  \/ Tick
  \/ \E resource \in Resources : Change(resource)
  \/ \E r \in Calls :
       \/ Hit(r) \/ Miss(r) \/ Send(r) \/ Reply(r)
       \/ Revalidated(r) \/ PassThrough(r) \/ Uncached(r)
       \/ ReadBody(r) \/ Store(r) \/ Abandon(r)

Spec == Init /\ [][Next]_vars

-----------------------------------------------------------------------------
(***************************************************************************)
(* Every variable has its type, and every entry is of use: fresh for a     *)
(* while or revalidatable (the doc of CachedResponse::is_cacheable).       *)
(***************************************************************************)
TypeOK ==
  /\ now \in Nat
  /\ entries \in [Keys -> OptionOf(Entry)]
  /\ superseded \in [Resources -> Seq(Nat)]
  /\ pc \in [Calls -> {"idle", "gated", "sent", "replied", "reading", "done"}]
  /\ stale \in [Calls -> OptionOf(Entry)]
  /\ timer \in [Calls -> Nat]
  /\ reply \in [Calls -> OptionOf(ReplyType)]
  /\ answer \in [Calls -> OptionOf(AnswerType)]

Given(r) == answer[r] # None /\ answer[r].content # None

(***************************************************************************)
(* Nobody gets another's response: the content a call returns, fetched,    *)
(* cached or resurrected, is what ESI had for this path, this character    *)
(* and this language.                                                      *)
(***************************************************************************)
AnswersOwnRequest ==
  \A r \in Calls : Given(r) => answer[r].content.resource = Resource(r)

\* The content was still ESI's at instant t or later.
CurrentAt(content, t) ==
  LET replaced == superseded[content.resource]
  IN  content.version < Len(replaced) => t <= replaced[content.version + 1]

\* The longest that an answer of ESI's is fresh.
Lifetime(h) ==
  IF h.dated THEN AtMost(h.lifetime, MAX_FRESHNESS) ELSE MAX_FRESHNESS

Lifetimes == {Lifetime(h) : h \in {g \in Headers : g.lifetime # None}}

Horizon == CHOOSE t \in Lifetimes : \A d \in Lifetimes : d <= t

(***************************************************************************)
(* Staleness is bounded: whatever the interleaving of lookups, late        *)
(* answers and overwritten entries, a hit returns content that was ESI's   *)
(* less than a lifetime and a transfer ago -- the lifetime ESI gave,       *)
(* whatever the local clock says ("client clock skew doesn't shorten or    *)
(* stretch it"), and the cap where there is no Date to measure it from.    *)
(***************************************************************************)
HitIsRecent ==
  \A r \in Calls :
    Given(r) /\ answer[r].from = "hit"
      => CurrentAt(answer[r].content, answer[r].at + 1 - (Horizon + TIMEOUT))

(***************************************************************************)
(* A 304 resurrects the right body: a response marked revalidated carries  *)
(* content that was ESI's while this very call was out.                    *)
(***************************************************************************)
RevalidatedIsCurrent ==
  \A r \in Calls :
    Given(r) /\ answer[r].from = "revalidated"
      => CurrentAt(answer[r].content, answer[r].at - TIMEOUT)

(***************************************************************************)
(* "Cached responses never carry X-ESI-Error-Limit-* or X-Ratelimit-*      *)
(* headers": the budget a caller reads off a response is that of its own   *)
(* exchange with ESI or none, after any number of revalidations.           *)
(***************************************************************************)
BudgetIsOwn ==
  \A r \in Calls :
    answer[r] # None =>
      answer[r].budget \in (IF answer[r].from = "hit" THEN {None} ELSE {None, r})

(***************************************************************************)
(* "Expired ones are evicted first": a put under one key never costs       *)
(* another key its fresh entry; only a call for the same key, whose        *)
(* response was not worth storing, drops one.                              *)
(***************************************************************************)
FreshKept ==
  [][\A k \in FreshKeys :
       entries'[k] = None => \E r \in Calls : KeyFor(r) = k /\ Uncached(r)]_vars

(***************************************************************************)
(* "A route is never re-requested before its Expires elapses (it's         *)
(* answered from the cache)" (src/src/lib.rs): nothing is sent for a key   *)
(* whose entry is fresh.                                                   *)
(***************************************************************************)
NeverRerequested ==
  [][\A r \in Calls : Send(r) => KeyFor(r) \notin FreshKeys]_vars

(***************************************************************************)
(* "Bounded to a few thousand entries" (MemoryCache).                      *)
(***************************************************************************)
EntriesBounded == Cardinality({k \in Keys : entries[k] # None}) <= MAX_ENTRIES
=============================================================================
