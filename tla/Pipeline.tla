------------------------------ MODULE Pipeline ------------------------------
(***************************************************************************)
(* The request pipeline of src/src/hooks.rs: what pre and exec do with one *)
(* call, as a composition of the error limiter (this module extends it),   *)
(* the rate limiter (RL) and the response cache (RC).  A step of the       *)
(* pipeline is a step of each component it calls, at once where the code   *)
(* has no await between them; ESI is the components' server, and answers   *)
(* at the moment a response is recorded.  Calls come from clients that are *)
(* derived from one another; each is made once.                            *)
(***************************************************************************)
EXTENDS ErrorLimiter, Sequences, FiniteSets

CONSTANTS
  Private, Fresh,        \* see Client
  Options,               \* of the builder of the first client
  As,                    \* the token providers that calls' clients are derived with
  CacheLess,             \* the calls made without_cache
  Urls,                  \* each call's url, which is its operation too
  RateLimitOf,           \* spec_rate_limit, per url
  Answers,               \* what ESI's responses carry for the rate limiter
  CacheHeaders,          \* ... and for the cache
  Bodies,                \* the bodies of error responses: [json, error]
  Subject, Owner,        \* of tokens
  MAX_REQUEST_COST, MAX_POLL, DEFAULT_RETRY_AFTER,
  MAX_ENTRIES, MAX_FRESHNESS,
  Skew,                  \* ESI's clock minus the client's
  TIMEOUT,               \* of the HTTP client
  CallBy,                \* bound: calls start no later than this
  MaxCalls,              \* bound: calls made
  MaxVersion             \* bound: once a content has changed so often, none does

ASSUME PipelineAssumption ==
  /\ DOMAIN As \subseteq Callers /\ DOMAIN Urls = Callers /\ CacheLess \subseteq Callers
  /\ \A body \in Bodies : body.json \in BOOLEAN /\ body.error \in {None, "string", "other"}

VARIABLES
  buckets, learned, status, timer, reservation, retryAt,         \* RL; status is its pc
  entries, superseded, stage, stale, deadline, reply, answer,    \* RC; stage is its pc
  body         \* of an error response, as normalize_error left it; else None

rate == <<buckets, learned, status, timer, reservation, retryAt>>
cache == <<entries, superseded, stage, stale, deadline, reply, answer>>
gate == <<window, pc, wake, held>>

C == INSTANCE Client

InnerOf ==
  [c \in Callers |->
     LET base == C!Build(Options)
         inner == IF c \in DOMAIN As THEN C!WithAuth(base, As[c]) ELSE base
     IN  IF c \in CacheLess THEN C!WithoutCache(inner) ELSE inner]

(***************************************************************************)
(* A call goes through the error limiter of its client.  Each rate limiter *)
(* has its own operations and groups.                                      *)
(***************************************************************************)
ASSUME LimitersAssumption == LimiterOf = [c \in Callers |-> InnerOf[c].error_limiter]

Operations == {Private, Fresh} \X {Urls[c] : c \in Callers}
OperationOf == [c \in Callers |-> <<InnerOf[c].rate_limiter, Urls[c]>>]
Groups == {<<o[1], RateLimitOf[o[2]].group>> : o \in Operations}
SpecLimit ==
  [o \in Operations |-> [RateLimitOf[o[2]] EXCEPT !.group = <<o[1], @>>]]

RL == INSTANCE RateLimiter
        WITH Requests <- Callers, Headers <- Answers, pc <- status, CallBy <- MaxTime

RequestOf ==
  [c \in Callers |->
     [url |-> Urls[c], token |-> InnerOf[c].auth, lang |-> None, own |-> None,
      cached |-> InnerOf[c].cache # None]]

RC == INSTANCE ResponseCache
        WITH Calls <- Callers, Headers <- CacheHeaders, pc <- stage, timer <- deadline

\* What the two components assume of these constants.
ASSUME RateAssumption ==
  /\ MAX_REQUEST_COST \in Nat \ {0} /\ MAX_POLL \in Nat \ {0}
  /\ DEFAULT_RETRY_AFTER \in Nat /\ TIMEOUT \in Nat /\ IsFiniteSet(Callers)
  /\ SpecLimit \in [Operations -> RL!Declared] /\ Answers \subseteq RL!Header
  /\ None \notin Groups \cup RL!Declared \cup RL!Observation \cup RL!BucketType
ASSUME CacheAssumption ==
  /\ CacheHeaders \subseteq [tagged : BOOLEAN, lifetime : RC!OptionOf(Nat),
                             dated : BOOLEAN, budgeted : BOOLEAN]
  /\ Skew \in Int /\ MAX_FRESHNESS \in Nat \ {0}
  /\ None \notin RC!Content \cup RC!Entry \cup RC!ReplyType \cup RC!AnswerType

PipelineInit == Init /\ RL!Init /\ RC!Init /\ body = [c \in Callers |-> None]

\* (A token provider that fails ends the call in pre, before any of this.)
Lookup(c) ==
  /\ now <= CallBy /\ Cardinality({d \in Callers : stage[d] # "idle"}) < MaxCalls
  /\ RC!Hit(c) \/ RC!Miss(c)
  /\ UNCHANGED <<gate, rate, body>>

Gate(c) ==
  /\ Pass(c) \/ Sleep(c) \/ Wake(c)
  /\ UNCHANGED <<rate, cache, body>>

Acquire(c) ==
  \/ RL!Proceed(c) /\ RC!Send(c) /\ UNCHANGED <<gate, body>>
  \/ RL!Reserve(c) /\ RC!Send(c) /\ UNCHANGED <<gate, body>>
  \/ RL!Sleep(c) /\ UNCHANGED <<gate, cache, body>>

\* Mutant of Limits: "waiting on it while holding rate-limit tokens would
\* starve other requests to the same group".
LimitsSwapped(c) ==
  /\ stage[c] = "gated"
  /\ \/ /\ RL!Proceed(c) \/ RL!Reserve(c) \/ RL!Sleep(c)
        /\ UNCHANGED <<gate, cache, body>>
     \/ status[c] = "sent" /\ Gate(c)
     \/ status[c] = "sent" /\ pc[c] = "through" /\ RC!Send(c)
          /\ UNCHANGED <<gate, rate, body>>

\* The error limit first, then the rate limit.
Limits(c) ==
  /\ stage[c] = "gated"
  /\ \/ status[c] = "idle" /\ Gate(c)
     \/ pc[c] = "through" /\ Acquire(c)

\* A response: both limiters record its headers.  A 429 is an error.
Respond(c) ==
  /\ RC!Reply(c)
  /\ \E h \in Answers :
       /\ h.rate_limited => reply'[c].status = 500
       /\ RL!Respond(c, h)
  /\ (\E report \in Reports : Record(c, report)) \/ Leave(c)
  /\ UNCHANGED body

\* No response: nothing is recorded, and exec returns the transport's error.
Fail(c) ==
  /\ RL!Fail(c) /\ RC!Abandon(c) /\ Leave(c)
  /\ UNCHANGED body

\* The reservation is dropped.
Release(c) == RL!Finish(c) /\ UNCHANGED <<gate, cache, body>>

Released(c) == status[c] = "done" /\ reply[c] # None

(***************************************************************************)
(* normalize_error: the body of an error is read (an await), and one that  *)
(* is not ESI's error JSON is replaced.                                    *)
(***************************************************************************)
IsEsiErrorBody(b) == b.json /\ b.error = "string"

NormalizeErrorBody(b) ==
  IF IsEsiErrorBody(b) THEN b ELSE [json |-> TRUE, error |-> "string"]

IsError(c) == reply[c].status = 500

Normalize(c) ==
  /\ Released(c) /\ IsError(c) /\ body[c] = None
  /\ \E b \in Bodies : body' = [body EXCEPT ![c] = NormalizeErrorBody(b)]
  /\ UNCHANGED <<now, gate, rate, cache>>

\* Mutant of Normalized: exec returns what it does not cache before it normalizes.
NormalizedIfCached(c) == IsError(c) /\ RequestOf[c].cached => body[c] # None

Normalized(c) == IsError(c) => body[c] # None

\* exec, from the normalized response on.
Answer(c) ==
  /\ Released(c) /\ Normalized(c)
  /\ RC!Revalidated(c) \/ RC!PassThrough(c) \/ RC!Uncached(c) \/ RC!ReadBody(c) \/ RC!Store(c)
  /\ UNCHANGED <<gate, rate, body>>

\* The future is dropped, at any await; what the call waits for in the
\* limiters forgets it, and its reservation is returned.
Abandon(c) ==
  /\ RC!Abandon(c)
  /\ \/ stage[c] = "gated" /\ pc[c] = "idle" /\ UNCHANGED <<gate, rate>>
     \/ pc[c] = "sleeping" /\ Leave(c) /\ UNCHANGED rate
     \/ RL!Cancel(c) /\ Leave(c)
     \/ Released(c) /\ body[c] = None /\ UNCHANGED <<gate, rate>>
  /\ UNCHANGED body

Clock == Tick /\ RL!Tick /\ RC!Tick /\ UNCHANGED body

Change ==
  /\ \E resource \in RC!Resources : RC!Change(resource)
  /\ UNCHANGED <<gate, rate, body>>

Advance(c) ==
  \/ Limits(c) \/ Respond(c) \/ Fail(c) \/ Release(c)
  \/ Normalize(c) \/ Answer(c)

PipelineNext ==
  \/ Clock \/ Change
  \/ \E c \in Callers : Lookup(c) \/ Advance(c) \/ Abandon(c)

pipelineVars == <<now, gate, rate, cache, body>>

PipelineSpec == PipelineInit /\ [][PipelineNext]_pipelineVars

-----------------------------------------------------------------------------
(***************************************************************************)
(* "Error-limit first: waiting on it while holding rate-limit tokens would *)
(* starve other requests to the same group": tokens are reserved only      *)
(* while a request is out; a call that waits for either limit, or reads a  *)
(* body, holds none, and neither does one that is over, however it ended.  *)
(***************************************************************************)
ReservedOnlyWhileOut ==
  \A c \in Callers :
    reservation[c].group # None =>
      \/ stage[c] = "sent" /\ pc[c] = "through" /\ now <= deadline[c]
      \/ status[c] = "answered" /\ stage[c] # "reading"

(***************************************************************************)
(* "One ESI budget ... however many characters" (with_token_provider): a   *)
(* 429 that any call got holds back the calls of every client derived from *)
(* the same one, until its Retry-After has passed.                         *)
(***************************************************************************)
RetryAfterOf(url) ==
  {retryAt[g] : g \in {h \in Groups : h[2] = RateLimitOf[url].group}}

BackoffShared ==
  [][\A c \in Callers :
       RC!Send(c) => \A t \in RetryAfterOf(Urls[c]) : t <= now]_pipelineVars

(***************************************************************************)
(* Derived clients share the error limit as well (EsiInner::with_auth      *)
(* "shares this one's error and rate limiters"): while errors that calls   *)
(* of some of them got have left the budget low, no call of any of them    *)
(* that comes to the error limiter is let past it.                         *)
(***************************************************************************)
RunsLow(l) ==
  /\ window[l] # None
  /\ window[l].remain <= Threshold /\ window[l].reset_at >= now

ErrorLimitShared ==
  [][\A c \in Callers :
       pc[c] = "idle" /\ pc'[c] = "through" => \A l \in Limiters : ~ RunsLow(l)]_pipelineVars

(***************************************************************************)
(* Every error is reported, whichever way exec returns it: as an error of  *)
(* this very exchange in the shape of ESI's error type, never hidden       *)
(* behind a copy that the call holds for revalidation, and without a trace *)
(* in the cache.                                                           *)
(***************************************************************************)
ErrorsReported ==
  [][\A c \in Callers :
       reply[c] # None /\ IsError(c) /\ answer'[c] # answer[c] =>
         /\ answer'[c].from = "esi" /\ answer'[c].content = None
         /\ body[c] # None /\ body[c].json /\ body[c].error = "string"
         /\ entries' = entries]_pipelineVars
=============================================================================
