# A formal model of eve-esi-client

eve-esi-client is an asynchronous Rust client for ESI, the HTTP API of EVE
Online. The calls themselves are generated from an OpenAPI document. What a
team has to get right by hand is everything around them: two rate limiters, a
response cache, single sign-on tokens shared by many tasks, and a key cache
that verifies those tokens. All of it is state shared by concurrent futures
which may be dropped at any `await`. Around that crate stands a second system:
CCP publishes new documents, a workflow compares and proposes them, code is
generated from them, and every merge is released. This directory models both in
TLA+, checks them with TLC on small instances, and proves theorems about the
limiters, the cache, their composition, the authenticator, the verifier and the
releases with TLAPS for every instance.

Paths are those of the repository under `src/`; the crate itself is
`src/src/`.

- [The system](#the-system): the inventory of components, their state, how
  they interact, and what makes them hard
- [Modules](#modules): which module models what, and how
- [Runs](#runs): what TLC checks, the bounds, the fairness
- [Proofs](#proofs): what TLAPS proves, from what, and how
- [Divergences](#divergences): where the code does not do what its docs say
- [What is not modelled](#what-is-not-modelled)
- [Plan](#plan)

## The system

### How a call runs

`hooks.rs` is the heart. Every generated method runs two hooks on the client:

1. `pre` puts default headers on the request and, on an authenticated client,
   the access token of the `Authenticator`, which may have to refresh it.
2. `exec` looks a GET up in the cache: a fresh entry answers it, a stale one
   lends its ETag to the request. It then waits for the error limiter, then
   for a reservation from the rate limiter, and sends. The response is
   recorded in both limiters, then the reservation is dropped. A 304
   resurrects the stale entry; a cacheable 200 is read and stored.

A client's clones share limiters, cache and authenticator through `Arc`s. All
components are therefore reached by all calls at once. There are no messages
between components, only calls: each is a critical section under a
`std::sync::Mutex` (limiters, memory cache) or an await under a fair
`tokio::sync::Mutex` (authenticator, key cache).

### How a release comes about

Twice a day `spec-check.yml` runs `xtask fetch-spec`, builds and tests the crate
with what it got, has `xtask spec-diff` classify the difference from the
committed spec, and opens a pull request whose bump marker says whether it
breaks. `build.rs` generates the client from the committed spec: it makes the
rate-limit table, and rewrites responses and unions into what progenitor and
typify understand. Every push to main that touches the library queues a run of
`publish-on-merge.yml`, one at a time: it reads the markers of its push, computes
a version from crates.io, publishes, and commits the version back. Cargo
delivers a patch to every program downstream.

### Components

| Component | Code | State | Operations | What makes it correct |
| --- | --- | --- | --- | --- |
| Rate limiter | `rate_limit.rs` | a token bucket per group (budget, last observation, queue of spends, tokens in flight, hold); groups learned from headers | `acquire` (a loop of polls with sleeps), `record`, drop of a `Reservation`, `budgets` | no token is leaked or returned twice; a 429's hold is kept; a balance never credits what ESI has not released; nobody is let in against the balance; nobody waits for ever; the client's own traffic never earns a 429 |
| Error limiter | `limiter.rs` | the error window last reported | `acquire` (one sleep), `record`, `budget` | whoever is held waits for the window's reset; a running window is never discarded |
| Request pipeline | `hooks.rs`, `error.rs` | per call: where it is, its stale copy, its reservation | `pre`, `exec`, `normalize_error` | nothing is reserved while a call waits; every error reaches the caller as one |
| Response cache | `cache.rs` | `MemoryCache`'s map from (URL, subject) to entry | `key_for`, `get`, `put`, `remove`, `revalidate`, `condition`, `from_parts` | nobody gets another's answer; staleness is bounded; a 304 resurrects the right body; budget headers are never replayed; fresh entries survive eviction |
| Authenticator | `auth.rs`, `auth/provider.rs` | the token set, behind a fair mutex held across the refresh and the listener | `access_token`, `refresh_failed`, `tokens` | one refresh for many callers; returned tokens are valid; rotation is followed; stored tokens never go back |
| JWT verifier | `auth/verify.rs`, `auth/claims.rs` | the key set and when it was fetched, behind a mutex held across the fetch | `verify`, `key` | only genuine tokens are accepted; the keys are always a set that CCP published; rotation is picked up; every call ends |
| SSO client and authorization flow | `auth.rs` | none of its own | `authorize`, `exchange`, `refresh`, the classification of errors | a code becomes a token set; an error tells a revoked token from a passing failure |
| Client and builder | `lib.rs` | the `Arc`s that clients share | `build`, `with_token_provider`, `with_access_token`, `without_auth`, `without_cache` | derived clients share both limiters and never each other's answers |
| Code generation | `build.rs`, `build_support/` | none (build time) | `rate_limit_table`, `normalize_responses`, `require_union_discriminants`, `strip_compatibility_date_param` | the generated client means what the document says |
| xtask | `xtask/` | none | `fetch_spec`, `spec_diff` | the newest spec is fetched at any hour; what breaks is reported as breaking |
| Release workflows | `.github/workflows/` | main, the open pull request, the runs, crates.io | `spec-check`, `publish-on-merge` | a compatible release breaks nobody; versions increase; no merge is forgotten |

### What is hard here

`PROJECT.json` lists the hazards line by line. In short:

- *Between two polls* of a waiting call anything may happen to the bucket: it
  is reserved by others, re-sized by headers, held by a 429, re-learned.
- *A future may be dropped* while it waits, after ESI has charged for its
  call, while a refresh that rotates the refresh token is under way, or
  between the adoption of new tokens and their storing.
- *Responses are recorded in the order tasks run*, not in the order ESI
  answered, and later than ESI answered.
- *Values are looked at before a wait and used after it*: freshness, the stale
  copy, the token on the request, the window that made a caller sleep.
- *Clocks differ*: Expires and Date are ESI's, freshness is local; a token's
  life is counted from its arrival.
- *A run reads main when it starts*, not when it was queued, and may fail, be
  replaced by a newer one while it waits, or be skipped: its markers go with it.
- *Boundaries*: buckets smaller than the worst-case cost, full caches, windows
  that end in this very tick.

## Modules

One module per component, MC modules that only give constants their values,
proofs in modules of their own.

| Module | Models | Extends |
| --- | --- | --- |
| `Bucket` | `struct Bucket` and its methods as pure operators on a record | |
| `RateLimiter` | `RateLimiter` and the calls that go through it, against *any* server | `Bucket` |
| `WindowedBudget` | the abstract promise: a token budget over a floating window, never overdrawn | `Bucket` |
| `RateLimitedEsi` | `RateLimiter` composed with the server its doc describes, and the network between | `RateLimiter`; `INSTANCE WindowedBudget` |
| `ErrorLimiter` | `ErrorLimiter` and the callers it gates, against any server; one limiter per group of clients that share it | |
| `ResponseCache` | `MemoryCache`, `CachedResponse` and `exec`'s cache path, with ESI's content changing | |
| `Client` | what a client is built with and what derived ones share, as operators | |
| `Pipeline` | `exec` with all its components, by calls of several derived clients | `ErrorLimiter`; `INSTANCE RateLimiter`, `ResponseCache`, `Client` |
| `Mutex` | tokio's fair mutex: who holds it and who is in line, as operators | |
| `SsoErrors` | `AuthError` and its classification, as operators | |
| `Authenticator` | the login (`SsoClient`), `Authenticator::access_token`, the listener, EVE SSO | `SsoErrors`, `Mutex` |
| `TokenClaims` | JWTs and their claims, as operators | |
| `JwtVerifier` | `verify`, its key cache, CCP's key sets | `TokenClaims`, `Mutex` |
| `SpecDiff` | `spec_diff` as pure operators on documents | |
| `Codegen` | what `build.rs` makes of a document, as pure operators, and how the generated client decodes | |
| `Program` | what a program relies on in the client generated from a document, when another document breaks it, and which changes `spec_diff` does not call breaking | `SpecDiff`, `Codegen` |
| `SpecRelease` | CCP, `fetch_spec`, `spec-check`, people who merge, `publish-on-merge`, crates.io | `Program` |
| `RateLimiter_proofs`, `RateLimitedEsi_proofs`, `ResponseCache_proofs`, `Authenticator_proofs`, `JwtVerifier_proofs`, `SpecRelease_proofs` | theorems | the modules of that name |
| `Pipeline_proofs` | theorems about the error limiter and about the composition, and how the others' carry over to it | `Pipeline`; `INSTANCE RateLimiter_proofs`, `ResponseCache_proofs` |
| `Mutex_proofs` | lemmas about the queue, for the two modules that share it | `Mutex` |
| `MC*` | instances for TLC | the modules of that name |

Definitions named `…` with a comment *Mutant of X* are wrong versions of X, as
a plausible mistake would have it: replacing X by one of them has to break the
property it is listed with in `PROJECT.json`. They take no part in any
specification.

### Rate limiter

A bucket is a record with the fields of the struct; `Settle`, `Available`,
`ReservationCost`, `ReadyAt`, `Recorded` are its methods. `settle`'s loop over
the queue is the set `Popped` of positions up to the first spend not yet a
window old. A sum of tokens is the cardinality of a set of single tokens, so
that the library's theorems about finite sets apply to it.

A call goes `idle → waiting → sent → answered → done`. One poll of `acquire`,
from taking the mutex to releasing it, is one of three actions: `Proceed` (no
group or no budget known), `Reserve`, `Sleep`. `Respond` is `record` with any
headers of the constant `Headers`, including the learning of a group before it
is known whether the group has a budget. `Fail` is a transport error.
`Finish` and `Cancel` drop the reservation, at the end or wherever the future
is dropped. `Budgets` is the public query, which settles as it reads. Sleeps
may end late: nothing forces a woken task to run. `retryAt` is the only
history variable.

`RateLimitedEsi` replaces "any headers" by ESI: a ledger of spends over a
window per group, a charge per response, `X-Ratelimit-Remaining` as the ledger
has it, 429 from an empty bucket. Three constants describe the network
(`Ordered`, `MaxLatency`, `Lossy`), one the other process (`OtherCosts`). The
abstract specification `WindowedBudget` says what the doc promises without any
of the mechanism: responses are always paid for in full from what the bucket
holds. The refinement mapping is `clock <- now`, `ledger <- ledger`.

### Error limiter

`Pass` and `Sleep` are `acquire` up to its await; `Wake` is what follows it:
an expired window is cleared and the caller goes on, without a second look.
`Record` is `record` with both headers, `Leave` an answer without them, a
failure or a dropped future. `held` remembers the window that made a caller
sleep. Each caller goes through the limiter that its client has (`LimiterOf`); a
limiter has a window of its own.

### Response cache

A content is a resource (path, owner, language) and a version, and stands for
its own ETag. An entry is `[content, tag, expires_at, budget]`, where `budget`
names the call whose answer the budget headers came with, so that one can say
whose headers a caller sees. `Hit` and `Miss` are the lookup; `Send`; `Reply`
is ESI's answer of any sort; `Revalidated`, `PassThrough`, `Uncached`,
`ReadBody` and `Store` are the branches of `exec` after it; `Abandon` is a
failure or a dropped future. Here the waits for the two limiters are the time a
call may spend `gated`; `Pipeline` puts the limiters in its place. The
ESI clock is `Skew` away from the local one.

### Pipeline

A step of the pipeline is a step of every component that the code calls in it
without an await between: `Acquire` is the rate limiter's poll and, if it lets
the call through, the sending; `Respond` is ESI's answer, recorded in both
limiters at once; `Release` is the reservation's drop. Then `Normalize` reads and
replaces the body of an error (`normalize_error` awaits it), and `Answer` is the
rest of `exec`, with the branches of the cache. `Abandon` drops the future
wherever it is, and says what each component forgets of it. The clock is the three
modules' common one, and moves only if none of them forbids it. Each call is made
by a client of its own, derived as `InnerOf` has it; a limiter is an identity, and
the windows of two error limiters and the groups of two rate limiters are different
ones, so that a client with a limiter of its own would show.

### Authenticator

`Authorize` and `Exchange` are the login, with or without PKCE, and `Admit` is
SSO's answer to it. An answer to a login or to a refresh is tokens, a rejected
grant, or one of `Failures`: no answer, one that does not parse or has no body,
or the client rejected. The first two may hide that SSO issued tokens.

`queue` is tokio's fair mutex: its holder and those in line. `Reuse`,
`GiveUp`, `Refresh`, `Adopt`, `Notify`, `Fall`, `NotifyFailed` are the steps of
`access_token` between awaits, those of the listener included; `Cancel` drops the future at each of them and
lets its request still reach SSO (`Orphan`). SSO issues token sets numbered in
order, may rotate the refresh token, and may act on a request whose answer is
lost. The listener stores every token set it is told of and follows the advice
of `AuthError::is_revoked`.

### JWT verifier

A token is a header, a payload and the kid of the key that signed it. `Refuse`
is a token whose header is of no use; `Verify` takes its place in the fair
mutex; `Known`, `Unknown`, `Fetch` are the three ways through the critical
section, `Fetched` and `Fail` its end after a fetch, `Cancel` its end without.
`Checked` is everything that `verify` checks after it has the key, in its order,
at the moment it returns. `editions` are the key sets that CCP has published, so
that one can say which of them the verifier holds. CCP publishes and retires
keys at any time; a key may be of another type, or malformed. Keys given up
front (`from_jwks`) are the other initial state.

### Specs and releases

`SpecDiff` is `spec_diff` operator by operator: a document is routes with
operations and schemas with fields, a report is a set of changes. `Codegen` is the
rate-limit table, the two normalizations and the parameter that is stripped,
beside how the generated code decodes a status and a union.

`Program` stands beside both: it says what there is in the client generated from
a document for a program to rely on, namely which calls it may make (the name of
the method, the arguments given, each with its type, and the body), what
each status of an answer is decoded as, which types there are and the branches of
those that are unions, which fields it may read (their type, what they refer to or
hold, whether they are an `Option`), and which values it may build. A document
`Breaks` programs built on another if any of that is no longer there. `Omits` and
`LeavesToReview` name what `spec_diff` does not call breaking though it may be:
an operation has another name, a parameter another type, a parameter turns
required or is required behind a `$ref`, a field gained masks the rest of a
schema (not reported); a body, a response, the inside of a field, a union, or
what a schema requires is another (for review, which `spec-check` marks as a
patch). Values are taken to be built by progenitor's and typify's builders: that a
struct literal or an exhaustive pattern breaks with any new field is not counted.

In `SpecRelease`, `Publish` is CCP, whose calendar is UTC-11. A run of
`spec-check` is `CheckOut`, `Fetch`, then `OpenPr` (the build passed, the two
documents were compared) or `EndCheck`; runs overlap, and main and the pull
request move on meanwhile. A pull request whose spec another one has overtaken is
in conflict, as both change the date in the document. `Push` queues a
run with GitHub's rule for a concurrency group (one is on, one waits, a newer one
takes the place of that). `Start`, `Compute`, `Release`, `PushBump`, `Skip` and
`Fail` are the steps of `publish-on-merge`, between which anybody may push.
`settled` and `lost` are history: the commits whose run is over, and those whose
run ended without a release.

## Runs

Twelve configurations, one per question: ten that hold, two that do not.
Figures are distinct states.

| Run | Question | Bounds | Result |
| --- | --- | --- | --- |
| `MCRateLimiter` | Is the bookkeeping exact, and is nobody let in against it, on every interleaving with any server? | 3 calls, 2 operations (one without a group in the spec), 2 groups, 8 kinds of headers, 5 ticks, windows of 2 and 3 | holds, 156,900 |
| `MCRateLimitedEsi` | Does the client never earn a 429, and implement `WindowedBudget`, when responses are recorded in order and at once? | 4 calls of costs 0, 1, 2, 5; a bucket of 11 over 2 ticks, 5 ticks | holds, 180,314 |
| `MCReordered` | The same when two responses may be recorded in the other order | 3 calls, a bucket of 10 | **violated**, see Divergences |
| `MCSharedBucket` | Does every call end, with a bucket below the worst-case cost, which headers shrink below what the spec declares while calls wait, another process on it, and a network that reorders, delays and loses? | 3 calls, a bucket of 4 declared as 6 over 3 ticks, 12 ticks | holds, 45,644 |
| `MCErrorLimiter` | Is no running window discarded, whichever one a waking caller slept for? | 3 callers that repeat, 9 reports, 6 ticks | holds, 79,332 |
| `MCResponseCache` | Are hits recent, do 304s resurrect the right body, are budgets never replayed? | 3 calls on one key, 3 kinds of headers, one change of content, clocks 2 ticks apart, a cap of 3, 4 ticks | holds, 475,587 |
| `MCPrincipals` | Does nobody get another's answer, does a put cost no other key a fresh entry, is every entry of use? | 4 calls of a character, of nobody and with a token without a subject, a cache of one entry, answers without Date, 2 ticks | holds, 853,840 |
| `MCOwnValidator` | Do 304s resurrect the right body when a caller names its own ETag? | 3 calls on one key | **violated** |
| `MCPipeline` | Is nothing reserved while a call waits, do derived clients share both limits, is every error reported as such? | any 2 calls of 4 clients (built, with another token, without one, without the cache), a budget of 6 against a worst case of 5, 2 kinds of answers for each component, a clock one tick off, 3 ticks | holds, 722,969 |
| `MCAuthenticator` | Does every caller return, with a valid token, is rotation followed, does the listener never go back or drop an accepted token? | a login by either flow, 2 callers that repeat, dropped at any await, 3 kinds of failures, rotation or none, 3 token sets, 4 ticks | holds, 510,797 |
| `MCJwtVerifier` | Are only genuine tokens accepted, is the key set always one of CCP's, is a published key found, does every call end? | 2 callers that repeat, 6 tokens, 4 keys (one EC, one malformed), 3 key sets, an interval of 2, 4 ticks | holds, 510,588 |
| `MCSpecRelease` | Is no fetch rejected, is what breaks a program reported, does a compatible release hide no break, do versions increase, is every merge run for, does the client mean what the document says? | 3 documents, 2 published, a check at a time, 4 commits, one version by hand, one dispatch, the two hours in which the three calendars part | holds, 663,156 |

### Why the bounds are enough

*Time* is counted in ticks of the shortest delay that matters: `MAX_POLL`
(rate limiter), the half second of padding (error limiter), half the refresh
margin (authenticator), an hour (releases). Every clock runs for longer than a window, a lifetime
or an interval plus a transfer, so that each of them begins, elapses and
begins again. `MCRateLimiter`'s figures are scaled: budgets of 3, 6 and 7
tokens against a worst case of 5 admit one call and nearly two, so the third
call of the run always meets a bucket that is short, one it must share, or one
that was re-sized below the worst case. In `MCRateLimitedEsi` a bucket of 11
holds two worst cases and one token more; four calls are needed for two to
spend, one to observe and one to be misled, and the 5 ticks let the first
spends return.

*Actors*: an interleaving hazard here takes one call that waits, one that
changes what it waits for, and one whose change makes the difference; three
calls in the limiters, two callers and a lost request in the authenticator. In
`MCPipeline` two calls are enough, as what the properties relate is one call's
stages, or a 429 and the call it holds; what three of them do to one component
is the component's own run. The calls of `RateLimiter`, `ResponseCache` and `Pipeline` do not repeat, those
of the other modules do.

*Releases*: four commits are a first one, a merge, one that overtakes it, and the
bump or the merge after that; a run that is on, one that waits and one that takes
its place need no more. One check at a time suffices for a pull request that
main has left behind, as main moves on under a check; the theorems have any number.
The documents are a base; one with an operation and a field more and a parameter
of another name, which is a break both ways; and one that needs review: a field
of another format, one that is an `Option` now, a union that cannot be told apart.
What the report omits (`Turned` in `MCSpecRelease`) would make the run too long, and
is the subject of a divergence below. The clock begins in an hour in which UTC has a new day and
UTC-11 has not, and passes the one in which UTC-11 has and UTC-12 has not; the
fetch is the same at every other hour.

*Tokens* of `MCJwtVerifier`: none has a signature by another key than it names, or
another issuer. Each more would double the run; `AcceptedOnlyGenuine` has them all.
*Headers* of `MCResponseCache` all have a Date; those of `MCPrincipals` have none.

*Widths*: `parse_window_size` and the table are checked at widths that are scaled
down (`MaxU64` is three hours in seconds, so that a window of four is too long,
and ESI's 15 minutes fit), and proved at any. All numbers are naturals. Token figures are `u32` in the code, with
saturating subtraction (modelled) and plain addition (which would need
budgets near 2^32 to matter).

*Symmetry* is used over calls that are interchangeable in safety runs only,
never with liveness.

`CHECK_DEADLOCK FALSE` is set everywhere because the clock is bounded: when it
stops and all calls are done, nothing is left to do. That nothing waits for
ever is what the liveness runs say.

### Fairness

- `EsiTimelySpec` (`EveryCallEnds`): a timer that is over, an expired timeout
  and the end of `exec` are acted on before the clock moves on, and one of the
  clock, the server and the tasks that can run always does something: weak
  fairness of their disjunction, `EsiProgress`. This is what tokio gives a
  runtime that is not overloaded; without it a starved task could be late for
  ever. ESI need not answer: reqwest's 30 s timeout (`Lose`) ends a call
  that it does not answer. No fairness makes anyone start or cancel a call, or
  the other process spend.
- `FairSpec` (`EveryCallerReturns`): weak fairness of "some caller that can
  advance does, or its refresh is answered or fails". The mutex is fair
  (`queue` is first come, first served; tokio documents it), and the HTTP
  client's timeout ends each refresh (`Serve`, with a failure). Weak fairness of the
  disjunction is enough, as only the holder of the lock has anything to do.
  `JwtVerifier` has the same (`EveryVerifyReturns`), with reqwest's timeout on
  the fetch (`Fail`, `Tick`).
- `FairSpec` of `SpecRelease` (`EveryMergeRuns`): weak fairness of `Advance`,
  the steps of the runs: GitHub runs what it has queued. Nobody has to merge,
  dispatch or publish.

## Proofs

TLAPS proves the following for any sets of calls, callers, operations, groups,
keys, tokens and documents (finite where the code's are), any budgets, windows,
lifetimes and intervals, any headers, any number of merges, runs and releases,
and any bounds. The constants' assumptions are the
named ASSUMEs of the modules: naturals, a window and `MAX_POLL` that are not zero
(that a window is not zero is `parse_window_size`'s doing, `build_support/`),
`None` outside the sets it is added to, a clock of CCP that is past the first
noon. A theorem that needs more says so in its
statement; the last column gives the reason.

| Theorem | States | Provided that |
| --- | --- | --- |
| **`RateLimiter_proofs`** | | |
| `TypeCorrect` | `TypeOK` | |
| `HoldIsKept` | `HoldKept`: while the latest Retry-After of a group lies ahead, its bucket is blocked at least until then | |
| `HoldIsRespected` | no call is admitted into a group before that instant | |
| `TokensConserved` | `InFlightConserved`: `in_flight` is the sum of the reservations held | |
| `SettlingCoalesces` | `SettleCoalesces`: a bucket may be settled as often as one likes | |
| `ReadyIsNeverLate` | `ReadyNeverLate`: what `acquire` sleeps for is not later than the instant at which the balance suffices | |
| **`RateLimitedEsi_proofs`** | | |
| `OwnTrafficNeverLimits` | `NeverRateLimited`: ESI never answers 429 | `OneClient` |
| `BeliefIsCovered` | `BeliefCovered`: what a new call may spend and what calls under way hold is covered by ESI's own ledger | `OneClient` |
| `ImplementsWindowedBudget` | the refinement of `WindowedBudget` | `OneClient` |
| **`Pipeline_proofs`**, of `ErrorLimiter` | | |
| `GateTypeCorrect` | `TypeOK` | |
| `HeldCallersWait` | `HeldUntilReset` | |
| `RunningWindowIsKept` | only a recorded response replaces a running window | |
| **`Pipeline_proofs`**, of `Pipeline` | | |
| `DrivesErrorLimiter`, `DrivesRateLimiter`, `DrivesCache` | the pipeline implements the specification of each of its components: `Spec`, `RL!Spec`, `RC!Spec` | |
| `WaitersHoldNothing` | `ReservedOnlyWhileOut`: tokens are reserved only while a request is out | |
| `ErrorsAreReported` | `ErrorsReported`: through every branch of `exec`, an error is returned as one, normalized, and leaves the cache alone | |
| `BackoffIsShared` | `BackoffShared`: a 429 holds back every derived client | `NamesDeclared` |
| `ErrorLimitIsShared` | `ErrorLimitShared`: a low error budget that one client was told of holds back every derived one | |
| `LimitsHoldInPipeline` | `InFlightConserved` and `HoldKept` of the pipeline's rate limiter | |
| `DerivedClientsKeptApart` | `AnswersOwnRequest` of calls by derived clients on a shared cache | `OneOwner` |
| `WaitsAgeNoAnswer` | `HitIsRecent`, `RevalidatedIsCurrent` and `BudgetIsOwn`, with real waits for the limiters, any clock skew and contents that change any number of times | |
| **`ResponseCache_proofs`** | | |
| `TypeCorrect` | `TypeOK` | |
| `AnsweredOwn` | `AnswersOwnRequest`: nobody gets another's answer, whichever call fetched it | `SubjectNamesOwner`, `OneLanguage` |
| `BudgetsAreOwn` | `BudgetIsOwn`: budget headers are those of the caller's own exchange | |
| `HitsAreRecent` | `HitIsRecent`: a hit is at most a lifetime and a transfer old | `NoOwnValidator` |
| `RevalidationsAreCurrent` | `RevalidatedIsCurrent`: a 304 stands for the body it confirms | `NoOwnValidator` |
| `FreshEntriesAreKept` | `FreshKept`: no call costs another key a fresh entry | |
| **`Authenticator_proofs`** | | |
| `TypeCorrect` | `TypeOK`, mutual exclusion among it | |
| `HeldIsAccepted` | `HeldTokenAccepted`: rotation is followed | |
| `StoringInOrder` | `StoredInOrder`: stored tokens never go back | |
| `DroppedOnlyRevoked` | a listener drops no refresh token that SSO accepts | `HonestSso` |
| `ReturnedIsValid` | the token returned is valid | `TIMEOUT <= REFRESH_MARGIN`, `TIMEOUT < LIFETIME` |
| **`JwtVerifier_proofs`** | | |
| `TypeCorrect` | `TypeOK`, mutual exclusion among it | |
| `KeysFollow` | `KeysFollowCCP`: the keys are always one set that CCP published, and never go back | |
| `AcceptedOnlyGenuine` | `AcceptedGenuine` | |
| `RotationIsPickedUp` | `RotationPickedUp`: a published key is found within an interval and a fetch | |
| **`SpecRelease_proofs`** | | |
| `BreaksAreReported` | `BreaksReported`: of any two documents, one that breaks programs built on the other is reported as breaking, or for review, but for what `Omits` names | `AllTyped` |
| `TypeCorrect` | `TypeOK`: one publish run at a time | |
| `FetchIsCurrent` | `FetchCurrent`: no fetch is rejected, and none is an hour behind | |
| `VersionsGoUp` | `VersionsIncrease` | |
| `CompatibleBreaksNothing` | `CompatibleReleases`: what `cargo update` picks up hides no break that was marked or reported, except what a run without a release left | `PreOne`, `AllTyped` |
| `MeaningIsKept` | `MeaningKept`, for any document and any width of the integers | `LimitsTyped` |
| `UnionsAreDiscriminated` | `UnionsDiscriminated`, for unions of any size | `UnionsShaped` |

### What the hypotheses say

- **`OneClient`** is what the doc of `rate_limit.rs` takes for granted, spelled
  out: responses are recorded in ESI's order, at once, and none is lost
  (`Ordered`, `MaxLatency = 0`, `~Lossy`); no other process spends
  (`OtherCosts = {}`); and the spec's table agrees with ESI (`SpecAgrees`): every
  operation's group and limit are in it, and a bucket holds the worst case. The
  committed `spec/esi-latest.json` has 171 operations with `x-rate-limit` in 46
  groups, one limit per group, the smallest of 15 tokens against a worst case of
  5. None can be left out: `MCReordered` refutes the theorem without `Ordered`,
  the Divergences say what happens without the others.
- **`SubjectNamesOwner`** and **`OneLanguage`** are what `key_for` relies on: a
  token's `sub` names one character, and the calls of a key ask in one language,
  which the key does not hold (see Divergences).
- **`NamesDeclared`**: `X-Ratelimit-Group` is absent or the group that the spec
  declares for the operation. A call that learns another group shares that one's
  back-off instead, with other clients too. `Pipeline` itself has a limit for
  every url.
- **`OneOwner`** is `SubjectNamesOwner` of the clients' tokens. (The pipeline's
  calls name no language and no validator, so that the other two hypotheses about
  the cache are proved of it.)
- **`NoOwnValidator`**: no call brings an `If-None-Match` of its own;
  `MCOwnValidator` is the counterexample otherwise.
- **`HonestSso`**: SSO reports only those grants as invalid that it does not
  accept. A listener cannot know better.
- **`TIMEOUT <= REFRESH_MARGIN`** and **`TIMEOUT < LIFETIME`**: 30 seconds
  (`lib.rs:113`) against 60 (`auth.rs:593`) and EVE's 20 minutes. A token's life
  is counted from the arrival of the answer, which may be under way for
  `TIMEOUT`, and the margin is what makes up for it. An HTTP client that the
  application brings may have no timeout, and then nothing bounds it.
- **`PreOne`**: the crate stays below 1.0: nobody marks or dispatches a
  "major", nor declares a version of 1.0 or later. "Pre-1.0, the minor is the
  breaking slot" (`publish-on-merge.yml:93`) is what both workflows are written
  for. After 1.0 the theorem is false: `spec-check` goes on marking breaking
  specs `[bump:minor]`, which cargo then takes for compatible. With
  `Dispatches = {"patch", "major"}` TLC shows it.
- **`Typed`** (of every document, `AllTyped`): the `required` and `ref` of a
  parameter are Booleans.
- **`LimitsTyped`** (of every document): a declared limit has the types JSON gives
  it, each part present or not, and operations have ids of their own in snake case.
  The committed `spec/esi-latest.json` is so. Nothing is assumed of the window's
  unit or length, nor of the widths.
- **`UnionsShaped`**: a branch is a `$ref` or has properties, finitely many,
  among them all it requires.

### The arguments

In the order of the files. Every inductive invariant was checked by TLC on the
component's runs before it was proved.

*Rate limiter.*

- *Sums.* `TokensFinite` and `TokenSumType` say that a sum of tokens is a
  natural number, `TokenSumSame` and `TokenSumAdd` that it depends on its
  terms only and that a term more adds its value. `LeastNatural` gives the
  `CHOOSE` in `ReadyAt` something to choose.
- *Types* go operator by operator (`LiftForgetType`, `CreditedType`,
  `ReleaseType`, `ReadyAtType`, `RecordedType`, …), then action by action.
  This is not only a formality: `ReadyAtType` needs that the position chosen
  exists, and `TypeGiveBack` that a balance is never negative.
- *Holds.* `HoldKept` is inductive together with `TypeOK`. The key lemma is
  `HoldSurvivesSettle`: settling at `now` lifts a hold only if its instant has
  come. `HoldIsRespected` follows because only `Reserve` admits
  (`OnlyReserveAdmits`), and `ReadyAt` of a blocked bucket is the hold's end.
- *Order.* `BookkeepingOrdered`, a supporting invariant, is about the client's own
  instants: spends are queued in order, and none is later than the observation
  kept. It does not say that what is credited was deducted by ESI, which is
  `BeliefCovered` and takes the conditions given there. It is inductive with
  `TypeOK`: settling keeps the order (`ReleaseOrdered` shifts positions), and
  `record` appends at `now` and observes at `now`.
- *Conservation.* `InFlightConserved` has a second conjunct that the first
  needs to be inductive: a call that is idle, waiting or done holds no
  reservation. Only then is the reservation `Reserve` makes a new term of the
  sum, and `GiveBack` removes one that is in it. A consequence is that the
  `saturating_sub` of `Reservation::drop` never saturates.

*Rate limiter against ESI.* `EsiInv` says that the client's queue *is* ESI's
ledger: the queue's spends and those of the answers under way are, one by one and
with the same instants, the spends of the ledger that a window has not released.
From it, what the bucket believes to be available (`Available`, an observation
less what was spent since and what is reserved) never exceeds what the ledger
has left less what the calls under way may still cost. A response is paid for by the
reservation made for it (`MAX_REQUEST_COST` is the worst case), so ESI is never
asked for more than it has; a step of ESI that charges is a step of
`WindowedBudget`, and every other one is its clock or a stutter. The hard step is
the observation: an answer's `X-Ratelimit-Remaining` was true when ESI answered,
and `Ordered` is what makes it true of the queue when it is recorded.

*Pipeline.* Three lemmas, `GateSteps`, `RateSteps` and `CacheSteps`, go through the
actions: each is, for each component, an action of its module or leaves its
variables alone. So the composition makes the components do nothing that their own
modules do not have them do, and their theorems carry over: `Pipeline_proofs`
instantiates their proof modules over its variables (`RLP`, `RCP`), proves their
assumptions (`RateAssumed`, which needs `OneRateLimiter`: a derived client has
the builder's limiter; `CacheAssumed`), and cites them. `SameRateLimiter` and
`SameCache` are bookkeeping: a definition that arrives through the instance of a
proof module is the one that arrives through the component's.

`ReservedOnlyWhileOut` needs `Control`, which says for each state of a call in
the rate limiter where it is in the other two: one that is sent there is sent
in the cache, has passed the error limiter and is within its timeout; one that
is answered there is not reading a body; any other holds nothing. `ControlFrame`
says that a step of one call disturbs nobody else's, which leaves one call to look
at per action. `BackoffShared` follows from the rate limiter's own `HoldRespected`,
carried over, with two facts of the composition: only a poll that reserves sends
(`SendsReserve`), and the group in which a call reserves is always the declared one
of the one limiter (`Untouched`, `GroupStays`). `ErrorLimitIsShared` is the same
argument for the error limiter: there is one, whatever was derived, and only a poll
that finds it open lets an idle caller through. `ErrorsAreReported` follows an error
from `Reply` to each branch that returns: `BodyOK` says that a body that was read
is one of ESI's shape, `ReplyOK` that an error is never taken for a 304 or a body to
store, and `Answer` is enabled only once the error is normalized.

*Error limiter.* `HeldUntilReset` is strengthened by `Asleep`: a sleeper's timer
is its window's reset plus the padding.

*Response cache.* `CacheInv` says, of every entry, that its content was ESI's no
longer ago than its remaining freshness and its horizon allow (`EntriesGood`);
of every stale copy, that it is an entry that was there (`StaleState`); of every
call, what it may hold at its stage, and that its answer's content was ESI's since
it was sent (`CallState`); and of every answer, what the properties want of it
(`AnswerState`). `HeldTick` and `HeldChange` carry "was ESI's at some instant
between" over the clock and over ESI's changes; `RevalidateGood` is the 304;
`PutKeeps` is the eviction. `AnsweredOwn` has a lemma of its own, `KeysApart`:
`key_for` is injective on what it has to tell apart.

*Authenticator.* `AuthInv` says of the lock that who is within the critical
section heads the queue (`Mutex_proofs`); of the set held, that SSO issued it,
that its refresh token is the accepted one if it is the newest set, that its
`expires_at` is at most `TIMEOUT` late, and that nothing newer was stored
(`TokenState`); and of a login or a refresh under way, that its answer was issued
after the set that is held (`LoginState`, `RefreshState`). All of it is stable
when SSO moves on (`Grows`), which it may do at any step: a dropped caller's
request still reaches it. That is why the invariant speaks of what SSO *issued*
and not of what was asked for.

*JWT verifier.* `JwtInv` says that editions follow each other in time and that
no key comes back once retired; that the keys held, and any that are being
transferred, are those of one edition, no older than the last one a fetch
brought; and that this edition was the newest at some instant less than `TIMEOUT`
before the fetch ended (`KeyState`). `AcceptedOnlyGenuine` then follows from
`Checked`, and `RotationIsPickedUp` from the last part and the interval.

*Releases.* Three lemmas about operators, for any document, carry most of it.

- `CallsKept`, `AnswersKept` and `SchemasKept`: if no reported change is Breaking,
  and the change is of no kind that is omitted or left to review, every call, answer,
  type, field and value of the old document is one of the new, operation by operation
  and schema by schema. `RedefinitionShown` and `ReshapingShown` say that what is
  left to review is reported at least so. `VerdictBreaking` and `VerdictReview` say
  that the verdict is the worst change.
- `NormalizingKeeps`: whatever the responses, the two passes of
  `normalize_responses` leave what progenitor accepts and change no decoding
  that counts. `WindowRead` reads a window as declared at any width, `LimitsKnown` follows an
  operation through the table and its values back out of it, and
  `UnionDiscriminated` an object through the branches: of those made stricter,
  the first that accepts it is its own.
- `VersionGoesOn`: `sort -V` is the lexical order (`ExceedsLex`), a bump is above
  the version it starts from, and so is a version declared by hand that is not
  below the bump; where the bump is a minor one, neither is compatible.

`ReleaseInv` is the inductive invariant. That a flagged commit is in a compatible
release only if it is lost (`FlagsKept`) is not inductive: it also takes
`CoverState`, that every flagged commit which is neither released nor lost has
a run that will read its marker, and one *after* the commit a run has checked
out has a run that waits. This is why GitHub's replacing of the run that waits
is a loss, and why nothing else is. `JobGood` says what a run knows at its
stage, among it that no release has come in between (`Exceeds(j.next, ...)`), which
needs one run at a time; `CheckState`, that the marker of an open PR is the verdict on
the spec that its check had checked out, which is main's when it can be merged;
`MarkersTell`, with `BreaksReportedAs`, that a break which is not omitted or left
to review is flagged. `Queues`, `JobTakesStep` and `JobEnds` are the three ways in which the
list of runs changes, and every action that changes it is an instance of one.
`FetchIsCurrent` has an invariant of its own, `PublishedState`: what CCP has
published was dated by its calendar, an hour ahead of the one that is asked.

### Only model-checked

Every safety property that a passing run checks is the subject of a theorem. What
TLC alone checks is liveness (`EveryCallEnds`, `EveryCallerReturns`,
`EveryVerifyReturns`, `EveryMergeRuns`), which is out of the prover's reach. Three
safety properties are proved and not among the runs': `HeldUntilReset` of the error
limiter, its types, and the supporting `BookkeepingOrdered`.

## Divergences

Two runs end in a counterexample:

- **`MCReordered`** (`rate_limit.rs`): `record` keeps the
  `X-Ratelimit-Remaining` of the response recorded last. Recorded in the
  other order than ESI answered, it restores tokens that are spent, and a 429
  follows. The module doc says a client's own traffic never does that.
- **`MCOwnValidator`** (`hooks.rs`): with a stale entry and a caller's own
  `If-None-Match`, a 304 to the caller's validator resurrects the cached body,
  which ESI did not validate, and stores it as fresh under the new ETag.

The models show others when one of the following properties, each defined in
its module, takes the place of those of a run:

- `NeverRateLimited` (`MCRateLimitedEsi`) also fails with `MaxLatency = 1` and the
  bounds of `MCReordered`, but 4 calls, 6 ticks and `Ordered = TRUE` (a
  response recorded a tick after ESI answered is dated too late and credited
  with spends that ESI had already released) and with `Lossy = TRUE` (a call
  dropped after ESI charged for it returns its reservation and records no
  spend).
- `HeldWhileLow` (`MCErrorLimiter`; `limiter.rs:63`): a caller looks at the window once. When it
  wakes into a newer window that is low again, it goes through; the doc says
  `acquire` blocks while the budget is at or below the threshold. In the
  pipeline the same happens without a sleep: a call that passed the error
  limiter may wait in the rate limiter while the error budget runs low.
- `AnswersOwnRequest` (`MCPrincipals`) fails when two calls of one character
  name different languages: `key_for` ignores `Accept-Language`.
- `NeverRerequested` (`MCResponseCache`): a call that waited for the limiters is
  sent although another has stored a fresh entry meanwhile.
- `EntriesBounded` (`MCPrincipals`): a cache full of fresh entries takes another.
- `StoredBeforeUse` (`MCAuthenticator`): if a caller is dropped while the
  listener runs, the tokens it adopted stay in use and are never stored. The doc
  says the listener is notified after every refresh attempt.
- `SentTokenValid` (`MCAuthenticator`): the token is put on the request before
  the wait for the limiters.
- `NoRefreshTokenWhenExpired` (`MCAuthenticator`): without a refresh token
  `access_token` fails a refresh margin before the token expires.
- `UpdatesBreakNobody` (`MCSpecRelease`, with `Docs = {"base", "reviewed"}` or
  `{"base", "turned"}` and no failures): `spec-check` marks as a patch what
  `spec_diff` calls Review or leaves out, and the publish workflow releases it as
  one that cargo takes for compatible. "A breaking spec change -> minor bump"
  (`spec-check.yml:78`); a default release is "a compatible release that downstream
  `cargo update` picks up" (`publish-on-merge.yml:6-7`). The pull request does tell
  its reader that the classification is "a heuristic to guide the semver decision"
  (`spec-check.yml:101-103`), and the reader may change the marker. Concretely,
  nothing is said of an operation with another id (its method is renamed), of a
  parameter of another type, of one that turns required in place or is required
  behind a `$ref` (taken for optional), nor of what else changes in a schema that
  gains a field; and a changed body, response, union, required list, `$ref` or
  nested type is a matter of review.
- `RetriedCleanly` (`MCSpecRelease`): "A failed publish leaves main untouched;
  the next merge retries cleanly" (`publish-on-merge.yml`). A run whose publish
  failed leaves its commits, but the next run reads the markers of its own push
  only and releases the break as a patch. A waiting run that a newer one
  replaces loses its markers in the same way, and a `[bump:skip]` pushed while a
  run is queued skips that run as well.

What `CompatibleReleases` and `MeaningKept` except is in their text. In short, beside
the above: a level chosen by hand overrides markers; `normalize_responses` drops both
of two success codes neither of which is 200; branches of a union that share
properties are not told apart by those, and no warning says so.

## What is not modelled

- *Texts*: the wording of errors, reports, titles and URLs; the truncation of an
  error body; the table's rendering as Rust.
- *Claims and headers that are only copied*: a token's name, owner, scopes and
  dates; default headers; the rest of a header map beside the budget headers,
  ETag, Expires and Date. Parsing is abstracted to "present and usable, or not".
- *Progenitor and typify*: what the generated code does with a normalized document
  is modelled from how `build.rs` and its comments use it, and marked external.
- *GitHub*: its rules for a concurrency group are external. A pull request can be
  merged as long as main has the spec it was compared with; textual merges of two
  versions of the document are left out, as is `spec-check`'s issue about a spec that
  does not build.
- *Force pushes, and a first push without a predecessor*, for which
  `publish-on-merge` falls back to the head commit alone.
- *Custom caches* (`EsiCache`) and *custom token providers*.
- *A second login*: after an `invalid_grant` the application logs in again and
  makes a new `Authenticator`, which is the same behaviour from its start.
- *Panics* (overflow of the spends' sum, of `Instant + Duration`) and mutex
  poisoning: both need figures that ESI does not send.
- *Examples and tests*: not part of the program.

## Plan

Done, in this order, most important first: `Bucket` and `RateLimiter`, against
any server and then against ESI; `WindowedBudget` and the refinement; the
theorems of `RateLimiter`; `ErrorLimiter` and its theorems; `ResponseCache`;
`Authenticator`; `JwtVerifier` with the checks of tokens and claims; `SpecDiff`,
`Codegen` and `SpecRelease`; `Client` and `Pipeline`; the login.

Next, extending the model:

1. Learned groups: a property of `RateLimiter` on operations that move
   between groups, and what becomes of one moved to a group without a budget.
2. `ResponseCache`: a horizon of staleness per entry, so that answers with
   and without Date can meet in one run.
3. `Pipeline` with the token of `pre`, so that `SentTokenValid` is about the
   limiters' real waits.
4. An abstract specification of the token store (what a listener may ever
   hold) that `Authenticator` implements, and one of a registry (versions
   that increase, compatible ones that break nothing) that `SpecRelease` does.

Then, proving more:

1. The refinements of item 4, step by step.
2. `RateLimitedEsi` with responses that are recorded late but in order: by how
   much the client can overdraw then.
