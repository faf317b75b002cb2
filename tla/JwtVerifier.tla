---------------------------- MODULE JwtVerifier ----------------------------
(***************************************************************************)
(* JwtVerifier of src/src/auth/verify.rs: many calls of verify share the   *)
(* key set behind one fair mutex, fetch it when a token names a key it     *)
(* does not hold, and check the token with the key; CCP publishes and      *)
(* retires keys meanwhile, and a caller may drop its future at any await.  *)
(* A key is its kid, and CCP never uses one again for another key.         *)
(***************************************************************************)
EXTENDS TokenClaims, Mutex

CONSTANTS
  Callers,
  Tokens,            \* the tokens they may bring
  Kind,              \* what the JWK of a kid is: "RSA", "EC" or "malformed"
  First,             \* the keys published at the start
  ISSUERS,
  EVE_AUDIENCE,
  ClientId,
  LEEWAY,
  REFETCH_INTERVAL,
  TIMEOUT,           \* of the HTTP client
  Failures,          \* fetches may fail, or their callers be dropped
  MaxEditions,       \* bound: key sets CCP publishes
  MaxTime            \* bound: the clock stops here

\* What verify returns: the claims, a VerifyError, or nothing.
Outcomes ==
  {"ok", "malformed", "unsupported_algorithm", "unknown_key", "bad_signature",
   "wrong_issuer", "wrong_audience", "expired", "jwks", "dropped"}

Result == [caller : Callers, outcome : Outcomes]

ASSUME TokensAssumption ==
  /\ Tokens \subseteq Token
  /\ {EVE_AUDIENCE, ClientId} \subseteq Audiences /\ ISSUERS \subseteq Issuers
ASSUME KeysAssumption ==
  First \subseteq Kids /\ Kind \in [Kids -> {"RSA", "EC", "malformed"}]
ASSUME TimesAssumption ==
  LEEWAY \in Nat /\ REFETCH_INTERVAL \in Nat /\ TIMEOUT \in Nat /\ MaxTime \in Nat
ASSUME NoneAssumption ==
  None \notin Int /\ None \notin Outcomes /\ None \notin Result
ASSUME ChoicesAssumption == Failures \in BOOLEAN

VARIABLES
  now,         \* Instant::now(), and SystemTime::now()
  http,        \* JwtVerifier.http is there: the keys were not given up front
  keys,        \* KeyCache.keys
  fetched_at,  \* KeyCache.fetched_at
  queue,       \* the mutex: its holder, then those who wait for it, in order
  pc,          \* where each caller is
  token,       \* the token it brought
  timer,       \* when its fetch times out; else 0
  body,        \* the key set its fetch has got, by its place in editions
  result,      \* what verify has returned with this step, and to whom
  editions,    \* CCP: the key sets it has published: [keys, at]
  held         \* history: the edition that keys came from; 0, if none

vars == <<now, http, keys, fetched_at, queue, pc, token, timer, body, result,
          editions, held>>

cache == <<keys, fetched_at, held>>

\* Mutant of ParseJwks: keys of every type are taken.
ParseJwksAnyType(jwks) ==
  IF \E k \in jwks : Kind[k] = "malformed" THEN None ELSE jwks

\* parse_jwks: other types are skipped, a malformed RSA key fails them all.
ParseJwks(jwks) ==
  IF \E k \in jwks : Kind[k] = "malformed" THEN None
  ELSE {k \in jwks : Kind[k] = "RSA"}

\* with_http_client, or from_jwks with the keys that CCP publishes.
Init ==
  /\ now = 0
  /\ \/ http = TRUE /\ keys = {} /\ fetched_at = None /\ held = 0
     \/ /\ http = FALSE /\ ParseJwks(First) # None
        /\ keys = ParseJwks(First) /\ fetched_at = 0 /\ held = 1
  /\ queue = << >>
  /\ pc = [c \in Callers |-> "idle"]
  /\ token = [c \in Callers |-> None]
  /\ timer = [c \in Callers |-> 0]
  /\ body = [c \in Callers |-> None]
  /\ result = None
  /\ editions = <<[keys |-> First, at |-> 0]>>

(***************************************************************************)
(* What verify checks before it asks for the key, and after.               *)
(***************************************************************************)
Unreadable(t) ==
  IF t.header = None THEN "malformed"
  ELSE IF t.header.alg # "RS256" THEN "unsupported_algorithm"
  ELSE IF t.header.kid = None THEN "malformed"
  ELSE None

\* Mutant of Addressed: one of the two audiences is enough.
AddressedEither(audience) == {ClientId, EVE_AUDIENCE} \cap audience # {}

Addressed(audience) == {ClientId, EVE_AUDIENCE} \subseteq audience

Checked(t) ==
  LET claims == Claims(t)
      audience == {claims.audience[i] : i \in DOMAIN claims.audience}
  IN  IF t.signature = None THEN "malformed"
      ELSE IF t.signature # t.header.kid THEN "bad_signature"
      ELSE IF claims = None THEN "malformed"
      ELSE IF claims.issuer \notin ISSUERS THEN "wrong_issuer"
      ELSE IF ~Addressed(audience) THEN "wrong_audience"
      ELSE IF claims.expires_at = None THEN "malformed"
      ELSE IF claims.expires_at + LEEWAY > now THEN "ok"
      ELSE "expired"

Kid(c) == token[c].header.kid

Unlock(c) == queue' = Released(queue, c)

Return(c, outcome) ==
  /\ result' = [caller |-> c, outcome |-> outcome]
  /\ Unlock(c)
  /\ pc' = [pc EXCEPT ![c] = "idle"]
  /\ token' = [token EXCEPT ![c] = None]
  /\ timer' = [timer EXCEPT ![c] = 0]
  /\ body' = [body EXCEPT ![c] = None]

\* verify, of a token without a usable header.
Refuse(c, t) ==
  /\ pc[c] = "idle" /\ Unreadable(t) # None
  /\ result' = [caller |-> c, outcome |-> Unreadable(t)]
  /\ UNCHANGED <<now, http, cache, queue, pc, token, timer, body, editions>>

\* verify, up to the lock().await of key().
Verify(c, t) ==
  /\ pc[c] = "idle" /\ Unreadable(t) = None
  /\ queue' = Append(queue, c)
  /\ pc' = [pc EXCEPT ![c] = "queued"]
  /\ token' = [token EXCEPT ![c] = t]
  /\ result' = None
  /\ UNCHANGED <<now, http, cache, timer, body, editions>>

Locks(c) == pc[c] = "queued" /\ Head(queue) = c

Recently == fetched_at # None /\ now - fetched_at < REFETCH_INTERVAL

Known(c) ==
  /\ Locks(c) /\ Kid(c) \in keys
  /\ Return(c, Checked(token[c]))
  /\ UNCHANGED <<now, http, cache, editions>>

\* Mutant of Unknown: every rejection puts the next fetch off.
UnknownRenewing(c) ==
  /\ Locks(c) /\ Kid(c) \notin keys /\ (Recently \/ ~http)
  /\ fetched_at' = now
  /\ Return(c, "unknown_key")
  /\ UNCHANGED <<now, http, keys, held, editions>>

Unknown(c) ==
  /\ Locks(c) /\ Kid(c) \notin keys /\ (Recently \/ ~http)
  /\ Return(c, "unknown_key")
  /\ UNCHANGED <<now, http, cache, editions>>

Ask(c) ==
  /\ pc' = [pc EXCEPT ![c] = "fetching"]
  /\ timer' = [timer EXCEPT ![c] = now + TIMEOUT]
  /\ UNCHANGED <<now, http, cache, token, body, editions>>
  /\ result' = None

\* Mutant of Fetch: the lock is not held across the HTTP request.
FetchUnlocked(c) ==
  /\ Locks(c) /\ Kid(c) \notin keys /\ http /\ ~Recently
  /\ Ask(c)
  /\ Unlock(c)

Fetch(c) ==
  /\ Locks(c) /\ Kid(c) \notin keys /\ http /\ ~Recently
  /\ Ask(c)
  /\ UNCHANGED queue

Serve(c) ==
  /\ pc[c] = "fetching" /\ body[c] = None
  /\ body' = [body EXCEPT ![c] = Len(editions)]
  /\ UNCHANGED <<now, http, cache, queue, pc, token, timer, editions>>
  /\ result' = None

\* Mutant of Replaced: the keys fetched are added to those held.
ReplacedKeeping(parsed) == keys \cup parsed

Replaced(parsed) == parsed

\* Mutant of Fetched: the set is fetched again until it has the key.
FetchedInsisting(c) ==
  /\ pc[c] = "fetching" /\ body[c] # None
  /\ LET parsed == ParseJwks(editions[body[c]].keys)
     IN  IF parsed = None
         THEN Return(c, "jwks") /\ UNCHANGED cache
         ELSE /\ keys' = Replaced(parsed)
              /\ fetched_at' = now
              /\ held' = body[c]
              /\ IF Kid(c) \in parsed THEN Return(c, Checked(token[c]))
                 ELSE /\ body' = [body EXCEPT ![c] = None]
                      /\ result' = None /\ UNCHANGED <<queue, pc, token, timer>>
  /\ UNCHANGED <<now, http, editions>>

Fetched(c) ==
  /\ pc[c] = "fetching" /\ body[c] # None
  /\ LET parsed == ParseJwks(editions[body[c]].keys)
     IN  IF parsed = None
         THEN Return(c, "jwks") /\ UNCHANGED cache
         ELSE /\ keys' = Replaced(parsed)
              /\ fetched_at' = now
              /\ held' = body[c]
              /\ Return(c, IF Kid(c) \in parsed THEN Checked(token[c])
                           ELSE "unknown_key")
  /\ UNCHANGED <<now, http, editions>>

\* The fetch fails or times out.
Fail(c) ==
  /\ Failures
  /\ pc[c] = "fetching"
  /\ Return(c, "jwks")
  /\ UNCHANGED <<now, http, cache, editions>>

\* The future is dropped, and the guard with it.
Cancel(c) ==
  /\ Failures
  /\ pc[c] \in {"queued", "fetching"}
  /\ Return(c, "dropped")
  /\ UNCHANGED <<now, http, cache, editions>>

(***************************************************************************)
(* CCP publishes a key that it never did before, or retires one.           *)
(***************************************************************************)
Published == editions[Len(editions)].keys

Edit(set) ==
  /\ Len(editions) < MaxEditions
  /\ editions' = Append(editions, [keys |-> set, at |-> now])
  /\ UNCHANGED <<now, http, cache, queue, pc, token, timer, body>>
  /\ result' = None

Publish(k) ==
  /\ \A i \in DOMAIN editions : k \notin editions[i].keys
  /\ Edit(Published \cup {k})

Retire(k) == k \in Published /\ Edit(Published \ {k})

\* The HTTP client ends a fetch by its timeout.
Tick ==
  /\ now < MaxTime
  /\ \A c \in Callers : pc[c] = "fetching" => now < timer[c]
  /\ now' = now + 1
  /\ UNCHANGED <<http, cache, queue, pc, token, timer, body, editions>>
  /\ result' = None

Advance(c) == Known(c) \/ Unknown(c) \/ Fetch(c) \/ Fetched(c)

Next ==
  \/ Tick
  \/ \E k \in Kids : Publish(k) \/ Retire(k)
  \/ \E c \in Callers :
       \/ \E t \in Tokens : Refuse(c, t) \/ Verify(c, t)
       \/ Advance(c) \/ Serve(c) \/ Fail(c) \/ Cancel(c)

Spec == Init /\ [][Next]_vars

\* Tasks that can run do, and a fetch is answered or fails.
FairSpec == Spec /\ WF_vars(\E c \in Callers : Serve(c) \/ Advance(c))

-----------------------------------------------------------------------------
(***************************************************************************)
(* Every variable has its type, and whoever fetches holds the lock.        *)
(***************************************************************************)
TypeOK ==
  /\ now \in Nat /\ http \in BOOLEAN
  /\ keys \subseteq Kids
  /\ fetched_at \in Nat \cup {None}
  /\ queue \in Seq(Callers)
  /\ pc \in [Callers -> {"idle", "queued", "fetching"}]
  /\ token \in [Callers -> Tokens \cup {None}]
  /\ timer \in [Callers -> Nat]
  /\ body \in [Callers -> Nat \cup {None}]
  /\ result \in Option(Result)
  /\ editions \in Seq([keys : SUBSET Kids, at : Nat])
  /\ held \in Nat
  /\ \A c \in Callers : pc[c] = "fetching" => queue # << >> /\ Head(queue) = c

(***************************************************************************)
(* "CCP's key rotation is picked up": an RSA key that CCP has published    *)
(* for longer than REFETCH_INTERVAL and a transfer is never reported       *)
(* unknown while it is published, however many calls for unknown keys come *)
(* in, unless the keys were given up front.                                *)
(***************************************************************************)
Since(k) ==
  editions[CHOOSE i \in DOMAIN editions :
             /\ k \in editions[i].keys
             /\ \A j \in 1 .. i - 1 : k \notin editions[j].keys].at

Reported(c, outcome) == result' = [caller |-> c, outcome |-> outcome]

RotationPickedUp ==
  [][\A c \in Callers :
       /\ Reported(c, "unknown_key")
       /\ http /\ Kid(c) \in Published /\ Kind[Kid(c)] = "RSA"
       => now <= Since(Kid(c)) + REFETCH_INTERVAL + TIMEOUT]_vars

(***************************************************************************)
(* The keys held are the RSA keys of one key set that CCP published, never *)
(* a mixture of several, and no later fetch brings back an older set,      *)
(* whichever fetches were slow, failed, or were dropped.                   *)
(***************************************************************************)
KeysOfOneEdition ==
  keys = IF held = 0 THEN {}
         ELSE {k \in editions[held].keys : Kind[k] = "RSA"}

KeysFollowCCP == [][KeysOfOneEdition' /\ held <= held']_vars

(***************************************************************************)
(* "RS256 signature against CCP's key set, issuer, audience (your client   *)
(* ID and EVE Online) and expiry" (JwtVerifier): a token is accepted only  *)
(* if a key that CCP published has signed it, it is from EVE SSO and meant *)
(* for this application, and is at most LEEWAY past its expiry at the      *)
(* moment verify returns, however long it waited for the key.              *)
(***************************************************************************)
Names(aud, a) ==
  \/ aud \in [one : {a}]
  \/ aud \in [many : Seq(Audiences)] /\ \E i \in DOMAIN aud.many : aud.many[i] = a

Genuine(t) ==
  /\ \E i \in DOMAIN editions : t.signature \in editions[i].keys
  /\ t.header.alg = "RS256" /\ t.header.kid = t.signature
  /\ t.payload.iss \in ISSUERS
  /\ \A a \in {ClientId, EVE_AUDIENCE} : Names(t.payload.aud, a)

AcceptedGenuine ==
  [][\A c \in Callers :
       Reported(c, "ok") =>
         Genuine(token[c]) /\ now < token[c].payload.exp + LEEWAY]_vars

(***************************************************************************)
(* Every verification ends: no fetch, failure or dropped future leaves the *)
(* lock behind, and nobody waits for more than those before it (under      *)
(* FairSpec).                                                              *)
(***************************************************************************)
EveryVerifyReturns ==
  \A c \in Callers : pc[c] = "queued" ~> pc[c] = "idle"
=============================================================================
