--------------------------- MODULE Authenticator ---------------------------
(***************************************************************************)
(* SsoClient and Authenticator of src/src/auth.rs: a user logs in and the  *)
(* code is exchanged for a token set, which many requests then share       *)
(* behind a fair async mutex; the caller that finds the access token about *)
(* to expire refreshes it at EVE SSO and tells the listener, all under the *)
(* lock, and then its request waits for the limiters with the token on it. *)
(* Tokens are numbered in the order SSO issues them.  SSO may rotate the   *)
(* refresh token, take up to TIMEOUT to answer, or not answer; a caller    *)
(* may drop its future at any await.  One tick is half of REFRESH_MARGIN.  *)
(***************************************************************************)
EXTENDS SsoErrors, Mutex

CONSTANTS
  Callers,
  Secrets,         \* what the builder's client_secret may be
  REFRESH_MARGIN,
  TIMEOUT,         \* of the HTTP client of SsoClient
  LIFETIME,        \* how long SSO's access tokens are valid
  Expiries,        \* what an answer says of expiry: "expires_in", the JWT's "exp"
                   \* alone, or "neither"
  Rotates,         \* answers carry a new refresh token, ending the old one
  Failures,        \* what else may come of a request: outcomes without tokens
  Cancels,         \* callers may drop their futures
  MaxIssued,       \* bound: token sets SSO issues, with the first
  MaxTime          \* bound: the clock stops here

TokenSet ==
  [access : Nat, refresh : Nat \cup {None}, expires_at : Nat \cup {None}]

\* What comes of a token request: tokens, or one of the other outcomes.
Reply ==
  [kind : {"Tokens"}, access : Nat, refresh : Nat \cup {None},
   expires_in : Nat \cup {None}, exp : Nat \cup {None}] \cup Outcome

\* A login: the client has a secret, the URL carried a challenge, the exchange
\* sends its verifier.
Login ==
  [stage : {"start", "code", "exchanging", "failed"}, confidential : BOOLEAN,
   challenge : BOOLEAN, verifier : BOOLEAN, timer : Nat, reply : Reply \cup {None}]

ASSUME NoneAssumption ==
  None \notin Int /\ None \notin TokenSet \cup Login \cup Reply \cup AuthError
ASSUME TimesAssumption ==
  REFRESH_MARGIN \in Nat /\ TIMEOUT \in Nat /\ LIFETIME \in Nat
ASSUME ChoicesAssumption ==
  /\ Expiries \subseteq {"expires_in", "exp", "neither"}
  /\ Rotates \subseteq BOOLEAN
  /\ Failures \subseteq Outcome
  /\ Cancels \in BOOLEAN

VARIABLES
  now,
  login,     \* the login that is under way, None once it has its token set
  queue,     \* the mutex: its holder, then those who wait for it, in order
  tokens,    \* the TokenSet it guards, None before the login
  pc,        \* where each caller is
  asked,     \* the refresh token each caller's refresh was sent with
  timer,     \* when it times out; else 0
  reply,     \* SSO's answer to it, None while there is none
  result,    \* what access_token returned to each caller
  stored,    \* what the listener has stored, None once it dropped a token
  expiry,    \* SSO: when each access token it issued really expires
  accepted,  \* SSO: the refresh token it accepts
  orphans    \* refresh requests of dropped callers, still on their way

vars == <<now, login, queue, tokens, pc, asked, timer, reply, result, stored,
          expiry, accepted, orphans>>

request == <<asked, timer, reply>>

sso == <<expiry, accepted, orphans>>

Init ==
  /\ now = 0
  /\ \E secret \in Secrets :
       login = [stage |-> "start", confidential |-> secret # None,
                challenge |-> FALSE, verifier |-> FALSE, timer |-> 0, reply |-> None]
  /\ queue = << >>
  /\ tokens = None
  /\ pc = [c \in Callers |-> "idle"]
  /\ asked = [c \in Callers |-> None]
  /\ timer = [c \in Callers |-> 0]
  /\ reply = [c \in Callers |-> None]
  /\ result = [c \in Callers |-> None]
  /\ stored = None
  /\ expiry = << >>
  /\ accepted = None
  /\ orphans = {}

(***************************************************************************)
(* EVE SSO: what it accepts, a code with its challenge's verifier or the   *)
(* refresh token of the last grant, it answers with tokens, and may end    *)
(* the refresh token used; the rest is an invalid_grant.                   *)
(***************************************************************************)
Issue(rotates) ==
  /\ Len(expiry) < MaxIssued
  /\ expiry' = Append(expiry, now + LIFETIME)
  /\ accepted' = IF rotates THEN Len(expiry) + 1 ELSE accepted

Issued(rotates, expiry_given) ==
  [kind |-> "Tokens", access |-> Len(expiry) + 1,
   refresh |-> IF rotates THEN Len(expiry) + 1 ELSE None,
   expires_in |-> IF expiry_given = "expires_in" THEN LIFETIME ELSE None,
   exp |-> IF expiry_given = "neither" THEN None ELSE now + LIFETIME]

InvalidGrant == [kind |-> "ServerResponse", error |-> "invalid_grant"]

\* What SSO answers to a request that it accepts, or not, and what is left of
\* it on the way: "a parse failure can also come from a success response".
Outcomes(accepts, answer) ==
  \/ /\ accepts
     /\ \E rotates \in Rotates, expiry_given \in Expiries :
          answer = Issued(rotates, expiry_given) /\ Issue(rotates)
  \/ ~accepts /\ answer = InvalidGrant /\ UNCHANGED <<expiry, accepted>>
  \/ /\ answer \in Failures
     /\ \/ UNCHANGED <<expiry, accepted>>
        \/ /\ answer.kind # "ServerResponse" /\ accepts
           /\ \E rotates \in Rotates : Issue(rotates)

Answers ==
  {Issued(rotates, expiry_given) : rotates \in Rotates, expiry_given \in Expiries}
    \cup {InvalidGrant} \cup Failures

(***************************************************************************)
(* The login.  A client without a secret cannot do without PKCE.           *)
(***************************************************************************)
RequireSecret == login.confidential

\* authorize or authorize_without_pkce; SSO sends the user back with a code.
Authorize(pkce) ==
  /\ tokens = None /\ login.stage = "start"
  /\ pkce \/ RequireSecret
  /\ login' = [login EXCEPT !.stage = "code", !.challenge = pkce]
  /\ UNCHANGED <<now, queue, tokens, pc, request, result, stored, sso>>

\* exchange or exchange_without_pkce; the code may have come by the other.
Exchange(pkce) ==
  /\ tokens = None /\ login.stage = "code"
  /\ pkce \/ RequireSecret
  /\ login' = [login EXCEPT !.stage = "exchanging", !.verifier = pkce,
                            !.timer = now + TIMEOUT]
  /\ UNCHANGED <<now, queue, tokens, pc, request, result, stored, sso>>

Admit ==
  /\ tokens = None /\ login.stage = "exchanging" /\ login.reply = None
  /\ \E answer \in Answers :
       /\ Outcomes(login.verifier = login.challenge, answer)
       /\ login' = [login EXCEPT !.reply = answer]
  /\ UNCHANGED <<now, queue, tokens, pc, request, result, stored, orphans>>

\* TokenSet::from_response.
FromResponse(answer) ==
  [access |-> answer.access, refresh |-> answer.refresh,
   expires_at |-> IF answer.expires_in # None THEN now + answer.expires_in
                  ELSE answer.exp]

Answered(answer) == answer # None /\ answer.kind = "Tokens"
Refused(answer) == answer # None /\ answer.kind # "Tokens"

\* The user is logged in: the tokens are stored, and Authenticator::new.
Exchanged ==
  /\ tokens = None /\ Answered(login.reply)
  /\ tokens' = FromResponse(login.reply)
  /\ stored' = tokens'
  /\ login' = None
  /\ UNCHANGED <<now, queue, pc, request, result, sso>>

\* The exchange's error (the user has to start over: the code is spent).
ExchangeFailed ==
  /\ tokens = None /\ Refused(login.reply)
  /\ login' = [login EXCEPT !.stage = "failed", !.timer = 0, !.reply = None]
  /\ UNCHANGED <<now, queue, tokens, pc, request, result, stored, sso>>

(***************************************************************************)
(* Authenticator::access_token.                                            *)
(***************************************************************************)
\* Mutant of ExpiresWithin: a token is used up to its last moment.
ExpiresWithinNothing(set) == set.expires_at # None /\ now >= set.expires_at

\* TokenSet::expires_within(REFRESH_MARGIN): no, where the expiry is unknown.
ExpiresWithin(set) ==
  set.expires_at # None /\ now + REFRESH_MARGIN >= set.expires_at

\* access_token: lock().await.
Lock(c) ==
  /\ pc[c] = "idle" /\ tokens # None
  /\ queue' = Append(queue, c)
  /\ pc' = [pc EXCEPT ![c] = "queued"]
  /\ UNCHANGED <<now, login, tokens, request, result, stored, sso>>

Holds(c) == queue # << >> /\ Head(queue) = c

Unlock(c) == queue' = Released(queue, c)

\* access_token returns, and the guard is dropped.
Return(c, outcome) ==
  /\ Unlock(c)
  /\ result' = [result EXCEPT ![c] = outcome]
  /\ pc' = [pc EXCEPT ![c] = "returned"]

Granted(set) == [access |-> set.access, error |-> None]
Failed(error) == [access |-> None, error |-> error]

Reuse(c) ==
  /\ pc[c] = "queued" /\ Holds(c)
  /\ ~ExpiresWithin(tokens)
  /\ Return(c, Granted(tokens))
  /\ UNCHANGED <<now, login, tokens, request, stored, sso>>

\* No refresh token: NoRefreshToken is the error.
GiveUp(c) ==
  /\ pc[c] = "queued" /\ Holds(c)
  /\ ExpiresWithin(tokens) /\ tokens.refresh = None
  /\ pc' = [pc EXCEPT ![c] = "failing"]
  /\ UNCHANGED <<now, login, queue, tokens, request, result, stored, sso>>

Ask(c) ==
  /\ asked' = [asked EXCEPT ![c] = tokens.refresh]
  /\ timer' = [timer EXCEPT ![c] = now + TIMEOUT]
  /\ pc' = [pc EXCEPT ![c] = "refreshing"]

\* Mutant of Refresh: the lock is not held across the HTTP request.
RefreshUnlocked(c) ==
  /\ pc[c] = "queued" /\ Holds(c)
  /\ ExpiresWithin(tokens) /\ tokens.refresh # None
  /\ Ask(c)
  /\ Unlock(c)
  /\ UNCHANGED <<now, login, tokens, reply, result, stored, sso>>

Refresh(c) ==
  /\ pc[c] = "queued" /\ Holds(c)
  /\ ExpiresWithin(tokens) /\ tokens.refresh # None
  /\ Ask(c)
  /\ UNCHANGED <<now, login, queue, tokens, reply, result, stored, sso>>

Serve(c) ==
  /\ pc[c] = "refreshing" /\ reply[c] = None
  /\ \E answer \in Answers :
       Outcomes(asked[c] = accepted, answer) /\ reply' = [reply EXCEPT ![c] = answer]
  /\ UNCHANGED <<now, login, queue, tokens, pc, asked, timer, result, stored, orphans>>

\* A dropped caller's request reaches SSO after all.
Orphan ==
  \E refresh \in orphans :
    /\ orphans' = orphans \ {refresh}
    /\ \/ UNCHANGED <<expiry, accepted>>
       \/ refresh = accepted /\ \E rotates \in Rotates : Issue(rotates)
    /\ UNCHANGED <<now, login, queue, tokens, pc, request, result, stored>>

(***************************************************************************)
(* access_token, from the answer on.                                       *)
(***************************************************************************)
\* Mutant of Fresh: a response without a refresh token leaves none.
FreshForgetful(answer, old) == FromResponse(answer)

\* refresh_with_scopes: "if the response carries no refresh token, the one
\* passed in is kept".
Fresh(answer, old) ==
  [FromResponse(answer) EXCEPT !.refresh = IF @ = None THEN old ELSE @]

Done(c) ==
  /\ asked' = [asked EXCEPT ![c] = None]
  /\ timer' = [timer EXCEPT ![c] = 0]
  /\ reply' = [reply EXCEPT ![c] = None]

Adopt(c) ==
  /\ pc[c] = "refreshing" /\ Answered(reply[c])
  /\ tokens' = Fresh(reply[c], asked[c])
  /\ Done(c)
  /\ pc' = [pc EXCEPT ![c] = "notifying"]
  /\ UNCHANGED <<now, login, queue, result, stored, sso>>

\* The listener stores the token set it is given, then access_token returns.
Notify(c) ==
  /\ pc[c] = "notifying"
  /\ stored' = tokens
  /\ Return(c, Granted(tokens))
  /\ UNCHANGED <<now, login, tokens, request, sso>>

\* Mutant of Fall: the error is retried under the lock.
FallRetrying(c) ==
  /\ pc[c] = "refreshing" /\ Refused(reply[c])
  /\ reply' = [reply EXCEPT ![c] = None]
  /\ UNCHANGED <<now, login, queue, tokens, pc, asked, timer, result, stored, sso>>

\* The refresh failed.
Fall(c) ==
  /\ pc[c] = "refreshing" /\ Refused(reply[c])
  /\ pc' = [pc EXCEPT ![c] = "failing"]
  /\ UNCHANGED <<now, login, queue, tokens, request, result, stored, sso>>

\* The listener's refresh_failed drops a revoked token (is_revoked), as its doc
\* has it do, then access_token returns the error.
NotifyFailed(c) ==
  /\ pc[c] = "failing"
  /\ LET err == IF reply[c] = None THEN NoRefreshToken ELSE FromTokenRequest(reply[c])
     IN  /\ stored' = IF IsRevoked(err) THEN None ELSE stored
         /\ Return(c, Failed(err))
  /\ Done(c)
  /\ UNCHANGED <<now, login, tokens, sso>>

\* The future is dropped, and the guard with it.
Cancel(c) ==
  /\ Cancels
  /\ pc[c] \in {"queued", "refreshing", "notifying", "failing"}
  /\ Unlock(c)
  /\ Done(c)
  /\ pc' = [pc EXCEPT ![c] = "idle"]
  /\ orphans' = IF pc[c] = "refreshing" /\ reply[c] = None
                THEN orphans \cup {asked[c]} ELSE orphans
  /\ UNCHANGED <<now, login, tokens, result, stored, expiry, accepted>>

\* pre puts the token on the request; exec sends it when the limiters allow.
Send(c) ==
  /\ pc[c] = "returned"
  /\ pc' = [pc EXCEPT ![c] = "idle"]
  /\ result' = [result EXCEPT ![c] = None]
  /\ UNCHANGED <<now, login, queue, tokens, request, stored, sso>>

\* The HTTP client ends a refresh by its timeout; a listener is short.
Tick ==
  /\ now < MaxTime
  /\ login # None => login.stage = "exchanging" /\ now < login.timer
  /\ \A c \in Callers : pc[c] = "refreshing" => now < timer[c]
  /\ \A c \in Callers : pc[c] \notin {"notifying", "failing"}
  /\ now' = now + 1
  /\ UNCHANGED <<login, queue, tokens, pc, request, result, stored, sso>>

Advance(c) ==
  \/ Reuse(c) \/ GiveUp(c) \/ Refresh(c)
  \/ Adopt(c) \/ Notify(c) \/ Fall(c) \/ NotifyFailed(c)

Next ==
  \/ \E pkce \in BOOLEAN : Authorize(pkce) \/ Exchange(pkce)
  \/ Admit \/ Exchanged \/ ExchangeFailed
  \/ Tick \/ Orphan
  \/ \E c \in Callers :
       Lock(c) \/ Serve(c) \/ Advance(c) \/ Cancel(c) \/ Send(c)

Spec == Init /\ [][Next]_vars

\* Tasks that can run do, and a refresh is answered or fails.
FairSpec == Spec /\ WF_vars(\E c \in Callers : Serve(c) \/ Advance(c))

-----------------------------------------------------------------------------
(***************************************************************************)
(* Every variable has its type, and whoever refreshes or notifies holds    *)
(* the lock: "concurrent callers wait for a single refresh".               *)
(***************************************************************************)
ResultType ==
  [access : Nat \cup {None},
   error : {None} \cup AuthError]

TypeOK ==
  /\ now \in Nat
  /\ queue \in Seq(Callers)
  /\ tokens = None \/ tokens \in TokenSet
  /\ login \in Login \cup {None}
  /\ (login = None) <=> (tokens # None)
  /\ pc \in [Callers -> {"idle", "queued", "refreshing", "notifying", "failing", "returned"}]
  /\ asked \in [Callers -> Nat \cup {None}]
  /\ timer \in [Callers -> Nat]
  /\ reply \in [Callers -> Reply \cup {None}]
  /\ result \in [Callers -> ResultType \cup {None}]
  /\ stored = None \/ stored \in TokenSet
  /\ expiry \in Seq(Nat)
  /\ accepted \in Nat \cup {None}
  /\ orphans \subseteq Nat
  /\ \A c \in Callers :
       pc[c] \in {"refreshing", "notifying", "failing"} => Holds(c)

\* When SSO stops accepting an access token.
ValidUntil(access) == expiry[access]

Returned(c) == pc[c] # "returned" /\ pc'[c] = "returned"

(***************************************************************************)
(* "A currently-valid access token": what access_token returns is still    *)
(* accepted by SSO at that moment.  The expiry held is counted from when   *)
(* the answer arrived, later than SSO counts it; the refresh margin has to *)
(* make up for that, whoever fetched the token and however long ago.       *)
(* (Tokens whose expiry nobody told are never refreshed.)                  *)
(***************************************************************************)
ReturnedTokenValid ==
  [][\A c \in Callers :
       Returned(c) /\ result'[c].error = None /\ tokens.expires_at # None
         => now < ValidUntil(result'[c].access)]_vars

(***************************************************************************)
(* "Stored tokens are always written in the order EVE issued them": the    *)
(* listener never stores an older token set over a newer one, though       *)
(* callers are dropped and dropped refreshes still reach SSO.              *)
(***************************************************************************)
StoredInOrder ==
  [][stored # None /\ stored' # None => stored.access <= stored'.access]_vars

(***************************************************************************)
(* A listener that follows the advice of AuthError::is_revoked never drops *)
(* a refresh token that SSO still accepts, whatever went wrong with which  *)
(* refresh: an answer lost, the client rejected, a caller dropped.         *)
(***************************************************************************)
DroppedOnlyIfRevoked ==
  [][stored # None /\ stored' = None => stored.refresh # accepted]_vars

(***************************************************************************)
(* The refresh token held is the one SSO accepts, whenever the token set   *)
(* SSO issued last has been adopted: rotation is followed, and an answer   *)
(* without a refresh token keeps the old one, whatever was lost before.    *)
(***************************************************************************)
HeldTokenAccepted ==
  tokens # None /\ tokens.access = Len(expiry) => tokens.refresh = accepted

(***************************************************************************)
(* "Notify listener after every refresh attempt" (with_listener): an       *)
(* access token is only returned once the token set it came in is stored.  *)
(***************************************************************************)
StoredBeforeUse ==
  [][\A c \in Callers :
       Returned(c) /\ result'[c].error = None
         => stored' # None /\ stored'.access >= result'[c].access]_vars

(***************************************************************************)
(* "Every request then carries a Bearer token, refreshed automatically     *)
(* before expiry" (the module doc): no request goes out with an access     *)
(* token that has expired.                                                 *)
(***************************************************************************)
SentTokenValid ==
  [][\A c \in Callers :
       Send(c) /\ result[c].error = None
         => now < ValidUntil(result[c].access)]_vars

(***************************************************************************)
(* AuthError::NoRefreshToken: "No refresh token is available to renew an   *)
(* expired access token."                                                  *)
(***************************************************************************)
NoRefreshTokenWhenExpired ==
  [][\A c \in Callers :
       Returned(c) /\ result'[c].error = NoRefreshToken
         => now >= tokens.expires_at]_vars

(***************************************************************************)
(* Every caller gets an answer: no refresh, failure or dropped future      *)
(* leaves the lock behind (under FairSpec).                                *)
(***************************************************************************)
EveryCallerReturns ==
  \A c \in Callers : pc[c] = "queued" ~> pc[c] \in {"returned", "idle"}
=============================================================================
