------------------------------ MODULE SsoErrors ------------------------------
(***************************************************************************)
(* AuthError of src/src/auth.rs: what a token request that got no tokens   *)
(* becomes, and what the callers of the crate are told of it.              *)
(***************************************************************************)
CONSTANTS None   \* an absent Option

\* The OAuth error codes that matter here.
Codes ==
  {"invalid_grant", "invalid_token", "invalid_client", "unauthorized_client",
   "access_denied", "invalid_request"}

\* What the oauth2 crate makes of a token request: an OAuth error response; no
\* response; a body that is no OAuth response; an empty body or a wrong type.
Outcome ==
  [kind : {"ServerResponse"}, error : Codes]
    \cup [kind : {"Request", "Parse", "Other"}, error : {None}]

AuthError ==
  [kind : {"Rejected"}, error : Codes]
    \cup [kind : {"Unreachable", "Token", "NoRefreshToken"}, error : {None}]

FromTokenRequest(outcome) ==
  [kind |-> CASE outcome.kind = "ServerResponse" -> "Rejected"
              [] outcome.kind \in {"Request", "Parse"} -> "Unreachable"
              [] outcome.kind = "Other" -> "Token",
   error |-> outcome.error]

NoRefreshToken == [kind |-> "NoRefreshToken", error |-> None]

IsPermanent(err) ==
  \/ err.kind = "NoRefreshToken"
  \/ /\ err.kind = "Rejected"
     /\ err.error \in {"invalid_grant", "invalid_token", "invalid_client",
                       "unauthorized_client", "access_denied"}

\* Mutant of IsRevoked: is_permanent, "a client-level rejection would otherwise
\* wipe every user's token at once".
IsRevokedPermanent(err) == IsPermanent(err)

\* "Narrower than is_permanent": the grant itself was rejected.
IsRevoked(err) ==
  err.kind = "Rejected" /\ err.error \in {"invalid_grant", "invalid_token"}
=============================================================================
