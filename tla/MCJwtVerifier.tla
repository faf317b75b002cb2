--------------------------- MODULE MCJwtVerifier ---------------------------
(***************************************************************************)
(* Small instances of JwtVerifier for TLC.  CCP publishes an RSA and an EC *)
(* key; a new RSA key, or one that is malformed, may follow.               *)
(***************************************************************************)
EXTENDS JwtVerifier, TLC

CONSTANTS old, new, ec, torn, client, other, eve, sso, alice

MCKind == old :> "RSA" @@ new :> "RSA" @@ ec :> "EC" @@ torn :> "malformed"

Jwt(alg, kid, exp, aud) ==
  [header |-> [alg |-> alg, kid |-> kid], signature |-> kid,
   payload |-> [sub |-> [kind |-> "CHARACTER:EVE", id |-> alice], exp |-> exp,
                iss |-> sso, aud |-> [many |-> aud]]]

Good == Jwt("RS256", new, 9, <<client, eve>>)

\* A good token of the new key; of the old key, one soon to expire and one for
\* another application; one of a key that is no RSA key; and two whose header
\* is of no use.
MCTokens ==
  {Good, Jwt("RS256", old, 1, <<eve, client>>), Jwt("RS256", old, 9, <<other, eve>>),
   Jwt("ES256", ec, 9, <<client, eve>>),
   [Good EXCEPT !.header = None], [Good EXCEPT !.header.kid = None]}
=============================================================================
