----------------------------- MODULE TokenClaims -----------------------------
(***************************************************************************)
(* What a JWT is to this crate: src/src/auth/claims.rs and the segments    *)
(* that src/src/auth/verify.rs takes it apart into.  A token is            *)
(* [header, payload, signature], each None if the segment is missing or    *)
(* does not decode; a signature is the kid of the key that made it.  A     *)
(* claim is None when absent.                                              *)
(***************************************************************************)
EXTENDS Integers, Sequences

CONSTANTS
  None,        \* an absent Option
  Kids,        \* key ids
  Issuers,     \* what an iss may say
  Audiences,   \* what an aud may list
  Characters   \* character ids

Option(S) == S \cup {None}

\* OneOrMany: "a string for one value and an array for several".
OneOrMany(S) == Option([one : S] \cup [many : Seq(S)])

Subject == [kind : {"CHARACTER:EVE", "other"}, id : Characters]

RawClaims ==
  [sub : Option(Subject), exp : Option(Nat), iss : Option(Issuers),
   aud : OneOrMany(Audiences)]

\* (alg and kid of verify.rs's Header; without a kid, it is None.)
Header == [alg : {"RS256", "ES256"}, kid : Option(Kids)]

Token ==
  [header : Option(Header), payload : Option(RawClaims), signature : Option(Kids)]

IntoVec(claim) ==
  IF claim = None THEN << >>
  ELSE IF "one" \in DOMAIN claim THEN <<claim.one>>
  ELSE claim.many

\* TokenClaims::from_raw.
FromRaw(raw) ==
  [subject |-> raw.sub,
   character_id |-> IF raw.sub.kind = "CHARACTER:EVE" THEN raw.sub.id ELSE None,
   expires_at |-> raw.exp,
   issuer |-> raw.iss,
   audience |-> IntoVec(raw.aud)]

\* TokenClaims::from_jwt_unverified: not a JWT, or one without a sub, has none.
Claims(token) ==
  IF token.payload = None \/ token.payload.sub = None THEN None
  ELSE FromRaw(token.payload)
=============================================================================
