-------------------------- MODULE MCResponseCache --------------------------
(***************************************************************************)
(* Small instances of ResponseCache for TLC.                               *)
(***************************************************************************)
EXTENDS ResponseCache, TLC

CONSTANTS c1, c2, c3, c4, assets, alice, bob, jwt, opaque, en

MCOwner == jwt :> alice @@ opaque :> bob
MCSubject == jwt :> alice @@ opaque :> None

Get(token, lang, own) ==
  [url |-> assets, token |-> token, lang |-> lang, own |-> own, cached |-> TRUE]

\* A character's call, one without a token and one whose token has no sub.
MCManyPrincipals ==
  c1 :> Get(jwt, en, None) @@ c2 :> Get(None, en, None) @@ c3 :> Get(opaque, en, None)
  @@ c4 :> Get(jwt, en, None)

\* Three calls of one character.
MCOnePrincipal ==
  c1 :> Get(jwt, en, None) @@ c2 :> Get(jwt, en, None) @@ c3 :> Get(jwt, en, None)

\* The third call names an ETag of its own (if_none_match).
MCOwnValidator ==
  c1 :> Get(jwt, en, None) @@ c2 :> Get(jwt, en, None) @@ c3 :> Get(jwt, en, 1)

\* ETag and Expires, the ETag alone, or neither; the budget headers come and go.
Carry(tagged, lifetime, budgeted) ==
  [tagged |-> tagged, lifetime |-> lifetime, dated |-> TRUE, budgeted |-> budgeted]

MCHeaders ==
  {Carry(TRUE, 1, TRUE), Carry(TRUE, None, FALSE), Carry(FALSE, None, TRUE)}

\* Without Date: a lifetime beyond the cap, and one that a transfer uses up.
MCUndated ==
  {[h EXCEPT !.dated = FALSE] : h \in {Carry(TRUE, 4, TRUE), Carry(FALSE, 0, TRUE)}}

MCSymmetry == Permutations({c1, c2, c3})
=============================================================================
