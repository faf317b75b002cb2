----------------------------- MODULE MCPipeline -----------------------------
(***************************************************************************)
(* Small instances of Pipeline for TLC: calls of one operation, by the     *)
(* client that was built (for a character), by one derived from it with    *)
(* another token of the character, by one without a token, and by one      *)
(* without the cache.                                                      *)
(***************************************************************************)
EXTENDS Pipeline, TLC

CONSTANTS c1, c2, c3, c4, assets, charA, alice, jwt, renewed

MCOptions == [http_cache |-> TRUE, cache |-> None, authenticator |-> jwt]
MCAs == c2 :> renewed @@ c3 :> None
MCUrls == [c \in Callers |-> assets]
MCRateLimitOf == assets :> [group |-> charA, max_tokens |-> 6, window |-> 2]
MCLimiterOf == [c \in Callers |-> InnerOf[c].error_limiter]
MCSubject == jwt :> alice @@ renewed :> alice
MCOwner == MCSubject

MCReports == {[remain |-> 1, reset |-> 1], [remain |-> 5, reset |-> 2]}

Header(remaining, used, rate_limited) ==
  [group |-> None, limit |-> None, remaining |-> remaining, used |-> used,
   rate_limited |-> rate_limited, retry_after |-> None]

MCAnswers == {Header(4, 2, FALSE), Header(0, 0, TRUE)}

MCCacheHeaders ==
  {[tagged |-> TRUE, lifetime |-> 1, dated |-> TRUE, budgeted |-> TRUE],
   [tagged |-> FALSE, lifetime |-> None, dated |-> TRUE, budgeted |-> TRUE]}

MCBodies ==
  {[json |-> TRUE, error |-> "string"], [json |-> TRUE, error |-> "other"],
   [json |-> FALSE, error |-> None]}
=============================================================================
