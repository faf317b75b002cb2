------------------------------- MODULE Client -------------------------------
(***************************************************************************)
(* The state that clients share (EsiInner of src/src/lib.rs): how a client *)
(* is built, and how others are derived from it.  A limiter or a cache is  *)
(* its identity, a token provider the token that it provides.              *)
(***************************************************************************)
CONSTANTS
  None,      \* an absent Option
  Private,   \* a limiter, or the cache, that a builder makes for its client
  Fresh      \* one that EsiInner::default makes

\* ClientBuilder::build: the cache is a private one, the one given, or none.
BuiltCache(options) ==
  IF ~options.http_cache THEN None
  ELSE IF options.cache # None THEN options.cache
  ELSE Private

Build(options) ==
  [error_limiter |-> Private, rate_limiter |-> Private,
   cache |-> BuiltCache(options), auth |-> options.authenticator]

WithoutCache(inner) == [inner EXCEPT !.cache = None]

\* Mutant of WithAuth: what it does not set is EsiInner::default's.
WithAuthDefault(inner, provider) ==
  [error_limiter |-> Fresh, rate_limiter |-> Fresh,
   cache |-> inner.cache, auth |-> provider]

\* with_token_provider, with_access_token, without_auth.
WithAuth(inner, provider) == [inner EXCEPT !.auth = provider]
=============================================================================
