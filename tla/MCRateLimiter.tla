--------------------------- MODULE MCRateLimiter ---------------------------
(***************************************************************************)
(* Small instances of RateLimiter for TLC.  One tick is MAX_POLL.          *)
(***************************************************************************)
EXTENDS RateLimiter, TLC

CONSTANTS r1, r2, r3, assets, status, charA, charB

MCOperationOf == r1 :> assets @@ r2 :> assets @@ r3 :> status

\* Two calls of one operation and a third of an operation the spec gives no
\* group, which headers may put into the same group or another.
MCSpecLimit ==
  assets :> [group |-> charA, max_tokens |-> 7, window |-> 3] @@ status :> None

Reply == [group |-> None, limit |-> None, remaining |-> None, used |-> None,
          rate_limited |-> FALSE, retry_after |-> None]

\* A 2xx and a 4xx with all figures; one that moves the call to another
\* group; one that shrinks the budget below the worst-case cost; one without
\* X-Ratelimit-Remaining; two 429s, one without Retry-After; one that carries
\* no rate-limit header at all.
MCHeaders ==
  { [Reply EXCEPT !.remaining = 5, !.used = 2],
    [Reply EXCEPT !.remaining = 1, !.used = 5, !.group = charA],
    [Reply EXCEPT !.remaining = 4, !.used = 2, !.group = charB,
                  !.limit = [max_tokens |-> 6, window |-> 2]],
    [Reply EXCEPT !.remaining = 9, !.used = 1,
                  !.limit = [max_tokens |-> 3, window |-> 2]],
    [Reply EXCEPT !.used = 2],
    [Reply EXCEPT !.remaining = 0, !.used = 0, !.rate_limited = TRUE,
                  !.retry_after = 3],
    [Reply EXCEPT !.rate_limited = TRUE, !.group = charB],
    Reply }
\* Two calls of the same operation are interchangeable.
MCSymmetry == Permutations({r1, r2})
=============================================================================
