--------------------------- MODULE WindowedBudget ---------------------------
(***************************************************************************)
(* What the doc of src/src/rate_limit.rs promises of a client's traffic,   *)
(* without saying how: every group has a token budget over a floating      *)
(* window, a response spends tokens that come back a window later, and the *)
(* client never spends tokens the bucket does not hold.  RateLimitedEsi    *)
(* is shown to implement this on a network that answers at once.           *)
(***************************************************************************)
EXTENDS Bucket

CONSTANTS
  Groups,
  Limit,   \* each group's Budget
  Costs    \* what a response can cost

VARIABLES
  clock,
  ledger   \* per group, the spends of the last window, in order

\* The spends whose tokens have come back by t: the oldest ones.
Returned(g, t) ==
  {i \in DOMAIN ledger[g] : ledger[g][i].at + Limit[g].window <= t}

Fresh(g, t) ==
  SubSeq(ledger[g], Cardinality(Returned(g, t)) + 1, Len(ledger[g]))

Spent(spends) == TokenSum([i \in DOMAIN spends |-> spends[i].tokens],
                          DOMAIN spends)

WBInit == clock = 0 /\ ledger = [g \in Groups |-> << >>]

\* A response is paid for in full by what the bucket holds.
Pay(g, cost) ==
  /\ Spent(ledger[g]) + cost <= Limit[g].max_tokens
  /\ ledger' = IF cost = 0 THEN ledger
               ELSE [ledger EXCEPT ![g] =
                       Append(@, [at |-> clock, tokens |-> cost])]
  /\ UNCHANGED clock

Pass ==
  /\ clock' = clock + 1
  /\ ledger' = [g \in Groups |-> Fresh(g, clock + 1)]

WBNext == Pass \/ \E g \in Groups, cost \in Costs : Pay(g, cost)

WBSpec == WBInit /\ [][WBNext]_<<clock, ledger>>
=============================================================================
