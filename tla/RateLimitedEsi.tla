--------------------------- MODULE RateLimitedEsi ---------------------------
(***************************************************************************)
(* RateLimiter against the server its doc describes (src/src/rate_limit.rs,*)
(* lines 3-8): ESI keeps a token ledger per group over a floating window,  *)
(* charges every response by its status, reports what is left, and answers *)
(* 429 with Retry-After from an empty bucket.  The network between them is *)
(* given by three constants, and another process may share the bucket.     *)
(***************************************************************************)
EXTENDS RateLimiter

CONSTANTS
  Granted,      \* the Budget ESI keeps for each group; the spec may declare another
  Costs,        \* what the statuses a call can get cost: 2xx 2, 3xx 1, 4xx 5, 5xx 0
  OtherCosts,   \* tokens another process may spend at once; {} if none does
  Ordered,      \* responses are recorded in the order ESI answered
  MaxLatency,   \* ticks from ESI's answer to its record
  Lossy         \* a call sent may be cancelled, or time out, unanswered

ASSUME ServerAssumption ==
  /\ Granted \in [Groups -> Budget]
  /\ Costs \subseteq 0 .. MAX_REQUEST_COST
  /\ OtherCosts \subseteq Nat
  /\ Ordered \in BOOLEAN /\ Lossy \in BOOLEAN /\ MaxLatency \in Nat
  /\ \A o \in Operations : SpecLimit[o] # None

ReplyType == [at : Instant, header : Header]

ASSUME ReplyAssumption == None \notin ReplyType

VARIABLES
  ledger,   \* ESI's ledger: per group, the spends of the last window, in order
  reply,    \* ESI's answer to a call and when it was given, until recorded
  answered, \* the calls answered but not recorded, in the order of answering
  others    \* how often the other process has spent

esiVars == <<ledger, reply, answered, others>>

EsiInit ==
  /\ Init
  /\ ledger = [g \in Groups |-> << >>]
  /\ reply = [r \in Requests |-> None]
  /\ answered = << >>
  /\ others = 0

BudgetOf(g) == Granted[g]

ServerGroup(r) == SpecLimit[OperationOf[r]].group

Ledger == INSTANCE WindowedBudget
            WITH clock <- now, Limit <- [g \in Groups |-> BudgetOf(g)]

Left(g) == SaturatingSub(BudgetOf(g).max_tokens, Ledger!Spent(ledger[g]))

Charged(g, cost) ==
  IF cost = 0 THEN ledger
  ELSE [ledger EXCEPT ![g] = Append(@, [at |-> now, tokens |-> cost])]

\* ESI processes a call: its bucket holds something.
Serve(r, cost) ==
  LET g == ServerGroup(r)
  IN  /\ pc[r] = "sent" /\ reply[r] = None
      /\ Left(g) > 0
      /\ ledger' = Charged(g, cost)
      /\ reply' = [reply EXCEPT ![r] =
           [at |-> now, header |->
             [group |-> g, limit |-> BudgetOf(g),
              remaining |-> SaturatingSub(Left(g), cost), used |-> cost,
              rate_limited |-> FALSE, retry_after |-> None]]]
      /\ answered' = Append(answered, r)
      /\ UNCHANGED <<vars, others>>

\* ESI refuses a call from an empty bucket, until its oldest spend returns.
Refuse(r) ==
  LET g == ServerGroup(r)
  IN  /\ pc[r] = "sent" /\ reply[r] = None
      /\ Left(g) = 0
      /\ reply' = [reply EXCEPT ![r] =
           [at |-> now, header |->
             [group |-> g, limit |-> BudgetOf(g), remaining |-> 0, used |-> 0,
              rate_limited |-> TRUE,
              retry_after |-> ledger[g][1].at + BudgetOf(g).window - now]]]
      /\ answered' = Append(answered, r)
      /\ UNCHANGED <<vars, ledger, others>>

Without(calls, i) == SubSeq(calls, 1, i - 1) \o SubSeq(calls, i + 1, Len(calls))

Forgotten(r) ==
  /\ reply' = [reply EXCEPT ![r] = None]
  /\ answered' = IF reply[r] = None THEN answered
                 ELSE Without(answered,
                              CHOOSE i \in DOMAIN answered : answered[i] = r)
  /\ UNCHANGED <<ledger, others>>

Deliver(r) ==
  /\ reply[r] # None
  /\ Ordered => answered[1] = r
  /\ Respond(r, reply[r].header)
  /\ Forgotten(r)

Lose(r) ==
  /\ Lossy
  /\ Fail(r) \/ (pc[r] = "sent" /\ Cancel(r))
  /\ Forgotten(r)

GiveUp(r) == pc[r] = "waiting" /\ Cancel(r) /\ UNCHANGED esiVars

\* Another process shares the bucket ("a bucket shared with another process").
Share(g, cost) ==
  /\ others < 1
  /\ Left(g) > 0
  /\ ledger' = Charged(g, cost)
  /\ others' = others + 1
  /\ UNCHANGED <<vars, reply, answered>>

EsiTick ==
  /\ \A r \in Requests : reply[r] # None => now < reply[r].at + MaxLatency
  /\ Tick
  /\ ledger' = [g \in Groups |-> Ledger!Fresh(g, now + 1)]
  /\ UNCHANGED <<reply, answered, others>>

EsiStep ==
  \/ \E g \in Groups, cost \in OtherCosts : Share(g, cost)
  \/ \E r \in Requests :
       \/ (Acquire(r) \/ Finish(r)) /\ UNCHANGED esiVars
       \/ \E cost \in Costs : Serve(r, cost)
       \/ Refuse(r) \/ Deliver(r) \/ Lose(r) \/ GiveUp(r)

EsiNext == EsiTick \/ EsiStep

EsiSpec == EsiInit /\ [][EsiNext]_<<vars, esiVars>>

(***************************************************************************)
(* The same on a runtime, a network and a server that keep up: a sleep     *)
(* that is over, an expired timeout and the end of exec are acted on       *)
(* before the clock moves on, and something always runs: the clock, the    *)
(* server, or a task that can.  Nobody is made to start or cancel a call.  *)
(***************************************************************************)
Due(r) ==
  \/ pc[r] \in {"waiting", "sent"} /\ timer[r] <= now
  \/ pc[r] = "answered"

EsiTimelyTick == (\A r \in Requests : ~Due(r)) /\ EsiTick

EsiProgress ==
  \/ EsiTimelyTick
  \/ \E r \in Requests :
       \/ Finish(r) /\ UNCHANGED esiVars
       \/ Deliver(r) \/ Lose(r) \/ Refuse(r)
       \/ \E cost \in Costs : Serve(r, cost)
       \/ pc[r] = "waiting" /\ Acquire(r) /\ UNCHANGED esiVars

EsiTimelyNext == EsiTimelyTick \/ EsiStep

EsiTimelySpec ==
  EsiInit /\ [][EsiTimelyNext]_<<vars, esiVars>> /\ WF_<<vars, esiVars>>(EsiProgress)

-----------------------------------------------------------------------------
(***************************************************************************)
(* "A client's own traffic therefore never drives a bucket into 429, even  *)
(* with concurrent requests" (src/src/rate_limit.rs): ESI never finds the  *)
(* bucket empty when it processes a call of this client.                   *)
(***************************************************************************)
NeverRateLimited ==
  \A r \in Requests : reply[r] # None => ~reply[r].header.rate_limited

(***************************************************************************)
(* The reason: what the limiter would let a new call spend now, and what   *)
(* it holds for calls ESI has not answered yet, is covered by ESI's own    *)
(* ledger.                                                                 *)
(***************************************************************************)
Unanswered(g) == {r \in Live(g) : pc[r] = "sent" /\ reply[r] = None}

BeliefCovered ==
  \A g \in Groups :
    buckets[g] # None =>
      Available(Settle(buckets[g], now))
        + TokenSum([r \in Requests |-> reservation[r].tokens], Unanswered(g))
      <= Left(g)

(***************************************************************************)
(* The refinement: this client's responses are always paid for in full.    *)
(***************************************************************************)
StaysInBudget == Ledger!WBSpec

(***************************************************************************)
(* Every call ends: a request that has started waiting is not starved by a *)
(* leaked reservation, a hold that is never lifted or a reservation larger *)
(* than its bucket (under EsiTimelySpec).                                  *)
(***************************************************************************)
EveryCallEnds ==
  \A r \in Requests : pc[r] # "idle" ~> pc[r] = "done"
=============================================================================
