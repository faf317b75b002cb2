---------------------------- MODULE ErrorLimiter ----------------------------
(***************************************************************************)
(* ErrorLimiter of src/src/limiter.rs and the callers it gates: one        *)
(* limiter for all clients that share it.  Its state is the error window   *)
(* ESI last reported to one of them; a caller that finds it low sleeps     *)
(* once, until the window it saw has reset.  Callers repeat, and           *)
(* tasks interleave between any two critical sections.  The server is any  *)
(* server: a call may be answered with every member of Reports, or without *)
(* the two headers.  One tick is the 500 ms of padding.                    *)
(***************************************************************************)
EXTENDS Integers

CONSTANTS
  None,       \* an absent Option
  Callers,
  LimiterOf,  \* the limiter that each caller's client has
  Threshold,  \* hold requests once this few errors remain
  Padding,    \* added to a sleep, against racing the server's clock
  Reports,    \* what the headers may say: [remain, reset]
  MaxTime     \* bound: the clock stops here

Report == [remain : Nat, reset : Nat]
Window == [remain : Nat, reset_at : Nat]

ASSUME NoneAssumption == None \notin Window /\ None \notin Int
ASSUME GateAssumption == Threshold \in Nat /\ Padding \in Nat
ASSUME ReportsAssumption == Reports \subseteq Report
ASSUME LimiterAssumption == DOMAIN LimiterOf = Callers
ASSUME TimeAssumption == MaxTime \in Nat

VARIABLES
  now,     \* Instant::now()
  window,  \* the Mutex<Option<Window>> of each limiter
  pc,      \* where each caller is
  wake,    \* when its sleep ends; else 0
  held     \* history: the window that made it sleep, until it calls again

vars == <<now, window, pc, wake, held>>

Limiters == {LimiterOf[c] : c \in Callers}

Init ==
  /\ now = 0
  /\ window = [l \in Limiters |-> None]
  /\ pc = [c \in Callers |-> "idle"]
  /\ wake = [c \in Callers |-> 0]
  /\ held = [c \in Callers |-> None]

WindowOf(c) == window[LimiterOf[c]]

Low(c) == WindowOf(c) # None /\ WindowOf(c).remain <= Threshold

\* checked_duration_since: a window whose reset is over does not hold.
Holds(c) == Low(c) /\ WindowOf(c).reset_at >= now

\* ErrorLimiter::budget: what a client reports to its user.
Budget(c) ==
  IF WindowOf(c) # None /\ WindowOf(c).reset_at > now THEN WindowOf(c) ELSE None

Through(c) ==
  /\ pc' = [pc EXCEPT ![c] = "through"]
  /\ wake' = [wake EXCEPT ![c] = 0]

\* acquire, when the gate is open.
Pass(c) ==
  /\ pc[c] = "idle"
  /\ ~Holds(c)
  /\ Through(c)
  /\ UNCHANGED <<now, window, held>>

\* acquire, when it is closed: up to the await of the sleep.
Sleep(c) ==
  /\ pc[c] = "idle"
  /\ Holds(c)
  /\ pc' = [pc EXCEPT ![c] = "sleeping"]
  /\ wake' = [wake EXCEPT ![c] = WindowOf(c).reset_at + Padding]
  /\ held' = [held EXCEPT ![c] = WindowOf(c)]
  /\ UNCHANGED <<now, window>>

\* Mutant of Expired: the window is taken to be the one the caller saw.
ExpiredUnchecked(c) == None

\* The window that a caller leaves when it wakes: it may be a newer one.
Expired(c) ==
  IF WindowOf(c) # None /\ now >= WindowOf(c).reset_at THEN None ELSE WindowOf(c)

\* acquire, after the sleep: the expired window is cleared, and the caller
\* goes on without looking at it again.
Wake(c) ==
  /\ pc[c] = "sleeping"
  /\ wake[c] <= now
  /\ window' = [window EXCEPT ![LimiterOf[c]] = Expired(c)]
  /\ Through(c)
  /\ UNCHANGED <<now, held>>

Return(c) ==
  /\ pc' = [pc EXCEPT ![c] = "idle"]
  /\ wake' = [wake EXCEPT ![c] = 0]
  /\ held' = [held EXCEPT ![c] = None]
  /\ UNCHANGED now

\* record: both headers, or nothing.
Record(c, report) ==
  /\ pc[c] = "through"
  /\ window' = [window EXCEPT ![LimiterOf[c]] =
                  [remain |-> report.remain, reset_at |-> now + report.reset]]
  /\ Return(c)

\* No headers, no response, or the future was dropped.
Leave(c) ==
  /\ pc[c] \in {"through", "sleeping"}
  /\ Return(c)
  /\ UNCHANGED window

Tick ==
  /\ now < MaxTime
  /\ now' = now + 1
  /\ UNCHANGED <<window, pc, wake, held>>

Next ==
  \/ Tick
  \/ \E c \in Callers :
       \/ Pass(c) \/ Sleep(c) \/ Wake(c) \/ Leave(c)
       \/ \E report \in Reports : Record(c, report)

Spec == Init /\ [][Next]_vars

-----------------------------------------------------------------------------
(***************************************************************************)
(* Every variable has its type.                                            *)
(***************************************************************************)
TypeOK ==
  /\ now \in Nat
  /\ window \in [Limiters -> Window \cup {None}]
  /\ pc \in [Callers -> {"idle", "sleeping", "through"}]
  /\ wake \in [Callers -> Nat]
  /\ held \in [Callers -> Window \cup {None}]

(***************************************************************************)
(* A caller that was held is not let through before the window that held   *)
(* it has reset and the padding has passed, whatever other responses and   *)
(* other callers' wake-ups did to the recorded window meanwhile.           *)
(***************************************************************************)
HeldUntilReset ==
  \A c \in Callers :
    held[c] # None =>
      /\ pc[c] \in {"sleeping", "through"}
      /\ pc[c] = "through" => now >= held[c].reset_at + Padding

(***************************************************************************)
(* A caller that wakes never discards a window that is still running: the  *)
(* window it finds may be newer than the one it slept for, and only a      *)
(* response replaces a running window.                                     *)
(***************************************************************************)
RunningWindowKept ==
  [][\A l \in Limiters :
       window[l] # None /\ now < window[l].reset_at /\ window'[l] # window[l]
         => \E c \in Callers, report \in Reports : LimiterOf[c] = l /\ Record(c, report)]_vars

(***************************************************************************)
(* "Blocks (asynchronously) while the remaining error budget is at or      *)
(* below the threshold, until the current error window has reset"          *)
(* (ErrorLimiter::acquire): no call is let through while the budget the    *)
(* client itself reports is that low.                                      *)
(***************************************************************************)
HeldWhileLow ==
  [][\A c \in Callers :
       pc[c] # "through" /\ pc'[c] = "through"
         => ~ (Budget(c) # None /\ Budget(c).remain <= Threshold)]_vars
=============================================================================
