--------------------------- MODULE Pipeline_proofs ---------------------------
(***************************************************************************)
(* Theorems about Pipeline for any clients, calls, documents and answers,  *)
(* and about ErrorLimiter, which it extends, for every set of callers and  *)
(* limiters, threshold, padding and set of reports.                        *)
(***************************************************************************)
EXTENDS Pipeline, TLAPS

-----------------------------------------------------------------------------
(* The error limiter.  That a caller is held until the reset of the window *)
(* it saw is inductive once the sleeping callers' wake-up times are tied   *)
(* to the windows that hold them (Asleep).                                 *)

\* A caller's window, in its client's limiter.
LEMMA WindowTyped ==
  ASSUME TypeOK, NEW c \in Callers
  PROVE  LimiterOf[c] \in Limiters /\ WindowOf(c) \in Window \cup {None}
BY DEF TypeOK, WindowOf, Limiters

(***************************************************************************)
(* Type correctness: every variable keeps its type.                        *)
(***************************************************************************)
THEOREM GateTypeCorrect == Spec => []TypeOK
<1>1. Init => TypeOK
  BY DEF Init, TypeOK
<1>2. TypeOK /\ [Next]_vars => TypeOK'
  <2> SUFFICES ASSUME TypeOK, [Next]_vars PROVE TypeOK'
    OBVIOUS
  <2> USE DEF TypeOK
  <2>1. CASE Tick
    BY <2>1 DEF Tick
  <2>2. ASSUME NEW c \in Callers, Pass(c) PROVE TypeOK'
    BY <2>2 DEF Pass, Through
  <2>3. ASSUME NEW c \in Callers, Sleep(c) PROVE TypeOK'
    <3>1. WindowOf(c) \in Window
      BY <2>3, WindowTyped DEF Sleep, Holds, Low
    <3>2. WindowOf(c).reset_at + Padding \in Nat
      BY <3>1, GateAssumption DEF Window
    <3> QED
      BY <2>3, <3>1, <3>2 DEF Sleep
  <2>4. ASSUME NEW c \in Callers, Wake(c) PROVE TypeOK'
    <3>1. Expired(c) \in Window \cup {None}
      BY WindowTyped DEF Expired
    <3> QED
      BY <2>4, <3>1 DEF Wake, Through
  <2>5. ASSUME NEW c \in Callers, Leave(c) PROVE TypeOK'
    BY <2>5 DEF Leave, Return
  <2>6. ASSUME NEW c \in Callers, NEW report \in Reports, Record(c, report)
        PROVE  TypeOK'
    <3>1. [remain |-> report.remain, reset_at |-> now + report.reset] \in Window
      BY ReportsAssumption DEF Report, Window
    <3> QED
      BY <2>6, <3>1 DEF Record, Return
  <2>7. CASE UNCHANGED vars
    BY <2>7 DEF vars
  <2> QED
    BY <2>1, <2>2, <2>3, <2>4, <2>5, <2>6, <2>7 DEF Next
<1> QED
  BY <1>1, <1>2, PTL DEF Spec

\* A sleeping caller wakes a padding after the window it saw.
Asleep ==
  \A c \in Callers :
    pc[c] = "sleeping" /\ held[c] # None
      => wake[c] = held[c].reset_at + Padding

(***************************************************************************)
(* A caller held by a low window is let through only a padding after that  *)
(* window's reset, whatever the other callers and ESI do meanwhile.        *)
(***************************************************************************)
THEOREM HeldCallersWait == Spec => []HeldUntilReset
<1>1. Init => Asleep /\ HeldUntilReset
  BY DEF Init, Asleep, HeldUntilReset
<1>2. TypeOK /\ Asleep /\ HeldUntilReset /\ [Next]_vars
        => Asleep' /\ HeldUntilReset'
  <2> SUFFICES ASSUME TypeOK, Asleep, HeldUntilReset, [Next]_vars
               PROVE  Asleep' /\ HeldUntilReset'
    OBVIOUS
  <2> USE DEF TypeOK, Asleep, HeldUntilReset
  <2>0. \A c \in Callers : held[c] # None => held[c].reset_at + Padding \in Nat
    BY GateAssumption DEF Window
  <2>1. CASE Tick
    BY <2>1, <2>0 DEF Tick
  <2>2. ASSUME NEW c \in Callers, Pass(c) PROVE Asleep' /\ HeldUntilReset'
    <3>1. held[c] = None
      BY <2>2 DEF Pass
    <3> QED
      BY <2>2, <3>1 DEF Pass, Through
  <2>3. ASSUME NEW c \in Callers, Sleep(c) PROVE Asleep' /\ HeldUntilReset'
    BY <2>3 DEF Sleep
  <2>4. ASSUME NEW c \in Callers, Wake(c) PROVE Asleep' /\ HeldUntilReset'
    BY <2>4, <2>0 DEF Wake, Through
  <2>5. ASSUME NEW c \in Callers, Leave(c) PROVE Asleep' /\ HeldUntilReset'
    BY <2>5 DEF Leave, Return
  <2>6. ASSUME NEW c \in Callers, NEW report \in Reports, Record(c, report)
        PROVE  Asleep' /\ HeldUntilReset'
    BY <2>6 DEF Record, Return
  <2>7. CASE UNCHANGED vars
    BY <2>7 DEF vars
  <2> QED
    BY <2>1, <2>2, <2>3, <2>4, <2>5, <2>6, <2>7 DEF Next
<1> QED
  BY <1>1, <1>2, GateTypeCorrect, PTL DEF Spec

(***************************************************************************)
(* A running window is replaced by a response's report and by nothing      *)
(* else: a caller that wakes leaves a newer window alone.                  *)
(***************************************************************************)
THEOREM RunningWindowIsKept == Spec => RunningWindowKept
<1> DEFINE Kept == \A l \in Limiters :
                     window[l] # None /\ now < window[l].reset_at /\ window'[l] # window[l]
                       => \E c \in Callers, report \in Reports :
                            LimiterOf[c] = l /\ Record(c, report)
<1>1. TypeOK /\ [Next]_vars => [Kept]_vars
  <2> SUFFICES ASSUME TypeOK, Next, NEW l \in Limiters, window[l] # None,
                      now < window[l].reset_at, window'[l] # window[l]
               PROVE  \E c \in Callers, report \in Reports :
                        LimiterOf[c] = l /\ Record(c, report)
    BY DEF Kept
  <2>1. ASSUME NEW c \in Callers, Wake(c) PROVE FALSE
    <3>1. ~ (now >= window[l].reset_at)
      BY DEF TypeOK, Window
    <3>2. LimiterOf[c] = l => Expired(c) = window[l]
      BY <3>1 DEF Expired, WindowOf
    <3> QED
      BY <2>1, <3>2 DEF Wake, TypeOK
  <2>2. ASSUME NEW c \in Callers, NEW report \in Reports, Record(c, report)
        PROVE  LimiterOf[c] = l
    BY <2>2 DEF Record, TypeOK
  <2> QED
    BY <2>1, <2>2 DEF Next, Tick, Pass, Sleep, Leave
<1> QED
  BY <1>1, GateTypeCorrect, PTL DEF Spec, RunningWindowKept

-----------------------------------------------------------------------------
(* The composition.  A step of the pipeline is, for each component, a step *)
(* of its own module or none: so the pipeline drives it as that module     *)
(* says callers do, and what is proved of the component holds in it.       *)

LEMMA GateSteps == PipelineNext => [Next]_vars
<1> SUFFICES ASSUME PipelineNext PROVE [Next]_vars
  OBVIOUS
<1> USE DEF vars, gate
<1>1. CASE Clock
  BY <1>1 DEF Clock, Next
<1>2. CASE Change
  BY <1>2 DEF Change, RC!Change
<1>3. ASSUME NEW c \in Callers, Lookup(c) PROVE [Next]_vars
  BY <1>3 DEF Lookup, RC!Hit, RC!Miss
<1>4. ASSUME NEW c \in Callers, Limits(c) PROVE [Next]_vars
  <2>1. CASE Gate(c)
    BY <2>1 DEF Gate, Next
  <2>2. CASE Acquire(c)
    BY <2>2 DEF Acquire, RL!Proceed, RL!Reserve, RL!Sleep
  <2> QED
    BY <1>4, <2>1, <2>2 DEF Limits
<1>5. ASSUME NEW c \in Callers, Respond(c) PROVE [Next]_vars
  BY <1>5 DEF Respond, Next
<1>6. ASSUME NEW c \in Callers, Fail(c) PROVE [Next]_vars
  BY <1>6 DEF Fail, Next
<1>7. ASSUME NEW c \in Callers, Release(c) PROVE [Next]_vars
  BY <1>7 DEF Release, RL!Finish, RL!GiveBack
<1>8. ASSUME NEW c \in Callers, Normalize(c) PROVE [Next]_vars
  BY <1>8 DEF Normalize, cache
<1>9. ASSUME NEW c \in Callers, Answer(c) PROVE [Next]_vars
  BY <1>9
     DEF Answer, RC!Revalidated, RC!PassThrough, RC!Uncached, RC!ReadBody, RC!Store
<1>10. ASSUME NEW c \in Callers, Abandon(c) PROVE [Next]_vars
  BY <1>10 DEF Abandon, RC!Abandon, Next
<1> QED
  BY <1>1, <1>2, <1>3, <1>4, <1>5, <1>6, <1>7, <1>8, <1>9, <1>10
  DEF PipelineNext, Advance

(***************************************************************************)
(* The pipeline drives the error limiter as ErrorLimiter says: each call   *)
(* passes it, sleeps in it and reports to it in that order, also one whose *)
(* future is dropped.                                                      *)
(***************************************************************************)
THEOREM DrivesErrorLimiter == PipelineSpec => Spec
<1>1. PipelineInit => Init
  BY DEF PipelineInit
<1>2. [PipelineNext]_pipelineVars => [Next]_vars
  BY GateSteps DEF pipelineVars, vars, gate
<1> QED
  BY <1>1, <1>2, PTL DEF PipelineSpec, Spec

LEMMA RateSteps == PipelineNext => [RL!Next]_(RL!vars)
<1> SUFFICES ASSUME PipelineNext PROVE [RL!Next]_(RL!vars)
  OBVIOUS
<1> USE DEF RL!vars, rate
<1>1. CASE Clock
  BY <1>1 DEF Clock, RL!Next
<1>2. CASE Change
  BY <1>2 DEF Change, RC!Change
<1>3. ASSUME NEW c \in Callers, Lookup(c) PROVE [RL!Next]_(RL!vars)
  BY <1>3 DEF Lookup, RC!Hit, RC!Miss
<1>4. ASSUME NEW c \in Callers, Limits(c) PROVE [RL!Next]_(RL!vars)
  <2>1. CASE Gate(c)
    BY <2>1 DEF Gate, Pass, Sleep, Wake
  <2>2. CASE Acquire(c)
    BY <2>2 DEF Acquire, RL!Acquire, RL!Request, RL!Next
  <2> QED
    BY <1>4, <2>1, <2>2 DEF Limits
<1>5. ASSUME NEW c \in Callers, Respond(c) PROVE [RL!Next]_(RL!vars)
  BY <1>5 DEF Respond, RL!Answer, RL!Request, RL!Next
<1>6. ASSUME NEW c \in Callers, Fail(c) PROVE [RL!Next]_(RL!vars)
  BY <1>6 DEF Fail, RL!Answer, RL!Request, RL!Next
<1>7. ASSUME NEW c \in Callers, Release(c) PROVE [RL!Next]_(RL!vars)
  BY <1>7 DEF Release, RL!Request, RL!Next
<1>8. ASSUME NEW c \in Callers, Normalize(c) PROVE [RL!Next]_(RL!vars)
  BY <1>8 DEF Normalize, cache
<1>9. ASSUME NEW c \in Callers, Answer(c) PROVE [RL!Next]_(RL!vars)
  BY <1>9
     DEF Answer, RC!Revalidated, RC!PassThrough, RC!Uncached, RC!ReadBody, RC!Store
<1>10. ASSUME NEW c \in Callers, Abandon(c) PROVE [RL!Next]_(RL!vars)
  BY <1>10 DEF Abandon, RC!Abandon, RL!Request, RL!Next
<1> QED
  BY <1>1, <1>2, <1>3, <1>4, <1>5, <1>6, <1>7, <1>8, <1>9, <1>10
  DEF PipelineNext, Advance

(***************************************************************************)
(* The pipeline drives the rate limiter as RateLimiter says: whatever the  *)
(* call does meanwhile, it reserves, records and gives back in that order. *)
(***************************************************************************)
THEOREM DrivesRateLimiter == PipelineSpec => RL!Spec
<1>1. PipelineInit => RL!Init
  BY DEF PipelineInit
<1>2. [PipelineNext]_pipelineVars => [RL!Next]_(RL!vars)
  BY RateSteps DEF pipelineVars, RL!vars, rate
<1> QED
  BY <1>1, <1>2, PTL DEF PipelineSpec, RL!Spec

LEMMA CacheSteps == PipelineNext => [RC!Next]_(RC!vars)
<1> SUFFICES ASSUME PipelineNext PROVE [RC!Next]_(RC!vars)
  OBVIOUS
<1> USE DEF RC!vars, cache
<1>1. CASE Clock
  BY <1>1 DEF Clock, RC!Next
<1>2. CASE Change
  BY <1>2 DEF Change, RC!Next
<1>3. ASSUME NEW c \in Callers, Lookup(c) PROVE [RC!Next]_(RC!vars)
  BY <1>3 DEF Lookup, RC!Next
<1>4. ASSUME NEW c \in Callers, Limits(c) PROVE [RC!Next]_(RC!vars)
  <2>1. CASE Gate(c)
    BY <2>1 DEF Gate, Pass, Sleep, Wake
  <2>2. CASE Acquire(c)
    BY <2>2 DEF Acquire, RL!Sleep, RC!Next
  <2> QED
    BY <1>4, <2>1, <2>2 DEF Limits
<1>5. ASSUME NEW c \in Callers, Respond(c) PROVE [RC!Next]_(RC!vars)
  BY <1>5 DEF Respond, RC!Next
<1>6. ASSUME NEW c \in Callers, Fail(c) PROVE [RC!Next]_(RC!vars)
  BY <1>6 DEF Fail, RC!Next
<1>7. ASSUME NEW c \in Callers, Release(c) PROVE [RC!Next]_(RC!vars)
  BY <1>7 DEF Release, RL!Finish, RL!GiveBack
<1>8. ASSUME NEW c \in Callers, Normalize(c) PROVE [RC!Next]_(RC!vars)
  BY <1>8 DEF Normalize
<1>9. ASSUME NEW c \in Callers, Answer(c) PROVE [RC!Next]_(RC!vars)
  BY <1>9 DEF Answer, RC!Next
<1>10. ASSUME NEW c \in Callers, Abandon(c) PROVE [RC!Next]_(RC!vars)
  BY <1>10 DEF Abandon, RC!Next
<1> QED
  BY <1>1, <1>2, <1>3, <1>4, <1>5, <1>6, <1>7, <1>8, <1>9, <1>10
  DEF PipelineNext, Advance

(***************************************************************************)
(* The pipeline drives the response cache as ResponseCache says: waiting   *)
(* for the limiters and giving tokens back adds no step to a cached call.  *)
(***************************************************************************)
THEOREM DrivesCache == PipelineSpec => RC!Spec
<1>1. PipelineInit => RC!Init
  BY DEF PipelineInit
<1>2. [PipelineNext]_pipelineVars => [RC!Next]_(RC!vars)
  BY CacheSteps DEF pipelineVars, RC!vars, cache
<1> QED
  BY <1>1, <1>2, PTL DEF PipelineSpec, RC!Spec

-----------------------------------------------------------------------------
(* Tokens are reserved only while a request is out.  The invariant says    *)
(* where a call is in the cache and in the error limiter for each of its   *)
(* states in the rate limiter, and which of these hold a reservation.      *)

CallOK(c) ==
  /\ status[c] \in {"idle", "waiting", "done"} => reservation[c].group = None
  /\ status[c] = "sent" =>
       stage[c] = "sent" /\ pc[c] = "through" /\ now <= deadline[c]
  /\ status[c] = "answered" => stage[c] \in {"replied", "done"}

Control ==
  /\ now \in Nat
  /\ pc \in [Callers -> {"idle", "sleeping", "through"}]
  /\ status \in [Callers -> {"idle", "waiting", "sent", "answered", "done"}]
  /\ stage \in [Callers -> {"idle", "gated", "sent", "replied", "reading", "done"}]
  /\ deadline \in [Callers -> Nat]
  /\ DOMAIN reservation = Callers
  /\ \A c \in Callers : CallOK(c)

LEMMA ControlInit == PipelineInit => Control
BY DEF PipelineInit, Init, RL!Init, RC!Init, RL!NoReservation, Control, CallOK

\* Nothing of another call changes in a step of call c.
Others(c) ==
  \A d \in Callers \ {c} :
    /\ pc'[d] = pc[d] /\ status'[d] = status[d] /\ stage'[d] = stage[d]
    /\ deadline'[d] = deadline[d] /\ reservation'[d] = reservation[d]

Typed ==
  /\ pc \in [Callers -> {"idle", "sleeping", "through"}]
  /\ status \in [Callers -> {"idle", "waiting", "sent", "answered", "done"}]
  /\ stage \in [Callers -> {"idle", "gated", "sent", "replied", "reading", "done"}]
  /\ deadline \in [Callers -> Nat]
  /\ DOMAIN reservation = Callers

LEMMA ControlFrame ==
  ASSUME Control, NEW c \in Callers, now' = now, Typed', Others(c), CallOK(c)'
  PROVE  Control'
BY DEF Control, Typed, Others, CallOK

LEMMA ControlClock == Control /\ Clock => Control'
<1> SUFFICES ASSUME Control, Clock PROVE Control'
  OBVIOUS
<1>1. ASSUME NEW c \in Callers PROVE CallOK(c)'
  BY <1>1 DEF Control, CallOK, Clock, Tick, RL!Tick, RC!Tick
<1> QED
  BY <1>1 DEF Control, Clock, Tick, RL!Tick, RC!Tick

LEMMA ControlLookup ==
  ASSUME Control, NEW c \in Callers, Lookup(c)
  PROVE  Control'
<1>1. now' = now /\ Typed' /\ Others(c)
  BY DEF Lookup, RC!Hit, RC!Miss, RC!Answer, gate, rate, Control, Typed, Others
<1>2. CallOK(c)'
  BY DEF Lookup, RC!Hit, RC!Miss, RC!Answer, gate, rate, Control, CallOK
<1> QED
  BY <1>1, <1>2, ControlFrame

LEMMA ControlLimits ==
  ASSUME Control, NEW c \in Callers, Limits(c)
  PROVE  Control'
<1>1. CASE status[c] = "idle" /\ Gate(c)
  <2>1. now' = now /\ Typed' /\ Others(c)
    BY <1>1 DEF Gate, Pass, Sleep, Wake, Through, rate, cache, Control, Typed, Others
  <2>2. CallOK(c)'
    BY <1>1 DEF Gate, rate, cache, Control, CallOK
  <2> QED
    BY <2>1, <2>2, ControlFrame
<1>2. CASE pc[c] = "through" /\ RL!Proceed(c) /\ RC!Send(c) /\ UNCHANGED <<gate, body>>
  <2>1. now' = now /\ Typed' /\ Others(c)
    BY <1>2, RateAssumption
    DEF RL!Proceed, RL!Send, RC!Send, gate, Control, Typed, Others
  <2>2. CallOK(c)'
    BY <1>2, RateAssumption
    DEF RL!Proceed, RL!Send, RC!Send, gate, Control, CallOK
  <2> QED
    BY <2>1, <2>2, ControlFrame
<1>3. CASE pc[c] = "through" /\ RL!Reserve(c) /\ RC!Send(c) /\ UNCHANGED <<gate, body>>
  <2>1. now' = now /\ Typed' /\ Others(c)
    BY <1>3, RateAssumption
    DEF RL!Reserve, RL!Send, RC!Send, gate, Control, Typed, Others
  <2>2. CallOK(c)'
    BY <1>3, RateAssumption
    DEF RL!Reserve, RL!Send, RC!Send, gate, Control, CallOK
  <2> QED
    BY <2>1, <2>2, ControlFrame
<1>4. CASE pc[c] = "through" /\ RL!Sleep(c) /\ UNCHANGED <<gate, cache, body>>
  <2>1. now' = now /\ Typed' /\ Others(c)
    BY <1>4 DEF RL!Sleep, gate, cache, Control, Typed, Others
  <2>2. CallOK(c)'
    BY <1>4 DEF RL!Sleep, RL!Poll, gate, cache, Control, CallOK
  <2> QED
    BY <2>1, <2>2, ControlFrame
<1> QED
  BY <1>1, <1>2, <1>3, <1>4 DEF Limits, Acquire

LEMMA ControlRespond ==
  ASSUME Control, NEW c \in Callers, Respond(c)
  PROVE  Control'
<1>1. /\ now' = now
      /\ stage' = [stage EXCEPT ![c] = "replied"]
      /\ deadline' = deadline
  BY DEF Respond, RC!Reply
<1>2. /\ status' = [status EXCEPT ![c] = "answered"]
      /\ reservation' = reservation
  BY DEF Respond, RL!Respond
<1>3. pc' = [pc EXCEPT ![c] = "idle"]
  BY DEF Respond, Record, Leave, Return
<1>4. Typed' /\ Others(c) /\ CallOK(c)'
  BY <1>1, <1>2, <1>3 DEF Control, Typed, Others, CallOK
<1> QED
  BY <1>1, <1>4, ControlFrame

LEMMA ControlFail ==
  ASSUME Control, NEW c \in Callers, Fail(c)
  PROVE  Control'
<1>1. now' = now /\ Typed' /\ Others(c)
  BY DEF Fail, RL!Fail, RC!Abandon, Leave, Return, Control, Typed, Others
<1>2. CallOK(c)'
  BY DEF Fail, RL!Fail, RC!Abandon, Leave, Return, Control, CallOK
<1> QED
  BY <1>1, <1>2, ControlFrame

LEMMA ControlRelease ==
  ASSUME Control, NEW c \in Callers, Release(c)
  PROVE  Control'
<1>1. now' = now /\ Typed' /\ Others(c)
  BY DEF Release, RL!Finish, RL!GiveBack, gate, cache, Control, Typed, Others
<1>2. CallOK(c)'
  BY DEF Release, RL!Finish, RL!GiveBack, RL!NoReservation, gate, cache, Control, CallOK
<1> QED
  BY <1>1, <1>2, ControlFrame

\* What exec does after the reservation's drop leaves the limiters alone.
LEMMA ControlAfter ==
  ASSUME Control, NEW c \in Callers, status[c] = "done",
         RC!Revalidated(c) \/ RC!PassThrough(c) \/ RC!Uncached(c)
           \/ RC!ReadBody(c) \/ RC!Store(c),
         UNCHANGED <<gate, rate>>
  PROVE  Control'
<1>1. now' = now /\ Typed' /\ Others(c)
  BY DEF RC!Revalidated, RC!PassThrough, RC!Uncached, RC!ReadBody, RC!Store, RC!Answer,
         gate, rate, Control, Typed, Others
<1>2. CallOK(c)'
  BY DEF gate, rate, Control, CallOK
<1> QED
  BY <1>1, <1>2, ControlFrame

LEMMA ControlAbandon ==
  ASSUME Control, NEW c \in Callers, Abandon(c)
  PROVE  Control'
<1>1. /\ now' = now
      /\ stage' = [stage EXCEPT ![c] = "done"]
      /\ deadline' = [deadline EXCEPT ![c] = 0]
  BY DEF Abandon, RC!Abandon
<1>2. CASE stage[c] = "gated" /\ pc[c] = "idle" /\ UNCHANGED <<gate, rate>>
  <2>1. Typed' /\ Others(c) /\ CallOK(c)'
    BY <1>1, <1>2 DEF gate, rate, Control, Typed, Others, CallOK
  <2> QED
    BY <1>1, <2>1, ControlFrame
<1>3. CASE pc[c] = "sleeping" /\ Leave(c) /\ UNCHANGED rate
  <2>1. Typed' /\ Others(c) /\ CallOK(c)'
    BY <1>1, <1>3 DEF Leave, Return, rate, Control, Typed, Others, CallOK
  <2> QED
    BY <1>1, <2>1, ControlFrame
<1>4. CASE RL!Cancel(c) /\ Leave(c)
  <2>1. Typed' /\ Others(c) /\ CallOK(c)'
    BY <1>1, <1>4 DEF RL!Cancel, RL!GiveBack, RL!NoReservation, Leave, Return,
                     Control, Typed, Others, CallOK
  <2> QED
    BY <1>1, <2>1, ControlFrame
<1>5. CASE Released(c) /\ UNCHANGED <<gate, rate>>
  <2>1. Typed' /\ Others(c) /\ CallOK(c)'
    BY <1>1, <1>5 DEF Released, gate, rate, Control, Typed, Others, CallOK
  <2> QED
    BY <1>1, <2>1, ControlFrame
<1> QED
  BY <1>2, <1>3, <1>4, <1>5 DEF Abandon

LEMMA ControlNext == Control /\ [PipelineNext]_pipelineVars => Control'
<1> SUFFICES ASSUME Control, [PipelineNext]_pipelineVars PROVE Control'
  OBVIOUS
<1>1. CASE Clock
  BY <1>1, ControlClock
<1>2. CASE Change
  BY <1>2 DEF Change, RC!Change, gate, rate, Control, CallOK
<1>3. ASSUME NEW c \in Callers, Lookup(c) \/ Advance(c) \/ Abandon(c)
      PROVE  Control'
  <2>1. CASE Normalize(c)
    BY <2>1 DEF Normalize, gate, rate, cache, Control, CallOK
  <2>2. CASE Answer(c)
    BY <2>2, ControlAfter DEF Answer, Released
  <2> QED
    BY <1>3, <2>1, <2>2, ControlLookup, ControlLimits, ControlRespond, ControlFail,
       ControlRelease, ControlAbandon
    DEF Advance
<1>4. CASE UNCHANGED pipelineVars
  BY <1>4 DEF pipelineVars, gate, rate, cache, Control, CallOK
<1> QED
  BY <1>1, <1>2, <1>3, <1>4 DEF PipelineNext

(***************************************************************************)
(* Tokens are reserved only while a request is out: the error limit comes  *)
(* first, and every way a call ends, or is dropped, gives them back.       *)
(***************************************************************************)
THEOREM WaitersHoldNothing == PipelineSpec => []ReservedOnlyWhileOut
<1>1. Control => ReservedOnlyWhileOut
  BY DEF Control, CallOK, ReservedOnlyWhileOut
<1> QED
  BY <1>1, ControlInit, ControlNext, PTL DEF PipelineSpec

\* A body that normalize_error has read is ESI's error JSON.
BodyOK ==
  /\ DOMAIN body = Callers
  /\ \A c \in Callers : body[c] # None => body[c].json /\ body[c].error = "string"

LEMMA BodyNext == BodyOK /\ [PipelineNext]_pipelineVars => BodyOK'
<1> SUFFICES ASSUME BodyOK, [PipelineNext]_pipelineVars PROVE BodyOK'
  OBVIOUS
<1>1. ASSUME NEW c \in Callers, Normalize(c) PROVE BodyOK'
  <2>1. PICK b \in Bodies : body' = [body EXCEPT ![c] = NormalizeErrorBody(b)]
    BY <1>1 DEF Normalize
  <2>2. NormalizeErrorBody(b).json /\ NormalizeErrorBody(b).error = "string"
    BY DEF NormalizeErrorBody, IsEsiErrorBody
  <2> QED
    BY <2>1, <2>2 DEF BodyOK
<1>2. (\E c \in Callers : Normalize(c)) \/ body' = body
  BY DEF PipelineNext, Advance, Clock, Change, Lookup, Limits, Gate, Acquire, Respond,
         Fail, Release, Answer, Abandon, pipelineVars
<1> QED
  BY <1>1, <1>2 DEF BodyOK

\* A reply, once there, is answered by exec's last steps alone.
LEMMA AnswerSteps ==
  ASSUME Control, PipelineNext, NEW c \in Callers, reply[c] # None, answer'[c] # answer[c],
         stage[c] # "idle", DOMAIN answer = Callers
  PROVE  Answer(c)
<1>1. PICK d \in Callers : Lookup(d) \/ Advance(d) \/ Abandon(d)
  BY DEF PipelineNext, Clock, RC!Tick, Change, RC!Change
<1>2. CASE Answer(d)
  BY <1>2 DEF Answer, RC!Revalidated, RC!PassThrough, RC!Uncached, RC!ReadBody, RC!Store,
              RC!Answer
<1>3. CASE Lookup(d)
  BY <1>3 DEF Lookup, RC!Hit, RC!Miss, RC!Answer
<1> QED
  BY <1>1, <1>2, <1>3
  DEF Advance, Limits, Gate, Acquire, Respond, Fail, Release, Normalize, Abandon, cache,
      RC!Send, RC!Reply, RC!Abandon

\* What exec holds a reply for; none that it is reading to store is an error.
ReplyOK ==
  /\ DOMAIN reply = Callers /\ DOMAIN stage = Callers /\ DOMAIN answer = Callers
  /\ \A c \in Callers :
       /\ reply[c] # None => stage[c] \in {"replied", "reading"}
       /\ reply[c] # None /\ IsError(c) => reply[c].content = None
       /\ stage[c] = "reading" => ~ IsError(c)

LEMMA ReplyNext == ReplyOK /\ [RC!Next]_(RC!vars) => ReplyOK'
<1> SUFFICES ASSUME ReplyOK, [RC!Next]_(RC!vars) PROVE ReplyOK'
  OBVIOUS
<1> USE DEF ReplyOK, IsError
<1>1. CASE RC!Tick \/ UNCHANGED RC!vars \/ \E resource \in RC!Resources : RC!Change(resource)
  BY <1>1 DEF RC!Tick, RC!vars, RC!Change
<1>2. ASSUME NEW c \in Callers, RC!Hit(c) \/ RC!Revalidated(c) \/ RC!PassThrough(c)
                                 \/ RC!Uncached(c) \/ RC!Store(c)
      PROVE  ReplyOK'
  BY <1>2 DEF RC!Hit, RC!Revalidated, RC!PassThrough, RC!Uncached, RC!Store, RC!Answer
<1>3. ASSUME NEW c \in Callers, RC!Miss(c) \/ RC!Send(c) PROVE ReplyOK'
  BY <1>3 DEF RC!Miss, RC!Send
<1>4. ASSUME NEW c \in Callers, RC!ReadBody(c) \/ RC!Abandon(c)
      PROVE  ReplyOK'
  BY <1>4 DEF RC!ReadBody, RC!Abandon
<1>5. ASSUME NEW c \in Callers, RC!Reply(c) PROVE ReplyOK'
  <2>1. PICK r \in RC!Responses(c) :
          /\ reply' = [reply EXCEPT ![c] = r] /\ stage' = [stage EXCEPT ![c] = "replied"]
          /\ answer' = answer
    BY <1>5 DEF RC!Reply
  <2>2. r.status = 500 => r.content = None
    BY DEF RC!Responses, RC!Response, RC!Failure
  <2> QED
    BY <2>1, <2>2
<1> QED
  BY <1>1, <1>2, <1>3, <1>4, <1>5 DEF RC!Next

(***************************************************************************)
(* Every error is reported: whatever is cached, whichever clients and      *)
(* however the calls interleave, exec returns an error that ESI or a proxy *)
(* answered as an error of that exchange with a body in ESI's shape.       *)
(***************************************************************************)
THEOREM ErrorsAreReported == PipelineSpec => ErrorsReported
<1> DEFINE Reported == \A c \in Callers :
      reply[c] # None /\ IsError(c) /\ answer'[c] # answer[c] =>
        /\ answer'[c].from = "esi" /\ answer'[c].content = None
        /\ body[c] # None /\ body[c].json /\ body[c].error = "string"
        /\ entries' = entries
<1>1. PipelineInit => BodyOK /\ ReplyOK
  BY DEF PipelineInit, RC!Init, BodyOK, ReplyOK
<1>2. Control /\ BodyOK /\ ReplyOK /\ [PipelineNext]_pipelineVars => [Reported]_pipelineVars
  <2> SUFFICES ASSUME Control, BodyOK, ReplyOK, PipelineNext, NEW c \in Callers,
                      reply[c] # None, IsError(c), answer'[c] # answer[c]
               PROVE  /\ answer'[c].from = "esi" /\ answer'[c].content = None
                      /\ body[c] # None /\ body[c].json /\ body[c].error = "string"
                      /\ entries' = entries
    BY DEF Reported
  <2>1. stage[c] = "replied" /\ reply[c].content = None
    BY DEF ReplyOK
  <2>2. Answer(c)
    BY <2>1, AnswerSteps DEF ReplyOK
  <2>3. RC!PassThrough(c) \/ RC!ReadBody(c)
    BY <2>1, <2>2 DEF Answer, IsError, RC!Revalidated, RC!NotModified, RC!Uncached, RC!Store
  <2>4. RC!PassThrough(c)
    BY <2>3 DEF RC!ReadBody
  <2>5. body[c] # None
    BY <2>2 DEF Answer, Normalized
  <2> QED
    BY <2>1, <2>4, <2>5 DEF RC!PassThrough, RC!Answer, BodyOK, ReplyOK
<1>3. ReplyOK /\ [PipelineNext]_pipelineVars => ReplyOK'
  <2>1. [PipelineNext]_pipelineVars => [RC!Next]_(RC!vars)
    BY CacheSteps DEF pipelineVars, RC!vars, cache
  <2> QED
    BY <2>1, ReplyNext
<1> QED
  BY <1>1, <1>2, <1>3, BodyNext, ControlInit, ControlNext, PTL DEF PipelineSpec, ErrorsReported

(***************************************************************************)
(* Derived clients share the error limit: a low and running window that    *)
(* any of their calls has recorded holds whichever call comes next, as     *)
(* each of them was derived with the error limiter of the first.           *)
(***************************************************************************)
THEOREM ErrorLimitIsShared == PipelineSpec => ErrorLimitShared
<1> DEFINE Shared == \A c \in Callers :
      pc[c] = "idle" /\ pc'[c] = "through" => \A l \in Limiters : ~ RunsLow(l)
<1>1. \A c \in Callers : LimiterOf[c] = Private
  BY LimitersAssumption DEF InnerOf, C!Build, C!WithAuth, C!WithoutCache
<1>2. Control /\ [PipelineNext]_pipelineVars => [Shared]_pipelineVars
  <2> SUFFICES ASSUME Control, PipelineNext, NEW c \in Callers, pc[c] = "idle",
                      pc'[c] = "through", NEW l \in Limiters
               PROVE  ~ RunsLow(l)
    BY DEF Shared
  <2>1. Next
    BY GateSteps DEF vars
  <2>2. Pass(c)
    BY <2>1 DEF Next, Tick, Pass, Sleep, Wake, Through, Leave, Record, Return, Control
  <2>3. l = LimiterOf[c]
    BY <1>1 DEF Limiters
  <2> QED
    BY <2>2, <2>3 DEF Pass, Holds, Low, WindowOf, RunsLow
<1> QED
  BY <1>2, ControlInit, ControlNext, PTL DEF PipelineSpec, ErrorLimitShared

-----------------------------------------------------------------------------
(* What is proved of the rate limiter holds in the pipeline.  RLP is the   *)
(* module of its theorems, over the pipeline's variables.                  *)

RLP == INSTANCE RateLimiter_proofs
         WITH Requests <- Callers, Headers <- Answers, pc <- status, CallBy <- MaxTime

\* RLP's rate limiter is RL: each of its definitions, from the first on.
LEMMA SameRateLimiter ==
  /\ \A a : RLP!Option(a) = RL!Option(a)
  /\ RLP!Observation = RL!Observation
  /\ RLP!BucketType = RL!BucketType
  /\ RLP!Declared = RL!Declared
  /\ RLP!Header = RL!Header
  /\ RLP!vars = RL!vars
  /\ RLP!Init = RL!Init
  /\ RLP!Next = RL!Next
  /\ RLP!InFlightConserved = RL!InFlightConserved
  /\ RLP!HoldKept = RL!HoldKept
<1>1. \A a : RLP!Option(a) = RL!Option(a)
  BY DEF RLP!Option, RL!Option
<1>2. RLP!Instant = RL!Instant
  BY DEF RLP!Instant, RL!Instant
<1>3. RLP!Spend = RL!Spend
  BY <1>2 DEF RLP!Spend, RL!Spend
<1>4. RLP!Observation = RL!Observation
  BY <1>2 DEF RLP!Observation, RL!Observation
<1>5. RLP!Budget = RL!Budget
  BY DEF RLP!Budget, RL!Budget
<1>6. RLP!BucketType = RL!BucketType
  BY <1>1, <1>4, <1>3, <1>2 DEF RLP!BucketType, RL!BucketType
<1>7. \A a : RLP!NewBucket(a) = RL!NewBucket(a)
  BY DEF RLP!NewBucket, RL!NewBucket
<1>8. \A a, b : RLP!SaturatingSub(a, b) = RL!SaturatingSub(a, b)
  BY DEF RLP!SaturatingSub, RL!SaturatingSub
<1>9. \A a, b : RLP!AtMost(a, b) = RL!AtMost(a, b)
  BY DEF RLP!AtMost, RL!AtMost
<1>10. \A a, b : RLP!Later(a, b) = RL!Later(a, b)
  BY DEF RLP!Later, RL!Later
<1>11. \A a, b : RLP!TokenSum(a, b) = RL!TokenSum(a, b)
  BY DEF RLP!TokenSum, RL!TokenSum, RLP!Cardinality, RL!Cardinality
<1>12. \A a, b : RLP!SpentBy(a, b) = RL!SpentBy(a, b)
  BY <1>11 DEF RLP!SpentBy, RL!SpentBy
<1>13. \A a, b : RLP!Lift(a, b) = RL!Lift(a, b)
  BY DEF RLP!Lift, RL!Lift
<1>14. \A a, b : RLP!Forget(a, b) = RL!Forget(a, b)
  BY DEF RLP!Forget, RL!Forget
<1>15. \A a, b : RLP!Popped(a, b) = RL!Popped(a, b)
  BY DEF RLP!Popped, RL!Popped
<1>16. \A a, b : RLP!Deducted(a, b) = RL!Deducted(a, b)
  BY DEF RLP!Deducted, RL!Deducted
<1>17. \A a, b : RLP!Credited(a, b) = RL!Credited(a, b)
  BY <1>16, <1>9, <1>12 DEF RLP!Credited, RL!Credited
<1>18. \A a, b : RLP!Release(a, b) = RL!Release(a, b)
  BY <1>15, <1>17 DEF RLP!Release, RL!Release, RLP!Cardinality, RL!Cardinality
<1>19. \A a, b : RLP!Settle(a, b) = RL!Settle(a, b)
  BY <1>18, <1>14, <1>13 DEF RLP!Settle, RL!Settle
<1>20. \A a : RLP!Balance(a) = RL!Balance(a)
  BY <1>8, <1>12 DEF RLP!Balance, RL!Balance
<1>21. \A a : RLP!Available(a) = RL!Available(a)
  BY <1>8, <1>20 DEF RLP!Available, RL!Available
<1>22. \A a : RLP!ReservationCost(a) = RL!ReservationCost(a)
  BY <1>9 DEF RLP!ReservationCost, RL!ReservationCost
<1>23. \A a : RLP!Enough(a) = RL!Enough(a)
  BY <1>16, <1>21, <1>12, <1>22 DEF RLP!Enough, RL!Enough
<1>24. \A a : RLP!Earliest(a) = RL!Earliest(a)
  BY DEF RLP!Earliest, RL!Earliest
<1>25. \A a, b : RLP!ReadyAt(a, b) = RL!ReadyAt(a, b)
  BY <1>21, <1>22, <1>23, <1>24 DEF RLP!ReadyAt, RL!ReadyAt
<1>26. \A a, b : RLP!Resize(a, b) = RL!Resize(a, b)
  BY DEF RLP!Resize, RL!Resize
<1>27. \A a, b, c : RLP!Charge(a, b, c) = RL!Charge(a, b, c)
  BY DEF RLP!Charge, RL!Charge
<1>28. \A a, b, c : RLP!Observe(a, b, c) = RL!Observe(a, b, c)
  BY <1>9 DEF RLP!Observe, RL!Observe
<1>29. \A a, b : RLP!HoldUntil(a, b) = RL!HoldUntil(a, b)
  BY DEF RLP!HoldUntil, RL!HoldUntil
<1>30. \A a, b, c : RLP!Hold(a, b, c) = RL!Hold(a, b, c)
  BY <1>29, <1>10 DEF RLP!Hold, RL!Hold
<1>31. \A a, b, c : RLP!Recorded(a, b, c) = RL!Recorded(a, b, c)
  BY <1>19, <1>26, <1>30, <1>28, <1>27 DEF RLP!Recorded, RL!Recorded
<1>32. RLP!Declared = RL!Declared
  BY DEF RLP!Declared, RL!Declared
<1>33. RLP!Header = RL!Header
  BY <1>1, <1>5 DEF RLP!Header, RL!Header
<1>34. RLP!vars = RL!vars
  BY DEF RLP!vars, RL!vars
<1>35. RLP!NoReservation = RL!NoReservation
  BY DEF RLP!NoReservation, RL!NoReservation
<1>36. RLP!Init = RL!Init
  BY <1>35 DEF RLP!Init, RL!Init
<1>37. \A a : RLP!GroupOf(a) = RL!GroupOf(a)
  BY DEF RLP!GroupOf, RL!GroupOf
<1>38. \A a : RLP!BucketFor(a) = RL!BucketFor(a)
  BY <1>37, <1>7 DEF RLP!BucketFor, RL!BucketFor
<1>39. \A a : RLP!Poll(a) = RL!Poll(a)
  BY DEF RLP!Poll, RL!Poll
<1>40. \A a : RLP!SettledFor(a) = RL!SettledFor(a)
  BY <1>19, <1>38 DEF RLP!SettledFor, RL!SettledFor
<1>41. \A a : RLP!Send(a) = RL!Send(a)
  BY DEF RLP!Send, RL!Send
<1>42. \A a : RLP!Proceed(a) = RL!Proceed(a)
  BY <1>39, <1>38, <1>41 DEF RLP!Proceed, RL!Proceed
<1>43. \A a : RLP!Reserve(a) = RL!Reserve(a)
  BY <1>39, <1>38, <1>40, <1>37, <1>22, <1>25, <1>41 DEF RLP!Reserve, RL!Reserve
<1>44. \A a : RLP!Sleep(a) = RL!Sleep(a)
  BY <1>39, <1>38, <1>40, <1>25, <1>37, <1>9 DEF RLP!Sleep, RL!Sleep
<1>45. \A a : RLP!Ignored(a) = RL!Ignored(a)
  BY DEF RLP!Ignored, RL!Ignored
<1>46. \A a, b : RLP!Learns(a, b) = RL!Learns(a, b)
  BY <1>45 DEF RLP!Learns, RL!Learns
<1>47. \A a, b : RLP!RecordGroup(a, b) = RL!RecordGroup(a, b)
  BY <1>37 DEF RLP!RecordGroup, RL!RecordGroup
<1>48. \A a, b : RLP!RecordBucket(a, b) = RL!RecordBucket(a, b)
  BY <1>47, <1>45, <1>7 DEF RLP!RecordBucket, RL!RecordBucket
<1>49. \A a, b : RLP!Respond(a, b) = RL!Respond(a, b)
  BY <1>47, <1>46, <1>48, <1>31, <1>10, <1>29 DEF RLP!Respond, RL!Respond
<1>50. \A a : RLP!Fail(a) = RL!Fail(a)
  BY DEF RLP!Fail, RL!Fail
<1>51. \A a : RLP!GiveBack(a) = RL!GiveBack(a)
  BY <1>8, <1>35 DEF RLP!GiveBack, RL!GiveBack
<1>52. \A a : RLP!Finish(a) = RL!Finish(a)
  BY <1>51 DEF RLP!Finish, RL!Finish
<1>53. \A a : RLP!Cancel(a) = RL!Cancel(a)
  BY <1>51 DEF RLP!Cancel, RL!Cancel
<1>54. RLP!Budgets = RL!Budgets
  BY <1>19 DEF RLP!Budgets, RL!Budgets
<1>55. RLP!Tick = RL!Tick
  BY DEF RLP!Tick, RL!Tick
<1>56. \A a : RLP!Acquire(a) = RL!Acquire(a)
  BY <1>42, <1>43, <1>44 DEF RLP!Acquire, RL!Acquire
<1>57. \A a : RLP!Answer(a) = RL!Answer(a)
  BY <1>50, <1>49 DEF RLP!Answer, RL!Answer
<1>58. \A a : RLP!Request(a) = RL!Request(a)
  BY <1>56, <1>57, <1>52, <1>53 DEF RLP!Request, RL!Request
<1>59. RLP!Next = RL!Next
  BY <1>55, <1>54, <1>58 DEF RLP!Next, RL!Next
<1>60. \A a : RLP!Live(a) = RL!Live(a)
  BY DEF RLP!Live, RL!Live
<1>61. \A a : RLP!Reserved(a) = RL!Reserved(a)
  BY <1>11, <1>60 DEF RLP!Reserved, RL!Reserved
<1>62. RLP!InFlightConserved = RL!InFlightConserved
  BY <1>60, <1>61 DEF RLP!InFlightConserved, RL!InFlightConserved
<1>63. RLP!HoldKept = RL!HoldKept
  BY DEF RLP!HoldKept, RL!HoldKept
<1> QED
  BY <1>1, <1>4, <1>6, <1>32, <1>33, <1>34, <1>36, <1>59, <1>62, <1>63

\* Whatever they are derived with, the clients have the builder's limiter.
LEMMA OneRateLimiter ==
  ASSUME NEW c \in Callers
  PROVE  /\ InnerOf[c].rate_limiter = Private
         /\ OperationOf[c] = <<Private, Urls[c]>>
         /\ OperationOf[c] \in Operations
<1>1. InnerOf[c].rate_limiter = Private
  BY DEF InnerOf, C!Build, C!WithAuth, C!WithoutCache
<1> QED
  BY <1>1 DEF OperationOf, Operations

LEMMA RateAssumed ==
  /\ TIMEOUT \in Nat /\ MaxTime \in Nat /\ MaxTime \in Nat
  /\ Answers \subseteq RLP!Header
  /\ None \notin Groups /\ SpecLimit \in [Operations -> RLP!Option(RLP!Declared)]
  /\ RLP!IsFiniteSet(Callers) /\ OperationOf \in [Callers -> Operations]
  /\ None \notin Int /\ None \notin RLP!Observation /\ None \notin RLP!BucketType
  /\ MAX_POLL \in Nat \ {0} /\ DEFAULT_RETRY_AFTER \in Nat
  /\ MAX_REQUEST_COST \in Nat \ {0}
<1>1. OperationOf \in [Callers -> Operations]
  BY OneRateLimiter DEF OperationOf
<1>2. SpecLimit \in [Operations -> RLP!Option(RLP!Declared)]
  BY RateAssumption, SameRateLimiter DEF RL!Option
<1>3. RLP!IsFiniteSet(Callers)
  BY RateAssumption DEF RLP!IsFiniteSet, IsFiniteSet
<1> QED
  BY <1>1, <1>2, <1>3, RateAssumption, NoneAssumption, TimeAssumption, SameRateLimiter

LEMMA DrivesRLP == PipelineSpec => RLP!Spec
<1>1. RL!Init => RLP!Init
  BY SameRateLimiter
<1>2. [RL!Next]_(RL!vars) => [RLP!Next]_(RLP!vars)
  BY SameRateLimiter DEF RL!vars, RLP!vars
<1> QED
  BY <1>1, <1>2, DrivesRateLimiter, PTL DEF RL!Spec, RLP!Spec

(***************************************************************************)
(* In the pipeline, too, every bucket's tokens in flight are those that    *)
(* its calls hold, and no 429's hold is forgotten early.                   *)
(***************************************************************************)
THEOREM LimitsHoldInPipeline == PipelineSpec => [](RL!InFlightConserved /\ RL!HoldKept)
<1>1. RLP!Spec => []RLP!InFlightConserved
  BY RateAssumed, RLP!TokensConserved
<1>2. RLP!Spec => []RLP!HoldKept
  BY RateAssumed, RLP!HoldIsKept
<1>3. RLP!InFlightConserved /\ RLP!HoldKept => RL!InFlightConserved /\ RL!HoldKept
  BY SameRateLimiter
<1> QED
  BY <1>1, <1>2, <1>3, DrivesRLP, PTL

-----------------------------------------------------------------------------
(* What is proved of the response cache holds in the pipeline, for calls   *)
(* of clients that share a cache and differ in their tokens.               *)

RCP == INSTANCE ResponseCache_proofs
         WITH Calls <- Callers, Headers <- CacheHeaders, pc <- stage, timer <- deadline

\* RCP's cache is RC: each of its definitions, from the first on.
LEMMA SameCache ==
  /\ \A a : RCP!OptionOf(a) = RC!OptionOf(a)
  /\ RCP!Content = RC!Content
  /\ RCP!Entry = RC!Entry
  /\ RCP!ReplyType = RC!ReplyType
  /\ RCP!AnswerType = RC!AnswerType
  /\ RCP!vars = RC!vars
  /\ RCP!Init = RC!Init
  /\ RCP!Next = RC!Next
  /\ RCP!AnswersOwnRequest = RC!AnswersOwnRequest
  /\ RCP!HitIsRecent = RC!HitIsRecent
  /\ RCP!RevalidatedIsCurrent = RC!RevalidatedIsCurrent
  /\ RCP!BudgetIsOwn = RC!BudgetIsOwn
<1>1. RCP!vars = RC!vars
  BY DEF RCP!vars, RC!vars
<1>2. \A a : RCP!Resource(a) = RC!Resource(a)
  BY DEF RCP!Resource, RC!Resource
<1>3. RCP!Resources = RC!Resources
  BY <1>2 DEF RCP!Resources, RC!Resources
<1>4. RCP!Content = RC!Content
  BY <1>3 DEF RCP!Content, RC!Content
<1>5. \A a : RCP!OptionOf(a) = RC!OptionOf(a)
  BY DEF RCP!OptionOf, RC!OptionOf
<1>6. RCP!Entry = RC!Entry
  BY <1>4, <1>5 DEF RCP!Entry, RC!Entry
<1>7. RCP!ReplyType = RC!ReplyType
  BY <1>5, <1>4 DEF RCP!ReplyType, RC!ReplyType
<1>8. RCP!AnswerType = RC!AnswerType
  BY <1>5, <1>4 DEF RCP!AnswerType, RC!AnswerType
<1>9. \A a : RCP!Current(a) = RC!Current(a)
  BY DEF RCP!Current, RC!Current
<1>10. \A a : RCP!KeyFor(a) = RC!KeyFor(a)
  BY DEF RCP!KeyFor, RC!KeyFor
<1>11. RCP!Keys = RC!Keys
  BY <1>10 DEF RCP!Keys, RC!Keys
<1>12. RCP!Init = RC!Init
  BY <1>11, <1>3 DEF RCP!Init, RC!Init
<1>13. \A a, b : RCP!AtMost(a, b) = RC!AtMost(a, b)
  BY DEF RCP!AtMost, RC!AtMost
<1>14. \A a, b : RCP!IsFresh(a, b) = RC!IsFresh(a, b)
  BY DEF RCP!IsFresh, RC!IsFresh
<1>15. RCP!FreshKeys = RC!FreshKeys
  BY <1>11, <1>14 DEF RCP!FreshKeys, RC!FreshKeys
<1>16. \A a : RCP!ExpiresFrom(a) = RC!ExpiresFrom(a)
  BY <1>13 DEF RCP!ExpiresFrom, RC!ExpiresFrom
<1>17. \A a : RCP!Cacheable(a) = RC!Cacheable(a)
  BY <1>16 DEF RCP!Cacheable, RC!Cacheable
<1>18. \A a : RCP!FromParts(a) = RC!FromParts(a)
  BY <1>17, <1>16 DEF RCP!FromParts, RC!FromParts
<1>19. \A a, b : RCP!Revalidate(a, b) = RC!Revalidate(a, b)
  BY <1>16 DEF RCP!Revalidate, RC!Revalidate
<1>20. \A a, b : RCP!MergedBudget(a, b) = RC!MergedBudget(a, b)
  BY DEF RCP!MergedBudget, RC!MergedBudget
<1>21. \A a : RCP!Condition(a) = RC!Condition(a)
  BY <1>2 DEF RCP!Condition, RC!Condition
<1>22. \A a, b : RCP!Put(a, b) = RC!Put(a, b)
  BY <1>11, <1>15 DEF RCP!Put, RC!Put, RCP!Cardinality, RC!Cardinality
<1>23. \A a, b, c, d : RCP!Answer(a, b, c, d) = RC!Answer(a, b, c, d)
  BY DEF RCP!Answer, RC!Answer
<1>24. \A a : RCP!Hit(a) = RC!Hit(a)
  BY <1>10, <1>15, <1>23 DEF RCP!Hit, RC!Hit
<1>25. \A a : RCP!Miss(a) = RC!Miss(a)
  BY <1>10, <1>15 DEF RCP!Miss, RC!Miss
<1>26. \A a : RCP!Send(a) = RC!Send(a)
  BY DEF RCP!Send, RC!Send
<1>27. \A a, b, c : RCP!Response(a, b, c) = RC!Response(a, b, c)
  BY <1>9, <1>2 DEF RCP!Response, RC!Response
<1>28. \A a : RCP!Failure(a) = RC!Failure(a)
  BY DEF RCP!Failure, RC!Failure
<1>29. \A a : RCP!Responses(a) = RC!Responses(a)
  BY <1>21, <1>9, <1>2, <1>27, <1>28 DEF RCP!Responses, RC!Responses
<1>30. \A a : RCP!Reply(a) = RC!Reply(a)
  BY <1>29 DEF RCP!Reply, RC!Reply
<1>31. \A a : RCP!Change(a) = RC!Change(a)
  BY <1>3 DEF RCP!Change, RC!Change
<1>32. \A a : RCP!NotModified(a) = RC!NotModified(a)
  BY DEF RCP!NotModified, RC!NotModified
<1>33. \A a : RCP!Revalidated(a) = RC!Revalidated(a)
  BY <1>32, <1>22, <1>10, <1>19, <1>23, <1>20 DEF RCP!Revalidated, RC!Revalidated
<1>34. \A a : RCP!PassThrough(a) = RC!PassThrough(a)
  BY <1>10, <1>32, <1>23 DEF RCP!PassThrough, RC!PassThrough
<1>35. \A a : RCP!Uncached(a) = RC!Uncached(a)
  BY <1>10, <1>17, <1>23 DEF RCP!Uncached, RC!Uncached
<1>36. \A a : RCP!ReadBody(a) = RC!ReadBody(a)
  BY <1>10, <1>17 DEF RCP!ReadBody, RC!ReadBody
<1>37. \A a : RCP!Store(a) = RC!Store(a)
  BY <1>18, <1>22, <1>10, <1>23 DEF RCP!Store, RC!Store
<1>38. \A a : RCP!Abandon(a) = RC!Abandon(a)
  BY DEF RCP!Abandon, RC!Abandon
<1>39. RCP!Tick = RC!Tick
  BY DEF RCP!Tick, RC!Tick
<1>40. RCP!Next = RC!Next
    BY <1>39, <1>3, <1>31, <1>24, <1>25, <1>26, <1>30, <1>33, <1>34, <1>35, <1>36, <1>37,
     <1>38
  DEF RCP!Next, RC!Next
<1>41. \A a : RCP!Given(a) = RC!Given(a)
  BY DEF RCP!Given, RC!Given
<1>42. RCP!AnswersOwnRequest = RC!AnswersOwnRequest
  BY <1>41, <1>2 DEF RCP!AnswersOwnRequest, RC!AnswersOwnRequest
<1>43. \A a, b : RCP!CurrentAt(a, b) = RC!CurrentAt(a, b)
  BY DEF RCP!CurrentAt, RC!CurrentAt
<1>44. \A a : RCP!Lifetime(a) = RC!Lifetime(a)
  BY <1>13 DEF RCP!Lifetime, RC!Lifetime
<1>45. RCP!Lifetimes = RC!Lifetimes
  BY <1>44 DEF RCP!Lifetimes, RC!Lifetimes
<1>46. RCP!Horizon = RC!Horizon
  BY <1>45 DEF RCP!Horizon, RC!Horizon
<1>47. RCP!HitIsRecent = RC!HitIsRecent
  BY <1>41, <1>43, <1>46 DEF RCP!HitIsRecent, RC!HitIsRecent
<1>48. RCP!RevalidatedIsCurrent = RC!RevalidatedIsCurrent
  BY <1>41, <1>43 DEF RCP!RevalidatedIsCurrent, RC!RevalidatedIsCurrent
<1>49. RCP!BudgetIsOwn = RC!BudgetIsOwn
  BY DEF RCP!BudgetIsOwn, RC!BudgetIsOwn
<1> QED
  BY <1>5, <1>4, <1>6, <1>7, <1>8, <1>1, <1>12, <1>40, <1>42, <1>47, <1>48, <1>49

LEMMA CacheAssumed ==
  /\ CacheHeaders \subseteq [tagged : BOOLEAN, lifetime : Nat \cup {None},
                             dated : BOOLEAN, budgeted : BOOLEAN]
  /\ Skew \in Int /\ MAX_FRESHNESS \in Nat \ {0} /\ TIMEOUT \in Nat
  /\ None \notin Int
  /\ None \notin RCP!Content \cup RCP!Entry \cup RCP!ReplyType \cup RCP!AnswerType
<1>1. RC!OptionOf(Nat) = Nat \cup {None}
  BY DEF RC!OptionOf
<1> QED
  BY <1>1, CacheAssumption, RateAssumption, NoneAssumption, SameCache

LEMMA DrivesRCP == PipelineSpec => RCP!Spec
<1>1. RC!Init => RCP!Init
  BY SameCache
<1>2. [RC!Next]_(RC!vars) => [RCP!Next]_(RCP!vars)
  BY SameCache DEF RC!vars, RCP!vars
<1> QED
  BY <1>1, <1>2, DrivesCache, PTL DEF RC!Spec, RCP!Spec

\* Each readable sub names one owner, among the tokens of the clients.
OneOwner ==
  \A c, d \in Callers :
    LET t == InnerOf[c].auth
        u == InnerOf[d].auth
    IN  t # None /\ u # None /\ Subject[t] # None /\ Subject[t] = Subject[u]
          => Owner[t] = Owner[u]

(***************************************************************************)
(* Clients derived from one another share a cache, and yet no call is      *)
(* answered with what ESI has for another character: with_token_provider   *)
(* leaves the cache to key_for, which keeps the characters apart.          *)
(***************************************************************************)
THEOREM DerivedClientsKeptApart ==
  ASSUME OneOwner
  PROVE  PipelineSpec => []RC!AnswersOwnRequest
<1>1. RCP!SubjectNamesOwner
  BY DEF OneOwner, RequestOf, RCP!SubjectNamesOwner
<1>2. RCP!OneLanguage
  BY DEF RequestOf, RCP!OneLanguage
<1>3. RCP!Spec => []RCP!AnswersOwnRequest
  BY <1>1, <1>2, CacheAssumed, RCP!AnsweredOwn
<1>4. RCP!AnswersOwnRequest => RC!AnswersOwnRequest
  BY SameCache
<1> QED
  BY <1>3, <1>4, DrivesRCP, PTL

(***************************************************************************)
(* Waiting for the limiters makes no answer older: in the pipeline a hit   *)
(* is at most a lifetime and a transfer old, a revalidated answer was      *)
(* ESI's while its call was out, and no answer has another's budget.       *)
(***************************************************************************)
THEOREM WaitsAgeNoAnswer ==
  PipelineSpec => [](RC!HitIsRecent /\ RC!RevalidatedIsCurrent /\ RC!BudgetIsOwn)
<1>1. RCP!NoOwnValidator
  BY DEF RequestOf, RCP!NoOwnValidator
<1>2. RCP!Spec => []RCP!HitIsRecent
  BY <1>1, CacheAssumed, RCP!HitsAreRecent
<1>3. RCP!Spec => []RCP!RevalidatedIsCurrent
  BY <1>1, CacheAssumed, RCP!RevalidationsAreCurrent
<1>4. RCP!Spec => []RCP!BudgetIsOwn
  BY CacheAssumed, RCP!BudgetsAreOwn
<1>5. RCP!HitIsRecent /\ RCP!RevalidatedIsCurrent /\ RCP!BudgetIsOwn
        => RC!HitIsRecent /\ RC!RevalidatedIsCurrent /\ RC!BudgetIsOwn
  BY SameCache
<1> QED
  BY <1>2, <1>3, <1>4, <1>5, DrivesRCP, PTL

-----------------------------------------------------------------------------
(* A 429 holds back every client.  No bucket but the ones of the builder's *)
(* limiter is touched, and calls of an operation stay in its declared      *)
(* group: so a call is admitted to the group whose Retry-After is recorded. *)

\* A response names no group but the one its operation declares.
NamesDeclared ==
  \A h \in Answers, c \in Callers :
    h.group # None => h.group = SpecLimit[OperationOf[c]].group

DeclaredGroup(c) == <<Private, RateLimitOf[Urls[c]].group>>

Untouched ==
  /\ learned = [o \in Operations |-> None]
  /\ DOMAIN retryAt = Groups
  /\ \A g \in Groups : g[1] # Private => retryAt[g] = 0

LEMMA GroupDeclared ==
  ASSUME NEW c \in Callers
  PROVE  /\ SpecLimit[OperationOf[c]] # None
         /\ SpecLimit[OperationOf[c]].group = DeclaredGroup(c)
         /\ DeclaredGroup(c) \in Groups
<1>1. OperationOf[c] = <<Private, Urls[c]>> /\ OperationOf[c] \in Operations
  BY OneRateLimiter
<1>2. SpecLimit[OperationOf[c]] \in RL!Declared
  BY <1>1, RateAssumption
<1>3. SpecLimit[OperationOf[c]] # None
  BY <1>2, RateAssumption
<1>4. DeclaredGroup(c) \in Groups
  BY <1>1 DEF Groups, DeclaredGroup
<1>5. SpecLimit[OperationOf[c]].group = DeclaredGroup(c)
  <2> DEFINE limit == RateLimitOf[Urls[c]]
  <2>1. SpecLimit[OperationOf[c]] = [limit EXCEPT !.group = <<Private, @>>]
    BY <1>1 DEF SpecLimit
  <2>2. "group" \in DOMAIN limit
    BY <1>2, <2>1 DEF RL!Declared
  <2> QED
    BY <2>1, <2>2 DEF DeclaredGroup
<1> QED
  BY <1>3, <1>4, <1>5

LEMMA GroupStays ==
  ASSUME Untouched, NEW c \in Callers
  PROVE  RL!GroupOf(OperationOf[c]) = DeclaredGroup(c)
BY OneRateLimiter, GroupDeclared DEF Untouched, RL!GroupOf

LEMMA UntouchedRespond ==
  ASSUME NamesDeclared, Untouched, NEW c \in Callers, NEW h \in Answers, RL!Respond(c, h)
  PROVE  Untouched'
<1> DEFINE o == OperationOf[c]
<1>1. ~ RL!Learns(o, h)
  BY GroupDeclared DEF NamesDeclared, RL!Learns
<1>2. RL!RecordGroup(o, h) = DeclaredGroup(c)
  BY GroupStays, GroupDeclared DEF NamesDeclared, RL!RecordGroup
<1>3. learned' = learned
  BY <1>1 DEF RL!Respond
<1>4. \/ retryAt' = retryAt
      \/ \E t : retryAt' = [retryAt EXCEPT ![DeclaredGroup(c)] = t]
  BY <1>2 DEF RL!Respond
<1>5. DeclaredGroup(c)[1] = Private
  BY DEF DeclaredGroup
<1> QED
  BY <1>3, <1>4, <1>5 DEF Untouched

LEMMA UntouchedNext ==
  ASSUME NamesDeclared
  PROVE  Untouched /\ [RL!Next]_(RL!vars) => Untouched'
<1> SUFFICES ASSUME Untouched, [RL!Next]_(RL!vars) PROVE Untouched'
  OBVIOUS
<1>1. ASSUME UNCHANGED <<learned, retryAt>> PROVE Untouched'
  BY <1>1 DEF Untouched
<1>2. \/ UNCHANGED <<learned, retryAt>>
      \/ \E c \in Callers, h \in Answers : RL!Respond(c, h)
  BY DEF RL!vars, RL!Next, RL!Tick, RL!Budgets, RL!Request, RL!Acquire, RL!Answer,
         RL!Proceed, RL!Reserve, RL!Sleep, RL!Fail, RL!Finish, RL!Cancel, RL!GiveBack
<1> QED
  BY <1>1, <1>2, UntouchedRespond

\* A call is sent by the rate limiter, with a reservation in its own group.
LEMMA SendsReserve ==
  ASSUME Control, Untouched, PipelineNext, NEW c \in Callers, RC!Send(c)
  PROVE  RLP!Admitted(c) /\ reservation'[c].group = DeclaredGroup(c)
<1>1. stage[c] = "gated" /\ stage'[c] = "sent"
  BY DEF RC!Send, Control
<1>2. RL!Proceed(c) \/ RL!Reserve(c)
  <2>1. ASSUME NEW d \in Callers, Lookup(d) \/ Advance(d) \/ Abandon(d)
        PROVE  (RL!Proceed(c) \/ RL!Reserve(c)) \/ stage'[c] = stage[c] \/ stage'[c] # "sent"
    <3>1. CASE Lookup(d)
      BY <3>1 DEF Lookup, RC!Hit, RC!Miss, RC!Answer, Control
    <3>2. CASE Limits(d)
      BY <3>2 DEF Limits, Gate, Acquire, cache, RC!Send, Control
    <3>3. CASE Respond(d)
      BY <3>3 DEF Respond, RC!Reply, Control
    <3>4. CASE Fail(d)
      BY <3>4 DEF Fail, RC!Abandon, Control
    <3>5. CASE Release(d)
      BY <3>5 DEF Release, cache
    <3>6. CASE Normalize(d) \/ Answer(d)
      BY <3>6 DEF Normalize, cache, Answer, RC!Revalidated, RC!PassThrough, RC!Uncached,
                  RC!ReadBody, RC!Store, RC!Answer, Control
    <3>7. CASE Abandon(d)
      BY <3>7 DEF Abandon, RC!Abandon, Control
    <3> QED
      BY <2>1, <3>1, <3>2, <3>3, <3>4, <3>5, <3>6, <3>7 DEF Advance
  <2>2. CASE Clock \/ Change
    BY <1>1, <2>2 DEF Clock, RC!Tick, Change, RC!Change
  <2> QED
    BY <1>1, <2>1, <2>2 DEF PipelineNext
<1>3. RL!BucketFor(OperationOf[c]) # None
  <2>1. SpecLimit[OperationOf[c]] # None /\ DeclaredGroup(c) # None
    BY GroupDeclared, RateAssumption
  <2>2. RL!NewBucket(SpecLimit[OperationOf[c]]) # None
    <3>1. SpecLimit[OperationOf[c]] \in RL!Declared
      BY OneRateLimiter, RateAssumption
    <3>2. RL!NewBucket(SpecLimit[OperationOf[c]]) \in RL!BucketType
      BY <3>1 DEF RL!Declared, RL!NewBucket, RL!BucketType, RL!Option
    <3> QED
      BY <3>2, RateAssumption
  <2> QED
    BY <2>1, <2>2, GroupStays DEF RL!BucketFor
<1>4. RL!Reserve(c)
  BY <1>2, <1>3 DEF RL!Proceed
<1>5. reservation[c].group = None
  BY <1>4 DEF RL!Reserve, RL!Poll, Control, CallOK
<1>6. reservation'[c].group = DeclaredGroup(c)
  BY <1>4, GroupStays DEF RL!Reserve, Control
<1>7. DeclaredGroup(c) # None
  BY GroupDeclared, RateAssumption
<1> QED
  BY <1>5, <1>6, <1>7 DEF RLP!Admitted

(***************************************************************************)
(* "One ESI budget": after a 429 no client derived from the same one sends *)
(* a call of its group before the Retry-After has passed, whatever their   *)
(* tokens, when responses name the groups that the spec declares.          *)
(***************************************************************************)
THEOREM BackoffIsShared ==
  ASSUME NamesDeclared
  PROVE  PipelineSpec => BackoffShared
<1> DEFINE Respected == \A r \in Callers :
                          RLP!Admitted(r) => now >= retryAt[reservation'[r].group]
           Shared == \A c \in Callers :
                       RC!Send(c) => \A t \in RetryAfterOf(Urls[c]) : t <= now
<1>1. RLP!Spec => RLP!HoldRespected
  BY RateAssumed, RLP!HoldIsRespected
<1>2. RLP!HoldRespected => [][Respected]_(RLP!vars)
  BY DEF RLP!HoldRespected
<1>3. RL!Init => Untouched
  BY DEF RL!Init, Untouched
<1>4. Control /\ Untouched /\ [PipelineNext]_pipelineVars /\ [Respected]_(RLP!vars)
        => [Shared]_pipelineVars
  <2> HIDE DEF Respected, Shared
  <2> SUFFICES ASSUME Control, Untouched, PipelineNext, [Respected]_(RLP!vars)
               PROVE  Shared
    OBVIOUS
  <2> SUFFICES ASSUME NEW c \in Callers, RC!Send(c), NEW t \in RetryAfterOf(Urls[c])
               PROVE  t <= now
    BY DEF Shared
  <2>1. RLP!Admitted(c) /\ reservation'[c].group = DeclaredGroup(c)
    BY SendsReserve
  <2>2. now >= retryAt[DeclaredGroup(c)]
    BY <2>1 DEF Respected, RLP!Admitted, RLP!vars
  <2>3. PICK g \in Groups : g[2] = RateLimitOf[Urls[c]].group /\ t = retryAt[g]
    BY DEF RetryAfterOf
  <2>4. CASE g[1] = Private
    <3>1. g = DeclaredGroup(c)
      BY <2>3, <2>4 DEF Groups, DeclaredGroup
    <3> QED
      BY <2>2, <2>3, <3>1
  <2>5. CASE g[1] # Private
    BY <2>3, <2>5 DEF Untouched, Control
  <2> QED
    BY <2>4, <2>5
<1>5. Untouched /\ [RL!Next]_(RL!vars) => Untouched'
  BY UntouchedNext
<1> QED
  BY <1>1, <1>2, <1>3, <1>4, <1>5, DrivesRLP, DrivesRateLimiter, ControlInit, ControlNext,
     PTL
  DEF PipelineSpec, RL!Spec, BackoffShared
=============================================================================
