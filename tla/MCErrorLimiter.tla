--------------------------- MODULE MCErrorLimiter ---------------------------
(***************************************************************************)
(* Small instances of ErrorLimiter for TLC.                                *)
(***************************************************************************)
EXTENDS ErrorLimiter, TLC

MCReports == [remain : {0, 1, 2}, reset : {0, 2, 3}]

\* All of one client.
MCLimiterOf == [c \in Callers |-> "limiter"]

MCSymmetry == Permutations(Callers)
=============================================================================
