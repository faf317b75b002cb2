-------------------------- MODULE MCAuthenticator --------------------------
(***************************************************************************)
(* Small instances of Authenticator for TLC.                               *)
(***************************************************************************)
EXTENDS Authenticator

\* No answer, an answer of an unexpected type, and the client itself rejected.
MCFailures ==
  {[kind |-> "Request", error |-> None], [kind |-> "Other", error |-> None],
   [kind |-> "ServerResponse", error |-> "invalid_client"]}
=============================================================================
