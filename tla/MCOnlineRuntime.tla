-------------------------- MODULE MCOnlineRuntime --------------------------
(* Instances of OnlineRuntime for TLC. *)
EXTENDS OnlineRuntime, TLC

CONSTANTS h1, h2

\* One handler imports and works on the project, the other looks after the session.
MCCalls == (h1 :> {"import", "ready", "export", "workspace"})
           @@ (h2 :> {"set", "update", "clear", "reset", "bootstrap"})
=============================================================================
