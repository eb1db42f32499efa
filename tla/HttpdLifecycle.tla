--------------------------- MODULE HttpdLifecycle ---------------------------
(***************************************************************************)
(* D2B_HTTPD_LIFECYCLE::State: which HTTPD server instance D2B serves and  *)
(* how far its stop has come.  A handle and the generation that comes with *)
(* it are one value here, the server's generation: the web server owner    *)
(* hands out a fresh generation with every handle, and 0 is "no server".   *)
(***************************************************************************)
EXTENDS Naturals

Phases == {"Stopped", "Running", "PreStopping", "StopFailed"}

NoServer == 0

StoppedLife == [phase |-> "Stopped", server |-> NoServer]

LifeType(Servers) == [phase : Phases, server : Servers \cup {NoServer}]

Matches(l, server) == server # NoServer /\ server = l.server

CanBeginRunning(l, server) == server # NoServer /\ l.phase = "Stopped"

BeginRunning(server) == [phase |-> "Running", server |-> server]

Accepting(l, server) == l.phase = "Running" /\ Matches(l, server)

(* beginStop: First and Retry move to PreStopping, the others do nothing. *)
BeginStop(l, server) ==
  IF Matches(l, server) /\ l.phase \in {"Running", "StopFailed"}
  THEN [l EXCEPT !.phase = "PreStopping"]
  ELSE l

StopFailureIgnored(l, server) == l
StopFailure(l, server) ==
  IF Matches(l, server) /\ l.phase = "PreStopping"
  THEN [l EXCEPT !.phase = "StopFailed"]
  ELSE l

StopSuccess(l, server) ==
  IF Matches(l, server) /\ l.phase \in {"PreStopping", "StopFailed"}
  THEN StoppedLife
  ELSE l
=============================================================================
