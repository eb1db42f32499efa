----------------------------- MODULE LocalStop ------------------------------
(***************************************************************************)
(* What the application may rely on when it asks for a local stop of Live  *)
(* View, whatever client and network do: nobody comes to the door once it  *)
(* has asked, though each of those already there may still be let in; a    *)
(* verdict "gone" is true of the client there was when it asked, and once  *)
(* it can read a verdict it reads one until it has decided; and the client *)
(* the stop takes hold of sends nothing new.  The server may be stopped at *)
(* any time all the same.                                                  *)
(***************************************************************************)
EXTENDS Naturals

CONSTANTS
  Clients,  \* what tells one client from another
  NoClient

VARIABLES
  phase,    \* of the application: "off", "serving", "waiting" for the verdict,
            \* "decided", "stopping" the server, or the server is "stopped"
  verdict,  \* what it reads while it waits: "pending", "gone" or "failed"
  door,     \* how many were admitted and are not connected yet
  client,   \* the one connected
  asked,    \* the one that was when the stop was asked for
  held,     \* the one the stop has taken hold of
  stream    \* "none", "live", or "stopping" in order

server == <<phase, verdict, asked>>
vars == <<server, door, client, held, stream>>

Init ==
  /\ phase = "off" /\ verdict = "none"
  /\ door = 0 /\ client = NoClient /\ asked = NoClient /\ held = NoClient
  /\ stream = "none"

Open == phase \in {"serving", "waiting", "decided"}
-----------------------------------------------------------------------------
(* Clients *)

Arrive ==
  /\ phase = "serving"
  /\ door' = door + 1
  /\ UNCHANGED <<server, client, held, stream>>

TurnAway ==
  /\ door > 0
  /\ door' = door - 1
  /\ UNCHANGED <<server, client, held, stream>>

(* A client is never taken for the one that was asked about. *)
Connect(c) ==
  /\ Open /\ door > 0 /\ client = NoClient /\ c # asked
  /\ door' = door - 1 /\ client' = c
  /\ UNCHANGED <<server, held, stream>>

Disconnect ==
  /\ client # NoClient
  /\ client' = NoClient /\ held' = NoClient /\ stream' = "none"
  /\ UNCHANGED <<server, door>>

StartStream ==
  /\ Open /\ client # NoClient /\ held # client /\ stream = "none"
  /\ stream' = "live"
  /\ UNCHANGED <<server, door, client, held>>

EndStream ==
  \/ stream = "live" /\ stream' = "stopping" /\ UNCHANGED <<server, door, client, held>>
  \/ stream # "none" /\ stream' = "none" /\ UNCHANGED <<server, door, client, held>>
-----------------------------------------------------------------------------
(* The stop *)

(* Its client, or a later one of those that were at the door. *)
Hold ==
  /\ phase \in {"waiting", "decided", "stopping"} /\ client # NoClient
  /\ held' = client
  /\ stream' = IF stream = "live" THEN "stopping" ELSE stream
  /\ UNCHANGED <<server, door, client>>

(* One verdict may follow another, but none is taken back. *)
Report ==
  /\ phase = "waiting"
  /\ \/ verdict' = "failed"
     \/ verdict' = "gone" /\ (asked = NoClient \/ client # asked)
  /\ UNCHANGED <<phase, asked, door, client, held, stream>>
-----------------------------------------------------------------------------
(* The application *)

Serve ==
  /\ phase = "off" /\ phase' = "serving"
  /\ UNCHANGED <<verdict, asked, door, client, held, stream>>

Ask ==
  /\ phase = "serving" /\ phase' = "waiting"
  /\ verdict' = "pending" /\ asked' = client
  /\ UNCHANGED <<door, client, held, stream>>

(* It has read a verdict, could not ask, or waits no longer. *)
Decide ==
  /\ phase = "waiting" /\ phase' = "decided"
  /\ verdict' = "none"
  /\ UNCHANGED <<asked, door, client, held, stream>>

StopServer ==
  /\ phase = "decided" /\ phase' = "stopping"
  /\ stream' = "none"
  /\ UNCHANGED <<verdict, asked, door, client, held>>

(* The server did not stop. *)
Retry ==
  /\ phase = "stopping" /\ phase' = "decided"
  /\ UNCHANGED <<verdict, asked, door, client, held, stream>>

Stopped ==
  /\ phase = "stopping" /\ phase' = "stopped"
  /\ door' = 0
  /\ UNCHANGED <<verdict, asked, client, held, stream>>

Forget ==
  /\ phase = "stopped" /\ phase' = "off"
  /\ client' = NoClient /\ asked' = NoClient /\ held' = NoClient
  /\ UNCHANGED <<verdict, door, stream>>

Next ==
  \/ Arrive \/ TurnAway \/ (\E c \in Clients : Connect(c)) \/ Disconnect
  \/ StartStream \/ EndStream
  \/ Hold \/ Report
  \/ Serve \/ Ask \/ Decide \/ StopServer \/ Retry \/ Stopped \/ Forget

Spec == Init /\ [][Next]_vars
=============================================================================
