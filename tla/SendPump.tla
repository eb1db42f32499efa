------------------------------ MODULE SendPump ------------------------------
(***************************************************************************)
(* D2B_HTTPD_SEND_PUMP::State: the bookkeeping that lets at most one send  *)
(* callback be queued or running in the HTTPD task.  The class has no      *)
(* thread of its own; every method is one operator from a state to a new   *)
(* state, and the callers hold the pipeline lock around it.                *)
(***************************************************************************)
EXTENDS Naturals

CONSTANT TokenMax   \* the largest token: uintptr_t wraps to 0 after it

ASSUME TokenMaxAssumption == TokenMax \in Nat /\ TokenMax >= 3

Tokens == 1 .. TokenMax
NoToken == 0

(* The object as constructed. *)
IdlePump == [active |-> FALSE, gen |-> 0, next |-> 0,
             pending |-> NoToken, executing |-> NoToken]

(* The values a pump that serves the generations Gens may have. *)
PumpType(Gens) ==
  [active : BOOLEAN, gen : Gens \cup {0}, next : 0 .. TokenMax,
   pending : 0 .. TokenMax, executing : 0 .. TokenMax]

Serves(p, gen) == p.active /\ gen # 0 /\ gen = p.gen

Activate(p, gen) ==
  [p EXCEPT !.active = TRUE, !.gen = gen, !.pending = NoToken, !.executing = NoToken]

\* A stale invalidate (another generation) changes nothing.
Invalidate(p, gen) ==
  IF Serves(p, gen)
  THEN [p EXCEPT !.active = FALSE, !.gen = 0, !.pending = NoToken, !.executing = NoToken]
  ELSE p

(* The increment of nextToken: zero is skipped when the word wraps. *)
Succ(t) == IF t = TokenMax THEN 1 ELSE t + 1

(* The do/while of nextToken: pending and executing are at most two        *)
(* tokens, so at most three increments are taken.                          *)
NextToken(p) ==
  LET Taken(t) == t \in {p.pending, p.executing}
      t1 == Succ(p.next)
      t2 == Succ(t1)
  IN  IF ~Taken(t1) THEN t1 ELSE IF ~Taken(t2) THEN t2 ELSE Succ(t2)

CanSchedule(p, gen) ==
  Serves(p, gen) /\ p.pending = NoToken /\ p.executing = NoToken

(* request: what ScheduleResult::Accepted leaves behind. *)
Request(p) == [p EXCEPT !.next = NextToken(p), !.pending = NextToken(p)]

CanBegin(p, gen, token) == Serves(p, gen) /\ token # NoToken /\ p.pending = token

Begin(p, token) == [p EXCEPT !.pending = NoToken, !.executing = token]

CanFinish(p, gen, token) == Serves(p, gen) /\ token # NoToken /\ p.executing = token

(* finish: Rescheduled when work remains, Idle when none does. *)
Finish(p, workRemains) ==
  LET idle == [p EXCEPT !.executing = NoToken]
  IN  IF workRemains THEN Request(idle) ELSE idle

\* Plausible slip: the token of a refused callback is forgotten about.
RejectKeepsToken(p, gen, token) == p

(* reject: httpd_queue_work refused the callback of a pending token. *)
Reject(p, gen, token) ==
  IF Serves(p, gen) /\ token # NoToken /\ p.pending = token
  THEN [p EXCEPT !.pending = NoToken]
  ELSE p
=============================================================================
