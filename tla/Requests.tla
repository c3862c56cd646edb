------------------------------ MODULE Requests ------------------------------
(***************************************************************************)
(* Requests in flight.  A handler awaits one statement after the other and *)
(* other handlers run in between: a request is who sent it and what its    *)
(* handler does next, a record "call" whose field "do" names that          *)
(* statement and whose other fields are the locals it still needs.         *)
(***************************************************************************)
EXTENDS Naturals

CONSTANTS
  Slots,    \* requests that may be in flight at the same time
  Scopes    \* the sets of operations clients use in one behaviour

VARIABLES
  pending,  \* the request in each slot
  scope     \* the operations clients use, which a behaviour keeps

Idle == [by |-> {}, call |-> [do |-> "idle"]]

(* What is left of a request that was in flight when the server stopped.   *)
Stopped == [by |-> {}, call |-> [do |-> "stopped"]]

NoRequests == pending = [s \in Slots |-> Idle] /\ scope \in Scopes

InFlight(s) == pending[s] \notin {Idle, Stopped}

Doing(s, step) == pending[s].call.do = step

(* A step of something else than a request.                                *)
Aside == UNCHANGED <<pending, scope>>

(* A request of u arrives in slot s, and its handler goes on with c.       *)
Enter(s, u, c) ==
  /\ ~InFlight(s)
  /\ pending' = [pending EXCEPT ![s] = [by |-> u, call |-> c]]
  /\ UNCHANGED scope

GoOn(s, c) ==
  /\ pending' = [pending EXCEPT ![s].call = c]
  /\ UNCHANGED scope

End(s) ==
  /\ pending' = [pending EXCEPT ![s] = Idle]
  /\ UNCHANGED scope

(* The server stops and is started again: no handler that was under way    *)
(* goes on.                                                                *)
StopAll ==
  /\ "stop" \in scope
  /\ pending' = [s \in Slots |-> IF InFlight(s) THEN Stopped ELSE pending[s]]
  /\ UNCHANGED scope

(* The handler goes on with c when ok holds, and refuses otherwise.        *)
GoOnIf(s, ok, c) == IF ok THEN GoOn(s, c) ELSE End(s)
=============================================================================
