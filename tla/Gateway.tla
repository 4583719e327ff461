------------------------------- MODULE Gateway -----------------------------
(***************************************************************************)
(* services/apigateway: each gRPC call of a client becomes one call of     *)
(* core/js/gateway.js to a service, with a deadline of two seconds, and    *)
(* the client is told what that call ends with.                            *)
(*                                                                         *)
(* The deadline is the gateway's alone: it neither takes the request back  *)
(* nor tells the service, which may receive it later or finish what it has *)
(* begun.  The module says nothing of the service; a module that composes  *)
(* the two says when a request may arrive and what the answer is.          *)
(***************************************************************************)

CONSTANT Requests  \* the calls clients make in a run

VARIABLES listening,  \* whether the gateway's server is started
          told,       \* what the client of each request has been told
          wire        \* requests sent to the service and not received yet

gatewayVars == <<listening, told, wire>>

\* "lost" stands for DEADLINE_EXCEEDED, UNAVAILABLE and a broken connection.
Answers == {"ok", "refused", "lost"}

GatewayInit ==
    /\ listening = FALSE
    /\ told = [r \in Requests |-> "idle"]
    /\ wire = {}

\* addProtoService, bind and start are synchronous: server.started is true
\* when waitForServerStart looks at it.
Listen ==
    /\ ~listening
    /\ listening' = TRUE
    /\ UNCHANGED <<told, wire>>

\* A controller hands the request to request(), which sends it.
Forward(r) ==
    /\ listening
    /\ told[r] = "idle"
    /\ told' = [told EXCEPT ![r] = "waiting"]
    /\ wire' = wire \cup {r}
    /\ UNCHANGED listening

\* The service receives the request, however long it was on its way.
Arrive(r) ==
    /\ r \in wire
    /\ wire' = wire \ {r}
    /\ UNCHANGED <<listening, told>>

\* What a request becomes for a client whose connection breaks.
Broken(state) == IF state = "waiting" THEN "lost" ELSE state

\* The connection to the service breaks before the service has the request.
LoseRequest(r) ==
    /\ r \in wire
    /\ wire' = wire \ {r}
    /\ told' = [told EXCEPT ![r] = Broken(@)]
    /\ UNCHANGED listening

\* The promise of request() is settled, by the service's answer or by the
\* error the client library makes; the client's callback gets the same.
Tell(r, answer) ==
    /\ told[r] = "waiting"
    /\ told' = [told EXCEPT ![r] = answer]
    /\ UNCHANGED <<listening, wire>>

\* Mutant of Deadline: request() sets no deadline.
DeadlineNever(r) == FALSE

\* The two seconds are over, or there is no connection to the service.
Deadline(r) == Tell(r, "lost")

\* The gateway is killed: the clients that wait see their connection break.
\* When nobody waits a restart changes nothing a client could see.
GatewayCrash ==
    /\ \E r \in Requests : told[r] = "waiting"
    /\ listening' = FALSE
    /\ told' = [r \in Requests |-> Broken(told[r])]
    /\ UNCHANGED wire

GatewayStep ==
    \/ Listen
    \/ GatewayCrash
    \/ \E r \in Requests : Forward(r) \/ LoseRequest(r) \/ Deadline(r)

GatewayTypeOK ==
    /\ listening \in BOOLEAN
    /\ told \in [Requests -> {"idle", "waiting"} \cup Answers]
    /\ wire \subseteq Requests
=============================================================================
