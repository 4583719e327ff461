------------------------------ MODULE UserApi ------------------------------
(***************************************************************************)
(* The accounts as the clients of the API see them: the gateway in front   *)
(* of the gRPC server of services/users.  The gateway has a method for     *)
(* CreateUser, GetUser and VerifyUser; UpdateUser is called by clients     *)
(* that reach the service itself.                                          *)
(***************************************************************************)
EXTENDS UserServer

VARIABLES listening, told, wire  \* of the gateway

INSTANCE Gateway

frontVars == <<listening, told, wire>>
userApiVars == <<serverVars, frontVars>>

UserApiInit == ServerInit /\ GatewayInit

Routed(q) == q.kind # "update"

\* Mutant of Told: the controller's catch passes the error on as a result.
ToldResult(code) == IF code = "lost" THEN "lost" ELSE "ok"

\* What the gateway's callback makes of a gRPC code.
Told(code) == IF code \in {"OK", "yes", "no"} THEN "ok"
              ELSE IF code = "lost" THEN "lost" ELSE "refused"

\* A request that is routed comes from the gateway, any other from a client
\* of the service.
ServerReceives(r) ==
    /\ IF Routed(query[r]) THEN Arrive(r) ELSE UNCHANGED frontVars
    /\ Receive(r)

ServerAnswers(r) ==
    /\ answer[r].code # "none"
    /\ Tell(r, Told(answer[r].code))
    /\ UNCHANGED serverVars

ServerWorks == ServerWork /\ UNCHANGED frontVars

GatewayMoves ==
    /\ GatewayStep
    /\ \A r \in wire' : Routed(query[r])
    /\ UNCHANGED serverVars

UserApiNext ==
    \/ \E r \in Requests : ServerReceives(r) \/ ServerAnswers(r)
    \/ ServerWorks
    \/ GatewayMoves

UserApiSpec == UserApiInit /\ [][UserApiNext]_userApiVars

----------------------------------------------------------------------------
(* Properties.                                                              *)

Creates(e) == {r \in Requests : query[r].kind = "create" /\ query[r].email = e}

\* When every client that asked for an account with an e-mail was told the
\* service's own answer, one of them was told "ok" exactly when there is a
\* new account with that e-mail (user.test.js:20-36).  A client that ran into
\* the deadline may own an account it has not heard of, and trying again is
\* then refused; so is the first call when an insert fails after it was
\* applied.
CreateToldTruly ==
    ~Renames /\ faults["statement"] = 0 =>
        \A e \in Emails :
            (\A r \in Creates(e) : told[r] \in {"idle", "ok", "refused"})
              => ((\E id \in Ids : rows[id].email = e /\ Earlier[id].email # e)
                    <=> (\E r \in Creates(e) : told[r] = "ok"))
=============================================================================
