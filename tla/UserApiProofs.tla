---------------------------- MODULE UserApiProofs --------------------------
(***************************************************************************)
(* What the gRPC server of services/users promises reaches the clients of  *)
(* the gateway: behind it the server takes no other steps, and what a      *)
(* client is told about a new account is true.                             *)
(***************************************************************************)
EXTENDS UserApi, UserServerProofs

Good == {"OK", "yes", "no"}

\* What a client was told is what the server answered; a request that the
\* gateway has not sent is unknown to the server.
ToldAsAnswered ==
    /\ told \in [Requests -> {"idle", "waiting", "ok", "refused", "lost"}]
    /\ wire \subseteq Requests
    /\ \A r \in Requests :
          /\ told[r] = "ok" => answer[r].code \in Good
          /\ told[r] = "refused" => answer[r].code \notin Good \cup {"none", "lost"}
          /\ Routed(query[r]) /\ told[r] = "idle" => r \notin wire /\ step[r] = "idle"

CreateCodes == {"none", "OK", "InvalidArgument", "AlreadyExists", "Unknown", "lost"}

\* Accounts that were not there at the start are those that a CreateUser call
\* was told of.
NewAccounts ==
    /\ {id \in Ids : Earlier[id].email # NoEmail} \subseteq drawn
    /\ \A r \in Requests : query[r].kind = "create" => answer[r].code \in CreateCodes
    /\ \A r \in Requests : Created(r) => Earlier[answer[r].id].email = NoEmail
    /\ ~Renames /\ faults["statement"] = 0 =>
          \A id \in Ids : Exists(id) =>
              \/ rows[id].email = Earlier[id].email
              \/ \E r \in Requests : /\ Created(r)
                                     /\ answer[r].id = id
                                     /\ query[r].email = rows[id].email

UserApiInv == ServerInv /\ ToldAsAnswered /\ NewAccounts

----------------------------------------------------------------------------
(* Steps.                                                                   *)

\* The gateway adds nothing to what the server does.
LEMMA StepsOfTheServer ==
    ASSUME [UserApiNext]_userApiVars
    PROVE  [ServerNext]_serverVars
<1>1. CASE \E r \in Requests : ServerReceives(r) \/ ServerAnswers(r)
  BY <1>1 DEF ServerReceives, ServerAnswers, ServerNext
<1>2. CASE ServerWorks \/ GatewayMoves \/ UNCHANGED userApiVars
  BY <1>2 DEF ServerWorks, GatewayMoves, ServerNext, userApiVars
<1> QED
  BY <1>1, <1>2 DEF UserApiNext

\* An answer is given once.
LEMMA AnswersStay ==
    ASSUME ServerInv, [ServerNext]_serverVars, NEW s \in Requests,
           answer[s].code # "none"
    PROVE  answer'[s] = answer[s]
<1>1. /\ step[s] = "done"
      /\ answer \in [Requests -> Replies]
  BY RepliesTyped DEF ServerInv, ServerTypeOK, Answered, Replies, Rows, Codes
<1>2. ASSUME NEW r \in Requests, RequestStep(r)
      PROVE  answer'[s] = answer[s]
  BY <1>1, <1>2 DEF RequestStep, Receive, Lookup, Insert, GetUser, VerifyUser,
     Update, Reread, Goto, Answer
<1>3. CASE ServerCrash \/ UNCHANGED serverVars
  BY <1>1, <1>3 DEF ServerCrash, InProgress, serverVars
<1>4. ASSUME NEW id \in Ids, NEW b \in HoldsLeave, HoldCommits(id, b)
      PROVE  answer'[s] = answer[s]
  BY <1>4 DEF HoldCommits
<1> QED
  BY <1>2, <1>3, <1>4 DEF ServerNext, ServerWork, Statement, RequestStep

\* What a CreateUser call may be answered.
LEMMA CreateAnswered ==
    ASSUME ServerInv, [ServerNext]_serverVars, NEW s \in Requests,
           query[s].kind = "create", answer[s].code = "none"
    PROVE  answer'[s].code \in CreateCodes
<1>1. answer \in [Requests -> Replies] /\ step[s] # "verify"
  BY DEF ServerInv, ServerTypeOK, Replies, Rows, Placed
<1>2. ASSUME NEW r \in Requests, r # s, RequestStep(r)
      PROVE  answer'[s] = answer[s]
  BY <1>1, <1>2 DEF RequestStep, Receive, Lookup, Insert, GetUser, VerifyUser,
     Update, Reread, Goto, Answer
<1>3. ASSUME Receive(s)
      PROVE  answer'[s].code \in CreateCodes
  <2>1. Refusal(query[s]) \in {"none", "InvalidArgument"}
    BY DEF Refusal
  <2> QED
    BY <1>1, <1>3, <2>1, RepliesTyped
       DEF Receive, Goto, Answer, CreateCodes, Codes
<1>4. ASSUME Lookup(s)
      PROVE  answer'[s].code \in CreateCodes
  BY <1>1, <1>4, RepliesTyped DEF Lookup, Goto, Answer, CreateCodes, Codes
<1>5. ASSUME Insert(s)
      PROVE  answer'[s].code \in CreateCodes
  <2>1. \/ Answer(s, Status("Unknown"))
        \/ \E id, row : Answer(s, Profile(id, row))
    BY <1>5 DEF Insert
  <2> QED
    BY <1>1, <2>1, RepliesTyped DEF Answer, Profile, Reply, CreateCodes, Codes
<1>6. ~GetUser(s) /\ ~VerifyUser(s) /\ ~Update(s) /\ ~Reread(s)
  BY DEF GetUser, VerifyUser, Update, Reread, ServerInv, Placed
<1>7. CASE ServerCrash \/ UNCHANGED serverVars
  BY <1>1, <1>7, RepliesTyped DEF ServerCrash, serverVars, CreateCodes, Codes
<1>8. ASSUME NEW id \in Ids, NEW b \in HoldsLeave, HoldCommits(id, b)
      PROVE  answer'[s].code \in CreateCodes
  BY <1>8 DEF HoldCommits, CreateCodes
<1>9. answer'[s] = answer[s] => answer'[s].code \in CreateCodes
  BY DEF CreateCodes
<1> QED
  BY <1>2, <1>3, <1>4, <1>5, <1>6, <1>7, <1>8, <1>9
     DEF ServerNext, ServerWork, Statement, RequestStep

\* A row appears only when CreateUser inserts it, and its client hears of it
\* unless the statement failed.
LEMMA NewRowAnnounced ==
    ASSUME ServerInv, [ServerNext]_serverVars, NEW id \in Ids,
           ~Exists(id), Exists(id)'
    PROVE  \/ faults'["statement"] > 0
           \/ \E r \in Requests : /\ Created(r)'
                                  /\ answer'[r].id = id
                                  /\ query'[r].email = rows'[id].email
<1>1. /\ rows \in [Ids -> Rows] /\ answer \in [Requests -> Replies]
      /\ ServerTypeOK
  BY DEF ServerInv, ServerTypeOK, Table, Replies, Rows
<1>2. ASSUME NEW r \in Requests, Insert(r)
      PROVE  \/ faults'["statement"] > 0
             \/ /\ Created(r)' /\ answer'[r].id = id
                /\ query'[r].email = rows'[id].email
  <2> DEFINE new == Row(query[r].email, query[r].balance)
  <2>1. query[r].kind = "create" /\ UNCHANGED query /\ new.email = query[r].email
    BY <1>2 DEF Insert, ServerInv, Placed, Row
  <2> HIDE DEF new
  <2>2. CASE Disturb("statement")
    BY <1>1, <2>2, Disturbed DEF Disturbances
  <2>3. CASE \E n \in Ids : Answer(r, Profile(n, new)) /\ WriteRow(n, new)
    BY <1>1, <2>1, <2>3 DEF Answer, Profile, Reply, WriteRow, Exists, Created
  <2>4. CASE UNCHANGED rows
    BY <2>4 DEF Exists
  <2> QED
    BY <1>2, <2>2, <2>3, <2>4 DEF Insert, new
<1>3. ASSUME NEW r \in Requests,
             Receive(r) \/ Lookup(r) \/ GetUser(r) \/ VerifyUser(r) \/ Reread(r)
      PROVE  UNCHANGED rows
  BY <1>3 DEF Receive, Lookup, GetUser, VerifyUser, Reread
<1>4. ASSUME NEW r \in Requests, Update(r)
      PROVE  Exists(id)' => Exists(id)
  BY <1>1, <1>4 DEF Update, WriteRow, Exists
<1>5. ASSUME NEW n \in Ids, NEW b \in HoldsLeave, HoldCommits(n, b)
      PROVE  Exists(id)' => Exists(id)
  BY <1>1, <1>5 DEF HoldCommits, WriteRow, Exists
<1>6. CASE ServerCrash \/ UNCHANGED serverVars
  BY <1>6 DEF ServerCrash, serverVars, Exists
<1> QED
  BY <1>2, <1>3, <1>4, <1>5, <1>6 DEF ServerNext, ServerWork, Statement, Exists

----------------------------------------------------------------------------
(* The invariant.                                                           *)

\* Accounts that are new stay announced.
LEMMA NewAccountsKept ==
    ASSUME ServerInv, NewAccounts, [ServerNext]_serverVars
    PROVE  NewAccounts'
<1>1. Stepped /\ TableStep /\ UNCHANGED query /\ drawn \subseteq drawn'
  BY EveryStep DEF Stepped, TableStep
<1>2. {id \in Ids : Earlier[id].email # NoEmail} \subseteq drawn'
  BY <1>1 DEF NewAccounts
<1>3. ASSUME NEW r \in Requests, query'[r].kind = "create"
      PROVE  answer'[r].code \in CreateCodes
  BY <1>1, <1>3, AnswersStay, CreateAnswered DEF NewAccounts
<1>4. ASSUME NEW r \in Requests, Created(r)'
      PROVE  Earlier[answer'[r].id].email = NoEmail
  <2>1. CASE Created(r)
    BY <1>1, <2>1, AnswersStay DEF NewAccounts, Created
  <2>2. CASE ~Created(r)
    <3>1. answer'[r].id \in drawn' \ drawn
      BY <1>1, <1>4, <2>2, RepliesTyped DEF Stepped, StepOf, Fits, Created, Codes
    <3>2. answer'[r].id \in Ids
      BY <1>1, <3>1 DEF TableStep
    <3> QED
      BY <3>1, <3>2 DEF NewAccounts
  <2> QED
    BY <2>1, <2>2
<1>5. ASSUME ~Renames', faults'["statement"] = 0, NEW id \in Ids, Exists(id)'
      PROVE  \/ rows'[id].email = Earlier[id].email
             \/ \E r \in Requests : /\ Created(r)'
                                    /\ answer'[r].id = id
                                    /\ query'[r].email = rows'[id].email
  <2>1. ~Renames /\ faults["statement"] = 0
    BY <1>1, <1>5, StillRenames DEF Stepped, FaultStep
  <2>2. CASE Exists(id)
    <3>1. rows'[id].email = rows[id].email
      BY <1>1, <2>1, <2>2, TableKept
    <3>2. ASSUME NEW r \in Requests, Created(r)
          PROVE  Created(r)' /\ answer'[r] = answer[r]
      BY <1>1, <3>2, AnswersStay DEF Created
    <3> QED
      BY <1>1, <2>1, <2>2, <3>1, <3>2 DEF NewAccounts
  <2>3. CASE ~Exists(id)
    BY <1>5, <2>3, NewRowAnnounced
  <2> QED
    BY <2>2, <2>3
<1> QED
  BY <1>2, <1>3, <1>4, <1>5 DEF NewAccounts

\* A client is told what was answered, and answers stay.
LEMMA ToldKept ==
    ASSUME ServerInv, ToldAsAnswered, [UserApiNext]_userApiVars
    PROVE  ToldAsAnswered'
<1>1. /\ [ServerNext]_serverVars
      /\ UNCHANGED query
  BY StepsOfTheServer, EveryStep DEF Stepped, TableStep
<1>2. \A r \in Requests : answer[r].code # "none" => answer'[r] = answer[r]
  BY <1>1, AnswersStay
<1>3. ASSUME NEW r \in Requests, ServerReceives(r)
      PROVE  ToldAsAnswered'
  <2>1. /\ UNCHANGED told /\ wire' \subseteq wire
        /\ Routed(query[r]) => r \in wire
    BY <1>3 DEF ServerReceives, Arrive, frontVars
  <2>2. \A s \in Requests \ {r} : step'[s] = step[s]
    BY <1>3 DEF ServerReceives, Receive, Goto, Answer, ServerInv, ServerTypeOK
  <2> QED
    BY <1>1, <1>2, <2>1, <2>2 DEF ToldAsAnswered, Good
<1>4. ASSUME NEW r \in Requests, ServerAnswers(r)
      PROVE  ToldAsAnswered'
  <2>1. /\ told[r] = "waiting" /\ UNCHANGED <<wire, step, answer>>
        /\ told' = [told EXCEPT ![r] = Told(answer[r].code)]
        /\ answer[r].code # "none"
    BY <1>4 DEF ServerAnswers, Tell, serverVars
  <2> QED
    BY <1>1, <2>1 DEF ToldAsAnswered, Told, Good
<1>5. CASE ServerWorks
  <2>1. UNCHANGED <<told, wire>>
    BY <1>5 DEF ServerWorks, frontVars
  <2>2. \A s \in Requests : step[s] = "idle" => step'[s] = "idle"
    BY <1>5 DEF ServerWorks, ServerWork, Statement, Lookup, Insert, GetUser,
       VerifyUser, Update, Reread, Goto, Answer, HoldCommits, ServerCrash,
       InProgress, ServerInv, ServerTypeOK
  <2> QED
    BY <1>1, <1>2, <2>1, <2>2 DEF ToldAsAnswered, Good
<1>6. CASE GatewayMoves
  <2>1. UNCHANGED <<step, answer>>
    BY <1>6 DEF GatewayMoves, serverVars
  <2>2. /\ wire' \subseteq Requests
        /\ \A s \in Requests : /\ told'[s] \in {told[s], "waiting", "lost"}
                               /\ told'[s] = "idle" => s \notin wire' \/ s \in wire
        /\ told' \in [Requests -> {"idle", "waiting", "ok", "refused", "lost"}]
    BY <1>6 DEF GatewayMoves, GatewayStep, Listen, GatewayCrash, Forward,
       LoseRequest, Deadline, Tell, Broken, ToldAsAnswered
  <2> QED
    BY <1>1, <2>1, <2>2 DEF ToldAsAnswered
<1>7. CASE UNCHANGED userApiVars
  BY <1>7 DEF userApiVars, frontVars, serverVars, ToldAsAnswered
<1> QED
  BY <1>3, <1>4, <1>5, <1>6, <1>7 DEF UserApiNext

\* Nothing is told at first.
LEMMA UserApiStarts == UserApiInit => UserApiInv
<1> SUFFICES ASSUME UserApiInit
             PROVE  UserApiInv
  OBVIOUS
<1>1. ServerInit /\ ServerInv
  BY ServerStarts DEF UserApiInit
<1>2. ToldAsAnswered
  BY <1>1 DEF UserApiInit, GatewayInit, ToldAsAnswered, ServerInit
<1>3. \A r \in Requests : answer[r].code = "none"
  BY <1>1, RepliesTyped DEF ServerInit, Codes
<1>4. NewAccounts
  BY <1>1, <1>3 DEF ServerInit, NewAccounts, Created, CreateCodes
<1> QED
  BY <1>1, <1>2, <1>4 DEF UserApiInv

\* The invariant of server and gateway.
LEMMA UserApiInvariant == UserApiSpec => []UserApiInv
<1>1. UserApiInv /\ [UserApiNext]_userApiVars => UserApiInv'
  <2> SUFFICES ASSUME UserApiInv, [UserApiNext]_userApiVars
               PROVE  UserApiInv'
    OBVIOUS
  <2>1. [ServerNext]_serverVars
    BY StepsOfTheServer
  <2>2. ServerInv'
    BY <2>1, EveryStep, TypesKept, PlacesKept, AccountsKeptStep, WinnersKept,
       RepliesKept DEF ServerInv, UserApiInv
  <2> QED
    BY <2>1, <2>2, ToldKept, NewAccountsKept DEF UserApiInv
<1> QED
  BY <1>1, UserApiStarts, PTL DEF UserApiSpec

----------------------------------------------------------------------------
(* What clients can rely on.                                                *)

\* The server behind the gateway is the server on its own: whatever holds of
\* ServerSpec holds of it, whichever requests are lost or given up.
THEOREM ServerBehindGateway == UserApiSpec => ServerSpec
<1>1. UserApiInit => ServerInit
  BY DEF UserApiInit
<1>2. [UserApiNext]_userApiVars => [ServerNext]_serverVars
  BY StepsOfTheServer
<1> QED
  BY <1>1, <1>2, PTL DEF UserApiSpec, ServerSpec

\* When all clients that asked for an account with an e-mail got the service's
\* own answer, one of them was told that it made the account exactly when
\* somebody did (server.go:71-110, gateway.js:21-35).
THEOREM ToldTruly == UserApiSpec => []CreateToldTruly
<1>1. UserApiInv => CreateToldTruly
  <2> SUFFICES ASSUME UserApiInv, ~Renames, faults["statement"] = 0,
                      NEW e \in Emails,
                      \A r \in Creates(e) : told[r] \in {"idle", "ok", "refused"}
               PROVE  (\E id \in Ids : rows[id].email = e /\ Earlier[id].email # e)
                        <=> (\E r \in Creates(e) : told[r] = "ok")
    BY DEF CreateToldTruly
  <2>1. e # NoEmail
    BY ServerAssumption
  <2>2. ASSUME NEW r \in Requests, Created(r), query[r].email = e
        PROVE  /\ answer[r].id \in Ids /\ rows[answer[r].id].email = e
               /\ Earlier[answer[r].id].email # e
    BY <2>1, <2>2 DEF UserApiInv, ServerInv, ServerTypeOK, AccountsKept, NewAccounts
  <2>3. ASSUME NEW r \in Creates(e), told[r] = "ok"
        PROVE  Created(r)
    BY <2>3 DEF Creates, UserApiInv, ToldAsAnswered, NewAccounts, CreateCodes,
       Good, Created
  <2>4. ASSUME NEW id \in Ids, rows[id].email = e, Earlier[id].email # e
        PROVE  \E r \in Creates(e) : told[r] = "ok"
    <3>1. PICK r \in Requests : Created(r) /\ query[r].email = e
      BY <2>1, <2>4 DEF UserApiInv, NewAccounts, Exists
    <3>2. r \in Creates(e) /\ answer[r].code = "OK" /\ Routed(query[r])
      BY <3>1 DEF Created, Creates, Routed
    <3>3. step[r] = "done"
      BY <3>2, RepliesTyped DEF UserApiInv, ServerInv, Answered, Codes
    <3>4. told[r] = "ok"
      BY <3>2, <3>3 DEF UserApiInv, ToldAsAnswered, Good
    <3> QED
      BY <3>2, <3>4
  <2> QED
    BY <2>2, <2>3, <2>4 DEF Creates
<1> QED
  BY <1>1, UserApiInvariant, PTL
=============================================================================
