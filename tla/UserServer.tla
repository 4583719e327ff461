----------------------------- MODULE UserServer ----------------------------
(***************************************************************************)
(* services/users/server/server.go: the gRPC methods of the users service  *)
(* on table users.  Every request has a goroutine of its own; each         *)
(* statement it sends to Postgres is a step, and other requests, and the   *)
(* consumer of topic "invoice" writing balances, come between them.        *)
(*                                                                         *)
(* A row without an e-mail stands for no row: no method writes one, and it *)
(* is what Get leaves in a fresh bean that it could not fill.              *)
(***************************************************************************)
EXTENDS Integers

CONSTANTS Requests,   \* the calls made in a run
          Ids,        \* ids the serial column can hand out
          Emails,
          NoId,       \* an id that does not parse, or is not positive
          NoEmail,
          Queries,    \* what a call may ask for
          Earlier,    \* table users as earlier calls have left it
          HoldsLeave, \* balances the consumer may leave behind
          FaultLimit  \* how often each kind of disturbance may happen

Kinds == {"create", "get", "verify", "update"}
Disturbances == {"statement",  \* a statement fails, applied or not
                 "hold",       \* the consumer commits a hold
                 "crash"}      \* the process is killed and starts again

Query == [kind : Kinds, id : Ids \cup {NoId}, email : Emails \cup {NoEmail},
          balance : Int, change : BOOLEAN]

Row(email, balance) == [email |-> email, balance |-> balance]
NoRow == Row(NoEmail, 0)
Table == [Ids -> [email : Emails \cup {NoEmail}, balance : Int]]

\* The unique index on column email (models.go:6).
UniqueEmails(table) ==
    \A a, b \in Ids :
        table[a].email = table[b].email /\ table[a].email # NoEmail => a = b

ASSUME ServerAssumption ==
    /\ NoId \notin Ids
    /\ NoEmail \notin Emails
    /\ Queries \subseteq Query
    /\ Earlier \in Table
    /\ UniqueEmails(Earlier)
    /\ HoldsLeave \subseteq Int
    /\ FaultLimit \in [Disturbances -> Nat]

VARIABLES rows,    \* table users
          drawn,   \* ids the sequence behind the serial column has given out
          step,    \* where the goroutine of each request stands
          query,   \* what the request asks for
          answer,  \* what it was answered
          since,   \* history: the states of its row since its update
          faults   \* how often each kind of disturbance has happened

serverVars == <<rows, drawn, step, query, answer, since, faults>>

Steps == {"idle", "lookup", "insert", "get", "verify", "update", "reread",
          "done"}

\* What a method returns: a gRPC code ("yes" and "no" stand for Verified), and
\* the profile when there is one.
Reply(code, id, row) == [code |-> code, id |-> id, row |-> row]
Profile(id, row) == Reply("OK", id, row)
Status(code) == Reply(code, NoId, NoRow)

Codes == {"none", "OK", "yes", "no", "InvalidArgument", "AlreadyExists",
          "NotFound", "Internal", "Unknown", "Canceled", "lost"}

ServerInit ==
    /\ rows = Earlier
    /\ drawn = {id \in Ids : Earlier[id].email # NoEmail}
    /\ step = [r \in Requests |-> "idle"]
    /\ query \in [Requests -> Queries]
    /\ answer = [r \in Requests |-> Status("none")]
    /\ since = [r \in Requests |-> {}]
    /\ faults = [kind \in Disturbances |-> 0]

----------------------------------------------------------------------------
(* The parts of the methods.                                                *)

Disturb(kind) ==
    /\ faults[kind] < FaultLimit[kind]
    /\ faults' = [faults EXCEPT ![kind] = @ + 1]

Goto(r, place) == step' = [step EXCEPT ![r] = place] /\ UNCHANGED answer

Answer(r, reply) ==
    /\ step' = [step EXCEPT ![r] = "done"]
    /\ answer' = [answer EXCEPT ![r] = reply]

Exists(id) == rows[id].email # NoEmail

\* Mutant of Taken: the condition is left out of the lookup, as xorm leaves
\* out a column whose value in the bean is zero.
TakenByAnyone(e) == \E id \in Ids : Exists(id)

\* db.Engine.Get by e-mail.
Taken(e) == \E id \in Ids : rows[id].email = e

\* Mutant of Conflict: the column has no unique index.
ConflictUnseen(id, e) == FALSE

\* The unique index refuses e for the row of id.
Conflict(id, e) == \E other \in Ids \ {id} : rows[other].email = e

\* The write of one row, seen by the requests that have updated that row and
\* are about to read it again.
WriteRow(id, row) ==
    /\ rows' = [rows EXCEPT ![id] = row]
    /\ since' = [r \in Requests |->
                     IF step'[r] = "reread" /\ query[r].id = id
                     THEN since[r] \cup {row} ELSE since[r]]

\* What a method refuses before it asks the database.
Refusal(q) ==
    CASE q.kind = "create" /\ (q.email = NoEmail \/ q.balance < 0)
           -> "InvalidArgument"
      [] q.kind # "create" /\ q.id = NoId -> "NotFound"
      [] q.kind = "update" /\ q.email = NoEmail /\ ~q.change -> "Canceled"
      [] OTHER -> "none"

----------------------------------------------------------------------------
(* The steps.                                                               *)

Receive(r) ==
    /\ step[r] = "idle"
    /\ IF Refusal(query[r]) = "none"
       THEN Goto(r, IF query[r].kind = "create" THEN "lookup" ELSE query[r].kind)
       ELSE Answer(r, Status(Refusal(query[r])))
    /\ UNCHANGED <<rows, drawn, query, since, faults>>

\* CreateUser looks the e-mail up ...
Lookup(r) ==
    /\ step[r] = "lookup"
    /\ \/ /\ IF Taken(query[r].email)
             THEN Answer(r, Status("AlreadyExists"))
             ELSE Goto(r, "insert")
          /\ UNCHANGED faults
       \/ /\ Disturb("statement")
          /\ Answer(r, Status("Unknown"))
    /\ UNCHANGED <<rows, drawn, query, since>>

\* ... and inserts.  A serial id is drawn whether or not the insert succeeds.
Insert(r) ==
    LET new == Row(query[r].email, query[r].balance)
    IN /\ step[r] = "insert"
       /\ \E id \in Ids \ drawn :
            /\ drawn' = drawn \cup {id}
            /\ \/ /\ ~Conflict(id, new.email)
                  /\ Answer(r, Profile(id, new))
                  /\ WriteRow(id, new)
                  /\ UNCHANGED faults
               \/ /\ Conflict(id, new.email)
                  /\ Answer(r, Status("Unknown"))
                  /\ UNCHANGED <<rows, since, faults>>
               \/ /\ Disturb("statement")
                  /\ Answer(r, Status("Unknown"))
                  /\ \/ ~Conflict(id, new.email) /\ WriteRow(id, new)
                     \/ UNCHANGED <<rows, since>>
       /\ UNCHANGED query

GetUser(r) ==
    /\ step[r] = "get"
    /\ \/ /\ Answer(r, IF Exists(query[r].id)
                       THEN Profile(query[r].id, rows[query[r].id])
                       ELSE Status("NotFound"))
          /\ UNCHANGED faults
       \/ /\ Disturb("statement")
          /\ Answer(r, Status("Internal"))
    /\ UNCHANGED <<rows, drawn, query, since>>

VerifyUser(r) ==
    /\ step[r] = "verify"
    /\ \/ /\ Answer(r, Status(IF ~Exists(query[r].id) THEN "NotFound"
                             ELSE IF rows[query[r].id].balance >= query[r].balance
                             THEN "yes" ELSE "no"))
          /\ UNCHANGED faults
       \/ /\ Disturb("statement")
          /\ Answer(r, Status("Unknown"))
    /\ UNCHANGED <<rows, drawn, query, since>>

\* determineChanges: an e-mail that is given, a balance when asked for.
Changed(row, q) ==
    Row(IF q.email # NoEmail THEN q.email ELSE row.email,
        IF q.change THEN q.balance ELSE row.balance)

\* UPDATE ... WHERE id: no row affected and an error are answered alike.
Update(r) ==
    LET q == query[r]
        possible == Exists(q.id) /\ ~Conflict(q.id, Changed(rows[q.id], q).email)
        Apply == WriteRow(q.id, Changed(rows[q.id], q))
    IN /\ step[r] = "update"
       /\ \/ /\ possible
             /\ Goto(r, "reread")
             /\ Apply
             /\ UNCHANGED faults
          \/ /\ ~possible
             /\ Answer(r, Status("Unknown"))
             /\ UNCHANGED <<rows, since, faults>>
          \/ /\ Disturb("statement")
             /\ Answer(r, Status("Unknown"))
             /\ (possible /\ Apply) \/ UNCHANGED <<rows, since>>
       /\ UNCHANGED <<drawn, query>>

\* Mutant of ReadAgain: the reply is built from the request.
ReadAgainNot(q) == Changed(NoRow, q)

ReadAgain(q) == rows[q.id]

\* UpdateUser answers with the row it reads again; the error of that read is
\* dropped, and the profile is then empty but for its id.
Reread(r) ==
    /\ step[r] = "reread"
    /\ \/ /\ Answer(r, Profile(query[r].id, ReadAgain(query[r])))
          /\ UNCHANGED faults
       \/ /\ Disturb("statement")
          /\ Answer(r, Profile(query[r].id, NoRow))
    /\ UNCHANGED <<rows, drawn, query, since>>

\* The consumer's transaction commits: it writes column balance by id.
HoldCommits(id, b) ==
    /\ Exists(id)
    /\ Disturb("hold")
    /\ UNCHANGED <<drawn, step, query, answer>>
    /\ WriteRow(id, [rows[id] EXCEPT !.balance = b])

InProgress(r) == step[r] \notin {"idle", "done"}

\* Kill and restart: the goroutines are gone, their clients are told that
\* the connection broke.
ServerCrash ==
    /\ \E r \in Requests : InProgress(r)
    /\ Disturb("crash")
    /\ step' = [r \in Requests |-> IF InProgress(r) THEN "done" ELSE step[r]]
    /\ answer' = [r \in Requests |-> IF InProgress(r) THEN Status("lost")
                                     ELSE answer[r]]
    /\ UNCHANGED <<rows, drawn, query, since>>

\* The statements of the methods.
Statement(r) ==
    \/ Lookup(r)
    \/ Insert(r)
    \/ GetUser(r)
    \/ VerifyUser(r)
    \/ Update(r)
    \/ Reread(r)

\* What happens in the service without a new request.
ServerWork ==
    \/ \E r \in Requests : Statement(r)
    \/ \E id \in Ids, b \in HoldsLeave : HoldCommits(id, b)
    \/ ServerCrash

ServerNext == (\E r \in Requests : Receive(r)) \/ ServerWork

ServerSpec == ServerInit /\ [][ServerNext]_serverVars

----------------------------------------------------------------------------
(* Properties.                                                              *)

\* Rows, replies and histories have the shapes the methods give them, and the
\* table keeps its index.
ServerTypeOK ==
    /\ rows \in Table
    /\ UniqueEmails(rows)
    /\ {id \in Ids : Exists(id)} \subseteq drawn
    /\ drawn \subseteq Ids
    /\ step \in [Requests -> Steps]
    /\ query \in [Requests -> Queries]
    /\ answer \in [Requests -> [code : Codes, id : Ids \cup {NoId},
                               row : [email : Emails \cup {NoEmail},
                                      balance : Int]]]
    /\ since \in [Requests -> SUBSET [email : Emails \cup {NoEmail},
                                     balance : Int]]
    /\ faults \in [Disturbances -> Nat]

\* A call that has set an account's e-mail, or may still do so.
Renames == \E r \in Requests : /\ query[r].kind = "update"
                               /\ query[r].email # NoEmail
                               /\ step[r] # "idle"

\* Of two CreateUser calls for one e-mail at most one is told that it has
\* made the account, although both may have found the e-mail free
\* (server.go:85-99); an account that changes its e-mail frees the old one.
OneAccountPerEmail ==
    ~Renames => \A r, s \in Requests :
        /\ query[r].kind = "create" /\ answer[r].code = "OK"
        /\ query[s].kind = "create" /\ answer[s].code = "OK"
        /\ query[r].email = query[s].email
        => r = s

\* Racing CreateUser calls do not all fail: when one that names an e-mail
\* and a balance is refused, and no statement failed, an account has the
\* e-mail.
SomebodyWins ==
    ~Renames /\ faults["statement"] = 0 =>
        \A r \in Requests :
            /\ query[r].kind = "create"
            /\ answer[r].code \in {"AlreadyExists", "Unknown"}
            => \E id \in Ids : rows[id].email = query[r].email

\* The profile in UpdateUser's reply is a state its row has had since its
\* own update, whoever wrote the row before the second read
\* (server.go:179-185), unless that read failed.
ReplyCurrent ==
    \A r \in Requests :
        query[r].kind = "update" /\ answer[r].code = "OK" =>
            \/ answer[r].row \in since[r]
            \/ answer[r].row = NoRow /\ faults["statement"] > 0
=============================================================================
