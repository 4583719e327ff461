-------------------------- MODULE UserServerProofs -------------------------
(***************************************************************************)
(* The gRPC methods of services/users keep table users and their replies   *)
(* right, for any number of calls, accounts and failing statements.        *)
(***************************************************************************)
EXTENDS UserServer, TLAPS

Rows == [email : Emails \cup {NoEmail}, balance : Int]

\* A goroutine is in a method its request asked for, and has passed the
\* checks that come before the first statement.
Placed ==
    \A r \in Requests :
        /\ step[r] \in {"lookup", "insert"} => /\ query[r].kind = "create"
                                               /\ query[r].email \in Emails
        /\ step[r] \in {"get", "verify"} => query[r].kind = step[r]
        /\ step[r] \in {"update", "reread"} => query[r].kind = "update"
        /\ step[r] \in {"get", "verify", "update", "reread"}
             => query[r].id \in Ids

\* A request that has updated a row knows the row's present state.
Watched ==
    \A r \in Requests :
        step[r] = "reread" => rows[query[r].id] \in since[r]

Created(r) == query[r].kind = "create" /\ answer[r].code = "OK"

\* Every account that a CreateUser call announced has an id of its own, and
\* keeps the e-mail it was made with as long as nobody renames.
AccountsKept ==
    /\ \A r \in Requests : Created(r) => answer[r].id \in drawn
    /\ \A r, s \in Requests :
          Created(r) /\ Created(s) /\ answer[r].id = answer[s].id => r = s
    /\ ~Renames => \A r \in Requests :
          Created(r) => rows[answer[r].id].email = query[r].email

\* A request has an answer only when it is done; a CreateUser call that got
\* past the first checks has named an e-mail.
Answered ==
    \A r \in Requests :
        /\ step[r] # "done" => answer[r] = Status("none")
        /\ /\ query[r].kind = "create"
           /\ answer[r].code \in {"OK", "AlreadyExists", "Unknown"}
           => query[r].email # NoEmail

ServerInv ==
    /\ ServerTypeOK
    /\ Placed
    /\ Watched
    /\ AccountsKept
    /\ Answered
    /\ SomebodyWins
    /\ ReplyCurrent

----------------------------------------------------------------------------
(* What a step does to the table.                                           *)

\* One row is written, and the unique index allows it.
RowWrite(id, row) ==
    /\ rows' = [rows EXCEPT ![id] = row]
    /\ \A other \in Ids \ {id} : rows[other].email # row.email
    /\ row.email # NoEmail
    /\ id \in drawn'
    /\ Exists(id) /\ ~Renames => row.email = rows[id].email

TableStep ==
    /\ UNCHANGED rows \/ (\E id \in Ids, row \in Rows : RowWrite(id, row))
    /\ drawn \subseteq drawn'
    /\ drawn' \subseteq Ids
    /\ UNCHANGED query

\* What a request asks for has the types of its fields.
LEMMA QueryTypes ==
    ASSUME ServerTypeOK, NEW r \in Requests
    PROVE  /\ query[r] \in Queries
           /\ query[r].kind \in Kinds
           /\ query[r].id \in Ids \cup {NoId}
           /\ query[r].email \in Emails \cup {NoEmail}
           /\ query[r].balance \in Int
           /\ query[r].change \in BOOLEAN
  BY ServerAssumption DEF ServerTypeOK, Query

\* A present row has an id from the sequence.
LEMMA RowTypes ==
    ASSUME ServerTypeOK, NEW id \in Ids
    PROVE  /\ rows[id] \in Rows
           /\ rows[id].email \in Emails \cup {NoEmail}
           /\ rows[id].balance \in Int
           /\ Exists(id) => id \in drawn
  BY DEF ServerTypeOK, Table, Rows, Exists

\* CreateUser inserts at a fresh id an e-mail that no other row has.
LEMMA InsertWrites ==
    ASSUME ServerInv, NEW r \in Requests, Insert(r)
    PROVE  TableStep
<1> DEFINE new == Row(query[r].email, query[r].balance)
<1>1. /\ query[r].email \in Emails
      /\ query[r].email # NoEmail
      /\ new \in Rows
      /\ new.email = query[r].email
  BY QueryTypes, ServerAssumption DEF ServerInv, Placed, Insert, Row, Rows
<1> HIDE DEF new
<1>2. PICK id \in Ids \ drawn :
        /\ drawn' = drawn \cup {id}
        /\ \/ UNCHANGED rows
           \/ ~Conflict(id, new.email) /\ rows' = [rows EXCEPT ![id] = new]
  BY DEF Insert, WriteRow, new
<1>3. ~Exists(id)
  BY RowTypes DEF ServerInv
<1>4. ~Conflict(id, new.email) /\ rows' = [rows EXCEPT ![id] = new]
        => RowWrite(id, new)
  BY <1>1, <1>2, <1>3 DEF RowWrite, Conflict
<1>5. UNCHANGED query
  BY DEF Insert
<1> QED
  BY <1>1, <1>2, <1>4, <1>5 DEF TableStep, ServerInv, ServerTypeOK

\* UpdateUser writes a row that exists, and another e-mail only when it
\* renames.
LEMMA UpdateWrites ==
    ASSUME ServerInv, NEW r \in Requests, Update(r)
    PROVE  TableStep
<1> DEFINE id == query[r].id
           row == Changed(rows[id], query[r])
<1>1. /\ step[r] = "update"
      /\ query[r].kind = "update"
      /\ id \in Ids
  BY DEF Update, ServerInv, Placed
<1>2. /\ row \in Rows
      /\ row.email = IF query[r].email # NoEmail THEN query[r].email
                     ELSE rows[id].email
  BY <1>1, QueryTypes, RowTypes DEF ServerInv, Changed, Row, Rows
<1>3. ~Renames => row.email = rows[id].email
  BY <1>1, <1>2 DEF Renames
<1>4. /\ UNCHANGED <<drawn, query>>
      /\ \/ UNCHANGED rows
         \/ /\ Exists(id) /\ ~Conflict(id, row.email)
            /\ rows' = [rows EXCEPT ![id] = row]
  BY DEF Update, WriteRow
<1>5. Exists(id) => row.email # NoEmail
  BY <1>2 DEF Exists
<1> HIDE DEF id, row
<1>6. ASSUME Exists(id), ~Conflict(id, row.email), rows' = [rows EXCEPT ![id] = row]
      PROVE  RowWrite(id, row)
  BY <1>1, <1>3, <1>4, <1>5, <1>6, RowTypes DEF RowWrite, Conflict, ServerInv
<1> QED
  BY <1>1, <1>2, <1>4, <1>6 DEF TableStep, ServerInv, ServerTypeOK

\* The consumer's commit changes no e-mail.
LEMMA HoldWrites ==
    ASSUME ServerInv, NEW id \in Ids, NEW b \in HoldsLeave, HoldCommits(id, b)
    PROVE  TableStep
<1> DEFINE row == [rows[id] EXCEPT !.balance = b]
<1>1. row \in Rows /\ row.email = rows[id].email
  BY RowTypes, ServerAssumption DEF ServerInv, Rows
<1>2. /\ Exists(id)
      /\ UNCHANGED <<drawn, query>>
      /\ rows' = [rows EXCEPT ![id] = row]
  BY DEF HoldCommits, WriteRow
<1>3. \A other \in Ids \ {id} : rows[other].email # rows[id].email
  BY <1>2 DEF ServerInv, ServerTypeOK, UniqueEmails, Exists
<1> HIDE DEF row
<1>4. RowWrite(id, row)
  BY <1>1, <1>2, <1>3, RowTypes DEF RowWrite, Exists, ServerInv
<1> QED
  BY <1>1, <1>2, <1>4 DEF TableStep, ServerInv, ServerTypeOK

\* Every step writes at most one row, in a way the index allows.
LEMMA EveryTableStep ==
    ASSUME ServerInv, [ServerNext]_serverVars
    PROVE  TableStep
<1>1. ASSUME NEW r \in Requests,
             Receive(r) \/ Lookup(r) \/ GetUser(r) \/ VerifyUser(r) \/ Reread(r)
      PROVE  TableStep
  BY <1>1 DEF Receive, Lookup, GetUser, VerifyUser, Reread, TableStep, ServerInv,
     ServerTypeOK
<1>2. CASE ServerCrash \/ UNCHANGED serverVars
  BY <1>2 DEF ServerCrash, serverVars, TableStep, ServerInv, ServerTypeOK
<1> QED
  BY <1>1, <1>2, InsertWrites, UpdateWrites, HoldWrites DEF ServerNext, ServerWork, Statement

\* Such a step keeps the index, and every e-mail where nobody renames.
LEMMA TableKept ==
    ASSUME ServerInv, TableStep
    PROVE  /\ rows' \in Table
           /\ UniqueEmails(rows')
           /\ {id \in Ids : rows'[id].email # NoEmail} \subseteq drawn'
           /\ ~Renames => \A id \in Ids :
                 Exists(id) => rows'[id].email = rows[id].email
<1>1. CASE UNCHANGED rows
  BY <1>1 DEF ServerInv, ServerTypeOK, TableStep, Exists
<1>2. CASE \E id \in Ids, row \in Rows : RowWrite(id, row)
  <2>1. PICK id \in Ids, row \in Rows : RowWrite(id, row)
    BY <1>2
  <2>2. /\ rows' \in Table
        /\ \A other \in Ids : rows'[other] = IF other = id THEN row ELSE rows[other]
    BY <2>1 DEF RowWrite, ServerInv, ServerTypeOK, Table, Rows
  <2>3. UniqueEmails(rows')
    BY <2>1, <2>2 DEF RowWrite, UniqueEmails, ServerInv, ServerTypeOK
  <2> QED
    BY <2>1, <2>2, <2>3 DEF RowWrite, ServerInv, ServerTypeOK, TableStep, Exists
<1> QED
  BY <1>1, <1>2 DEF TableStep

----------------------------------------------------------------------------
(* What a step does to the requests.                                        *)

\* Request r takes a step of its own; the others stay where they are.
Moves(r) ==
    /\ step' \in [Requests -> Steps]
    /\ step[r] # "done" /\ step'[r] \notin {"idle", step[r]}
    /\ step'[r] # "done" => answer'[r] = answer[r]
    /\ \A s \in Requests \ {r} : step'[s] = step[s] /\ answer'[s] = answer[s]

\* A request keeps its place and answer, or is cut off.
CutOff ==
    /\ step' \in [Requests -> Steps]
    /\ \A s \in Requests :
          \/ step'[s] = step[s] /\ answer'[s] = answer[s]
          \/ step'[s] = "done" /\ step[s] # "idle" /\ answer'[s] = Status("lost")

RequestStep(r) ==
    \/ Receive(r) \/ Lookup(r) \/ Insert(r) \/ GetUser(r) \/ VerifyUser(r)
    \/ Update(r) \/ Reread(r)

\* Going somewhere, or answering, moves the request.
LEMMA Gone ==
    ASSUME ServerTypeOK, NEW r \in Requests, step[r] # "done",
           NEW place \in Steps \ {"idle", step[r]}, Goto(r, place)
    PROVE  Moves(r) /\ step'[r] = place
  BY DEF Goto, Moves, ServerTypeOK

\* The same for an answer.
LEMMA Replied ==
    ASSUME ServerTypeOK, NEW r \in Requests, step[r] # "done",
           NEW reply, Answer(r, reply)
    PROVE  /\ Moves(r) /\ step'[r] = "done" /\ answer'[r] = reply
           /\ answer' = [answer EXCEPT ![r] = reply]
  BY DEF Answer, Moves, ServerTypeOK, Steps

\* The histories of a step: they grow, and a request that is about to read
\* has seen the row it will read.
SinceStep ==
    /\ since' \in [Requests -> SUBSET Rows]
    /\ \A s \in Requests :
          /\ since[s] \subseteq since'[s]
          /\ step'[s] = "reread" => rows'[query[s].id] \in since'[s]

FaultStep ==
    /\ faults' \in [Disturbances -> Nat]
    /\ faults'["statement"] = 0 => faults["statement"] = 0

Replies == [code : Codes, id : Ids \cup {NoId}, row : Rows]

\* The step of a request leaves what the invariant says of that request.
Fits(r) ==
    /\ Moves(r) /\ SinceStep /\ FaultStep
    /\ answer'[r] \in Replies
    /\ step'[r] \in {"lookup", "insert"} => /\ query[r].kind = "create"
                                            /\ query[r].email \in Emails
    /\ step'[r] \in {"get", "verify"} => query[r].kind = step'[r]
    /\ step'[r] \in {"update", "reread"} => query[r].kind = "update"
    /\ step'[r] \in {"get", "verify", "update", "reread"} => query[r].id \in Ids
    /\ query[r].kind = "create" =>
          /\ answer'[r].code \in {"OK", "AlreadyExists", "Unknown"}
                => query[r].email # NoEmail
          /\ answer'[r].code = "OK" =>
                /\ answer'[r].id \in drawn' \ drawn
                /\ rows'[answer'[r].id].email = query[r].email
          /\ answer'[r].code \in {"AlreadyExists", "Unknown"}
             /\ faults'["statement"] = 0
                => \E id \in Ids : rows'[id].email = query[r].email
    /\ query[r].kind = "update" /\ answer'[r].code = "OK" =>
          \/ answer'[r].row \in since'[r]
          \/ answer'[r].row = NoRow /\ faults'["statement"] > 0

\* A disturbance is counted.
LEMMA Disturbed ==
    ASSUME ServerTypeOK, NEW kind \in Disturbances, Disturb(kind)
    PROVE  FaultStep /\ (kind = "statement" => faults'["statement"] > 0)
  BY DEF Disturb, FaultStep, ServerTypeOK, Disturbances

\* No disturbance.
LEMMA Undisturbed ==
    ASSUME ServerTypeOK, UNCHANGED faults
    PROVE  FaultStep
  BY DEF FaultStep, ServerTypeOK

\* A write of a row reaches every request that is about to read that row.
LEMMA Seen ==
    ASSUME ServerInv, NEW id \in Ids, NEW row \in Rows, WriteRow(id, row),
           \A s \in Requests : step'[s] = "reread" /\ query[s].id # id
                                  => step[s] = "reread"
    PROVE  SinceStep
<1>1. ASSUME NEW s \in Requests
      PROVE  /\ since'[s] = IF step'[s] = "reread" /\ query[s].id = id
                            THEN since[s] \cup {row} ELSE since[s]
             /\ since[s] \in SUBSET Rows
  BY DEF WriteRow, ServerInv, ServerTypeOK, Rows
<1>2. ASSUME NEW s \in Requests, step'[s] = "reread"
      PROVE  rows'[query[s].id] \in since'[s]
  <2>1. CASE query[s].id = id
    BY <1>1, <1>2, <2>1 DEF WriteRow, ServerInv, ServerTypeOK, Table
  <2>2. CASE query[s].id # id
    BY <1>1, <1>2, <2>2
       DEF WriteRow, ServerInv, ServerTypeOK, Table, Watched
  <2> QED
    BY <2>1, <2>2
<1>3. since' \in [Requests -> SUBSET Rows]
  BY <1>1 DEF WriteRow
<1> QED
  BY <1>1, <1>2, <1>3 DEF SinceStep

\* Without a write the histories stay.
LEMMA NotSeen ==
    ASSUME ServerInv, UNCHANGED <<rows, since>>,
           \A s \in Requests : step'[s] = "reread" => step[s] = "reread"
    PROVE  SinceStep
  BY DEF SinceStep, ServerInv, ServerTypeOK, Watched, Rows

\* The replies are made of a code, an id and a row.
LEMMA RepliesTyped ==
    /\ \A code \in Codes : Status(code) \in Replies /\ Status(code).code = code
    /\ \A id \in Ids, row \in Rows :
          /\ Profile(id, row) \in Replies
          /\ Profile(id, row).code = "OK"
          /\ Profile(id, row).id = id
          /\ Profile(id, row).row = row
    /\ NoRow \in Rows
  BY DEF Status, Profile, Reply, Replies, Rows, NoRow, Row, Codes

----------------------------------------------------------------------------
(* Each method leaves its request well placed and rightly answered.         *)

\* The checks before the first statement.
LEMMA ReceiveFits ==
    ASSUME ServerInv, NEW r \in Requests, Receive(r)
    PROVE  Fits(r)
<1>1. /\ ServerTypeOK /\ step[r] = "idle" /\ answer[r] = Status("none")
      /\ UNCHANGED <<rows, drawn, query, since, faults>>
  BY DEF Receive, ServerInv, Answered
<1>2. FaultStep
  BY <1>1, Undisturbed
<1>3. CASE Refusal(query[r]) = "none"
  <2> DEFINE place == IF query[r].kind = "create" THEN "lookup" ELSE query[r].kind
  <2>1. place \in Steps \ {"idle", step[r]}
    BY <1>1, QueryTypes DEF Kinds, Steps
  <2>2. Goto(r, place)
    BY <1>3 DEF Receive
  <2> HIDE DEF place
  <2>3. Moves(r) /\ step'[r] = place
    BY <1>1, <2>1, <2>2, Gone
  <2>4. /\ query[r].kind = "create" => query[r].email \in Emails
        /\ query[r].kind # "create" => query[r].id \in Ids
    BY <1>1, <1>3, QueryTypes DEF Refusal, Kinds
  <2>5. place # "reread" /\ place # "done" /\ place # "insert"
    BY <1>1, QueryTypes DEF Kinds, place
  <2>6. SinceStep
    BY <1>1, <2>3, <2>5, NotSeen DEF Moves
  <2>7. answer'[r] = Status("none")
    BY <1>1, <2>3, <2>5 DEF Moves
  <2> QED
    BY <1>1, <1>2, <2>3, <2>4, <2>5, <2>6, <2>7, RepliesTyped, QueryTypes
       DEF Fits, Codes, place, Kinds
<1>4. CASE Refusal(query[r]) # "none"
  <2>1. Answer(r, Status(Refusal(query[r])))
    BY <1>4 DEF Receive
  <2>2. Refusal(query[r]) \in {"InvalidArgument", "NotFound", "Canceled"}
    BY <1>4 DEF Refusal
  <2>3. Moves(r) /\ step'[r] = "done" /\ answer'[r] = Status(Refusal(query[r]))
    BY <1>1, <2>1, Replied
  <2>4. SinceStep
    BY <1>1, <2>3, NotSeen DEF Moves
  <2> QED
    BY <1>2, <2>2, <2>3, <2>4, RepliesTyped DEF Fits, Codes
<1> QED
  BY <1>3, <1>4

\* CreateUser's lookup.
LEMMA LookupFits ==
    ASSUME ServerInv, NEW r \in Requests, Lookup(r)
    PROVE  Fits(r)
<1>1. /\ ServerTypeOK /\ step[r] = "lookup" /\ answer[r] = Status("none")
      /\ query[r].kind = "create" /\ query[r].email \in Emails
      /\ query[r].email # NoEmail
      /\ UNCHANGED <<rows, drawn, query, since>>
  BY ServerAssumption DEF Lookup, ServerInv, Answered, Placed
<1>2. CASE ~Taken(query[r].email) /\ Goto(r, "insert") /\ UNCHANGED faults
  <2>1. Moves(r) /\ step'[r] = "insert"
    BY <1>1, <1>2, Gone DEF Steps
  <2>2. SinceStep /\ FaultStep
    BY <1>1, <1>2, <2>1, NotSeen, Undisturbed DEF Moves
  <2>3. answer'[r] = Status("none")
    BY <1>1, <2>1 DEF Moves
  <2> QED
    BY <1>1, <2>1, <2>2, <2>3, RepliesTyped DEF Fits, Codes
<1>3. ASSUME NEW code \in {"AlreadyExists", "Unknown"}, Answer(r, Status(code)),
             FaultStep,
             faults'["statement"] = 0 => Taken(query[r].email)
      PROVE  Fits(r)
  <2>1. Moves(r) /\ step'[r] = "done" /\ answer'[r] = Status(code)
    BY <1>1, <1>3, Replied
  <2>2. SinceStep
    BY <1>1, <2>1, NotSeen DEF Moves
  <2> QED
    BY <1>1, <1>3, <2>1, <2>2, RepliesTyped DEF Fits, Codes, Taken
<1>4. CASE Taken(query[r].email) /\ Answer(r, Status("AlreadyExists"))
           /\ UNCHANGED faults
  BY <1>1, <1>3, <1>4, Undisturbed
<1>5. CASE Disturb("statement") /\ Answer(r, Status("Unknown"))
  BY <1>1, <1>3, <1>5, Disturbed DEF Disturbances
<1> QED
  BY <1>2, <1>4, <1>5 DEF Lookup

\* CreateUser's insert.
LEMMA InsertFits ==
    ASSUME ServerInv, NEW r \in Requests, Insert(r)
    PROVE  Fits(r)
<1> DEFINE new == Row(query[r].email, query[r].balance)
<1>1. /\ ServerTypeOK /\ step[r] = "insert"
      /\ query[r].kind = "create" /\ query[r].email \in Emails
      /\ query[r].email # NoEmail
      /\ new \in Rows /\ new.email = query[r].email
      /\ UNCHANGED query
  BY QueryTypes, ServerAssumption DEF Insert, ServerInv, Placed, Row, Rows
<1> HIDE DEF new
<1>2. PICK id \in Ids \ drawn :
        /\ drawn' = drawn \cup {id}
        /\ \/ /\ Answer(r, Profile(id, new))
              /\ WriteRow(id, new)
              /\ UNCHANGED faults
           \/ /\ Conflict(id, new.email)
              /\ Answer(r, Status("Unknown"))
              /\ UNCHANGED <<rows, since, faults>>
           \/ /\ Disturb("statement")
              /\ Answer(r, Status("Unknown"))
              /\ WriteRow(id, new) \/ UNCHANGED <<rows, since>>
  BY DEF Insert, new
<1>3. \E reply : Answer(r, reply)
  BY <1>2
<1>4. Moves(r) /\ step'[r] = "done"
  BY <1>1, <1>3, Replied
<1>5. SinceStep
  BY <1>1, <1>2, <1>4, Seen, NotSeen DEF Moves
<1>6. CASE Answer(r, Profile(id, new)) /\ WriteRow(id, new) /\ UNCHANGED faults
  <2>1. answer'[r] = Profile(id, new)
    BY <1>1, <1>6, Replied
  <2>2. rows'[id] = new
    BY <1>1, <1>6 DEF WriteRow, ServerTypeOK, Table
  <2> QED
    BY <1>1, <1>2, <1>4, <1>5, <1>6, <2>1, <2>2, Undisturbed, RepliesTyped DEF Fits
<1>7. CASE Conflict(id, new.email) /\ Answer(r, Status("Unknown"))
           /\ UNCHANGED <<rows, since, faults>>
  <2>1. answer'[r] = Status("Unknown")
    BY <1>1, <1>7, Replied
  <2> QED
    BY <1>1, <1>4, <1>5, <1>7, <2>1, Undisturbed, RepliesTyped
       DEF Fits, Codes, Conflict
<1>8. CASE Disturb("statement") /\ Answer(r, Status("Unknown"))
  <2>1. answer'[r] = Status("Unknown")
    BY <1>1, <1>8, Replied
  <2> QED
    BY <1>1, <1>4, <1>5, <1>8, <2>1, Disturbed, RepliesTyped
       DEF Fits, Codes, Disturbances
<1> QED
  BY <1>2, <1>6, <1>7, <1>8

\* A method that reads one row and answers leaves the request well answered.
LEMMA ReadFits ==
    ASSUME ServerInv, NEW r \in Requests, GetUser(r) \/ VerifyUser(r)
    PROVE  Fits(r)
<1>1. /\ ServerTypeOK /\ step[r] \in {"get", "verify"}
      /\ query[r].kind \in {"get", "verify"} /\ query[r].id \in Ids
      /\ UNCHANGED <<rows, drawn, query, since>>
  BY DEF GetUser, VerifyUser, ServerInv, Placed
<1>2. PICK reply \in Replies : Answer(r, reply)
  <2>1. CASE GetUser(r)
    BY <1>1, <2>1, RowTypes, RepliesTyped DEF GetUser, Codes
  <2>2. CASE VerifyUser(r)
    BY <1>1, <2>2, RepliesTyped DEF VerifyUser, Codes
  <2> QED
    BY <2>1, <2>2
<1>3. FaultStep
  BY <1>1, Disturbed, Undisturbed DEF GetUser, VerifyUser, Disturbances
<1>4. Moves(r) /\ step'[r] = "done" /\ answer'[r] = reply
  BY <1>1, <1>2, Replied
<1>5. SinceStep
  BY <1>1, <1>4, NotSeen DEF Moves
<1> QED
  BY <1>1, <1>2, <1>3, <1>4, <1>5 DEF Fits

\* UpdateUser's update.
LEMMA UpdateFits ==
    ASSUME ServerInv, NEW r \in Requests, Update(r)
    PROVE  Fits(r)
<1> DEFINE id == query[r].id
           row == Changed(rows[id], query[r])
<1>1. /\ ServerTypeOK /\ step[r] = "update" /\ answer[r] = Status("none")
      /\ query[r].kind = "update" /\ id \in Ids
      /\ UNCHANGED <<drawn, query>>
  BY DEF Update, ServerInv, Placed, Answered
<1>2. row \in Rows
  BY <1>1, QueryTypes, RowTypes DEF Changed, Row, Rows
<1>3. \/ Goto(r, "reread") /\ WriteRow(id, row) /\ UNCHANGED faults
      \/ Answer(r, Status("Unknown")) /\ UNCHANGED <<rows, since, faults>>
      \/ /\ Disturb("statement") /\ Answer(r, Status("Unknown"))
         /\ WriteRow(id, row) \/ UNCHANGED <<rows, since>>
  BY DEF Update
<1> HIDE DEF row
<1>4. CASE Goto(r, "reread") /\ WriteRow(id, row) /\ UNCHANGED faults
  <2>1. Moves(r) /\ step'[r] = "reread"
    BY <1>1, <1>4, Gone DEF Steps
  <2>2. SinceStep
    BY <1>1, <1>2, <1>4, <2>1, Seen DEF Moves
  <2>3. answer'[r] = Status("none")
    BY <1>1, <2>1 DEF Moves
  <2> QED
    BY <1>1, <1>4, <2>1, <2>2, <2>3, Undisturbed, RepliesTyped DEF Fits, Codes
<1>5. CASE Answer(r, Status("Unknown"))
  <2>1. Moves(r) /\ step'[r] = "done" /\ answer'[r] = Status("Unknown")
    BY <1>1, <1>5, Replied
  <2>2. SinceStep
    BY <1>1, <1>2, <1>3, <2>1, Seen, NotSeen DEF Moves
  <2>3. FaultStep
    BY <1>1, <1>3, Disturbed, Undisturbed DEF Disturbances
  <2> QED
    BY <1>1, <2>1, <2>2, <2>3, RepliesTyped DEF Fits, Codes
<1> QED
  BY <1>3, <1>4, <1>5

\* UpdateUser's second read.
LEMMA RereadFits ==
    ASSUME ServerInv, NEW r \in Requests, Reread(r)
    PROVE  Fits(r)
<1> DEFINE id == query[r].id
<1>1. /\ ServerTypeOK /\ step[r] = "reread"
      /\ query[r].kind = "update" /\ id \in Ids
      /\ rows[id] \in Rows /\ rows[id] \in since[r]
      /\ UNCHANGED <<rows, drawn, query, since>>
  BY RowTypes DEF Reread, ServerInv, Placed, Watched
<1>2. ASSUME NEW row \in Rows, Answer(r, Profile(id, row)), FaultStep,
             row \in since[r] \/ (row = NoRow /\ faults'["statement"] > 0)
      PROVE  Fits(r)
  <2>1. Moves(r) /\ step'[r] = "done" /\ answer'[r] = Profile(id, row)
    BY <1>1, <1>2, Replied
  <2>2. SinceStep
    BY <1>1, <2>1, NotSeen DEF Moves
  <2> QED
    BY <1>1, <1>2, <2>1, <2>2, RepliesTyped DEF Fits
<1>3. CASE Answer(r, Profile(id, rows[id])) /\ UNCHANGED faults
  BY <1>1, <1>2, <1>3, Undisturbed
<1>4. CASE Disturb("statement") /\ Answer(r, Profile(id, NoRow))
  BY <1>1, <1>2, <1>4, Disturbed, RepliesTyped DEF Disturbances
<1> QED
  BY <1>3, <1>4 DEF Reread, ReadAgain

----------------------------------------------------------------------------
(* The invariant.                                                           *)

\* What a step of one request does to every request: it fits, or keeps its
\* place and answer, or is cut off.
StepOf(s) ==
    \/ Fits(s)
    \/ step'[s] = step[s] /\ answer'[s] = answer[s]
    \/ step'[s] = "done" /\ step[s] # "idle" /\ answer'[s] = Status("lost")

Stepped ==
    /\ TableStep /\ SinceStep /\ FaultStep
    /\ step' \in [Requests -> Steps]
    /\ answer' \in [Requests -> Replies]
    /\ \A s \in Requests : StepOf(s)

\* Every step of the specification is of that kind.
LEMMA EveryStep ==
    ASSUME ServerInv, [ServerNext]_serverVars
    PROVE  Stepped
<1>1. TableStep
  BY EveryTableStep
<1>2. ASSUME NEW r \in Requests, RequestStep(r)
      PROVE  Stepped
  <2>1. Fits(r)
    BY <1>2, ReceiveFits, LookupFits, InsertFits, ReadFits, UpdateFits, RereadFits
       DEF RequestStep
  <2>2. \E f : answer' = [answer EXCEPT ![r] = f] \/ UNCHANGED answer
    BY <1>2 DEF RequestStep, Receive, Lookup, Insert, GetUser, VerifyUser,
       Update, Reread, Goto, Answer
  <2>3. answer' \in [Requests -> Replies]
    BY <2>1, <2>2 DEF Fits, ServerInv, ServerTypeOK, Replies, Rows
  <2> QED
    BY <1>1, <2>1, <2>3 DEF Stepped, StepOf, Fits, Moves
<1>3. CASE ServerCrash
  <2>1. FaultStep /\ SinceStep
    BY <1>3, Disturbed, NotSeen
       DEF ServerCrash, Disturbances, ServerInv, ServerTypeOK, InProgress
  <2>2. /\ step' \in [Requests -> Steps]
        /\ answer' \in [Requests -> Replies]
        /\ \A s \in Requests :
             \/ step'[s] = step[s] /\ answer'[s] = answer[s]
             \/ step'[s] = "done" /\ step[s] # "idle" /\ answer'[s] = Status("lost")
    BY <1>3, RepliesTyped DEF ServerCrash, InProgress, ServerInv, ServerTypeOK,
       Steps, Replies, Rows, Codes
  <2> QED
    BY <1>1, <2>1, <2>2 DEF Stepped, StepOf
<1>4. ASSUME NEW id \in Ids, NEW b \in HoldsLeave, HoldCommits(id, b)
      PROVE  Stepped
  <2>1. [rows[id] EXCEPT !.balance = b] \in Rows
    BY RowTypes, ServerAssumption DEF ServerInv, Rows
  <2>2. SinceStep /\ FaultStep
    BY <1>4, <2>1, Seen, Disturbed DEF HoldCommits, Disturbances, ServerInv
  <2> QED
    BY <1>1, <1>4, <2>2
       DEF Stepped, StepOf, HoldCommits, ServerInv, ServerTypeOK, Replies, Rows
<1>5. CASE UNCHANGED serverVars
  BY <1>1, <1>5, NotSeen, Undisturbed
     DEF Stepped, StepOf, serverVars, ServerInv, ServerTypeOK, Replies, Rows
<1> QED
  BY <1>2, <1>3, <1>4, <1>5 DEF ServerNext, ServerWork, Statement, RequestStep

\* A call that may rename stays one.
LEMMA StillRenames ==
    ASSUME ServerInv, Stepped
    PROVE  Renames => Renames'
  BY DEF Renames, Stepped, StepOf, Fits, Moves, TableStep

\* Types, and the index.
LEMMA TypesKept ==
    ASSUME ServerInv, Stepped
    PROVE  ServerTypeOK'
<1>1. /\ rows' \in Table /\ UniqueEmails(rows)' /\ drawn' \subseteq Ids
      /\ {id \in Ids : Exists(id)}' \subseteq drawn'
  BY TableKept DEF Stepped, TableStep, UniqueEmails, Exists
<1> QED
  BY <1>1 DEF ServerInv, ServerTypeOK, Stepped, TableStep, SinceStep, FaultStep,
     Replies, Rows

\* Places, histories and answers.
LEMMA PlacesKept ==
    ASSUME ServerInv, Stepped
    PROVE  Placed' /\ Watched' /\ Answered'
<1>1. UNCHANGED query
  BY DEF Stepped, TableStep
<1>2. Placed'
  BY <1>1 DEF ServerInv, Placed, Stepped, StepOf, Fits
<1>3. Watched'
  BY <1>1 DEF Watched, Stepped, SinceStep
<1>4. Answered'
  BY <1>1, RepliesTyped DEF ServerInv, Answered, Stepped, StepOf, Fits, Moves, Codes
<1> QED
  BY <1>2, <1>3, <1>4

\* A CreateUser call that is announced now has a fresh id, and one announced
\* before keeps its answer.
LEMMA AccountsKeptStep ==
    ASSUME ServerInv, Stepped
    PROVE  AccountsKept'
<1>1. ASSUME NEW r \in Requests, Created(r)'
      PROVE  \/ Created(r) /\ answer'[r] = answer[r]
             \/ /\ Fits(r)
                /\ answer'[r].id \in drawn' \ drawn
                /\ rows'[answer'[r].id].email = query[r].email
  BY <1>1, RepliesTyped DEF Created, Stepped, StepOf, Fits, TableStep, Codes
<1>2. drawn \subseteq drawn' /\ UNCHANGED query
  BY DEF Stepped, TableStep
<1>3. ASSUME NEW r \in Requests, Created(r)'
      PROVE  answer'[r].id \in drawn'
  BY <1>1, <1>2, <1>3 DEF ServerInv, AccountsKept
<1>4. ASSUME NEW r \in Requests, NEW s \in Requests, Created(r)', Created(s)',
             answer'[r].id = answer'[s].id
      PROVE  r = s
  <2>1. CASE Created(r) /\ answer'[r] = answer[r]
             /\ Created(s) /\ answer'[s] = answer[s]
    BY <1>4, <2>1 DEF ServerInv, AccountsKept
  <2>2. CASE Fits(r) /\ Fits(s)
    BY <2>2 DEF Fits, Moves
  <2> QED
    BY <1>1, <1>4, <2>1, <2>2 DEF ServerInv, AccountsKept
<1>5. ASSUME ~Renames', NEW r \in Requests, Created(r)'
      PROVE  rows'[answer'[r].id].email = query'[r].email
  <2>1. CASE Created(r) /\ answer'[r] = answer[r]
    <3>1. /\ rows[answer[r].id].email = query[r].email
          /\ query[r].email # NoEmail
          /\ answer[r].id \in Ids
      BY <1>5, <2>1, StillRenames
         DEF ServerInv, ServerTypeOK, AccountsKept, Answered, Created
    <3> QED
      BY <1>2, <1>5, <2>1, <3>1, StillRenames, TableKept DEF Stepped, Exists
  <2> QED
    BY <1>1, <1>2, <1>5, <2>1
<1> QED
  BY <1>3, <1>4, <1>5 DEF AccountsKept, Created

\* A refused CreateUser call still finds its e-mail in the table.
LEMMA WinnersKept ==
    ASSUME ServerInv, Stepped
    PROVE  SomebodyWins'
<1> SUFFICES ASSUME ~Renames', faults'["statement"] = 0, NEW r \in Requests,
                    query'[r].kind = "create",
                    answer'[r].code \in {"AlreadyExists", "Unknown"}
             PROVE  \E id \in Ids : rows'[id].email = query'[r].email
  BY DEF SomebodyWins
<1>1. ~Renames /\ faults["statement"] = 0 /\ UNCHANGED query
  BY StillRenames DEF Stepped, FaultStep, TableStep
<1>2. CASE Fits(r)
  BY <1>1, <1>2 DEF Fits
<1>3. CASE answer'[r] = answer[r]
  <2>1. PICK id \in Ids : rows[id].email = query[r].email
    BY <1>1, <1>3 DEF ServerInv, SomebodyWins
  <2>2. query[r].email # NoEmail
    BY <1>1, <1>3 DEF ServerInv, Answered
  <2> QED
    BY <1>1, <2>1, <2>2, TableKept DEF Stepped, Exists
<1> QED
  BY <1>2, <1>3, RepliesTyped DEF Stepped, StepOf, Codes

\* A reply once given stays a state of its row.
LEMMA RepliesKept ==
    ASSUME ServerInv, Stepped
    PROVE  ReplyCurrent'
<1> SUFFICES ASSUME NEW r \in Requests, query'[r].kind = "update",
                    answer'[r].code = "OK"
             PROVE  \/ answer'[r].row \in since'[r]
                    \/ answer'[r].row = NoRow /\ faults'["statement"] > 0
  BY DEF ReplyCurrent
<1>1. /\ UNCHANGED query /\ since[r] \subseteq since'[r]
      /\ faults["statement"] \in Nat /\ faults'["statement"] \in Nat
      /\ faults'["statement"] = 0 => faults["statement"] = 0
  BY DEF Stepped, TableStep, SinceStep, FaultStep, ServerInv, ServerTypeOK,
     Disturbances
<1>2. CASE Fits(r)
  BY <1>1, <1>2 DEF Fits
<1>3. CASE answer'[r] = answer[r]
  BY <1>1, <1>3 DEF ServerInv, ReplyCurrent
<1> QED
  BY <1>2, <1>3, RepliesTyped DEF Stepped, StepOf, Codes

\* Nothing is answered at first.
LEMMA ServerStarts == ServerInit => ServerInv
<1> SUFFICES ASSUME ServerInit
             PROVE  ServerInv
  OBVIOUS
<1>1. ServerTypeOK
  BY ServerAssumption, RepliesTyped
     DEF ServerInit, ServerTypeOK, Exists, Steps, Replies, Rows, Codes
<1>2. \A r \in Requests : answer[r].code = "none" /\ answer[r] = Status("none")
  BY RepliesTyped DEF ServerInit, Codes
<1> QED
  BY <1>1, <1>2 DEF ServerInit, ServerInv, Placed, Watched, AccountsKept, Created,
     Answered, SomebodyWins, ReplyCurrent

\* The invariant of the gRPC server.
LEMMA ServerInvariant == ServerSpec => []ServerInv
<1>1. ServerInv /\ [ServerNext]_serverVars => ServerInv'
  BY EveryStep, TypesKept, PlacesKept, AccountsKeptStep, WinnersKept, RepliesKept
     DEF ServerInv
<1> QED
  BY <1>1, ServerStarts, PTL DEF ServerSpec

----------------------------------------------------------------------------
(* What the server promises.                                                *)

\* Rows, replies and histories keep their shapes, e-mails are unique and ids
\* come from the sequence.
THEOREM ServerTypeCorrect == ServerSpec => []ServerTypeOK
<1>1. ServerInv => ServerTypeOK
  BY DEF ServerInv
<1> QED
  BY <1>1, ServerInvariant, PTL

\* However many CreateUser calls race for an e-mail between the lookup and
\* the insert (server.go:84-99), one at most is told it made the account.
THEOREM OneAccount == ServerSpec => []OneAccountPerEmail
<1>1. ServerInv => OneAccountPerEmail
  <2> SUFFICES ASSUME ServerInv, ~Renames,
                      NEW r \in Requests, NEW s \in Requests,
                      Created(r), Created(s), query[r].email = query[s].email
               PROVE  r = s
    BY DEF OneAccountPerEmail, Created
  <2>1. /\ answer[r].id \in Ids /\ answer[s].id \in Ids
        /\ rows[answer[r].id].email = query[r].email
        /\ rows[answer[s].id].email = query[r].email
        /\ query[r].email # NoEmail
    BY DEF ServerInv, ServerTypeOK, AccountsKept, Answered, Created
  <2>2. answer[r].id = answer[s].id
    BY <2>1 DEF ServerInv, ServerTypeOK, UniqueEmails
  <2> QED
    BY <2>2 DEF ServerInv, AccountsKept
<1> QED
  BY <1>1, ServerInvariant, PTL

\* Without a failing statement a CreateUser call is refused only when an
\* account has its e-mail.
THEOREM Winner == ServerSpec => []SomebodyWins
<1>1. ServerInv => SomebodyWins
  BY DEF ServerInv
<1> QED
  BY <1>1, ServerInvariant, PTL

\* UpdateUser's profile is a state of the row since its own update, or empty
\* because the second read failed (server.go:179-185).
THEOREM Current == ServerSpec => []ReplyCurrent
<1>1. ServerInv => ReplyCurrent
  BY DEF ServerInv
<1> QED
  BY <1>1, ServerInvariant, PTL
=============================================================================
