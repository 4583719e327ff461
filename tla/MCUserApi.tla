----------------------------- MODULE MCUserApi -----------------------------
(***************************************************************************)
(* Instance of UserApi: three calls at a time, of every kind and with   *)
(* everything a method refuses, on a table with one account of e1.  There  *)
(* are as many free ids as calls.                                          *)
(***************************************************************************)
EXTENDS UserApi, TLC

CONSTANTS e1, e2, r1, r2, r3

Ask(kind, id, email, balance, change) ==
    [kind |-> kind, id |-> id, email |-> email, balance |-> balance,
     change |-> change]

MCQueries ==
    {Ask("create", NoId, e, 1, FALSE) : e \in {e1, e2, NoEmail}}
      \cup {Ask("create", NoId, e2, -1, FALSE)}
      \cup {Ask("get", id, NoEmail, 0, FALSE) : id \in {1, NoId}}
      \cup {Ask("verify", id, NoEmail, 2, FALSE) : id \in {1, 2}}
      \cup {Ask("update", 1, e2, 0, FALSE), Ask("update", 2, e2, 3, TRUE)}
      \cup {Ask("update", 1, NoEmail, 3, change) : change \in BOOLEAN}

MCEarlier == [id \in Ids |-> IF id = 1 THEN Row(e1, 2) ELSE NoRow]

Once == [kind \in Disturbances |-> 1]

\* Nothing distinguishes two calls but their names.
CallSymmetry == Permutations(Requests)
=============================================================================
