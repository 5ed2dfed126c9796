----------------------------- MODULE AtomicStore -----------------------------
(***************************************************************************)
(* What the contract of the backends promises of one resource: a request   *)
(* takes effect at one moment, and its reply tells what it found then. The *)
(* requests in `loose` are promised less: an update may put any other      *)
(* columns back and bring a removed row back, a removal may find nothing,  *)
(* and either may fail.                                                    *)
(***************************************************************************)
CONSTANTS
    Request,    \* the requests
    Column,     \* the columns of a row that an update may set
    Unborn,     \* the row before it is created
    Gone        \* the row after it is removed

VARIABLES
    row,        \* the row: the request that wrote each column, or none of them
    asked,      \* what each request asks for
    reply,      \* "none", "ok" or "refused"
    loose       \* the requests that are promised less

storeVars == <<row, asked, reply, loose>>

\* The columns matter to an update only.
Ask ==
    [op : {"create", "read", "remove"}, cols : {{}}]
        \cup [op : {"update"}, cols : SUBSET Column \ {{}}]

NotAsked == [op |-> "none", cols |-> {}]

Content == [Column -> Request \cup {Unborn}]

Absent == {Unborn, Gone}

\* A row as `base` with the columns of q's update set.
SetBy(q, base) ==
    [c \in Column |-> IF c \in asked[q].cols THEN q ELSE base[c]]

Init ==
    /\ row \in {Unborn, [c \in Column |-> Unborn]}
    /\ asked = [q \in Request |-> NotAsked]
    /\ reply = [q \in Request |-> "none"]
    /\ loose = {}

Send(q, a) ==
    /\ asked[q] = NotAsked
    /\ asked' = [asked EXCEPT ![q] = a]
    /\ UNCHANGED <<row, reply>>

\* The effect of q on the row, with the answer it gets for it.
Effect(q, op, answer) ==
    \/ op = "create" /\ row = Unborn
         /\ row' = [c \in Column |-> q] /\ answer = "ok"
    \/ op # "create" /\ row \in Absent
         /\ UNCHANGED row /\ answer = "refused"
    \/ row \notin Absent /\ answer = "ok"
         /\ \/ op = "read" /\ UNCHANGED row
            \/ op = "update" /\ row' = SetBy(q, row)
            \/ op = "remove" /\ row' = Gone

\* What a request in `loose` may do instead.
Slip(q, op, answer) ==
    /\ q \in loose
    /\ \/ op \in {"update", "remove"} /\ answer = "refused" /\ UNCHANGED row
       \/ op = "remove" /\ answer = "ok" /\ row = Gone /\ UNCHANGED row
       \/ op = "update" /\ answer = "ok"
            /\ \E base \in Content : row' = SetBy(q, base)

Serve(q) ==
    /\ asked[q] # NotAsked
    /\ reply[q] = "none"
    /\ \E answer \in {"ok", "refused"} :
          /\ reply' = [reply EXCEPT ![q] = answer]
          /\ Effect(q, asked[q].op, answer) \/ Slip(q, asked[q].op, answer)
    /\ UNCHANGED asked

Next ==
    /\ loose \subseteq loose'
    /\ \/ \E q \in Request : Serve(q) \/ \E a \in Ask : Send(q, a)
       \/ UNCHANGED <<row, asked, reply>>

Spec == Init /\ [][Next]_storeVars
=============================================================================
