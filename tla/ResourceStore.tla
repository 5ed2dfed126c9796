---------------------------- MODULE ResourceStore ----------------------------
(***************************************************************************)
(* The three backends and one resource: requests that find the row, then   *)
(* write it, each statement on a connection of the pool of the process     *)
(* that serves the request. NestJS writes the columns it was given; Fiber  *)
(* and Spring write back the whole row they found. NestJS may run as a     *)
(* cluster of processes that share one budget of connections.              *)
(***************************************************************************)
EXTENDS Naturals, FiniteSets

CONSTANTS
    Request, Column, Unborn, Gone,  \* as in AtomicStore
    Process,    \* the processes of a backend
    Single,     \* the process of a backend that is no cluster
    Budgets,    \* the sizes a pool may have, DB_POOL_TOTAL for NestJS
    MaxDeaths   \* bound: processes that die

VARIABLES
    backend,    \* "nestjs", "fiber" or "springkt"
    procs,      \* the processes that run
    informed,   \* CLUSTER_WORKERS tells the processes how many they are
    budget,     \* the size of the pool
    row, asked, \* as in AtomicStore
    reply,      \* "none", "ok", "not found" or "error"
    pc,         \* how far each request is
    server,     \* the process that serves it
    seen,       \* the row its handler found
    raced,      \* history: the row changed between a request's find and write
    deaths,
    cut         \* the requests whose process died before it answered

config == <<backend, procs, informed, budget>>
vars == <<config, row, asked, reply, pc, server, seen, raced, deaths, cut>>

Store == INSTANCE AtomicStore WITH
    reply <- [q \in Request |->
                IF reply[q] \in {"not found", "error"} THEN "refused" ELSE reply[q]],
    loose <- IF backend = "nestjs" THEN {} ELSE raced

ASSUME StoreAssumption ==
    /\ IsFiniteSet(Process) /\ Single \in Process
    /\ Budgets \subseteq Nat \ {0} /\ MaxDeaths \in Nat
    /\ Store!Absent \cap Store!Content = {} /\ Unborn # Gone

\* Math.max(1, Math.floor(DB_POOL_TOTAL / (CLUSTER_WORKERS ?? 1)))
DB_POOL_MAX ==
    LET share == budget \div (IF informed THEN Cardinality(procs) ELSE 1)
    IN  IF share > 1 THEN share ELSE 1

\* A statement of q's runs at the database, or its transaction does.
Busy == {"finding", "writing", "inserting", "flushing"}

\* Mutant: a handler keeps its connection from the find to the write.
HoldsThroughout(q) == pc[q] \in Busy \cup {"write"} /\ q \notin cut

Holds(q) == pc[q] \in Busy /\ q \notin cut

Held(p) == {q \in Request : server[q] = p /\ Holds(q)}

-----------------------------------------------------------------------------
Init ==
    /\ backend \in {"nestjs", "fiber", "springkt"}
    /\ procs \in {P \in SUBSET Process :
                     Single \in P /\ (backend # "nestjs" => P = {Single})}
    /\ informed \in BOOLEAN /\ (procs = {Single} => ~informed)
    /\ budget \in Budgets
    /\ row \in {Unborn, [c \in Column |-> Unborn]}
    /\ asked = [q \in Request |-> Store!NotAsked]
    /\ reply = [q \in Request |-> "none"]
    /\ pc = [q \in Request |-> "idle"]
    /\ server = [q \in Request |-> Single]
    /\ seen = [q \in Request |-> Gone]
    /\ raced = {}
    /\ deaths = 0
    /\ cut = {}

\* A request reaches one of the processes. A create is a single statement; the
\* others begin by finding the row, whose id their client was given.
Receive(q, p, a) ==
    /\ p \in procs
    /\ asked[q] = Store!NotAsked
    /\ IF a.op = "create"
       THEN row = Unborn /\ \A o \in Request : asked[o].op # "create"
       ELSE row # Unborn
    /\ asked' = [asked EXCEPT ![q] = a]
    /\ pc' = [pc EXCEPT ![q] = IF a.op = "create" THEN "write" ELSE "find"]
    /\ server' = [server EXCEPT ![q] = p]
    /\ UNCHANGED <<config, row, reply, seen, raced, deaths, cut>>

\* The pool of its process has a connection for q's next statement.
Connect(q) ==
    /\ pc[q] \in {"find", "write"}
    /\ Cardinality(Held(server[q])) < DB_POOL_MAX
    /\ pc' = [pc EXCEPT ![q] = IF @ = "find" THEN "finding" ELSE "writing"]
    /\ UNCHANGED <<config, row, asked, reply, server, seen, raced, deaths, cut>>

Answer(q, r) ==
    /\ reply' = [reply EXCEPT ![q] = r]
    /\ pc' = [pc EXCEPT ![q] = "over"]
    /\ seen' = [seen EXCEPT ![q] = Gone]
    /\ UNCHANGED <<config, asked, server, deaths, cut>>

\* The row becomes r: whoever found another one and has yet to write is raced.
Write(q, r) ==
    /\ row' = r
    /\ raced' = raced \cup {o \in Request \ {q} :
                    pc[o] \in {"write", "writing", "inserting", "flushing"}}

\* Mutant: the handler does not look whether there is a row.
FindBlindly(q) ==
    /\ pc[q] = "finding"
    /\ UNCHANGED <<row, raced>>
    /\ IF asked[q].op = "read" THEN Answer(q, "ok")
       ELSE /\ pc' = [pc EXCEPT ![q] = "write"]
            /\ seen' = [seen EXCEPT ![q] = row]
            /\ UNCHANGED <<config, asked, reply, server, deaths, cut>>

\* Mutant: the handler answers that there is no row, and goes on.
FindGoesOn(q) ==
    /\ pc[q] = "finding"
    /\ UNCHANGED <<row, raced>>
    /\ reply' = IF row = Gone THEN [reply EXCEPT ![q] = "not found"] ELSE reply
    /\ pc' = [pc EXCEPT ![q] = "write"]
    /\ seen' = [seen EXCEPT ![q] = row]
    /\ UNCHANGED <<config, asked, server, deaths, cut>>

\* findOne
Find(q) ==
    /\ pc[q] = "finding"
    /\ UNCHANGED <<row, raced>>
    /\ IF row = Gone THEN Answer(q, "not found")
       ELSE IF asked[q].op = "read" THEN Answer(q, "ok")
       ELSE /\ pc' = [pc EXCEPT ![q] = "write"]
            /\ seen' = [seen EXCEPT ![q] = row]
            /\ UNCHANGED <<config, asked, reply, server, deaths, cut>>

\* INSERT; Spring looks for the id first, which no one else can know yet.
Create(q) ==
    /\ pc[q] = "writing"
    /\ asked[q].op = "create"
    /\ Write(q, [c \in Column |-> q])
    /\ Answer(q, "ok")

\* q is at the write of an update or a removal.
AtWrite(q, b) ==
    /\ backend = b
    /\ pc[q] = "writing"
    /\ asked[q].op # "create"

\* The row that q leaves where it found `base`.
Left(q, base) == IF asked[q].op = "remove" THEN Gone ELSE Store!SetBy(q, base)

\* Mutant: the update writes back the row its handler found.
PrismaWritesBack(q) ==
    /\ AtWrite(q, "nestjs")
    /\ IF row = Gone THEN UNCHANGED <<row, raced>> /\ Answer(q, "error")
       ELSE Write(q, Left(q, seen[q])) /\ Answer(q, "ok")

\* NestJS: prisma.resource.update or delete; a missing row is an exception
\* that nothing catches.
PrismaWrite(q) ==
    /\ AtWrite(q, "nestjs")
    /\ IF row = Gone THEN UNCHANGED <<row, raced>> /\ Answer(q, "error")
       ELSE Write(q, Left(q, row)) /\ Answer(q, "ok")

\* Fiber: db.Save is an UPDATE of every column and, if that met no row, an
\* INSERT that on a conflict updates: either way the row becomes the one that
\* was found, as edited. db.Delete does not mind a missing row.
GormWrite(q) ==
    /\ AtWrite(q, "fiber")
    /\ Write(q, Left(q, seen[q]))
    /\ Answer(q, "ok")

\* Spring: save and delete look the detached entity up again, in a transaction
\* of their own. A row that is missing will be inserted, or is not deleted.
SpringLookup(q) ==
    /\ AtWrite(q, "springkt")
    /\ UNCHANGED <<row, raced>>
    /\ IF asked[q].op = "remove" /\ row = Gone THEN Answer(q, "ok")
       ELSE /\ pc' = [pc EXCEPT ![q] = IF row = Gone THEN "inserting" ELSE "flushing"]
            /\ UNCHANGED <<config, asked, reply, server, seen, deaths, cut>>

\* The statement of the transaction fails if the row came or went meanwhile.
SpringFlush(q) ==
    /\ pc[q] \in {"inserting", "flushing"}
    /\ IF (pc[q] = "inserting") = (row = Gone)
       THEN Write(q, Left(q, seen[q])) /\ Answer(q, "ok")
       ELSE UNCHANGED <<row, raced>> /\ Answer(q, "error")

\* A process of a cluster dies and is forked again. Its requests get no answer;
\* the database may still run a statement it was sent.
Die(p) ==
    LET own == {q \in Request : server[q] = p /\ pc[q] \notin {"idle", "over"}}
    IN  /\ backend = "nestjs"
        /\ p \in procs
        /\ deaths < MaxDeaths
        /\ deaths' = deaths + 1
        /\ cut' = cut \cup own
        /\ \E sent \in SUBSET {q \in own : pc[q] = "writing"} :
              pc' = [q \in Request |-> IF q \in own \ sent THEN "over" ELSE pc[q]]
        /\ UNCHANGED <<config, row, asked, reply, server, seen, raced>>

Next ==
    \/ \E q \in Request :
          \/ \E p \in Process, a \in Store!Ask : Receive(q, p, a)
          \/ Connect(q) \/ Find(q) \/ Create(q)
          \/ PrismaWrite(q) \/ GormWrite(q) \/ SpringLookup(q) \/ SpringFlush(q)
    \/ \E p \in Process : Die(p)

Spec == Init /\ [][Next]_vars

\* A pool gives its connections to who waits, and a statement ends.
FairSpec ==
    /\ Spec
    /\ \A q \in Request :
          /\ WF_vars(Connect(q)) /\ WF_vars(Find(q)) /\ WF_vars(Create(q))
          /\ WF_vars(PrismaWrite(q)) /\ WF_vars(GormWrite(q))
          /\ WF_vars(SpringLookup(q)) /\ WF_vars(SpringFlush(q))

-----------------------------------------------------------------------------
(* Properties. *)

\* Every variable holds a value of its kind, and a handler that has answered
\* is over.
StoreTypeOK ==
    /\ backend \in {"nestjs", "fiber", "springkt"}
    /\ procs \in SUBSET Process
    /\ informed \in BOOLEAN
    /\ budget \in Nat
    /\ row \in Store!Content \cup Store!Absent
    /\ asked \in [Request -> Store!Ask \cup {Store!NotAsked}]
    /\ reply \in [Request -> {"none", "ok", "not found", "error"}]
    /\ pc \in [Request -> Busy \cup {"idle", "find", "write", "over"}]
    /\ server \in [Request -> Process]
    /\ seen \in [Request -> Store!Content \cup {Gone}]
    /\ raced \in SUBSET Request
    /\ deaths \in Nat
    /\ cut \in SUBSET Request
    /\ \A q \in Request : reply[q] # "none" => pc[q] = "over"

\* A request of NestJS takes effect at one moment, as if alone, although it
\* finds the row with one statement and writes it with another, and although a
\* process may die in between; on Fiber and Spring only a request whose row
\* changed in between may lose an update, bring a row back, or fail.
ImplementsStore == Store!Spec

\* What q was answered still stands: what it removed is gone, and a column it
\* set holds its update or one of another request that set it.
Stands(q) ==
    reply[q] = "ok" =>
        /\ asked[q].op = "remove" => row = Gone
        /\ row = Gone \/ \A c \in asked[q].cols :
               \E o \in Request : row[c] = o /\ c \in asked[o].cols

\* Only a race between a find and a write shows. A 500 is the mark of one, and
\* Fiber has none; an answer is undone, by an update lost or a row brought
\* back, only if an update of Fiber or Spring wrote a row that had changed
\* since it was found, and never on NestJS.
OnlyRacesShow ==
    \A q \in Request :
        /\ reply[q] = "error" => q \in raced /\ backend # "fiber"
        /\ Stands(q) \/ \E o \in raced :
               backend # "nestjs" /\ asked[o].op = "update" /\ reply[o] = "ok"

\* Every request is answered, however small the pool is, or its process dies.
RequestsAreAnswered ==
    \A q \in Request : pc[q] # "idle" ~> pc[q] = "over"
=============================================================================
