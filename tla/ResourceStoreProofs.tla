------------------------- MODULE ResourceStoreProofs -------------------------
(***************************************************************************)
(* Theorems of ResourceStore, for any set of requests, columns and         *)
(* processes and any sizes of the pools. StepInv says how far a request is *)
(* allowed to be; FoundInv that a request that is not raced still sees the *)
(* row it found. Together with StoreTypeOK they are inductive.             *)
(***************************************************************************)
EXTENDS ResourceStore, TLAPS

\* A handler has found its row and has yet to write it.
Pending == {"write", "writing", "inserting", "flushing"}

\* How far a request is, and what it asks for; the row is born by the only
\* request that creates it, before the others arrive.
StepInvOf(q) ==
    /\ asked[q] = Store!NotAsked <=> pc[q] = "idle"
    /\ pc[q] \in {"find", "finding"} => asked[q].op # "create"
    /\ pc[q] \in {"inserting", "flushing"} =>
          backend = "springkt" /\ asked[q].op # "create"
    /\ pc[q] \in Pending => asked[q].op # "read"
    /\ row = Unborn => asked[q].op \in {"create", "none"}
    /\ pc[q] \in {"write", "writing"} /\ asked[q].op = "create" => row = Unborn
    /\ \A o \in Request :
          asked[q].op = "create" /\ asked[o].op = "create" => o = q

StepInv == \A q \in Request : StepInvOf(q)

\* What a handler found, until it has written.
FoundInvOf(q) ==
    pc[q] \in Pending /\ asked[q].op # "create" =>
        /\ seen[q] \in Store!Content
        /\ q \notin raced => row = seen[q] /\ pc[q] # "inserting"

FoundInv == \A q \in Request : FoundInvOf(q)

IInv == StoreTypeOK /\ StepInv /\ FoundInv

-----------------------------------------------------------------------------
(* Lemmas about rows and requests. *)

\* The row that is absent has no columns.
LEMMA AbsentRows ==
    /\ Unborn \notin Store!Content
    /\ Gone \notin Store!Content
    /\ Unborn # Gone
  BY StoreAssumption DEF Store!Absent

\* A request that was sent has an operation; one that was not has none.
LEMMA AskOps ==
    ASSUME NEW a \in Store!Ask
    PROVE  /\ a.op \in {"create", "read", "remove", "update"}
           /\ a # Store!NotAsked
           /\ Store!NotAsked.op = "none"
  BY DEF Store!Ask, Store!NotAsked

\* The columns of a request are columns, and none but an update's.
LEMMA AskCols ==
    ASSUME NEW a \in Store!Ask \cup {Store!NotAsked}
    PROVE  a.cols \subseteq Column /\ (a.op # "update" => a.cols = {})
  BY DEF Store!Ask, Store!NotAsked

\* What an update or a removal leaves is a row.
LEMMA LeftRow ==
    ASSUME NEW q \in Request, NEW base \in Store!Content
    PROVE  Left(q, base) \in Store!Content \cup {Gone}
  BY DEF Left, Store!SetBy, Store!Content

\* A request under way has an operation, and only a create finds no row yet.
LEMMA Begun ==
    ASSUME IInv, NEW q \in Request, pc[q] # "idle"
    PROVE  /\ asked[q] \in Store!Ask
           /\ asked[q].op \in {"create", "read", "remove", "update"}
           /\ asked[q].op # "create" => row # Unborn
<1>1. asked[q] \in Store!Ask
  BY DEF IInv, StoreTypeOK, StepInv, StepInvOf
<1>2. row = Unborn => asked[q].op \in {"create", "none"}
  BY DEF IInv, StepInv, StepInvOf
<1> QED
  BY <1>1, <1>2, AskOps

\* The row that a handler finds or writes over.
LEMMA RowKind ==
    ASSUME IInv, NEW q \in Request, pc[q] # "idle", asked[q].op # "create"
    PROVE  row \in Store!Content \cup {Gone}
  BY Begun DEF IInv, StoreTypeOK, Store!Absent

-----------------------------------------------------------------------------
(* The invariant. *)

LEMMA InitIInv == Init => IInv
<1> SUFFICES ASSUME Init PROVE IInv
  OBVIOUS
<1> USE DEF Init
<1>1. StoreTypeOK
  BY StoreAssumption DEF StoreTypeOK, Store!Content, Store!Absent, Busy
<1>2. StepInv
  BY AskOps DEF StepInv, StepInvOf, Pending, Store!NotAsked
<1>3. FoundInv
  BY DEF FoundInv, FoundInvOf, Pending
<1> QED
  BY <1>1, <1>2, <1>3 DEF IInv

LEMMA TypeStep == IInv /\ [Next]_vars => StoreTypeOK'
<1> SUFFICES ASSUME IInv, [Next]_vars PROVE StoreTypeOK'
  OBVIOUS
<1> USE DEF IInv, StoreTypeOK, config, Busy
<1>1. ASSUME NEW q \in Request, NEW p \in Process, NEW a \in Store!Ask,
             Receive(q, p, a)
      PROVE  StoreTypeOK'
  BY <1>1 DEF Receive, StepInv, StepInvOf
<1>2. ASSUME NEW q \in Request, Connect(q) PROVE StoreTypeOK'
  BY <1>2 DEF Connect
<1>3. ASSUME NEW q \in Request, Find(q) PROVE StoreTypeOK'
  <2>1. row \in Store!Content \cup {Gone}
    BY <1>3, RowKind DEF Find, StepInv, StepInvOf
  <2> QED
    BY <1>3, <2>1 DEF Find, Answer
<1>4. ASSUME NEW q \in Request, Create(q) PROVE StoreTypeOK'
  BY <1>4 DEF Create, Write, Answer, Store!Content
<1>5. ASSUME NEW q \in Request, NEW base \in Store!Content,
             Write(q, Left(q, base)), Answer(q, "ok")
      PROVE  StoreTypeOK'
  BY <1>5, LeftRow DEF Write, Answer, Store!Absent
<1>6. ASSUME NEW q \in Request, NEW r \in {"ok", "error"},
             UNCHANGED <<row, raced>>, Answer(q, r)
      PROVE  StoreTypeOK'
  BY <1>6 DEF Answer
<1>7. ASSUME NEW q \in Request, SpringLookup(q) PROVE StoreTypeOK'
  BY <1>7, <1>6 DEF SpringLookup, AtWrite
<1>8. ASSUME NEW p \in Process, Die(p) PROVE StoreTypeOK'
  <2> DEFINE own == {q \in Request : server[q] = p /\ pc[q] \notin {"idle", "over"}}
  <2>1. PICK sent \in SUBSET {q \in own : pc[q] = "writing"} :
           pc' = [q \in Request |-> IF q \in own \ sent THEN "over" ELSE pc[q]]
    BY <1>8 DEF Die
  <2>2. /\ pc' \in [Request -> Busy \cup {"idle", "find", "write", "over"}]
        /\ \A q \in Request : pc[q] = "over" => pc'[q] = "over"
    BY <2>1
  <2>3. cut' = cut \cup own
    BY <1>8 DEF Die
  <2>4. deaths' \in Nat
    <3>1. deaths \in Nat /\ deaths' = deaths + 1
      BY <1>8 DEF Die
    <3> QED
      BY ONLY <3>1
  <2>5. cut' \in SUBSET Request
    BY <2>3
  <2> HIDE DEF own
  <2> QED
    BY <1>8, <2>2, <2>4, <2>5 DEF Die
<1>9. CASE UNCHANGED vars
  BY <1>9 DEF vars
<1>10. ASSUME NEW q \in Request, PrismaWrite(q) \/ GormWrite(q) \/ SpringFlush(q)
       PROVE  StoreTypeOK'
  <2>1. pc[q] \in Pending /\ asked[q].op # "create"
    BY <1>10 DEF PrismaWrite, GormWrite, SpringFlush, AtWrite, StepInv, StepInvOf,
                 Pending
  <2>2. /\ seen[q] \in Store!Content
        /\ row \in Store!Content \cup {Gone}
    BY <2>1, RowKind DEF FoundInv, FoundInvOf, Pending
  <2> QED
    BY <1>10, <1>5, <1>6, <2>2 DEF PrismaWrite, GormWrite, SpringFlush
<1> QED
  BY <1>1, <1>2, <1>3, <1>4, <1>7, <1>8, <1>9, <1>10 DEF Next
LEMMA StepStep == IInv /\ [Next]_vars => StepInv'
<1> SUFFICES ASSUME IInv, [Next]_vars PROVE StepInv'
  OBVIOUS
<1>0. StoreTypeOK /\ StepInv
  BY DEF IInv
<1> USE DEF config, Pending
<1>1. ASSUME NEW q \in Request, NEW p \in Process, NEW a \in Store!Ask,
             Receive(q, p, a)
      PROVE  StepInv'
  <2>1. /\ a.op \in {"create", "read", "remove", "update"}
        /\ a # Store!NotAsked /\ Store!NotAsked.op = "none"
    BY AskOps
  <2>2. /\ asked' = [asked EXCEPT ![q] = a]
        /\ pc' = [pc EXCEPT ![q] = IF a.op = "create" THEN "write" ELSE "find"]
        /\ asked[q] = Store!NotAsked
        /\ a.op = "create" => row = Unborn /\ \A o \in Request : asked[o].op # "create"
        /\ a.op # "create" => row # Unborn
        /\ UNCHANGED <<backend, procs, row>>
    BY <1>1 DEF Receive
  <2>3. asked[q].op = "none"
    BY <2>1, <2>2
  <2> QED
    BY <1>0, <2>1, <2>2, <2>3 DEF StepInv, StepInvOf, StoreTypeOK
<1>2. ASSUME NEW q \in Request, Connect(q) PROVE StepInv'
  BY <1>0, <1>2 DEF Connect, StepInv, StepInvOf, StoreTypeOK
<1>3. ASSUME NEW q \in Request, NEW r, Answer(q, r), pc[q] \in Busy,
             UNCHANGED row \/ (row' # Unborn /\ (asked[q].op = "create" \/ row # Unborn))
      PROVE  StepInv'
  BY <1>0, <1>3 DEF Answer, StepInv, StepInvOf, StoreTypeOK, Busy
<1>4. ASSUME NEW q \in Request, Find(q) PROVE StepInv'
  <2>1. ASSUME NEW r, Answer(q, r) PROVE StepInv'
    BY <1>4, <1>3, <2>1 DEF Find, Busy
  <2>2. CASE /\ asked[q].op # "read"
             /\ pc' = [pc EXCEPT ![q] = "write"]
             /\ UNCHANGED <<config, asked>>
    BY <1>0, <1>4, <2>2 DEF Find, StepInv, StepInvOf, StoreTypeOK
  <2> QED
    BY <1>4, <2>1, <2>2 DEF Find
<1>5. ASSUME NEW q \in Request, Create(q) PROVE StepInv'
  <2>1. row' # Unborn
    BY <1>5, AbsentRows DEF Create, Write, Store!Content
  <2> QED
    BY <1>5, <1>3, <2>1 DEF Create, Busy
<1>6. ASSUME NEW q \in Request, PrismaWrite(q) \/ GormWrite(q) \/ SpringFlush(q)
      PROVE  StepInv'
  <2>1. pc[q] \in Pending /\ pc[q] \in Busy /\ asked[q].op # "create"
    BY <1>0, <1>6 DEF PrismaWrite, GormWrite, SpringFlush, AtWrite, StepInv,
                      StepInvOf, Busy
  <2>2. /\ seen[q] \in Store!Content
        /\ row \in Store!Content \cup {Gone}
        /\ row # Unborn
    BY <2>1, RowKind, AbsentRows DEF IInv, FoundInv, FoundInvOf
  <2>3. ASSUME NEW base \in Store!Content PROVE Left(q, base) # Unborn
    BY LeftRow, AbsentRows
  <2> QED
    BY <1>6, <1>3, <2>1, <2>2, <2>3
    DEF PrismaWrite, GormWrite, SpringFlush, Write
<1>7. ASSUME NEW q \in Request, SpringLookup(q) PROVE StepInv'
  <2>1. CASE Answer(q, "ok")
    BY <1>7, <1>3, <2>1 DEF SpringLookup, AtWrite, Busy
  <2>2. CASE ~Answer(q, "ok")
    BY <1>0, <1>7, <2>2 DEF SpringLookup, AtWrite, StepInv, StepInvOf, StoreTypeOK
  <2> QED
    BY <2>1, <2>2
<1>8. ASSUME NEW p \in Process, Die(p) PROVE StepInv'
  <2>1. /\ UNCHANGED <<backend, procs, row, asked>>
        /\ \A q \in Request : pc'[q] = pc[q] \/ (pc[q] # "idle" /\ pc'[q] = "over")
    BY <1>0, <1>8 DEF Die, StoreTypeOK
  <2> QED
    BY <1>0, <2>1 DEF StepInv, StepInvOf
<1>9. CASE UNCHANGED vars
  BY <1>0, <1>9 DEF vars, StepInv, StepInvOf
<1> QED
  BY <1>1, <1>2, <1>4, <1>5, <1>6, <1>7, <1>8, <1>9 DEF Next

LEMMA FoundStep == IInv /\ [Next]_vars => FoundInv'
<1> SUFFICES ASSUME IInv, [Next]_vars PROVE FoundInv'
  OBVIOUS
<1>0. StoreTypeOK /\ FoundInv
  BY DEF IInv
<1> USE DEF config, Pending
\* A request that writes is over, and whoever had found the row is raced.
<1>1. ASSUME NEW q \in Request, NEW r, Answer(q, r),
             UNCHANGED <<row, raced>> \/ \E x : Write(q, x)
      PROVE  FoundInv'
  BY <1>0, <1>1 DEF Answer, Write, FoundInv, FoundInvOf, StoreTypeOK
<1>2. ASSUME NEW q \in Request, NEW p \in Process, NEW a \in Store!Ask,
             Receive(q, p, a)
      PROVE  FoundInv'
  BY <1>0, <1>2 DEF Receive, FoundInv, FoundInvOf, StoreTypeOK
<1>3. ASSUME NEW q \in Request, Connect(q) PROVE FoundInv'
  BY <1>0, <1>3 DEF Connect, FoundInv, FoundInvOf, StoreTypeOK
<1>4. ASSUME NEW q \in Request, Find(q) PROVE FoundInv'
  <2>1. row \in Store!Content \cup {Gone}
    BY <1>4, RowKind DEF Find, IInv, StepInv, StepInvOf
  <2>2. ASSUME NEW r, Answer(q, r) PROVE FoundInv'
    BY <1>4, <1>1, <2>2 DEF Find
  <2>3. CASE /\ row # Gone
             /\ pc' = [pc EXCEPT ![q] = "write"]
             /\ seen' = [seen EXCEPT ![q] = row]
             /\ UNCHANGED <<row, raced, asked>>
    BY <1>0, <2>1, <2>3 DEF FoundInv, FoundInvOf, StoreTypeOK
  <2> QED
    BY <1>4, <2>2, <2>3 DEF Find
<1>5. ASSUME NEW q \in Request,
             Create(q) \/ PrismaWrite(q) \/ GormWrite(q) \/ SpringFlush(q)
      PROVE  FoundInv'
  BY <1>5, <1>1 DEF Create, PrismaWrite, GormWrite, SpringFlush
<1>6. ASSUME NEW q \in Request, SpringLookup(q) PROVE FoundInv'
  <2>1. CASE Answer(q, "ok")
    BY <1>6, <1>1, <2>1 DEF SpringLookup
  <2>2. CASE /\ pc' = [pc EXCEPT ![q] = IF row = Gone THEN "inserting" ELSE "flushing"]
             /\ UNCHANGED <<row, raced, asked, seen>>
    BY <1>0, <1>6, <2>2, AbsentRows
    DEF SpringLookup, AtWrite, FoundInv, FoundInvOf, StoreTypeOK
  <2> QED
    BY <1>6, <2>1, <2>2 DEF SpringLookup
<1>7. ASSUME NEW p \in Process, Die(p) PROVE FoundInv'
  <2>1. /\ UNCHANGED <<row, raced, asked, seen>>
        /\ \A q \in Request : pc'[q] = pc[q] \/ pc'[q] = "over"
    BY <1>0, <1>7 DEF Die, StoreTypeOK
  <2> QED
    BY <1>0, <2>1 DEF FoundInv, FoundInvOf
<1>8. CASE UNCHANGED vars
  BY <1>0, <1>8 DEF vars, FoundInv, FoundInvOf
<1> QED
  BY <1>2, <1>3, <1>4, <1>5, <1>6, <1>7, <1>8 DEF Next

\* The inductive invariant holds throughout.
THEOREM StoreInvariance == Spec => []IInv
<1>1. IInv /\ [Next]_vars => IInv'
  BY TypeStep, StepStep, FoundStep DEF IInv
<1> QED
  BY InitIInv, <1>1, PTL DEF Spec

-----------------------------------------------------------------------------
(* What races do. *)

\* A 500 is the mark of a race between the find of an update or a removal and
\* its write, and Fiber answers none.
ErrorInv ==
    \A q \in Request : reply[q] = "error" => q \in raced /\ backend # "fiber"

\* An update of Fiber or Spring has written a row that had changed.
Undone ==
    \E o \in raced :
        backend # "nestjs" /\ asked[o].op = "update" /\ reply[o] = "ok"

StandInv == Undone \/ \A q \in Request : Stands(q)

LEMMA ErrorStep == IInv /\ ErrorInv /\ [Next]_vars => ErrorInv'
<1> SUFFICES ASSUME IInv, ErrorInv, [Next]_vars PROVE ErrorInv'
  OBVIOUS
<1>0. StoreTypeOK /\ FoundInv /\ StepInv
  BY DEF IInv
<1> USE DEF config, Pending, ErrorInv
<1>1. ASSUME NEW q \in Request, NEW r, Answer(q, r),
             UNCHANGED <<row, raced>> \/ \E x : Write(q, x),
             r = "error" => q \in raced /\ backend # "fiber"
      PROVE  ErrorInv'
  BY <1>0, <1>1 DEF Answer, Write, StoreTypeOK
<1>2. ASSUME NEW q \in Request, Find(q) PROVE ErrorInv'
  <2>1. CASE reply' = reply
    BY <1>2, <2>1 DEF Find, Answer
  <2>2. ASSUME NEW r \in {"not found", "ok"}, Answer(q, r) PROVE ErrorInv'
    BY <1>2, <1>1, <2>2 DEF Find
  <2> QED
    BY <1>2, <2>1, <2>2 DEF Find
<1>3. ASSUME NEW q \in Request, Create(q) \/ GormWrite(q) PROVE ErrorInv'
  BY <1>3, <1>1 DEF Create, GormWrite
<1>4. ASSUME NEW q \in Request, PrismaWrite(q) PROVE ErrorInv'
  <2>1. row = Gone => q \in raced
    BY <1>0, <1>4, AbsentRows DEF PrismaWrite, AtWrite, FoundInv, FoundInvOf
  <2> QED
    BY <1>4, <1>1, <2>1 DEF PrismaWrite, AtWrite
<1>5. ASSUME NEW q \in Request, SpringFlush(q) PROVE ErrorInv'
  <2>1. pc[q] = "inserting" \/ row = Gone => q \in raced
    BY <1>0, <1>5, AbsentRows
    DEF SpringFlush, FoundInv, FoundInvOf, StepInv, StepInvOf
  <2>2. backend = "springkt"
    BY <1>0, <1>5 DEF SpringFlush, StepInv, StepInvOf
  <2> QED
    BY <1>5, <1>1, <2>1, <2>2 DEF SpringFlush
<1>6. ASSUME NEW q \in Request, SpringLookup(q) PROVE ErrorInv'
  <2>1. CASE Answer(q, "ok")
    BY <1>6, <1>1, <2>1 DEF SpringLookup
  <2>2. CASE UNCHANGED <<reply, raced, backend>>
    BY <2>2
  <2> QED
    BY <1>6, <2>1, <2>2 DEF SpringLookup
<1>7. ASSUME NEW q \in Request, NEW p \in Process, NEW a \in Store!Ask,
             Receive(q, p, a)
      PROVE  ErrorInv'
  BY <1>7 DEF Receive
<1>8. ASSUME NEW q \in Request, Connect(q) PROVE ErrorInv'
  BY <1>8 DEF Connect
<1>9. ASSUME NEW p \in Process, Die(p) PROVE ErrorInv'
  BY <1>9 DEF Die
<1>10. CASE UNCHANGED vars
  BY <1>10 DEF vars
<1> QED
  BY <1>2, <1>3, <1>4, <1>5, <1>6, <1>7, <1>8, <1>9, <1>10 DEF Next

\* An answer that was given stays, and so does what was raced.
LEMMA AnswersStay == IInv /\ [Next]_vars =>
    /\ raced \subseteq raced' /\ backend' = backend
    /\ \A o \in Request : reply[o] = "ok" => reply'[o] = "ok" /\ asked'[o] = asked[o]
<1> SUFFICES ASSUME IInv, [Next]_vars
             PROVE  /\ raced \subseteq raced' /\ backend' = backend
                    /\ \A o \in Request : reply[o] = "ok" =>
                          reply'[o] = "ok" /\ asked'[o] = asked[o]
  OBVIOUS
<1>0. StoreTypeOK /\ StepInv
  BY DEF IInv
<1> DEFINE Kept == /\ raced \subseteq raced' /\ backend' = backend
                  /\ \A o \in Request : reply[o] = "ok" =>
                        reply'[o] = "ok" /\ asked'[o] = asked[o]
\* Who answers was not over.
<1>1. ASSUME NEW q \in Request, NEW r, pc[q] # "over", Answer(q, r),
             UNCHANGED raced \/ \E x : Write(q, x)
      PROVE  Kept
  <2>1. reply[q] = "none" /\ raced \subseteq raced'
    BY <1>0, <1>1 DEF StoreTypeOK, Write
  <2>2. \A o \in Request \ {q} : reply'[o] = reply[o]
    BY <1>0, <1>1 DEF StoreTypeOK, Answer
  <2> QED
    BY <1>1, <2>1, <2>2 DEF Answer, config
<1>2. ASSUME UNCHANGED <<reply, asked, raced, backend>> PROVE Kept
  BY <1>2
<1>3. ASSUME NEW q \in Request, NEW p \in Process, NEW a \in Store!Ask,
             Receive(q, p, a)
      PROVE  Kept
  <2>1. pc[q] = "idle" /\ reply[q] = "none"
    BY <1>0, <1>3 DEF Receive, StepInv, StepInvOf, StoreTypeOK
  <2>2. /\ UNCHANGED <<reply, raced, backend>>
        /\ \A o \in Request \ {q} : asked'[o] = asked[o]
    BY <1>0, <1>3 DEF Receive, StoreTypeOK, config
  <2> QED
    BY <2>1, <2>2
<1>4. ASSUME NEW q \in Request, Find(q) PROVE Kept
  <2>1. CASE UNCHANGED <<reply, asked, backend>>
    BY <1>2, <1>4, <2>1 DEF Find
  <2>2. ASSUME NEW r, Answer(q, r) PROVE Kept
    BY <1>1, <1>4, <2>2 DEF Find
  <2> QED
    BY <1>4, <2>1, <2>2 DEF Find, config
<1>5. ASSUME NEW q \in Request,
             Create(q) \/ PrismaWrite(q) \/ GormWrite(q) \/ SpringFlush(q)
      PROVE  Kept
  BY <1>1, <1>5 DEF Create, PrismaWrite, GormWrite, SpringFlush, AtWrite
<1>6. ASSUME NEW q \in Request, SpringLookup(q) PROVE Kept
  <2>1. CASE UNCHANGED <<reply, asked, backend>>
    BY <1>2, <1>6, <2>1 DEF SpringLookup
  <2>2. CASE Answer(q, "ok")
    BY <1>1, <1>6, <2>2 DEF SpringLookup, AtWrite
  <2> QED
    BY <1>6, <2>1, <2>2 DEF SpringLookup, config
<1>7. ASSUME NEW q \in Request, Connect(q) PROVE Kept
  BY <1>2, <1>7 DEF Connect, config
<1>8. ASSUME NEW p \in Process, Die(p) PROVE Kept
  BY <1>2, <1>8 DEF Die, config
<1>9. CASE UNCHANGED vars
  BY <1>2, <1>9 DEF vars, config
<1>10. ASSUME Next PROVE Kept
  <2> HIDE DEF Kept
  <2>1. ASSUME NEW q \in Request,
               \/ \E p \in Process, a \in Store!Ask : Receive(q, p, a)
               \/ Connect(q) \/ Find(q) \/ Create(q)
               \/ PrismaWrite(q) \/ GormWrite(q) \/ SpringLookup(q) \/ SpringFlush(q)
        PROVE  Kept
    BY <1>3, <1>4, <1>5, <1>6, <1>7, <2>1
  <2> QED
    BY <1>8, <1>10, <2>1 DEF Next
<1> QED
  BY <1>9, <1>10

\* An answer leaves the earlier ones standing if its request wrote nothing, or
\* removed the row, or set its columns in the row as it was.
LEMMA StandsAfter ==
    ASSUME IInv, NEW q \in Request, NEW r, Answer(q, r), \A o \in Request : Stands(o),
           asked[q] \in Store!Ask,
           \/ row' = row /\ (r # "ok" \/ asked[q].op = "read")
           \/ row' = Gone
           \/ /\ row \in Store!Content /\ row' = Store!SetBy(q, row)
              /\ asked[q].op = "update"
           \/ /\ row = Unborn /\ asked[q].op = "create" /\ row' = [c \in Column |-> q]
    PROVE  \A o \in Request : Stands(o)'
<1>1. StoreTypeOK /\ StepInv
  BY DEF IInv
<1>2. /\ asked' = asked /\ reply' = [reply EXCEPT ![q] = r]
      /\ asked[q].op \in {"create", "read", "remove"} => asked[q].cols = {}
      /\ asked[q].cols \in SUBSET Column
      /\ asked[q].op \in {"create", "read", "remove", "update"}
  BY DEF Answer, Store!Ask
<1>3. ASSUME NEW o \in Request, reply'[o] = "ok"
      PROVE  (o = q /\ r = "ok") \/ reply[o] = "ok"
  BY <1>1, <1>2, <1>3 DEF StoreTypeOK
<1>4. CASE row' = Gone
  BY <1>2, <1>4 DEF Stands
<1>5. CASE row' = row /\ (r # "ok" \/ asked[q].op = "read")
  BY <1>2, <1>3, <1>5 DEF Stands
<1>6. CASE /\ row \in Store!Content /\ row' = Store!SetBy(q, row)
           /\ asked[q].op = "update"
  <2>1. \A c \in Column : row'[c] = IF c \in asked[q].cols THEN q ELSE row[c]
    BY <1>6 DEF Store!SetBy
  <2>2. row # Gone
    BY <1>6, AbsentRows
  <2>3. \A o \in Request : reply[o] = "ok" => asked[o].cols \subseteq Column
    BY <1>1, AskCols DEF StoreTypeOK
  <2>4. ASSUME NEW o \in Request, reply'[o] = "ok", NEW c \in asked[o].cols
        PROVE  \E p \in Request : row'[c] = p /\ c \in asked[p].cols
    BY <1>2, <1>3, <2>1, <2>2, <2>3, <2>4 DEF Stands
  <2>5. ASSUME NEW o \in Request, reply'[o] = "ok" PROVE asked[o].op # "remove"
    BY <1>3, <1>6, <2>2, <2>5 DEF Stands
  <2> QED
    BY <1>2, <2>4, <2>5 DEF Stands
<1>7. CASE /\ row = Unborn /\ asked[q].op = "create"
           /\ row' = [c \in Column |-> q]
  <2>1. \A o \in Request : asked[o].op \in {"create", "none"}
    BY <1>1, <1>7 DEF StepInv, StepInvOf
  <2>2. \A o \in Request : asked[o].cols = {}
    BY <1>1, <2>1, AskCols DEF StoreTypeOK
  <2> QED
    BY <1>2, <2>1, <2>2 DEF Stands
<1> QED
  BY <1>4, <1>5, <1>6, <1>7

LEMMA StandStep == IInv /\ StandInv /\ [Next]_vars => StandInv'
<1> SUFFICES ASSUME IInv, StandInv, [Next]_vars PROVE StandInv'
  OBVIOUS
<1>0. StoreTypeOK /\ StepInv /\ FoundInv
  BY DEF IInv
<1>1. CASE Undone
  <2>1. Undone'
    BY <1>0, <1>1, AnswersStay DEF Undone, StoreTypeOK
  <2> QED
    BY <2>1 DEF StandInv
<1>2. CASE \A o \in Request : Stands(o)
  \* A request that has yet to write was asked for something.
  <2>0. ASSUME NEW q \in Request, pc[q] # "idle" PROVE asked[q] \in Store!Ask
    BY <1>0, <2>0 DEF StoreTypeOK, StepInv, StepInvOf
  <2> DEFINE Stand == \A o \in Request : Stands(o)'
  <2>1. Stand => StandInv'
    BY DEF StandInv
  <2>2. ASSUME UNCHANGED <<row, reply, asked>> PROVE Stand
    BY <1>2, <2>2 DEF Stands
  <2>3. ASSUME NEW q \in Request, NEW p \in Process, NEW a \in Store!Ask,
               Receive(q, p, a)
        PROVE  Stand
    <3>1. /\ asked[q] = Store!NotAsked /\ reply[q] = "none"
          /\ UNCHANGED <<row, reply>> /\ asked' = [asked EXCEPT ![q] = a]
      BY <1>0, <2>3 DEF Receive, StepInv, StepInvOf, StoreTypeOK
    <3>2. asked[q].cols = {}
      BY <3>1 DEF Store!NotAsked
    <3>3. \A o \in Request \ {q} : asked'[o] = asked[o]
      BY <1>0, <3>1 DEF StoreTypeOK
    <3> QED
      BY <1>2, <3>1, <3>2, <3>3 DEF Stands
  <2>4. ASSUME NEW q \in Request, Connect(q) PROVE Stand
    BY <2>2, <2>4 DEF Connect
  <2>5. ASSUME NEW p \in Process, Die(p) PROVE Stand
    BY <2>2, <2>5 DEF Die
  <2>6. ASSUME NEW q \in Request, Find(q) PROVE Stand
    <3>1. CASE UNCHANGED <<reply, asked>>
      BY <2>2, <2>6, <3>1 DEF Find
    <3>2. asked[q] \in Store!Ask /\ row' = row
      BY <2>0, <2>6 DEF Find
    <3>3. CASE Answer(q, "not found")
      BY <1>2, <3>2, <3>3, StandsAfter
    <3>4. CASE asked[q].op = "read" /\ Answer(q, "ok")
      BY <1>2, <3>2, <3>4, StandsAfter
    <3> QED
      BY <2>6, <3>1, <3>3, <3>4 DEF Find
  <2>7. ASSUME NEW q \in Request, Create(q) PROVE Stand
    BY <1>0, <1>2, <2>0, <2>7, StandsAfter
    DEF Create, Write, StepInv, StepInvOf
  \* The row an update or a removal finds is not unborn.
  <2>8. ASSUME NEW q \in Request, pc[q] \in Pending, asked[q].op # "create"
        PROVE  /\ row = Gone \/ row \in Store!Content
               /\ asked[q].op \in {"update", "remove"} /\ asked[q] \in Store!Ask
    <3>1. asked[q] \in Store!Ask /\ asked[q].op \in {"update", "remove"}
      BY <1>0, <2>0, <2>8, AskOps DEF StepInv, StepInvOf, Pending
    <3> QED
      BY <1>0, <3>1 DEF StoreTypeOK, StepInv, StepInvOf, Store!Absent
  <2>9. ASSUME NEW q \in Request, PrismaWrite(q) PROVE Stand
    <3>1. pc[q] \in Pending /\ asked[q].op # "create"
      BY <2>9 DEF PrismaWrite, AtWrite, Pending
    <3>2. CASE row = Gone
      BY <1>2, <2>8, <2>9, <3>1, <3>2, StandsAfter DEF PrismaWrite
    <3>3. CASE row # Gone
      BY <1>2, <2>8, <2>9, <3>1, <3>3, StandsAfter DEF PrismaWrite, Write, Left
    <3> QED
      BY <3>2, <3>3
  <2>10. ASSUME NEW q \in Request, pc[q] \in Pending, asked[q].op # "create",
                backend # "nestjs", Write(q, Left(q, seen[q])), Answer(q, "ok")
         PROVE  StandInv'
    <3>1. CASE asked[q].op = "remove"
      BY <1>2, <2>1, <2>8, <2>10, <3>1, StandsAfter DEF Write, Left
    <3>2. CASE asked[q].op = "update" /\ q \in raced
      <4>1. q \in raced' /\ reply'[q] = "ok" /\ UNCHANGED <<asked, backend>>
        BY <1>0, <2>10, <3>2 DEF Write, Answer, config, StoreTypeOK
      <4> QED
        BY <2>10, <3>2, <4>1 DEF StandInv, Undone
    <3>3. CASE asked[q].op = "update" /\ q \notin raced
      <4>1. row = seen[q] /\ seen[q] \in Store!Content
        BY <1>0, <2>10, <3>3 DEF FoundInv, FoundInvOf
      <4> QED
        BY <1>2, <2>1, <2>8, <2>10, <3>3, <4>1, StandsAfter DEF Write, Left
    <3> QED
      BY <2>8, <2>10, <3>1, <3>2, <3>3
  <2>11. ASSUME NEW q \in Request, GormWrite(q) PROVE StandInv'
    BY <2>10, <2>11 DEF GormWrite, AtWrite, Pending
  <2>12. ASSUME NEW q \in Request, SpringFlush(q) PROVE StandInv'
    <3>1. pc[q] \in Pending /\ asked[q].op # "create" /\ backend # "nestjs"
      BY <1>0, <2>12 DEF SpringFlush, Pending, StepInv, StepInvOf
    <3>2. CASE UNCHANGED row /\ Answer(q, "error")
      BY <1>2, <2>1, <2>8, <3>1, <3>2, StandsAfter
    <3> QED
      BY <2>10, <2>12, <3>1, <3>2 DEF SpringFlush
  <2>13. ASSUME NEW q \in Request, SpringLookup(q) PROVE Stand
    <3>1. CASE UNCHANGED <<reply, asked>>
      BY <2>2, <2>13, <3>1 DEF SpringLookup
    <3>2. CASE asked[q].op = "remove" /\ row = Gone /\ Answer(q, "ok")
      BY <1>2, <2>0, <2>13, <3>2, StandsAfter DEF SpringLookup, AtWrite
    <3> QED
      BY <2>13, <3>1, <3>2 DEF SpringLookup
  <2>14. CASE UNCHANGED vars
    <3>1. Stand
      BY <2>2, <2>14 DEF vars
    <3> QED
      BY <2>1, <3>1
  <2> HIDE DEF Stand
  <2> QED
    BY <2>1, <2>3, <2>4, <2>5, <2>6, <2>7, <2>9, <2>11, <2>12, <2>13, <2>14 DEF Next
<1> QED
  BY <1>1, <1>2 DEF StandInv

-----------------------------------------------------------------------------
(* The theorems. *)

\* Every variable of ResourceStore keeps a value of its kind, and a handler
\* that has answered does nothing more.
THEOREM StoreTypeCorrect == Spec => []StoreTypeOK
<1>1. IInv => StoreTypeOK
  BY DEF IInv
<1> QED
  BY StoreInvariance, <1>1, PTL

\* For any number of requests, only a race between a find and a write shows: in
\* an error, or in an answer that a raced update of Fiber or Spring undid.
THEOREM RacesAloneShow == Spec => []OnlyRacesShow
<1>1. Init => ErrorInv /\ StandInv
  BY DEF Init, ErrorInv, StandInv, Stands
<1>2. ErrorInv /\ StandInv => OnlyRacesShow
  BY DEF ErrorInv, StandInv, Undone, OnlyRacesShow
<1> QED
  BY StoreInvariance, ErrorStep, StandStep, <1>1, <1>2, PTL DEF Spec

-----------------------------------------------------------------------------
(* The refinement. *)

\* The variables of AtomicStore.
Told ==
    [q \in Request |-> IF reply[q] \in {"not found", "error"} THEN "refused"
                       ELSE reply[q]]

Loose == IF backend = "nestjs" THEN {} ELSE raced

\* The answers as AtomicStore has them.
Plain(r) == IF r \in {"not found", "error"} THEN "refused" ELSE r

\* An answer with its effect on the row is a step of AtomicStore.
LEMMA ServeStep ==
    ASSUME IInv, NEW q \in Request, NEW r \in {"ok", "not found", "error"},
           Answer(q, r), pc[q] \notin {"idle", "over"}, Loose \subseteq Loose',
           \/ Store!Effect(q, asked[q].op, Plain(r))
           \/ Store!Slip(q, asked[q].op, Plain(r))
    PROVE  Store!Next
<1>1. asked[q] # Store!NotAsked /\ reply[q] = "none"
  BY DEF IInv, StoreTypeOK, StepInv, StepInvOf
<1>2. Told[q] = "none" /\ Told' = [Told EXCEPT ![q] = Plain(r)]
  BY <1>1 DEF IInv, StoreTypeOK, Answer, Told, Plain
<1>3. Plain(r) \in {"ok", "refused"}
  BY DEF Plain
<1>4. Store!Serve(q)
  BY <1>1, <1>2, <1>3 DEF Store!Serve, Answer, Told
<1> QED
  BY <1>4 DEF Store!Next, Loose

\* A write or a failure of a handler that found its row.
LEMMA WriteServes ==
    ASSUME IInv, NEW q \in Request, pc[q] \in Pending, asked[q].op # "create"
    PROVE  /\ asked[q].op \in {"update", "remove"}
           /\ seen[q] \in Store!Content
           /\ row \in Store!Content \cup {Gone}
           /\ q \notin raced => row = seen[q] /\ pc[q] # "inserting"
           /\ row = Gone => q \in raced
           /\ row' = Left(q, row) /\ row # Gone =>
                 Store!Effect(q, asked[q].op, "ok")
           /\ row' = Left(q, seen[q]) /\ backend # "nestjs" =>
                 \/ Store!Effect(q, asked[q].op, "ok")
                 \/ Store!Slip(q, asked[q].op, "ok")
<1>1. pc[q] # "idle" /\ asked[q].op # "read"
  BY DEF Pending, IInv, StepInv, StepInvOf
<1>2. asked[q].op \in {"update", "remove"}
  BY <1>1, Begun
<1>3. seen[q] \in Store!Content /\ row \in Store!Content \cup {Gone}
  BY <1>1, RowKind DEF IInv, FoundInv, FoundInvOf
<1>4. /\ q \notin raced => row = seen[q] /\ pc[q] # "inserting"
      /\ row = Gone => q \in raced
  BY <1>3, AbsentRows DEF IInv, FoundInv, FoundInvOf
<1>5. row' = Left(q, row) /\ row # Gone => Store!Effect(q, asked[q].op, "ok")
  BY <1>2, <1>3, AbsentRows DEF Left, Store!Effect, Store!Absent
<1>6. ASSUME row' = Left(q, seen[q]), backend # "nestjs"
      PROVE  \/ Store!Effect(q, asked[q].op, "ok")
             \/ Store!Slip(q, asked[q].op, "ok")
  <2>1. CASE q \notin raced
    BY <1>3, <1>4, <1>5, <1>6, <2>1, AbsentRows
  <2>2. CASE q \in raced /\ asked[q].op = "update"
    BY <1>3, <1>6, <2>2 DEF Left, Store!Slip
  <2>3. CASE q \in raced /\ asked[q].op = "remove" /\ row = Gone
    BY <1>6, <2>3 DEF Left, Store!Slip
  <2>4. CASE asked[q].op = "remove" /\ row # Gone
    BY <1>3, <1>5, <1>6, <2>4 DEF Left
  <2> QED
    BY <1>2, <2>1, <2>2, <2>3, <2>4
<1> QED
  BY <1>2, <1>3, <1>4, <1>5, <1>6

\* NestJS is atomic, whatever its requests do between their two statements;
\* Fiber and Spring are but for the requests whose row changed in between.
THEOREM RefinesStore == Spec => ImplementsStore
<1>1. Init => Store!Init
  BY DEF Init, Store!Init
<1>2. IInv /\ [Next]_vars => [Store!Next]_Store!storeVars
  <2> SUFFICES ASSUME IInv, [Next]_vars PROVE [Store!Next]_Store!storeVars
    OBVIOUS
  <2> USE DEF config
  <2>1. ASSUME UNCHANGED <<row, asked, reply, raced, backend>>
        PROVE  UNCHANGED Store!storeVars
    BY <2>1 DEF Store!storeVars
  <2>2. ASSUME NEW q \in Request, NEW p \in Process, NEW a \in Store!Ask,
               Receive(q, p, a)
        PROVE  Store!Next
    <3>1. Store!Send(q, a)
      BY <2>2 DEF Receive, Store!Send
    <3> QED
      BY <2>2, <3>1 DEF Receive, Store!Next
  <2>3. ASSUME NEW q \in Request, NEW r, Answer(q, r),
               UNCHANGED raced \/ \E x : Write(q, x)
        PROVE  Loose \subseteq Loose'
    BY <2>3 DEF Answer, Write, Loose
  <2>4. ASSUME NEW q \in Request, Find(q) PROVE [Store!Next]_Store!storeVars
    <3>1. CASE reply' = reply
      BY <2>1, <2>4, <3>1 DEF Find, Answer
    <3>2. row \in Store!Content \cup {Gone} /\ asked[q].op # "create"
      BY <2>4, RowKind DEF Find, IInv, StepInv, StepInvOf
    <3>3. CASE Answer(q, "not found") /\ row = Gone
      <4>1. Store!Effect(q, asked[q].op, Plain("not found"))
        BY <2>4, <3>2, <3>3 DEF Find, Store!Effect, Store!Absent, Plain
      <4> QED
        BY <2>3, <2>4, <3>3, <4>1, ServeStep DEF Find
    <3>4. CASE Answer(q, "ok") /\ row # Gone /\ asked[q].op = "read"
      <4>1. Store!Effect(q, asked[q].op, Plain("ok"))
        BY <2>4, <3>2, <3>4, AbsentRows
        DEF Find, Store!Effect, Store!Absent, Plain
      <4> QED
        BY <2>3, <2>4, <3>4, <4>1, ServeStep DEF Find
    <3> QED
      BY <2>4, <3>1, <3>3, <3>4 DEF Find
  <2>5. ASSUME NEW q \in Request, Create(q) PROVE Store!Next
    <3>1. row = Unborn
      BY <2>5 DEF Create, IInv, StepInv, StepInvOf
    <3>2. Store!Effect(q, asked[q].op, Plain("ok"))
      BY <2>5, <3>1 DEF Create, Write, Store!Effect, Plain
    <3> QED
      BY <2>3, <2>5, <3>2, ServeStep DEF Create
  <2>6. ASSUME NEW q \in Request, PrismaWrite(q) PROVE Store!Next
    <3>1. pc[q] \in Pending /\ asked[q].op # "create" /\ pc[q] = "writing"
      BY <2>6 DEF PrismaWrite, AtWrite, Pending
    <3>2. CASE row = Gone /\ UNCHANGED <<row, raced>> /\ Answer(q, "error")
      <4>1. Store!Effect(q, asked[q].op, Plain("error"))
        BY <3>1, <3>2 DEF Store!Effect, Store!Absent, Plain
      <4> QED
        BY <2>3, <3>1, <3>2, <4>1, ServeStep
    <3>3. CASE row # Gone /\ Write(q, Left(q, row)) /\ Answer(q, "ok")
      <4>1. Store!Effect(q, asked[q].op, Plain("ok"))
        BY <3>1, <3>3, WriteServes DEF Write, Plain
      <4> QED
        BY <2>3, <3>1, <3>3, <4>1, ServeStep
    <3> QED
      BY <2>6, <3>2, <3>3 DEF PrismaWrite
  \* The writes of Fiber and Spring.
  <2>7. ASSUME NEW q \in Request, pc[q] \in Pending, asked[q].op # "create",
               backend # "nestjs", Write(q, Left(q, seen[q])), Answer(q, "ok")
        PROVE  Store!Next
    <3>1. \/ Store!Effect(q, asked[q].op, Plain("ok"))
          \/ Store!Slip(q, asked[q].op, Plain("ok"))
      BY <2>7, WriteServes DEF Write, Plain
    <3> QED
      BY <2>3, <2>7, <3>1, ServeStep DEF Pending
  <2>8. ASSUME NEW q \in Request, GormWrite(q) PROVE Store!Next
    BY <2>7, <2>8 DEF GormWrite, AtWrite, Pending
  <2>9. ASSUME NEW q \in Request, SpringFlush(q) PROVE Store!Next
    <3>1. pc[q] \in Pending /\ asked[q].op # "create" /\ backend = "springkt"
      BY <2>9 DEF SpringFlush, Pending, IInv, StepInv, StepInvOf
    <3>2. CASE /\ (pc[q] = "inserting") # (row = Gone)
               /\ UNCHANGED <<row, raced>> /\ Answer(q, "error")
      <4>1. q \in raced
        BY <2>9, <3>1, <3>2, WriteServes DEF SpringFlush
      <4>2. Store!Slip(q, asked[q].op, Plain("error"))
        BY <3>1, <3>2, <4>1, WriteServes DEF Store!Slip, Plain
      <4> QED
        BY <2>3, <3>1, <3>2, <4>2, ServeStep DEF Pending
    <3> QED
      BY <2>7, <2>9, <3>1, <3>2 DEF SpringFlush
  <2>10. ASSUME NEW q \in Request, SpringLookup(q)
         PROVE  [Store!Next]_Store!storeVars
    <3>1. CASE UNCHANGED <<row, asked, reply, raced, backend>>
      BY <2>1, <3>1
    <3>2. CASE Answer(q, "ok") /\ asked[q].op = "remove" /\ row = Gone
      <4>1. /\ pc[q] \in Pending /\ asked[q].op # "create"
            /\ backend = "springkt" /\ UNCHANGED <<row, raced>>
        BY <2>10 DEF SpringLookup, AtWrite, Pending
      <4>2. Store!Slip(q, asked[q].op, Plain("ok"))
        BY <3>2, <4>1, WriteServes DEF Store!Slip, Plain
      <4> QED
        BY <2>3, <3>2, <4>1, <4>2, ServeStep DEF Pending
    <3> QED
      BY <2>10, <3>1, <3>2 DEF SpringLookup
  <2>11. ASSUME NEW q \in Request, Connect(q) PROVE UNCHANGED Store!storeVars
    BY <2>1, <2>11 DEF Connect
  <2>12. ASSUME NEW p \in Process, Die(p) PROVE UNCHANGED Store!storeVars
    BY <2>1, <2>12 DEF Die
  <2>13. CASE UNCHANGED vars
    BY <2>1, <2>13 DEF vars
  <2> QED
    BY <2>2, <2>4, <2>5, <2>6, <2>8, <2>9, <2>10, <2>11, <2>12, <2>13 DEF Next
<1> QED
  BY StoreInvariance, <1>1, <1>2, PTL DEF Spec, ImplementsStore, Store!Spec
=============================================================================
