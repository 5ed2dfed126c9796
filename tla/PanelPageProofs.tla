--------------------------- MODULE PanelPageProofs ---------------------------
(***************************************************************************)
(* Theorems of PanelPage, for any set of runs and results and any number   *)
(* of faults. EntryInv ties the entries of the history, and the rows on    *)
(* their way, to the table; FollowInv names the runs that can be followed  *)
(* beside the one in the field. Together with PageTypeOK and ToldInv they  *)
(* are inductive.                                                          *)
(***************************************************************************)
EXTENDS PanelPage, TLAPS

\* The table and the streams agree on a result.
ToldInvOf(r) ==
    /\ post[r] = "idle" => stage[r] = "absent"
    /\ post[r] = "started" => stage[r] # "absent"
    /\ told[r] # NotTold => stage[r] = "closed" /\ told[r][2] = result[r]
    /\ r \in mail => told[r] # NotTold /\ source[r] = "open"
    /\ current = r => source[r] # "none"

ToldInv == \A r \in Run : ToldInvOf(r)

\* Entry d, of the same run as e, is true to the table.
TrueTo(e, d) ==
    /\ d.run = e.run
    /\ d.status = "done" =>
          stage[e.run] = "closed" /\ d.summary = result[e.run] /\ d.id = "own"

\* A set of entries, one for each run that was submitted, true to the table.
Entries(s) ==
    /\ \A d, e \in s : d.run = e.run => d = e
    /\ \A e \in s : post[e.run] # "idle" /\ TrueTo(e, e)

EntryInv ==
    /\ Entries(history) /\ Entries(rows)
    /\ \A r \in Run :
          post[r] # "idle" =>
              /\ load = "settled" \/ r \in early
              /\ \/ \E e \in history : e.run = r
                 \/ r \in early /\ load = "settled" /\ \A w \in rows : w.run # r

\* A POST that overlaps none is the only one unanswered, and while it is, the
\* source in the field is not live or belongs to one that did overlap.
FollowInv ==
    /\ \A q, r \in Waiting : q # r => q \in overlap
    /\ Waiting # {} /\ current \in Live => current \in overlap
    /\ Live \ {current} \subseteq overlap

IInv == PageTypeOK /\ ToldInv /\ EntryInv /\ FollowInv

-----------------------------------------------------------------------------
(* Entries. *)

\* What the page makes of an entry is an entry of the same run, and true if the
\* entry was.
LEMMA EntryEdits ==
    ASSUME NEW e \in Entry, NEW r
    PROVE  /\ Owned(e, r) \in Entry
           /\ Failed(e, r) \in Entry
           /\ \A x \in Result : Ended(e, r, x) \in Entry
           /\ TrueTo(e, e) => TrueTo(e, Owned(e, r)) /\ TrueTo(e, Failed(e, r))
           /\ \A x \in Result :
                 TrueTo(e, e) /\ stage[r] = "closed" /\ x = result[r] =>
                    TrueTo(e, Ended(e, r, x))
<1>1. Owned(e, r) \in Entry /\ (TrueTo(e, e) => TrueTo(e, Owned(e, r)))
  BY DEF Entry, Owned, TrueTo
<1>2. Failed(e, r) \in Entry /\ (TrueTo(e, e) => TrueTo(e, Failed(e, r)))
  BY DEF Entry, Failed, TrueTo
<1>3. ASSUME NEW x \in Result
      PROVE  /\ Ended(e, r, x) \in Entry
             /\ TrueTo(e, e) /\ stage[r] = "closed" /\ x = result[r] =>
                   TrueTo(e, Ended(e, r, x))
  BY DEF Entry, Ended, TrueTo
<1> QED
  BY <1>1, <1>2, <1>3

\* So are the rows that the server sends and the entry of a submission.
LEMMA NewEntries ==
    ASSUME NEW r \in Run, NEW i \in {"own", "pending"}, NEW x \in Result \cup {NoResult},
           NEW st \in {"open", "done", "failed"}
    PROVE  [run |-> r, id |-> i, status |-> st, summary |-> x] \in Entry
  BY DEF Entry

-----------------------------------------------------------------------------
(* The invariant. *)

LEMMA InitIInv == Init => IInv
<1> SUFFICES ASSUME Init PROVE IInv
  OBVIOUS
<1> USE DEF Init, Ledger!Init
<1>1. PageTypeOK
  BY PageAssumption DEF PageTypeOK, NotTold
<1>2. ToldInv
  BY PageAssumption DEF ToldInv, ToldInvOf, NotTold
<1>3. EntryInv /\ FollowInv
  BY DEF EntryInv, Entries, FollowInv, Live, Waiting
<1> QED
  BY <1>1, <1>2, <1>3 DEF IInv

LEMMA TypeStep == IInv /\ [Next]_vars => PageTypeOK'
<1> SUFFICES ASSUME IInv, [Next]_vars PROVE PageTypeOK'
  OBVIOUS
<1>0. PageTypeOK /\ ToldInv
  BY DEF IInv
<1> USE DEF PageTypeOK, serverVars, pageVars
<1>1. CASE ReadHistory
  <2>1. ASSUME NEW r \in Run
        PROVE  [run |-> r, id |-> "own",
                status |-> IF stage[r] = "closed" THEN "done" ELSE "open",
                summary |-> result[r]] \in Entry
    BY <1>0, NewEntries
  <2>2. rows' \in SUBSET Entry
    BY <1>1, <2>1 DEF ReadHistory
  <2> QED
    BY <1>0, <1>1, <2>2 DEF ReadHistory
<1>2. CASE ShowHistory
  BY <1>0, <1>2 DEF ShowHistory
<1>3. CASE HistoryFails
  BY <1>0, <1>3 DEF HistoryFails, Fault
<1>4. CASE Crash
  BY <1>0, <1>4 DEF Crash, Fault
<1>5. ASSUME NEW r \in Run, Submit(r) PROVE PageTypeOK'
  <2>1. history' \in SUBSET Entry
    <3>1. [run |-> r, id |-> "pending", status |-> "open", summary |-> NoResult]
             \in Entry
      BY NewEntries
    <3> QED
      BY <1>0, <1>5, <3>1 DEF Submit, Enter
  <2>2. source' \in [Run -> {"none", "connecting", "open", "closed"}]
    BY <1>0, <1>5 DEF Submit
  <2>3. \A s \in Run : source'[s] # "none" =>
                           post'[s] = "answered" /\ stage'[s] # "absent"
    <3>1. \A s \in Run : source'[s] # "none" => source[s] # "none"
      BY <1>0, <1>5 DEF Submit, ToldInv, ToldInvOf
    <3> QED
      BY <1>0, <1>5, <3>1 DEF Submit, Enter
  <2> QED
    BY <1>0, <1>5, <2>1, <2>2, <2>3 DEF Submit, Enter, Waiting
<1>6. ASSUME NEW r \in Run, StartRun(r) PROVE PageTypeOK'
  BY <1>0, <1>6 DEF StartRun, Ledger!Begin
<1>7. ASSUME NEW r \in Run, Reject(r) PROVE PageTypeOK'
  BY <1>0, <1>7 DEF Reject, Fault
<1>8. ASSUME NEW r \in Run, Follow(r) PROVE PageTypeOK'
  <2>1. history' \in SUBSET Entry
    BY <1>0, <1>8, EntryEdits DEF Follow
  <2>2. stage[r] # "absent"
    BY <1>0, <1>8 DEF Follow, ToldInv, ToldInvOf
  <2> QED
    BY <1>0, <1>8, <2>1, <2>2 DEF Follow
<1>9. ASSUME NEW r \in Run, SubmitFails(r) PROVE PageTypeOK'
  <2>1. history' \in SUBSET Entry
    BY <1>0, <1>9, EntryEdits DEF SubmitFails
  <2> QED
    BY <1>0, <1>9, <2>1 DEF SubmitFails
<1>10. ASSUME NEW r \in Run, Connect(r) PROVE PageTypeOK'
  BY <1>0, <1>10 DEF Connect
<1>11. ASSUME NEW r \in Run, Disconnect(r) PROVE PageTypeOK'
  BY <1>0, <1>11 DEF Disconnect, Fault
<1>12. ASSUME NEW r \in Run, Complete(r) PROVE PageTypeOK'
  BY <1>0, <1>12 DEF Complete, Ledger!Complete, NotTold
<1>13. ASSUME NEW r \in Run, ShowDone(r) PROVE PageTypeOK'
  <2>1. told[r][2] \in Result
    BY <1>0, <1>13 DEF ShowDone, ToldInv, ToldInvOf
  <2>2. history' \in SUBSET Entry
    BY <1>0, <1>13, <2>1, EntryEdits DEF ShowDone
  <2>3. source[r] # "none"
    BY <1>0, <1>13 DEF ShowDone, ToldInv, ToldInvOf
  <2> QED
    BY <1>0, <1>13, <2>2, <2>3 DEF ShowDone
<1>14. ASSUME NEW r \in Run, Forget(r) PROVE PageTypeOK'
  BY <1>0, <1>14 DEF Forget
<1>15. CASE UNCHANGED vars
  BY <1>0, <1>15 DEF vars
<1> QED
  BY <1>1, <1>2, <1>3, <1>4, <1>5, <1>6, <1>7, <1>8, <1>9, <1>10, <1>11, <1>12,
     <1>13, <1>14, <1>15 DEF Next

LEMMA ToldStep == IInv /\ [Next]_vars => ToldInv'
<1> SUFFICES ASSUME IInv, [Next]_vars PROVE ToldInv'
  OBVIOUS
<1>0. PageTypeOK /\ ToldInv
  BY DEF IInv
<1> USE DEF serverVars, pageVars
\* The steps that leave the table and the streams alone.
<1>1. ASSUME UNCHANGED <<stage, result, told, source, current, mail>>,
             \A r \in Run : post'[r] \in {"idle", "started"} => post'[r] = post[r]
      PROVE  ToldInv'
  BY <1>0, <1>1 DEF ToldInv, ToldInvOf, NotTold
<1>2. CASE ReadHistory \/ ShowHistory \/ HistoryFails \/ UNCHANGED vars
  BY <1>1, <1>2 DEF ReadHistory, ShowHistory, HistoryFails, vars
<1>3. ASSUME NEW r \in Run, Reject(r) \/ SubmitFails(r) PROVE ToldInv'
  BY <1>0, <1>1, <1>3 DEF Reject, SubmitFails, PageTypeOK
<1>4. CASE Crash
  BY <1>0, <1>4 DEF Crash, ToldInv, ToldInvOf, NotTold, PageTypeOK
<1>5. ASSUME NEW r \in Run, Submit(r) PROVE ToldInv'
  BY <1>0, <1>5 DEF Submit, Enter, ToldInv, ToldInvOf, NotTold, PageTypeOK
<1>6. ASSUME NEW r \in Run, StartRun(r) PROVE ToldInv'
  BY <1>0, <1>6 DEF StartRun, Ledger!Begin, ToldInv, ToldInvOf, NotTold, PageTypeOK
<1>7. ASSUME NEW r \in Run, Follow(r) PROVE ToldInv'
  BY <1>0, <1>7 DEF Follow, ToldInv, ToldInvOf, NotTold, PageTypeOK
<1>8. ASSUME NEW r \in Run, Connect(r) \/ Disconnect(r) PROVE ToldInv'
  BY <1>0, <1>8 DEF Connect, Disconnect, ToldInv, ToldInvOf, NotTold, PageTypeOK
<1>9. ASSUME NEW r \in Run, Complete(r) PROVE ToldInv'
  <2>1. PICK x \in Result : result' = [result EXCEPT ![r] = x]
    BY <1>9 DEF Complete
  <2>2. /\ stage[r] = "open" /\ stage' = [stage EXCEPT ![r] = "closed"]
        /\ told' = [s \in Run |-> IF s = r /\ source[r] = "open" THEN <<r, x>>
                                  ELSE told[s]]
        /\ mail' = mail \cup {s \in {r} : source[s] = "open"}
        /\ UNCHANGED <<post, source, current>>
    BY <1>0, <1>9, <2>1 DEF Complete, Ledger!Complete, PageTypeOK
  <2>3. <<r, x>> # NotTold /\ <<r, x>>[2] = x
    BY PageAssumption DEF NotTold
  <2>4. ASSUME NEW s \in Run PROVE ToldInvOf(s)'
    BY <1>0, <2>1, <2>2, <2>3 DEF ToldInv, ToldInvOf, PageTypeOK, NotTold
  <2> QED
    BY <2>4 DEF ToldInv
<1>10. ASSUME NEW r \in Run, ShowDone(r) PROVE ToldInv'
  BY <1>0, <1>10 DEF ShowDone, ToldInv, ToldInvOf, NotTold, PageTypeOK
<1>11. ASSUME NEW r \in Run, Forget(r) PROVE ToldInv'
  BY <1>1, <1>11 DEF Forget
<1> QED
  BY <1>2, <1>3, <1>4, <1>5, <1>6, <1>7, <1>8, <1>9, <1>10, <1>11 DEF Next

LEMMA FollowStep == IInv /\ [Next]_vars => FollowInv'
<1> SUFFICES ASSUME IInv, [Next]_vars PROVE FollowInv'
  OBVIOUS
<1>0. PageTypeOK /\ ToldInv /\ FollowInv
  BY DEF IInv
<1> USE DEF serverVars, pageVars
\* The steps that begin no POST and no source.
<1>1. ASSUME UNCHANGED <<overlap, current>>, Live' \subseteq Live, Waiting' \subseteq Waiting
      PROVE  FollowInv'
  BY <1>0, <1>1 DEF FollowInv
<1>2. CASE ReadHistory \/ ShowHistory \/ HistoryFails \/ UNCHANGED vars
  BY <1>1, <1>2 DEF ReadHistory, ShowHistory, HistoryFails, vars, Live, Waiting
<1>3. ASSUME NEW r \in Run, StartRun(r) \/ Reject(r) \/ SubmitFails(r) PROVE FollowInv'
  BY <1>0, <1>1, <1>3 DEF StartRun, Reject, SubmitFails, Live, Waiting, PageTypeOK
<1>4. CASE Crash
  BY <1>0, <1>1, <1>4 DEF Crash, Live, Waiting, PageTypeOK
<1>5. ASSUME NEW r \in Run, Submit(r) PROVE FollowInv'
  <2>1. Waiting' = Waiting \cup {r} /\ Live' = Live \ {current}
    BY <1>0, <1>5 DEF Submit, Enter, Live, Waiting, PageTypeOK
  <2>2. overlap' = IF Waiting = {} THEN overlap ELSE overlap \cup Waiting \cup {r}
    BY <1>5 DEF Submit, Enter
  <2>3. current' = current
    BY <1>5 DEF Submit, Enter
  <2> QED
    BY <1>0, <2>1, <2>2, <2>3 DEF FollowInv
<1>6. ASSUME NEW r \in Run, Follow(r) PROVE FollowInv'
  <2>1. /\ r \in Waiting /\ Waiting' = Waiting \ {r} /\ Live' = Live \cup {r}
        /\ current' = r /\ overlap' = overlap
    BY <1>0, <1>6 DEF Follow, Live, Waiting, PageTypeOK
  <2> QED
    BY <1>0, <2>1 DEF FollowInv
<1>7. ASSUME NEW r \in Run, Connect(r) \/ Disconnect(r) PROVE FollowInv'
  BY <1>0, <1>1, <1>7 DEF Connect, Disconnect, Live, Waiting, PageTypeOK
<1>8. ASSUME NEW r \in Run, Complete(r) \/ ShowDone(r) \/ Forget(r) PROVE FollowInv'
  BY <1>0, <1>1, <1>8 DEF Complete, ShowDone, Forget, Live, Waiting, PageTypeOK
<1> QED
  BY <1>2, <1>3, <1>4, <1>5, <1>6, <1>7, <1>8 DEF Next

\* A step keeps results and submissions, so what was true of an entry stays so.
LEMMA EntriesKept == IInv /\ [Next]_vars =>
    \A r \in Run :
        /\ post[r] # "idle" => post'[r] # "idle"
        /\ stage[r] = "closed" => stage'[r] = "closed" /\ result'[r] = result[r]
<1> SUFFICES ASSUME IInv, [Next]_vars
             PROVE  \A r \in Run :
                       /\ post[r] # "idle" => post'[r] # "idle"
                       /\ stage[r] = "closed" =>
                             stage'[r] = "closed" /\ result'[r] = result[r]
  OBVIOUS
<1> DEFINE Keeps == \A r \in Run :
        /\ post[r] # "idle" => post'[r] # "idle"
        /\ stage[r] = "closed" => stage'[r] = "closed" /\ result'[r] = result[r]
<1>1. Keeps
  <2>0. PageTypeOK
    BY DEF IInv
  <2> USE DEF serverVars, pageVars, PageTypeOK
  <2>1. CASE UNCHANGED <<stage, result, post>>
    BY <2>1
  <2>2. CASE Crash
    BY <2>0, <2>2 DEF Crash
  <2>3. ASSUME NEW r \in Run, Submit(r) \/ Reject(r) \/ Follow(r) \/ SubmitFails(r)
        PROVE  Keeps
    BY <2>0, <2>3 DEF Submit, Enter, Reject, Follow, SubmitFails
  <2>4. ASSUME NEW r \in Run, StartRun(r) PROVE Keeps
    BY <2>0, <2>4 DEF StartRun, Ledger!Begin
  <2>5. ASSUME NEW r \in Run, Complete(r) PROVE Keeps
    BY <2>0, <2>5 DEF Complete, Ledger!Complete
  <2> QED
    BY <2>1, <2>2, <2>3, <2>4, <2>5
    DEF Next, ReadHistory, ShowHistory, HistoryFails, Connect, Disconnect,
        ShowDone, Forget, vars
<1> QED
  BY <1>1

\* Editing each entry of the history leaves its entries true, of the same runs.
LEMMA EditedHistory ==
    ASSUME NEW s \in SUBSET Entry, Entries(s), NEW r \in Run, NEW t,
           \/ \A d : d \in t <=> \E e \in s : d = Owned(e, r)
           \/ \A d : d \in t <=> \E e \in s : d = Failed(e, r)
           \/ /\ stage[r] = "closed" /\ result[r] \in Result
              /\ \A d : d \in t <=> \E e \in s : d = Ended(e, r, result[r])
    PROVE  Entries(t) /\ \A e \in s : \E d \in t : d.run = e.run
<1>1. \A e \in s : TrueTo(e, Owned(e, r)) /\ TrueTo(e, Failed(e, r))
  BY EntryEdits DEF Entries
<1>2. CASE \A d : d \in t <=> \E e \in s : d = Owned(e, r)
  BY <1>1, <1>2 DEF Entries, TrueTo
<1>3. CASE \A d : d \in t <=> \E e \in s : d = Failed(e, r)
  BY <1>1, <1>3 DEF Entries, TrueTo
<1>4. CASE /\ stage[r] = "closed" /\ result[r] \in Result
           /\ \A d : d \in t <=> \E e \in s : d = Ended(e, r, result[r])
  <2>1. \A e \in s : TrueTo(e, Ended(e, r, result[r]))
    BY <1>4, EntryEdits DEF Entries
  <2> QED
    BY <1>4, <2>1 DEF Entries, TrueTo
<1> QED
  BY <1>2, <1>3, <1>4

LEMMA EntryStep == IInv /\ [Next]_vars => EntryInv'
<1> SUFFICES ASSUME IInv, [Next]_vars PROVE EntryInv'
  OBVIOUS
<1>0. PageTypeOK /\ ToldInv /\ EntryInv
  BY DEF IInv
<1> USE DEF serverVars, pageVars
<1>1. ASSUME NEW s \in SUBSET Entry, Entries(s)
      PROVE  /\ history' = s => Entries(history)'
             /\ rows' = s => Entries(rows)'
  <2>1. \A e \in s : e.run \in Run
    BY DEF Entry
  <2> QED
    BY <1>1, <2>1, EntriesKept DEF Entries, TrueTo
<1>2. Entries(rows)'
  <2>1. CASE ReadHistory
    BY <1>0, <2>1 DEF ReadHistory, Entries, TrueTo, ToldInv, ToldInvOf
  <2>2. CASE rows' = rows
    BY <1>0, <1>1, <2>2 DEF PageTypeOK, EntryInv
  <2> QED
    BY <2>1, <2>2
    DEF Next, ShowHistory, HistoryFails, Crash, Submit, Enter, StartRun, Reject,
        Follow, SubmitFails, Connect, Disconnect, Complete, ShowDone, Forget, vars
\* What a step makes of the history: the same runs, and those submitted.
<1> DEFINE Listed ==
        \A r \in Run :
          post'[r] # "idle" =>
              /\ load' = "settled" \/ r \in early'
              /\ \/ \E e \in history' : e.run = r
                 \/ r \in early' /\ load' = "settled" /\ \A w \in rows' : w.run # r
<1>3. ASSUME UNCHANGED <<early, load, rows>>, \A r \in Run : post[r] = "idle" => post'[r] = "idle",
             \A e \in history : \E d \in history' : d.run = e.run
      PROVE  Listed
  BY <1>0, <1>3 DEF EntryInv
<1>4. CASE UNCHANGED <<history, early, load, rows>> /\ ~ \E r \in Run : Submit(r)
  <2>1. \A r \in Run : post[r] = "idle" => post'[r] = "idle"
    <3>1. CASE UNCHANGED post
      BY <3>1
    <3>2. CASE Crash
      BY <1>0, <3>2 DEF Crash, PageTypeOK
    <3>3. ASSUME NEW q \in Run, StartRun(q) \/ Reject(q) \/ Follow(q) \/ SubmitFails(q)
          PROVE  \A r \in Run : post[r] = "idle" => post'[r] = "idle"
      BY <1>0, <3>3 DEF StartRun, Reject, Follow, SubmitFails, PageTypeOK
    <3> QED
      BY <1>4, <3>1, <3>2, <3>3
      DEF Next, ReadHistory, ShowHistory, HistoryFails, Connect, Disconnect,
          Complete, ShowDone, Forget, vars
  <2>2. Listed
    BY <1>3, <1>4, <2>1
  <2> QED
    BY <1>0, <1>1, <1>2, <1>4, <2>2 DEF EntryInv, PageTypeOK
<1>5. CASE ReadHistory \/ ShowHistory \/ HistoryFails
  <2>1. load # "settled" /\ UNCHANGED <<post, early>>
    BY <1>5 DEF ReadHistory, ShowHistory, HistoryFails
  <2>2. Listed
    BY <1>0, <1>5, <2>1 DEF EntryInv, ReadHistory, ShowHistory, HistoryFails
  <2>3. Entries(history)'
    BY <1>0, <1>1, <1>5
    DEF ReadHistory, ShowHistory, HistoryFails, EntryInv, PageTypeOK
  <2> QED
    BY <1>2, <2>2, <2>3 DEF EntryInv
<1>6. ASSUME NEW r \in Run, Submit(r) PROVE EntryInv'
  <2> DEFINE n == [run |-> r, id |-> "pending", status |-> "open", summary |-> NoResult]
  <2>1. /\ post[r] = "idle" /\ post' = [post EXCEPT ![r] = "sent"]
        /\ history' = history \cup {n}
        /\ early' = IF load = "settled" THEN early ELSE early \cup {r}
        /\ UNCHANGED <<load, rows, stage, result>>
    BY <1>6 DEF Submit, Enter
  <2>2. n.run = r /\ n.status # "done"
    OBVIOUS
  <2> HIDE DEF n
  <2>3. Entries(history)'
    BY <1>0, <2>1, <2>2 DEF Entries, TrueTo, EntryInv, PageTypeOK, Entry
  <2>4. Listed
    BY <1>0, <2>1, <2>2 DEF EntryInv, PageTypeOK
  <2> QED
    BY <1>2, <2>3, <2>4 DEF EntryInv
<1>7. ASSUME NEW r \in Run, Follow(r) \/ SubmitFails(r) \/ ShowDone(r) PROVE EntryInv'
  <2>1. /\ history \in SUBSET Entry /\ Entries(history)
        /\ UNCHANGED <<early, load, rows, stage, result>>
        /\ \A q \in Run : post[q] = "idle" => post'[q] = "idle"
    BY <1>0, <1>7 DEF Follow, SubmitFails, ShowDone, EntryInv, PageTypeOK
  <2>2. Entries(history') /\ \A e \in history : \E d \in history' : d.run = e.run
    <3>1. CASE Follow(r)
      <4>1. \A d : d \in history' <=> \E e \in history : d = Owned(e, r)
        BY <3>1 DEF Follow
      <4> QED
        BY <2>1, <4>1, EditedHistory
    <3>2. CASE SubmitFails(r)
      <4>1. \A d : d \in history' <=> \E e \in history : d = Failed(e, r)
        BY <3>2 DEF SubmitFails
      <4> QED
        BY <2>1, <4>1, EditedHistory
    <3>3. CASE ShowDone(r)
      <4>1. told[r][2] \in Result /\ stage[r] = "closed" /\ told[r][2] = result[r]
        BY <1>0, <3>3 DEF ShowDone, ToldInv, ToldInvOf, PageTypeOK
      <4>2. \A d : d \in history' <=> \E e \in history : d = Ended(e, r, result[r])
        BY <3>3, <4>1 DEF ShowDone
      <4> QED
        BY <2>1, <4>1, <4>2, EditedHistory
    <3> QED
      BY <1>7, <3>1, <3>2, <3>3
  <2>3. history' \in SUBSET Entry
    BY TypeStep DEF PageTypeOK
  <2>4. Entries(history)'
    BY <1>1, <2>2, <2>3
  <2>5. Listed
    BY <1>3, <2>1, <2>2
  <2> QED
    BY <1>2, <2>4, <2>5 DEF EntryInv
<1> QED
  BY <1>4, <1>5, <1>6, <1>7
  DEF Next, Crash, StartRun, Reject, Connect, Disconnect, Complete, Forget, vars

\* The inductive invariant holds throughout.
THEOREM PageInvariance == Spec => []IInv
<1>1. IInv /\ [Next]_vars => IInv'
  BY TypeStep, ToldStep, EntryStep, FollowStep DEF IInv
<1> QED
  BY InitIInv, <1>1, PTL DEF Spec

-----------------------------------------------------------------------------
(* The theorems. *)

\* Every variable of the page keeps a value of its kind, and only a run that
\* was started is followed.
THEOREM PageTypeCorrect == Spec => []PageTypeOK
<1>1. IInv => PageTypeOK
  BY DEF IInv
<1> QED
  BY PageInvariance, <1>1, PTL

\* No order of answers makes the history show a run twice.
THEOREM NoDoubleEntries == Spec => []OneEntryPerRun
<1>1. IInv => OneEntryPerRun
  BY DEF IInv, EntryInv, Entries, OneEntryPerRun
<1> QED
  BY PageInvariance, <1>1, PTL

\* No order of answers and messages gives an entry another run's result.
THEOREM HistoryIsTrue == Spec => []HistoryTellsLedger
<1>1. IInv => HistoryTellsLedger
  BY DEF IInv, EntryInv, Entries, TrueTo, HistoryTellsLedger
<1> QED
  BY PageInvariance, <1>1, PTL

\* Only runs whose own POSTs overlapped are followed beside the one in the field.
THEOREM OneRunIsFollowed == Spec => []OneRunFollowed
<1>1. IInv => OneRunFollowed
  BY DEF IInv, FollowInv, OneRunFollowed
<1> QED
  BY PageInvariance, <1>1, PTL

\* A run that was submitted stays listed, but for what the load of the history
\* replaces.
THEOREM SubmissionsStayListed == Spec => []SubmittedRunsAreListed
<1>1. IInv => SubmittedRunsAreListed
  BY DEF IInv, EntryInv, SubmittedRunsAreListed
<1> QED
  BY PageInvariance, <1>1, PTL
=============================================================================
