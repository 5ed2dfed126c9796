------------------------------ MODULE PanelPage ------------------------------
(***************************************************************************)
(* The page's side of a run: the history it loads, the pending entry of a  *)
(* submitted run, the EventSource that follows it, and the panel's server  *)
(* as RunLedger describes it, which RunManager implements. POSTs, the load *)
(* of the history and the messages of the streams travel: what the page    *)
(* does with an answer happens later than what the server did, and a       *)
(* submission does not wait for the one before.                            *)
(***************************************************************************)
EXTENDS Naturals

CONSTANTS
    Run,        \* the submissions, and the runs they start
    Result,     \* the summaries a run can end with
    NoResult,   \* no summary
    NoRun,      \* no run followed, no entry selected
    MaxFaults   \* bound: crashes, broken connections and lost answers

ASSUME PageAssumption ==
    NoRun \notin Run /\ NoResult \notin Result /\ MaxFaults \in Nat

VARIABLES
    stage, result, told,    \* the ledger: the table, and who was told of an end
    registry,   \* the runs the server still knows
    load,       \* the answer to loadHistory: "asked", "read" or "settled"
    rows,       \* what GET /api/history read
    post,       \* each POST: from "idle" to "answered" or "failed"
    history,    \* history(), a set of entries
    source,     \* each run's EventSource
    mail,       \* the streams with a 'done' on its way to the page
    current,    \* this.eventSource
    faults,
    early,      \* history: runs submitted before the load settled
    overlap     \* history: runs submitted while another POST was unanswered,
                \* and those whose POST it was

serverVars == <<stage, result, told, registry>>
pageVars == <<load, rows, post, history, source, current>>
vars == <<serverVars, pageVars, mail, faults, early, overlap>>

NotTold == <<NoRun, NoResult>>

Ledger == INSTANCE RunLedger WITH Viewer <- Run

Entry == [run     : Run,
          id      : {"pending", "own"},     \* 'pending-...' or the run's
          status  : {"open", "done", "failed"},
          summary : Result \cup {NoResult}]

Waiting == {r \in Run : post[r] \in {"sent", "started", "rejected"}}
Live    == {r \in Run : source[r] \in {"connecting", "open"}}

\* items.map(run => run.id === id ? ... : run), for an entry e: the id of the
\* run, a failure, or its result x.
Owned(e, r) ==
    IF e.run = r /\ e.id = "pending" THEN [e EXCEPT !.id = "own"] ELSE e

Failed(e, r) ==
    IF e.run = r /\ e.id = "pending" THEN [e EXCEPT !.status = "failed"] ELSE e

Ended(e, r, x) ==
    IF e.run = r /\ e.id = "own"
    THEN [e EXCEPT !.status = "done", !.summary = x] ELSE e

Fault ==
    /\ faults < MaxFaults
    /\ faults' = faults + 1

-----------------------------------------------------------------------------
\* The page has just opened and asked for the history.
Init ==
    /\ Ledger!Init
    /\ registry = {}
    /\ load = "asked"
    /\ rows = {}
    /\ post = [r \in Run |-> "idle"]
    /\ history = {}
    /\ source = [r \in Run |-> "none"]
    /\ mail = {}
    /\ current = NoRun
    /\ faults = 0
    /\ early = {}
    /\ overlap = {}

-----------------------------------------------------------------------------
(* The history. *)

\* GET /api/history
ReadHistory ==
    /\ load = "asked"
    /\ load' = "read"
    /\ rows' = {[run |-> r, id |-> "own",
                 status  |-> IF stage[r] = "closed" THEN "done" ELSE "open",
                 summary |-> result[r]] : r \in {q \in Run : stage[q] # "absent"}}
    /\ UNCHANGED <<serverVars, post, history, source, current, mail, faults,
                   early, overlap>>

\* Mutant: the answer is added to what is there.
AddHistory ==
    /\ load = "read"
    /\ load' = "settled"
    /\ history' = history \cup rows
    /\ UNCHANGED <<serverVars, rows, post, source, current, mail, faults,
                   early, overlap>>

\* The answer of loadHistory replaces whatever is there.
ShowHistory ==
    /\ load = "read"
    /\ load' = "settled"
    /\ history' = rows
    /\ UNCHANGED <<serverVars, rows, post, source, current, mail, faults,
                   early, overlap>>

\* The history is best-effort: without an answer it stays as it is.
HistoryFails ==
    /\ Fault
    /\ load \in {"asked", "read"}
    /\ load' = "settled"
    /\ UNCHANGED <<serverVars, rows, post, history, source, current, mail,
                   early, overlap>>

-----------------------------------------------------------------------------
(* A submission. *)

\* What submitPreview does before its fetch, but for the source it closes.
Enter(r) ==
    /\ post[r] = "idle"
    /\ post' = [post EXCEPT ![r] = "sent"]
    /\ history' = history \cup {[run |-> r, id |-> "pending",
                                 status |-> "open", summary |-> NoResult]}
    /\ early' = IF load = "settled" THEN early ELSE early \cup {r}
    /\ overlap' = IF Waiting = {} THEN overlap ELSE overlap \cup Waiting \cup {r}
    /\ UNCHANGED <<serverVars, load, rows, current, faults>>

\* Mutant: the stream of the last run is left open.
SubmitOnly(r) == Enter(r) /\ UNCHANGED <<source, mail>>

\* submitPreview closes the source in the field, enters the run and posts it.
Submit(r) ==
    /\ Enter(r)
    /\ source' = [s \in Run |-> IF s = current THEN "closed" ELSE source[s]]
    /\ mail' = mail \ {current}

\* POST /api/run-test starts the run.
StartRun(r) ==
    /\ post[r] = "sent"
    /\ post' = [post EXCEPT ![r] = "started"]
    /\ Ledger!Begin(r)
    /\ registry' = registry \cup {r}
    /\ UNCHANGED <<load, rows, history, source, current, mail, faults, early,
                   overlap>>

\* A 400 or a 500, or an answer that is lost on its way: the fetch rejects or
\* is not ok, whether the run was started or not.
Reject(r) ==
    /\ \/ post[r] = "sent" /\ UNCHANGED faults
       \/ post[r] = "started" /\ Fault
    /\ post' = [post EXCEPT ![r] = "rejected"]
    /\ UNCHANGED <<serverVars, load, rows, history, source, current, mail,
                   early, overlap>>

\* Mutant: the page does not look whether the answer is ok.
FollowUnchecked(r) ==
    /\ post[r] \in {"started", "rejected"}
    /\ post' = [post EXCEPT ![r] = "answered"]
    /\ history' = {Owned(e, r) : e \in history}
    /\ source' = [source EXCEPT ![r] = "connecting"]
    /\ current' = r
    /\ UNCHANGED <<serverVars, load, rows, mail, faults, early, overlap>>

\* The answer gives the pending entry its id, and a source to follow the run.
Follow(r) ==
    /\ post[r] = "started"
    /\ post' = [post EXCEPT ![r] = "answered"]
    /\ history' = {Owned(e, r) : e \in history}
    /\ source' = [source EXCEPT ![r] = "connecting"]
    /\ current' = r
    /\ UNCHANGED <<serverVars, load, rows, mail, faults, early, overlap>>

\* Mutant: the catch leaves the entry as it is.
SubmitFailsSilently(r) ==
    /\ post[r] = "rejected"
    /\ post' = [post EXCEPT ![r] = "failed"]
    /\ UNCHANGED <<serverVars, load, rows, history, source, current, mail,
                   faults, early, overlap>>

\* Mutant: the catch takes the entry out.
SubmitFailsRemoves(r) ==
    /\ post[r] = "rejected"
    /\ post' = [post EXCEPT ![r] = "failed"]
    /\ history' = {e \in history : e.run # r}
    /\ UNCHANGED <<serverVars, load, rows, source, current, mail, faults,
                   early, overlap>>

\* The catch of submitPreview.
SubmitFails(r) ==
    /\ post[r] = "rejected"
    /\ post' = [post EXCEPT ![r] = "failed"]
    /\ history' = {Failed(e, r) : e \in history}
    /\ UNCHANGED <<serverVars, load, rows, source, current, mail, faults,
                   early, overlap>>

-----------------------------------------------------------------------------
(* Following a run. *)

\* The EventSource asks for the stream, for the first time or again. A 404
\* closes it for good.
Connect(r) ==
    /\ source[r] = "connecting"
    /\ source' = [source EXCEPT ![r] = IF r \in registry THEN "open" ELSE "closed"]
    /\ UNCHANGED <<serverVars, load, rows, post, history, current, mail,
                   faults, early, overlap>>

\* The connection breaks, and what was on its way is lost; the source retries.
Disconnect(r) ==
    /\ Fault
    /\ source[r] = "open"
    /\ source' = [source EXCEPT ![r] = "connecting"]
    /\ mail' = mail \ {r}
    /\ UNCHANGED <<serverVars, load, rows, post, history, current, early, overlap>>

\* The run ends at the server: the stream that is open is told.
Complete(r) ==
    LET V == {s \in {r} : source[s] = "open"}
    IN  /\ r \in registry
        /\ \E x \in Result : result' = [result EXCEPT ![r] = x]
        /\ Ledger!Complete(r, V)
        /\ mail' = mail \cup V
        /\ UNCHANGED <<registry, pageVars, faults, early, overlap>>

\* Mutant: every entry is taken for the run's.
DoneForAll(r) ==
    /\ r \in mail
    /\ history' = {[e EXCEPT !.status = "done", !.summary = told[r][2]] :
                      e \in history}
    /\ source' = [source EXCEPT ![r] = "closed"]
    /\ mail' = mail \ {r}
    /\ UNCHANGED <<serverVars, load, rows, post, current, faults, early, overlap>>

\* Mutant: the source is left open, and reconnects when the server closes it.
DoneKeepsSource(r) ==
    /\ r \in mail
    /\ history' = {Ended(e, r, told[r][2]) : e \in history}
    /\ source' = [source EXCEPT ![r] = "connecting"]
    /\ mail' = mail \ {r}
    /\ UNCHANGED <<serverVars, load, rows, post, current, faults, early, overlap>>

\* The listener of 'done': the entry gets the result, the source is closed.
ShowDone(r) ==
    /\ r \in mail
    /\ history' = {Ended(e, r, told[r][2]) : e \in history}
    /\ source' = [source EXCEPT ![r] = "closed"]
    /\ mail' = mail \ {r}
    /\ UNCHANGED <<serverVars, load, rows, post, current, faults, early, overlap>>

\* Ten minutes after its end the server forgets a run.
Forget(r) ==
    /\ r \in registry
    /\ stage[r] = "closed"
    /\ registry' = registry \ {r}
    /\ UNCHANGED <<stage, result, told, pageVars, mail, faults, early, overlap>>

\* The server dies and is started again: POSTs and streams are cut off.
Crash ==
    /\ Fault
    /\ registry' = {}
    /\ post' = [r \in Run |-> IF post[r] = "started" THEN "rejected" ELSE post[r]]
    /\ source' = [r \in Run |-> IF source[r] = "open" THEN "connecting"
                                ELSE source[r]]
    /\ mail' = {}
    /\ UNCHANGED <<stage, result, told, load, rows, history, current, early,
                   overlap>>

Next ==
    \/ ReadHistory \/ ShowHistory \/ HistoryFails \/ Crash
    \/ \E r \in Run :
          \/ Submit(r) \/ StartRun(r) \/ Reject(r) \/ Follow(r) \/ SubmitFails(r)
          \/ Connect(r) \/ Disconnect(r) \/ Complete(r) \/ ShowDone(r) \/ Forget(r)

Spec == Init /\ [][Next]_vars

\* A request is answered or fails, an EventSource connects again, a message of
\* an open stream arrives, and a run the server knows ends (RunManager's
\* ResultsAreStored). The user, the clean-up and the faults owe nothing.
FairSpec ==
    /\ Spec
    /\ WF_vars(ReadHistory) /\ WF_vars(ShowHistory)
    /\ \A r \in Run :
          /\ WF_vars(StartRun(r) \/ Reject(r))
          /\ WF_vars(Follow(r)) /\ WF_vars(SubmitFails(r))
          /\ WF_vars(Connect(r)) /\ WF_vars(Complete(r)) /\ WF_vars(ShowDone(r))

-----------------------------------------------------------------------------
(* Properties. *)

\* Every variable holds a value of its kind, and only a run that was started is
\* followed.
PageTypeOK ==
    /\ stage \in [Run -> {"absent", "open", "closed"}]
    /\ result \in [Run -> Result \cup {NoResult}]
    /\ told \in [Run -> {NotTold} \cup (Run \X Result)]
    /\ registry \in SUBSET Run
    /\ load \in {"asked", "read", "settled"}
    /\ rows \in SUBSET Entry
    /\ post \in [Run -> {"idle", "sent", "started", "rejected", "answered", "failed"}]
    /\ history \in SUBSET Entry
    /\ source \in [Run -> {"none", "connecting", "open", "closed"}]
    /\ mail \in SUBSET Run
    /\ current \in Run \cup {NoRun}
    /\ faults \in Nat
    /\ early \in SUBSET Run
    /\ overlap \in SUBSET Run
    /\ \A r \in Run : source[r] # "none" =>
                          post[r] = "answered" /\ stage[r] # "absent"

\* The history never shows a run twice, be it by its own id, by a pending one
\* or by the row the server sent, whichever answer came first.
OneEntryPerRun ==
    \A d, e \in history : d.run = e.run => d = e

\* A result in the history is the one the table holds for that very run,
\* however the answers and the streams of several runs interleave.
HistoryTellsLedger ==
    \A e \in history :
        e.status = "done" =>
            stage[e.run] = "closed" /\ e.summary = result[e.run] /\ e.id = "own"

\* The page follows one run at a time: a source that is live beside the one in
\* the field is of a run whose own POST overlapped another, however many
\* submissions there were before and after.
OneRunFollowed == Live \ {current} \subseteq overlap

\* A run that was submitted is listed for good. Only the answer of loadHistory
\* drops one: it was submitted before, and is not among the rows of the answer.
SubmittedRunsAreListed ==
    \A r \in Run :
        post[r] # "idle" =>
            \/ \E e \in history : e.run = r
            \/ r \in early /\ load = "settled" /\ \A w \in rows : w.run # r

\* No submission is left pending: its entry gets its id or is marked failed.
PendingEntriesResolve ==
    \A r \in Run :
        [](post[r] = "sent" =>
            <>(\A e \in history : e.run = r => e.id = "own" \/ e.status = "failed"))

\* A live source whose run ended while it was not open, or whose 'done' was lost
\* with the connection: only the answer of loadHistory can have shown the end.
Unheard(r) ==
    /\ r \in Live \ mail
    /\ stage[r] = "closed"
    /\ told[r] = NotTold \/ faults > 0
    /\ \A e \in history \ rows : e.run = r => e.status # "done"

\* A followed run is shown with its result and its source is closed, however
\* often its connection breaks or the server restarts, unless another submission
\* takes the field, the server has forgotten the run and answers 404, its source
\* did not hear the end, or 'done' found no entry to show it.
FollowedRunsAreShownDone ==
    \A r \in Run :
        r \in Live
            ~> \/ \E e \in history : e.run = r /\ e.status = "done"
                                      /\ source[r] = "closed"
               \/ Waiting # {}
               \/ source[r] = "closed" /\ r \notin registry
               \/ Unheard(r)
               \/ r \in early /\ \A e \in history : e.run = r => e.id # "own"
=============================================================================
