------------------------------ MODULE PortCheck ------------------------------
(***************************************************************************)
(* The page's check that the target is reachable: the port in the form,    *)
(* the status shown beside it, the debounced, polled and immediate checks  *)
(* that set it, and the Run button it enables. Checks are answered in any  *)
(* order; an answer is applied to whatever port the form holds by then.    *)
(***************************************************************************)
EXTENDS Naturals

CONSTANTS
    Port,           \* the ports a user may choose
    DefaultPort,    \* the port of the form when the page opens
    NoPort,         \* target_port = null, the ceiling check
    MaxEdits,       \* bound: changes of the port
    MaxChecks,      \* bound: checks or answers on their way for one port
    MaxChanges      \* bound: targets that go up or down, checks that fail

ASSUME PortAssumption == DefaultPort \in Port /\ NoPort \notin Port
ASSUME BoundsAssumption ==
    MaxEdits \in Nat /\ MaxChecks \in Nat \ {0} /\ MaxChanges \in Nat

VARIABLES
    port,       \* form().target_port
    status,     \* portStatus()
    about,      \* history: the port whose check gave the status
    debounce,   \* portCheckTimer is armed
    asked,      \* checks on their way to /api/health, for each port
    answers,    \* answers on their way back, for each port and outcome
    up,         \* the targets that answer
    edits, changes

vars == <<port, status, about, debounce, asked, answers, up, edits, changes>>

Outcome == {"up", "down"}

\* What a check of the port finds at this moment: no port always passes.
Found(p) == IF p \in up \cup {NoPort} THEN "up" ELSE "down"

-----------------------------------------------------------------------------
\* The page has just opened: ngOnInit sent the first check.
Init ==
    /\ port = DefaultPort
    /\ status = "checking"
    /\ about = DefaultPort
    /\ debounce = FALSE
    /\ asked = [p \in Port |-> IF p = DefaultPort THEN 1 ELSE 0]
    /\ answers = [p \in Port |-> [o \in Outcome |-> 0]]
    /\ up \in SUBSET Port
    /\ edits = 0
    /\ changes = 0

\* checkCurrentPort, up to its fetch, with p in the form.
Check(p) ==
    /\ about' = p
    /\ IF p = NoPort
       THEN status' = "up" /\ UNCHANGED asked
       ELSE /\ asked[p] < MaxChecks
            /\ status' = "checking"
            /\ asked' = [asked EXCEPT ![p] = @ + 1]

Edit(p) ==
    /\ edits < MaxEdits
    /\ edits' = edits + 1
    /\ port' = p
    /\ UNCHANGED <<answers, up, changes>>

\* updatePort: the form changes at once, the check follows 400 ms later.
TypePort(p) ==
    /\ Edit(p)
    /\ debounce' = TRUE
    /\ UNCHANGED <<status, about, asked>>

\* selectSavedTarget, and toggleCeiling to and from the ceiling check: neither
\* clears the timer of an earlier edit.
Choose(p) ==
    /\ Edit(p)
    /\ Check(p)
    /\ UNCHANGED debounce

DebounceFires ==
    /\ debounce
    /\ debounce' = FALSE
    /\ Check(port)
    /\ UNCHANGED <<port, answers, up, edits, changes>>

\* portPollTimer, every five seconds.
PollFires ==
    /\ Check(port)
    /\ UNCHANGED <<port, debounce, answers, up, edits, changes>>

\* A check is over and its outcome travels back to the page.
Answer(p, outcome) ==
    /\ asked[p] > 0
    /\ answers[p][outcome] < MaxChecks
    /\ asked' = [asked EXCEPT ![p] = @ - 1]
    /\ answers' = [answers EXCEPT ![p][outcome] = @ + 1]
    /\ UNCHANGED <<port, status, about, debounce, up, edits>>

\* /api/health tries the port: refused, timed out, or answered below 500.
Probe(p) == Answer(p, Found(p)) /\ UNCHANGED changes

\* The check itself fails: the page takes that for 'down'.
CheckFails(p) ==
    /\ changes < MaxChanges
    /\ changes' = changes + 1
    /\ Answer(p, "down")

\* Mutant: only the answer 'up' is shown.
ShowUpOnly(p, outcome) ==
    /\ answers[p][outcome] > 0
    /\ answers' = [answers EXCEPT ![p][outcome] = @ - 1]
    /\ status' = IF outcome = "up" THEN "up" ELSE status
    /\ about' = p
    /\ UNCHANGED <<port, debounce, asked, up, edits, changes>>

\* The answer arrives and is shown, whatever the form holds by now.
Show(p, outcome) ==
    /\ answers[p][outcome] > 0
    /\ answers' = [answers EXCEPT ![p][outcome] = @ - 1]
    /\ status' = outcome
    /\ about' = p
    /\ UNCHANGED <<port, debounce, asked, up, edits, changes>>

\* A target starts or stops.
Flip(p) ==
    /\ changes < MaxChanges
    /\ changes' = changes + 1
    /\ up' = IF p \in up THEN up \ {p} ELSE up \cup {p}
    /\ UNCHANGED <<port, status, about, debounce, asked, answers, edits>>

Next ==
    \/ \E p \in Port :
          \/ Probe(p)
          \/ CheckFails(p)
          \/ Flip(p)
          \/ \E outcome \in Outcome : Show(p, outcome)
    \/ \E p \in Port \cup {NoPort} : TypePort(p) \/ Choose(p)
    \/ DebounceFires
    \/ PollFires

Spec == Init /\ [][Next]_vars

\* Timers fire, and a check ends within its 1500 ms and is answered. The user
\* and the targets owe nothing.
FairSpec ==
    /\ Spec
    /\ WF_vars(DebounceFires)
    /\ WF_vars(PollFires)
    /\ \A p \in Port :
          /\ WF_vars(Probe(p))
          /\ \A outcome \in Outcome : WF_vars(Show(p, outcome))

-----------------------------------------------------------------------------
(* Properties. *)

\* The Run button is enabled.
canRun == port = NoPort \/ status = "up"

\* A check of p is on its way, or its answer is.
UnderWay(p) == asked[p] > 0 \/ \E outcome \in Outcome : answers[p][outcome] > 0

\* The status never hangs in the air: while it is 'checking', a check of the very
\* port it is about is under way, so that an answer for another port may end it
\* early but none is missing; and unless a target changed or a check failed, what
\* it shows is true of the port it is about, however many checks overlap.
StatusHasGround ==
    /\ status = "checking" => about \in Port /\ UnderWay(about)
    /\ changes = 0 => status \in {"checking", Found(about)}

\* Once the user and the targets rest, the status tells the truth: stale
\* answers die out, from then on it shows nothing false, and it does not stay
\* at 'checking', however the checks and their answers were interleaved.
StatusCatchesUp ==
    /\ <>[](status \in {"checking", Found(port)})
    /\ []<>(status = Found(port))

\* The README has the page check reachability before it lets the user run: an
\* enabled Run button would rest on a check of the port in the form.
RunOnlyChecked == canRun /\ port # NoPort => about = port
=============================================================================
