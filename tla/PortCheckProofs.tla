--------------------------- MODULE PortCheckProofs ---------------------------
(***************************************************************************)
(* Theorems of PortCheck, for any set of ports and any bounds.             *)
(***************************************************************************)
EXTENDS PortCheck, TLAPS

-----------------------------------------------------------------------------
(* The inductive invariant. *)

PortTypeOK ==
    /\ port \in Port \cup {NoPort}
    /\ status \in {"checking", "up", "down"}
    /\ about \in Port \cup {NoPort}
    /\ debounce \in BOOLEAN
    /\ asked \in [Port -> Nat]
    /\ answers \in [Port -> [Outcome -> Nat]]
    /\ up \in SUBSET Port
    /\ changes \in Nat

\* Unless a target changed or a check failed, the answers on their way are true.
AnswersAreTrue ==
    changes = 0 =>
        \A p \in Port : \A outcome \in Outcome :
            answers[p][outcome] > 0 => outcome = Found(p)

IInv == PortTypeOK /\ AnswersAreTrue /\ StatusHasGround

\* A check is under way once it was sent, or passes at once without a port.
LEMMA CheckStep ==
    ASSUME IInv, NEW p \in Port \cup {NoPort}, Check(p),
           UNCHANGED <<answers, up, changes>>
    PROVE  /\ status' \in {"checking", "up", "down"} /\ about' \in Port \cup {NoPort}
           /\ asked' \in [Port -> Nat]
           /\ AnswersAreTrue' /\ StatusHasGround'
<1> USE PortAssumption DEF IInv, PortTypeOK
<1>1. AnswersAreTrue'
  BY DEF AnswersAreTrue, Found
<1>2. CASE p = NoPort
  <2>1. status' = "up" /\ about' = NoPort /\ asked' = asked
    BY <1>2 DEF Check
  <2>2. Found(NoPort)' = "up"
    BY DEF Found
  <2> QED
    BY <1>1, <2>1, <2>2 DEF StatusHasGround
<1>3. CASE p \in Port
  <2>1. /\ status' = "checking" /\ about' = p
        /\ asked' = [asked EXCEPT ![p] = @ + 1]
    BY <1>3 DEF Check
  <2>2. asked' \in [Port -> Nat] /\ asked'[p] > 0
    BY <1>3, <2>1
  <2> QED
    BY <1>1, <1>3, <2>1, <2>2 DEF StatusHasGround, UnderWay
<1> QED
  BY <1>2, <1>3

\* An outcome that travels back is still under way.
LEMMA AnswerStep ==
    ASSUME IInv, NEW p \in Port, NEW outcome \in Outcome, Answer(p, outcome),
           changes' \in Nat, changes' = 0 => changes = 0 /\ outcome = Found(p)
    PROVE  IInv'
<1> USE DEF IInv, PortTypeOK
<1>1. /\ asked' = [asked EXCEPT ![p] = @ - 1] /\ asked[p] > 0
      /\ answers' = [answers EXCEPT ![p][outcome] = @ + 1]
      /\ UNCHANGED <<port, status, about, debounce, up>>
  BY DEF Answer
<1>2. asked' \in [Port -> Nat] /\ \A q \in Port : q # p => asked'[q] = asked[q]
  BY <1>1
<1>3. /\ answers' \in [Port -> [Outcome -> Nat]]
      /\ answers'[p][outcome] > 0
      /\ \A q \in Port : \A o \in Outcome :
            <<q, o>> # <<p, outcome>> => answers'[q][o] = answers[q][o]
  BY <1>1
<1>4. PortTypeOK'
  BY <1>1, <1>2, <1>3
<1>5. AnswersAreTrue'
  BY <1>1, <1>3 DEF AnswersAreTrue, Found
<1>6. ASSUME NEW q \in Port, UnderWay(q)
      PROVE  UnderWay(q)'
  BY <1>2, <1>3, <1>6 DEF UnderWay
<1>7. StatusHasGround'
  BY <1>1, <1>6 DEF StatusHasGround, Found
<1> QED
  BY <1>4, <1>5, <1>7

\* The status has ground from the first check, sent when the page opens, on.
THEOREM PortInvariance == Spec => []IInv
<1> USE PortAssumption, BoundsAssumption
<1>1. Init => IInv
  <2> SUFFICES ASSUME Init PROVE IInv
    OBVIOUS
  <2>1. PortTypeOK
    BY DEF Init, PortTypeOK
  <2>2. AnswersAreTrue
    BY DEF Init, AnswersAreTrue
  <2>3. StatusHasGround
    BY DEF Init, StatusHasGround, UnderWay
  <2> QED
    BY <2>1, <2>2, <2>3 DEF IInv
<1>2. IInv /\ [Next]_vars => IInv'
  <2> SUFFICES ASSUME IInv, [Next]_vars PROVE IInv'
    OBVIOUS
  <2> USE DEF IInv, PortTypeOK
  <2>1. ASSUME NEW p \in Port, Probe(p)
        PROVE  IInv'
    <3>1. Found(p) \in Outcome /\ Answer(p, Found(p)) /\ changes' = changes
      BY <2>1 DEF Probe, Found, Outcome
    <3> QED
      BY <3>1, AnswerStep
  <2>2. ASSUME NEW p \in Port, CheckFails(p)
        PROVE  IInv'
    <3>1. "down" \in Outcome /\ Answer(p, "down") /\ changes' = changes + 1
      BY <2>2 DEF CheckFails, Outcome
    <3> QED
      BY <3>1, AnswerStep
  <2>3. ASSUME NEW p \in Port, Flip(p)
        PROVE  IInv'
    <3>1. /\ changes' = changes + 1 /\ up' \in SUBSET Port
          /\ UNCHANGED <<port, status, about, debounce, asked, answers>>
      BY <2>3 DEF Flip
    <3>2. changes' # 0 /\ changes' \in Nat
      BY <3>1
    <3> QED
      BY <3>1, <3>2 DEF AnswersAreTrue, StatusHasGround, UnderWay
  <2>4. ASSUME NEW p \in Port, NEW outcome \in Outcome, Show(p, outcome)
        PROVE  IInv'
    <3>1. /\ answers[p][outcome] > 0
          /\ answers' = [answers EXCEPT ![p][outcome] = @ - 1]
          /\ status' = outcome /\ about' = p
          /\ UNCHANGED <<port, debounce, asked, up, changes>>
      BY <2>4 DEF Show
    <3>2. /\ answers' \in [Port -> [Outcome -> Nat]]
          /\ \A q \in Port : \A o \in Outcome : answers'[q][o] <= answers[q][o]
      BY <3>1
    <3>3. outcome \in {"up", "down"}
      BY DEF Outcome
    <3>4. PortTypeOK'
      BY <3>1, <3>2, <3>3
    <3>5. AnswersAreTrue'
      BY <3>1, <3>2 DEF AnswersAreTrue, Found
    <3>6. StatusHasGround'
      BY <3>1, <3>3 DEF StatusHasGround, AnswersAreTrue, Found
    <3> QED
      BY <3>4, <3>5, <3>6
  <2>5. ASSUME NEW p \in Port \cup {NoPort}, TypePort(p)
        PROVE  IInv'
    BY <2>5 DEF TypePort, Edit, AnswersAreTrue, StatusHasGround, UnderWay, Found
  <2>6. ASSUME NEW p \in Port \cup {NoPort}, Choose(p)
        PROVE  IInv'
    BY <2>6, CheckStep DEF Choose, Edit
  <2>7. ASSUME DebounceFires
        PROVE  IInv'
    BY <2>7, CheckStep DEF DebounceFires
  <2>8. ASSUME PollFires
        PROVE  IInv'
    BY <2>8, CheckStep DEF PollFires
  <2>9. ASSUME UNCHANGED vars
        PROVE  IInv'
    BY <2>9 DEF vars, AnswersAreTrue, StatusHasGround, UnderWay, Found
  <2> QED
    BY <2>1, <2>2, <2>3, <2>4, <2>5, <2>6, <2>7, <2>8, <2>9 DEF Next
<1> QED
  BY <1>1, <1>2, PTL DEF Spec

\* However checks, answers and edits interleave, 'checking' is never shown with
\* no check under way, and without changes the status is true of its port.
THEOREM StatusIsGrounded == Spec => []StatusHasGround
<1>1. IInv => StatusHasGround
  BY DEF IInv
<1> QED
  BY <1>1, PortInvariance, PTL
=============================================================================
