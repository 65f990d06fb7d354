--------------------------- MODULE RequestsProofs ---------------------------
(***************************************************************************)
(* Theorems about what the forms and buttons of the web UI ask of the      *)
(* server: forms (Forms), the Deployments tab (Deploying) and the values   *)
(* that are saved (Settings), for any number of requests.                  *)
(***************************************************************************)
EXTENDS Forms, Deploying, Settings, FiniteSetTheorems, TLAPS

-----------------------------------------------------------------------------
(* Forms: what a form that clears itself still holds was not taken and     *)
(* heard of.                                                               *)

FormStates == {"unused", "sent", "taken", "heard", "failed"}
Records == [at : FormStates, fill : Nat, mounted : BOOLEAN]

\* The types, and that fillings are numbered in the order in which they are typed.
FormInv ==
    /\ submissions \in [Submissions -> Records]
    /\ taken \subseteq Submissions
    /\ fills \in Nat /\ typed \in Nat /\ typed <= fills
    /\ \A s \in Submissions : submissions[s].fill <= fills
    /\ \A s \in taken : submissions[s].at # "unused"
    /\ {answer, newest} \subseteq Submissions \cup {None}
    /\ fills <= MaxFills /\ fKind \in AllForms /\ {fMounted, fOpen, fError} \subseteq BOOLEAN
    /\ fOpen => fMounted

\* What a form that clears itself still holds was not taken and heard of: it is under way, or it has failed.
TypedIsOpen ==
    fKind \in Clearing =>
        \A s \in Submissions : (submissions[s].fill = typed /\ typed > 0 /\ submissions[s].at # "unused") =>
            \/ submissions[s].at \in {"sent", "taken"} /\ submissions[s].mounted
            \/ submissions[s].at = "failed"

\* DuplicatesHaveReasons, of every submission and not only of those that the server has acted on.
RepeatsFollowFailures ==
    fKind \in Clearing =>
        \A s, r \in Submissions :
            (SentTwice(s, r) /\ submissions[s].at # "unused" /\ submissions[r].at # "unused") =>
                "failed" \in {submissions[s].at, submissions[r].at}

DuplicatesInv == FormInv /\ TypedIsOpen /\ RepeatsFollowFailures

-----------------------------------------------------------------------------
\* A step that leaves the submissions alone, and what is typed too unless it is forgotten or new.
LEMMA QuietSteps ==
    ASSUME DuplicatesInv, UNCHANGED <<fKind, submissions, taken>>,
           fills' \in Nat, fills <= fills', fills' <= MaxFills,
           typed' \in {typed, 0} \/ (typed' = fills' /\ fills' > fills),
           {answer', newest'} \subseteq Submissions \cup {None},
           {fMounted', fOpen', fError'} \subseteq BOOLEAN, fOpen' => fMounted'
    PROVE  DuplicatesInv'
<1>1. typed \in Nat /\ typed <= fills /\ fills \in Nat
  BY DEF DuplicatesInv, FormInv
<1>2. \A s \in Submissions : submissions[s].fill \in Nat /\ submissions[s].fill <= fills
  BY DEF DuplicatesInv, FormInv, Records
<1>3. FormInv'
  <2>1. typed' \in Nat /\ typed' <= fills'
    BY <1>1
  <2>2. \A s \in Submissions : submissions'[s].fill <= fills'
    BY <1>1, <1>2
  <2> QED
    BY <2>1, <2>2 DEF DuplicatesInv, FormInv
<1>4. TypedIsOpen'
  <2>1. \A s \in Submissions : (submissions[s].fill = typed' /\ typed' > 0) => typed' = typed
    BY <1>1, <1>2
  <2> QED
    BY <2>1 DEF DuplicatesInv, TypedIsOpen
<1>5. RepeatsFollowFailures'
  BY DEF DuplicatesInv, RepeatsFollowFailures, SentTwice
<1> QED
  BY <1>3, <1>4, <1>5 DEF DuplicatesInv

\* A submission sends what is typed: that of an earlier one only if that has failed.
LEMMA SubmitKeeps ==
    ASSUME DuplicatesInv, NEW s \in Submissions, Submit(s) PROVE DuplicatesInv'
<1> DEFINE new == [at |-> "sent", fill |-> typed, mounted |-> TRUE]
<1>1. /\ ~FormPending /\ fOpen /\ submissions[s].at = "unused" /\ submissions' = [submissions EXCEPT ![s] = new]
      /\ newest' = s /\ fError' = (fError /\ fKind \notin ErrsUntilSent)
      /\ UNCHANGED <<fKind, fMounted, fOpen, typed, fills, taken, answer>>
  BY DEF Submit, CanSubmit
<1>2. typed \in Nat /\ typed <= fills
  BY DEF DuplicatesInv, FormInv
<1>3. new \in Records /\ new.at = "sent" /\ new.fill = typed /\ new.mounted
  BY <1>2 DEF Records, FormStates
<1> HIDE DEF new
<1>4. submissions' \in [Submissions -> Records] /\ submissions'[s] = new
  BY <1>1, <1>3 DEF DuplicatesInv, FormInv
<1>5. \A r \in Submissions \ {s} : submissions'[r] = submissions[r]
  BY <1>1 DEF DuplicatesInv, FormInv
<1>6. FormInv'
  BY <1>1, <1>2, <1>3, <1>4, <1>5 DEF DuplicatesInv, FormInv
<1>7. TypedIsOpen'
  BY <1>1, <1>3, <1>4, <1>5 DEF DuplicatesInv, TypedIsOpen
<1>8. ASSUME fKind \in Clearing, NEW r \in Submissions \ {s}, submissions[r].fill = typed, typed > 0,
             submissions[r].at # "unused"
      PROVE  submissions'[r].at = "failed"
  <2>1. ~(submissions[r].at \in {"sent", "taken"} /\ submissions[r].mounted)
    BY <1>1 DEF FormPending, Underway
  <2>2. submissions[r].at = "failed"
    BY <1>8, <2>1 DEF DuplicatesInv, TypedIsOpen
  <2> QED
    BY <1>5, <2>2
<1>9. RepeatsFollowFailures'
  <2> SUFFICES ASSUME fKind \in Clearing, NEW p \in Submissions, NEW q \in Submissions, SentTwice(p, q)',
                      submissions'[p].at # "unused", submissions'[q].at # "unused"
               PROVE  "failed" \in {submissions'[p].at, submissions'[q].at}
    BY <1>1 DEF RepeatsFollowFailures
  <2>1. p # q /\ submissions'[p].fill = submissions'[q].fill /\ submissions'[p].fill > 0
    BY DEF SentTwice
  <2>2. CASE p = s
    BY <1>3, <1>4, <1>5, <1>8, <2>1, <2>2
  <2>3. CASE q = s
    BY <1>3, <1>4, <1>5, <1>8, <2>1, <2>3
  <2>4. CASE p # s /\ q # s
    BY <1>5, <2>1, <2>4 DEF DuplicatesInv, RepeatsFollowFailures, SentTwice
  <2> QED
    BY <2>2, <2>3, <2>4
<1> QED
  BY <1>6, <1>7, <1>9 DEF DuplicatesInv

\* A step after which every submission is as far as before, or taken, or failed, with what it sent.
LEMMA ProgressKeeps ==
    ASSUME DuplicatesInv, NEW s \in Submissions, NEW at \in {"taken", "failed"},
           submissions[s].at \in {"sent", "taken"}, submissions' = [submissions EXCEPT ![s].at = at],
           taken' \in {taken, taken \cup {s}}, UNCHANGED <<fKind, fMounted, fOpen, typed, fills, newest>>,
           answer' \in {answer, None}, fError' \in BOOLEAN
    PROVE  DuplicatesInv'
<1>1. /\ submissions'[s].at = at /\ submissions'[s].fill = submissions[s].fill
      /\ submissions'[s].mounted = submissions[s].mounted /\ submissions'[s] \in Records
  BY DEF DuplicatesInv, FormInv, Records, FormStates
<1>2. \A r \in Submissions \ {s} : submissions'[r] = submissions[r]
  BY DEF DuplicatesInv, FormInv
<1>3. submissions' \in [Submissions -> Records]
  BY <1>1, <1>2 DEF DuplicatesInv, FormInv
<1>4. FormInv'
  BY <1>1, <1>2, <1>3 DEF DuplicatesInv, FormInv
<1>5. TypedIsOpen'
  BY <1>1, <1>2 DEF DuplicatesInv, TypedIsOpen
<1>6. RepeatsFollowFailures'
  BY <1>1, <1>2 DEF DuplicatesInv, RepeatsFollowFailures, SentTwice
<1> QED
  BY <1>4, <1>5, <1>6 DEF DuplicatesInv

\* The submissions of a page that goes, one of them perhaps heard of: nothing stays typed.
LEMMA LeavingKeeps ==
    ASSUME DuplicatesInv, Unmounts, UNCHANGED <<fKind, fills, taken>>,
           submissions' \in [Submissions -> Records],
           \A r \in Submissions :
               /\ submissions'[r].fill = submissions[r].fill
               /\ \/ submissions'[r].at = submissions[r].at
                  \/ submissions[r].at = "taken" /\ submissions'[r].at = "heard"
    PROVE  DuplicatesInv'
<1>1. typed' = 0
  BY DEF Unmounts
<1>2. FormInv'
  <2>1. \A s \in taken' : submissions'[s].at # "unused"
    BY DEF DuplicatesInv, FormInv
  <2>2. \A s \in Submissions : submissions'[s].fill <= fills'
    BY DEF DuplicatesInv, FormInv
  <2>3. /\ {answer', newest'} \subseteq Submissions \cup {None} /\ {fMounted', fOpen', fError'} \subseteq BOOLEAN
        /\ fOpen' => fMounted'
    BY DEF Unmounts
  <2>4. typed' \in Nat /\ typed' <= fills' /\ fills' \in Nat /\ fills' <= MaxFills /\ fKind' \in AllForms
    BY <1>1 DEF DuplicatesInv, FormInv
  <2>5. taken' \subseteq Submissions
    BY DEF DuplicatesInv, FormInv
  <2> QED
    BY <2>1, <2>2, <2>3, <2>4, <2>5 DEF FormInv
<1>3. TypedIsOpen'
  BY <1>1 DEF TypedIsOpen
<1>4. RepeatsFollowFailures'
  BY DEF DuplicatesInv, RepeatsFollowFailures, SentTwice
<1> QED
  BY <1>2, <1>3, <1>4 DEF DuplicatesInv

\* A success clears what was typed, unless the page that sent it is gone and something new is typed.
LEMMA SucceedKeeps ==
    ASSUME DuplicatesInv, NEW s \in Submissions, Succeed(s) PROVE DuplicatesInv'
<1>1. submissions[s].at = "taken" /\ UNCHANGED <<fKind, fills, taken>>
  BY DEF Succeed
<1>2. CASE fKind \in Leaving
  <2>1. Unmounts /\ submissions' = [Left EXCEPT ![s].at = "heard"]
    BY <1>2 DEF Succeed
  <2>2. ASSUME NEW r \in Submissions
        PROVE  /\ submissions'[r] \in Records /\ submissions'[r].fill = submissions[r].fill
               /\ submissions'[r].at = IF r = s THEN "heard" ELSE submissions[r].at
    <3>1. Left \in [Submissions -> Records] /\ Left[r] = [submissions[r] EXCEPT !.mounted = FALSE]
      BY DEF Left, DuplicatesInv, FormInv, Records
    <3>2. submissions'[r] = IF r = s THEN [Left[r] EXCEPT !.at = "heard"] ELSE Left[r]
      BY <2>1, <3>1
    <3>3. submissions[r] \in Records
      BY DEF DuplicatesInv, FormInv
    <3> QED
      BY <3>1, <3>2, <3>3 DEF Records, FormStates
  <2>3. submissions' \in [Submissions -> Records]
    <3> DEFINE heard(r) == IF r = s THEN [Left[r] EXCEPT !.at = "heard"] ELSE Left[r]
    <3>1. submissions' = [r \in Submissions |-> heard(r)]
      BY <2>1 DEF Left
    <3>2. \A r \in Submissions : submissions'[r] \in Records
      BY <2>2
    <3> HIDE DEF heard
    <3>3. \A r \in Submissions : heard(r) \in Records
      BY <3>1, <3>2
    <3> QED
      BY <3>1, <3>3
  <2>4. \A r \in Submissions :
            /\ submissions'[r].fill = submissions[r].fill
            /\ \/ submissions'[r].at = submissions[r].at
               \/ submissions[r].at = "taken" /\ submissions'[r].at = "heard"
    BY <1>1, <2>2
  <2> QED
    BY <1>1, <2>1, <2>3, <2>4, LeavingKeeps
<1>3. CASE fKind \notin Leaving
  <2>1. submissions' = [submissions EXCEPT ![s].at = "heard"] /\ UNCHANGED <<fMounted, newest>>
    BY <1>3 DEF Succeed
  <2>2. /\ submissions'[s].at = "heard" /\ submissions'[s].fill = submissions[s].fill
        /\ submissions'[s].mounted = submissions[s].mounted /\ submissions'[s] \in Records
    BY <2>1 DEF DuplicatesInv, FormInv, Records, FormStates
  <2>3. \A r \in Submissions \ {s} : submissions'[r] = submissions[r]
    BY <2>1 DEF DuplicatesInv, FormInv
  <2>4. submissions' \in [Submissions -> Records]
    BY <2>1, <2>2, <2>3 DEF DuplicatesInv, FormInv
  <2>5. IF ~submissions[s].mounted THEN UNCHANGED <<fOpen, typed, answer, fError>>
        ELSE /\ typed' = TypedAfter(s)
             /\ fOpen' = (fOpen /\ fKind \notin Closing)
             /\ answer' = IF fKind \in Showing THEN s ELSE answer
             /\ fError' = (fError /\ fKind \in ErrsForGood)
    BY <1>3 DEF Succeed
  <2>6. typed' \in {typed, 0}
    BY <2>5 DEF TypedAfter
  <2>7. FormInv'
    <3>1. {fMounted, fOpen, fError} \subseteq BOOLEAN /\ (fOpen => fMounted) /\ answer \in Submissions \cup {None}
      BY DEF DuplicatesInv, FormInv
    <3>2. fOpen' \in BOOLEAN /\ fError' \in BOOLEAN /\ (fOpen' => fOpen)
      BY <2>5, <3>1
    <3>3. answer' \in Submissions \cup {None}
      BY <2>5, <3>1
    <3>4. {answer', newest'} \subseteq Submissions \cup {None} /\ {fMounted', fOpen', fError'} \subseteq BOOLEAN
            /\ (fOpen' => fMounted')
      BY <2>1, <3>1, <3>2, <3>3 DEF DuplicatesInv, FormInv
    <3>5. \A r \in Submissions : submissions'[r].fill <= fills'
      BY <1>1, <2>2, <2>3 DEF DuplicatesInv, FormInv
    <3>6. \A r \in taken' : submissions'[r].at # "unused"
      BY <1>1, <2>2, <2>3 DEF DuplicatesInv, FormInv
    <3>7. typed' \in Nat /\ typed' <= fills' /\ fills' \in Nat /\ fills' <= MaxFills
      BY <1>1, <2>6 DEF DuplicatesInv, FormInv
    <3>8. taken' \subseteq Submissions /\ fKind' \in AllForms
      BY <1>1 DEF DuplicatesInv, FormInv
    <3> QED
      BY <2>4, <3>4, <3>5, <3>6, <3>7, <3>8 DEF FormInv
  <2>8. TypedIsOpen'
    <3>1. CASE submissions[s].mounted
      BY <1>1, <2>5, <3>1 DEF TypedAfter, TypedIsOpen
    <3>2. CASE ~submissions[s].mounted
      BY <1>1, <2>2, <2>3, <2>5, <3>2 DEF DuplicatesInv, TypedIsOpen
    <3> QED
      BY <3>1, <3>2
  <2>9. RepeatsFollowFailures'
    BY <1>1, <2>2, <2>3 DEF DuplicatesInv, RepeatsFollowFailures, SentTwice
  <2> QED
    BY <2>7, <2>8, <2>9 DEF DuplicatesInv
<1> QED
  BY <1>2, <1>3

-----------------------------------------------------------------------------
LEMMA DuplicatesInvInitially == FormInit => DuplicatesInv
<1> SUFFICES ASSUME FormInit PROVE DuplicatesInv
  OBVIOUS
<1>1. Unused \in Records /\ Unused.at = "unused" /\ Unused.fill = 0
  BY DEF Unused, Records, FormStates
<1>2. \A s \in Submissions : submissions[s] = Unused
  BY DEF FormInit
<1>3. MaxFills \in Nat
  BY FillsAssumption
<1>4. submissions \in [Submissions -> Records]
  BY <1>1 DEF FormInit
<1>5. /\ fills = 0 /\ typed = 0 /\ taken = {} /\ answer = None /\ newest = None /\ fKind \in AllForms
      /\ fMounted = FALSE /\ fOpen = FALSE /\ fError = FALSE
  BY DEF FormInit
<1>6. FormInv
  <2>1. {fMounted, fOpen, fError} \subseteq BOOLEAN /\ (fOpen => fMounted)
    BY <1>5
  <2>2. fills \in Nat /\ typed \in Nat /\ typed <= fills /\ fills <= MaxFills
    BY <1>3, <1>5
  <2>3. \A s \in Submissions : submissions[s].fill <= fills
    BY <1>1, <1>2, <1>5
  <2>4. {answer, newest} \subseteq Submissions \cup {None}
    BY <1>5
  <2> QED
    BY <1>4, <1>5, <2>1, <2>2, <2>3, <2>4 DEF FormInv
<1>7. TypedIsOpen /\ RepeatsFollowFailures
  BY <1>1, <1>2 DEF TypedIsOpen, RepeatsFollowFailures
<1> QED
  BY <1>6, <1>7 DEF DuplicatesInv

LEMMA DuplicatesInvKept == DuplicatesInv /\ [FormNext]_fVars => DuplicatesInv'
<1> SUFFICES ASSUME DuplicatesInv, [FormNext]_fVars PROVE DuplicatesInv'
  OBVIOUS
<1>0. /\ fills \in Nat /\ fills <= MaxFills /\ {answer, newest} \subseteq Submissions \cup {None}
      /\ {fMounted, fOpen, fError} \subseteq BOOLEAN /\ (fOpen => fMounted)
  BY DEF DuplicatesInv, FormInv
<1>1. CASE Mount
  <2>1. fMounted' = TRUE /\ fOpen' \in BOOLEAN /\ fError' \in BOOLEAN /\ fills' \in Nat /\ fills <= fills'
    BY <1>0, <1>1 DEF Mount
  <2>2. UNCHANGED <<fKind, typed, fills, submissions, taken, answer, newest>>
    BY <1>1 DEF Mount
  <2> QED
    BY <1>0, <2>1, <2>2, QuietSteps
<1>2. CASE Leave
  <2>1. ASSUME NEW r \in Submissions
        PROVE  Left[r] \in Records /\ Left[r].fill = submissions[r].fill /\ Left[r].at = submissions[r].at
    BY DEF Left, DuplicatesInv, FormInv, Records
  <2>2. Left \in [Submissions -> Records]
    <3>1. Left = [r \in Submissions |-> Left[r]]
      BY DEF Left
    <3> QED
      BY <2>1, <3>1
  <2> QED
    BY <1>2, <2>1, <2>2, LeavingKeeps DEF Leave
<1>3. CASE OpenDialog \/ CancelDialog
  <2>1. UNCHANGED <<fKind, fMounted, typed, fills, submissions, taken, answer, fError, newest>>
    BY <1>3 DEF OpenDialog, CancelDialog
  <2>2. fOpen' \in BOOLEAN /\ (fOpen' => fMounted')
    BY <1>0, <1>3 DEF OpenDialog, CancelDialog
  <2>3. fills' \in Nat /\ fills <= fills'
    BY <1>0, <2>1
  <2> QED
    BY <1>0, <2>1, <2>2, <2>3, QuietSteps
<1>4. CASE Fill
  <2>1. fills' = fills + 1 /\ typed' = fills' /\ fills' <= MaxFills /\ fills' > fills
    BY <1>0, <1>4, FillsAssumption DEF Fill
  <2> QED
    BY <1>0, <1>4, <2>1, QuietSteps DEF Fill
<1>5. CASE Dismiss \/ Refuse
  <2>1. UNCHANGED <<fKind, fMounted, fOpen, typed, fills, submissions, taken, newest>>
    BY <1>5 DEF Dismiss, Refuse
  <2>2. fError' \in BOOLEAN /\ answer' \in Submissions \cup {None}
    BY <1>0, <1>5 DEF Dismiss, Refuse
  <2>3. fills' \in Nat /\ fills <= fills'
    BY <1>0, <2>1
  <2> QED
    BY <1>0, <2>1, <2>2, <2>3, QuietSteps
<1>6. ASSUME NEW s \in Submissions, Submit(s) PROVE DuplicatesInv'
  BY <1>6, SubmitKeeps
<1>7. ASSUME NEW s \in Submissions, ServerTakes(s) PROVE DuplicatesInv'
  BY <1>0, <1>7, ProgressKeeps DEF ServerTakes
<1>8. ASSUME NEW s \in Submissions, Succeed(s) PROVE DuplicatesInv'
  BY <1>8, SucceedKeeps
<1>9. ASSUME NEW s \in Submissions, Fail(s) PROVE DuplicatesInv'
  <2>1. answer' \in {answer, None} /\ fError' \in BOOLEAN
    BY <1>0, <1>9 DEF Fail
  <2> QED
    BY <1>9, <2>1, ProgressKeeps DEF Fail, Underway
<1>10. CASE UNCHANGED fVars
  BY <1>0, <1>10, QuietSteps DEF fVars
<1> QED
  BY <1>1, <1>2, <1>3, <1>4, <1>5, <1>6, <1>7, <1>8, <1>9, <1>10 DEF FormNext

(* Type correctness of every form: a submission is of a filling that was typed, and a dialog is of a page that
   is shown. *)
THEOREM FormsTypeCorrect == FormSpec => []FormTypeOK
<1>1. FormInit => DuplicatesInv
  BY DuplicatesInvInitially
<1>2. DuplicatesInv /\ [FormNext]_fVars => DuplicatesInv'
  BY DuplicatesInvKept
<1>3. DuplicatesInv => FormTypeOK
  <2> SUFFICES ASSUME DuplicatesInv PROVE FormTypeOK
    OBVIOUS
  <2>1. fills \in 0 .. MaxFills /\ typed \in 0 .. fills
    BY FillsAssumption DEF DuplicatesInv, FormInv
  <2>2. submissions \in [Submissions -> [at : FormStates, fill : 0 .. fills, mounted : BOOLEAN]]
    <3>1. ASSUME NEW s \in Submissions PROVE submissions[s] \in [at : FormStates, fill : 0 .. fills, mounted : BOOLEAN]
      BY DEF DuplicatesInv, FormInv, Records
    <3> QED
      BY <3>1 DEF DuplicatesInv, FormInv
  <2> QED
    BY <2>1, <2>2 DEF DuplicatesInv, FormInv, FormTypeOK, FormStates
<1> QED
  BY <1>1, <1>2, <1>3, PTL DEF FormSpec

(* DuplicatesHaveReasons: whatever answers come late or are lost, and wherever the user goes, the server acts
   twice on one filling only of a form that keeps it, or after a failure. *)
THEOREM RepeatsHaveReasons == FormSpec => []DuplicatesHaveReasons
<1>1. FormInit => DuplicatesInv
  BY DuplicatesInvInitially
<1>2. DuplicatesInv /\ [FormNext]_fVars => DuplicatesInv'
  BY DuplicatesInvKept
<1>3. DuplicatesInv => DuplicatesHaveReasons
  BY DEF DuplicatesInv, FormInv, RepeatsFollowFailures, DuplicatesHaveReasons
<1> QED
  BY <1>1, <1>2, <1>3, PTL DEF FormSpec

-----------------------------------------------------------------------------
(* Forms: the answer a page shows.                                         *)

\* What is under way for the mounted form is its last submission, and an answer that is not the last one's
\* stands beside an error or a submission under way.
AnswerInv ==
    /\ submissions \in [Submissions -> Records]
    /\ \A s \in Submissions : Underway(s) /\ submissions[s].mounted => newest = s
    /\ answer # None => fKind \in Showing
    /\ AnswersMatch

\* An answer is shown by the forms that do not navigate, and an error of theirs is shown too.
LEMMA ShowingForms == \A kind \in Showing : kind \notin Leaving /\ kind \notin Silent /\ kind \notin ErrsForGood
  BY DEF Showing, Leaving, Silent, ErrsForGood, NewKey, QueryConsolePage, TablesBrowserPage,
         GraphQLPlaygroundPage, InvokeTab, NewProjectDialog, CreateFunctionDialog, NewSubscription,
         PublishPackageDialog

LEMMA AnswerInvInitially == FormInit => AnswerInv
<1> SUFFICES ASSUME FormInit PROVE AnswerInv
  OBVIOUS
<1>1. submissions = [s \in Submissions |-> Unused] /\ answer = None
  BY DEF FormInit
<1>2. Unused \in Records /\ Unused.at = "unused"
  BY DEF Unused, Records, FormStates
<1>3. submissions \in [Submissions -> Records] /\ \A s \in Submissions : submissions[s].at = "unused"
  BY <1>1, <1>2
<1> QED
  BY <1>1, <1>3 DEF AnswerInv, AnswersMatch, Underway

\* A submission is made, or gets on: the page shows no older answer without an error.
LEMMA SubmissionKeepsAnswer ==
    ASSUME AnswerInv, NEW s \in Submissions, Submit(s) \/ ServerTakes(s) \/ Fail(s), typed \in Nat
    PROVE  AnswerInv'
<1>1. submissions \in [Submissions -> Records] /\ fKind' = fKind
  BY DEF AnswerInv, Submit, ServerTakes, Fail
<1>2. CASE Submit(s)
  <2> DEFINE new == [at |-> "sent", fill |-> typed, mounted |-> TRUE]
  <2>1. new \in Records /\ new.at = "sent" /\ new.mounted
    BY DEF Records, FormStates
  <2> HIDE DEF new
  <2>2. submissions' = [submissions EXCEPT ![s] = new] /\ newest' = s /\ answer' = answer /\ ~FormPending
    BY <1>2 DEF Submit, CanSubmit, new
  <2>3. /\ submissions' \in [Submissions -> Records] /\ submissions'[s] = new
        /\ \A r \in Submissions \ {s} : submissions'[r] = submissions[r]
    BY <1>1, <2>1, <2>2
  <2>4. \A r \in Submissions \ {s} : ~(Underway(r)' /\ submissions'[r].mounted)
    BY <2>2, <2>3 DEF FormPending, Underway
  <2>5. Underway(s)' /\ submissions'[s].mounted
    BY <2>1, <2>3 DEF Underway
  <2> QED
    BY <1>1, <2>2, <2>3, <2>4, <2>5 DEF AnswerInv, AnswersMatch
<1>3. CASE ServerTakes(s)
  <2>1. submissions' = [submissions EXCEPT ![s].at = "taken"] /\ submissions[s].at = "sent"
        /\ UNCHANGED <<newest, answer, fError>>
    BY <1>3 DEF ServerTakes
  <2>2. submissions'[s] \in Records /\ submissions'[s].at = "taken" /\ submissions'[s].mounted = submissions[s].mounted
    BY <1>1, <2>1 DEF Records, FormStates
  <2>3. /\ submissions' \in [Submissions -> Records]
        /\ \A r \in Submissions \ {s} : submissions'[r] = submissions[r]
    BY <1>1, <2>1, <2>2
  <2>4. \A r \in Submissions : Underway(r)' = Underway(r) /\ submissions'[r].mounted = submissions[r].mounted
    BY <2>1, <2>2, <2>3 DEF Underway
  <2> QED
    BY <1>1, <2>1, <2>3, <2>4 DEF AnswerInv, AnswersMatch
<1>4. CASE Fail(s)
  <2>1. submissions' = [submissions EXCEPT ![s].at = "failed"] /\ Underway(s) /\ newest' = newest
    BY <1>4 DEF Fail
  <2>2. submissions'[s] \in Records /\ submissions'[s].at = "failed"
    BY <1>1, <2>1 DEF Records, FormStates
  <2>3. /\ submissions' \in [Submissions -> Records] /\ ~Underway(s)'
        /\ \A r \in Submissions \ {s} : submissions'[r] = submissions[r]
    BY <1>1, <2>1, <2>2 DEF Underway
  <2>4. \A r \in Submissions : Underway(r)' /\ submissions'[r].mounted =>
            r # s /\ Underway(r) /\ submissions[r].mounted
    BY <2>3 DEF Underway
  <2>5. CASE submissions[s].mounted
    <3>1. fError' = (fKind \notin Silent) /\ answer' \in {answer, None}
      BY <1>4, <2>5 DEF Fail
    <3> QED
      BY <1>1, <2>1, <2>3, <2>4, <3>1, ShowingForms DEF AnswerInv, AnswersMatch
  <2>6. CASE ~submissions[s].mounted
    <3>1. UNCHANGED <<answer, fError>>
      BY <1>4, <2>6 DEF Fail
    <3>2. \A r \in Submissions : Underway(r) /\ submissions[r].mounted => Underway(r)' /\ submissions'[r].mounted
      BY <2>3, <2>6 DEF Underway
    <3> QED
      BY <1>1, <2>1, <2>3, <2>4, <3>1, <3>2 DEF AnswerInv, AnswersMatch
  <2> QED
    BY <2>5, <2>6
<1> QED
  BY <1>2, <1>3, <1>4

\* A success: of a form that shows answers and is still mounted, its own answer is shown.
LEMMA SuccessKeepsAnswer ==
    ASSUME AnswerInv, NEW s \in Submissions, Succeed(s) PROVE AnswerInv'
<1>1. submissions \in [Submissions -> Records] /\ fKind' = fKind /\ submissions[s].at = "taken"
  BY DEF AnswerInv, Succeed
<1>2. CASE fKind \in Leaving
  <2> DEFINE left == [r \in Submissions |-> [submissions[r] EXCEPT !.mounted = FALSE]]
  <2>1. left \in [Submissions -> Records] /\ \A r \in Submissions : ~left[r].mounted
    BY <1>1 DEF Records
  <2>2. submissions' = [left EXCEPT ![s].at = "heard"] /\ answer' = None
    BY <1>2 DEF Succeed, Unmounts, Left
  <2> HIDE DEF left
  <2>3. submissions' \in [Submissions -> Records]
    BY <2>1, <2>2 DEF Records, FormStates
  <2>4. \A r \in Submissions : ~submissions'[r].mounted
    BY <2>1, <2>2 DEF Records
  <2> QED
    BY <2>2, <2>3, <2>4 DEF AnswerInv, AnswersMatch
<1>3. CASE fKind \notin Leaving
  <2>1. submissions' = [submissions EXCEPT ![s].at = "heard"] /\ newest' = newest
    BY <1>3 DEF Succeed
  <2>2. submissions'[s] \in Records /\ submissions'[s].at = "heard"
    BY <1>1, <2>1 DEF Records, FormStates
  <2>3. /\ submissions' \in [Submissions -> Records] /\ ~Underway(s)'
        /\ \A r \in Submissions \ {s} : submissions'[r] = submissions[r]
    BY <1>1, <2>1, <2>2 DEF Underway
  <2>4. \A r \in Submissions : Underway(r)' /\ submissions'[r].mounted =>
            r # s /\ Underway(r) /\ submissions[r].mounted
    BY <2>3 DEF Underway
  <2>5. CASE ~submissions[s].mounted
    <3>1. UNCHANGED <<answer, fError>>
      BY <1>3, <2>5 DEF Succeed
    <3>2. \A r \in Submissions : Underway(r) /\ submissions[r].mounted => Underway(r)' /\ submissions'[r].mounted
      BY <2>3, <2>5 DEF Underway
    <3> QED
      BY <1>1, <2>1, <2>3, <2>4, <3>1, <3>2 DEF AnswerInv, AnswersMatch
  <2>6. CASE submissions[s].mounted
    <3>1. newest = s
      BY <1>1, <2>6 DEF AnswerInv, Underway
    <3>2. answer' = IF fKind \in Showing THEN s ELSE answer
      BY <1>3, <2>6 DEF Succeed
    <3>3. answer' # None => fKind \in Showing /\ answer' = newest'
      BY <2>1, <3>1, <3>2 DEF AnswerInv
    <3> QED
      BY <1>1, <2>1, <2>3, <2>4, <3>3 DEF AnswerInv, AnswersMatch
  <2> QED
    BY <2>5, <2>6
<1> QED
  BY <1>2, <1>3

LEMMA AnswerInvKept == DuplicatesInv /\ AnswerInv /\ [FormNext]_fVars => AnswerInv'
<1> SUFFICES ASSUME DuplicatesInv, AnswerInv, [FormNext]_fVars PROVE AnswerInv'
  OBVIOUS
<1>1. typed \in Nat
  BY DEF DuplicatesInv, FormInv
<1>2. ASSUME UNCHANGED <<fKind, submissions, newest>>, answer' = None \/ fError' \/ UNCHANGED <<answer, fError>>,
             answer' \in {answer, None}
      PROVE  AnswerInv'
  BY <1>2 DEF AnswerInv, AnswersMatch, Underway
<1>3. CASE Mount \/ OpenDialog \/ CancelDialog \/ Fill \/ Dismiss \/ Refuse \/ UNCHANGED fVars
  BY <1>2, <1>3 DEF Mount, OpenDialog, CancelDialog, Fill, Dismiss, Refuse, fVars
<1>4. CASE Leave
  <2> DEFINE left == [r \in Submissions |-> [submissions[r] EXCEPT !.mounted = FALSE]]
  <2>1. submissions' = left /\ answer' = None
    BY <1>4 DEF Leave, Unmounts, Left
  <2>2. left \in [Submissions -> Records] /\ \A r \in Submissions : ~left[r].mounted
    BY DEF AnswerInv, Records
  <2> HIDE DEF left
  <2> QED
    BY <2>1, <2>2 DEF AnswerInv, AnswersMatch
<1>5. CASE \E s \in Submissions : Submit(s) \/ ServerTakes(s) \/ Succeed(s) \/ Fail(s)
  BY <1>1, <1>5, SubmissionKeepsAnswer, SuccessKeepsAnswer
<1> QED
  BY <1>3, <1>4, <1>5 DEF FormNext

(* AnswersMatch: whatever answers come late, and wherever the user has gone, a page that shows an answer without
   an error and waits for nothing shows the answer of the last submission. *)
THEOREM AnswersAreOfTheLast == FormSpec => []AnswersMatch
<1>1. FormSpec => [](DuplicatesInv /\ AnswerInv)
  <2>1. DuplicatesInv /\ AnswerInv /\ [FormNext]_fVars => DuplicatesInv' /\ AnswerInv'
    BY DuplicatesInvKept, AnswerInvKept
  <2> QED
    BY <2>1, DuplicatesInvInitially, AnswerInvInitially, PTL DEF FormSpec
<1>2. AnswerInv => AnswersMatch
  BY DEF AnswerInv
<1> QED
  BY <1>1, <1>2, PTL

-----------------------------------------------------------------------------
(* Deploying: the types of the operations, and the order in which they     *)
(* are carried out.                                                        *)

\* The types, with the statuses of the deployments in the order in which they were made.
DepTypeInv == DepTypeOK /\ deployments \in Seq(DeploymentStatuses) /\ done \in Nat

\* What DepTypeOK says of the operations, for n deployments and m operations carried out.
OpsWithin(n, m) == [kind : {"none", "deploy", "rollback"}, at : {"unused", "sent", "done", "heard", "failed"},
                    version : DepVersions \cup {NoVersion}, id : 0 .. n, rank : 0 .. m,
                    mounted : BOOLEAN, with : SUBSET DepOps]

LEMMA OpsWithinGrow ==
    ASSUME NEW n \in Nat, NEW m \in Nat, NEW p \in Nat, NEW q \in Nat, n <= p, m <= q
    PROVE  OpsWithin(n, m) \subseteq OpsWithin(p, q)
<1>1. 0 .. n \subseteq 0 .. p /\ 0 .. m \subseteq 0 .. q
  OBVIOUS
<1> QED
  BY <1>1 DEF OpsWithin

LEMMA DepTypeInvInitially == DepInit => DepTypeInv
<1> SUFFICES ASSUME DepInit PROVE DepTypeInv
  OBVIOUS
<1>1. deployments \in Seq(DeploymentStatuses) /\ Len(deployments) = 1
  BY DEF DepInit, DeploymentStatuses
<1>2. NoDepOp \in OpsWithin(Len(deployments), done)
  BY <1>1 DEF DepInit, NoDepOp, OpsWithin, NoVersion
<1>3. depOps \in [DepOps -> OpsWithin(Len(deployments), done)]
  BY <1>2 DEF DepInit
<1>4. built \subseteq DepVersions
  BY DepVersionsAssumption DEF DepInit
<1>5. spec \in [version : DepVersions \cup {NoVersion}, env : BOOLEAN] /\ spec.version = NoVersion
  BY DEF DepInit, DEFAULT_SPEC
<1>6. live \in 0 .. Len(deployments) /\ done \in Nat
  BY <1>1 DEF DepInit
<1>7. complete \cup ({spec.version} \ {NoVersion}) \subseteq built
  BY <1>5 DEF DepInit
<1>8. liveBy \in DepOps \cup {NoVersion} /\ liveSeen \in DeploymentStatuses \cup {Unfetched} /\ depShown \in BOOLEAN
  BY DEF DepInit
<1> QED
  BY <1>1, <1>3, <1>4, <1>5, <1>6, <1>7, <1>8 DEF DepTypeInv, DepTypeOK, OpsWithin

\* A step that leaves the deployments and their order alone, and keeps each operation within the types.
LEMMA TypesByParts ==
    ASSUME DepTypeInv, depShown' \in BOOLEAN,
           spec' \in [version : DepVersions \cup {NoVersion}, env : BOOLEAN],
           deployments' \in Seq(DeploymentStatuses), done' \in Nat,
           depOps' \in [DepOps -> OpsWithin(Len(deployments'), done')],
           live' \in 0 .. Len(deployments'), liveBy' \in DepOps \cup {NoVersion},
           liveSeen' \in DeploymentStatuses \cup {Unfetched},
           built' \subseteq DepVersions, complete' \cup ({spec'.version} \ {NoVersion}) \subseteq built'
    PROVE  DepTypeInv'
BY DEF DepTypeInv, DepTypeOK, OpsWithin

LEMMA DepTypeInvKept == DepTypeInv /\ [DepNext]_depVars => DepTypeInv'
<1> SUFFICES ASSUME DepTypeInv, [DepNext]_depVars PROVE DepTypeInv'
  OBVIOUS
<1>1. /\ depOps \in [DepOps -> OpsWithin(Len(deployments), done)]
      /\ Len(deployments) \in Nat /\ done \in Nat /\ DOMAIN deployments = 1 .. Len(deployments)
      /\ deployments \in Seq(DeploymentStatuses)
  BY DEF DepTypeInv, DepTypeOK, OpsWithin
<1>2. /\ depShown \in BOOLEAN /\ spec \in [version : DepVersions \cup {NoVersion}, env : BOOLEAN]
      /\ live \in 0 .. Len(deployments) /\ liveBy \in DepOps \cup {NoVersion}
      /\ liveSeen \in DeploymentStatuses \cup {Unfetched}
      /\ built \subseteq DepVersions /\ complete \cup ({spec.version} \ {NoVersion}) \subseteq built
  BY DEF DepTypeInv, DepTypeOK
<1>3. CASE ShowDeployments \/ VersionsFetched \/ UNCHANGED depVars
  BY <1>1, <1>2, <1>3, TypesByParts DEF ShowDeployments, VersionsFetched, depVars, liveVars, serverVars
<1>4. CASE LeaveDeployments
  <2>1. DEFAULT_SPEC \in [version : DepVersions \cup {NoVersion}, env : BOOLEAN] /\ DEFAULT_SPEC.version = NoVersion
    BY DEF DEFAULT_SPEC
  <2>2. depOps' \in [DepOps -> OpsWithin(Len(deployments), done)]
    <3>1. ASSUME NEW o \in DepOps PROVE [depOps[o] EXCEPT !.mounted = FALSE] \in OpsWithin(Len(deployments), done)
      <4>1. depOps[o] \in OpsWithin(Len(deployments), done)
        BY <1>1
      <4> QED
        BY <4>1 DEF OpsWithin
    <3>2. depOps' = [o \in DepOps |-> [depOps[o] EXCEPT !.mounted = FALSE]]
      BY <1>4 DEF LeaveDeployments
    <3> QED
      BY <3>1, <3>2
  <2>3. /\ depShown' = FALSE /\ spec' = DEFAULT_SPEC /\ live' = 0 /\ liveBy' = NoVersion /\ liveSeen' = Unfetched
        /\ UNCHANGED <<complete, deployments, done, built>>
    BY <1>4 DEF LeaveDeployments, serverVars
  <2>4. live' \in 0 .. Len(deployments')
    BY <1>1, <2>3
  <2>5. complete' \cup ({spec'.version} \ {NoVersion}) \subseteq built'
    BY <1>2, <2>1, <2>3
  <2> QED
    BY <1>1, <1>2, <2>1, <2>2, <2>3, <2>4, <2>5, TypesByParts
<1>5. CASE pickVersion \/ editEnvText
  <2>1. /\ spec' \in [version : DepVersions \cup {NoVersion}, env : BOOLEAN]
        /\ {spec'.version} \ {NoVersion} \subseteq built
    BY <1>2, <1>5 DEF pickVersion, editEnvText
  <2>2. UNCHANGED <<depShown, complete, depOps, live, liveBy, liveSeen, deployments, done, built>>
    BY <1>5 DEF pickVersion, editEnvText, liveVars, serverVars
  <2> QED
    BY <1>1, <1>2, <2>1, <2>2, TypesByParts
<1>6. CASE DeploymentEnds
  <2>1. /\ DOMAIN deployments' = 1 .. Len(deployments)
        /\ \A i \in 1 .. Len(deployments) : deployments'[i] \in DeploymentStatuses
    BY <1>1, <1>6 DEF DeploymentEnds, DeploymentStatuses
  <2>2. deployments' = [i \in 1 .. Len(deployments) |-> deployments'[i]]
    BY <1>1, <1>6 DEF DeploymentEnds
  <2>3. deployments' \in Seq(DeploymentStatuses) /\ Len(deployments') = Len(deployments)
    BY <1>1, <2>1, <2>2
  <2>4. UNCHANGED <<depShown, spec, complete, depOps, live, liveBy, liveSeen, done, built>>
    BY <1>6 DEF DeploymentEnds, liveVars
  <2> QED
    BY <1>1, <1>2, <2>3, <2>4, TypesByParts
<1>7. CASE BuildCompletes
  BY <1>1, <1>2, <1>7, TypesByParts DEF BuildCompletes, liveVars
<1>8. CASE PollDeployment
  <2>1. live \in 1 .. Len(deployments) /\ liveSeen' = deployments[live]
    BY <1>1, <1>2, <1>8 DEF PollDeployment
  <2>2. liveSeen' \in DeploymentStatuses
    BY <1>1, <2>1
  <2> QED
    BY <1>1, <1>2, <1>8, <2>2, TypesByParts DEF PollDeployment, serverVars
<1>9. ASSUME NEW o \in DepOps, onDeploy(o) \/ onRollback(o) PROVE DepTypeInv'
  <2>1. PICK kind \in {"deploy", "rollback"}, version \in DepVersions \cup {NoVersion} : Asks(o, kind, version)
    BY <1>2, <1>9 DEF onDeploy, onRollback
  <2> DEFINE new == [NoDepOp EXCEPT !.kind = kind, !.at = "sent", !.version = version, !.mounted = TRUE,
                                    !.with = InFlight]
  <2>2. new \in OpsWithin(Len(deployments), done)
    <3>1. 0 \in 0 .. Len(deployments) /\ 0 \in 0 .. done /\ InFlight \subseteq DepOps
      BY <1>1 DEF InFlight
    <3> QED
      BY <3>1 DEF NoDepOp, OpsWithin
  <2>3. depOps' = [depOps EXCEPT ![o] = new]
    BY <2>1 DEF Asks
  <2> HIDE DEF new
  <2>4. depOps' \in [DepOps -> OpsWithin(Len(deployments), done)]
    BY <1>1, <2>2, <2>3
  <2> QED
    BY <1>1, <1>2, <2>1, <2>4, TypesByParts DEF Asks, liveVars, serverVars
<1>10. ASSUME NEW o \in DepOps, DeployStarted(o) \/ RolledBack(o) PROVE DepTypeInv'
  <2>1. /\ deployments' \in Seq(DeploymentStatuses) /\ Len(deployments') \in Nat
        /\ Len(deployments) <= Len(deployments')
    <3>1. CASE DeployStarted(o)
      BY <1>1, <3>1 DEF DeployStarted, DeploymentStatuses
    <3>2. CASE RolledBack(o)
      BY <1>1, <3>2 DEF RolledBack, DeploymentStatuses
    <3> QED
      BY <1>10, <3>1, <3>2
  <2>2. PICK id \in 1 .. Len(deployments') : Carries(o, id)
    <3>1. CASE DeployStarted(o)
      BY <1>1, <3>1 DEF DeployStarted
    <3>2. CASE RolledBack(o)
      BY <1>1, <3>2 DEF RolledBack
    <3> QED
      BY <1>10, <3>1, <3>2
  <2>3. /\ done' = done + 1 /\ depOps' = [depOps EXCEPT ![o].at = "done", ![o].id = id, ![o].rank = done + 1]
        /\ UNCHANGED <<depShown, spec, complete, live, liveBy, liveSeen, built>>
    BY <2>2 DEF Carries, liveVars
  <2>4. depOps \in [DepOps -> OpsWithin(Len(deployments'), done')]
    BY <1>1, <2>1, <2>3, OpsWithinGrow
  <2>5. [depOps[o] EXCEPT !.at = "done", !.id = id, !.rank = done + 1] \in OpsWithin(Len(deployments'), done')
    BY <1>1, <2>1, <2>3, <2>4 DEF OpsWithin
  <2>6. depOps' \in [DepOps -> OpsWithin(Len(deployments'), done')]
    BY <2>3, <2>4, <2>5
  <2>7. live' \in 0 .. Len(deployments') /\ done' \in Nat
    BY <1>1, <1>2, <2>1, <2>3
  <2> QED
    BY <1>2, <2>1, <2>3, <2>6, <2>7, TypesByParts
<1>11. ASSUME NEW o \in DepOps, Answered(o) PROVE DepTypeInv'
  <2>1. [depOps[o] EXCEPT !.at = "heard"] \in OpsWithin(Len(deployments), done) /\ depOps[o].id \in 0 .. Len(deployments)
    <3>1. depOps[o] \in OpsWithin(Len(deployments), done)
      BY <1>1
    <3> QED
      BY <3>1 DEF OpsWithin
  <2>2. depOps' \in [DepOps -> OpsWithin(Len(deployments), done)]
    BY <1>1, <1>11, <2>1 DEF Answered
  <2>3. /\ live' \in 0 .. Len(deployments) /\ liveBy' \in DepOps \cup {NoVersion}
        /\ liveSeen' \in DeploymentStatuses \cup {Unfetched}
    BY <1>2, <1>11, <2>1 DEF Answered, liveVars
  <2>4. UNCHANGED <<depShown, spec, complete, deployments, done, built>>
    BY <1>11 DEF Answered, serverVars
  <2> QED
    BY <1>1, <1>2, <2>2, <2>3, <2>4, TypesByParts
<1>12. ASSUME NEW o \in DepOps, DepFails(o) PROVE DepTypeInv'
  <2>1. [depOps[o] EXCEPT !.at = "failed"] \in OpsWithin(Len(deployments), done)
    <3>1. depOps[o] \in OpsWithin(Len(deployments), done)
      BY <1>1
    <3> QED
      BY <3>1 DEF OpsWithin
  <2>2. depOps' \in [DepOps -> OpsWithin(Len(deployments), done)]
    BY <1>1, <1>12, <2>1 DEF DepFails
  <2> QED
    BY <1>1, <1>2, <1>12, <2>2, TypesByParts DEF DepFails, liveVars, serverVars
<1> QED
  BY <1>3, <1>4, <1>5, <1>6, <1>7, <1>8, <1>9, <1>10, <1>11, <1>12 DEF DepNext

(* Type correctness of the Deployments tab: among other things, only versions whose builds are complete can be
   chosen, and the deployment followed exists. *)
THEOREM DeployingTypeCorrect == DepSpec => []DepTypeOK
<1>1. DepInit => DepTypeInv
  BY DepTypeInvInitially
<1>2. DepTypeInv /\ [DepNext]_depVars => DepTypeInv'
  BY DepTypeInvKept
<1>3. DepTypeInv => DepTypeOK
  BY DEF DepTypeInv
<1> QED
  BY <1>1, <1>2, <1>3, PTL DEF DepSpec

-----------------------------------------------------------------------------
OpTypes == [kind : {"none", "deploy", "rollback"}, at : {"unused", "sent", "done", "heard", "failed"},
            version : DepVersions \cup {NoVersion}, id : Nat, rank : Nat,
            mounted : BOOLEAN, with : SUBSET DepOps]

OpsTyped == depOps \in [DepOps -> OpTypes] /\ done \in Nat

\* Every operation that was carried out has its place in the order and a deployment.
OpsAreRanked ==
    \A o \in DepOps :
        /\ depOps[o].rank <= done
        /\ depOps[o].at = "done" => depOps[o].id # 0

\* The followed deployment was answered.
FollowsAnAnswer == live # 0 => liveBy \in DepOps /\ depOps[liveBy].at = "heard"

\* Requests of the page that run at the same time know each other.
FlightsOverlap == \A o, r \in InFlight : o # r => Overlap(o, r)

\* A request under way comes after the answers heard, unless it ran beside one of them.
FlightsAreLater ==
    \A o \in InFlight : \A r \in DepOps : (depOps[r].at = "heard" /\ depOps[r].mounted) =>
        depOps[o].at = "sent" \/ depOps[r].rank < depOps[o].rank \/ Overlap(o, r)

LiveInv == OpsTyped /\ OpsAreRanked /\ FollowsAnAnswer /\ FlightsOverlap /\ FlightsAreLater /\ LiveIsLast

-----------------------------------------------------------------------------
\* A step that leaves the operations, their answers and their order alone.
LEMMA OpsAtRest ==
    ASSUME LiveInv, UNCHANGED <<depOps, live, liveBy, done>> PROVE LiveInv'
BY DEF LiveInv, OpsTyped, OpsAreRanked, FollowsAnAnswer, FlightsOverlap, FlightsAreLater, LiveIsLast, InFlight,
   Overlap

\* The page that goes takes its answers with it.
LEMMA LeaveKeepsLive ==
    ASSUME LiveInv, LeaveDeployments PROVE LiveInv'
<1>1. \A o \in DepOps : /\ depOps'[o] \in OpTypes /\ ~depOps'[o].mounted
                        /\ depOps'[o].rank = depOps[o].rank /\ depOps'[o].at = depOps[o].at
                        /\ depOps'[o].id = depOps[o].id
  <2> SUFFICES ASSUME NEW o \in DepOps
               PROVE  /\ depOps'[o] \in OpTypes /\ ~depOps'[o].mounted
                      /\ depOps'[o].rank = depOps[o].rank /\ depOps'[o].at = depOps[o].at
                      /\ depOps'[o].id = depOps[o].id
    OBVIOUS
  <2>1. depOps[o] \in OpTypes
    BY DEF LiveInv, OpsTyped
  <2>2. depOps'[o] = [depOps[o] EXCEPT !.mounted = FALSE]
    BY DEF LeaveDeployments
  <2> QED
    BY <2>1, <2>2 DEF OpTypes
<1>2. depOps' \in [DepOps -> OpTypes] /\ done' = done /\ live' = 0
  BY <1>1 DEF LeaveDeployments, serverVars
<1>3. InFlight' = {}
  BY <1>1 DEF InFlight
<1>4. OpsAreRanked' /\ OpsTyped'
  BY <1>1, <1>2 DEF LiveInv, OpsAreRanked, OpsTyped
<1> QED
  BY <1>1, <1>2, <1>3, <1>4 DEF LiveInv, FollowsAnAnswer, FlightsOverlap, FlightsAreLater, LiveIsLast

\* A request remembers those it runs beside.
LEMMA AskKeepsLive ==
    ASSUME LiveInv, NEW o \in DepOps, NEW kind \in {"deploy", "rollback"},
           NEW version \in DepVersions \cup {NoVersion}, Asks(o, kind, version)
    PROVE  LiveInv'
<1> DEFINE new == [NoDepOp EXCEPT !.kind = kind, !.at = "sent", !.version = version, !.mounted = TRUE,
                                  !.with = InFlight]
<1>1. /\ new \in OpTypes /\ new.at = "sent" /\ new.with = InFlight /\ new.rank = 0
      /\ new.mounted
  BY DEF NoDepOp, OpTypes, NoVersion, InFlight
<1>2. depOps' = [depOps EXCEPT ![o] = new]
  BY DEF Asks
<1> HIDE DEF new
<1>3. UNCHANGED <<live, liveBy, done>> /\ depOps[o].at = "unused"
  BY DEF Asks, liveVars, serverVars
<1>4. depOps'[o] = new /\ \A r \in DepOps \ {o} : depOps'[r] = depOps[r]
  BY <1>2 DEF LiveInv, OpsTyped
<1>5. OpsTyped'
  BY <1>1, <1>2, <1>3 DEF LiveInv, OpsTyped
<1>6. OpsAreRanked'
  BY <1>1, <1>3, <1>4 DEF LiveInv, OpsAreRanked, OpsTyped
<1>7. FollowsAnAnswer'
  BY <1>3, <1>4 DEF LiveInv, FollowsAnAnswer
<1>8. InFlight' = InFlight \cup {o}
  BY <1>1, <1>4 DEF InFlight
<1>9. FlightsOverlap'
  <2>1. o \notin InFlight /\ InFlight \subseteq DepOps
    BY <1>3 DEF InFlight
  <2>2. \A q, r \in InFlight : q # r => Overlap(q, r)'
    BY <1>4, <2>1 DEF LiveInv, FlightsOverlap, Overlap
  <2>3. \A r \in InFlight : Overlap(o, r)' /\ Overlap(r, o)'
    BY <1>1, <1>4 DEF Overlap
  <2> QED
    BY <1>8, <2>2, <2>3 DEF FlightsOverlap
<1>10. FlightsAreLater'
  BY <1>1, <1>4, <1>8 DEF LiveInv, FlightsAreLater, Overlap, InFlight
<1>11. LiveIsLast'
  <2> SUFFICES ASSUME NEW r \in DepOps, depOps'[r].at = "heard", depOps'[r].mounted
               PROVE  live' # 0 /\ (depOps'[r].rank > depOps'[liveBy'].rank => Overlap(r, liveBy)')
    BY DEF LiveIsLast
  <2>1. r # o /\ depOps'[r] = depOps[r]
    BY <1>1, <1>4
  <2>2. live # 0 /\ (depOps[r].rank > depOps[liveBy].rank => Overlap(r, liveBy))
    BY <2>1 DEF LiveInv, LiveIsLast
  <2>3. liveBy \in DepOps \ {o} /\ depOps'[liveBy] = depOps[liveBy]
    BY <1>3, <1>4, <2>2 DEF LiveInv, FollowsAnAnswer
  <2> QED
    BY <1>3, <2>1, <2>2, <2>3 DEF Overlap
<1> QED
  BY <1>5, <1>6, <1>7, <1>9, <1>10, <1>11 DEF LiveInv

\* The server carries a request out after all it has carried out before.
LEMMA CarryKeepsLive ==
    ASSUME LiveInv, NEW o \in DepOps, NEW id \in Nat \ {0}, depOps[o].at = "sent", Carries(o, id)
    PROVE  LiveInv'
<1>1. depOps' = [depOps EXCEPT ![o].at = "done", ![o].id = id, ![o].rank = done + 1] /\ done' = done + 1
  BY DEF Carries
<1>2. UNCHANGED <<live, liveBy>>
  BY DEF Carries, liveVars
<1>3. /\ depOps'[o].at = "done" /\ depOps'[o].id = id /\ depOps'[o].rank = done + 1
      /\ depOps'[o].mounted = depOps[o].mounted /\ depOps'[o].with = depOps[o].with
      /\ depOps'[o] \in OpTypes
  <2>1. depOps[o] \in OpTypes /\ done + 1 \in Nat
    BY DEF LiveInv, OpsTyped
  <2>2. depOps'[o] = [depOps[o] EXCEPT !.at = "done", !.id = id, !.rank = done + 1]
    BY <1>1 DEF LiveInv, OpsTyped
  <2> QED
    BY <2>1, <2>2 DEF OpTypes
<1>4. \A r \in DepOps \ {o} : depOps'[r] = depOps[r]
  BY <1>1 DEF LiveInv, OpsTyped
<1>5. OpsTyped'
  BY <1>1, <1>3, <1>4 DEF LiveInv, OpsTyped
<1>6. \A r \in DepOps : depOps[r].rank \in Nat /\ depOps[r].rank <= done
  BY DEF LiveInv, OpsTyped, OpsAreRanked, OpTypes
<1>7. OpsAreRanked'
  BY <1>1, <1>3, <1>4, <1>6 DEF LiveInv, OpsAreRanked, OpsTyped
<1>8. FollowsAnAnswer'
  BY <1>2, <1>4 DEF LiveInv, FollowsAnAnswer
<1>9. InFlight' = InFlight
  BY <1>3, <1>4 DEF InFlight
<1>10. \A r, q \in DepOps : Overlap(r, q)' = Overlap(r, q)
  BY <1>3, <1>4 DEF Overlap
<1>11. FlightsOverlap'
  BY <1>9, <1>10 DEF LiveInv, FlightsOverlap, InFlight
<1>12. FlightsAreLater'
  <2> SUFFICES ASSUME NEW q \in InFlight, NEW r \in DepOps, depOps'[r].at = "heard", depOps'[r].mounted
               PROVE  depOps'[q].at = "sent" \/ depOps'[r].rank < depOps'[q].rank \/ Overlap(q, r)'
    BY <1>9 DEF FlightsAreLater
  <2>1. r # o /\ depOps'[r] = depOps[r] /\ q \in DepOps
    BY <1>3, <1>4 DEF InFlight
  <2>2. CASE q = o
    <3>1. depOps[r].rank \in Nat /\ depOps[r].rank <= done /\ done \in Nat
      BY <1>6 DEF LiveInv, OpsTyped
    <3> QED
      BY <1>3, <2>1, <2>2, <3>1
  <2>3. CASE q # o
    BY <1>4, <1>10, <2>1, <2>3 DEF LiveInv, FlightsAreLater
  <2> QED
    BY <2>2, <2>3
<1>13. LiveIsLast'
  <2> SUFFICES ASSUME NEW r \in DepOps, depOps'[r].at = "heard", depOps'[r].mounted
               PROVE  live' # 0 /\ (depOps'[r].rank > depOps'[liveBy'].rank => Overlap(r, liveBy)')
    BY DEF LiveIsLast
  <2>1. r # o /\ depOps'[r] = depOps[r]
    BY <1>3, <1>4
  <2>2. live # 0 /\ (depOps[r].rank > depOps[liveBy].rank => Overlap(r, liveBy))
    BY <2>1 DEF LiveInv, LiveIsLast
  <2>3. liveBy \in DepOps \ {o} /\ depOps'[liveBy] = depOps[liveBy]
    BY <1>2, <1>4, <2>2 DEF LiveInv, FollowsAnAnswer
  <2> QED
    BY <1>2, <2>1, <2>2, <2>3 DEF Overlap
<1> QED
  BY <1>5, <1>7, <1>8, <1>11, <1>12, <1>13 DEF LiveInv

\* The page follows the answer that has come; what was heard before is older, or ran beside it.
LEMMA AnswerKeepsLive ==
    ASSUME LiveInv, NEW o \in DepOps, Answered(o) PROVE LiveInv'
<1>1. depOps[o].at = "done" /\ depOps' = [depOps EXCEPT ![o].at = "heard"] /\ done' = done
  BY DEF Answered, serverVars
<1>2. /\ depOps'[o].at = "heard" /\ depOps'[o].id = depOps[o].id /\ depOps'[o].rank = depOps[o].rank
      /\ depOps'[o].mounted = depOps[o].mounted /\ depOps'[o].with = depOps[o].with
      /\ depOps'[o] \in OpTypes
  BY <1>1 DEF LiveInv, OpsTyped, OpTypes
<1>3. \A r \in DepOps \ {o} : depOps'[r] = depOps[r]
  BY <1>1 DEF LiveInv, OpsTyped
<1>4. OpsTyped'
  BY <1>1, <1>2, <1>3 DEF LiveInv, OpsTyped
<1>5. OpsAreRanked'
  BY <1>1, <1>2, <1>3 DEF LiveInv, OpsAreRanked
<1>6. IF depOps[o].mounted THEN live' = depOps[o].id /\ liveBy' = o ELSE UNCHANGED <<live, liveBy>>
  BY DEF Answered, Follows, liveVars
<1>7. FollowsAnAnswer'
  BY <1>1, <1>2, <1>3, <1>6 DEF LiveInv, FollowsAnAnswer
<1>8. InFlight' = InFlight \ {o}
  BY <1>2, <1>3 DEF InFlight
<1>9. \A r, q \in DepOps : Overlap(r, q)' = Overlap(r, q)
  BY <1>2, <1>3 DEF Overlap
<1>10. FlightsOverlap'
  BY <1>8, <1>9 DEF LiveInv, FlightsOverlap, InFlight
<1>11. FlightsAreLater'
  <2> SUFFICES ASSUME NEW q \in InFlight \ {o}, NEW r \in DepOps, depOps'[r].at = "heard", depOps'[r].mounted
               PROVE  depOps'[q].at = "sent" \/ depOps'[r].rank < depOps'[q].rank \/ Overlap(q, r)'
    BY <1>8 DEF FlightsAreLater
  <2>1. q \in DepOps /\ depOps'[q] = depOps[q]
    BY <1>3 DEF InFlight
  <2>2. CASE r = o
    <3>1. o \in InFlight
      BY <1>1, <1>2, <2>2 DEF InFlight
    <3>2. Overlap(q, o)
      BY <3>1 DEF LiveInv, FlightsOverlap
    <3> QED
      BY <1>9, <2>1, <2>2, <3>2
  <2>3. CASE r # o
    BY <1>3, <1>9, <2>1, <2>3 DEF LiveInv, FlightsAreLater
  <2> QED
    BY <2>2, <2>3
<1>12. LiveIsLast'
  <2> SUFFICES ASSUME NEW r \in DepOps, depOps'[r].at = "heard", depOps'[r].mounted
               PROVE  live' # 0 /\ (depOps'[r].rank > depOps'[liveBy'].rank => Overlap(r, liveBy)')
    BY DEF LiveIsLast
  <2>1. depOps'[r].rank \in Nat /\ depOps'[r].rank = depOps[r].rank /\ depOps[o].rank \in Nat
    BY <1>2, <1>3 DEF LiveInv, OpsTyped, OpTypes
  <2>2. CASE depOps[o].mounted
    <3>1. live' # 0 /\ liveBy' = o
      BY <1>1, <1>6, <2>2 DEF LiveInv, OpsAreRanked
    <3>2. CASE r = o
      BY <2>1, <3>1, <3>2
    <3>3. CASE r # o
      <4>1. o \in InFlight
        BY <1>1, <2>2 DEF InFlight
      <4>2. depOps[r].rank < depOps[o].rank \/ Overlap(o, r)
        BY <1>1, <1>3, <3>3, <4>1 DEF LiveInv, FlightsAreLater
      <4>3. Overlap(o, r) => Overlap(r, o)
        BY DEF Overlap
      <4> QED
        BY <1>2, <1>9, <2>1, <3>1, <4>2, <4>3 DEF Overlap
    <3> QED
      BY <3>2, <3>3
  <2>3. CASE ~depOps[o].mounted
    <3>1. r # o /\ depOps'[r] = depOps[r] /\ UNCHANGED <<live, liveBy>>
      BY <1>2, <1>3, <1>6, <2>3
    <3>2. live # 0 /\ (depOps[r].rank > depOps[liveBy].rank => Overlap(r, liveBy))
      BY <3>1 DEF LiveInv, LiveIsLast
    <3>3. liveBy \in DepOps \ {o} /\ depOps'[liveBy] = depOps[liveBy]
      BY <1>1, <1>3, <3>2 DEF LiveInv, FollowsAnAnswer
    <3> QED
      BY <3>1, <3>2, <3>3 DEF Overlap
  <2> QED
    BY <2>2, <2>3
<1> QED
  BY <1>4, <1>5, <1>7, <1>10, <1>11, <1>12 DEF LiveInv

LEMMA FailureKeepsLive ==
    ASSUME LiveInv, NEW o \in DepOps, DepFails(o) PROVE LiveInv'
<1>1. /\ depOps[o].at \in {"sent", "done"} /\ depOps' = [depOps EXCEPT ![o].at = "failed"]
      /\ UNCHANGED <<live, liveBy, done>>
  BY DEF DepFails, liveVars, serverVars
<1>2. /\ depOps'[o].at = "failed" /\ depOps'[o].id = depOps[o].id /\ depOps'[o].rank = depOps[o].rank
      /\ depOps'[o].mounted = depOps[o].mounted /\ depOps'[o].with = depOps[o].with
      /\ depOps'[o] \in OpTypes
  BY <1>1 DEF LiveInv, OpsTyped, OpTypes
<1>3. \A r \in DepOps \ {o} : depOps'[r] = depOps[r]
  BY <1>1 DEF LiveInv, OpsTyped
<1>4. OpsTyped' /\ OpsAreRanked'
  BY <1>1, <1>2, <1>3 DEF LiveInv, OpsTyped, OpsAreRanked
<1>5. FollowsAnAnswer'
  BY <1>1, <1>3 DEF LiveInv, FollowsAnAnswer
<1>6. InFlight' = InFlight \ {o}
  BY <1>2, <1>3 DEF InFlight
<1>7. FlightsOverlap'
  BY <1>3, <1>6 DEF LiveInv, FlightsOverlap, InFlight, Overlap
<1>8. FlightsAreLater'
  BY <1>2, <1>3, <1>6 DEF LiveInv, FlightsAreLater, InFlight, Overlap
<1>9. LiveIsLast'
  BY <1>1, <1>2, <1>3 DEF LiveInv, LiveIsLast, FollowsAnAnswer, Overlap
<1> QED
  BY <1>4, <1>5, <1>7, <1>8, <1>9 DEF LiveInv

-----------------------------------------------------------------------------
LEMMA LiveInitially == DepInit => LiveInv
<1> SUFFICES ASSUME DepInit PROVE LiveInv
  OBVIOUS
<1>1. NoDepOp \in OpTypes /\ NoDepOp.rank = 0 /\ NoDepOp.at = "unused"
  BY DEF NoDepOp, OpTypes, NoVersion
<1>2. InFlight = {}
  BY <1>1 DEF DepInit, InFlight
<1>3. OpsTyped
  BY <1>1 DEF DepInit, OpsTyped
<1>4. \A o \in DepOps : depOps[o] = NoDepOp
  BY DEF DepInit
<1> QED
  BY <1>1, <1>2, <1>3, <1>4 DEF DepInit, LiveInv, OpsAreRanked, FollowsAnAnswer, FlightsOverlap, FlightsAreLater,
     LiveIsLast

LEMMA LiveKept == DepTypeInv /\ LiveInv /\ [DepNext]_depVars => LiveInv'
<1> SUFFICES ASSUME DepTypeInv, LiveInv, [DepNext]_depVars PROVE LiveInv'
  OBVIOUS
<1>1. CASE ShowDeployments \/ pickVersion \/ editEnvText \/ DeploymentEnds \/ BuildCompletes \/ PollDeployment
             \/ VersionsFetched \/ UNCHANGED depVars
  <2>1. UNCHANGED <<depOps, live, liveBy, done>>
    BY <1>1 DEF ShowDeployments, pickVersion, editEnvText, DeploymentEnds, BuildCompletes, PollDeployment,
       VersionsFetched, depVars, liveVars, serverVars
  <2> QED
    BY <2>1, OpsAtRest
<1>2. CASE LeaveDeployments
  BY <1>2, LeaveKeepsLive
<1>3. ASSUME NEW o \in DepOps, onDeploy(o) \/ onRollback(o) PROVE LiveInv'
  <2>1. spec.version \in DepVersions \cup {NoVersion}
    BY DEF DepTypeInv, DepTypeOK
  <2>2. CASE onDeploy(o)
    <3>1. Asks(o, "deploy", spec.version)
      BY <2>2 DEF onDeploy
    <3> QED
      BY <2>1, <3>1, AskKeepsLive
  <2>3. CASE onRollback(o)
    <3>1. Asks(o, "rollback", NoVersion)
      BY <2>3 DEF onRollback
    <3> QED
      BY <3>1, AskKeepsLive
  <2> QED
    BY <1>3, <2>2, <2>3
<1>4. ASSUME NEW o \in DepOps, DeployStarted(o) \/ RolledBack(o) PROVE LiveInv'
  <2>1. Len(deployments) \in Nat
    BY DEF DepTypeInv
  <2>2. CASE DeployStarted(o)
    <3>1. depOps[o].at = "sent" /\ Carries(o, Len(deployments) + 1)
      BY <2>2 DEF DeployStarted
    <3>2. Len(deployments) + 1 \in Nat \ {0}
      BY <2>1
    <3> QED
      BY <3>1, <3>2, CarryKeepsLive
  <2>3. CASE RolledBack(o)
    <3>1. depOps[o].at = "sent" /\ Carries(o, Len(deployments) - 1)
      BY <2>3 DEF RolledBack
    <3>2. Len(deployments) - 1 \in Nat \ {0}
      BY <2>1, <2>3 DEF RolledBack
    <3> QED
      BY <3>1, <3>2, CarryKeepsLive
  <2> QED
    BY <1>4, <2>2, <2>3
<1>5. ASSUME NEW o \in DepOps, Answered(o) PROVE LiveInv'
  BY <1>5, AnswerKeepsLive
<1>6. ASSUME NEW o \in DepOps, DepFails(o) PROVE LiveInv'
  BY <1>6, FailureKeepsLive
<1> QED
  BY <1>1, <1>2, <1>3, <1>4, <1>5, <1>6 DEF DepNext

(* LiveIsLast: whatever is answered late or fails, and whatever tab comes or goes, the live card follows the
   operation the server carried out last among those answered, but for two that ran together. *)
THEOREM LiveFollowsTheLast == DepSpec => []LiveIsLast
<1>1. DepInit => DepTypeInv /\ LiveInv
  BY LiveInitially, DepTypeInvInitially
<1>2. DepTypeInv /\ LiveInv /\ [DepNext]_depVars => (DepTypeInv /\ LiveInv)'
  BY LiveKept, DepTypeInvKept
<1>3. LiveInv => LiveIsLast
  BY DEF LiveInv
<1> QED
  BY <1>1, <1>2, <1>3, PTL DEF DepSpec

-----------------------------------------------------------------------------
(* Settings: how often the value was written bounds its number, and what a *)
(* form has shown is what the cache had.                                   *)

Read == [value : Values, number : Numbers]
CacheType == [loaded : BOOLEAN, data : Read, failed : BOOLEAN, invalid : BOOLEAN,
              fetch : {"none", "asked", "read"}, read : Read]
SaveType == [at : {"unused", "sent", "written", "ended"}, value : Values, seen : Numbers, known : Numbers,
             mounted : BOOLEAN]

\* The saves that may have been carried out: a value has one number per write.
Landed == {s \in Saves : saves[s].at \in {"written", "ended"}}
NumbersInv == SetTypeOK /\ setting.number \in Nat /\ setting.number <= others + Cardinality(Landed)

\* A value that the browser has is a value that the server had.
LoadedIsNumbered ==
    /\ setCache.loaded <=> setCache.data.number # Unknown
    /\ setCache.fetch = "read" => setCache.read.number # Unknown
    /\ setKind = DataAllowlistCard => ~setCache.loaded /\ setCache.fetch = "none"

\* The forms with an effect show every value that arrives, and note those that change nothing.
EffectsShowTheCache ==
    (setShown /\ setKind \in Effects /\ setCache.loaded) => setForm.seen = setCache.data.number

\* Forms that save unloaded have shown what the browser had; rows are saved only when there is a list.
SentInv ==
    \A s \in Saves : saves[s].at = "sent" =>
        IF saves[s].known = Unknown THEN setKind \notin Rows
        ELSE setKind \in Rows \/ saves[s].seen = saves[s].known

OverwriteInv == NumbersInv /\ LoadedIsNumbered /\ EffectsShowTheCache /\ SentInv

-----------------------------------------------------------------------------
LEMMA NumberTypes ==
    /\ Cardinality(Saves) \in Nat /\ Unknown \in Numbers /\ Unknown \notin Nat
    /\ 0 \in Numbers /\ Numbers \subseteq Int
    /\ \A S : S \subseteq Saves => IsFiniteSet(S) /\ Cardinality(S) \in Nat /\ Cardinality(S) <= Cardinality(Saves)
<1>1. \A S : S \subseteq Saves => IsFiniteSet(S) /\ Cardinality(S) \in Nat /\ Cardinality(S) <= Cardinality(Saves)
  BY SavesAssumption, FS_Subset, FS_CardinalityType
<1>2. Cardinality(Saves) \in Nat
  BY SavesAssumption, FS_CardinalityType
<1> QED
  BY <1>1, <1>2, OthersAssumption DEF Unknown, Numbers

LEMMA KindsDiffer ==
    /\ Rows \cap Effects = {} /\ DataAllowlistCard \notin Rows \cup Effects
    /\ TablesCatalogPage \notin Rows \cup Effects \cup {DataAllowlistCard}
    /\ Kinds = Effects \cup Rows \cup {DataAllowlistCard, TablesCatalogPage}
    /\ Kinds \ Rows = SavesUnloaded
BY DEF Kinds, Effects, Rows, EntrypointTab, RetentionCard, KeyRow, UserRow, DataAllowlistCard, TablesCatalogPage,
   SavesUnloaded

LEMMA ReadTypes ==
    ASSUME SetTypeOK
    PROVE  /\ setCache \in CacheType /\ setCache.data \in Read /\ setCache.read \in Read
           /\ setForm \in [value : Values, seen : Numbers]
           /\ saves \in [Saves -> SaveType] /\ setShown \in BOOLEAN
BY DEF SetTypeOK, CacheType, Read, SaveType

LEMMA Blanks == NotLoaded \in CacheType /\ NoSave \in SaveType /\ Defaults \in [value : Values, seen : Numbers]
BY NumberTypes DEF NotLoaded, NoSave, Defaults, CacheType, SaveType, Read, Values

\* A fetch, and a mark, leave the data alone.
LEMMA Fetched ==
    ASSUME NEW c \in CacheType
    PROVE  /\ Fetch(c) \in CacheType /\ Fetch(c).data = c.data /\ Fetch(c).loaded = c.loaded
           /\ Fetch(c).fetch = "asked" /\ Fetch(c).read = c.read
           /\ [c EXCEPT !.invalid = TRUE] \in CacheType
           /\ [c EXCEPT !.invalid = TRUE].data = c.data /\ [c EXCEPT !.invalid = TRUE].loaded = c.loaded
           /\ [c EXCEPT !.invalid = TRUE].fetch = c.fetch /\ [c EXCEPT !.invalid = TRUE].read = c.read
<1>1. Fetch(c) = [c EXCEPT !.fetch = "asked", !.failed = c.failed /\ c.loaded] /\ (c.failed /\ c.loaded) \in BOOLEAN
  BY DEF Fetch, CacheType
<1>2. /\ Fetch(c) \in CacheType /\ Fetch(c).data = c.data /\ Fetch(c).loaded = c.loaded
      /\ Fetch(c).fetch = "asked" /\ Fetch(c).read = c.read
  <2> DEFINE f == c.failed /\ c.loaded
  <2>1. f \in BOOLEAN
    OBVIOUS
  <2>2. Fetch(c) = [c EXCEPT !.fetch = "asked", !.failed = f]
    BY <1>1
  <2> HIDE DEF f
  <2> QED
    BY <2>1, <2>2 DEF CacheType
<1> QED
  BY <1>2 DEF CacheType

\* What the page that mounts and the data that arrive make of the inputs.
LEMMA Seeded ==
    ASSUME SetTypeOK, NEW data \in Read, NEW c \in CacheType
    PROVE  /\ AfterData(data) \in [value : Values, seen : Numbers]
           /\ Fresh(c) \in [value : Values, seen : Numbers]
           /\ setKind \in Effects /\ c.loaded => Fresh(c).seen = c.data.number
<1>1. setForm \in [value : Values, seen : Numbers] /\ c.data \in Read
  BY ReadTypes DEF CacheType
<1>2. AfterData(data) \in [value : Values, seen : Numbers]
  BY <1>1 DEF AfterData, Read
<1>3. Fresh(c) \in [value : Values, seen : Numbers]
  BY <1>1, Blanks DEF Fresh, Read
<1>4. setKind \in Effects /\ c.loaded => Fresh(c).seen = c.data.number
  BY KindsDiffer DEF Fresh
<1> QED
  BY <1>2, <1>3, <1>4

\* With an effect the number shown becomes that of the data, given that it was that of the data before.
LEMMA EffectsFollow ==
    ASSUME SetTypeOK, EffectsShowTheCache, setShown, setKind \in Effects, NEW data \in Read
    PROVE  AfterData(data).seen = data.number
<1>1. AfterData(data) = IF Seeds(setCache, data) THEN [value |-> data.value, seen |-> data.number]
                        ELSE IF setCache.data.value = data.value THEN [setForm EXCEPT !.seen = data.number] ELSE setForm
  BY KindsDiffer DEF AfterData
<1>2. setForm \in [value : Values, seen : Numbers]
  BY ReadTypes
<1>3. CASE Seeds(setCache, data)
  BY <1>1, <1>3
<1>4. CASE ~Seeds(setCache, data)
  BY <1>1, <1>2, <1>4 DEF Seeds
<1> QED
  BY <1>3, <1>4
\* Steps that write nothing to the server, and leave to every save what it was sent with.
LEMMA NumbersStay ==
    ASSUME OverwriteInv, UNCHANGED <<setKind, setting, others>>, setShown' \in BOOLEAN, setCache' \in CacheType,
           setForm' \in [value : Values, seen : Numbers], saves' \in [Saves -> SaveType], Landed \subseteq Landed'
    PROVE  NumbersInv'
<1>1. SetTypeOK'
  BY DEF OverwriteInv, NumbersInv, SetTypeOK, CacheType, Read, SaveType
<1>2. Cardinality(Landed) <= Cardinality(Landed') /\ Cardinality(Landed) \in Nat /\ Cardinality(Landed') \in Nat
  <2>1. Landed' \subseteq Saves /\ Landed \subseteq Saves
    BY DEF Landed
  <2> QED
    BY <2>1, NumberTypes, FS_Subset
<1> QED
  BY <1>1, <1>2 DEF OverwriteInv, NumbersInv, SetTypeOK

LEMMA PageKeepsOverwrites ==
    ASSUME OverwriteInv, Open \/ Close \/ TypeValue PROVE OverwriteInv'
<1> USE DEF OverwriteInv
<1>1. /\ setCache \in CacheType /\ setForm \in [value : Values, seen : Numbers]
      /\ saves \in [Saves -> SaveType] /\ setShown \in BOOLEAN /\ SetTypeOK
  BY ReadTypes DEF NumbersInv
<1>2. CASE Open
  <2>1. /\ UNCHANGED <<setKind, setting, saves, others>> /\ setShown' = TRUE /\ setForm' = Fresh(setCache)
        /\ setCache' = setCache \/ (setCache' = Fetch(setCache) /\ Fetches)
    BY <1>2 DEF Open
  <2>2. /\ setCache' \in CacheType /\ setCache'.data = setCache.data /\ setCache'.loaded = setCache.loaded
        /\ setCache'.read = setCache.read
        /\ setCache'.fetch = setCache.fetch \/ (setCache'.fetch = "asked" /\ Fetches)
    <3>1. /\ Fetch(setCache) \in CacheType /\ Fetch(setCache).data = setCache.data
          /\ Fetch(setCache).loaded = setCache.loaded /\ Fetch(setCache).read = setCache.read
          /\ Fetch(setCache).fetch = "asked"
      BY <1>1, Fetched
    <3>2. CASE setCache' = setCache
      BY <1>1, <3>2
    <3>3. CASE setCache' = Fetch(setCache) /\ Fetches
      BY <3>1, <3>3
    <3> QED
      BY <2>1, <3>2, <3>3
  <2>3. /\ setForm' \in [value : Values, seen : Numbers]
        /\ setKind \in Effects /\ setCache.loaded => setForm'.seen = setCache.data.number
    <3>1. setCache.data \in Read
      BY <1>1 DEF CacheType
    <3> QED
      BY <1>1, <2>1, <3>1, Seeded
  <2>4. NumbersInv'
    BY <1>1, <2>1, <2>2, <2>3, NumbersStay DEF Landed
  <2>5. LoadedIsNumbered'
    BY <2>1, <2>2 DEF LoadedIsNumbered, Fetches
  <2>6. EffectsShowTheCache' /\ SentInv'
    BY <2>1, <2>2, <2>3 DEF EffectsShowTheCache, SentInv
  <2> QED
    BY <2>4, <2>5, <2>6
<1>3. CASE Close
  <2>1. UNCHANGED <<setKind, setting, setCache, others>> /\ setShown' = FALSE /\ setForm' = Defaults
    BY <1>3 DEF Close
  <2>2. \A s \in Saves : /\ saves'[s] \in SaveType /\ saves'[s].at = saves[s].at
                         /\ saves'[s].known = saves[s].known /\ saves'[s].seen = saves[s].seen
    BY <1>1, <1>3 DEF Close, SaveType
  <2>3. saves' \in [Saves -> SaveType]
    BY <1>3, <2>2 DEF Close
  <2>4. NumbersInv'
    <3>1. Landed \subseteq Landed'
      BY <2>2 DEF Landed
    <3> QED
      BY <1>1, <2>1, <2>3, <3>1, Blanks, NumbersStay
  <2>5. LoadedIsNumbered' /\ EffectsShowTheCache'
    BY <2>1 DEF LoadedIsNumbered, EffectsShowTheCache
  <2>6. SentInv'
    BY <2>1, <2>2 DEF SentInv
  <2> QED
    BY <2>4, <2>5, <2>6
<1>4. CASE TypeValue
  <2>1. UNCHANGED <<setKind, setShown, setting, setCache, saves, others>>
    BY <1>4 DEF TypeValue
  <2>2. setForm' \in [value : Values, seen : Numbers] /\ setForm'.seen = setForm.seen
    BY <1>1, <1>4 DEF TypeValue
  <2>3. NumbersInv'
    BY <1>1, <2>1, <2>2, NumbersStay DEF Landed
  <2>4. LoadedIsNumbered' /\ EffectsShowTheCache' /\ SentInv'
    BY <2>1, <2>2 DEF LoadedIsNumbered, EffectsShowTheCache, SentInv
  <2> QED
    BY <2>3, <2>4
<1> QED
  BY <1>2, <1>3, <1>4

LEMMA FetchKeepsOverwrites ==
    ASSUME OverwriteInv, SettingRead \/ SettingArrives \/ SettingFails PROVE OverwriteInv'
<1> USE DEF OverwriteInv
<1>1. /\ setCache \in CacheType /\ setForm \in [value : Values, seen : Numbers]
      /\ saves \in [Saves -> SaveType] /\ setShown \in BOOLEAN /\ SetTypeOK
      /\ setCache.data \in Read /\ setCache.read \in Read
  BY ReadTypes DEF NumbersInv
<1>2. CASE SettingRead
  <2> DEFINE r == [value |-> setting.value, number |-> setting.number]
  <2>1. r \in Read /\ r.number # Unknown
    BY <1>1, NumberTypes DEF SetTypeOK, NumbersInv, Read
  <2>2. /\ setCache.fetch = "asked" /\ setCache' = [setCache EXCEPT !.fetch = "read", !.read = r]
        /\ UNCHANGED <<setKind, setShown, setting, setForm, saves, others>>
    BY <1>2 DEF SettingRead
  <2> HIDE DEF r
  <2>3. /\ setCache' \in CacheType /\ setCache'.data = setCache.data /\ setCache'.loaded = setCache.loaded
        /\ setCache'.read.number # Unknown
    BY <1>1, <2>1, <2>2 DEF CacheType
  <2>4. NumbersInv'
    BY <1>1, <2>2, <2>3, NumbersStay DEF Landed
  <2>5. LoadedIsNumbered'
    BY <2>2, <2>3 DEF LoadedIsNumbered
  <2>6. EffectsShowTheCache' /\ SentInv'
    BY <2>2, <2>3 DEF EffectsShowTheCache, SentInv
  <2> QED
    BY <2>4, <2>5, <2>6
<1>3. CASE SettingArrives
  <2>1. /\ setCache.fetch = "read" /\ setCache' = [NotLoaded EXCEPT !.loaded = TRUE, !.data = setCache.read]
        /\ setForm' = (IF setShown THEN AfterData(setCache.read) ELSE setForm)
        /\ UNCHANGED <<setKind, setShown, setting, saves, others>>
    BY <1>3 DEF SettingArrives
  <2>2. setCache' \in CacheType /\ setCache'.data = setCache.read /\ setCache'.loaded /\ setCache'.fetch = "none"
    BY <1>1, <2>1, Blanks DEF CacheType, NotLoaded
  <2>3. setCache.read.number # Unknown /\ setKind # DataAllowlistCard
    BY <2>1 DEF LoadedIsNumbered
  <2>4. setForm' \in [value : Values, seen : Numbers]
    BY <1>1, <2>1, Seeded
  <2>5. NumbersInv'
    BY <1>1, <2>1, <2>2, <2>4, NumbersStay DEF Landed
  <2>6. LoadedIsNumbered'
    BY <2>1, <2>2, <2>3 DEF LoadedIsNumbered
  <2>7. EffectsShowTheCache'
    BY <1>1, <2>1, <2>2, EffectsFollow DEF EffectsShowTheCache
  <2>8. SentInv'
    BY <2>1 DEF SentInv
  <2> QED
    BY <2>5, <2>6, <2>7, <2>8
<1>4. CASE SettingFails
  <2>1. /\ setCache.fetch = "asked" /\ setCache' = [setCache EXCEPT !.fetch = "none", !.failed = TRUE]
        /\ setForm' = (IF setKind = KeyRow THEN Defaults ELSE setForm)
        /\ UNCHANGED <<setKind, setShown, setting, saves, others>>
    BY <1>4 DEF SettingFails
  <2>2. /\ setCache' \in CacheType /\ setCache'.data = setCache.data /\ setCache'.loaded = setCache.loaded
        /\ setCache'.fetch = "none"
    BY <1>1, <2>1 DEF CacheType
  <2>3. setForm' \in [value : Values, seen : Numbers] /\ (setKind \in Effects => setForm' = setForm)
    BY <1>1, <2>1, Blanks, KindsDiffer DEF Rows
  <2>4. NumbersInv'
    BY <1>1, <2>1, <2>2, <2>3, NumbersStay DEF Landed
  <2>5. LoadedIsNumbered' /\ EffectsShowTheCache' /\ SentInv'
    BY <2>1, <2>2, <2>3 DEF LoadedIsNumbered, EffectsShowTheCache, SentInv
  <2> QED
    BY <2>4, <2>5
<1> QED
  BY <1>2, <1>3, <1>4

\* The button sends what the inputs hold, or the list with one table more or less.
LEMMA SaveKeepsOverwrites ==
    ASSUME OverwriteInv, NEW s \in Saves, Save(s) PROVE OverwriteInv'
<1> USE DEF OverwriteInv
<1>1. /\ setCache \in CacheType /\ setForm \in [value : Values, seen : Numbers]
      /\ saves \in [Saves -> SaveType] /\ setShown \in BOOLEAN /\ SetTypeOK
      /\ setCache.data \in Read
  BY ReadTypes DEF NumbersInv
<1>2. PICK v \in Sent :
        saves' = [saves EXCEPT ![s] =
            [at |-> "sent", value |-> v, known |-> setCache.data.number, mounted |-> TRUE,
             seen |-> IF setKind = TablesCatalogPage THEN setCache.data.number ELSE setForm.seen]]
  BY DEF Save
<1>3. /\ setShown /\ SaveShown /\ saves[s].at = "unused"
      /\ UNCHANGED <<setKind, setShown, setting, setCache, setForm, others>>
  BY DEF Save
<1>4. v \in Values
  BY <1>1, <1>2 DEF Sent, Toggled, Values, Read
<1> DEFINE shown == IF setKind = TablesCatalogPage THEN setCache.data.number ELSE setForm.seen
           new == [at |-> "sent", value |-> v, known |-> setCache.data.number, mounted |-> TRUE, seen |-> shown]
<1>5. shown \in Numbers
  BY <1>1 DEF Read
<1>6. new \in SaveType /\ new.at = "sent" /\ new.known = setCache.data.number /\ new.seen = shown
  BY <1>1, <1>4, <1>5 DEF SaveType, Read
<1>7. saves' = [saves EXCEPT ![s] = new]
  BY <1>2
<1>8. IF setCache.data.number = Unknown THEN setKind \notin Rows
      ELSE setKind \in Rows \/ shown = setCache.data.number
  <2>1. CASE setCache.data.number = Unknown
    <3>1. ~setCache.loaded
      BY <2>1 DEF LoadedIsNumbered
    <3>2. ~RowShown(setCache)
      BY <3>1 DEF RowShown
    <3>3. setKind = KeyRow => (SaveShown = RowShown(setCache))
      BY DEF SaveShown, KeyRow, EntrypointTab, UserRow, TablesCatalogPage
    <3>4. setKind = UserRow => (SaveShown = (setCache.loaded /\ setForm.value # setCache.data.value))
      BY DEF SaveShown, KeyRow, EntrypointTab, UserRow, TablesCatalogPage
    <3> QED
      BY <1>3, <2>1, <3>1, <3>2, <3>3, <3>4 DEF Rows
  <2>2. CASE setCache.data.number # Unknown
    <3>1. setCache.loaded /\ setKind # DataAllowlistCard
      BY <2>2 DEF LoadedIsNumbered
    <3>2. setKind \in Effects => setForm.seen = setCache.data.number
      BY <1>3, <3>1 DEF EffectsShowTheCache
    <3> QED
      BY <1>1, <2>2, <3>1, <3>2, KindsDiffer DEF SetTypeOK
  <2> QED
    BY <2>1, <2>2
<1> HIDE DEF new, shown
<1>9. /\ saves' \in [Saves -> SaveType] /\ saves'[s] = new
      /\ \A r \in Saves : r # s => saves'[r] = saves[r]
  BY <1>1, <1>6, <1>7
<1>10. NumbersInv'
  <2>1. Landed \subseteq Landed'
    BY <1>3, <1>9 DEF Landed
  <2> QED
    BY <1>1, <1>3, <1>9, <2>1, NumbersStay
<1>11. LoadedIsNumbered' /\ EffectsShowTheCache'
  BY <1>3 DEF LoadedIsNumbered, EffectsShowTheCache
<1>12. SentInv'
  BY <1>3, <1>6, <1>8, <1>9 DEF SentInv
<1> QED
  BY <1>10, <1>11, <1>12

\* A save ends, well or not: what it was sent with is gone.
LEMMA EndKeepsOverwrites ==
    ASSUME OverwriteInv, NEW s \in Saves, SaveEnds(s) \/ SaveErrs(s) PROVE OverwriteInv'
<1> USE DEF OverwriteInv
<1>1. /\ setCache \in CacheType /\ setForm \in [value : Values, seen : Numbers]
      /\ saves \in [Saves -> SaveType] /\ setShown \in BOOLEAN /\ SetTypeOK
  BY ReadTypes DEF NumbersInv
<1> DEFINE new == [NoSave EXCEPT !.at = "ended"]
<1>2. new \in SaveType /\ new.at = "ended"
  BY Blanks DEF SaveType
<1>3. saves' = [saves EXCEPT ![s] = new] /\ UNCHANGED <<setKind, setShown, setting, setForm, others>>
  BY DEF SaveEnds, SaveErrs
<1>4. /\ setCache' \in CacheType /\ setCache'.data = setCache.data /\ setCache'.loaded = setCache.loaded
      /\ setCache'.read = setCache.read
      /\ setCache'.fetch = setCache.fetch \/ (setCache'.fetch = "asked" /\ Fetches)
  <2> DEFINE marked == [setCache EXCEPT !.invalid = TRUE]
  <2>1. /\ marked \in CacheType /\ marked.data = setCache.data /\ marked.loaded = setCache.loaded
        /\ marked.read = setCache.read /\ marked.fetch = setCache.fetch
    BY <1>1, Fetched
  <2>2. setCache' \in {setCache, marked} \/ (setCache' = Fetch(marked) /\ Fetches)
    BY DEF SaveEnds, SaveErrs
  <2> HIDE DEF marked
  <2>3. /\ Fetch(marked) \in CacheType /\ Fetch(marked).data = marked.data /\ Fetch(marked).loaded = marked.loaded
        /\ Fetch(marked).fetch = "asked" /\ Fetch(marked).read = marked.read
    BY <2>1, Fetched
  <2>4. CASE setCache' \in {setCache, marked}
    BY <1>1, <2>1, <2>4
  <2>5. CASE setCache' = Fetch(marked) /\ Fetches
    BY <2>1, <2>3, <2>5
  <2> QED
    BY <2>2, <2>4, <2>5
<1> HIDE DEF new
<1>5. /\ saves' \in [Saves -> SaveType] /\ saves'[s] = new
      /\ \A r \in Saves : r # s => saves'[r] = saves[r]
  BY <1>1, <1>2, <1>3
<1>6. NumbersInv'
  <2>1. Landed \subseteq Landed'
    BY <1>2, <1>5 DEF Landed
  <2> QED
    BY <1>1, <1>3, <1>4, <1>5, <2>1, NumbersStay
<1>7. LoadedIsNumbered'
  BY <1>3, <1>4 DEF LoadedIsNumbered, Fetches
<1>8. EffectsShowTheCache' /\ SentInv'
  BY <1>2, <1>3, <1>4, <1>5 DEF EffectsShowTheCache, SentInv
<1> QED
  BY <1>6, <1>7, <1>8

\* The value is written, by a save or by another user.
LEMMA WriteKeepsOverwrites ==
    ASSUME OverwriteInv, OtherSaves \/ \E s \in Saves : SaveLands(s) PROVE OverwriteInv'
<1> USE DEF OverwriteInv
<1>1. /\ setCache \in CacheType /\ setForm \in [value : Values, seen : Numbers]
      /\ saves \in [Saves -> SaveType] /\ setShown \in BOOLEAN /\ SetTypeOK /\ others \in 0 .. MaxOthers
      /\ setting.number \in Nat /\ setting.number <= others + Cardinality(Landed)
  BY ReadTypes DEF NumbersInv, SetTypeOK
<1>2. Landed \subseteq Saves /\ Cardinality(Landed) \in Nat /\ Cardinality(Landed) <= Cardinality(Saves)
      /\ IsFiniteSet(Landed)
  BY NumberTypes DEF Landed
<1>3. CASE OtherSaves
  <2>1. PICK v \in Values : setting' = [value |-> v, number |-> setting.number + 1, by |-> "other"]
    BY <1>3 DEF OtherSaves
  <2>2. /\ UNCHANGED <<setKind, setShown, setCache, setForm, saves>>
        /\ others' = others + 1 /\ others < MaxOthers
    BY <1>3 DEF OtherSaves
  <2>3. others' \in 0 .. MaxOthers /\ setting.number + 1 \in Numbers
    BY <1>1, <1>2, <2>2, NumberTypes, OthersAssumption DEF Numbers, Unknown
  <2>4. SetTypeOK'
    BY <1>1, <2>1, <2>2, <2>3 DEF SetTypeOK
  <2>5. Landed' = Landed
    BY <2>2 DEF Landed
  <2>6. NumbersInv'
    BY <1>1, <1>2, <2>1, <2>2, <2>4, <2>5, OthersAssumption DEF NumbersInv
  <2>7. LoadedIsNumbered' /\ EffectsShowTheCache' /\ SentInv'
    BY <2>2 DEF LoadedIsNumbered, EffectsShowTheCache, SentInv
  <2> QED
    BY <2>6, <2>7
<1>4. CASE \E s \in Saves : SaveLands(s)
  <2>1. PICK s \in Saves : SaveLands(s)
    BY <1>4
  <2>2. /\ UNCHANGED <<setKind, setShown, setCache, setForm, others>> /\ saves[s].at = "sent"
        /\ setting' = [value |-> saves[s].value, number |-> setting.number + 1, by |-> "browser"]
    BY <2>1 DEF SaveLands
  <2>3. /\ saves' \in [Saves -> SaveType] /\ saves'[s].at = "written" /\ saves[s].value \in Values
        /\ \A r \in Saves : r # s => saves'[r] = saves[r]
    BY <1>1, <2>1 DEF SaveLands, SaveType
  <2>4. Landed' = Landed \cup {s} /\ s \notin Landed
    BY <2>2, <2>3 DEF Landed
  <2>5. Cardinality(Landed') = Cardinality(Landed) + 1
    BY <1>2, <2>4, FS_AddElement
  <2>6. Cardinality(Landed') <= Cardinality(Saves)
    <3>1. Landed' \subseteq Saves
      BY DEF Landed
    <3> QED
      BY <3>1, SavesAssumption, FS_Subset
  <2>7. setting.number + 1 \in Numbers
    BY <1>1, <1>2, <2>5, <2>6, NumberTypes, OthersAssumption DEF Numbers, Unknown
  <2>8. SetTypeOK'
    <3>1. setting' \in [value : Values, number : Numbers, by : {"browser", "other"}]
      BY <2>2, <2>3, <2>7
    <3> QED
      BY <1>1, <2>2, <2>3, <3>1 DEF SetTypeOK, SaveType
  <2>9. NumbersInv'
    BY <1>1, <1>2, <2>2, <2>5, <2>8, OthersAssumption DEF NumbersInv
  <2>10. LoadedIsNumbered' /\ EffectsShowTheCache'
    BY <2>2 DEF LoadedIsNumbered, EffectsShowTheCache
  <2>11. SentInv'
    BY <2>2, <2>3 DEF SentInv
  <2> QED
    BY <2>9, <2>10, <2>11
<1> QED
  BY <1>3, <1>4

LEMMA OverwriteInvInitially == SetInit => OverwriteInv
<1> SUFFICES ASSUME SetInit PROVE OverwriteInv
  OBVIOUS
<1> USE DEF SetInit
<1>1. setting \in [value : Values, number : Numbers, by : {"browser", "other"}] /\ setting.number = 0
  BY NumberTypes DEF Values
<1>2. \A s \in Saves : saves[s] = NoSave
  OBVIOUS
<1>3. SetTypeOK
  <2>1. setCache \in CacheType /\ setForm \in [value : Values, seen : Numbers]
    BY Blanks
  <2>2. saves = [s \in Saves |-> NoSave] /\ NoSave \in SaveType
    BY Blanks
  <2>3. saves \in [Saves -> SaveType]
    BY <2>2
  <2> QED
    <3>1. setKind \in Kinds /\ setShown \in BOOLEAN
      OBVIOUS
    <3>2. others = 0 /\ 0 \in 0 .. MaxOthers
      BY OthersAssumption
    <3> QED
      BY <1>1, <2>1, <2>3, <3>1, <3>2 DEF SetTypeOK, CacheType, SaveType, Read
<1>4. Landed = {}
  BY <1>2 DEF Landed, NoSave
<1>5. NumbersInv
  BY <1>1, <1>3, <1>4, FS_EmptySet DEF NumbersInv
<1>6. LoadedIsNumbered
  BY DEF LoadedIsNumbered, NotLoaded
<1>7. EffectsShowTheCache
  BY DEF EffectsShowTheCache
<1>8. SentInv
  BY <1>2 DEF SentInv, NoSave
<1> QED
  BY <1>5, <1>6, <1>7, <1>8 DEF OverwriteInv

LEMMA OverwriteInvKept == OverwriteInv /\ [SetNext]_setVars => OverwriteInv'
<1> SUFFICES ASSUME OverwriteInv, [SetNext]_setVars PROVE OverwriteInv'
  OBVIOUS
<1>1. CASE Open \/ Close \/ TypeValue
  BY <1>1, PageKeepsOverwrites
<1>2. CASE SettingRead \/ SettingArrives \/ SettingFails
  BY <1>2, FetchKeepsOverwrites
<1>3. CASE OtherSaves
  BY <1>3, WriteKeepsOverwrites
<1>4. CASE \E s \in Saves : Save(s) \/ SaveLands(s) \/ SaveEnds(s) \/ SaveErrs(s)
  <2>1. PICK s \in Saves : Save(s) \/ SaveLands(s) \/ SaveEnds(s) \/ SaveErrs(s)
    BY <1>4
  <2> QED
    BY <2>1, SaveKeepsOverwrites, EndKeepsOverwrites, WriteKeepsOverwrites
<1>5. CASE UNCHANGED setVars
  BY <1>5 DEF setVars, OverwriteInv, NumbersInv, SetTypeOK, Landed, LoadedIsNumbered, EffectsShowTheCache, SentInv
<1> QED
  BY <1>1, <1>2, <1>3, <1>4, <1>5 DEF SetNext

LEMMA SettingsKeepInv == SetSpec => []OverwriteInv
BY OverwriteInvInitially, OverwriteInvKept, PTL DEF SetSpec

\* The forms keep to their types; every write of the value gives it one number.
THEOREM SettingsTypeCorrect == SetSpec => []SetTypeOK
<1>1. OverwriteInv => SetTypeOK
  BY DEF OverwriteInv, NumbersInv
<1> QED
  BY <1>1, SettingsKeepInv, PTL

\* A form overwrites a value of somebody else that it has not shown only if the browser had not heard of that value
\* when the button was pressed, or if the form is a row of a list.
THEOREM OverwritesAreExplained == SetSpec => OverwritesHaveReasons
<1>1. ASSUME OverwriteInv, [SetNext]_setVars, NEW s \in Saves, Replaces(s)
      PROVE  IF saves[s].known = Unknown THEN setKind \in SavesUnloaded
             ELSE saves[s].known # setting.number \/ setKind \in Rows
  <2>1. saves[s].at = "sent" /\ saves[s].seen # setting.number
    BY <1>1 DEF Replaces
  <2>2. IF saves[s].known = Unknown THEN setKind \notin Rows
        ELSE setKind \in Rows \/ saves[s].seen = saves[s].known
    BY <1>1, <2>1 DEF OverwriteInv, SentInv
  <2>3. setKind \in Kinds
    BY <1>1 DEF OverwriteInv, NumbersInv, SetTypeOK
  <2> QED
    BY <2>1, <2>2, <2>3, KindsDiffer
<1>2. OverwriteInv /\ [SetNext]_setVars =>
        [ \A s \in Saves : Replaces(s) =>
            IF saves[s].known = Unknown THEN setKind \in SavesUnloaded
            ELSE saves[s].known # setting.number \/ setKind \in Rows ]_setVars
  BY <1>1
<1> QED
  BY <1>2, SettingsKeepInv, PTL DEF SetSpec, OverwritesHaveReasons
=============================================================================
