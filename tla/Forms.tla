-------------------------------- MODULE Forms --------------------------------
(***************************************************************************)
(* The forms and dialogs of the web UI that send what the user has typed:  *)
(* what the button asks for, what a success clears, closes or shows, and   *)
(* what an error leaves. The server takes a submission or refuses it, and  *)
(* the browser hears of it or not; a user who has heard nothing tries      *)
(* again. A behaviour follows one form.                                    *)
(***************************************************************************)
EXTENDS Naturals, FiniteSets

CONSTANTS
    Submissions,   \* names of the submissions, each used once
    MaxFills       \* bound: times the user fills in the form
ASSUME FillsAssumption == MaxFills \in Nat

VARIABLES
    fKind,         \* the form that is followed
    fMounted,      \* its page is shown
    fOpen,         \* so is its dialog, if it is in one
    typed,         \* which filling the inputs hold, 0 for those the form begins with
    fills,
    submissions,
    taken,         \* the submissions that the server has acted on
    answer,        \* the submission whose answer is shown
    fError,        \* an error is shown
    newest         \* the last submission of the page that is mounted

fVars == <<fKind, fMounted, fOpen, typed, fills, submissions, taken, answer, fError, newest>>

None == "none"

(* The forms. *)
NewProjectDialog == "new project"
CreateFunctionDialog == "new function"
PublishPackageDialog == "new package"
PublishVersionDialog == "new package version"
InstallDialog == "installation"
CreateTriggerDialog == "new trigger"
NewSubscription == "new subscription"
ProjectMembersTab == "new member"
NewKey == "new key"
IntegrationsPage == "mail integration"
TestEmail == "test mail"
MigratePage == "migration"
QueryConsolePage == "query"
TablesBrowserPage == "table"
GraphQLPlaygroundPage == "graphql"
InvokeTab == "invocation"

(* What a success does: it goes to another page, closes the dialog, or shows the answer; some forms begin anew. *)
Leaving == {NewProjectDialog, CreateFunctionDialog}
Closing == {PublishPackageDialog, PublishVersionDialog, InstallDialog, CreateTriggerDialog}
Dialogs == Closing \cup Leaving
Showing == {NewKey, QueryConsolePage, TablesBrowserPage, GraphQLPlaygroundPage, InvokeTab}
Clearing == Leaving \cup {CreateTriggerDialog, NewSubscription, ProjectMembersTab, NewKey, IntegrationsPage}
\* Text that is parsed, and forms that can be sent as they begin.
Parsing == {CreateTriggerDialog, QueryConsolePage, GraphQLPlaygroundPage, InvokeTab}
Prefilled == {NewKey, MigratePage, QueryConsolePage, GraphQLPlaygroundPage, InvokeTab}
(* Errors: shown until the next submission, or until the next success, or never shown (a toast has them) or
   never taken back. Some take away the answer shown before. *)
ErrsUntilSent == Leaving \cup {PublishVersionDialog, InvokeTab}
ErrsForGood == {PublishPackageDialog}
Silent == {NewSubscription}
Dropping == {QueryConsolePage, TablesBrowserPage, GraphQLPlaygroundPage}

AllForms == Clearing \cup Closing \cup Showing \cup {TestEmail, MigratePage}

Unused == [at |-> "unused", fill |-> 0, mounted |-> FALSE]
FormTypeOK ==
    /\ fKind \in AllForms /\ {fMounted, fOpen, fError} \subseteq BOOLEAN
    /\ fills \in 0 .. MaxFills /\ typed \in 0 .. fills
    /\ submissions \in [Submissions -> [at : {"unused", "sent", "taken", "heard", "failed"},
                                        fill : 0 .. fills, mounted : BOOLEAN]]
    /\ taken \subseteq Submissions
    /\ {answer, newest} \subseteq Submissions \cup {None}
    /\ \A s \in taken : submissions[s].at # "unused"
    /\ fOpen => fMounted

-----------------------------------------------------------------------------
Underway(s) == submissions[s].at \in {"sent", "taken"}
(* isPending of the mutation of the mounted form: its button is disabled. *)
FormPending == \E s \in Submissions : Underway(s) /\ submissions[s].mounted

Left == [s \in Submissions |-> [submissions[s] EXCEPT !.mounted = FALSE]]
(* A page that goes takes the state of its forms with it; their requests go on. *)
Unmounts ==
    /\ fMounted' = FALSE /\ fOpen' = FALSE
    /\ typed' = 0 /\ answer' = None /\ fError' = FALSE /\ newest' = None
Mount ==
    /\ ~fMounted /\ fMounted' = TRUE /\ fOpen' = (fKind \notin Dialogs)
    /\ UNCHANGED <<fKind, typed, fills, submissions, taken, answer, fError, newest>>
Leave ==
    /\ fMounted /\ Unmounts /\ submissions' = Left
    /\ UNCHANGED <<fKind, fills, taken>>

(* Cancel, or a click beside the dialog: what was typed is there when it is opened again. *)
OpenDialog ==
    /\ fMounted /\ fKind \in Dialogs /\ ~fOpen /\ fOpen' = TRUE
    /\ UNCHANGED <<fKind, fMounted, typed, fills, submissions, taken, answer, fError, newest>>
CancelDialog ==
    /\ fOpen /\ fKind \in Dialogs /\ fOpen' = FALSE
    /\ UNCHANGED <<fKind, fMounted, typed, fills, submissions, taken, answer, fError, newest>>

(* The inputs are not disabled while a submission is under way. *)
Fill ==
    /\ fOpen /\ fills < MaxFills
    /\ fills' = fills + 1 /\ typed' = fills + 1
    /\ UNCHANGED <<fKind, fMounted, fOpen, submissions, taken, answer, fError, newest>>
\* The button of a key that is shown once.
Dismiss ==
    /\ fKind = NewKey /\ answer # None /\ answer' = None
    /\ UNCHANGED <<fKind, fMounted, fOpen, typed, fills, submissions, taken, fError, newest>>

CanSubmit == fOpen /\ ~FormPending /\ (fKind \in Prefilled \/ typed > 0)
Submit(s) ==
    /\ CanSubmit /\ submissions[s].at = "unused"
    /\ submissions' = [submissions EXCEPT ![s] = [at |-> "sent", fill |-> typed, mounted |-> TRUE]]
    /\ newest' = s
    /\ fError' = (fError /\ fKind \notin ErrsUntilSent)
    /\ UNCHANGED <<fKind, fMounted, fOpen, typed, fills, taken, answer>>
(* Text that does not parse is not sent. *)
Refuse ==
    /\ CanSubmit /\ fKind \in Parsing /\ fError' = TRUE
    /\ answer' = IF fKind \in Dropping THEN None ELSE answer
    /\ UNCHANGED <<fKind, fMounted, fOpen, typed, fills, submissions, taken, newest>>

ServerTakes(s) ==
    /\ submissions[s].at = "sent"
    /\ submissions' = [submissions EXCEPT ![s].at = "taken"] /\ taken' = taken \cup {s}
    /\ UNCHANGED <<fKind, fMounted, fOpen, typed, fills, answer, fError, newest>>

\* Mutant: a success leaves the inputs alone.
TypedBefore(s) == typed
TypedAfter(s) == IF fKind \in Clearing THEN 0 ELSE typed
(* onSuccess. The handlers that navigate do so wherever the user has gone in the meantime. *)
Succeed(s) ==
    /\ submissions[s].at = "taken"
    /\ IF fKind \in Leaving THEN
            Unmounts /\ submissions' = [Left EXCEPT ![s].at = "heard"]
       ELSE /\ submissions' = [submissions EXCEPT ![s].at = "heard"]
            /\ UNCHANGED <<fMounted, newest>>
            /\ IF ~submissions[s].mounted THEN UNCHANGED <<fOpen, typed, answer, fError>>
               ELSE /\ typed' = TypedAfter(s)
                    /\ fOpen' = (fOpen /\ fKind \notin Closing)
                    /\ answer' = IF fKind \in Showing THEN s ELSE answer
                    /\ fError' = (fError /\ fKind \in ErrsForGood)
    /\ UNCHANGED <<fKind, fills, taken>>

(* onError: refused, or lost on the way to the server or back. *)
Fail(s) ==
    /\ Underway(s)
    /\ submissions' = [submissions EXCEPT ![s].at = "failed"]
    /\ IF ~submissions[s].mounted THEN UNCHANGED <<answer, fError>>
       ELSE /\ fError' = (fKind \notin Silent)
            /\ answer' = IF fKind \in Dropping THEN None ELSE answer
    /\ UNCHANGED <<fKind, fMounted, fOpen, typed, fills, taken, newest>>

-----------------------------------------------------------------------------
FormInit ==
    /\ fKind \in AllForms
    /\ fMounted = FALSE /\ fOpen = FALSE /\ typed = 0 /\ fills = 0
    /\ submissions = [s \in Submissions |-> Unused] /\ taken = {}
    /\ answer = None /\ fError = FALSE /\ newest = None
FormNext ==
    \/ Mount \/ Leave \/ OpenDialog \/ CancelDialog \/ Fill \/ Dismiss \/ Refuse
    \/ \E s \in Submissions : Submit(s) \/ ServerTakes(s) \/ Succeed(s) \/ Fail(s)
FormSpec == FormInit /\ [][FormNext]_fVars

-----------------------------------------------------------------------------
(* The server acts twice on one filling of a form only if the form keeps it after a success, or if its first
   submission failed in the browser after the server had acted, and the user tried again. *)
SentTwice(s, r) == s # r /\ submissions[s].fill = submissions[r].fill /\ submissions[s].fill > 0
DuplicatesHaveReasons ==
    \A s, r \in taken : SentTwice(s, r) =>
        fKind \notin Clearing \/ "failed" \in {submissions[s].at, submissions[r].at}

(* The answer shown without an error, while nothing is under way, is that of the last submission. *)
AnswersMatch == (answer # None /\ ~fError /\ ~\E s \in Submissions : Underway(s) /\ submissions[s].mounted)
                    => answer = newest
=============================================================================
