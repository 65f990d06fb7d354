----------------------------- MODULE CDCManager -----------------------------
(***************************************************************************)
(* Change data capture for one project: the subscriptions in PostgreSQL,   *)
(* the row triggers on the tenant tables, the one listener that the        *)
(* Manager keeps, and the HTTP handlers that change all three.             *)
(*                                                                         *)
(* Projects share the Manager's mutex and nothing else, so the entry of    *)
(* one project in its map is the state of the Manager here.  A listener is *)
(* a goroutine with its own connection; the Manager only holds the cancel  *)
(* function of its context, so a listener outlives its entry in the map.   *)
(***************************************************************************)
EXTENDS Naturals, Sequences

CONSTANTS
    Handlers,      \* the requests the API serves at the same time
    Functions,     \* the functions of the project
    Tables,        \* the tables of the tenant database
    MaxListeners,  \* bound: how many listener goroutines may be started
    MaxChanges,    \* bound: how many rows may change
    FaultKinds,    \* which of "crash", "statement", "connection" may fail
    MaxFaults      \* bound: how many of them may fail

ASSUME CDCBounds == {MaxListeners, MaxChanges, MaxFaults} \subseteq Nat

VARIABLES
    subs,       \* tenant_cdc_subscriptions of the project
    installed,  \* the tables that have the row trigger
    up,         \* the API has started and Bootstrap is over
    listener,   \* the project's entry in Manager.listeners, 0 for none
    phase,      \* where every listener goroutine is
    cancelled,  \* the listeners whose context is cancelled
    queue,      \* the notifications waiting on every listener's connection
    found,      \* the subscriptions every listener still has to publish its change to
    overtaken,  \* history: <<k, l>>, l was started before the cancel of k got through
    changes,    \* how many row changes have been committed
    routed,     \* what listeners have published: change, subscription, listener
    work,       \* the handlers in flight
    faults      \* how many faults have happened (bound)

vars == <<subs, installed, up, listener, phase, cancelled, queue, found, overtaken,
          changes, routed, work, faults>>

listenerVars == <<listener, phase, cancelled, queue, found, overtaken>>
changeVars == <<changes, routed>>

Subs == Functions \X Tables      \* UNIQUE(project_id, function_id, table_name)
TableOf(s) == s[2]
Listeners == 1..MaxListeners
Change == [id : 1..MaxChanges, table : Tables]

Phases == {"unborn", "connecting", "listening", "handling", "publishing", "waiting",
           "gone"}
SubscribePoints == {"subscribing", "dropped", "installed", "inserted"}
UnsubscribePoints == {"deleted", "stopping"}
Points == SubscribePoints \cup UnsubscribePoints

NoWork == [at |-> "idle"]
Work == {NoWork} \cup [at : Points, sub : Subs] \cup [at : {"cancelling"}, stopped : Listeners]

Alive(l) == phase[l] \notin {"unborn", "gone"}
Started == {l \in Listeners : phase[l] # "unborn"}

TypeOK ==
    /\ subs \subseteq Subs
    /\ installed \subseteq Tables
    /\ up \in BOOLEAN
    /\ listener \in 0..MaxListeners
    /\ phase \in [Listeners -> Phases]
    /\ cancelled \subseteq Listeners
    /\ queue \in [Listeners -> Seq(Change)]
    /\ found \in [Listeners -> SUBSET Subs]
    /\ overtaken \subseteq Listeners \X Listeners
    /\ changes \in 0..MaxChanges
    /\ routed \subseteq Change \X Subs \X Listeners
    /\ work \in [Handlers -> Work]
    /\ faults \in 0..MaxFaults

Init ==
    /\ subs = {}
    /\ installed = {}
    /\ up = TRUE
    /\ listener = 0
    /\ phase = [l \in Listeners |-> "unborn"]
    /\ cancelled = {}
    /\ queue = [l \in Listeners |-> <<>>]
    /\ found = [l \in Listeners |-> {}]
    /\ overtaken = {}
    /\ changes = 0
    /\ routed = {}
    /\ work = [h \in Handlers |-> NoWork]
    /\ faults = 0

At(h, point) == work[h].at = point
Goto(h, point) == work' = [work EXCEPT ![h].at = point]

\* Mutant: the handler is idle and not reset.
FinishIdle(h) == Goto(h, "idle")

Finish(h) == work' = [work EXCEPT ![h] = NoWork]

Begin(h, point, s) == work' = [work EXCEPT ![h] = [at |-> point, sub |-> s]]

-----------------------------------------------------------------------------
(* The Manager.  Ensure holds the mutex throughout; Stop takes the entry    *)
(* under it and calls the cancel function after it let go.                 *)

\* The goroutines that nobody has cancelled.
Uncancelled == {l \in Listeners : Alive(l) /\ l \notin cancelled}

\* Mutant: Ensure does not look for the entry.
StartAnotherListener ==
    \E l \in Listeners :
        /\ Started = 1..(l - 1)
        /\ listener' = l
        /\ phase' = [phase EXCEPT ![l] = "connecting"]
        /\ UNCHANGED <<cancelled, queue, found, overtaken>>

\* Ensure: nothing to do if the project has an entry, else a new goroutine.
StartListener ==
    IF listener # 0
    THEN UNCHANGED listenerVars
    ELSE \E l \in Listeners :
            /\ Started = 1..(l - 1)
            /\ listener' = l
            /\ phase' = [phase EXCEPT ![l] = "connecting"]
            /\ overtaken' = overtaken \cup (Uncancelled \X {l})
            /\ UNCHANGED <<cancelled, queue, found>>

-----------------------------------------------------------------------------
(* POST .../cdc/subscriptions.                                             *)

BeginSubscribe(h, s) ==
    /\ up /\ At(h, "idle")
    /\ Begin(h, "subscribing", s)
    /\ UNCHANGED <<subs, installed, up, listenerVars, changeVars, faults>>

\* InstallTriggerForTable: DROP TRIGGER IF EXISTS and CREATE TRIGGER are two
\* statements outside a transaction.
DropTrigger(h) ==
    /\ At(h, "subscribing")
    /\ installed' = installed \ {TableOf(work[h].sub)}
    /\ Goto(h, "dropped")
    /\ UNCHANGED <<subs, up, listenerVars, changeVars, faults>>

\* Another handler may have created the trigger in between: then 400.
CreateTrigger(h) ==
    /\ At(h, "dropped")
    /\ installed' = installed \cup {TableOf(work[h].sub)}
    /\ IF TableOf(work[h].sub) \in installed THEN Finish(h) ELSE Goto(h, "installed")
    /\ UNCHANGED <<subs, up, listenerVars, changeVars, faults>>

InsertSubscription(h) ==
    /\ At(h, "installed")
    /\ subs' = subs \cup {work[h].sub}
    /\ Goto(h, "inserted")
    /\ UNCHANGED <<installed, up, listenerVars, changeVars, faults>>

EnsureListener(h) ==
    /\ At(h, "inserted")
    /\ StartListener
    /\ Finish(h)
    /\ UNCHANGED <<subs, installed, up, changeVars, faults>>

-----------------------------------------------------------------------------
(* DELETE .../cdc/subscriptions/:id.  The row trigger stays.               *)

DeleteSubscription(h, s) ==
    /\ up /\ At(h, "idle")
    /\ s \in subs
    /\ subs' = subs \ {s}
    /\ Begin(h, "deleted", s)
    /\ UNCHANGED <<installed, up, listenerVars, changeVars, faults>>

\* Mutant: the last subscription is gone and the listener stays.
ListRemainingNot(h) ==
    /\ At(h, "deleted")
    /\ Finish(h)
    /\ UNCHANGED <<subs, installed, up, listenerVars, changeVars, faults>>

ListRemaining(h) ==
    /\ At(h, "deleted")
    /\ IF subs = {} THEN Goto(h, "stopping") ELSE Finish(h)
    /\ UNCHANGED <<subs, installed, up, listenerVars, changeVars, faults>>

\* Stop: the entry goes.  Its cancel function, if there was one, is called later.
StopUnsubscribed(h) ==
    /\ At(h, "stopping")
    /\ listener' = 0
    /\ IF listener = 0
       THEN Finish(h)
       ELSE work' = [work EXCEPT ![h] = [at |-> "cancelling", stopped |-> listener]]
    /\ UNCHANGED <<subs, installed, up, phase, cancelled, queue, found, overtaken, changeVars,
                   faults>>

\* Stop, after the mutex: the context of the goroutine is cancelled.
CancelStopped(h) ==
    /\ At(h, "cancelling")
    /\ cancelled' = cancelled \cup {work[h].stopped}
    /\ Finish(h)
    /\ UNCHANGED <<subs, installed, up, listener, phase, queue, found, overtaken, changeVars,
                   faults>>

-----------------------------------------------------------------------------
(* A listener goroutine: run and listen.                                   *)

\* ConnectionURL, Connect and LISTEN.
Connect(l) ==
    /\ phase[l] = "connecting"
    /\ l \notin cancelled
    /\ phase' = [phase EXCEPT ![l] = "listening"]
    /\ UNCHANGED <<subs, installed, up, listener, cancelled, queue, found, overtaken, changeVars,
                   work, faults>>

\* After the back-off.
Retry(l) ==
    /\ phase[l] = "waiting"
    /\ l \notin cancelled
    /\ phase' = [phase EXCEPT ![l] = "connecting"]
    /\ UNCHANGED <<subs, installed, up, listener, cancelled, queue, found, overtaken, changeVars,
                   work, faults>>

\* WaitForNotification returns, maybe one that was buffered before the cancel.
Receive(l) ==
    /\ phase[l] = "listening"
    /\ queue[l] # <<>>
    /\ phase' = [phase EXCEPT ![l] = "handling"]
    /\ UNCHANGED <<subs, installed, up, listener, cancelled, queue, found, overtaken, changeVars,
                   work, faults>>

\* The listener goes back to WaitForNotification.
NextNotification(l) ==
    /\ queue' = [queue EXCEPT ![l] = Tail(@)]
    /\ phase' = [phase EXCEPT ![l] = "listening"]

Subscribed(change) == {s \in subs : TableOf(s) = change.table}

\* Mutant: the lookup uses a context that outlives the listener.
LookupAlways(l) ==
    LET matching == Subscribed(Head(queue[l]))
    IN  /\ phase[l] = "handling"
        /\ IF matching = {}
           THEN NextNotification(l) /\ UNCHANGED found
           ELSE /\ found' = [found EXCEPT ![l] = matching]
                /\ phase' = [phase EXCEPT ![l] = "publishing"]
                /\ UNCHANGED queue
        /\ UNCHANGED <<subs, installed, up, listener, cancelled, overtaken, changeVars, work,
                       faults>>

\* CDCSubscriptionsForLookup.  Under a cancelled context it fails, and the change
\* is dropped.
Lookup(l) ==
    LET matching == IF l \in cancelled THEN {} ELSE Subscribed(Head(queue[l]))
    IN  /\ phase[l] = "handling"
        /\ IF matching = {}
           THEN NextNotification(l) /\ UNCHANGED found
           ELSE /\ found' = [found EXCEPT ![l] = matching]
                /\ phase' = [phase EXCEPT ![l] = "publishing"]
                /\ UNCHANGED queue
        /\ UNCHANGED <<subs, installed, up, listener, cancelled, overtaken, changeVars, work,
                       faults>>

\* The change goes to the bus and to the hub for one more subscription.  The hub
\* takes no context: a cancel after the lookup stops at most the bus.
Publish(l) ==
    /\ phase[l] = "publishing"
    /\ \E s \in found[l] :
        /\ routed' = routed \cup {<<Head(queue[l]), s, l>>}
        /\ found' = [found EXCEPT ![l] = @ \ {s}]
        /\ IF found[l] = {s} THEN NextNotification(l) ELSE UNCHANGED <<queue, phase>>
    /\ UNCHANGED <<subs, installed, up, listener, cancelled, overtaken, changes, work, faults>>

\* Mutant: the goroutine waits for its next notification without the context.
ExitUnlessListening(l) ==
    /\ l \in cancelled
    /\ phase[l] \in {"connecting", "waiting"}
    /\ phase' = [phase EXCEPT ![l] = "gone"]
    /\ queue' = [queue EXCEPT ![l] = <<>>]
    /\ UNCHANGED <<subs, installed, up, listener, cancelled, found, overtaken, changeVars, work,
                   faults>>

\* The goroutine sees ctx.Done(), or the error of a cancelled context.
Exit(l) ==
    /\ l \in cancelled
    /\ phase[l] \in {"connecting", "listening", "waiting"}
    /\ phase' = [phase EXCEPT ![l] = "gone"]
    /\ queue' = [queue EXCEPT ![l] = <<>>]
    /\ UNCHANGED <<subs, installed, up, listener, cancelled, found, overtaken, changeVars, work,
                   faults>>

-----------------------------------------------------------------------------
(* The tenant's rows.                                                      *)

\* A row of table t changes.  The trigger notifies the connections that listen
\* when the change commits, and no other.
ChangeRow(t) ==
    /\ changes < MaxChanges
    /\ changes' = changes + 1
    /\ queue' = [l \in Listeners |->
                    IF t \in installed /\ phase[l] \in {"listening", "handling", "publishing"}
                    THEN Append(queue[l], [id |-> changes + 1, table |-> t]) ELSE queue[l]]
    /\ UNCHANGED <<subs, installed, up, listener, phase, cancelled, found, overtaken, routed, work,
                   faults>>

-----------------------------------------------------------------------------
(* What can go wrong.                                                      *)

Fault(kind) ==
    /\ kind \in FaultKinds
    /\ faults < MaxFaults
    /\ faults' = faults + 1

\* The API process dies; Bootstrap runs before the next one serves requests.
Crash ==
    /\ Fault("crash")
    /\ up' = FALSE
    /\ work' = [h \in Handlers |-> NoWork]
    /\ listener' = 0
    /\ phase' = [l \in Listeners |-> IF phase[l] = "unborn" THEN "unborn" ELSE "gone"]
    /\ queue' = [l \in Listeners |-> <<>>]
    /\ found' = [l \in Listeners |-> {}]
    /\ UNCHANGED <<subs, installed, cancelled, overtaken, changeVars>>

\* Bootstrap: ProjectIDsWithCDC, and Ensure for every project it returns.
Bootstrap ==
    /\ ~up
    /\ up' = TRUE
    /\ IF subs = {} THEN UNCHANGED listenerVars ELSE StartListener
    /\ UNCHANGED <<subs, installed, changeVars, work, faults>>

\* ProjectIDsWithCDC fails: the API starts without listeners.
BootstrapFails ==
    /\ Fault("statement")
    /\ ~up
    /\ up' = TRUE
    /\ UNCHANGED <<subs, installed, listenerVars, changeVars, work>>

\* A statement of a handler fails, or its request was cancelled.  The error of
\* the list is dropped, and the list it returns is empty.
StatementFails(h) ==
    /\ Fault("statement")
    /\ \/ At(h, "subscribing") /\ Finish(h)
       \/ At(h, "dropped") /\ Finish(h)
       \/ At(h, "installed") /\ Finish(h)
       \/ At(h, "deleted") /\ Goto(h, "stopping")
    /\ UNCHANGED <<subs, installed, up, listenerVars, changeVars>>

\* The lookup of a listener fails: the change is skipped.
LookupFails(l) ==
    /\ Fault("statement")
    /\ phase[l] = "handling"
    /\ NextNotification(l)
    /\ UNCHANGED <<subs, installed, up, listener, cancelled, found, overtaken, changeVars, work>>

\* Mutant: run returns on the first error.
ConnectionEnds(l) ==
    /\ Fault("connection")
    /\ phase[l] \in {"connecting", "listening"}
    /\ phase' = [phase EXCEPT ![l] = "gone"]
    /\ queue' = [queue EXCEPT ![l] = <<>>]
    /\ UNCHANGED <<subs, installed, up, listener, cancelled, found, overtaken, changeVars, work>>

\* A connection cannot be made, or is lost with what was waiting on it.
ConnectionFails(l) ==
    /\ Fault("connection")
    /\ phase[l] \in {"connecting", "listening"}
    /\ phase' = [phase EXCEPT ![l] = "waiting"]
    /\ queue' = [queue EXCEPT ![l] = <<>>]
    /\ UNCHANGED <<subs, installed, up, listener, cancelled, found, overtaken, changeVars, work>>

-----------------------------------------------------------------------------
SubscribeStep(h) ==
    DropTrigger(h) \/ CreateTrigger(h) \/ InsertSubscription(h) \/ EnsureListener(h)
UnsubscribeStep(h) == ListRemaining(h) \/ StopUnsubscribed(h) \/ CancelStopped(h)
HandlerStep(h) == SubscribeStep(h) \/ UnsubscribeStep(h)
Request(h) == \E s \in Subs : BeginSubscribe(h, s) \/ DeleteSubscription(h, s)
ListenerStep(l) == Connect(l) \/ Retry(l) \/ Receive(l) \/ Lookup(l) \/ Publish(l) \/ Exit(l)

Next ==
    \/ \E h \in Handlers : Request(h) \/ HandlerStep(h) \/ StatementFails(h)
    \/ \E l \in Listeners : ListenerStep(l) \/ LookupFails(l) \/ ConnectionFails(l)
    \/ \E t \in Tables : ChangeRow(t)
    \/ Bootstrap \/ BootstrapFails
    \/ Crash

Spec == Init /\ [][Next]_vars

\* The Go runtime schedules goroutines and statements return; a restart policy
\* brings the process back.  Clients and tenants need do nothing.
Fairness ==
    /\ \A h \in Handlers : WF_vars(HandlerStep(h))
    /\ \A l \in Listeners : WF_vars(ListenerStep(l))
    /\ WF_vars(Bootstrap)

FairSpec == Spec /\ Fairness
-----------------------------------------------------------------------------
(* Properties.                                                             *)

\* A listener at work can always be stopped: it is the Manager's entry, or a
\* request that took it out of the map is about to cancel it, across Ensures that
\* come between the two halves of a Stop, and across restarts.
OneListener ==
    \A l \in Uncancelled :
        \/ l = listener
        \/ \E h \in Handlers : At(h, "cancelling") /\ work[h].stopped = l

\* A row change reaches a subscription's function and the subscribers of the hub
\* through one listener only, although a stopped listener may still hold its
\* connection, and notifications, when the next one listens.  Stop does not
\* promise it to a listener that was started before the cancel of the last one.
RoutedOnce ==
    \A r, q \in routed :
        r[1] = q[1] /\ r[2] = q[2] =>
            r[3] = q[3] \/ {<<r[3], q[3]>>, <<q[3], r[3]>>} \cap overtaken # {}

\* When no request is in flight the project has a listener exactly if it has a
\* subscription.  The comment on Manager says so; true of serial requests.
ListenerMatchesSubscriptions ==
    up /\ (\A h \in Handlers : At(h, "idle")) => (listener # 0 <=> subs # {})

\* A subscribed table has its trigger, but for the moment between the two
\* statements of a handler that installs it again.
SubscribedTablesNotify ==
    \A s \in subs :
        \/ TableOf(s) \in installed
        \/ \E h \in Handlers : At(h, "dropped") /\ TableOf(work[h].sub) = TableOf(s)

\* A cancelled listener ends, whatever it was doing.
CancelledEnd == \A l \in Listeners : l \in cancelled ~> ~Alive(l)

\* A listener that is not stopped gets to listen, through failing connections.
ListenersListen ==
    \A l \in Listeners :
        phase[l] = "connecting" ~> phase[l] = "listening" \/ l # listener
=============================================================================
