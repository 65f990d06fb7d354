----------------------------- MODULE TriggerBus -----------------------------
(***************************************************************************)
(* The trigger bus: dispatched triggers and asynchronous invocations, from *)
(* the request that is answered 202 to the result event.                   *)
(*                                                                         *)
(* With NATS the messages are in a JetStream stream, which survives the    *)
(* API.  Its two durable consumers send copies of a message to the memory  *)
(* of the client and send again what is not acknowledged in time,          *)
(* MaxDeliver times at most; one goroutine per consumer handles the copies *)
(* in order.  Without NATS every asynchronous invocation is a goroutine.   *)
(***************************************************************************)
EXTENDS Naturals, Sequences

CONSTANTS
    Jobs,        \* asynchronous invocations, on functions.async.invoke
    Triggers,    \* dispatched triggers, on triggers.dispatch
    Poison,      \* messages on triggers.dispatch that are not JSON
    MaxDeliver,  \* maxAttempts: 5 in the code
    FaultKinds,  \* which of "crash", "connect", "publish", "statement", "ack" may fail
    MaxFaults    \* bound: how many of them may fail

ASSUME BusBounds == MaxDeliver \in Nat \ {0} /\ MaxFaults \in Nat
Consumers == {"dispatch_worker", "async_invoke_worker"}

ASSUME BusKinds == /\ Jobs \cap Triggers = {} /\ Jobs \cap Poison = {}
                   /\ Triggers \cap Poison = {} /\ Jobs \cap Consumers = {}

VARIABLES
    nats,        \* the API has a connection to NATS
    up,          \* the API runs
    accepted,    \* the messages whose sender was told they are queued
    stream,      \* what platform_triggers holds
    deliveries,  \* how often the server has delivered every message
    pending,     \* the messages whose last delivery may still be acknowledged
    settled,     \* the messages that were acknowledged
    inbox,       \* the copies in the memory of the client, per consumer
    task,        \* what every consumer, and every job's own goroutine, is doing
    served,      \* messages broadcast, dead-lettered, or with a result event
    dropped,     \* messages on which an error was dropped
    persisting,  \* the goroutines of invokeDLQPersist
    listed,      \* trigger_dlq_events
    runs,        \* how often every job was invoked
    crashed,     \* the API has died at least once
    faults       \* how many faults have happened (bound)

serverVars == <<stream, deliveries, pending, settled>>
apiVars == <<inbox, task, persisting>>
outcomeVars == <<served, dropped, listed, runs>>
vars == <<nats, up, accepted, serverVars, apiVars, outcomeVars, crashed, faults>>

Messages == Jobs \cup Triggers \cup Poison
ConsumerOf(m) == IF m \in Jobs THEN "async_invoke_worker" ELSE "dispatch_worker"
Runners == Consumers \cup Jobs     \* a job runs in a goroutine of its own without NATS

Copy == [msg : Messages, attempt : 1..MaxDeliver]
Steps == {"handling", "running", "recording", "settling"}
Idle == [at |-> "idle"]
Task == {Idle} \cup [at : Steps, msg : Messages, attempt : 0..MaxDeliver]

TypeOK ==
    /\ {nats, up, crashed} \subseteq BOOLEAN
    /\ {accepted, stream, pending, settled, served, dropped, persisting, listed} \subseteq SUBSET Messages
    /\ deliveries \in [Messages -> 0..MaxDeliver]
    /\ inbox \in [Consumers -> Seq(Copy)]
    /\ task \in [Runners -> Task]
    /\ runs \in [Jobs -> Nat]
    /\ faults \in 0..MaxFaults

Init ==
    /\ nats \in BOOLEAN
    /\ up = TRUE
    /\ accepted = {}
    /\ stream = {}
    /\ deliveries = [m \in Messages |-> 0]
    /\ pending = {}
    /\ settled = {}
    /\ inbox = [c \in Consumers |-> <<>>]
    /\ task = [r \in Runners |-> Idle]
    /\ served = {}
    /\ dropped = {}
    /\ persisting = {}
    /\ listed = {}
    /\ runs = [j \in Jobs |-> 0]
    /\ crashed = FALSE
    /\ faults = 0

At(r, step) == task[r].at = step
Goto(r, step) == task' = [task EXCEPT ![r].at = step]
\* Mutant: the goroutine forgets the copy only in part.
FinishIdle(r) == Goto(r, "idle")
Finish(r) == task' = [task EXCEPT ![r] = Idle]
Holds(r, S) == task[r].msg \in S

Fault(kind) ==
    /\ kind \in FaultKinds
    /\ faults < MaxFaults
    /\ faults' = faults + 1

-----------------------------------------------------------------------------
(* Senders.  All of them drop the error of the publication.  What is not   *)
(* JSON comes from another client of the server.                           *)

Publish(m) ==
    /\ nats /\ (up \/ m \in Poison)
    /\ m \notin accepted
    /\ accepted' = accepted \cup {m}
    /\ stream' = stream \cup {m}
    /\ UNCHANGED <<nats, up, deliveries, pending, settled, apiVars, outcomeVars, crashed, faults>>

PublishFails(m) ==
    /\ Fault("publish")
    /\ nats /\ up /\ m \notin accepted \cup Poison
    /\ accepted' = accepted \cup {m}
    /\ dropped' = dropped \cup {m}
    /\ UNCHANGED <<nats, up, serverVars, apiVars, served, listed, runs, crashed>>

\* POST .../invoke/async without NATS.
RunLocally(j) ==
    /\ ~nats /\ up /\ j \notin accepted
    /\ accepted' = accepted \cup {j}
    /\ task' = [task EXCEPT ![j] = [at |-> "running", msg |-> j, attempt |-> 0]]
    /\ UNCHANGED <<nats, up, serverVars, inbox, persisting, outcomeVars, crashed, faults>>

-----------------------------------------------------------------------------
(* The server.                                                             *)

Undelivered(m) ==
    m \in stream \ (settled \cup pending) /\ deliveries[m] < MaxDeliver

Deliver(m) ==
    /\ nats /\ up /\ Undelivered(m)
    /\ deliveries' = [deliveries EXCEPT ![m] = @ + 1]
    /\ pending' = pending \cup {m}
    /\ inbox' = [inbox EXCEPT ![ConsumerOf(m)] =
                    Append(@, [msg |-> m, attempt |-> deliveries[m] + 1])]
    /\ UNCHANGED <<nats, up, accepted, stream, settled, task, persisting, outcomeVars, crashed,
                   faults>>

\* The deadline passes: 500 ms after the first delivery, then 2 s and 10 s, while
\* a handler may take the 30 s of an invocation.
Expire(m) ==
    /\ m \in pending
    /\ pending' = pending \ {m}
    /\ UNCHANGED <<nats, up, accepted, stream, deliveries, settled, apiVars, outcomeVars, crashed,
                   faults>>

-----------------------------------------------------------------------------
(* The handlers of the consumers.                                          *)

Take(c) ==
    /\ At(c, "idle")
    /\ inbox[c] # <<>>
    /\ task' = [task EXCEPT ![c] = [at |-> "handling", msg |-> Head(inbox[c]).msg,
                                    attempt |-> Head(inbox[c]).attempt]]
    /\ inbox' = [inbox EXCEPT ![c] = Tail(@)]
    /\ UNCHANGED <<nats, up, accepted, serverVars, persisting, outcomeVars, crashed, faults>>

\* OnDispatch: the hub broadcasts the trigger.
Dispatch(c) ==
    /\ At(c, "handling") /\ Holds(c, Triggers)
    /\ served' = served \cup {task[c].msg}
    /\ Goto(c, "settling")
    /\ UNCHANGED <<nats, up, accepted, serverVars, inbox, persisting, dropped, listed, runs,
                   crashed, faults>>

\* NakWithDelay: the server delivers again, if it still may.
Refuse(c) ==
    /\ At(c, "handling") /\ Holds(c, Poison)
    /\ task[c].attempt < MaxDeliver
    /\ pending' = pending \ {task[c].msg}
    /\ Finish(c)
    /\ UNCHANGED <<nats, up, accepted, stream, deliveries, settled, inbox, persisting, outcomeVars,
                   crashed, faults>>

\* Mutant: the last attempt is counted from zero.
DeadLetterBeyond(c) ==
    /\ At(c, "handling") /\ Holds(c, Poison)
    /\ task[c].attempt > MaxDeliver
    /\ served' = served \cup {task[c].msg}
    /\ persisting' = persisting \cup {task[c].msg}
    /\ Goto(c, "settling")
    /\ UNCHANGED <<nats, up, accepted, serverVars, inbox, dropped, listed, runs, crashed, faults>>

DeadLetter(c) ==
    /\ At(c, "handling") /\ Holds(c, Poison)
    /\ task[c].attempt >= MaxDeliver
    /\ served' = served \cup {task[c].msg}
    /\ persisting' = persisting \cup {task[c].msg}
    /\ Goto(c, "settling")
    /\ UNCHANGED <<nats, up, accepted, serverVars, inbox, dropped, listed, runs, crashed, faults>>

DeadLetterFails(c) ==
    /\ Fault("publish")
    /\ At(c, "handling") /\ Holds(c, Poison)
    /\ task[c].attempt >= MaxDeliver
    /\ dropped' = dropped \cup {task[c].msg}
    /\ persisting' = persisting \cup {task[c].msg}
    /\ Goto(c, "settling")
    /\ UNCHANGED <<nats, up, accepted, serverVars, inbox, served, listed, runs, crashed>>

\* invokeDLQPersist decodes the message again to find its project.
Persist(m) ==
    /\ m \in persisting
    /\ persisting' = persisting \ {m}
    /\ listed' = listed \cup ({m} \ Poison)
    /\ UNCHANGED <<nats, up, accepted, serverVars, inbox, task, served, dropped, runs, crashed,
                   faults>>

\* asyncInvokeFromNATS: the function of the job is there.
StartJob(c) ==
    /\ At(c, "handling") /\ Holds(c, Jobs)
    /\ Goto(c, "running")
    /\ UNCHANGED <<nats, up, accepted, serverVars, inbox, persisting, outcomeVars, crashed, faults>>

\* It is not, or the statement fails: the handler returns, and acknowledges.
LookupFails(c) ==
    /\ Fault("statement")
    /\ At(c, "handling") /\ Holds(c, Jobs)
    /\ dropped' = dropped \cup {task[c].msg}
    /\ Goto(c, "settling")
    /\ UNCHANGED <<nats, up, accepted, serverVars, inbox, persisting, served, listed, runs, crashed>>

\* Mutant: an invocation that fails is tried again.
InvokeUntilOk(r) ==
    /\ At(r, "running")
    /\ runs' = [runs EXCEPT ![task[r].msg] = @ + 1]
    /\ UNCHANGED task \/ Goto(r, "recording")
    /\ UNCHANGED <<nats, up, accepted, serverVars, inbox, persisting, served, dropped, listed,
                   crashed, faults>>

\* runAsyncInvokeJob: the invocation, whether it succeeds or not, then its event.
Invoke(r) ==
    /\ At(r, "running")
    /\ runs' = [runs EXCEPT ![task[r].msg] = @ + 1]
    /\ Goto(r, "recording")
    /\ UNCHANGED <<nats, up, accepted, serverVars, inbox, persisting, served, dropped, listed,
                   crashed, faults>>

\* The goroutine of a job ends, the handler of a consumer goes on to acknowledge.
Recorded(r) == IF r \in Jobs THEN Finish(r) ELSE Goto(r, "settling")

\* Mutant: the event is written after the acknowledgement.
RecordLater(r) ==
    /\ At(r, "recording")
    /\ Recorded(r)
    /\ UNCHANGED <<nats, up, accepted, serverVars, inbox, persisting, served, dropped, listed, runs,
                   crashed, faults>>

Record(r) ==
    /\ At(r, "recording")
    /\ served' = served \cup {task[r].msg}
    /\ Recorded(r)
    /\ UNCHANGED <<nats, up, accepted, serverVars, inbox, persisting, dropped, listed, runs,
                   crashed, faults>>

RecordFails(r) ==
    /\ Fault("statement")
    /\ At(r, "recording")
    /\ dropped' = dropped \cup {task[r].msg}
    /\ Recorded(r)
    /\ UNCHANGED <<nats, up, accepted, serverVars, inbox, persisting, served, listed, runs, crashed>>

Settle(c) ==
    /\ At(c, "settling")
    /\ settled' = settled \cup {task[c].msg}
    /\ pending' = pending \ {task[c].msg}
    /\ Finish(c)
    /\ UNCHANGED <<nats, up, accepted, stream, deliveries, inbox, persisting, outcomeVars, crashed,
                   faults>>

\* The acknowledgement is lost.
SettleFails(c) ==
    /\ Fault("ack")
    /\ At(c, "settling")
    /\ Finish(c)
    /\ UNCHANGED <<nats, up, accepted, serverVars, inbox, persisting, outcomeVars, crashed>>

-----------------------------------------------------------------------------
(* The API dies with all copies and goroutines; the server keeps its own.  *)

Crash ==
    /\ Fault("crash")
    /\ up /\ up' = FALSE
    /\ crashed' = TRUE
    /\ inbox' = [c \in Consumers |-> <<>>]
    /\ task' = [r \in Runners |-> Idle]
    /\ persisting' = {}
    /\ UNCHANGED <<nats, accepted, serverVars, outcomeVars>>

Restart ==
    /\ ~up /\ up' = TRUE
    /\ UNCHANGED <<nats, accepted, serverVars, apiVars, outcomeVars, crashed, faults>>

\* NATS is optional: an API that cannot connect goes on without it.
RestartDisconnected ==
    /\ Fault("connect")
    /\ ~up /\ up' = TRUE
    /\ nats' = FALSE
    /\ UNCHANGED <<accepted, serverVars, apiVars, outcomeVars, crashed>>

-----------------------------------------------------------------------------
Send == \/ \E m \in Messages : Publish(m) \/ PublishFails(m)
        \/ \E j \in Jobs : RunLocally(j)
Handle(c) == Take(c) \/ Dispatch(c) \/ Refuse(c) \/ DeadLetter(c) \/ StartJob(c) \/ Settle(c)
Run(r) == Invoke(r) \/ Record(r)
HandleFails(c) == DeadLetterFails(c) \/ LookupFails(c) \/ SettleFails(c)

Next ==
    \/ Send
    \/ \E m \in Messages : Deliver(m) \/ Expire(m) \/ Persist(m)
    \/ \E c \in Consumers : Handle(c) \/ HandleFails(c)
    \/ \E r \in Runners : Run(r) \/ RecordFails(r)
    \/ Crash \/ Restart \/ RestartDisconnected

Spec == Init /\ [][Next]_vars

\* The server delivers to a connected client and its timers fire, the Go runtime
\* schedules goroutines, statements and the 30 s dataplane call return, and the
\* process is restarted.
Fairness ==
    /\ \A m \in Messages : WF_vars(Deliver(m)) /\ WF_vars(Expire(m)) /\ WF_vars(Persist(m))
    /\ \A c \in Consumers : WF_vars(Handle(c))
    /\ \A r \in Runners : WF_vars(Run(r))
    /\ WF_vars(Restart)

FairSpec == Spec /\ Fairness
-----------------------------------------------------------------------------
(* Properties.                                                             *)

\* A message is acknowledged only after its effect is there, or its error was
\* dropped: crashes between the two repeat work and never lose it.
SettledWasServed == settled \subseteq served \cup dropped

\* A job is not invoked more often than it was delivered, so MaxDeliver times at
\* most, and once outside the stream, through restarts and lost acknowledgements.
RunsAreDelivered == \A j \in Jobs : runs[j] <= IF j \in stream THEN deliveries[j] ELSE 1

\* What was accepted is served, jobs by a result event and what cannot be decoded
\* by a dead letter, if the API does not die and no error is dropped.
AcceptedAreServed == \A m \in Messages : m \in accepted ~> m \in served \cup dropped \/ crashed
=============================================================================
