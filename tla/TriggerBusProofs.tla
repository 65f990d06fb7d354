-------------------------- MODULE TriggerBusProofs --------------------------
(***************************************************************************)
(* Theorems about the trigger bus, for all jobs, triggers and bounds.      *)
(*                                                                         *)
(* What is acknowledged was served, because a handler that is about to     *)
(* acknowledge has served its message.  How often a job runs follows from  *)
(* the order of its copies: attempts grow along the inbox, and every copy  *)
(* that has not run yet has a higher attempt than there were runs.         *)
(***************************************************************************)
EXTENDS TriggerBus, TLAPS

\* Only jobs are run.
JobsRun == \A r \in Runners : task[r].at \in {"running", "recording"} => task[r].msg \in Jobs

TypeInv == TypeOK /\ JobsRun

\* A consumer that is about to acknowledge has served its message.
SettlingWasServed ==
    \A c \in Consumers : At(c, "settling") => task[c].msg \in served \cup dropped

SettledInv == TypeInv /\ SettlingWasServed /\ SettledWasServed

LEMMA BoundsAreNat == MaxDeliver \in Nat /\ MaxFaults \in Nat /\ MaxDeliver > 0
BY BusBounds

-----------------------------------------------------------------------------
(* Types.                                                                  *)

LEMMA GotoTypes ==
  ASSUME TypeOK, NEW r \in Runners, NEW step \in Steps,
         task[r].at # "idle", Goto(r, step)
  PROVE  task' \in [Runners -> Task]
<1>1. task[r] \in [at : Steps, msg : Messages, attempt : 0..MaxDeliver]
  BY DEF TypeOK, Task, Idle
<1>2. [task[r] EXCEPT !.at = step] \in Task
  BY <1>1 DEF Task
<1>3. task' = [task EXCEPT ![r] = [task[r] EXCEPT !.at = step]]
  BY DEF Goto, TypeOK
<1>4. QED
  BY <1>2, <1>3 DEF TypeOK

\* Goto keeps the message and the attempt of its task, and all other tasks.
LEMMA GotoKeeps ==
  ASSUME TypeOK, NEW r \in Runners, NEW step, task[r].at # "idle", Goto(r, step)
  PROVE  /\ task'[r].at = step /\ task'[r].msg = task[r].msg /\ task'[r].attempt = task[r].attempt
         /\ \A q \in Runners : q # r => task'[q] = task[q]
<1>1. task[r] \in [at : Steps, msg : Messages, attempt : 0..MaxDeliver]
  BY DEF TypeOK, Task, Idle
<1>2. task' = [task EXCEPT ![r] = [task[r] EXCEPT !.at = step]]
  BY DEF Goto, TypeOK
<1>3. QED
  BY <1>1, <1>2 DEF TypeOK

LEMMA FinishKeeps ==
  ASSUME TypeOK, NEW r \in Runners, Finish(r)
  PROVE  task'[r].at = "idle" /\ \A q \in Runners : q # r => task'[q] = task[q]
BY DEF TypeOK, Finish, Idle

LEMMA FinishTypes ==
  ASSUME TypeOK, NEW r \in Runners, Finish(r)
  PROVE  task' \in [Runners -> Task]
BY DEF TypeOK, Finish, Task

\* A task that is not idle works on a message.
LEMMA BusyHasMessage ==
  ASSUME TypeOK, NEW r \in Runners, NEW step \in Steps, At(r, step)
  PROVE  task[r].at # "idle" /\ task[r].msg \in Messages /\ task[r].attempt \in 0..MaxDeliver
BY DEF TypeOK, Task, Idle, At, Steps

LEMMA ConsumersRun == Consumers \subseteq Runners /\ Jobs \subseteq Runners /\ Jobs \subseteq Messages
BY DEF Runners, Messages

LEMMA FaultTypes == ASSUME TypeOK, NEW kind, Fault(kind) PROVE faults' \in 0..MaxFaults
BY BoundsAreNat DEF TypeOK, Fault

LEMMA SendTypes == ASSUME TypeOK, Send PROVE TypeOK'
<1> USE DEF TypeOK, serverVars, apiVars, outcomeVars
<1>1. ASSUME NEW m \in Messages, Publish(m) PROVE TypeOK'
  BY <1>1 DEF Publish
<1>2. ASSUME NEW m \in Messages, PublishFails(m) PROVE TypeOK'
  BY <1>2, FaultTypes DEF PublishFails
<1>3. ASSUME NEW j \in Jobs, RunLocally(j) PROVE TypeOK'
  <2>1. [at |-> "running", msg |-> j, attempt |-> 0] \in Task
    BY ConsumersRun, BoundsAreNat DEF Task, Steps
  <2>2. task' \in [Runners -> Task]
    BY <1>3, <2>1 DEF RunLocally
  <2>3. QED
    BY <1>3, <2>2, ConsumersRun DEF RunLocally
<1>4. QED
  BY <1>1, <1>2, <1>3 DEF Send

LEMMA ServerTypes ==
  ASSUME TypeOK, NEW m \in Messages, Deliver(m) \/ Expire(m) \/ Persist(m)
  PROVE  TypeOK'
<1> USE DEF TypeOK, serverVars, apiVars, outcomeVars
<1>1. CASE Deliver(m)
  <2>1. deliveries[m] + 1 \in 1..MaxDeliver
    BY <1>1, BoundsAreNat DEF Deliver, Undelivered
  <2>2. [msg |-> m, attempt |-> deliveries[m] + 1] \in Copy
    BY <2>1 DEF Copy
  <2>3. ConsumerOf(m) \in Consumers
    BY DEF ConsumerOf, Consumers
  <2>4. inbox' \in [Consumers -> Seq(Copy)]
    BY <1>1, <2>2, <2>3 DEF Deliver
  <2>5. deliveries' \in [Messages -> 0..MaxDeliver]
    BY <1>1, <2>1, BoundsAreNat DEF Deliver
  <2>6. QED
    BY <1>1, <2>4, <2>5 DEF Deliver
<1>2. CASE Expire(m)
  BY <1>2 DEF Expire
<1>3. CASE Persist(m)
  BY <1>3 DEF Persist
<1>4. QED
  BY <1>1, <1>2, <1>3

LEMMA HandlerTypes ==
  ASSUME TypeOK, NEW c \in Consumers, Handle(c) \/ HandleFails(c)
  PROVE  TypeOK'
<1> USE DEF TypeOK, serverVars, apiVars, outcomeVars
<1>0. c \in Runners
  BY ConsumersRun
<1>1. CASE Take(c)
  <2>1. inbox[c] \in Seq(Copy) /\ inbox[c] # <<>>
    BY <1>1 DEF Take
  <2>2. Head(inbox[c]) \in Copy /\ Tail(inbox[c]) \in Seq(Copy)
    BY <2>1
  <2>3. [at |-> "handling", msg |-> Head(inbox[c]).msg, attempt |-> Head(inbox[c]).attempt] \in Task
    BY <2>2, BoundsAreNat DEF Copy, Task, Steps
  <2>4. inbox' \in [Consumers -> Seq(Copy)]
    BY <1>1, <2>2 DEF Take
  <2>5. QED
    BY <1>0, <1>1, <2>3, <2>4 DEF Take
<1>2. CASE At(c, "handling")
  <2>1. task[c].at # "idle" /\ task[c].msg \in Messages
    BY <1>0, <1>2, BusyHasMessage DEF Steps
  <2>2. "settling" \in Steps /\ "running" \in Steps
    BY DEF Steps
  <2>3. CASE Dispatch(c) \/ DeadLetter(c) \/ StartJob(c)
    BY <1>0, <2>1, <2>2, <2>3, GotoTypes DEF Dispatch, DeadLetter, StartJob
  <2>4. CASE Refuse(c)
    BY <1>0, <2>1, <2>4, FinishTypes DEF Refuse
  <2>5. CASE DeadLetterFails(c) \/ LookupFails(c)
    BY <1>0, <2>1, <2>2, <2>5, GotoTypes, FaultTypes DEF DeadLetterFails, LookupFails
  <2>6. QED
    BY <1>1, <1>2, <2>3, <2>4, <2>5 DEF Handle, HandleFails, Settle, SettleFails, At
<1>3. CASE Settle(c) \/ SettleFails(c)
  <2>1. task[c].msg \in Messages
    BY <1>0, <1>3, BusyHasMessage DEF Settle, SettleFails, Steps
  <2>2. QED
    BY <1>0, <1>3, <2>1, FinishTypes, FaultTypes DEF Settle, SettleFails
<1>4. QED
  BY <1>1, <1>2, <1>3
     DEF Handle, HandleFails, Dispatch, DeadLetter, StartJob, Refuse, DeadLetterFails, LookupFails

LEMMA RecordedTypes ==
  ASSUME TypeOK, NEW r \in Runners, At(r, "recording"), Recorded(r)
  PROVE  task' \in [Runners -> Task]
<1>1. CASE Finish(r)
  BY <1>1, FinishTypes
<1>2. CASE Goto(r, "settling")
  BY <1>2, GotoTypes DEF At, Steps
<1>3. QED
  BY <1>1, <1>2 DEF Recorded

LEMMA RunnerTypes ==
  ASSUME TypeOK, JobsRun, NEW r \in Runners, Run(r) \/ RecordFails(r)
  PROVE  TypeOK'
<1> USE DEF TypeOK, serverVars, apiVars, outcomeVars
<1>1. CASE Invoke(r)
  <2>1. task[r].msg \in Jobs
    BY <1>1 DEF Invoke, At, JobsRun
  <2>2. runs' \in [Jobs -> Nat]
    BY <1>1, <2>1 DEF Invoke
  <2>3. QED
    BY <1>1, <2>2, GotoTypes DEF Invoke, At, Steps
<1>2. CASE Record(r) \/ RecordFails(r)
  <2>1. task[r].msg \in Messages
    BY <1>2, BusyHasMessage DEF Record, RecordFails, Steps
  <2>2. QED
    BY <1>2, <2>1, RecordedTypes, FaultTypes DEF Record, RecordFails
<1>3. QED
  BY <1>1, <1>2 DEF Run

LEMMA CrashTypes ==
  ASSUME TypeOK, Crash \/ Restart \/ RestartDisconnected
  PROVE  TypeOK'
<1> USE DEF TypeOK, serverVars, apiVars, outcomeVars
<1>1. CASE Crash
  <2>1. task' \in [Runners -> Task] /\ inbox' \in [Consumers -> Seq(Copy)]
    BY <1>1 DEF Crash, Task
  <2>2. QED
    BY <1>1, <2>1, FaultTypes DEF Crash
<1>2. CASE Restart
  BY <1>2 DEF Restart
<1>3. CASE RestartDisconnected
  BY <1>3, FaultTypes DEF RestartDisconnected
<1>4. QED
  BY <1>1, <1>2, <1>3

\* Every step of a task keeps its message, or starts with one that fits.
LEMMA JobsRunStep == ASSUME TypeInv, Next PROVE JobsRun'
<1> USE DEF TypeInv, TypeOK
<1>1. ASSUME UNCHANGED task PROVE JobsRun'
  BY <1>1 DEF JobsRun
<1>2. ASSUME NEW r \in Runners, Finish(r) PROVE JobsRun'
  BY <1>2 DEF JobsRun, Finish, Idle
<1>3. ASSUME NEW r \in Runners, NEW step \in {"running", "recording"}, Goto(r, step),
             task[r].msg \in Jobs
      PROVE  JobsRun'
  BY <1>3 DEF JobsRun, Goto
<1>4. ASSUME NEW r \in Runners, Goto(r, "settling") PROVE JobsRun'
  BY <1>4 DEF JobsRun, Goto
<1>5. ASSUME NEW m \in Messages, Deliver(m) \/ Expire(m) \/ Persist(m) \/ Publish(m) \/ PublishFails(m)
      PROVE  JobsRun'
  BY <1>1, <1>5 DEF Deliver, Expire, Persist, Publish, PublishFails, apiVars
<1>6. ASSUME NEW j \in Jobs, RunLocally(j) PROVE JobsRun'
  BY <1>6 DEF RunLocally, JobsRun
<1>7. ASSUME NEW c \in Consumers, Handle(c) \/ HandleFails(c) PROVE JobsRun'
  <2>1. CASE Take(c)
    BY <2>1 DEF Take, JobsRun
  <2>2. CASE StartJob(c)
    BY <2>2, <1>3, ConsumersRun DEF StartJob, Holds
  <2>3. CASE Dispatch(c) \/ DeadLetter(c) \/ DeadLetterFails(c) \/ LookupFails(c)
    BY <2>3, <1>4, ConsumersRun DEF Dispatch, DeadLetter, DeadLetterFails, LookupFails
  <2>4. CASE Refuse(c) \/ Settle(c) \/ SettleFails(c)
    BY <2>4, <1>2, ConsumersRun DEF Refuse, Settle, SettleFails
  <2>5. QED
    BY <1>7, <2>1, <2>2, <2>3, <2>4 DEF Handle, HandleFails
<1>8. ASSUME NEW r \in Runners, Run(r) \/ RecordFails(r) PROVE JobsRun'
  <2>1. CASE Invoke(r)
    BY <2>1, <1>3 DEF Invoke, At, JobsRun
  <2>2. CASE Record(r) \/ RecordFails(r)
    BY <2>2, <1>2, <1>4 DEF Record, RecordFails, Recorded
  <2>3. QED
    BY <1>8, <2>1, <2>2 DEF Run
<1>9. ASSUME Crash \/ Restart \/ RestartDisconnected PROVE JobsRun'
  BY <1>1, <1>9 DEF Crash, Restart, RestartDisconnected, apiVars, JobsRun, Idle
<1>10. QED
  BY <1>5, <1>6, <1>7, <1>8, <1>9 DEF Next, Send

LEMMA TypeStep == ASSUME TypeInv, [Next]_vars PROVE TypeInv'
<1>1. CASE UNCHANGED vars
  BY <1>1 DEF TypeInv, JobsRun, TypeOK, vars, serverVars, apiVars, outcomeVars
<1>2. CASE Next
  BY <1>2, JobsRunStep, SendTypes, ServerTypes, HandlerTypes, RunnerTypes, CrashTypes
     DEF Next, TypeInv
<1>3. QED
  BY <1>1, <1>2

LEMMA InitTypes == Init => TypeInv
<1> SUFFICES ASSUME Init PROVE TypeInv
  OBVIOUS
<1>1. inbox \in [Consumers -> Seq(Copy)] /\ task \in [Runners -> Task] /\ JobsRun
  BY DEF Init, JobsRun, Task, Idle
<1>2. deliveries \in [Messages -> 0..MaxDeliver] /\ runs \in [Jobs -> Nat] /\ faults \in 0..MaxFaults
  BY BoundsAreNat DEF Init
<1>3. QED
  BY <1>1, <1>2 DEF Init, TypeInv, TypeOK

\* Type correctness of the bus and of what happens to its messages.
THEOREM BusTypeCorrect == Spec => []TypeOK
<1>1. Init => TypeInv
  BY InitTypes
<1>2. TypeInv /\ [Next]_vars => TypeInv'
  BY TypeStep
<1>3. TypeInv => TypeOK
  BY DEF TypeInv
<1>4. QED
  BY <1>1, <1>2, <1>3, PTL DEF Spec

-----------------------------------------------------------------------------
(* An acknowledgement follows its effect.                                  *)

LEMMA SettledStep == ASSUME SettledInv, [Next]_vars PROVE SettledInv'
<1> USE DEF SettledInv, TypeInv, TypeOK, SettlingWasServed, SettledWasServed, At,
            serverVars, apiVars, outcomeVars
<1>0. TypeInv'
  BY TypeStep
<1>1. ASSUME UNCHANGED <<task, settled, served, dropped>>
      PROVE  SettlingWasServed' /\ SettledWasServed'
  BY <1>1
<1>2. ASSUME NEW m \in Messages, Publish(m) \/ PublishFails(m) \/ Deliver(m) \/ Expire(m) \/ Persist(m)
      PROVE  SettlingWasServed' /\ SettledWasServed'
  BY <1>2 DEF Publish, PublishFails, Deliver, Expire, Persist
<1>3. ASSUME NEW j \in Jobs, RunLocally(j) PROVE SettlingWasServed' /\ SettledWasServed'
  BY <1>3, ConsumersRun DEF RunLocally
<1>4. ASSUME NEW c \in Consumers, Handle(c) \/ HandleFails(c)
      PROVE  SettlingWasServed' /\ SettledWasServed'
  <2>0. c \in Runners
    BY ConsumersRun
  <2>1. CASE Take(c)
    BY <2>0, <2>1 DEF Take
  <2>2. CASE Dispatch(c) \/ DeadLetter(c) \/ DeadLetterFails(c) \/ LookupFails(c)
    <3>1. task[c].at # "idle" /\ Goto(c, "settling") /\ UNCHANGED settled
          /\ served' \cup dropped' = served \cup dropped \cup {task[c].msg}
      BY <2>2 DEF Dispatch, DeadLetter, DeadLetterFails, LookupFails
    <3>2. QED
      BY <2>0, <3>1, ConsumersRun, GotoKeeps
  <2>3. CASE StartJob(c)
    <3>1. task[c].at # "idle" /\ Goto(c, "running") /\ UNCHANGED <<settled, served, dropped>>
      BY <2>3 DEF StartJob
    <3>2. QED
      BY <2>0, <3>1, ConsumersRun, GotoKeeps
  <2>4. CASE Refuse(c) \/ Settle(c) \/ SettleFails(c)
    BY <2>0, <2>4, ConsumersRun, FinishKeeps DEF Refuse, Settle, SettleFails
  <2>5. QED
    BY <1>4, <2>1, <2>2, <2>3, <2>4 DEF Handle, HandleFails
<1>5. ASSUME NEW r \in Runners, Run(r) \/ RecordFails(r)
      PROVE  SettlingWasServed' /\ SettledWasServed'
  <2>1. CASE Invoke(r)
    <3>1. task[r].at # "idle" /\ Goto(r, "recording") /\ UNCHANGED <<settled, served, dropped>>
      BY <2>1 DEF Invoke
    <3>2. QED
      BY <3>1, ConsumersRun, GotoKeeps
  <2>2. CASE Record(r) \/ RecordFails(r)
    <3>1. /\ task[r].at # "idle" /\ UNCHANGED settled
          /\ served' \cup dropped' = served \cup dropped \cup {task[r].msg}
          /\ Finish(r) \/ Goto(r, "settling")
      BY <2>2 DEF Record, RecordFails, Recorded
    <3>2. QED
      BY <3>1, ConsumersRun, GotoKeeps, FinishKeeps
  <2>3. QED
    BY <1>5, <2>1, <2>2 DEF Run
<1>6. ASSUME Crash \/ Restart \/ RestartDisconnected
      PROVE  SettlingWasServed' /\ SettledWasServed'
  BY <1>6, ConsumersRun DEF Crash, Restart, RestartDisconnected, Idle
<1>7. CASE UNCHANGED vars
  BY <1>0, <1>1, <1>7 DEF vars
<1>8. QED
  BY <1>0, <1>2, <1>3, <1>4, <1>5, <1>6, <1>7 DEF Next, Send

\* No message is acknowledged before its effect is there, or its error dropped,
\* however deliveries, deadlines, crashes and lost acknowledgements interleave.
THEOREM AcknowledgedWasServed == Spec => []SettledWasServed
<1>1. Init => SettledInv
  BY InitTypes, ConsumersRun
     DEF Init, SettledInv, SettlingWasServed, SettledWasServed, At, Idle
<1>2. SettledInv /\ [Next]_vars => SettledInv'
  BY SettledStep
<1>3. SettledInv => SettledWasServed
  BY DEF SettledInv
<1>4. QED
  BY <1>1, <1>2, <1>3, PTL DEF Spec
-----------------------------------------------------------------------------
(* Runs and deliveries.                                                    *)

Worker == "async_invoke_worker"

\* The copies of a job are where its consumer is, and it is in the stream or has
\* a goroutine of its own, never both.
JobsArePlaced ==
    /\ stream \subseteq accepted
    /\ \A c \in Consumers : \A i \in 1..Len(inbox[c]) :
          inbox[c][i].msg \in stream /\ c = ConsumerOf(inbox[c][i].msg)
    /\ \A c \in Consumers : ~At(c, "idle") => task[c].msg \in stream /\ c = ConsumerOf(task[c].msg)
    /\ \A j \in Jobs : ~At(j, "idle") => /\ task[j].msg = j /\ j \in accepted \ stream
                                         /\ task[j].at \in {"running", "recording"}

\* A job of its own has not run before, and runs once.
LocalRuns ==
    \A j \in Jobs \ stream : /\ runs[j] <= 1
                             /\ (j \notin accepted \/ At(j, "running") => runs[j] = 0)

\* The attempts of one message grow along the inbox.
AttemptsGrow ==
    \A i, k \in 1..Len(inbox[Worker]) :
        i < k /\ inbox[Worker][i].msg = inbox[Worker][k].msg
            => inbox[Worker][i].attempt < inbox[Worker][k].attempt

\* A copy that waits is a later one than there were runs.
WaitingIsLater ==
    \A i \in 1..Len(inbox[Worker]) :
        /\ inbox[Worker][i].attempt <= deliveries[inbox[Worker][i].msg]
        /\ inbox[Worker][i].msg \in Jobs => runs[inbox[Worker][i].msg] < inbox[Worker][i].attempt

\* So is one that was taken and has not run, and those that wait come after it.
TakenIsLater ==
    task[Worker].at \in {"handling", "running"} /\ task[Worker].msg \in Jobs =>
        /\ task[Worker].attempt <= deliveries[task[Worker].msg]
        /\ runs[task[Worker].msg] < task[Worker].attempt
        /\ \A i \in 1..Len(inbox[Worker]) : inbox[Worker][i].msg = task[Worker].msg
                                            => task[Worker].attempt < inbox[Worker][i].attempt

RunsState == /\ JobsArePlaced /\ LocalRuns /\ AttemptsGrow
             /\ WaitingIsLater /\ TakenIsLater /\ RunsAreDelivered

RunsInv == TypeInv /\ RunsState

LEMMA WorkerFacts == /\ Worker \in Consumers /\ Worker \in Runners /\ Worker \notin Jobs
                     /\ \A m \in Jobs : ConsumerOf(m) = Worker
                     /\ \A m \in Messages : ConsumerOf(m) = Worker => m \in Jobs
                     /\ \A m \in Messages : ConsumerOf(m) \in Consumers
BY BusKinds DEF Worker, Consumers, Runners, ConsumerOf, Messages

\* What the sequences of copies look like after a delivery and after a taking.
LEMMA AppendFacts ==
  ASSUME NEW s \in Seq(Copy), NEW x \in Copy
  PROVE  /\ Len(Append(s, x)) = Len(s) + 1
         /\ \A i \in 1..Len(s) : Append(s, x)[i] = s[i]
         /\ Append(s, x)[Len(s) + 1] = x
OBVIOUS

LEMMA TailFacts ==
  ASSUME NEW s \in Seq(Copy), s # <<>>
  PROVE  /\ Len(s) \in Nat \ {0} /\ Len(Tail(s)) = Len(s) - 1
         /\ \A i \in 1..Len(Tail(s)) : i + 1 \in 1..Len(s) /\ Tail(s)[i] = s[i + 1]
         /\ Head(s) = s[1]
OBVIOUS

LEMMA CopiesInInbox ==
  ASSUME TypeOK, NEW c \in Consumers
  PROVE  /\ inbox[c] \in Seq(Copy) /\ Len(inbox[c]) \in Nat
         /\ \A i \in 1..Len(inbox[c]) : /\ inbox[c][i] \in Copy
                                        /\ inbox[c][i].msg \in Messages
                                        /\ inbox[c][i].attempt \in Nat
<1>1. inbox[c] \in Seq(Copy)
  BY DEF TypeOK
<1>2. Len(inbox[c]) \in Nat /\ \A i \in 1..Len(inbox[c]) : inbox[c][i] \in Copy
  BY <1>1
<1>3. \A x \in Copy : x.msg \in Messages /\ x.attempt \in Nat
  BY BoundsAreNat DEF Copy
<1>4. QED
  BY <1>1, <1>2, <1>3

LEMMA CountsAreNat ==
  ASSUME TypeOK
  PROVE  /\ \A m \in Messages : deliveries[m] \in Nat
         /\ \A j \in Jobs : runs[j] \in Nat
BY BoundsAreNat DEF TypeOK

\* A sender accepts a message that has left no trace yet.
LEMMA SendRuns == ASSUME RunsInv, Send PROVE RunsState'
<1> USE DEF RunsInv, RunsState, TypeInv, TypeOK, serverVars, apiVars, outcomeVars
<1>1. ASSUME NEW m \in Messages, Publish(m) \/ PublishFails(m) PROVE RunsState'
  <2>1. /\ m \notin accepted /\ accepted' = accepted \cup {m}
        /\ stream' = stream \cup {m} \/ stream' = stream
        /\ UNCHANGED <<inbox, task, runs, deliveries>>
    BY <1>1 DEF Publish, PublishFails
  <2>2. \A j \in Jobs : ~At(j, "idle") => j # m
    BY <2>1 DEF JobsArePlaced
  <2>3. JobsArePlaced'
    BY <2>1, <2>2 DEF JobsArePlaced, At
  <2>4. LocalRuns' /\ RunsAreDelivered'
    BY <2>1, <2>2 DEF LocalRuns, RunsAreDelivered, JobsArePlaced, At
  <2>5. AttemptsGrow' /\ WaitingIsLater' /\ TakenIsLater'
    BY <2>1 DEF AttemptsGrow, WaitingIsLater, TakenIsLater
  <2>6. QED
    BY <2>3, <2>4, <2>5
<1>2. ASSUME NEW j \in Jobs, RunLocally(j) PROVE RunsState'
  <2>1. /\ j \notin accepted /\ accepted' = accepted \cup {j}
        /\ UNCHANGED <<stream, inbox, runs, deliveries>>
        /\ task' = [task EXCEPT ![j] = [at |-> "running", msg |-> j, attempt |-> 0]]
    BY <1>2 DEF RunLocally
  <2>2. /\ task'[j] = [at |-> "running", msg |-> j, attempt |-> 0]
        /\ \A r \in Runners : r # j => task'[r] = task[r]
    BY <2>1, ConsumersRun
  <2>3. \A c \in Consumers : task'[c] = task[c]
    BY <2>2, ConsumersRun, BusKinds
  <2>4. JobsArePlaced'
    BY <2>1, <2>2, <2>3, ConsumersRun DEF JobsArePlaced, At
  <2>5. LocalRuns' /\ RunsAreDelivered'
    BY <2>1, <2>2, ConsumersRun DEF LocalRuns, RunsAreDelivered, JobsArePlaced, At
  <2>6. AttemptsGrow' /\ WaitingIsLater' /\ TakenIsLater'
    BY <2>1, <2>3, WorkerFacts DEF AttemptsGrow, WaitingIsLater, TakenIsLater
  <2>7. QED
    BY <2>4, <2>5, <2>6
<1>3. QED
  BY <1>1, <1>2 DEF Send

\* The server's copy has a higher attempt than all before it.
LEMMA DeliverRuns == ASSUME RunsInv, NEW m \in Messages, Deliver(m) PROVE RunsState'
<1> USE DEF RunsInv, RunsState, TypeInv, TypeOK, serverVars, apiVars, outcomeVars
<1> DEFINE copy == [msg |-> m, attempt |-> deliveries[m] + 1]
           c == ConsumerOf(m)
<1>1. /\ m \in stream /\ deliveries[m] + 1 \in 1..MaxDeliver /\ c \in Consumers
      /\ UNCHANGED <<accepted, stream, task, runs>>
  BY WorkerFacts, BoundsAreNat DEF Deliver, Undelivered
<1>2. copy \in Copy
  BY <1>1 DEF Copy
<1>3. /\ inbox' = [inbox EXCEPT ![c] = Append(inbox[c], copy)]
      /\ deliveries' = [deliveries EXCEPT ![m] = deliveries[m] + 1]
  BY DEF Deliver
<1> HIDE DEF c, copy
<1>4. /\ inbox'[c] = Append(inbox[c], copy)
      /\ \A d \in Consumers : d # c => inbox'[d] = inbox[d]
      /\ deliveries'[m] = deliveries[m] + 1
      /\ \A n \in Messages : n # m => deliveries'[n] = deliveries[n]
  BY <1>1, <1>3
<1>5. /\ Len(inbox'[c]) = Len(inbox[c]) + 1 /\ inbox'[c][Len(inbox[c]) + 1] = copy
      /\ \A i \in 1..Len(inbox[c]) : inbox'[c][i] = inbox[c][i]
      /\ Len(inbox[c]) \in Nat
  <2>1. inbox[c] \in Seq(Copy) /\ Len(inbox[c]) \in Nat
    BY <1>1, CopiesInInbox
  <2>2. QED
    BY <1>2, <1>4, <2>1, AppendFacts
<1>6. \A i \in 1..Len(inbox'[c]) :
         \/ i \in 1..Len(inbox[c]) /\ inbox'[c][i] = inbox[c][i]
         \/ i = Len(inbox[c]) + 1 /\ inbox'[c][i] = copy
  <2>1. TAKE i \in 1..Len(inbox'[c])
  <2>2. i \in 1..Len(inbox[c]) \/ i = Len(inbox[c]) + 1
    BY <1>5
  <2>3. CASE i \in 1..Len(inbox[c])
    BY <1>5, <2>3
  <2>4. CASE i = Len(inbox[c]) + 1
    BY <1>5, <2>4
  <2>5. QED
    BY <2>2, <2>3, <2>4
<1>7. \A i \in 1..Len(inbox[Worker]) :
         inbox[Worker][i].msg \in Messages /\ inbox[Worker][i].attempt \in Nat
  BY CopiesInInbox, WorkerFacts
<1>8. JobsArePlaced'
  <2>1. \A d \in Consumers : \A i \in 1..Len(inbox'[d]) :
           inbox'[d][i].msg \in stream /\ d = ConsumerOf(inbox'[d][i].msg)
    <3>1. TAKE d \in Consumers
    <3>2. CASE d # c
      BY <1>4, <3>2 DEF JobsArePlaced
    <3>3. CASE d = c
      BY <1>1, <1>6, <3>3 DEF JobsArePlaced, c, copy
    <3>4. QED
      BY <3>2, <3>3
  <2>2. QED
    BY <1>1, <2>1 DEF JobsArePlaced, At
<1>9. LocalRuns' /\ RunsAreDelivered'
  BY <1>1, <1>4, ConsumersRun DEF LocalRuns, RunsAreDelivered, At
<1>10. CASE c # Worker
  <2>1. inbox'[Worker] = inbox[Worker] /\ m \notin Jobs
    BY <1>4, <1>10, WorkerFacts DEF c
  <2>2. \A i \in 1..Len(inbox[Worker]) : inbox[Worker][i].msg # m
    BY <1>10, WorkerFacts DEF JobsArePlaced, c
  <2>3. \A i \in 1..Len(inbox[Worker]) :
            deliveries'[inbox[Worker][i].msg] = deliveries[inbox[Worker][i].msg]
    BY <1>4, <1>7, <2>2
  <2>4. AttemptsGrow' /\ WaitingIsLater'
    BY <1>1, <2>1, <2>3 DEF AttemptsGrow, WaitingIsLater
  <2>5. TakenIsLater'
    BY <1>1, <1>4, <2>1, ConsumersRun DEF TakenIsLater
  <2>6. QED
    BY <1>8, <1>9, <2>4, <2>5
<1>11. CASE c = Worker
  <2>1. m \in Jobs
    BY <1>11, WorkerFacts DEF c
  <2>2. \A i \in 1..Len(inbox[Worker]) :
            inbox[Worker][i].msg = m => inbox[Worker][i].attempt < deliveries[m] + 1
    BY <1>7 DEF WaitingIsLater
  <2>3. AttemptsGrow'
    <3> SUFFICES ASSUME NEW i \in 1..Len(inbox'[Worker]), NEW k \in 1..Len(inbox'[Worker]),
                        i < k, inbox'[Worker][i].msg = inbox'[Worker][k].msg
                 PROVE  inbox'[Worker][i].attempt < inbox'[Worker][k].attempt
      BY DEF AttemptsGrow
    <3>1. i \in 1..Len(inbox[Worker]) /\ inbox'[Worker][i] = inbox[Worker][i]
      BY <1>5, <1>6, <1>11
    <3>2. CASE k \in 1..Len(inbox[Worker]) /\ inbox'[Worker][k] = inbox[Worker][k]
      BY <3>1, <3>2 DEF AttemptsGrow
    <3>3. CASE inbox'[Worker][k] = copy
      BY <1>1, <2>2, <3>1, <3>3 DEF copy
    <3>4. QED
      BY <1>6, <1>11, <3>2, <3>3
  <2>4. \A n \in Messages : /\ deliveries[n] \in Nat /\ deliveries'[n] \in Nat
                            /\ deliveries[n] <= deliveries'[n]
    BY <1>4, CountsAreNat
  <2>5. runs[m] < deliveries[m] + 1
    BY <1>1, <2>1, <2>4 DEF RunsAreDelivered
  <2>6. WaitingIsLater'
    <3> SUFFICES ASSUME NEW i \in 1..Len(inbox'[Worker])
                 PROVE  LET x == inbox'[Worker][i]
                        IN  /\ x.attempt <= deliveries'[x.msg]
                            /\ x.msg \in Jobs => runs[x.msg] < x.attempt
      BY <1>1 DEF WaitingIsLater
    <3>1. CASE i \in 1..Len(inbox[Worker]) /\ inbox'[Worker][i] = inbox[Worker][i]
      <4>1. inbox[Worker][i].msg \in Messages /\ inbox[Worker][i].attempt \in Nat
        BY <1>7, <3>1
      <4>2. QED
        BY <2>4, <3>1, <4>1 DEF WaitingIsLater
    <3>2. CASE inbox'[Worker][i] = copy
      BY <1>4, <2>4, <2>5, <3>2 DEF copy
    <3>3. QED
      BY <1>6, <1>11, <3>1, <3>2
  <2>7. TakenIsLater'
    <3> SUFFICES ASSUME task[Worker].at \in {"handling", "running"}, task[Worker].msg \in Jobs
                 PROVE  /\ task[Worker].attempt <= deliveries'[task[Worker].msg]
                        /\ runs[task[Worker].msg] < task[Worker].attempt
                        /\ \A i \in 1..Len(inbox'[Worker]) :
                              inbox'[Worker][i].msg = task[Worker].msg
                                => task[Worker].attempt < inbox'[Worker][i].attempt
      BY <1>1 DEF TakenIsLater
    <3>1. /\ task[Worker].attempt <= deliveries[task[Worker].msg]
          /\ runs[task[Worker].msg] < task[Worker].attempt
          /\ task[Worker].attempt \in Nat
      BY BusyHasMessage, WorkerFacts DEF TakenIsLater, At, Steps
    <3>2. task[Worker].attempt <= deliveries'[task[Worker].msg]
      BY <2>4, <3>1, ConsumersRun
    <3>3. \A i \in 1..Len(inbox'[Worker]) :
             inbox'[Worker][i].msg = task[Worker].msg
               => task[Worker].attempt < inbox'[Worker][i].attempt
      <4>1. task[Worker].attempt < deliveries[task[Worker].msg] + 1
        BY <2>4, <3>1, ConsumersRun
      <4>2. TAKE i \in 1..Len(inbox'[Worker])
      <4>3. CASE i \in 1..Len(inbox[Worker]) /\ inbox'[Worker][i] = inbox[Worker][i]
        BY <4>3 DEF TakenIsLater
      <4>4. CASE inbox'[Worker][i] = copy
        BY <4>1, <4>4 DEF copy
      <4>5. QED
        BY <1>6, <1>11, <4>2, <4>3, <4>4
    <3>4. QED
      BY <3>1, <3>2, <3>3
  <2>8. QED
    BY <1>8, <1>9, <2>3, <2>6, <2>7
<1>12. QED
  BY <1>10, <1>11
\* The taken copy was the first of the inbox, so its attempt is the lowest.
LEMMA TakeRuns == ASSUME RunsInv, NEW c \in Consumers, Take(c) PROVE RunsState'
<1> USE DEF RunsInv, RunsState, TypeInv
<1> DEFINE head == Head(inbox[c])
<1>1. /\ c \in Runners /\ inbox[c] # <<>> /\ inbox[c] \in Seq(Copy)
      /\ UNCHANGED <<accepted, stream, deliveries, runs>>
  BY ConsumersRun, CopiesInInbox DEF Take, serverVars, outcomeVars
<1>2. /\ task' = [task EXCEPT ![c] = [at |-> "handling", msg |-> head.msg, attempt |-> head.attempt]]
      /\ inbox' = [inbox EXCEPT ![c] = Tail(inbox[c])]
  BY DEF Take
<1> HIDE DEF head
<1>3. /\ task'[c] = [at |-> "handling", msg |-> head.msg, attempt |-> head.attempt]
      /\ \A r \in Runners : r # c => task'[r] = task[r]
      /\ inbox'[c] = Tail(inbox[c])
      /\ \A d \in Consumers : d # c => inbox'[d] = inbox[d]
  BY <1>1, <1>2 DEF TypeOK
<1>4. /\ Len(inbox[c]) \in Nat \ {0} /\ Len(inbox'[c]) = Len(inbox[c]) - 1
      /\ \A i \in 1..Len(inbox'[c]) : i + 1 \in 1..Len(inbox[c]) /\ inbox'[c][i] = inbox[c][i + 1]
      /\ head = inbox[c][1] /\ 1 \in 1..Len(inbox[c])
  <2>1. Len(inbox[c]) \in Nat \ {0} /\ head = inbox[c][1]
    BY <1>1, TailFacts DEF head
  <2>2. QED
    BY <1>1, <1>3, <2>1, TailFacts
<1>5. JobsArePlaced'
  <2>1. \A d \in Consumers : \A i \in 1..Len(inbox'[d]) :
           inbox'[d][i].msg \in stream /\ d = ConsumerOf(inbox'[d][i].msg)
    <3>1. TAKE d \in Consumers
    <3>2. CASE d # c
      BY <1>3, <3>2 DEF JobsArePlaced
    <3>3. CASE d = c
      BY <1>4, <3>3 DEF JobsArePlaced
    <3>4. QED
      BY <3>2, <3>3
  <2>2. \A d \in Consumers : task'[d].at # "idle" =>
           task'[d].msg \in stream /\ d = ConsumerOf(task'[d].msg)
    <3>1. TAKE d \in Consumers
    <3>2. CASE d # c
      BY <1>3, <3>2, ConsumersRun DEF JobsArePlaced, At
    <3>3. CASE d = c
      BY <1>3, <1>4, <3>3 DEF JobsArePlaced
    <3>4. QED
      BY <3>2, <3>3
  <2>3. \A j \in Jobs : task'[j] = task[j]
    BY <1>3, ConsumersRun, BusKinds
  <2>4. QED
    BY <1>1, <2>1, <2>2, <2>3 DEF JobsArePlaced, At
<1>6. LocalRuns' /\ RunsAreDelivered'
  <2>1. \A j \in Jobs : task'[j] = task[j]
    BY <1>3, ConsumersRun, BusKinds
  <2>2. QED
    BY <1>1, <2>1 DEF LocalRuns, RunsAreDelivered, At
<1>7. CASE c # Worker
  <2>1. inbox'[Worker] = inbox[Worker] /\ task'[Worker] = task[Worker]
    BY <1>3, <1>7, WorkerFacts
  <2>2. AttemptsGrow' /\ WaitingIsLater' /\ TakenIsLater'
    BY <1>1, <2>1 DEF AttemptsGrow, WaitingIsLater, TakenIsLater
  <2>3. QED
    BY <1>5, <1>6, <2>2
<1>8. CASE c = Worker
  <2>1. AttemptsGrow'
    <3> SUFFICES ASSUME NEW i \in 1..Len(inbox'[Worker]), NEW k \in 1..Len(inbox'[Worker]),
                        i < k, inbox'[Worker][i].msg = inbox'[Worker][k].msg
                 PROVE  inbox'[Worker][i].attempt < inbox'[Worker][k].attempt
      BY DEF AttemptsGrow
    <3>1. /\ i + 1 \in 1..Len(inbox[Worker]) /\ inbox'[Worker][i] = inbox[Worker][i + 1]
          /\ k + 1 \in 1..Len(inbox[Worker]) /\ inbox'[Worker][k] = inbox[Worker][k + 1]
          /\ i + 1 < k + 1
      BY <1>4, <1>8
    <3>2. QED
      BY <3>1 DEF AttemptsGrow
  <2>2. WaitingIsLater'
    BY <1>1, <1>4, <1>8 DEF WaitingIsLater
  <2>3. /\ head.attempt <= deliveries[head.msg]
        /\ head.msg \in Jobs => runs[head.msg] < head.attempt
    BY <1>4, <1>8 DEF WaitingIsLater
  <2>4. \A i \in 1..Len(inbox'[Worker]) :
           inbox'[Worker][i].msg = head.msg => head.attempt < inbox'[Worker][i].attempt
    <3>1. TAKE i \in 1..Len(inbox'[Worker])
    <3>2. i + 1 \in 1..Len(inbox[Worker]) /\ inbox'[Worker][i] = inbox[Worker][i + 1] /\ 1 < i + 1
      BY <1>4, <1>8
    <3>3. QED
      BY <1>4, <1>8, <3>2 DEF AttemptsGrow
  <2>5. TakenIsLater'
    BY <1>1, <1>3, <1>8, <2>3, <2>4 DEF TakenIsLater
  <2>6. QED
    BY <1>5, <1>6, <2>1, <2>2, <2>5
<1>9. QED
  BY <1>5, <1>6, <1>7, <1>8

\* A step of a task that is not an invocation keeps what RunsState says of it.
LEMMA QuietTaskRuns ==
  ASSUME RunsInv, UNCHANGED <<accepted, stream, deliveries, inbox, runs>>,
         NEW r \in Runners,
         \/ Finish(r)
         \/ /\ task[r].at \in {"handling", "recording"}
            /\ Goto(r, "settling") /\ r \notin Jobs
         \/ At(r, "handling") /\ Goto(r, "running")
  PROVE  RunsState'
<1> USE DEF RunsInv, RunsState, TypeInv
<1>1. /\ \A q \in Runners : q # r => task'[q] = task[q]
      /\ \/ task'[r].at = "idle"
         \/ /\ task[r].at # "idle" /\ task'[r].at = "settling" /\ r \notin Jobs
            /\ task'[r].msg = task[r].msg
         \/ /\ task[r].at = "handling" /\ task'[r].at = "running"
            /\ task'[r].msg = task[r].msg /\ task'[r].attempt = task[r].attempt
  BY GotoKeeps, FinishKeeps DEF At
<1>2. \A q \in Runners :
        /\ task'[q].at # "idle" => task[q].at # "idle" /\ task'[q].msg = task[q].msg
        /\ task'[q].at \in {"handling", "running"} =>
              /\ task[q].at \in {"handling", "running"} /\ task'[q].attempt = task[q].attempt
  BY <1>1
<1>3. \A j \in Jobs : task'[j] = task[j] \/ task'[j].at = "idle"
  BY <1>1, ConsumersRun DEF JobsArePlaced, At
<1>4. JobsArePlaced'
  BY <1>2, <1>3, ConsumersRun DEF JobsArePlaced, At
<1>5. LocalRuns' /\ RunsAreDelivered' /\ AttemptsGrow' /\ WaitingIsLater'
  BY <1>3 DEF LocalRuns, RunsAreDelivered, AttemptsGrow, WaitingIsLater, At
<1>6. TakenIsLater'
  BY <1>2, WorkerFacts DEF TakenIsLater
<1>7. QED
  BY <1>4, <1>5, <1>6

\* An invocation uses up its attempt.
LEMMA InvokeRuns == ASSUME RunsInv, NEW r \in Runners, Invoke(r) PROVE RunsState'
<1> USE DEF RunsInv, RunsState, TypeInv
<1> DEFINE m == task[r].msg
<1>1. /\ task[r].at = "running" /\ m \in Jobs /\ Goto(r, "recording")
      /\ runs' = [runs EXCEPT ![m] = runs[m] + 1]
      /\ UNCHANGED <<accepted, stream, deliveries, inbox>>
  BY DEF Invoke, At, JobsRun, serverVars
<1>2. /\ task'[r].at = "recording" /\ task'[r].msg = m
      /\ \A q \in Runners : q # r => task'[q] = task[q]
  BY <1>1, GotoKeeps
<1>3. /\ runs'[m] = runs[m] + 1 /\ runs[m] \in Nat
      /\ \A j \in Jobs : j # m => runs'[j] = runs[j]
      /\ \A j \in Jobs : runs[j] \in Nat
  BY <1>1, CountsAreNat DEF TypeOK
<1>4. r = Worker \/ r \in Jobs
  BY <1>1, WorkerFacts DEF JobsArePlaced, At, Runners
<1> HIDE DEF m
<1>5. JobsArePlaced'
  BY <1>1, <1>2, ConsumersRun DEF JobsArePlaced, At, m
<1>6. AttemptsGrow'
  BY <1>1 DEF AttemptsGrow
<1>7. CASE r = Worker
  <2>1. /\ task[r].attempt <= deliveries[m] /\ runs[m] < task[r].attempt /\ task[r].attempt \in Nat
        /\ \A i \in 1..Len(inbox[Worker]) : inbox[Worker][i].msg = m
                                            => task[r].attempt < inbox[Worker][i].attempt
    BY <1>1, <1>7, BusyHasMessage, WorkerFacts DEF TakenIsLater, m, At, Steps
  <2>2. m \in stream
    BY <1>1, <1>7, WorkerFacts DEF JobsArePlaced, At, m
  <2>3. \A j \in Jobs : task'[j] = task[j]
    BY <1>2, <1>7, WorkerFacts, ConsumersRun
  <2>4. LocalRuns'
    BY <1>1, <1>3, <2>2, <2>3 DEF LocalRuns, At
  <2>5. RunsAreDelivered'
    <3>1. runs[m] + 1 <= deliveries[m]
      BY <1>1, <1>3, <2>1, CountsAreNat, ConsumersRun
    <3>2. QED
      BY <1>1, <1>3, <2>2, <3>1 DEF RunsAreDelivered
  <2>6. WaitingIsLater'
    <3> SUFFICES ASSUME NEW i \in 1..Len(inbox[Worker])
                 PROVE  /\ inbox[Worker][i].attempt <= deliveries[inbox[Worker][i].msg]
                        /\ inbox[Worker][i].msg \in Jobs
                              => runs'[inbox[Worker][i].msg] < inbox[Worker][i].attempt
      BY <1>1 DEF WaitingIsLater
    <3>1. inbox[Worker][i].attempt \in Nat
      BY CopiesInInbox, WorkerFacts
    <3>2. CASE inbox[Worker][i].msg = m
      BY <1>3, <2>1, <3>1, <3>2 DEF WaitingIsLater
    <3>3. CASE inbox[Worker][i].msg # m
      BY <1>3, <3>3 DEF WaitingIsLater
    <3>4. QED
      BY <3>2, <3>3
  <2>7. TakenIsLater'
    BY <1>2, <1>7 DEF TakenIsLater
  <2>8. QED
    BY <1>5, <1>6, <2>4, <2>5, <2>6, <2>7
<1>8. CASE r \in Jobs
  <2>1. m = r /\ r \notin stream /\ r \in accepted /\ runs[r] = 0
    BY <1>1, <1>8 DEF JobsArePlaced, LocalRuns, At, m
  <2>2. task'[Worker] = task[Worker]
    BY <1>2, <1>8, WorkerFacts
  <2>3. LocalRuns' /\ RunsAreDelivered'
    BY <1>1, <1>2, <1>3, <1>8, <2>1, ConsumersRun DEF LocalRuns, RunsAreDelivered, At
  <2>4. WaitingIsLater'
    BY <1>1, <1>3, <2>1, WorkerFacts DEF WaitingIsLater, JobsArePlaced
  <2>5. task[Worker].at # "idle" => task[Worker].msg # m
    BY <2>1, WorkerFacts DEF JobsArePlaced, At
  <2>6. TakenIsLater'
    BY <1>1, <1>3, <2>2, <2>5 DEF TakenIsLater
  <2>7. QED
    BY <1>5, <1>6, <2>3, <2>4, <2>6
<1>9. QED
  BY <1>4, <1>7, <1>8

LEMMA RunsStep == ASSUME RunsInv, [Next]_vars PROVE RunsInv'
<1> USE DEF RunsInv
<1>0. TypeInv'
  BY TypeStep
<1>1. ASSUME UNCHANGED <<accepted, stream, deliveries, inbox, task, runs>> PROVE RunsState'
  BY <1>1 DEF RunsState, JobsArePlaced, LocalRuns, AttemptsGrow, WaitingIsLater, TakenIsLater,
              RunsAreDelivered, At
<1>2. ASSUME NEW m \in Messages, Expire(m) \/ Persist(m) PROVE RunsState'
  BY <1>1, <1>2 DEF Expire, Persist, serverVars, apiVars, outcomeVars
<1>3. ASSUME NEW c \in Consumers, Handle(c) \/ HandleFails(c) PROVE RunsState'
  <2>1. CASE Take(c)
    BY <2>1, TakeRuns
  <2>2. ASSUME ~Take(c)
        PROVE  /\ UNCHANGED <<accepted, stream, deliveries, inbox, runs>>
               /\ \/ Finish(c)
                  \/ At(c, "handling") /\ (Goto(c, "settling") \/ Goto(c, "running"))
    BY <1>3, <2>2 DEF Handle, HandleFails, Dispatch, Refuse, DeadLetter, StartJob, Settle,
                      DeadLetterFails, LookupFails, SettleFails, serverVars, outcomeVars
  <2>3. QED
    BY <2>1, <2>2, QuietTaskRuns, ConsumersRun, BusKinds DEF At
<1>4. ASSUME NEW r \in Runners, Run(r) \/ RecordFails(r) PROVE RunsState'
  <2>1. CASE Invoke(r)
    BY <2>1, InvokeRuns
  <2>2. CASE Record(r) \/ RecordFails(r)
    <3>1. /\ UNCHANGED <<accepted, stream, deliveries, inbox, runs>>
          /\ Finish(r) \/ (At(r, "recording") /\ Goto(r, "settling") /\ r \notin Jobs)
      BY <2>2 DEF Record, RecordFails, Recorded, serverVars
    <3>2. QED
      BY <3>1, QuietTaskRuns DEF At
  <2>3. QED
    BY <1>4, <2>1, <2>2 DEF Run
<1>5. ASSUME Crash PROVE RunsState'
  <2>1. /\ UNCHANGED <<accepted, stream, deliveries, runs>>
        /\ \A c \in Consumers : inbox'[c] = <<>>
        /\ \A r \in Runners : task'[r].at = "idle"
    BY <1>5 DEF Crash, Idle, serverVars, outcomeVars
  <2>2. \A c \in Consumers : Len(inbox'[c]) = 0
    BY <2>1
  <2>3. QED
    BY <2>1, <2>2, ConsumersRun, WorkerFacts
       DEF RunsState, JobsArePlaced, LocalRuns, AttemptsGrow, WaitingIsLater, TakenIsLater,
           RunsAreDelivered, At
<1>6. ASSUME Restart \/ RestartDisconnected PROVE RunsState'
  BY <1>1, <1>6 DEF Restart, RestartDisconnected, serverVars, apiVars, outcomeVars
<1>7. CASE UNCHANGED vars
  BY <1>0, <1>1, <1>7 DEF vars, serverVars, apiVars, outcomeVars
<1>8. QED
  BY <1>0, <1>2, <1>3, <1>4, <1>5, <1>6, <1>7, SendRuns, DeliverRuns DEF Next

\* A job runs no more often than it was delivered, so MaxDeliver times at most,
\* and once outside the stream: crashes, deadlines that pass while it runs and
\* lost acknowledgements repeat it within that bound.
THEOREM RunsBounded == Spec => []RunsAreDelivered
<1>1. Init => RunsInv
  <2> SUFFICES ASSUME Init PROVE RunsState
    BY InitTypes DEF RunsInv
  <2>1. /\ \A c \in Consumers : inbox[c] = <<>> /\ Len(inbox[c]) = 0
        /\ \A r \in Runners : task[r].at = "idle"
        /\ \A j \in Jobs : runs[j] = 0
        /\ \A m \in Messages : deliveries[m] = 0
        /\ stream = {} /\ accepted = {}
    BY ConsumersRun DEF Init, Idle
  <2>2. QED
    BY <2>1, ConsumersRun, WorkerFacts
       DEF RunsState, JobsArePlaced, LocalRuns, AttemptsGrow, WaitingIsLater, TakenIsLater,
           RunsAreDelivered, At
<1>2. RunsInv /\ [Next]_vars => RunsInv'
  BY RunsStep
<1>3. RunsInv => RunsAreDelivered
  BY DEF RunsInv, RunsState
<1>4. QED
  BY <1>1, <1>2, <1>3, PTL DEF Spec
=============================================================================
