-------------------------- MODULE CDCManagerProofs --------------------------
(***************************************************************************)
(* What holds of the listeners of a project for every number of handlers,  *)
(* functions, tables, listeners, changes and faults.                       *)
(***************************************************************************)
EXTENDS CDCManager, SequenceTheorems, TLAPS

LEMMA BoundsAreNat ==
  MaxListeners \in Nat /\ MaxChanges \in Nat /\ MaxFaults \in Nat
  BY CDCBounds

LEMMA QueueFacts ==
  /\ <<>> \in Seq(Change)
  /\ \A q \in Seq(Change), c \in Change :
        /\ Append(q, c) \in Seq(Change) /\ Append(q, c) # <<>>
        /\ \A i \in 1..Len(Append(q, c)) :
              \/ Append(q, c)[i] = c
              \/ i \in 1..Len(q) /\ Append(q, c)[i] = q[i]
        /\ q # <<>> => Head(Append(q, c)) = Head(q)
  /\ \A q \in Seq(Change) : q # <<>> =>
        /\ Head(q) \in Change /\ Tail(q) \in Seq(Change)
        /\ 1 \in 1..Len(q) /\ Head(q) = q[1]
        /\ \A i \in 1..Len(Tail(q)) : i + 1 \in 1..Len(q) /\ Tail(q)[i] = q[i + 1]
<1>1. <<>> \in Seq(Change)
  OBVIOUS
<1>2. ASSUME NEW q \in Seq(Change), NEW c \in Change
      PROVE  /\ Append(q, c) \in Seq(Change) /\ Append(q, c) # <<>>
             /\ \A i \in 1..Len(Append(q, c)) :
                  \/ Append(q, c)[i] = c
                  \/ i \in 1..Len(q) /\ Append(q, c)[i] = q[i]
             /\ q # <<>> => Head(Append(q, c)) = Head(q)
  <2>1. /\ Append(q, c) \in Seq(Change) /\ Append(q, c) # <<>>
        /\ \A i \in 1..Len(Append(q, c)) :
              \/ Append(q, c)[i] = c
              \/ i \in 1..Len(q) /\ Append(q, c)[i] = q[i]
    BY AppendProperties
  <2>2. q # <<>> => Append(q, c)[1] = q[1]
    BY AppendProperties, EmptySeq
  <2>3. QED
    BY <2>1, <2>2, HeadTailProperties
<1>3. ASSUME NEW q \in Seq(Change), q # <<>>
      PROVE  /\ Head(q) \in Change /\ Tail(q) \in Seq(Change)
             /\ 1 \in 1..Len(q) /\ Head(q) = q[1]
             /\ \A i \in 1..Len(Tail(q)) : i + 1 \in 1..Len(q) /\ Tail(q)[i] = q[i + 1]
  BY <1>3, HeadTailProperties
<1>4. QED
  BY <1>1, <1>2, <1>3

LEMMA WorkSteps ==
  ASSUME work \in [Handlers -> Work], NEW h \in Handlers
  PROVE  /\ Finish(h) => work' \in [Handlers -> Work]
         /\ \A p \in Points, s \in Subs : Begin(h, p, s) => work' \in [Handlers -> Work]
         /\ \A p \in Points :
              ~At(h, "idle") /\ ~At(h, "cancelling") /\ Goto(h, p) => work' \in [Handlers -> Work]
<1>1. Finish(h) => work' \in [Handlers -> Work]
  BY DEF Finish, Work
<1>2. \A p \in Points, s \in Subs : Begin(h, p, s) => work' \in [Handlers -> Work]
  BY DEF Begin, Work
<1>3. ASSUME NEW p \in Points, ~At(h, "idle"), ~At(h, "cancelling"), Goto(h, p)
      PROVE  work' \in [Handlers -> Work]
  <2>1. work[h] \in [at : Points, sub : Subs]
    BY <1>3 DEF At, Work, NoWork
  <2>2. [work[h] EXCEPT !.at = p] \in Work
    BY <1>3, <2>1 DEF Work
  <2>3. QED
    BY <1>3, <2>2 DEF Goto
<1>4. QED
  BY <1>1, <1>2, <1>3

LEMMA PointNames ==
  Points = {"subscribing", "dropped", "installed", "inserted", "deleted", "stopping"}
  BY DEF Points, SubscribePoints, UnsubscribePoints

\* A handler that is not idle works on a subscription, until it only has to cancel.
LEMMA BusyHandlers ==
  ASSUME work \in [Handlers -> Work], NEW h \in Handlers,
         ~At(h, "idle"), ~At(h, "cancelling")
  PROVE  work[h].sub \in Subs
  BY DEF Work, NoWork, At

LEMMA CancellingHandlers ==
  ASSUME work \in [Handlers -> Work], NEW h \in Handlers, At(h, "cancelling")
  PROVE  work[h].stopped \in Listeners
<1>1. "cancelling" \notin Points
  BY PointNames
<1>2. work[h] \in Work /\ work[h].at = "cancelling"
  BY DEF At
<1>3. work[h] \in [at : {"cancelling"}, stopped : Listeners]
  BY <1>1, <1>2 DEF Work, NoWork
<1>4. QED
  BY <1>3

\* Where a handler is after it moved, and that no other handler did.
LEMMA WorkMoves ==
  ASSUME work \in [Handlers -> Work], NEW h \in Handlers
  PROVE  /\ \A p : Goto(h, p) => /\ work'[h].at = p
                                 /\ \A k \in Handlers \ {h} : work'[k] = work[k]
         /\ Finish(h) => /\ work'[h].at = "idle"
                         /\ \A k \in Handlers \ {h} : work'[k] = work[k]
         /\ \A p, s : Begin(h, p, s) => /\ work'[h].at = p
                                        /\ \A k \in Handlers \ {h} : work'[k] = work[k]
<1>1. ASSUME NEW p PROVE [work[h] EXCEPT !.at = p].at = p
  <2>1. CASE work[h] = NoWork
    BY <2>1 DEF NoWork
  <2>2. CASE work[h] \in [at : Points, sub : Subs]
    BY <2>2
  <2>3. CASE work[h] \in [at : {"cancelling"}, stopped : Listeners]
    BY <2>3
  <2>4. QED
    BY <2>1, <2>2, <2>3 DEF Work
<1>2. \A p : Goto(h, p) => /\ work'[h].at = p
                           /\ \A k \in Handlers \ {h} : work'[k] = work[k]
  BY <1>1 DEF Goto
<1>3. QED
  BY <1>2 DEF Finish, Begin, NoWork

-----------------------------------------------------------------------------
(* Type correctness.                                                       *)

\* A listener handles a notification that is still at the head of its queue,
\* and a goroutine without a connection has no notifications.
QueuesFitPhases ==
    \A l \in Listeners :
        /\ phase[l] \in {"handling", "publishing"} => queue[l] # <<>>
        /\ phase[l] \notin {"listening", "handling", "publishing"} => queue[l] = <<>>

TypeInv == TypeOK /\ QueuesFitPhases

LEMMA TypeInvInit == Init => TypeInv
  BY BoundsAreNat DEF Init, TypeInv, TypeOK, QueuesFitPhases, Listeners, Phases, Work, Change

LEMMA StartTypes ==
  ASSUME TypeInv, StartListener
  PROVE  /\ listener' \in 0..MaxListeners /\ phase' \in [Listeners -> Phases]
         /\ cancelled' \subseteq Listeners /\ queue' \in [Listeners -> Seq(Change)]
         /\ found' \in [Listeners -> SUBSET Subs] /\ overtaken' \subseteq Listeners \X Listeners
         /\ QueuesFitPhases'
<1> USE DEF TypeInv, TypeOK
<1>1. CASE listener # 0
  BY <1>1 DEF StartListener, listenerVars, QueuesFitPhases
<1>2. CASE listener = 0
  <2>1. PICK l \in Listeners : /\ Started = 1..(l - 1) /\ listener' = l
                               /\ phase' = [phase EXCEPT ![l] = "connecting"]
                               /\ overtaken' = overtaken \cup (Uncancelled \X {l})
                               /\ UNCHANGED <<cancelled, queue, found>>
    BY <1>2 DEF StartListener
  <2>2. l \in 0..MaxListeners /\ l \notin 1..(l - 1)
    BY BoundsAreNat DEF Listeners
  <2>3. phase[l] = "unborn"
    BY <2>1, <2>2 DEF Started
  <2>4. QED
    BY <2>1, <2>2, <2>3 DEF QueuesFitPhases, Phases, Uncancelled
<1>3. QED
  BY <1>1, <1>2

LEMMA HandlerTypes ==
  ASSUME TypeInv, NEW h \in Handlers, Request(h) \/ HandlerStep(h) \/ StatementFails(h)
  PROVE  TypeInv'
<1> USE PointNames, WorkSteps DEF TypeInv, TypeOK
<1>1. ASSUME NEW s \in Subs, BeginSubscribe(h, s) \/ DeleteSubscription(h, s) PROVE TypeInv'
  BY <1>1 DEF BeginSubscribe, DeleteSubscription, listenerVars, changeVars, QueuesFitPhases
<1>2. ASSUME DropTrigger(h) \/ CreateTrigger(h) \/ InsertSubscription(h) PROVE TypeInv'
  <2>1. work' \in [Handlers -> Work] /\ ~At(h, "idle") /\ ~At(h, "cancelling")
    BY <1>2 DEF DropTrigger, CreateTrigger, InsertSubscription, At
  <2>2. work[h].sub \in Subs /\ TableOf(work[h].sub) \in Tables
    BY <2>1, BusyHandlers DEF Subs, TableOf
  <2>3. QED
    BY <1>2, <2>1, <2>2
    DEF DropTrigger, CreateTrigger, InsertSubscription, listenerVars, changeVars, QueuesFitPhases
<1>3. ASSUME EnsureListener(h) PROVE TypeInv'
  BY <1>3, StartTypes DEF EnsureListener, changeVars
<1>4. ASSUME ListRemaining(h) PROVE TypeInv'
  BY <1>4 DEF ListRemaining, At, listenerVars, changeVars, QueuesFitPhases
<1>5. ASSUME StopUnsubscribed(h) PROVE TypeInv'
  <2>1. work' \in [Handlers -> Work]
    <3>1. CASE listener = 0
      BY <1>5, <3>1 DEF StopUnsubscribed
    <3>2. CASE listener # 0
      <4>1. listener \in Listeners
        BY <3>2, BoundsAreNat DEF Listeners
      <4>2. [at |-> "cancelling", stopped |-> listener] \in Work
        BY <4>1 DEF Work
      <4>3. QED
        BY <1>5, <3>2, <4>2 DEF StopUnsubscribed
    <3>3. QED
      BY <3>1, <3>2
  <2>2. listener' \in 0..MaxListeners
    BY <1>5, BoundsAreNat DEF StopUnsubscribed
  <2>3. QED
    BY <1>5, <2>1, <2>2 DEF StopUnsubscribed, changeVars, QueuesFitPhases
<1>6. ASSUME StatementFails(h) PROVE TypeInv'
  BY <1>6, BoundsAreNat DEF StatementFails, Fault, At, listenerVars, changeVars, QueuesFitPhases
<1>7. ASSUME CancelStopped(h) PROVE TypeInv'
  <2>1. work[h].stopped \in Listeners
    BY <1>7, CancellingHandlers DEF CancelStopped
  <2>2. QED
    BY <1>7, <2>1 DEF CancelStopped, changeVars, QueuesFitPhases
<1>8. QED
  BY <1>1, <1>2, <1>3, <1>4, <1>5, <1>6, <1>7 DEF Request, HandlerStep, SubscribeStep, UnsubscribeStep

LEMMA ListenerTypes ==
  ASSUME TypeInv, NEW l \in Listeners, ListenerStep(l) \/ LookupFails(l) \/ ConnectionFails(l)
  PROVE  TypeInv'
<1> USE DEF TypeInv, TypeOK, Phases
<1>1. ASSUME Connect(l) \/ Retry(l) \/ Receive(l) \/ Exit(l) \/ ConnectionFails(l) PROVE TypeInv'
  <2>1. UNCHANGED <<subs, installed, up, listener, cancelled, found, overtaken, changeVars, work>>
    BY <1>1 DEF Connect, Retry, Receive, Exit, ConnectionFails
  <2>2. phase' \in [Listeners -> Phases] /\ queue' \in [Listeners -> Seq(Change)]
    <3>1. <<>> \in Seq(Change)
      BY QueueFacts
    <3>2. CASE Connect(l) \/ Retry(l) \/ Receive(l)
      BY <3>2 DEF Connect, Retry, Receive
    <3>3. CASE Exit(l) \/ ConnectionFails(l)
      BY <3>1, <3>3 DEF Exit, ConnectionFails
    <3>4. QED
      BY <1>1, <3>2, <3>3
  <2>3. QueuesFitPhases'
    <3>1. CASE Connect(l) \/ Retry(l)
      BY <3>1 DEF Connect, Retry, QueuesFitPhases
    <3>2. CASE Receive(l)
      BY <3>2 DEF Receive, QueuesFitPhases
    <3>3. CASE Exit(l) \/ ConnectionFails(l)
      BY <3>3 DEF Exit, ConnectionFails, QueuesFitPhases
    <3>4. QED
      BY <1>1, <3>1, <3>2, <3>3
  <2>4. faults' \in 0..MaxFaults
    BY <1>1, BoundsAreNat DEF Connect, Retry, Receive, Exit, ConnectionFails, Fault
  <2>5. QED
    BY <2>1, <2>2, <2>3, <2>4 DEF changeVars
<1>2. queue[l] \in Seq(Change)
  OBVIOUS
<1>3. ASSUME phase[l] \in {"handling", "publishing"}, NextNotification(l)
      PROVE  /\ phase' \in [Listeners -> Phases] /\ queue' \in [Listeners -> Seq(Change)]
             /\ QueuesFitPhases'
  <2>1. Tail(queue[l]) \in Seq(Change)
    BY <1>2, <1>3, QueueFacts DEF QueuesFitPhases
  <2>2. QED
    BY <1>3, <2>1 DEF NextNotification, QueuesFitPhases
<1>4. ASSUME Lookup(l) PROVE TypeInv'
  <2> DEFINE matching == IF l \in cancelled THEN {} ELSE Subscribed(Head(queue[l]))
  <2>1. matching \subseteq Subs
    BY DEF Subscribed
  <2> HIDE DEF matching
  <2>2. CASE matching = {}
    <3>1. NextNotification(l) /\ UNCHANGED found
      BY <1>4, <2>2 DEF Lookup, matching
    <3>2. QED
      BY <1>3, <1>4, <3>1 DEF Lookup, changeVars
  <2>3. CASE matching # {}
    <3>1. /\ found' = [found EXCEPT ![l] = matching] /\ UNCHANGED queue
          /\ phase' = [phase EXCEPT ![l] = "publishing"] /\ phase[l] = "handling"
      BY <1>4, <2>3 DEF Lookup, matching
    <3>2. found' \in [Listeners -> SUBSET Subs] /\ QueuesFitPhases'
      BY <2>1, <3>1 DEF QueuesFitPhases
    <3>3. QED
      BY <1>4, <3>1, <3>2 DEF Lookup, changeVars
  <2>4. QED
    BY <2>2, <2>3
<1>5. ASSUME Publish(l) PROVE TypeInv'
  <2>1. PICK s \in found[l] :
          /\ routed' = routed \cup {<<Head(queue[l]), s, l>>}
          /\ found' = [found EXCEPT ![l] = @ \ {s}]
          /\ IF found[l] = {s} THEN NextNotification(l) ELSE UNCHANGED <<queue, phase>>
    BY <1>5 DEF Publish
  <2>2. Head(queue[l]) \in Change /\ phase[l] = "publishing"
    BY <1>2, <1>5, QueueFacts DEF Publish, QueuesFitPhases
  <2>3. routed' \subseteq Change \X Subs \X Listeners /\ found' \in [Listeners -> SUBSET Subs]
    BY <2>1, <2>2
  <2>4. /\ phase' \in [Listeners -> Phases] /\ queue' \in [Listeners -> Seq(Change)]
        /\ QueuesFitPhases'
    <3>1. CASE NextNotification(l)
      BY <1>3, <2>2, <3>1
    <3>2. CASE UNCHANGED <<queue, phase>>
      BY <3>2 DEF QueuesFitPhases
    <3>3. QED
      BY <2>1, <3>1, <3>2
  <2>5. QED
    BY <1>5, <2>3, <2>4 DEF Publish
<1>6. ASSUME LookupFails(l) PROVE TypeInv'
  <2>1. faults' \in 0..MaxFaults
    <3>1. faults' = faults + 1 /\ faults < MaxFaults
      BY <1>6 DEF LookupFails, Fault
    <3>2. QED
      BY <3>1, BoundsAreNat
  <2>2. phase[l] = "handling" /\ NextNotification(l)
    BY <1>6 DEF LookupFails
  <2>3. QED
    BY <1>3, <1>6, <2>1, <2>2 DEF LookupFails, changeVars
<1>7. QED
  BY <1>1, <1>4, <1>5, <1>6 DEF ListenerStep

LEMMA TypeStep == ASSUME TypeInv, [Next]_vars PROVE TypeInv'
<1> USE DEF TypeInv, TypeOK
<1>1. ASSUME NEW t \in Tables, ChangeRow(t) PROVE TypeInv'
  <2> DEFINE change == [id |-> changes + 1, table |-> t]
  <2>1. changes + 1 \in 1..MaxChanges /\ change \in Change
    BY <1>1, BoundsAreNat DEF ChangeRow, Change
  <2>3. \A l \in Listeners : Append(queue[l], change) \in Seq(Change)
                             /\ Append(queue[l], change) # <<>>
    BY <2>1, QueueFacts
  <2>4. queue' \in [Listeners -> Seq(Change)] /\ QueuesFitPhases'
    <3> HIDE DEF change
    <3>1. queue' = [l \in Listeners |->
                      IF t \in installed /\ phase[l] \in {"listening", "handling", "publishing"}
                      THEN Append(queue[l], change) ELSE queue[l]] /\ UNCHANGED phase
      BY <1>1 DEF ChangeRow, change
    <3>2. QED
      BY <2>3, <3>1 DEF QueuesFitPhases
  <2>5. QED
    BY <1>1, <2>1, <2>4 DEF ChangeRow
<1>2. ASSUME Bootstrap PROVE TypeInv'
  BY <1>2, StartTypes DEF Bootstrap, listenerVars, changeVars, QueuesFitPhases
<1>3. ASSUME BootstrapFails PROVE TypeInv'
  BY <1>3, BoundsAreNat DEF BootstrapFails, Fault, listenerVars, changeVars, QueuesFitPhases
<1>4. ASSUME Crash PROVE TypeInv'
  <2>1. QueuesFitPhases'
    BY <1>4 DEF Crash, QueuesFitPhases
  <2>2. /\ phase' \in [Listeners -> Phases] /\ queue' \in [Listeners -> Seq(Change)]
        /\ found' \in [Listeners -> SUBSET Subs]
    BY <1>4, QueueFacts DEF Crash, Phases
  <2>3. work' \in [Handlers -> Work]
    <3>1. NoWork \in Work
      BY DEF Work
    <3>2. QED
      BY <1>4, <3>1 DEF Crash
  <2>4. listener' \in 0..MaxListeners /\ up' \in BOOLEAN /\ faults' \in 0..MaxFaults
    <3>1. listener' = 0 /\ faults' = faults + 1 /\ faults < MaxFaults
      BY <1>4 DEF Crash, Fault
    <3>2. listener' \in 0..MaxListeners /\ faults' \in 0..MaxFaults
      BY <3>1, BoundsAreNat
    <3>3. up' \in BOOLEAN
      BY <1>4 DEF Crash
    <3>4. QED
      BY <3>2, <3>3
  <2>5. QED
    BY <1>4, <2>1, <2>2, <2>3, <2>4 DEF Crash, changeVars
<1>5. CASE UNCHANGED vars
  BY <1>5 DEF vars, QueuesFitPhases
<1>6. QED
  BY <1>1, <1>2, <1>3, <1>4, <1>5, HandlerTypes, ListenerTypes DEF Next

\* The state of a project's change data capture always has its type.
THEOREM CDCTypeCorrect == Spec => []TypeOK
<1>1. TypeInv => TypeOK
  BY DEF TypeInv
<1>2. TypeInv /\ [Next]_vars => TypeInv'
  BY TypeStep
<1>3. QED
  BY <1>1, <1>2, TypeInvInit, PTL DEF Spec

-----------------------------------------------------------------------------
(* Every listener can be stopped, and one route for every change.          *)

Notified(c, l) == \E i \in 1..Len(queue[l]) : queue[l][i] = c
RoutedBy(c, l) == \E s \in Subs : <<c, s, l>> \in routed

\* The listener has routed the change, or found whom to route it to.
Claimed(c, l) == RoutedBy(c, l) \/ (phase[l] = "publishing" /\ Head(queue[l]) = c)

\* One of the two was started before the cancel of the other.
Overlapped(l, m) == {<<l, m>>, <<m, l>>} \cap overtaken # {}

\* The identifiers of the changes that listeners know are in the past.
KnownChangesArePast ==
    /\ \A l \in Listeners : \A i \in 1..Len(queue[l]) : queue[l][i].id <= changes
    /\ \A r \in routed : r[1].id <= changes

\* Two goroutines that nobody has cancelled overlap.
UncancelledOverlap == \A l, m \in Uncancelled : l # m => Overlapped(l, m)

\* A change that a listener claims is claimed by no other, and who else holds it
\* is cancelled, but for listeners that overlap.
ClaimsAreExclusive ==
    \A c \in Change : \A l, m \in Listeners :
        l # m /\ Claimed(c, l) =>
            /\ Claimed(c, m) => Overlapped(l, m)
            /\ Notified(c, m) => Overlapped(l, m) \/ m \in cancelled

ListenerInv ==
    /\ TypeInv
    /\ OneListener
    /\ KnownChangesArePast
    /\ UncancelledOverlap
    /\ ClaimsAreExclusive

LEMMA ListenerInvInit == Init => ListenerInv
<1> SUFFICES ASSUME Init PROVE ListenerInv
  OBVIOUS
<1>1. TypeInv
  BY TypeInvInit
<1>2. Uncancelled = {}
  BY DEF Init, Uncancelled, Alive
<1>3. \A l \in Listeners : Len(queue[l]) = 0
  BY DEF Init
<1>4. KnownChangesArePast /\ ClaimsAreExclusive
  BY <1>3 DEF Init, KnownChangesArePast, ClaimsAreExclusive, Claimed, RoutedBy
<1>5. QED
  BY <1>1, <1>2, <1>4 DEF ListenerInv, OneListener, UncancelledOverlap

LEMMA ClaimsGiveRoutedOnce == ListenerInv => RoutedOnce
<1> SUFFICES ASSUME ListenerInv, NEW r \in routed, NEW q \in routed, r[1] = q[1], r[3] # q[3]
             PROVE  {<<r[3], q[3]>>, <<q[3], r[3]>>} \cap overtaken # {}
  BY DEF RoutedOnce
<1>1. /\ r = <<r[1], r[2], r[3]>> /\ r[1] \in Change /\ r[2] \in Subs /\ r[3] \in Listeners
      /\ q = <<q[1], q[2], q[3]>> /\ q[2] \in Subs /\ q[3] \in Listeners
  BY DEF ListenerInv, TypeInv, TypeOK
<1>2. Claimed(r[1], r[3]) /\ Claimed(r[1], q[3])
  BY <1>1 DEF Claimed, RoutedBy
<1>3. QED
  BY <1>1, <1>2 DEF ListenerInv, ClaimsAreExclusive, Overlapped

\* Queues keep or lose notifications in a step that claims nothing new and cancels
\* no less: what the invariant says of routes comes along.
LEMMA QuietStepKeepsRoutes ==
  ASSUME ListenerInv, TypeInv', UNCHANGED <<changes, routed>>,
         cancelled \subseteq cancelled', overtaken \subseteq overtaken',
         \A l \in Listeners : /\ queue'[l] = queue[l] \/ queue'[l] = <<>>
                              /\ phase'[l] = "publishing" =>
                                    phase[l] = "publishing" /\ queue'[l] = queue[l]
  PROVE  KnownChangesArePast' /\ ClaimsAreExclusive'
<1>1. \A l \in Listeners : \A i \in 1..Len(queue'[l]) :
        i \in 1..Len(queue[l]) /\ queue'[l][i] = queue[l][i]
  <2>1. Len(<<>>) = 0
    OBVIOUS
  <2>2. QED
    BY <2>1
<1>2. KnownChangesArePast'
  BY <1>1 DEF ListenerInv, KnownChangesArePast
<1>3. \A c \in Change, l \in Listeners :
        (Claimed(c, l)' => Claimed(c, l)) /\ (Notified(c, l)' => Notified(c, l))
  BY <1>1 DEF Claimed, RoutedBy, Notified
<1>4. \A l, m \in Listeners : Overlapped(l, m) => Overlapped(l, m)'
  BY DEF Overlapped
<1>5. ClaimsAreExclusive'
  BY <1>3, <1>4 DEF ListenerInv, ClaimsAreExclusive
<1>6. QED
  BY <1>2, <1>5

\* Fewer goroutines at large, and nothing forgotten of who overtook whom.
LEMMA FewerOverlap ==
  ASSUME UncancelledOverlap, Uncancelled' \subseteq Uncancelled, overtaken \subseteq overtaken'
  PROVE  UncancelledOverlap'
  BY DEF UncancelledOverlap, Overlapped

\* Ensure starts a goroutine beside those that are about to be cancelled.
LEMMA StartKeeps ==
  ASSUME ListenerInv, TypeInv', StartListener, UNCHANGED changeVars,
         \A g \in Handlers : At(g, "cancelling") => work'[g] = work[g]
  PROVE  ListenerInv'
<1>1. CASE listener # 0
  <2>1. UNCHANGED listenerVars
    BY <1>1 DEF StartListener
  <2>2. KnownChangesArePast' /\ ClaimsAreExclusive'
    BY <2>1, QuietStepKeepsRoutes DEF listenerVars, changeVars
  <2>3. UNCHANGED Uncancelled
    BY <2>1 DEF listenerVars, Uncancelled, Alive
  <2>4. OneListener' /\ UncancelledOverlap'
    BY <2>1, <2>3, FewerOverlap DEF ListenerInv, listenerVars, OneListener, At
  <2>5. QED
    BY <2>2, <2>4 DEF ListenerInv
<1>2. CASE listener = 0
  <2>1. PICK l \in Listeners : /\ Started = 1..(l - 1) /\ listener' = l
                               /\ phase' = [phase EXCEPT ![l] = "connecting"]
                               /\ overtaken' = overtaken \cup (Uncancelled \X {l})
                               /\ UNCHANGED <<cancelled, queue, found>>
    BY <1>2 DEF StartListener
  <2>2. \A m \in Listeners : m # 0
    BY BoundsAreNat DEF Listeners
  <2>3. Uncancelled' \subseteq Uncancelled \cup {l}
    BY <2>1 DEF Uncancelled, Alive, ListenerInv, TypeInv, TypeOK
  <2>4. OneListener'
    <3>1. ASSUME NEW m \in Uncancelled
          PROVE  (\E h \in Handlers : At(h, "cancelling") /\ work[h].stopped = m)'
      <4>1. m \in Listeners
        BY DEF Uncancelled
      <4>2. PICK h \in Handlers : At(h, "cancelling") /\ work[h].stopped = m
        BY <1>2, <2>2, <4>1 DEF ListenerInv, OneListener
      <4>3. QED
        BY <4>2 DEF At
    <3>2. QED
      BY <2>1, <2>3, <3>1 DEF OneListener
  <2>5. UncancelledOverlap'
    <3>1. overtaken \subseteq overtaken' /\ \A m \in Uncancelled : <<m, l>> \in overtaken'
      BY <2>1
    <3>2. \A k, m : Overlapped(k, m) => Overlapped(k, m)'
      BY <3>1 DEF Overlapped
    <3>3. \A m \in Uncancelled : Overlapped(m, l)' /\ Overlapped(l, m)'
      BY <3>1 DEF Overlapped
    <3>4. QED
      BY <2>3, <3>2, <3>3 DEF UncancelledOverlap, ListenerInv
  <2>6. KnownChangesArePast' /\ ClaimsAreExclusive'
    BY <2>1, QuietStepKeepsRoutes DEF changeVars, ListenerInv, TypeInv, TypeOK
  <2>7. QED
    BY <2>4, <2>5, <2>6 DEF ListenerInv
<1>3. QED
  BY <1>1, <1>2

\* A change that is committed is known to nobody, and the listeners it is queued
\* for have not seen it.
LEMMA ChangeKeepsRoutes ==
  ASSUME ListenerInv, TypeInv', NEW t \in Tables, ChangeRow(t)
  PROVE  ListenerInv'
<1> DEFINE change == [id |-> changes + 1, table |-> t]
<1>1. changes \in Nat /\ change \in Change /\ change.id = changes + 1 /\ changes' = changes + 1
  BY BoundsAreNat DEF ListenerInv, TypeInv, TypeOK, ChangeRow, Change
<1>2. \A l \in Listeners : queue'[l] \in {queue[l], Append(queue[l], change)}
  BY DEF ChangeRow
<1>3. UNCHANGED <<routed, cancelled, phase, listener, overtaken, work>>
  BY DEF ChangeRow
<1> HIDE DEF change
<1>4. \A l \in Listeners : queue[l] \in Seq(Change)
  BY DEF ListenerInv, TypeInv, TypeOK
<1>5. \A l \in Listeners : \A i \in 1..Len(queue'[l]) :
        \/ queue'[l][i] = change
        \/ i \in 1..Len(queue[l]) /\ queue'[l][i] = queue[l][i]
  <2>1. ASSUME NEW l \in Listeners, NEW i \in 1..Len(queue'[l])
        PROVE  queue'[l][i] = change \/ (i \in 1..Len(queue[l]) /\ queue'[l][i] = queue[l][i])
    <3>1. CASE queue'[l] = queue[l]
      BY <3>1
    <3>2. CASE queue'[l] = Append(queue[l], change)
      <4>1. i \in 1..Len(Append(queue[l], change))
        BY <3>2
      <4>2. QED
        BY <1>1, <1>4, <3>2, <4>1, QueueFacts
    <3>3. QED
      BY <1>2, <3>1, <3>2
  <2>2. QED
    BY <2>1
<1>6. KnownChangesArePast'
  <2>1. ASSUME NEW l \in Listeners, NEW i \in 1..Len(queue'[l]) PROVE queue'[l][i].id <= changes'
    <3>1. CASE queue'[l][i] = change
      BY <1>1, <3>1
    <3>2. CASE i \in 1..Len(queue[l]) /\ queue'[l][i] = queue[l][i]
      <4>1. queue[l][i].id <= changes /\ queue[l][i] \in Change
        BY <3>2 DEF ListenerInv, KnownChangesArePast, TypeInv, TypeOK
      <4>2. queue[l][i].id \in Nat
        BY <4>1 DEF Change
      <4>3. QED
        BY <1>1, <3>2, <4>1, <4>2
    <3>3. QED
      BY <1>5, <3>1, <3>2
  <2>2. ASSUME NEW r \in routed PROVE r[1].id <= changes'
    <3>1. r[1].id <= changes /\ r[1] \in Change
      BY DEF ListenerInv, KnownChangesArePast, TypeInv, TypeOK
    <3>2. r[1].id \in Nat
      BY <3>1 DEF Change
    <3>3. QED
      BY <1>1, <3>1, <3>2
  <2>3. QED
    BY <1>3, <2>1, <2>2 DEF KnownChangesArePast
<1>7. \A c \in Change, l \in Listeners : Claimed(c, l)' => Claimed(c, l) /\ c.id <= changes
  <2> SUFFICES ASSUME NEW c \in Change, NEW l \in Listeners, Claimed(c, l)'
               PROVE  Claimed(c, l) /\ c.id <= changes
    OBVIOUS
  <2>1. CASE RoutedBy(c, l)'
    <3>1. RoutedBy(c, l)
      BY <1>3, <2>1 DEF RoutedBy
    <3>2. QED
      BY <3>1 DEF Claimed, RoutedBy, ListenerInv, KnownChangesArePast
  <2>2. CASE phase[l] = "publishing" /\ Head(queue'[l]) = c
    <3>1. queue[l] # <<>>
      BY <2>2 DEF ListenerInv, TypeInv, QueuesFitPhases
    <3>2. Head(queue[l]) = c
      BY <1>1, <1>2, <1>4, <2>2, <3>1, QueueFacts
    <3>3. 1 \in 1..Len(queue[l]) /\ queue[l][1] = c
      BY <1>4, <3>1, <3>2, QueueFacts
    <3>4. QED
      BY <2>2, <3>2, <3>3 DEF Claimed, ListenerInv, KnownChangesArePast
  <2>3. QED
    BY <1>3, <2>1, <2>2 DEF Claimed
<1>8. ClaimsAreExclusive'
  <2> SUFFICES ASSUME NEW c \in Change, NEW l \in Listeners, NEW m \in Listeners, l # m,
                      Claimed(c, l)'
               PROVE  /\ Claimed(c, m)' => Overlapped(l, m)
                      /\ Notified(c, m)' => Overlapped(l, m) \/ m \in cancelled
    BY <1>3 DEF ClaimsAreExclusive, Overlapped
  <2>1. Claimed(c, l) /\ c # change
    BY <1>1, <1>7
  <2>2. Notified(c, m)' => Notified(c, m)
    BY <1>5, <2>1 DEF Notified
  <2>3. QED
    BY <1>7, <2>1, <2>2 DEF ListenerInv, ClaimsAreExclusive
<1>9. OneListener' /\ UncancelledOverlap'
  BY <1>3 DEF ListenerInv, OneListener, UncancelledOverlap, Uncancelled, Overlapped, Alive, At
<1>10. QED
  BY <1>6, <1>8, <1>9 DEF ListenerInv

\* A step of a listener from a lookup on: it may claim the change at the head of its
\* queue while it is not cancelled, and lets go of none that others hold.
LEMMA RouteKeepsRoutes ==
  ASSUME ListenerInv, TypeInv', NEW l \in Listeners, Lookup(l) \/ Publish(l) \/ LookupFails(l)
  PROVE  ListenerInv'
<1> DEFINE change == Head(queue[l])
<1>1. /\ queue[l] \in Seq(Change) /\ queue[l] # <<>>
      /\ phase[l] \in {"handling", "publishing"}
  BY DEF ListenerInv, TypeInv, TypeOK, QueuesFitPhases, Lookup, Publish, LookupFails
<1>2. change \in Change /\ Notified(change, l)
  BY <1>1, QueueFacts DEF Notified
<1>3. UNCHANGED <<cancelled, changes, listener, overtaken, work>>
  BY DEF Lookup, Publish, LookupFails, changeVars
<1>4. /\ \A m \in Listeners \ {l} : phase'[m] = phase[m] /\ queue'[m] = queue[m]
      /\ \/ phase'[l] = "listening" /\ queue'[l] = Tail(queue[l])
         \/ phase'[l] = "publishing" /\ queue'[l] = queue[l]
  BY DEF Lookup, Publish, LookupFails, NextNotification, ListenerInv, TypeInv, TypeOK
<1>5. /\ \A r \in routed' \ routed :
            r[1] = change /\ r[3] = l /\ r[2] \in Subs /\ phase[l] = "publishing"
      /\ phase'[l] = "publishing" => phase[l] = "publishing" \/ l \notin cancelled
  <2>1. CASE Lookup(l)
    BY <2>1 DEF Lookup, NextNotification, changeVars, ListenerInv, TypeInv, TypeOK
  <2>2. CASE Publish(l)
    BY <2>2 DEF Publish, ListenerInv, TypeInv, TypeOK
  <2>3. CASE LookupFails(l)
    BY <2>3 DEF LookupFails, NextNotification, changeVars, ListenerInv, TypeInv, TypeOK
  <2>4. QED
    BY <2>1, <2>2, <2>3
<1> HIDE DEF change
<1>6. \A m \in Listeners, c \in Change : Notified(c, m)' => Notified(c, m)
  <2>1. \A i \in 1..Len(Tail(queue[l])) :
          i + 1 \in 1..Len(queue[l]) /\ Tail(queue[l])[i] = queue[l][i + 1]
    BY <1>1, QueueFacts
  <2>2. \A c \in Change : Notified(c, l)' => Notified(c, l)
    BY <1>4, <2>1 DEF Notified
  <2>3. \A m \in Listeners \ {l}, c \in Change : Notified(c, m)' => Notified(c, m)
    BY <1>4 DEF Notified
  <2>4. QED
    BY <2>2, <2>3
<1>7. \A m \in Listeners, c \in Change :
        Claimed(c, m)' => \/ Claimed(c, m)
                          \/ m = l /\ c = change /\ l \notin cancelled
  <2> SUFFICES ASSUME NEW m \in Listeners, NEW c \in Change, Claimed(c, m)'
               PROVE  Claimed(c, m) \/ (m = l /\ c = change /\ l \notin cancelled)
    OBVIOUS
  <2>1. CASE RoutedBy(c, m)'
    <3>1. RoutedBy(c, m) \/ (m = l /\ c = change /\ phase[l] = "publishing")
      BY <1>5, <2>1 DEF RoutedBy
    <3>2. QED
      BY <3>1 DEF Claimed, change
  <2>2. CASE phase'[m] = "publishing" /\ Head(queue'[m]) = c
    <3>1. CASE m # l
      BY <1>4, <2>2, <3>1 DEF Claimed
    <3>2. CASE m = l
      BY <1>4, <1>5, <2>2, <3>2 DEF Claimed, change
    <3>3. QED
      BY <3>1, <3>2
  <2>3. QED
    BY <2>1, <2>2 DEF Claimed
<1>8. Alive(l) /\ \A m \in Listeners, c \in Change : Notified(c, m) => Alive(m)
  <2>1. \A m \in Listeners, c \in Change : Notified(c, m) => queue[m] # <<>>
    BY DEF Notified
  <2>2. QED
    BY <1>1, <2>1 DEF ListenerInv, TypeInv, QueuesFitPhases, Alive
<1>9. KnownChangesArePast'
  <2>1. \A m \in Listeners, c \in Change : Notified(c, m) => c.id <= changes
    BY DEF ListenerInv, KnownChangesArePast, Notified
  <2>2. \A m \in Listeners : \A i \in 1..Len(queue'[m]) : queue'[m][i] \in Change
    BY DEF TypeInv, TypeOK
  <2>3. \A m \in Listeners : \A i \in 1..Len(queue'[m]) : queue'[m][i].id <= changes
    BY <1>6, <2>1, <2>2 DEF Notified
  <2>4. \A r \in routed' : r[1].id <= changes
    BY <1>2, <1>5, <2>1 DEF ListenerInv, KnownChangesArePast
  <2>5. QED
    BY <1>3, <2>3, <2>4 DEF KnownChangesArePast
<1>10. ClaimsAreExclusive'
  <2>1. \A m \in Listeners : m # l /\ l \notin cancelled =>
          /\ Claimed(change, m) => Overlapped(m, l)
          /\ Notified(change, m) => Overlapped(l, m) \/ m \in cancelled
    <3> SUFFICES ASSUME NEW m \in Listeners, m # l, l \notin cancelled
                 PROVE  /\ Claimed(change, m) => Overlapped(m, l)
                        /\ Notified(change, m) => Overlapped(l, m) \/ m \in cancelled
      OBVIOUS
    <3>1. Claimed(change, m) => Overlapped(m, l)
      BY <1>2 DEF ListenerInv, ClaimsAreExclusive
    <3>2. Notified(change, m) /\ m \notin cancelled => Overlapped(l, m)
      BY <1>2, <1>8 DEF ListenerInv, UncancelledOverlap, Uncancelled
    <3>3. QED
      BY <3>1, <3>2
  <2>2. \A k, m \in Listeners : Overlapped(k, m) => Overlapped(m, k)
    BY DEF Overlapped
  <2> SUFFICES ASSUME NEW c \in Change, NEW k \in Listeners, NEW m \in Listeners, k # m,
                      Claimed(c, k)'
               PROVE  /\ Claimed(c, m)' => Overlapped(k, m)
                      /\ Notified(c, m)' => Overlapped(k, m) \/ m \in cancelled
    BY <1>3 DEF ClaimsAreExclusive, Overlapped
  <2>3. CASE Claimed(c, k)
    <3>1. /\ Claimed(c, m) => Overlapped(k, m)
          /\ Notified(c, m) => Overlapped(k, m) \/ m \in cancelled
      BY <2>3 DEF ListenerInv, ClaimsAreExclusive
    <3>2. m = l /\ c = change /\ l \notin cancelled => Overlapped(k, m)
      BY <2>1, <2>3
    <3>3. QED
      BY <1>6, <1>7, <3>1, <3>2
  <2>4. CASE k = l /\ c = change /\ l \notin cancelled
    <3>1. Claimed(c, m)' => Claimed(c, m)
      BY <1>7, <2>4
    <3>2. QED
      BY <1>6, <2>1, <2>2, <2>4, <3>1
  <2>5. QED
    BY <1>7, <2>3, <2>4
<1>11. OneListener' /\ UncancelledOverlap'
  <2>1. Uncancelled' \subseteq Uncancelled
    BY <1>1, <1>3, <1>4 DEF Uncancelled, Alive
  <2>2. QED
    BY <1>3, <2>1, FewerOverlap DEF ListenerInv, OneListener, At
<1>12. QED
  BY <1>9, <1>10, <1>11 DEF ListenerInv

LEMMA ListenerStepKeeps ==
  ASSUME ListenerInv, TypeInv', NEW l \in Listeners,
         Connect(l) \/ Retry(l) \/ Receive(l) \/ Exit(l) \/ ConnectionFails(l)
  PROVE  ListenerInv'
<1> USE DEF TypeInv, TypeOK
<1>1. UNCHANGED <<changes, routed, cancelled, listener, overtaken, work>>
  BY DEF Connect, Retry, Receive, Exit, ConnectionFails, changeVars
<1>2. \A m \in Listeners : /\ queue'[m] = queue[m] \/ queue'[m] = <<>>
                           /\ phase'[m] = "publishing" =>
                                phase[m] = "publishing" /\ queue'[m] = queue[m]
  BY DEF Connect, Retry, Receive, Exit, ConnectionFails, ListenerInv
<1>3. \A m \in Listeners : Alive(m)' => Alive(m)
  BY DEF Connect, Retry, Receive, Exit, ConnectionFails, Alive, ListenerInv
<1>4. Uncancelled' \subseteq Uncancelled
  BY <1>1, <1>3 DEF Uncancelled
<1>5. OneListener' /\ UncancelledOverlap'
  BY <1>1, <1>4, FewerOverlap DEF OneListener, At, ListenerInv
<1>6. KnownChangesArePast' /\ ClaimsAreExclusive'
  BY <1>1, <1>2, QuietStepKeepsRoutes
<1>7. QED
  BY <1>5, <1>6 DEF ListenerInv

\* A step that leaves the goroutines alone: the Manager's entry may move into the
\* hands of a request that will cancel it, and no such request forgets it.
LEMMA HandlerStepKeeps ==
  ASSUME ListenerInv, TypeInv', NEW h \in Handlers,
         Request(h) \/ HandlerStep(h) \/ StatementFails(h)
  PROVE  ListenerInv'
<1> USE DEF ListenerInv
<1>1. work \in [Handlers -> Work]
  BY DEF TypeInv, TypeOK
<1>2. \A g \in Handlers \ {h} : work'[g] = work[g]
  BY <1>1 DEF Request, BeginSubscribe, DeleteSubscription, HandlerStep, SubscribeStep,
              UnsubscribeStep, DropTrigger, CreateTrigger, InsertSubscription, EnsureListener,
              ListRemaining, StopUnsubscribed, CancelStopped, StatementFails, Begin, Goto, Finish
<1>3. ASSUME UNCHANGED <<phase, queue, found, overtaken, changeVars>>, cancelled \subseteq cancelled'
      PROVE  KnownChangesArePast' /\ ClaimsAreExclusive' /\ UncancelledOverlap'
  <2>1. Uncancelled' \subseteq Uncancelled
    BY <1>3 DEF Uncancelled, Alive
  <2>2. QED
    BY <1>3, <2>1, QuietStepKeepsRoutes, FewerOverlap DEF changeVars
<1>4. CASE Request(h) \/ StatementFails(h) \/ DropTrigger(h) \/ CreateTrigger(h)
           \/ InsertSubscription(h) \/ ListRemaining(h)
  <2>1. UNCHANGED <<listenerVars, changeVars>> /\ ~At(h, "cancelling")
    BY <1>4 DEF Request, BeginSubscribe, DeleteSubscription, StatementFails, DropTrigger,
                CreateTrigger, InsertSubscription, ListRemaining, At
  <2>2. OneListener'
    BY <1>2, <2>1 DEF OneListener, listenerVars, Uncancelled, Alive, At
  <2>3. QED
    BY <1>3, <2>1, <2>2 DEF listenerVars
<1>5. CASE EnsureListener(h)
  <2>1. ~At(h, "cancelling") /\ StartListener /\ UNCHANGED changeVars
    BY <1>5 DEF EnsureListener, At
  <2>2. QED
    BY <1>2, <2>1, StartKeeps
<1>6. CASE StopUnsubscribed(h)
  <2>1. /\ UNCHANGED <<phase, cancelled, queue, found, overtaken, changeVars>>
        /\ ~At(h, "cancelling")
    BY <1>6 DEF StopUnsubscribed, At
  <2>2. listener # 0 => At(h, "cancelling")' /\ work'[h].stopped = listener
    BY <1>1, <1>6 DEF StopUnsubscribed, At
  <2>3. 0 \notin Listeners
    BY BoundsAreNat DEF Listeners
  <2>4. OneListener'
    BY <1>2, <2>1, <2>2, <2>3 DEF OneListener, Uncancelled, Alive, At
  <2>5. QED
    BY <1>3, <2>1, <2>4
<1>7. CASE CancelStopped(h)
  <2>1. /\ UNCHANGED <<phase, listener, queue, found, overtaken, changeVars>>
        /\ cancelled' = cancelled \cup {work[h].stopped}
    BY <1>7 DEF CancelStopped
  <2>2. OneListener'
    BY <1>2, <2>1 DEF OneListener, Uncancelled, Alive, At
  <2>3. QED
    BY <1>3, <2>1, <2>2
<1>8. QED
  BY <1>4, <1>5, <1>6, <1>7 DEF HandlerStep, SubscribeStep, UnsubscribeStep

LEMMA ListenerInvStep == ASSUME ListenerInv, [Next]_vars PROVE ListenerInv'
<1>1. TypeInv'
  BY TypeStep DEF ListenerInv
<1>2. ASSUME UNCHANGED <<listenerVars, changeVars, work>> PROVE ListenerInv'
  <2>1. OneListener'
    BY <1>2 DEF listenerVars, ListenerInv, OneListener, Uncancelled, Alive, At
  <2>2. UncancelledOverlap'
    BY <1>2 DEF listenerVars, ListenerInv, UncancelledOverlap, Uncancelled, Overlapped, Alive
  <2>3. KnownChangesArePast' /\ ClaimsAreExclusive'
    BY <1>1, <1>2, QuietStepKeepsRoutes DEF listenerVars, changeVars
  <2>4. QED
    BY <1>1, <2>1, <2>2, <2>3 DEF ListenerInv
<1>3. CASE Bootstrap
  <2>1. UNCHANGED <<changeVars, work>> /\ (UNCHANGED listenerVars \/ StartListener)
    BY <1>3 DEF Bootstrap
  <2>2. QED
    BY <1>1, <1>2, <2>1, StartKeeps
<1>4. CASE BootstrapFails \/ UNCHANGED vars
  BY <1>2, <1>4 DEF BootstrapFails, vars, listenerVars, changeVars
<1>5. CASE Crash
  <2>1. Uncancelled' = {}
    BY <1>5 DEF Crash, Uncancelled, Alive
  <2>2. OneListener' /\ UncancelledOverlap'
    BY <2>1 DEF OneListener, UncancelledOverlap
  <2>3. UNCHANGED <<changes, routed, cancelled, overtaken>>
    BY <1>5 DEF Crash, changeVars
  <2>4. \A l \in Listeners : queue'[l] = <<>> /\ phase'[l] # "publishing"
    BY <1>5 DEF Crash
  <2>5. KnownChangesArePast' /\ ClaimsAreExclusive'
    BY <1>1, <2>3, <2>4, QuietStepKeepsRoutes
  <2>6. QED
    BY <1>1, <2>2, <2>5 DEF ListenerInv
<1>6. QED
  BY <1>1, <1>3, <1>4, <1>5, ChangeKeepsRoutes, RouteKeepsRoutes, ListenerStepKeeps,
     HandlerStepKeeps
  DEF Next, ListenerStep

\* However subscriptions, the two halves of a stop, restarts and failing connections
\* interleave, a listener at work is the Manager's entry or about to be cancelled:
\* none gets out of reach.
THEOREM AlwaysOneListener == Spec => []OneListener
<1>1. ListenerInv => OneListener
  BY DEF ListenerInv
<1>2. ListenerInv /\ [Next]_vars => ListenerInv'
  BY ListenerInvStep
<1>3. QED
  BY <1>1, <1>2, ListenerInvInit, PTL DEF Spec

\* A row change never reaches a subscription's function through two listeners,
\* unless one of them was started before the cancel of the other.
THEOREM ChangesRouteOnce == Spec => []RoutedOnce
<1>1. ListenerInv => RoutedOnce
  BY ClaimsGiveRoutedOnce
<1>2. ListenerInv /\ [Next]_vars => ListenerInv'
  BY ListenerInvStep
<1>3. QED
  BY <1>1, <1>2, ListenerInvInit, PTL DEF Spec

-----------------------------------------------------------------------------
(* Subscribed tables keep their trigger.                                   *)

HasTrigger(t) == t \in installed \/ \E h \in Handlers : At(h, "dropped") /\ TableOf(work[h].sub) = t

\* A handler that is about to insert its subscription has left the trigger there,
\* or another handler is about to create it again.
NotifyInv ==
    /\ TypeInv
    /\ \A s \in subs : HasTrigger(TableOf(s))
    /\ \A h \in Handlers : At(h, "installed") => HasTrigger(TableOf(work[h].sub))

\* Steps that leave handlers, triggers and subscriptions alone, or only take
\* subscriptions away.
LEMMA NotifyFrame ==
  ASSUME NotifyInv, TypeInv', UNCHANGED <<subs, installed, work>>
  PROVE  NotifyInv'
  BY DEF NotifyInv, HasTrigger, At

\* A handler that was not between the two statements moves to a point at which
\* it claims no trigger.
LEMMA NotifyMove ==
  ASSUME NotifyInv, TypeInv', NEW h \in Handlers, ~At(h, "dropped"),
         UNCHANGED installed, subs' \subseteq subs,
         \A k \in Handlers \ {h} : work'[k] = work[k], ~At(h, "installed")'
  PROVE  NotifyInv'
<1>1. \A t \in Tables : HasTrigger(t) => HasTrigger(t)'
  BY DEF HasTrigger, At
<1>2. \A s \in subs : TableOf(s) \in Tables
  BY DEF NotifyInv, TypeInv, TypeOK, Subs, TableOf
<1>3. \A k \in Handlers : At(k, "installed") => TableOf(work[k].sub) \in Tables
  BY BusyHandlers DEF NotifyInv, TypeInv, TypeOK, Subs, TableOf, At
<1>4. \A s \in subs' : HasTrigger(TableOf(s))'
  BY <1>1, <1>2 DEF NotifyInv
<1>5. ASSUME NEW k \in Handlers, At(k, "installed")' PROVE HasTrigger(TableOf(work[k].sub))'
  <2>1. k # h /\ work'[k] = work[k] /\ At(k, "installed")
    BY <1>5 DEF At
  <2>2. QED
    BY <1>1, <1>3, <2>1 DEF NotifyInv
<1>6. QED
  BY <1>4, <1>5 DEF NotifyInv
LEMMA NotifySubscribe ==
  ASSUME NotifyInv, TypeInv', NEW h \in Handlers,
         DropTrigger(h) \/ CreateTrigger(h) \/ InsertSubscription(h)
  PROVE  NotifyInv'
<1> DEFINE table == TableOf(work[h].sub)
<1>1. work[h].sub \in Subs /\ work \in [Handlers -> Work]
  BY BusyHandlers DEF NotifyInv, TypeInv, TypeOK, At, DropTrigger, CreateTrigger, InsertSubscription
<1>2. \A k \in Handlers \ {h} : work'[k] = work[k]
  BY <1>1 DEF DropTrigger, CreateTrigger, InsertSubscription, Goto, Finish
<1>3. \A t : HasTrigger(t) => HasTrigger(t)'
  <2>1. CASE DropTrigger(h)
    <3>1. At(h, "dropped")' /\ work'[h].sub = work[h].sub /\ ~At(h, "dropped")
      BY <1>1, <2>1 DEF DropTrigger, Goto, At, Work, NoWork
    <3>2. installed' = installed \ {table}
      BY <2>1 DEF DropTrigger
    <3>3. QED
      BY <1>2, <3>1, <3>2 DEF HasTrigger, At
  <2>2. CASE CreateTrigger(h)
    BY <1>2, <2>2 DEF CreateTrigger, HasTrigger, At
  <2>3. CASE InsertSubscription(h)
    BY <1>2, <2>3 DEF InsertSubscription, HasTrigger, At
  <2>4. QED
    BY <2>1, <2>2, <2>3
<1>4. \A s \in subs' : HasTrigger(TableOf(s))'
  <2>1. \A s \in subs : HasTrigger(TableOf(s))'
    BY <1>3 DEF NotifyInv
  <2>2. \A s \in subs' \ subs : s = work[h].sub /\ At(h, "installed")
    BY DEF DropTrigger, CreateTrigger, InsertSubscription
  <2>3. QED
    BY <1>3, <2>1, <2>2 DEF NotifyInv
<1>5. ASSUME NEW k \in Handlers, At(k, "installed")' PROVE HasTrigger(TableOf(work[k].sub))'
  <2>1. CASE k # h
    <3>1. work'[k] = work[k] /\ At(k, "installed")
      BY <1>2, <1>5, <2>1 DEF At
    <3>2. QED
      BY <1>3, <3>1 DEF NotifyInv
  <2>2. CASE k = h
    <3>1. CreateTrigger(h)
      BY <1>1, <1>5, <2>2, WorkMoves DEF DropTrigger, InsertSubscription, At
    <3>2. work'[h].sub = work[h].sub /\ table \in installed'
      BY <1>1, <1>5, <2>2, <3>1 DEF CreateTrigger, Goto, Finish, At, Work, NoWork
    <3>3. QED
      BY <2>2, <3>2 DEF HasTrigger
  <2>3. QED
    BY <2>1, <2>2
<1>6. QED
  BY <1>4, <1>5 DEF NotifyInv

\* As long as no statement fails and the API does not crash, a subscribed table
\* has its trigger or is about to have it again, however requests overlap.
THEOREM SubscribedNotify ==
  ASSUME FaultKinds \subseteq {"connection"} PROVE Spec => []SubscribedTablesNotify
<1>1. Init => NotifyInv
  BY TypeInvInit DEF Init, NotifyInv, HasTrigger, At, NoWork
<1>2. ASSUME NotifyInv, [Next]_vars PROVE NotifyInv'
  <2>1. TypeInv'
    BY <1>2, TypeStep DEF NotifyInv
  <2>2. ~Crash /\ ~BootstrapFails /\ \A h \in Handlers : ~StatementFails(h)
    BY DEF Crash, BootstrapFails, StatementFails, Fault
  <2>3. ASSUME NEW h \in Handlers, Request(h) PROVE NotifyInv'
    <3>1. ~At(h, "dropped") /\ UNCHANGED installed /\ subs' \subseteq subs
      BY <2>3 DEF Request, BeginSubscribe, DeleteSubscription, At
    <3>2. (\A k \in Handlers \ {h} : work'[k] = work[k]) /\ ~At(h, "installed")'
      BY <1>2, <2>3 DEF Request, BeginSubscribe, DeleteSubscription, Begin, At,
                        NotifyInv, TypeInv, TypeOK
    <3>3. QED
      BY <1>2, <2>1, <3>1, <3>2, NotifyMove
  <2>4. ASSUME NEW h \in Handlers, EnsureListener(h) \/ UnsubscribeStep(h) PROVE NotifyInv'
    <3>1. ~At(h, "dropped") /\ UNCHANGED installed /\ subs' \subseteq subs
      BY <2>4 DEF EnsureListener, UnsubscribeStep, ListRemaining, StopUnsubscribed,
                  CancelStopped, At
    <3>2. (\A k \in Handlers \ {h} : work'[k] = work[k]) /\ ~At(h, "installed")'
      BY <1>2, <2>4, WorkMoves DEF EnsureListener, UnsubscribeStep, ListRemaining,
                                   StopUnsubscribed, CancelStopped, At, NotifyInv, TypeInv, TypeOK
    <3>3. QED
      BY <1>2, <2>1, <3>1, <3>2, NotifyMove
  <2>5. ASSUME NEW l \in Listeners, ListenerStep(l) \/ LookupFails(l) \/ ConnectionFails(l)
        PROVE  NotifyInv'
    <3>1. UNCHANGED <<subs, installed, work>>
      BY <2>5 DEF ListenerStep, Connect, Retry, Receive, Lookup,
                Publish, Exit, LookupFails, ConnectionFails
    <3>2. QED
      BY <1>2, <2>1, <3>1, NotifyFrame
  <2>6. ASSUME (\E t \in Tables : ChangeRow(t)) \/ Bootstrap \/ UNCHANGED vars PROVE NotifyInv'
    <3>1. UNCHANGED <<subs, installed, work>>
      BY <2>6 DEF ChangeRow, Bootstrap, vars
    <3>2. QED
      BY <1>2, <2>1, <3>1, NotifyFrame
  <2>7. QED
    BY <1>2, <2>1, <2>2, <2>3, <2>4, <2>5, <2>6, NotifySubscribe
    DEF Next, HandlerStep, SubscribeStep
<1>3. NotifyInv => SubscribedTablesNotify
  BY DEF NotifyInv, SubscribedTablesNotify, HasTrigger
<1>4. QED
  <2>1. NotifyInv /\ [Next]_vars => NotifyInv'
    BY <1>2
  <2>2. QED
    BY <1>1, <1>3, <2>1, PTL DEF Spec

-----------------------------------------------------------------------------
(* Serial requests keep listener and subscriptions in step.                *)

\* What the listener of the project is, by where the only request is.
MatchedAt(point) ==
    CASE point = "inserted" -> subs # {}
      [] point = "deleted"  -> listener # 0
      [] point = "stopping" -> subs = {}
      [] OTHER -> listener # 0 <=> subs # {}

MatchInv ==
    /\ TypeInv
    /\ up => \A h \in Handlers : MatchedAt(work[h].at)
    /\ ~up => listener = 0 /\ \A h \in Handlers : At(h, "idle")
LEMMA MatchFrame ==
  ASSUME MatchInv, TypeInv', UNCHANGED <<subs, listener, up, work>>
  PROVE  MatchInv'
  BY DEF MatchInv, MatchedAt, At

LEMMA StartMakesEntry == ASSUME StartListener PROVE listener' # 0
<1>1. CASE listener # 0
  BY <1>1 DEF StartListener, listenerVars
<1>2. CASE listener = 0
  BY <1>2, BoundsAreNat DEF StartListener, Listeners
<1>3. QED
  BY <1>1, <1>2

LEMMA MatchHandler ==
  ASSUME MatchInv, TypeInv', NEW h, Handlers = {h},
         Request(h) \/ HandlerStep(h)
  PROVE  MatchInv'
<1>1. work \in [Handlers -> Work] /\ h \in Handlers
  BY DEF MatchInv, TypeInv, TypeOK
<1>2. up /\ MatchedAt(work[h].at)
  <2>1. up \/ At(h, "idle")
    BY <1>1 DEF MatchInv
  <2>2. ~At(h, "idle") \/ up
    BY DEF Request, BeginSubscribe, DeleteSubscription, HandlerStep, SubscribeStep,
           UnsubscribeStep, DropTrigger, CreateTrigger, InsertSubscription, EnsureListener,
           ListRemaining, StopUnsubscribed, CancelStopped, At
  <2>3. up
    BY <2>1, <2>2, <1>1 DEF MatchInv, TypeInv, TypeOK
  <2>4. QED
    BY <2>3, <1>1 DEF MatchInv
<1>3. UNCHANGED up
  BY DEF Request, BeginSubscribe, DeleteSubscription, HandlerStep, SubscribeStep,
         UnsubscribeStep, DropTrigger, CreateTrigger, InsertSubscription, EnsureListener,
         ListRemaining, StopUnsubscribed, CancelStopped
<1>4. SUFFICES MatchedAt(work[h].at)'
  BY <1>1, <1>2, <1>3 DEF MatchInv, TypeInv, TypeOK
<1>5. CASE Request(h)
  <2>1. PICK s \in Subs : BeginSubscribe(h, s) \/ DeleteSubscription(h, s)
    BY <1>5 DEF Request
  <2>2. CASE BeginSubscribe(h, s)
    <3>1. work'[h].at = "subscribing" /\ UNCHANGED <<listener, subs>> /\ work[h].at = "idle"
      BY <1>1, <2>2, WorkMoves DEF BeginSubscribe, listenerVars, At
    <3>2. QED
      BY <1>2, <3>1 DEF MatchedAt
  <2>3. CASE DeleteSubscription(h, s)
    <3>1. work'[h].at = "deleted" /\ UNCHANGED listener /\ work[h].at = "idle" /\ subs # {}
      BY <1>1, <2>3, WorkMoves DEF DeleteSubscription, listenerVars, At
    <3>2. QED
      BY <1>2, <3>1 DEF MatchedAt
  <2>4. QED
    BY <2>1, <2>2, <2>3
<1>6. CASE DropTrigger(h) \/ CreateTrigger(h) \/ InsertSubscription(h)
  <2>1. CASE DropTrigger(h) \/ CreateTrigger(h)
    <3>1. /\ work[h].at \in {"subscribing", "dropped"}
          /\ work'[h].at \in {"dropped", "installed", "idle"}
          /\ UNCHANGED <<listener, subs>>
      BY <1>1, <2>1, WorkMoves DEF DropTrigger, CreateTrigger, listenerVars, At
    <3>2. QED
      BY <1>2, <3>1 DEF MatchedAt
  <2>2. CASE InsertSubscription(h)
    BY <1>1, <2>2, WorkMoves DEF InsertSubscription, At, MatchedAt
  <2>3. QED
    BY <1>6, <2>1, <2>2
<1>7. CASE EnsureListener(h)
  BY <1>1, <1>2, <1>7, WorkMoves, StartMakesEntry DEF EnsureListener, At, MatchedAt
<1>8. CASE ListRemaining(h)
  BY <1>1, <1>2, <1>8, WorkMoves DEF ListRemaining, At, MatchedAt, listenerVars
<1>9. CASE StopUnsubscribed(h)
  <2>1. work'[h].at \in {"idle", "cancelling"} /\ listener' = 0 /\ subs' = {}
    BY <1>1, <1>2, <1>9, WorkMoves DEF StopUnsubscribed, At, MatchedAt
  <2>2. QED
    BY <2>1 DEF MatchedAt
<1>10. CASE CancelStopped(h)
  BY <1>1, <1>2, <1>10, WorkMoves DEF CancelStopped, At, MatchedAt
<1>11. QED
  BY <1>5, <1>6, <1>7, <1>8, <1>9, <1>10 DEF HandlerStep, SubscribeStep, UnsubscribeStep

\* With one request at a time and no failing statement, the project has a listener
\* between requests exactly if it has a subscription, through every restart and
\* every lost connection.
THEOREM SerialListenerMatches ==
  ASSUME NEW h, Handlers = {h}, "statement" \notin FaultKinds
  PROVE  Spec => []ListenerMatchesSubscriptions
<1>1. Init => MatchInv
  BY TypeInvInit DEF Init, MatchInv, MatchedAt, NoWork
<1>2. ASSUME MatchInv, [Next]_vars PROVE MatchInv'
  <2>1. TypeInv'
    BY <1>2, TypeStep DEF MatchInv
  <2>2. ~BootstrapFails /\ ~StatementFails(h)
    BY DEF BootstrapFails, StatementFails, Fault
  <2>3. CASE Request(h) \/ HandlerStep(h)
    BY <1>2, <2>1, <2>3, MatchHandler
  <2>4. ASSUME NEW l \in Listeners, ListenerStep(l) \/ LookupFails(l) \/ ConnectionFails(l)
        PROVE  MatchInv'
    <3>1. UNCHANGED <<subs, listener, up, work>>
      BY <2>4 DEF ListenerStep, Connect, Retry, Receive, Lookup,
                Publish, Exit, LookupFails, ConnectionFails
    <3>2. QED
      BY <1>2, <2>1, <3>1, MatchFrame
  <2>5. CASE (\E t \in Tables : ChangeRow(t)) \/ UNCHANGED vars
    <3>1. UNCHANGED <<subs, listener, up, work>>
      BY <2>5 DEF ChangeRow, vars
    <3>2. QED
      BY <1>2, <2>1, <3>1, MatchFrame
  <2>6. CASE Bootstrap
    <3>1. up' /\ listener = 0 /\ UNCHANGED <<subs, work>> /\ \A g \in Handlers : At(g, "idle")
      BY <1>2, <2>6 DEF MatchInv, Bootstrap
    <3>2. listener' # 0 <=> subs' # {}
      BY <2>6, <3>1, StartMakesEntry DEF Bootstrap, listenerVars
    <3>3. QED
      BY <2>1, <3>1, <3>2 DEF MatchInv, MatchedAt, At
  <2>7. CASE Crash
    BY <2>1, <2>7 DEF Crash, MatchInv, At, NoWork
  <2>8. QED
    BY <1>2, <2>2, <2>3, <2>4, <2>5, <2>6, <2>7 DEF Next
<1>3. MatchInv => ListenerMatchesSubscriptions
  BY DEF MatchInv, MatchedAt, ListenerMatchesSubscriptions, At
<1>4. QED
  <2>1. MatchInv /\ [Next]_vars => MatchInv'
    BY <1>2
  <2>2. QED
    BY <1>1, <1>3, <2>1, PTL DEF Spec
=============================================================================
