------------------------ MODULE RealtimeClientProofs ------------------------
(***************************************************************************)
(* Theorems about RealtimeClient, for any number of lines, subscriptions   *)
(* and events, and for all bounds.                                         *)
(***************************************************************************)
EXTENDS RealtimeClient, FiniteSetTheorems, SequenceTheorems, TLAPS

HookType == [ws : Lines \cup {NoLine}, timer : Lines \cup {NoLine}, closedByUs : BOOLEAN,
             attempts : 0 .. MaxAttempts, status : Statuses]
LineType == [state : States, sub : Subs \cup {Off}, inbox : Seq(1 .. MaxEvents)]
BoundsType == [changes : 0 .. MaxChanges, failures : 0 .. MaxFailures, clicks : 0 .. MaxClicks]

\* Lines that are not free: those that live, and those whose close event is still to come.
Busy == InState({"connecting", "open", "waiting", "closing"})
AskedFor == IF Wanted THEN 1 ELSE 0

\* What the refs of the hook point to. A hook that is asked for something has a socket or a timer to stop.
RefsInv ==
    /\ hook.ws # NoLine => lines[hook.ws].state \in {"connecting", "open", "closing"}
    /\ mounted => token /\ ~hook.closedByUs
    /\ ~mounted => hook.closedByUs
    /\ Wanted => hook.ws # NoLine \/ (hook.timer # NoLine /\ lines[hook.timer].state = "waiting")

\* While the hook is mounted every close event opens a line again, so that closing lines count as well.
LeakInv ==
    /\ mounted => Cardinality(Busy) <= AskedFor + overtaken
    /\ ~mounted => Cardinality(Live) <= overtaken

\* Only an open socket has messages, each newer than the one before and none the server has still to send; those of
\* the line that was not overtaken are newer than all that are shown.
Newer(s) == \A i, j \in 1 .. Len(s) : i < j => s[i] < s[j]
InboxInv ==
    \A l \in Lines :
        /\ lines[l].state # "open" => lines[l].inbox = <<>>
        /\ Newer(lines[l].inbox)
        /\ \A i \in 1 .. Len(lines[l].inbox) : lines[l].inbox[i] <= sent
EventInv ==
    overtaken = 0 =>
        /\ \A j \in 1 .. Len(events) : events[j] <= sent
        /\ \A l \in Lines : \A i \in 1 .. Len(lines[l].inbox), j \in 1 .. Len(events) : lines[l].inbox[i] > events[j]

\* The line that was not overtaken is subscribed to what the page asks for, and the status belongs to it.
StatusInv ==
    (overtaken = 0 /\ mounted) =>
        /\ \A l \in Busy : lines[l].sub = deps
        /\ hook.status = "idle" => deps = Off

ClientInv ==
    /\ TypeOK /\ RefsInv /\ LeakInv /\ InboxInv /\ EventInv /\ StatusInv
    /\ EventsOnce /\ StatusIsTrue

-----------------------------------------------------------------------------
(* What the functions of the hook do to the refs and to one line.          *)

LEMMA BackOff == \A n \in 0 .. MaxAttempts : (IF n < MaxAttempts THEN n + 1 ELSE n) \in 0 .. MaxAttempts
BY BoundsAssumption

LEMMA FreeTyped == Free \in LineType /\ Free.state = "free" /\ Free.inbox = <<>>
BY DEF Free, LineType, States

\* A line whose socket or timer goes, with what had not been delivered.
LEMMA Emptied ==
    ASSUME NEW q \in LineType, NEW s \in States
    PROVE  LET new == [q EXCEPT !.state = s, !.inbox = <<>>]
           IN  new \in LineType /\ new.state = s /\ new.inbox = <<>> /\ new.sub = q.sub
<1> DEFINE none == <<>>
<1>1. none \in Seq(1 .. MaxEvents)
  OBVIOUS
<1> HIDE DEF none
<1>2. LET new == [q EXCEPT !.state = s, !.inbox = none]
      IN  new \in LineType /\ new.state = s /\ new.inbox = none /\ new.sub = q.sub
  BY <1>1 DEF LineType
<1> QED
  BY <1>2 DEF none

LEMMA Connects ==
    ASSUME NEW h \in HookType, NEW ls \in [Lines -> LineType], NEW l \in Lines, NEW d \in Subs \cup {Off},
           token \in BOOLEAN, Connect(h, ls, l, d)
    PROVE  /\ hook' \in HookType /\ lines' \in [Lines -> LineType]
           /\ hook'.timer = h.timer /\ hook'.closedByUs = h.closedByUs
           /\ \A k \in Lines : k # l => lines'[k] = ls[k]
           /\ lines'[l].inbox = <<>>
           /\ token => /\ hook'.ws = l /\ hook'.status \in {"connecting", "reconnecting"}
                       /\ lines'[l].state = "connecting" /\ lines'[l].sub = d
           /\ ~token => hook'.ws = h.ws /\ lines'[l].state = "free"
<1>1. Connecting(h) \in HookType /\ Connecting(h).timer = h.timer /\ Connecting(h).closedByUs = h.closedByUs
      /\ Connecting(h).ws = h.ws /\ (token => Connecting(h).status \in {"connecting", "reconnecting"})
  BY DEF Connecting, HookType, Statuses
<1> DEFINE new == [state |-> "connecting", sub |-> d, inbox |-> <<>>]
<1>2. new \in LineType
  BY DEF LineType, States
<1>3. CASE token
  <2>1. hook' = [Connecting(h) EXCEPT !.ws = l] /\ lines' = [ls EXCEPT ![l] = new]
    BY <1>3 DEF Connect
  <2>2. hook' \in HookType /\ hook'.timer = h.timer /\ hook'.closedByUs = h.closedByUs /\ hook'.ws = l
        /\ hook'.status \in {"connecting", "reconnecting"}
    BY <1>1, <1>3, <2>1 DEF HookType
  <2>3. new.state = "connecting" /\ new.sub = d /\ new.inbox = <<>>
    OBVIOUS
  <2> HIDE DEF new
  <2> QED
    BY <1>2, <1>3, <2>1, <2>2, <2>3
<1>4. CASE ~token
  BY <1>1, <1>4, FreeTyped DEF Connect
<1> QED
  BY <1>3, <1>4

LEMMA Schedules ==
    ASSUME TypeOK, NEW h \in HookType, NEW l \in Lines, ScheduleReconnect(h, l)
    PROVE  /\ hook' \in HookType /\ lines' \in [Lines -> LineType]
           /\ hook'.timer = l /\ hook'.ws = h.ws /\ hook'.closedByUs = h.closedByUs /\ hook'.status = "reconnecting"
           /\ \A k \in Lines : k # l => lines'[k] = lines[k]
           /\ lines'[l].state = "waiting" /\ lines'[l].inbox = <<>> /\ lines'[l].sub = lines[l].sub
<1>1. h.attempts \in 0 .. MaxAttempts
  BY DEF HookType
<1>2. (IF h.attempts < MaxAttempts THEN h.attempts + 1 ELSE h.attempts) \in 0 .. MaxAttempts
  BY <1>1, BackOff
<1>3. hook' \in HookType /\ hook'.timer = l /\ hook'.ws = h.ws /\ hook'.closedByUs = h.closedByUs
      /\ hook'.status = "reconnecting"
  BY <1>2 DEF ScheduleReconnect, HookType, Statuses
<1> DEFINE new == [lines[l] EXCEPT !.state = "waiting", !.inbox = <<>>]
<1>4. new \in LineType /\ new.state = "waiting" /\ new.inbox = <<>> /\ new.sub = lines[l].sub
  <2>1. lines[l] \in LineType /\ "waiting" \in States
    BY DEF TypeOK, LineType, States
  <2> QED
    BY <2>1, Emptied
<1>5. lines' = [lines EXCEPT ![l] = new] /\ lines \in [Lines -> LineType]
  BY DEF ScheduleReconnect, TypeOK, LineType
<1> HIDE DEF new
<1> QED
  BY <1>3, <1>4, <1>5

\* A close is followed by a timer, unless the hook closed by itself.
LEMMA Closes ==
    ASSUME TypeOK, NEW l \in Lines, HandleClose(l)
    PROVE  /\ hook' \in HookType /\ lines' \in [Lines -> LineType]
           /\ hook'.ws = NoLine /\ hook'.closedByUs = hook.closedByUs
           /\ \A k \in Lines : k # l => lines'[k] = lines[k]
           /\ lines'[l].inbox = <<>>
           /\ hook.closedByUs => lines'[l].state = "free"
           /\ ~hook.closedByUs => /\ lines'[l].state = "waiting" /\ lines'[l].sub = lines[l].sub
                                  /\ hook'.timer = l /\ hook'.status = "reconnecting"
<1>1. hook \in HookType /\ lines \in [Lines -> LineType]
  BY DEF TypeOK, HookType, LineType
<1>2. CASE hook.closedByUs
  <2>1. hook' = [hook EXCEPT !.ws = NoLine, !.status = "closed"] /\ lines' = [lines EXCEPT ![l] = Free]
    BY <1>2 DEF HandleClose
  <2>2. hook' \in HookType /\ hook'.ws = NoLine /\ hook'.closedByUs = hook.closedByUs
    BY <1>1, <2>1 DEF HookType, Statuses
  <2> QED
    BY <1>1, <1>2, <2>1, <2>2, FreeTyped
<1>3. CASE ~hook.closedByUs
  <2> DEFINE h == [hook EXCEPT !.ws = NoLine]
  <2>1. h \in HookType /\ h.ws = NoLine /\ h.closedByUs = hook.closedByUs
    BY <1>1 DEF HookType
  <2>2. ScheduleReconnect(h, l)
    BY <1>3 DEF HandleClose
  <2> HIDE DEF h
  <2> QED
    BY <1>3, <2>1, <2>2, Schedules
<1> QED
  BY <1>2, <1>3

\* The clean-up leaves no line alive that the refs point to, and none that was not.
LEMMA CleansUp ==
    ASSUME TypeOK
    PROVE  /\ CleanedHook \in HookType /\ RestartedHook \in HookType
           /\ CleanedHook.ws = NoLine /\ CleanedHook.closedByUs /\ RestartedHook.ws = NoLine
           /\ ~RestartedHook.closedByUs
           /\ CleanedLines \in [Lines -> LineType]
           /\ \A l \in Lines : CleanedLines[l] = lines[l] \/ CleanedLines[l].inbox = <<>>
           /\ \A l \in Lines :
                 CleanedLines[l].state \in {"connecting", "open", "waiting"} =>
                    /\ CleanedLines[l] = lines[l] /\ l # hook.ws
                    /\ ~(l = hook.timer /\ lines[l].state = "waiting")
           /\ \A l \in Lines : CleanedLines[l].state = "closing" => l = hook.ws \/ CleanedLines[l] = lines[l]
           /\ hook.ws # NoLine /\ ~(hook.ws = hook.timer /\ lines[hook.ws].state = "waiting")
                => CleanedLines[hook.ws].state = "closing"
           /\ hook.timer # NoLine /\ lines[hook.timer].state = "waiting" => CleanedLines[hook.timer].state = "free"
<1>1. hook \in HookType /\ lines \in [Lines -> LineType]
  BY DEF TypeOK, HookType, LineType
<1>2. /\ CleanedHook \in HookType /\ RestartedHook \in HookType
      /\ CleanedHook.ws = NoLine /\ CleanedHook.closedByUs /\ RestartedHook.ws = NoLine
      /\ ~RestartedHook.closedByUs
  BY <1>1 DEF HookType, CleanedHook, RestartedHook
<1>3. \A l \in Lines : LET new == [lines[l] EXCEPT !.state = "closing", !.inbox = <<>>]
                       IN  new \in LineType /\ new.state = "closing" /\ new.inbox = <<>>
  BY <1>1, Emptied DEF States
<1>4. /\ CleanedLines \in [Lines -> LineType]
      /\ \A l \in Lines : CleanedLines[l] = lines[l] \/ CleanedLines[l].inbox = <<>>
  BY <1>1, <1>3, FreeTyped DEF CleanedLines
<1>5. \A l \in Lines : CleanedLines[l].state \in {"connecting", "open", "waiting"} =>
           /\ CleanedLines[l] = lines[l] /\ l # hook.ws /\ ~(l = hook.timer /\ lines[l].state = "waiting")
  BY <1>1, <1>3, FreeTyped DEF CleanedLines
<1>6. \A l \in Lines : CleanedLines[l].state = "closing" => l = hook.ws \/ CleanedLines[l] = lines[l]
  BY <1>1, <1>3, FreeTyped DEF CleanedLines
<1>7. hook.ws \in Lines \cup {NoLine} /\ hook.timer \in Lines \cup {NoLine}
  BY <1>1 DEF HookType
<1>8. hook.ws # NoLine /\ ~(hook.ws = hook.timer /\ lines[hook.ws].state = "waiting")
                => CleanedLines[hook.ws].state = "closing"
  BY <1>1, <1>3, <1>7 DEF CleanedLines
<1>9. hook.timer # NoLine /\ lines[hook.timer].state = "waiting" => CleanedLines[hook.timer].state = "free"
  BY <1>1, <1>7, FreeTyped DEF CleanedLines
<1> QED
  BY <1>2, <1>4, <1>5, <1>6, <1>8, <1>9

-----------------------------------------------------------------------------
(* Most actions move one busy line and the hook with it.                   *)

StatusMoves(l) ==
    \/ hook'.status \in {"connecting", "reconnecting"} /\ lines'[l].state \in {"waiting", "connecting"}
    \/ hook'.status = "open" /\ lines'[l].state = "open"
    \/ hook'.status \in {"error", "closed"}
    \/ hook'.status = hook.status /\ lines'[l].state = "closing"
LineMoves(l) ==
    /\ l \in Lines /\ lines[l].state # "free"
    /\ UNCHANGED <<deps, mounted, token, events, sent, overtaken>>
    /\ hook' \in HookType /\ lines' \in [Lines -> LineType] /\ bounds' \in BoundsType
    /\ \A k \in Lines : k # l => lines'[k] = lines[k]
    /\ lines'[l].inbox \in {<<>>, lines[l].inbox}
    /\ lines'[l].state # "open" => lines'[l].inbox = <<>>
    /\ lines'[l].state # "free" => lines'[l].sub = lines[l].sub
    /\ mounted \/ lines[l].state # "closing" \/ lines'[l].state = "free"
    /\ StatusMoves(l)
    /\ RefsInv'

LEMMA Typed ==
    ASSUME TypeOK
    PROVE  /\ hook \in HookType /\ lines \in [Lines -> LineType] /\ bounds \in BoundsType
           /\ mounted \in BOOLEAN /\ token \in BOOLEAN
BY DEF TypeOK, HookType, LineType, BoundsType

LEMMA OpeningMoves ==
    ASSUME TypeOK, RefsInv, InboxInv, NEW l \in Lines, OnOpen(l) PROVE LineMoves(l)
<1>1. hook \in HookType /\ lines \in [Lines -> LineType] /\ bounds \in BoundsType
  BY Typed
<1>2. hook' \in HookType /\ hook'.status = "open" /\ hook'.ws = hook.ws /\ hook'.timer = hook.timer
      /\ hook'.closedByUs = hook.closedByUs
  <2>1. 0 \in 0 .. MaxAttempts /\ "open" \in Statuses
    BY BoundsAssumption DEF Statuses
  <2>2. hook' = [hook EXCEPT !.attempts = 0, !.status = "open"]
    BY DEF OnOpen
  <2> QED
    BY <1>1, <2>1, <2>2 DEF HookType
<1>3. /\ lines' \in [Lines -> LineType] /\ \A k \in Lines : k # l => lines'[k] = lines[k]
      /\ lines'[l].state = "open" /\ lines'[l].inbox = lines[l].inbox /\ lines'[l].sub = lines[l].sub
  BY <1>1 DEF OnOpen, LineType, States
<1>4. RefsInv'
  BY <1>1, <1>2, <1>3 DEF OnOpen, RefsInv, Wanted, HookType
<1> QED
  BY <1>1, <1>2, <1>3, <1>4 DEF OnOpen, LineMoves, StatusMoves

LEMMA RefusalMoves ==
    ASSUME TypeOK, RefsInv, InboxInv, NEW l \in Lines, OnRefused(l) PROVE LineMoves(l)
<1>1. hook \in HookType /\ lines \in [Lines -> LineType] /\ bounds \in BoundsType
  BY Typed
<1>2. hook' \in HookType /\ hook'.status = "error" /\ hook'.ws = hook.ws /\ hook'.timer = hook.timer
      /\ hook'.closedByUs = hook.closedByUs
  BY <1>1 DEF OnRefused, HookType, Statuses
<1>3. RefsInv'
  BY <1>2 DEF OnRefused, RefsInv, Wanted
<1> QED
  BY <1>1, <1>2, <1>3 DEF OnRefused, LineMoves, StatusMoves, InboxInv

\* A socket that closes, by itself or because it was closed.
LEMMA ClosingMoves ==
    ASSUME TypeOK, RefsInv, NEW l \in Lines, lines[l].state \in {"connecting", "open", "closing"}, HandleClose(l),
           UNCHANGED <<deps, mounted, token, events, sent, overtaken>>, bounds' \in BoundsType
    PROVE  LineMoves(l)
<1>1. hook \in HookType /\ lines \in [Lines -> LineType] /\ mounted \in BOOLEAN
  BY Typed
<1>2. RefsInv'
  BY <1>1, Closes, RefsAssumption DEF RefsInv, Wanted
<1>3. StatusMoves(l)
  <2>1. CASE hook.closedByUs
    BY <1>1, <2>1 DEF HandleClose, StatusMoves, HookType
  <2>2. CASE ~hook.closedByUs
    BY <2>2, Closes DEF StatusMoves
  <2> QED
    BY <2>1, <2>2
<1>4. mounted \/ lines'[l].state = "free"
  BY <1>1, Closes DEF RefsInv
<1>5. lines'[l].state # "free" => lines'[l].sub = lines[l].sub
  BY Closes
<1> QED
  BY <1>1, <1>2, <1>3, <1>4, <1>5, Closes DEF LineMoves

LEMMA TimerMoves ==
    ASSUME TypeOK, RefsInv, NEW l \in Lines, FireTimer(l) PROVE LineMoves(l)
<1>1. hook \in HookType /\ lines \in [Lines -> LineType] /\ bounds \in BoundsType /\ mounted \in BOOLEAN
      /\ token \in BOOLEAN
  BY Typed
<1>2. lines[l].sub \in Subs \cup {Off} /\ lines[l].state = "waiting" /\ Connect(hook, lines, l, lines[l].sub)
  BY <1>1 DEF FireTimer, LineType
<1>3. /\ hook' \in HookType /\ lines' \in [Lines -> LineType]
      /\ hook'.timer = hook.timer /\ hook'.closedByUs = hook.closedByUs
      /\ \A k \in Lines : k # l => lines'[k] = lines[k]
      /\ lines'[l].inbox = <<>>
      /\ token => /\ hook'.ws = l /\ hook'.status \in {"connecting", "reconnecting"}
                  /\ lines'[l].state = "connecting" /\ lines'[l].sub = lines[l].sub
      /\ ~token => hook'.ws = hook.ws /\ lines'[l].state = "free"
  BY <1>1, <1>2, Connects
<1>4. hook.ws # l
  BY <1>2, RefsAssumption DEF RefsInv
<1>5. UNCHANGED <<deps, mounted, token, events, sent, overtaken, bounds>>
  BY DEF FireTimer
<1>6. RefsInv'
  <2>1. CASE token
    BY <1>1, <1>3, <1>5, <2>1, RefsAssumption DEF RefsInv, Wanted
  <2>2. CASE ~token
    BY <1>1, <1>3, <1>4, <1>5, <2>2, RefsAssumption DEF RefsInv, Wanted, HookType
  <2> QED
    BY <2>1, <2>2
<1>7. StatusMoves(l)
  <2>1. ~token => hook'.status = "closed"
    BY <1>1 DEF FireTimer, Connect, Connecting, HookType
  <2> QED
    BY <1>3, <2>1 DEF StatusMoves
<1> QED
  BY <1>1, <1>2, <1>3, <1>5, <1>6, <1>7 DEF LineMoves

LEMMA ThrowMoves ==
    ASSUME TypeOK, RefsInv, NEW l \in Lines, ConstructorThrows(l) PROVE LineMoves(l)
<1>1. hook \in HookType /\ lines \in [Lines -> LineType] /\ bounds \in BoundsType
  BY Typed
<1> DEFINE h == Connecting(hook)
<1>2. h \in HookType /\ h.ws = hook.ws /\ h.closedByUs = hook.closedByUs
  BY <1>1 DEF Connecting, HookType, Statuses
<1>3. ScheduleReconnect(h, l) /\ lines[l].state = "waiting"
  BY DEF ConstructorThrows
<1>4. bounds' \in BoundsType
  <2>1. bounds.failures + 1 \in 0 .. MaxFailures
    BY <1>1, BoundsAssumption DEF ConstructorThrows, BoundsType
  <2> QED
    BY <1>1, <2>1 DEF ConstructorThrows, BoundsType
<1>5. UNCHANGED <<deps, mounted, token, events, sent, overtaken>>
  BY DEF ConstructorThrows
<1> HIDE DEF h
<1>6. hook.ws # l
  BY <1>3, RefsAssumption DEF RefsInv
<1>7. /\ hook' \in HookType /\ lines' \in [Lines -> LineType]
      /\ hook'.timer = l /\ hook'.ws = hook.ws /\ hook'.closedByUs = hook.closedByUs /\ hook'.status = "reconnecting"
      /\ \A k \in Lines : k # l => lines'[k] = lines[k]
      /\ lines'[l].state = "waiting" /\ lines'[l].inbox = <<>> /\ lines'[l].sub = lines[l].sub
  BY <1>2, <1>3, Schedules
<1>8. RefsInv'
  BY <1>1, <1>5, <1>6, <1>7, RefsAssumption DEF RefsInv, Wanted, HookType
<1> QED
  BY <1>3, <1>4, <1>5, <1>7, <1>8 DEF LineMoves, StatusMoves

LEMMA ReconnectMoves ==
    ASSUME TypeOK, RefsInv, Reconnect, hook.ws # NoLine PROVE LineMoves(hook.ws)
<1>1. hook \in HookType /\ lines \in [Lines -> LineType] /\ bounds \in BoundsType
  BY Typed
<1>2. bounds' \in BoundsType
  <2>1. bounds.clicks + 1 \in 0 .. MaxClicks
    BY <1>1, BoundsAssumption DEF Reconnect, BoundsType
  <2> QED
    BY <1>1, <2>1 DEF Reconnect, BoundsType
<1>3. hook' \in HookType /\ hook'.status = hook.status /\ hook'.ws = hook.ws /\ hook'.timer = hook.timer
      /\ hook'.closedByUs = hook.closedByUs
  BY <1>1, BoundsAssumption DEF Reconnect, HookType
<1>4. PICK l \in Lines : l = hook.ws
  BY <1>1 DEF HookType
<1> DEFINE new == [lines[l] EXCEPT !.state = "closing", !.inbox = <<>>]
<1>5. new \in LineType /\ new.state = "closing" /\ new.inbox = <<>> /\ new.sub = lines[l].sub
  <2>1. lines[l] \in LineType /\ "closing" \in States
    BY <1>1 DEF States
  <2> QED
    BY <2>1, Emptied
<1>6. lines' = [lines EXCEPT ![l] = new]
  BY <1>1, <1>4 DEF Reconnect, LineType
<1>7. UNCHANGED <<deps, mounted, token, events, sent, overtaken>> /\ mounted
  BY DEF Reconnect
<1> HIDE DEF new
<1>8. /\ lines' \in [Lines -> LineType] /\ \A k \in Lines : k # l => lines'[k] = lines[k]
      /\ lines'[l].state = "closing" /\ lines'[l].inbox = <<>> /\ lines'[l].sub = lines[l].sub
  BY <1>1, <1>5, <1>6
<1>9. RefsInv'
  BY <1>3, <1>4, <1>7, <1>8, RefsAssumption DEF RefsInv, Wanted, HookType
<1>10. lines[l].state # "free"
  BY <1>4 DEF RefsInv
<1> QED
  BY <1>2, <1>3, <1>4, <1>7, <1>8, <1>9, <1>10 DEF LineMoves, StatusMoves

-----------------------------------------------------------------------------
(* Counting lines.                                                         *)

LEMMA FewLines ==
    /\ IsFiniteSet(Busy) /\ Cardinality(Busy) \in Nat /\ IsFiniteSet(Busy') /\ Cardinality(Busy') \in Nat
    /\ IsFiniteSet(Live) /\ Cardinality(Live) \in Nat /\ IsFiniteSet(Live') /\ Cardinality(Live') \in Nat
<1>1. \A S : S \subseteq Lines => IsFiniteSet(S) /\ Cardinality(S) \in Nat
  BY LinesAssumption, FS_Subset, FS_CardinalityType
<1>2. Busy \subseteq Lines /\ Live \subseteq Lines /\ Busy' \subseteq Lines /\ Live' \subseteq Lines
  BY DEF Busy, Live, InState
<1> QED
  BY <1>1, <1>2

LEMMA OneAtMost ==
    ASSUME NEW S, IsFiniteSet(S), Cardinality(S) <= 1, NEW k \in S, NEW l \in S PROVE k = l
<1>1. Cardinality(S) \in Nat
  BY FS_CardinalityType
<1>2. Cardinality(S) # 0
  BY FS_EmptySet
<1>3. Cardinality(S) = 1
  BY <1>1, <1>2
<1>4. PICK x : S = {x}
  BY <1>3, FS_Singleton
<1> QED
  BY <1>4

\* Without an overtaken close a mounted hook has one line at most, an unmounted one no live line.
LEMMA NoLeak ==
    ASSUME TypeOK, LeakInv, overtaken = 0
    PROVE  /\ mounted => \A k, l \in Busy : k = l
           /\ mounted /\ deps = Off => Busy = {}
           /\ ~mounted => Live = {}
<1>1. mounted => Cardinality(Busy) <= 1
  BY FewLines DEF LeakInv, AskedFor
<1>2. mounted => \A k, l \in Busy : k = l
  BY <1>1, FewLines, OneAtMost
<1>3. ASSUME mounted, deps = Off PROVE Busy = {}
  <2>1. Cardinality(Busy) = 0
    BY <1>3, FewLines DEF LeakInv, AskedFor, Wanted
  <2> QED
    BY <2>1, FewLines, FS_EmptySet
<1>4. ASSUME ~mounted PROVE Live = {}
  <2>1. Cardinality(Live) = 0
    BY <1>4, FewLines DEF LeakInv
  <2> QED
    BY <2>1, FewLines, FS_EmptySet
<1> QED
  BY <1>2, <1>3, <1>4

LEMMA LeaksAreBounded == TypeOK /\ LeakInv => LeaksWereOvertaken
<1> SUFFICES ASSUME TypeOK, LeakInv PROVE LeaksWereOvertaken
  OBVIOUS
<1>1. overtaken \in Nat /\ mounted \in BOOLEAN
  BY DEF TypeOK
<1>2. Live \subseteq Busy
  BY DEF Live, Busy, InState
<1>3. Cardinality(Live) <= Cardinality(Busy)
  BY <1>2, FewLines, FS_Subset
<1> QED
  BY <1>1, <1>3, FewLines DEF LeakInv, LeaksWereOvertaken, AskedFor, Wanted

\* No line becomes busy.
LEMMA LeaksKept ==
    ASSUME TypeOK, LeakInv, UNCHANGED <<deps, mounted, overtaken>>, Busy' \subseteq Busy,
           ~mounted => Live' \subseteq Live
    PROVE  LeakInv'
<1>1. Cardinality(Busy') <= Cardinality(Busy)
  BY FewLines, FS_Subset
<1>2. ~mounted => Cardinality(Live') <= Cardinality(Live)
  BY FewLines, FS_Subset
<1>3. overtaken \in Nat /\ AskedFor' = AskedFor /\ AskedFor \in Nat
  BY DEF TypeOK, AskedFor, Wanted
<1> QED
  BY <1>1, <1>2, <1>3, FewLines DEF LeakInv

\* Messages are dropped or stay as they are.
LEMMA MessagesKept ==
    ASSUME TypeOK, InboxInv, EventInv, EventsOnce, UNCHANGED <<events, sent>>, overtaken' = 0 => overtaken = 0,
           \A l \in Lines : /\ lines'[l].inbox \in {<<>>, lines[l].inbox}
                            /\ lines'[l].state # "open" => lines'[l].inbox = <<>>
    PROVE  InboxInv' /\ EventInv' /\ EventsOnce'
<1>1. InboxInv'
  BY DEF InboxInv, Newer
<1>2. EventInv'
  BY DEF EventInv
<1>3. EventsOnce'
  BY DEF EventsOnce
<1> QED
  BY <1>1, <1>2, <1>3

LEMMA LineKeepsAll ==
    ASSUME ClientInv, NEW l \in Lines, LineMoves(l) PROVE ClientInv'
<1> USE DEF ClientInv
<1>1. lines \in [Lines -> LineType] /\ lines' \in [Lines -> LineType]
  BY Typed DEF LineMoves
<1>2. TypeOK'
  BY DEF LineMoves, TypeOK, HookType, LineType, BoundsType
<1>3. LeakInv'
  <2>1. Busy' \subseteq Busy
    BY <1>1 DEF LineMoves, Busy, InState, LineType, States
  <2>2. ~mounted => Live' \subseteq Live
    BY <1>1 DEF LineMoves, Live, InState, LineType, States
  <2> QED
    BY <2>1, <2>2, LeaksKept DEF LineMoves
<1>4. InboxInv' /\ EventInv' /\ EventsOnce'
  <2>1. \A k \in Lines : /\ lines'[k].inbox \in {<<>>, lines[k].inbox}
                         /\ lines'[k].state # "open" => lines'[k].inbox = <<>>
    BY DEF LineMoves, InboxInv
  <2> QED
    BY <2>1, MessagesKept DEF LineMoves
<1>5. StatusInv' /\ StatusIsTrue'
  <2> SUFFICES ASSUME overtaken = 0, mounted PROVE StatusInv' /\ StatusIsTrue'
    BY DEF StatusInv, StatusIsTrue, LineMoves
  <2>1. l \in Busy
    BY <1>1 DEF LineMoves, Busy, InState, LineType, States
  <2>2. deps # Off /\ \A k \in Lines : k # l => lines[k].state = "free"
    BY <1>1, <2>1, NoLeak DEF Busy, InState, LineType, States
  <2>3. lines[l].sub = deps /\ hook.status # "idle"
    BY <2>1, <2>2 DEF StatusInv
  <2>4. \A k \in Lines : k # l => lines'[k].state = "free"
    BY <2>2 DEF LineMoves
  <2>5. lines'[l].state # "free" => lines'[l].sub = deps'
    BY <2>3 DEF LineMoves
  <2>6. hook'.status # "idle"
    BY <2>3 DEF LineMoves, StatusMoves
  <2>7. StatusInv'
    BY <2>4, <2>5, <2>6 DEF StatusInv, Busy, InState
  <2>8. CASE hook'.status \in {"connecting", "reconnecting"} /\ lines'[l].state \in {"waiting", "connecting"}
    BY <2>5, <2>7, <2>8 DEF StatusIsTrue, InState
  <2>9. CASE hook'.status = "open" /\ lines'[l].state = "open"
    BY <2>5, <2>7, <2>9 DEF StatusIsTrue, InState
  <2>10. CASE hook'.status \in {"error", "closed"}
    BY <2>7, <2>10 DEF StatusIsTrue
  <2>11. CASE hook'.status = hook.status /\ lines'[l].state = "closing"
    BY <2>5, <2>6, <2>7, <2>11 DEF StatusIsTrue, InState
  <2> QED
    BY <2>7, <2>8, <2>9, <2>10, <2>11 DEF LineMoves, StatusMoves
<1>6. RefsInv'
  BY DEF LineMoves
<1> QED
  BY <1>2, <1>3, <1>4, <1>5, <1>6

-----------------------------------------------------------------------------
(* Messages.                                                               *)

LEMMA NumbersOf ==
    ASSUME NEW s \in Seq(1 .. MaxEvents)
    PROVE  Len(s) \in Nat /\ DOMAIN s = 1 .. Len(s) /\ \A i \in 1 .. Len(s) : s[i] \in Nat
<1>1. Len(s) \in Nat /\ DOMAIN s = 1 .. Len(s)
  BY LenProperties
<1>2. \A i \in 1 .. Len(s) : s[i] \in 1 .. MaxEvents
  BY ElementOfSeq
<1>3. 1 .. MaxEvents \subseteq Nat
  BY BoundsAssumption
<1> QED
  BY <1>1, <1>2, <1>3

LEMMA Shows ==
    ASSUME TypeOK, NEW e \in 1 .. MaxEvents
    PROVE  /\ Shown(e) \in Seq(1 .. MaxEvents) /\ Len(Shown(e)) <= MaxBuffer /\ Len(Shown(e)) <= Len(events) + 1
           /\ \A i \in 1 .. Len(Shown(e)) : Shown(e)[i] = IF i = 1 THEN e ELSE events[i - 1]
<1> DEFINE all == <<e>> \o events
           n == IF Len(events) < MaxBuffer THEN Len(events) + 1 ELSE MaxBuffer
<1>1. events \in Seq(1 .. MaxEvents) /\ Len(events) \in Nat /\ Len(events) <= MaxBuffer
  BY DEF TypeOK
<1>2. /\ all \in Seq(1 .. MaxEvents) /\ Len(all) = Len(events) + 1
      /\ \A i \in 1 .. Len(all) : all[i] = IF i = 1 THEN e ELSE events[i - 1]
  BY <1>1
<1>3. n \in Nat /\ n <= MaxBuffer /\ n <= Len(events) + 1
  BY <1>1, BoundsAssumption
<1>4. Shown(e) = SubSeq(all, 1, n)
  BY DEF Shown
<1> HIDE DEF all, n
<1>5. /\ SubSeq(all, 1, n) \in Seq(1 .. MaxEvents)
      /\ Len(SubSeq(all, 1, n)) = n /\ \A i \in 1 .. n : SubSeq(all, 1, n)[i] = all[i]
  <2>1. \A i \in 1 .. n : all[i] \in 1 .. MaxEvents
    <3>1. all \in [1 .. Len(all) -> 1 .. MaxEvents]
      BY <1>2, LenProperties
    <3>2. \A i \in 1 .. n : i \in 1 .. Len(all)
      BY <1>1, <1>2, <1>3
    <3> QED
      BY <3>1, <3>2
  <2>2. /\ SubSeq(all, 1, n) \in Seq(1 .. MaxEvents)
        /\ Len(SubSeq(all, 1, n)) = IF 1 <= n THEN n - 1 + 1 ELSE 0
        /\ \A i \in 1 .. n - 1 + 1 : SubSeq(all, 1, n)[i] = all[1 + i - 1]
    BY <1>3, <2>1, SubSeqProperties
  <2> QED
    BY <1>3, <2>2
<1> QED
  BY <1>1, <1>2, <1>3, <1>4, <1>5

LEMMA LineOfMessage ==
    ASSUME ClientInv, NEW l \in Lines, lines[l].state = "open", overtaken = 0
    PROVE  \A k \in Lines : k # l => lines[k].inbox = <<>>
<1>1. l \in Live /\ l \in Busy
  BY DEF Live, Busy, InState
<1>2. mounted
  BY <1>1, NoLeak DEF ClientInv
<1>3. \A k \in Lines : k # l => lines[k].state # "open"
  BY <1>1, <1>2, NoLeak DEF ClientInv, Busy, InState
<1> QED
  BY <1>3 DEF ClientInv, InboxInv

\* The lines keep their state and what they are subscribed to, and only messages and events change.
LEMMA OnlyMessages ==
    ASSUME ClientInv, UNCHANGED <<hook, deps, mounted, token, overtaken>>, lines' \in [Lines -> LineType],
           \A l \in Lines : lines'[l].state = lines[l].state /\ lines'[l].sub = lines[l].sub
    PROVE  RefsInv' /\ LeakInv' /\ StatusInv' /\ StatusIsTrue'
<1> USE DEF ClientInv
<1>1. \A S : InState(S)' = InState(S)
  BY DEF InState
<1>2. Busy' = Busy /\ Live' = Live
  BY DEF Busy, Live, InState
<1>3. RefsInv'
  BY Typed DEF RefsInv, Wanted, HookType
<1>4. LeakInv'
  BY <1>2 DEF LeakInv, AskedFor, Wanted
<1>5. StatusInv'
  BY <1>2 DEF StatusInv, Busy, InState
<1>6. StatusIsTrue'
  BY <1>2 DEF StatusIsTrue, InState
<1> QED
  BY <1>3, <1>4, <1>5, <1>6

LEMMA MessageKeepsAll ==
    ASSUME ClientInv, NEW l \in Lines, OnMessage(l) PROVE ClientInv'
<1> USE DEF ClientInv
<1> DEFINE box == lines[l].inbox
           e == Head(box)
<1>1. lines \in [Lines -> LineType] /\ box \in Seq(1 .. MaxEvents) /\ box # <<>> /\ lines[l].state = "open"
  BY Typed DEF OnMessage, LineType
<1>2. /\ e \in 1 .. MaxEvents /\ e = box[1] /\ Len(box) \in Nat /\ Len(box) >= 1
      /\ Tail(box) \in Seq(1 .. MaxEvents) /\ Len(Tail(box)) = Len(box) - 1
      /\ \A i \in 1 .. Len(Tail(box)) : Tail(box)[i] = box[i + 1]
  <2> HIDE DEF box
  <2>1. Len(box) \in Nat /\ Len(box) >= 1
    BY <1>1, EmptySeq
  <2>2. /\ e \in 1 .. MaxEvents /\ Tail(box) \in Seq(1 .. MaxEvents) /\ Len(Tail(box)) = Len(box) - 1
        /\ \A i \in 1 .. Len(Tail(box)) : Tail(box)[i] = box[i + 1]
    BY <1>1, HeadTailProperties DEF e
  <2>3. e = box[1]
    BY <1>1 DEF e
  <2> QED
    BY <2>1, <2>2, <2>3
<1>3. /\ events' = Shown(e) /\ UNCHANGED <<hook, deps, mounted, token, sent, overtaken, bounds>>
      /\ lines' = [lines EXCEPT ![l].inbox = Tail(box)]
  BY <1>1 DEF OnMessage
<1> HIDE DEF e
<1>4. /\ lines' \in [Lines -> LineType] /\ lines'[l].inbox = Tail(box)
      /\ \A k \in Lines : /\ lines'[k].state = lines[k].state /\ lines'[k].sub = lines[k].sub
                          /\ k # l => lines'[k] = lines[k]
  BY <1>1, <1>2, <1>3 DEF LineType
<1>5. /\ events' \in Seq(1 .. MaxEvents) /\ Len(events') <= MaxBuffer /\ Len(events') <= Len(events) + 1
      /\ \A i \in 1 .. Len(events') : events'[i] = IF i = 1 THEN e ELSE events[i - 1]
  BY <1>2, <1>3, Shows
<1>6. TypeOK'
  BY <1>3, <1>4, <1>5, Typed DEF TypeOK, LineType
<1>7. InboxInv'
  <2>1. \A i, j \in 1 .. Len(Tail(box)) : i < j => Tail(box)[i] < Tail(box)[j]
    BY <1>1, <1>2 DEF InboxInv, Newer
  <2>2. \A i \in 1 .. Len(Tail(box)) : Tail(box)[i] <= sent
    BY <1>1, <1>2 DEF InboxInv
  <2> QED
    BY <1>1, <1>3, <1>4, <2>1, <2>2 DEF InboxInv, Newer
<1>8. ASSUME overtaken = 0
      PROVE  /\ \A j \in 1 .. Len(events) : e > events[j] /\ events[j] <= sent
             /\ e <= sent
             /\ \A i \in 1 .. Len(Tail(box)) : Tail(box)[i] > e
  <2>1. 1 \in 1 .. Len(box)
    BY <1>2
  <2>2. \A i \in 1 .. Len(Tail(box)) : i + 1 \in 1 .. Len(box) /\ 1 < i + 1
    BY <1>2
  <2>3. Newer(box) /\ \A i \in 1 .. Len(box) : box[i] <= sent
    BY DEF InboxInv
  <2>4. \A i \in 1 .. Len(Tail(box)) : box[1] < box[i + 1]
    BY <2>1, <2>2, <2>3 DEF Newer
  <2>5. \A j \in 1 .. Len(events) : box[1] > events[j] /\ events[j] <= sent
    BY <1>8, <2>1 DEF EventInv
  <2>6. \A i \in 1 .. Len(box) : box[i] \in Nat
    BY <1>1, NumbersOf
  <2> HIDE DEF box
  <2>7. sent \in Nat /\ \A j \in 1 .. Len(events) : events[j] \in Nat
    BY NumbersOf, BoundsAssumption DEF TypeOK
  <2> QED
    BY <1>2, <2>1, <2>2, <2>3, <2>4, <2>5, <2>6, <2>7
<1>9. Len(events) \in Nat /\ (\A j \in 1 .. Len(events) : events[j] \in Nat) /\ e \in Nat
  BY <1>2, NumbersOf, BoundsAssumption DEF TypeOK
<1>10. EventInv'
  <2> SUFFICES ASSUME overtaken = 0 PROVE EventInv'
    BY <1>3 DEF EventInv
  <2>1. \A j \in 1 .. Len(events') : events'[j] <= sent
    BY <1>5, <1>8, <1>9
  <2>2. \A k \in Lines : k # l => lines'[k].inbox = <<>>
    BY <1>1, <1>4, LineOfMessage
  <2>3. \A i \in 1 .. Len(Tail(box)), j \in 1 .. Len(events) : Tail(box)[i] > events[j]
    <3>1. \A i \in 1 .. Len(Tail(box)) : Tail(box)[i] \in Nat
      BY <1>2, NumbersOf
    <3> HIDE DEF box
    <3> QED
      BY <1>8, <1>9, <3>1
  <2>4. \A i \in 1 .. Len(Tail(box)), j \in 1 .. Len(events') : Tail(box)[i] > events'[j]
    BY <1>5, <1>8, <1>9, <2>3
  <2> HIDE DEF box
  <2> QED
    BY <1>3, <1>4, <2>1, <2>2, <2>4 DEF EventInv
<1>11. EventsOnce'
  <2> SUFFICES ASSUME overtaken = 0, NEW i \in 1 .. Len(events'), NEW j \in 1 .. Len(events'), i < j
               PROVE  events'[i] > events'[j]
    BY <1>3, <1>5 DEF EventsOnce
  <2>1. j - 1 \in 1 .. Len(events) /\ events'[j] = events[j - 1]
    BY <1>5, <1>9
  <2>2. CASE i = 1
    BY <1>5, <1>8, <2>1, <2>2
  <2>3. CASE i # 1
    <3>1. i - 1 \in 1 .. Len(events) /\ events'[i] = events[i - 1] /\ i - 1 < j - 1
      BY <1>5, <1>9, <2>3
    <3>2. DOMAIN events = 1 .. Len(events)
      BY DEF TypeOK
    <3> QED
      BY <2>1, <3>1, <3>2 DEF EventsOnce
  <2> QED
    BY <2>2, <2>3
<1> QED
  BY <1>3, <1>4, <1>6, <1>7, <1>10, <1>11, OnlyMessages

LEMMA BroadcastKeepsAll ==
    ASSUME ClientInv, Broadcast PROVE ClientInv'
<1> USE DEF ClientInv
<1>1. lines \in [Lines -> LineType] /\ sent \in Nat /\ sent + 1 \in 1 .. MaxEvents
  BY Typed, BoundsAssumption DEF Broadcast, TypeOK
<1>2. UNCHANGED <<hook, deps, mounted, token, events, overtaken, bounds>> /\ sent' = sent + 1
  BY DEF Broadcast
<1> DEFINE after(k) == Append(lines[k].inbox, sent + 1)
<1>3. \A k \in Lines : /\ lines[k].inbox \in Seq(1 .. MaxEvents) /\ Len(lines[k].inbox) \in Nat
                      /\ after(k) \in Seq(1 .. MaxEvents) /\ Len(after(k)) = Len(lines[k].inbox) + 1
                      /\ \A i \in 1 .. Len(after(k)) :
                            after(k)[i] = IF i <= Len(lines[k].inbox) THEN lines[k].inbox[i] ELSE sent + 1
  <2> TAKE k \in Lines
  <2>1. lines[k].inbox \in Seq(1 .. MaxEvents)
    BY <1>1 DEF LineType
  <2> QED
    BY <1>1, <2>1
<1>4. \A k \in Lines : lines'[k] = IF lines[k].state = "open" THEN [lines[k] EXCEPT !.inbox = after(k)] ELSE lines[k]
  BY DEF Broadcast
<1> HIDE DEF after
<1>5. \A k \in Lines : /\ lines'[k] \in LineType
                      /\ lines'[k].state = lines[k].state /\ lines'[k].sub = lines[k].sub
                      /\ lines'[k].inbox = IF lines[k].state = "open" THEN after(k) ELSE lines[k].inbox
  BY <1>1, <1>3, <1>4 DEF LineType
<1>6. lines' \in [Lines -> LineType]
  BY <1>5 DEF Broadcast
<1>7. TypeOK'
  BY <1>1, <1>2, <1>6 DEF TypeOK, LineType
<1>8. \A k \in Lines : Newer(lines[k].inbox) /\ \A i \in 1 .. Len(lines[k].inbox) : lines[k].inbox[i] <= sent
  BY DEF InboxInv
<1>9. \A k \in Lines : \A i \in 1 .. Len(lines[k].inbox) : lines[k].inbox[i] \in Nat
  BY <1>3, NumbersOf
<1>10. \A k \in Lines : Newer(after(k)) /\ \A i \in 1 .. Len(after(k)) : after(k)[i] <= sent + 1
  <2> TAKE k \in Lines
  <2> DEFINE box == lines[k].inbox
             new == after(k)
  <2>1. /\ Len(box) \in Nat /\ Len(new) = Len(box) + 1
        /\ \A i \in 1 .. Len(new) : new[i] = IF i <= Len(box) THEN box[i] ELSE sent + 1
    BY <1>3
  <2>2. Newer(box) /\ \A i \in 1 .. Len(box) : box[i] <= sent /\ box[i] \in Nat
    BY <1>8, <1>9
  <2> HIDE DEF box, new
  <2>3. \A i \in 1 .. Len(new) : new[i] <= sent + 1
    BY <1>1, <2>1, <2>2
  <2>4. Newer(new)
    BY <1>1, <2>1, <2>2 DEF Newer
  <2> QED
    BY <2>3, <2>4 DEF new
<1>11. InboxInv'
  <2>1. \A k \in Lines : Newer(lines'[k].inbox) /\ \A i \in 1 .. Len(lines'[k].inbox) : lines'[k].inbox[i] <= sent'
    BY <1>1, <1>2, <1>5, <1>8, <1>9, <1>10
  <2>2. \A k \in Lines : lines'[k].state # "open" => lines'[k].inbox = <<>>
    BY <1>5 DEF InboxInv
  <2> QED
    BY <2>1, <2>2 DEF InboxInv, Newer
<1>12. EventInv'
  <2> SUFFICES ASSUME overtaken = 0 PROVE EventInv'
    BY <1>2 DEF EventInv
  <2>1. Len(events) \in Nat /\ \A j \in 1 .. Len(events) : events[j] \in Nat /\ events[j] <= sent
    BY NumbersOf DEF TypeOK, EventInv
  <2>2. \A k \in Lines : \A i \in 1 .. Len(lines[k].inbox), j \in 1 .. Len(events) : lines[k].inbox[i] > events[j]
    BY DEF EventInv
  <2>3. \A k \in Lines : \A i \in 1 .. Len(after(k)), j \in 1 .. Len(events) : after(k)[i] > events[j]
    <3> TAKE k \in Lines
    <3> DEFINE box == lines[k].inbox
               new == after(k)
    <3>1. /\ Len(box) \in Nat /\ Len(new) = Len(box) + 1
          /\ \A i \in 1 .. Len(new) : new[i] = IF i <= Len(box) THEN box[i] ELSE sent + 1
      BY <1>3
    <3>2. \A i \in 1 .. Len(box), j \in 1 .. Len(events) : box[i] > events[j]
      BY <2>2
    <3> HIDE DEF box, new
    <3> SUFFICES ASSUME NEW i \in 1 .. Len(new), NEW j \in 1 .. Len(events) PROVE new[i] > events[j]
      BY DEF new
    <3>3. events[j] \in Nat /\ events[j] <= sent
      BY <2>1
    <3>4. CASE i <= Len(box)
      BY <3>1, <3>2, <3>4
    <3>5. CASE ~(i <= Len(box))
      BY <1>1, <3>1, <3>3, <3>5
    <3> QED
      BY <3>4, <3>5
  <2>4. \A k \in Lines : \A i \in 1 .. Len(lines'[k].inbox), j \in 1 .. Len(events) : lines'[k].inbox[i] > events[j]
    BY <1>5, <2>2, <2>3
  <2> QED
    BY <1>1, <1>2, <2>1, <2>4 DEF EventInv
<1>13. EventsOnce'
  BY <1>2 DEF EventsOnce
<1> QED
  BY <1>2, <1>5, <1>6, <1>7, <1>11, <1>12, <1>13, OnlyMessages
-----------------------------------------------------------------------------
(* The actions of the page and of lost connections.                        *)

LEMMA LineActionsKeepAll ==
    ASSUME ClientInv, NEW l \in Lines,
           \/ OnOpen(l) \/ OnRefused(l) \/ OnMessage(l) \/ OnClose(l)
           \/ LoseConnection(l) \/ FireTimer(l) \/ ConstructorThrows(l)
    PROVE  ClientInv'
<1>1. TypeOK /\ RefsInv /\ InboxInv
  BY DEF ClientInv
<1>2. CASE OnOpen(l)
  BY <1>1, <1>2, OpeningMoves, LineKeepsAll
<1>3. CASE OnRefused(l)
  BY <1>1, <1>3, RefusalMoves, LineKeepsAll
<1>4. CASE OnMessage(l)
  BY <1>4, MessageKeepsAll
<1>5. CASE OnClose(l)
  <2>1. UNCHANGED <<deps, mounted, token, events, sent, overtaken>> /\ HandleClose(l) /\ lines[l].state = "closing"
    BY <1>5 DEF OnClose
  <2>2. bounds' \in BoundsType
    BY <1>1, <1>5, Typed DEF OnClose
  <2> QED
    BY <1>1, <2>1, <2>2, ClosingMoves, LineKeepsAll
<1>6. CASE LoseConnection(l)
  <2>1. UNCHANGED <<deps, mounted, token, events, sent, overtaken>> /\ HandleClose(l)
        /\ lines[l].state \in {"connecting", "open"}
    BY <1>6 DEF LoseConnection, Sockets, InState
  <2>2. bounds \in BoundsType
    BY <1>1, Typed
  <2>3. bounds.failures + 1 \in 0 .. MaxFailures
    BY <1>6, <2>2, BoundsAssumption DEF LoseConnection, BoundsType
  <2>4. bounds' \in BoundsType
    BY <1>6, <2>2, <2>3 DEF LoseConnection, BoundsType
  <2> QED
    BY <1>1, <2>1, <2>4, ClosingMoves, LineKeepsAll
<1>7. CASE FireTimer(l)
  BY <1>1, <1>7, TimerMoves, LineKeepsAll
<1>8. CASE ConstructorThrows(l)
  BY <1>1, <1>8, ThrowMoves, LineKeepsAll
<1> QED
  BY <1>2, <1>3, <1>4, <1>5, <1>6, <1>7, <1>8

\* Without a socket the button does nothing but reset the back-off.
LEMMA ReconnectKeepsAll ==
    ASSUME ClientInv, Reconnect PROVE ClientInv'
<1>1. CASE hook.ws # NoLine
  <2>1. hook.ws \in Lines
    BY <1>1 DEF ClientInv, TypeOK
  <2> QED
    BY <1>1, <2>1, ReconnectMoves, LineKeepsAll DEF ClientInv
<1>2. CASE hook.ws = NoLine
  <2> USE DEF ClientInv
  <2>1. hook \in HookType /\ lines \in [Lines -> LineType] /\ bounds \in BoundsType
    BY Typed
  <2>2. bounds.clicks + 1 \in 0 .. MaxClicks
    BY <2>1, BoundsAssumption DEF Reconnect, BoundsType
  <2>3. bounds' \in BoundsType
    BY <2>1, <2>2 DEF Reconnect, BoundsType
  <2>4. hook' \in HookType /\ hook'.status = hook.status /\ hook'.ws = hook.ws /\ hook'.timer = hook.timer
        /\ hook'.closedByUs = hook.closedByUs
    BY <2>1, BoundsAssumption DEF Reconnect, HookType
  <2>5. UNCHANGED <<lines, deps, mounted, token, events, sent, overtaken>>
    BY <1>2 DEF Reconnect
  <2>6. TypeOK'
    BY <2>3, <2>4, <2>5 DEF TypeOK, HookType, BoundsType
  <2>7. Busy' = Busy /\ Live' = Live
    BY <2>5 DEF Busy, Live, InState
  <2>8. RefsInv'
    BY <2>4, <2>5 DEF RefsInv, Wanted
  <2>9. LeakInv'
    BY <2>5, <2>7 DEF LeakInv, AskedFor, Wanted
  <2>10. InboxInv' /\ EventInv' /\ EventsOnce'
    BY <2>5 DEF InboxInv, EventInv, EventsOnce
  <2>11. StatusInv' /\ StatusIsTrue'
    BY <2>4, <2>5, <2>7 DEF StatusInv, StatusIsTrue, InState
  <2> QED
    BY <2>6, <2>8, <2>9, <2>10, <2>11
<1> QED
  BY <1>1, <1>2

LEMMA ClearKeepsAll ==
    ASSUME ClientInv, Clear PROVE ClientInv'
<1> USE DEF ClientInv
<1>1. events' = <<>> /\ UNCHANGED <<hook, lines, deps, mounted, token, sent, overtaken, bounds>>
  BY DEF Clear
<1>2. events' \in Seq(1 .. MaxEvents) /\ Len(events') = 0 /\ DOMAIN events' = {}
  BY <1>1
<1>3. TypeOK'
  BY <1>1, <1>2, BoundsAssumption DEF TypeOK
<1>4. InboxInv' /\ EventInv' /\ EventsOnce'
  BY <1>1, <1>2 DEF InboxInv, EventInv, EventsOnce
<1>5. RefsInv' /\ LeakInv' /\ StatusInv' /\ StatusIsTrue'
  BY <1>1, OnlyMessages, Typed
<1> QED
  BY <1>3, <1>4, <1>5

-----------------------------------------------------------------------------
(* The clean-up of the effect.                                             *)

\* The lines that the clean-up leaves: busy ones, live ones, and sockets whose close event is still to come.
LeftBusy == {l \in Lines : CleanedLines[l].state # "free"}
LeftLive == {l \in Lines : CleanedLines[l].state \in {"connecting", "open", "waiting"}}
LeftClosing == {l \in Lines : CleanedLines[l].state = "closing"}

\* What a mounted hook was asked for is gone, or is a socket that closes.
LEMMA CleanUpCounts ==
    ASSUME ClientInv, mounted
    PROVE  /\ IsFiniteSet(LeftBusy) /\ Cardinality(LeftBusy) \in Nat /\ Cardinality(LeftClosing) \in Nat
           /\ Cardinality(LeftLive) \in Nat
           /\ Cardinality(LeftBusy) <= overtaken + Cardinality(LeftClosing)
           /\ Cardinality(LeftLive) <= overtaken
<1> USE DEF ClientInv
<1>1. hook \in HookType /\ lines \in [Lines -> LineType] /\ overtaken \in Nat
  BY Typed DEF TypeOK
<1>2. LeftBusy \subseteq Busy
  <2> SUFFICES ASSUME NEW l \in Lines, CleanedLines[l].state # "free" PROVE l \in Busy
    BY DEF LeftBusy
  <2>1. CleanedLines[l].state \in {"connecting", "open", "waiting"} \/ CleanedLines[l].state = "closing"
    BY CleansUp DEF LineType, States
  <2>2. l = hook.ws \/ CleanedLines[l] = lines[l]
    BY <2>1, CleansUp
  <2>3. CASE l = hook.ws
    BY <2>3, RefsAssumption DEF RefsInv, Busy, InState
  <2>4. CASE CleanedLines[l] = lines[l]
    BY <2>1, <2>4 DEF Busy, InState
  <2> QED
    BY <2>2, <2>3, <2>4
<1>3. LeftLive \subseteq LeftBusy /\ LeftClosing \subseteq LeftBusy
  BY DEF LeftLive, LeftBusy, LeftClosing
<1>4. \A S : S \subseteq Busy => IsFiniteSet(S) /\ Cardinality(S) \in Nat /\ Cardinality(S) <= Cardinality(Busy)
  BY FewLines, FS_Subset, FS_CardinalityType
<1>5. /\ IsFiniteSet(LeftBusy) /\ IsFiniteSet(LeftLive) /\ IsFiniteSet(LeftClosing)
      /\ Cardinality(LeftBusy) \in Nat /\ Cardinality(LeftLive) \in Nat /\ Cardinality(LeftClosing) \in Nat
      /\ Cardinality(LeftBusy) <= Cardinality(Busy) /\ Cardinality(LeftLive) <= Cardinality(Busy)
      /\ Cardinality(Busy) \in Nat
  BY <1>2, <1>3, <1>4, FewLines
<1>6. Cardinality(Busy) <= AskedFor + overtaken
  BY DEF LeakInv
<1>7. \A x \in Busy : \A S : S \subseteq Busy \ {x} => Cardinality(S) <= Cardinality(Busy) - 1
  <2> SUFFICES ASSUME NEW x \in Busy, NEW S, S \subseteq Busy \ {x} PROVE Cardinality(S) <= Cardinality(Busy) - 1
    OBVIOUS
  <2>1. Cardinality(Busy \ {x}) = Cardinality(Busy) - 1 /\ IsFiniteSet(Busy \ {x})
    BY FewLines, FS_RemoveElement
  <2> QED
    BY <2>1, FS_Subset
<1>8. CASE ~Wanted
  BY <1>1, <1>5, <1>6, <1>8 DEF AskedFor
<1>9. CASE Wanted /\ hook.ws # NoLine
  <2>1. hook.ws \in Busy /\ lines[hook.ws].state # "waiting"
    BY <1>1, <1>9 DEF RefsInv, Busy, InState, HookType
  <2>2. CleanedLines[hook.ws].state = "closing"
    BY <1>9, <2>1, CleansUp
  <2>3. hook.ws \in LeftClosing /\ hook.ws \notin LeftLive
    BY <2>1, <2>2 DEF LeftClosing, LeftLive, Busy, InState
  <2>4. Cardinality(LeftClosing) # 0
    BY <1>5, <2>3, FS_EmptySet
  <2>5. Cardinality(LeftLive) <= Cardinality(Busy) - 1
    BY <1>2, <1>3, <1>7, <2>1, <2>3
  <2> QED
    BY <1>1, <1>5, <1>6, <1>9, <2>4, <2>5 DEF AskedFor
<1>10. CASE Wanted /\ hook.ws = NoLine
  <2>1. hook.timer # NoLine /\ lines[hook.timer].state = "waiting"
    BY <1>10 DEF RefsInv
  <2>2. hook.timer \in Busy
    BY <1>1, <2>1 DEF Busy, InState, HookType
  <2>3. CleanedLines[hook.timer].state = "free"
    BY <2>1, CleansUp
  <2>4. hook.timer \notin LeftBusy
    BY <2>3 DEF LeftBusy
  <2>5. Cardinality(LeftBusy) <= Cardinality(Busy) - 1 /\ Cardinality(LeftLive) <= Cardinality(Busy) - 1
    BY <1>2, <1>3, <1>7, <2>2, <2>4
  <2> QED
    BY <1>1, <1>5, <1>6, <1>10, <2>5 DEF AskedFor
<1> QED
  BY <1>5, <1>8, <1>9, <1>10

LEMMA CleanUpDrops ==
    ASSUME ClientInv
    PROVE  \A l \in Lines : /\ CleanedLines[l].inbox \in {<<>>, lines[l].inbox}
                            /\ CleanedLines[l].state # "open" => CleanedLines[l].inbox = <<>>
BY CleansUp DEF ClientInv, InboxInv

\* The page goes away, or the session ends.
LEMMA LeavingKeepsAll ==
    ASSUME ClientInv, mounted, mounted' = FALSE, token' \in BOOLEAN, hook' = CleanedHook, lines' = CleanedLines,
           UNCHANGED <<deps, events, sent, overtaken, bounds>>
    PROVE  ClientInv'
<1> USE DEF ClientInv
<1>1. hook' \in HookType /\ lines' \in [Lines -> LineType] /\ hook'.ws = NoLine /\ hook'.closedByUs
  BY CleansUp
<1>2. TypeOK'
  BY <1>1 DEF TypeOK, HookType, LineType
<1>3. RefsInv'
  BY <1>1 DEF RefsInv, Wanted
<1>4. Live' = LeftLive
  BY DEF Live, InState, LeftLive
<1>5. LeakInv'
  BY <1>4, CleanUpCounts DEF LeakInv, Wanted, TypeOK
<1>6. InboxInv' /\ EventInv' /\ EventsOnce'
  BY CleanUpDrops, MessagesKept
<1>7. StatusInv' /\ StatusIsTrue'
  BY DEF StatusInv, StatusIsTrue
<1> QED
  BY <1>2, <1>3, <1>5, <1>6, <1>7

\* A new run of the effect: nothing is left unless a close was overtaken.
LEMMA Reruns ==
    ASSUME ClientInv, NEW d \in Subs \cup {Off}, Rerun(d)
    PROVE  /\ mounted /\ mounted' /\ token /\ token' /\ deps' = d /\ UNCHANGED <<events, sent>>
           /\ bounds' \in BoundsType
           /\ overtaken' \in Nat /\ (overtaken' = 0 => overtaken = 0)
           /\ IsFiniteSet(LeftBusy) /\ Cardinality(LeftBusy) \in Nat /\ Cardinality(LeftBusy) <= overtaken'
           /\ overtaken' = 0 => LeftBusy = {}
<1> USE DEF ClientInv
<1>1. mounted /\ deps' = d /\ overtaken' = overtaken + Cardinality(LeftClosing) /\ overtaken \in Nat
      /\ UNCHANGED <<mounted, token, events, sent>> /\ token
  BY DEF Rerun, LeftClosing, TypeOK, RefsInv
<1>2. bounds' \in BoundsType
  <2>1. bounds \in BoundsType
    BY Typed
  <2>2. bounds.changes + 1 \in 0 .. MaxChanges
    BY <2>1, BoundsAssumption DEF Rerun, BoundsType
  <2> QED
    BY <2>1, <2>2 DEF Rerun, BoundsType
<1>3. /\ overtaken' \in Nat /\ (overtaken' = 0 => overtaken = 0)
      /\ IsFiniteSet(LeftBusy) /\ Cardinality(LeftBusy) \in Nat /\ Cardinality(LeftBusy) <= overtaken'
  BY <1>1, CleanUpCounts
<1>4. overtaken' = 0 => LeftBusy = {}
  BY <1>3, FS_EmptySet
<1> QED
  BY <1>1, <1>2, <1>3, <1>4

LEMMA DisableKeepsAll ==
    ASSUME ClientInv, Disable PROVE ClientInv'
<1> USE DEF ClientInv
<1>1. /\ mounted /\ mounted' /\ token' /\ deps' = Off /\ UNCHANGED <<events, sent>>
      /\ bounds' \in BoundsType /\ overtaken' \in Nat /\ (overtaken' = 0 => overtaken = 0)
      /\ Cardinality(LeftBusy) <= overtaken' /\ (overtaken' = 0 => LeftBusy = {})
  BY Reruns DEF Disable
<1>2. mounted' = TRUE /\ token' = TRUE
  BY <1>1 DEF Disable, Rerun, TypeOK
<1>3. lines' = CleanedLines /\ hook' = [RestartedHook EXCEPT !.status = "idle"]
  BY DEF Disable
<1>4. hook' \in HookType /\ hook'.ws = NoLine /\ ~hook'.closedByUs /\ hook'.status = "idle"
  BY <1>3, CleansUp DEF HookType, Statuses
<1>5. TypeOK'
  BY <1>1, <1>2, <1>3, <1>4, CleansUp DEF TypeOK, HookType, LineType, BoundsType
<1>6. RefsInv'
  BY <1>1, <1>4 DEF RefsInv, Wanted
<1>7. Busy' = LeftBusy
  BY <1>3, CleansUp DEF Busy, InState, LeftBusy, LineType, States
<1>8. LeakInv'
  BY <1>1, <1>7 DEF LeakInv, AskedFor, Wanted
<1>9. InboxInv' /\ EventInv' /\ EventsOnce'
  BY <1>1, <1>3, CleanUpDrops, MessagesKept
<1>10. StatusInv' /\ StatusIsTrue'
  <2>1. Live' \subseteq Busy'
    BY DEF Live, Busy, InState
  <2> QED
    BY <1>1, <1>4, <1>7, <2>1 DEF StatusInv, StatusIsTrue
<1> QED
  BY <1>5, <1>6, <1>8, <1>9, <1>10

LEMMA ResubscribeKeepsAll ==
    ASSUME ClientInv, NEW d \in Subs, Resubscribe(d) PROVE ClientInv'
<1> USE DEF ClientInv
<1>1. PICK l \in Lines : CleanedLines[l].state = "free" /\ Connect(RestartedHook, CleanedLines, l, d)
  BY DEF Resubscribe
<1>2. /\ mounted /\ mounted' /\ token /\ token' /\ deps' = d /\ UNCHANGED <<events, sent>>
      /\ bounds' \in BoundsType /\ overtaken' \in Nat /\ (overtaken' = 0 => overtaken = 0)
      /\ IsFiniteSet(LeftBusy) /\ Cardinality(LeftBusy) \in Nat
      /\ Cardinality(LeftBusy) <= overtaken' /\ (overtaken' = 0 => LeftBusy = {})
  BY Reruns DEF Resubscribe
<1>3. mounted' = TRUE /\ token' = TRUE /\ d # Off
  BY <1>2, RefsAssumption DEF Resubscribe, Rerun, TypeOK
<1>4. /\ hook' \in HookType /\ lines' \in [Lines -> LineType]
      /\ hook'.closedByUs = RestartedHook.closedByUs
      /\ \A k \in Lines : k # l => lines'[k] = CleanedLines[k]
      /\ lines'[l].inbox = <<>>
      /\ hook'.ws = l /\ hook'.status \in {"connecting", "reconnecting"}
      /\ lines'[l].state = "connecting" /\ lines'[l].sub = d
  <2>1. RestartedHook \in HookType /\ CleanedLines \in [Lines -> LineType] /\ token \in BOOLEAN
    BY CleansUp DEF TypeOK
  <2> QED
    BY <1>1, <1>2, <2>1, Connects
<1>5. TypeOK'
  BY <1>2, <1>3, <1>4 DEF TypeOK, HookType, LineType, BoundsType
<1>6. RefsInv'
  BY <1>3, <1>4, CleansUp, RefsAssumption DEF RefsInv
<1>7. Busy' \subseteq LeftBusy \cup {l}
  BY <1>4 DEF Busy, InState, LeftBusy
<1>8. Cardinality(Busy') <= overtaken' + 1
  <2>1. /\ IsFiniteSet(LeftBusy \cup {l}) /\ Cardinality(LeftBusy \cup {l}) \in Nat
        /\ Cardinality(LeftBusy \cup {l}) <= Cardinality(LeftBusy) + 1
    <3>1. IsFiniteSet(LeftBusy \cup {l})
      BY <1>2, FS_AddElement
    <3>2. Cardinality(LeftBusy \cup {l}) \in {Cardinality(LeftBusy), Cardinality(LeftBusy) + 1}
      BY <1>2, FS_AddElement
    <3> QED
      BY <1>2, <3>1, <3>2
  <2>2. Cardinality(Busy') <= Cardinality(LeftBusy \cup {l})
    BY <1>7, <2>1, FS_Subset
  <2> QED
    BY <1>2, <2>1, <2>2, FewLines
<1>9. AskedFor' = 1 /\ Wanted'
  BY <1>2, <1>3 DEF AskedFor, Wanted
<1>10. LeakInv'
  BY <1>2, <1>3, <1>8, <1>9 DEF LeakInv
<1>11. InboxInv' /\ EventInv' /\ EventsOnce'
  <2>1. \A k \in Lines : /\ lines'[k].inbox \in {<<>>, lines[k].inbox}
                         /\ lines'[k].state # "open" => lines'[k].inbox = <<>>
    BY <1>4, CleanUpDrops
  <2> QED
    BY <1>2, <2>1, MessagesKept
<1>12. StatusInv' /\ StatusIsTrue'
  <2> SUFFICES ASSUME overtaken' = 0 PROVE StatusInv' /\ StatusIsTrue'
    BY DEF StatusInv, StatusIsTrue
  <2>1. Busy' \subseteq {l}
    BY <1>2, <1>7
  <2>2. StatusInv'
    BY <1>2, <1>4, <2>1 DEF StatusInv
  <2> QED
    BY <1>2, <1>4, <2>2 DEF StatusIsTrue, InState
<1> QED
  BY <1>5, <1>6, <1>10, <1>11, <1>12

-----------------------------------------------------------------------------
LEMMA InitInv == Init => ClientInv
<1> SUFFICES ASSUME Init PROVE ClientInv
  OBVIOUS
<1> DEFINE l == CHOOSE k \in Lines : TRUE
           new == [state |-> "connecting", sub |-> deps, inbox |-> <<>>]
<1>1. l \in Lines
  BY LinesAssumption
<1>2. deps \in Subs /\ deps # Off /\ mounted = TRUE /\ token = TRUE /\ events = <<>> /\ sent = 0 /\ overtaken = 0
  BY RefsAssumption DEF Init
<1>3. lines = [k \in Lines |-> IF k = l THEN new ELSE Free]
  BY DEF Init
<1>4. hook = [ws |-> l, timer |-> NoLine, closedByUs |-> FALSE, attempts |-> 0, status |-> "connecting"]
  BY DEF Init
<1>5. hook \in HookType /\ hook.ws = l /\ ~hook.closedByUs /\ hook.status = "connecting"
  BY <1>1, <1>4, BoundsAssumption DEF HookType, Statuses
<1>6. bounds \in BoundsType
  BY BoundsAssumption DEF Init, BoundsType
<1>7. new \in LineType /\ new.state = "connecting" /\ new.sub = deps /\ new.inbox = <<>>
  BY <1>2 DEF LineType, States
<1> HIDE DEF l, new
<1>8. /\ lines \in [Lines -> LineType] /\ lines[l].state = "connecting" /\ lines[l].sub = deps
      /\ \A k \in Lines : k # l => lines[k].state = "free"
      /\ \A k \in Lines : lines[k].inbox = <<>>
  BY <1>1, <1>3, <1>7, FreeTyped
<1>9. Busy = {l} /\ Live = {l}
  BY <1>1, <1>8 DEF Busy, Live, InState
<1>10. Cardinality({l}) = 1
  BY FS_Singleton
<1>11. TypeOK
  BY <1>2, <1>5, <1>6, <1>8, BoundsAssumption DEF TypeOK, HookType, LineType, BoundsType
<1>12. RefsInv
  BY <1>2, <1>5, <1>8, <1>1, RefsAssumption DEF RefsInv
<1>13. LeakInv
  BY <1>2, <1>9, <1>10 DEF LeakInv, AskedFor, Wanted
<1>14. InboxInv /\ EventInv /\ EventsOnce
  BY <1>2, <1>8 DEF InboxInv, EventInv, EventsOnce, Newer
<1>15. StatusInv /\ StatusIsTrue
  BY <1>1, <1>5, <1>8, <1>9 DEF StatusInv, StatusIsTrue, InState
<1> QED
  BY <1>11, <1>12, <1>13, <1>14, <1>15 DEF ClientInv

LEMMA StepInv == ClientInv /\ [Next]_vars => ClientInv'
<1> SUFFICES ASSUME ClientInv, [Next]_vars PROVE ClientInv'
  OBVIOUS
<1>1. CASE Disable
  BY <1>1, DisableKeepsAll
<1>2. CASE \E d \in Subs : Resubscribe(d)
  BY <1>2, ResubscribeKeepsAll
<1>3. CASE \E l \in Lines : OnOpen(l) \/ OnRefused(l) \/ OnMessage(l) \/ OnClose(l)
  BY <1>3, LineActionsKeepAll
<1>4. CASE \E l \in Lines : LoseConnection(l) \/ FireTimer(l) \/ ConstructorThrows(l)
  BY <1>4, LineActionsKeepAll
<1>5. CASE Unmount
  BY <1>5, LeavingKeepsAll DEF Unmount, ClientInv, TypeOK
<1>6. CASE Logout
  BY <1>6, LeavingKeepsAll DEF Logout, ClientInv, TypeOK
<1>7. CASE Reconnect
  BY <1>7, ReconnectKeepsAll
<1>8. CASE Clear
  BY <1>8, ClearKeepsAll
<1>9. CASE Broadcast
  BY <1>9, BroadcastKeepsAll
<1>10. CASE UNCHANGED vars
  <2>1. UNCHANGED <<hook, lines, deps, mounted, token, events, sent, overtaken, bounds>>
    BY <1>10 DEF vars
  <2>2. RefsInv' /\ LeakInv' /\ StatusInv' /\ StatusIsTrue'
    BY <2>1, OnlyMessages, Typed DEF ClientInv
  <2>3. TypeOK' /\ InboxInv' /\ EventInv' /\ EventsOnce'
    BY <2>1 DEF ClientInv, TypeOK, InboxInv, EventInv, EventsOnce
  <2> QED
    BY <2>2, <2>3 DEF ClientInv
<1> QED
  BY <1>1, <1>2, <1>3, <1>4, <1>5, <1>6, <1>7, <1>8, <1>9, <1>10 DEF Next

LEMMA ClientKeepsInv == Spec => []ClientInv
<1>1. Init => ClientInv
  BY InitInv
<1>2. ClientInv /\ [Next]_vars => ClientInv'
  BY StepInv
<1> QED
  BY <1>1, <1>2, PTL DEF Spec

\* The refs, the lines and the buffer keep their types; the buffer never exceeds MAX_BUFFER and the back-off its cap.
THEOREM RealtimeTypeCorrect == Spec => []TypeOK
<1>1. ClientInv => TypeOK
  BY DEF ClientInv
<1> QED
  BY <1>1, ClientKeepsInv, PTL

\* However many lines there are, every socket or timer beyond the one the page asks for goes back to a close event
\* that a later run of the effect has overtaken.
THEOREM LeaksAreExplained == Spec => []LeaksWereOvertaken
<1>1. ClientInv => LeaksWereOvertaken
  BY LeaksAreBounded DEF ClientInv
<1> QED
  BY <1>1, ClientKeepsInv, PTL

\* Unless a close was overtaken, the page shows every event once and the newest first, through all losses,
\* reconnections and changes of the subscription.
THEOREM EventsAreShownOnce == Spec => []EventsOnce
<1>1. ClientInv => EventsOnce
  BY DEF ClientInv
<1> QED
  BY <1>1, ClientKeepsInv, PTL

\* Unless a close was overtaken, the status of a mounted hook is that of the line that serves it.
THEOREM StatusesAreTrue == Spec => []StatusIsTrue
<1>1. ClientInv => StatusIsTrue
  BY DEF ClientInv
<1> QED
  BY <1>1, ClientKeepsInv, PTL
=============================================================================
