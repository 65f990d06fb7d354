--------------------------- MODULE RealtimeClient ---------------------------
(***************************************************************************)
(* The realtime hooks of the web UI: useRealtime and useQueryRealtime, one *)
(* mounted instance of either, and the sockets the browser keeps for it.   *)
(*                                                                         *)
(* A line is what starts with one call of connect() by the effect: its     *)
(* socket, the timer that its onclose schedules, the socket that timer     *)
(* opens, and so on.  The closures of a line keep the dependencies (deps)  *)
(* they were created with; the refs of the hook are shared by all lines.   *)
(***************************************************************************)
EXTENDS Naturals, Sequences, FiniteSets

CONSTANTS
    Lines,       \* names for the lines
    Subs,        \* what can be subscribed to: a project with its channels or query
    Off,         \* the dependencies of a hook that is not enabled
    NoLine,      \* an empty ref
    MaxBuffer,   \* MAX_BUFFER
    MaxAttempts, \* attempts from which the back-off no longer grows
    MaxEvents,   \* bound: broadcasts of the server
    MaxChanges,  \* bound: changes of the dependencies
    MaxFailures, \* bound: lost connections
    MaxClicks    \* bound: presses of the reconnect button

ASSUME RefsAssumption == NoLine \notin Lines /\ Off \notin Subs
ASSUME LinesAssumption == Lines # {} /\ IsFiniteSet(Lines)
ASSUME BoundsAssumption ==
    /\ MaxBuffer \in Nat \ {0} /\ MaxAttempts \in Nat \ {0}
    /\ MaxEvents \in Nat /\ MaxChanges \in Nat /\ MaxFailures \in Nat /\ MaxClicks \in Nat

VARIABLES
    hook,      \* the refs and the status of the hook
    lines,     \* state, dependencies and undelivered messages of every line
    deps,      \* the dependencies of the last render, or Off
    mounted,   \* the component that calls the hook is on the page
    token,     \* the session has a token
    events,    \* the buffer, newest first
    sent,      \* broadcasts so far
    overtaken, \* closing sockets that a run of the effect has left behind, with repetitions
    bounds     \* changes, failures and clicks so far

vars == <<hook, lines, deps, mounted, token, events, sent, overtaken, bounds>>

States == {"free", "waiting", "connecting", "open", "closing"}
Statuses == {"idle", "connecting", "open", "closed", "reconnecting", "error"}

TypeOK ==
    /\ hook \in [ws : Lines \cup {NoLine}, timer : Lines \cup {NoLine}, closedByUs : BOOLEAN,
                 attempts : 0 .. MaxAttempts, status : Statuses]
    /\ lines \in [Lines -> [state : States, sub : Subs \cup {Off}, inbox : Seq(1 .. MaxEvents)]]
    /\ deps \in Subs \cup {Off}
    /\ mounted \in BOOLEAN /\ token \in BOOLEAN
    /\ events \in Seq(1 .. MaxEvents) /\ Len(events) <= MaxBuffer
    /\ sent \in 0 .. MaxEvents
    /\ overtaken \in Nat
    /\ bounds \in [changes : 0 .. MaxChanges, failures : 0 .. MaxFailures, clicks : 0 .. MaxClicks]

Free == [state |-> "free", sub |-> Off, inbox |-> <<>>]
InState(S) == {l \in Lines : lines[l].state \in S}
Sockets == InState({"connecting", "open"})
Live == InState({"connecting", "open", "waiting"})

\* connect(): without a token the line ends, otherwise a socket opens and the ref moves to it.
Connecting(h) ==
    IF ~token THEN [h EXCEPT !.status = "closed"]
    ELSE [h EXCEPT !.status = IF h.attempts = 0 THEN "connecting" ELSE "reconnecting"]
Connect(h, ls, l, d) ==
    /\ hook' = IF token THEN [Connecting(h) EXCEPT !.ws = l] ELSE Connecting(h)
    /\ lines' = [ls EXCEPT ![l] =
           IF token THEN [state |-> "connecting", sub |-> d, inbox |-> <<>>] ELSE Free]

\* scheduleReconnect(): the timer of line l is pending and the ref of the timer moves to it.
\* Mutant: the status stays.
ScheduleSilently(h, l) ==
    /\ hook' = [h EXCEPT !.attempts = IF @ < MaxAttempts THEN @ + 1 ELSE @, !.timer = l]
    /\ lines' = [lines EXCEPT ![l].state = "waiting", ![l].inbox = <<>>]
ScheduleReconnect(h, l) ==
    /\ hook' = [h EXCEPT !.attempts = IF @ < MaxAttempts THEN @ + 1 ELSE @,
                         !.status = "reconnecting", !.timer = l]
    /\ lines' = [lines EXCEPT ![l].state = "waiting", ![l].inbox = <<>>]

\* The clean-up of the effect: it ends what the refs point to and nothing else.
CleanedHook == [hook EXCEPT !.closedByUs = TRUE, !.timer = NoLine, !.ws = NoLine]
\* Mutants: the timer stays; the socket stays.
CleanedLinesWithTimer ==
    [l \in Lines |-> IF l = hook.ws THEN [lines[l] EXCEPT !.state = "closing", !.inbox = <<>>]
                     ELSE lines[l]]
CleanedLinesWithSocket ==
    [l \in Lines |-> IF l = hook.timer /\ lines[l].state = "waiting" THEN Free ELSE lines[l]]
CleanedLines ==
    [l \in Lines |->
        IF l = hook.timer /\ lines[l].state = "waiting" THEN Free
        ELSE IF l = hook.ws THEN [lines[l] EXCEPT !.state = "closing", !.inbox = <<>>]
        ELSE lines[l]]

-----------------------------------------------------------------------------
(* The first effect has run. *)
Init ==
    /\ deps \in Subs
    /\ LET l == CHOOSE l \in Lines : TRUE
       IN /\ lines = [k \in Lines |-> IF k = l
                         THEN [state |-> "connecting", sub |-> deps, inbox |-> <<>>] ELSE Free]
          /\ hook = [ws |-> l, timer |-> NoLine, closedByUs |-> FALSE, attempts |-> 0,
                     status |-> "connecting"]
    /\ mounted = TRUE /\ token = TRUE
    /\ events = <<>> /\ sent = 0 /\ overtaken = 0
    /\ bounds = [changes |-> 0, failures |-> 0, clicks |-> 0]

\* React runs the clean-up of the old effect and the new effect in one commit.  The new effect
\* resets closedByUs although the close events of the old socket are still to come.
Rerun(d) ==
    /\ mounted /\ d # deps /\ bounds.changes < MaxChanges
    /\ deps' = d
    /\ overtaken' = overtaken + Cardinality({l \in Lines : CleanedLines[l].state = "closing"})
    /\ bounds' = [bounds EXCEPT !.changes = @ + 1]
    /\ UNCHANGED <<mounted, token, events, sent>>
RestartedHook == [CleanedHook EXCEPT !.closedByUs = FALSE]

(* Other channels, another query, mode or project. *)
Resubscribe(d) ==
    /\ Rerun(d)
    /\ \E l \in Lines : CleanedLines[l].state = "free" /\ Connect(RestartedHook, CleanedLines, l, d)

(* enabled goes off, or there is no query or project any more. *)
Disable ==
    /\ Rerun(Off)
    /\ hook' = [RestartedHook EXCEPT !.status = "idle"]
    /\ lines' = CleanedLines

Unmount ==
    /\ mounted
    /\ mounted' = FALSE
    /\ hook' = CleanedHook
    /\ lines' = CleanedLines
    /\ UNCHANGED <<deps, token, events, sent, overtaken, bounds>>

(* clear() of the session: RequireAuth takes the page away in the same render. *)
Logout ==
    /\ mounted
    /\ token' = FALSE /\ mounted' = FALSE
    /\ hook' = CleanedHook
    /\ lines' = CleanedLines
    /\ UNCHANGED <<deps, events, sent, overtaken, bounds>>

(* ws.onopen, in the same task the subscribe message is sent. *)
OnOpen(l) ==
    /\ lines[l].state = "connecting"
    /\ lines' = [lines EXCEPT ![l].state = "open"]
    /\ hook' = [hook EXCEPT !.attempts = 0, !.status = "open"]
    /\ UNCHANGED <<deps, mounted, token, events, sent, overtaken, bounds>>

(* The query hook: the server refuses the subscription with op error; the socket stays. *)
OnRefused(l) ==
    /\ lines[l].state = "open"
    /\ hook' = [hook EXCEPT !.status = "error"]
    /\ UNCHANGED <<lines, deps, mounted, token, events, sent, overtaken, bounds>>

\* Mutant: the oldest events are not cut off.
ShownAll(e) == <<e>> \o events
(* ws.onmessage with an event; the browser drops what arrives after close(). *)
Shown(e) == SubSeq(<<e>> \o events, 1, IF Len(events) < MaxBuffer THEN Len(events) + 1 ELSE MaxBuffer)
OnMessage(l) ==
    /\ lines[l].state = "open" /\ lines[l].inbox # <<>>
    /\ events' = Shown(Head(lines[l].inbox))
    /\ lines' = [lines EXCEPT ![l].inbox = Tail(@)]
    /\ UNCHANGED <<hook, deps, mounted, token, sent, overtaken, bounds>>

\* ws.onclose, of whatever socket: it empties the ref and reads the flag of the whole hook.
\* Mutant: it gives up when the back-off no longer grows.
HandleCloseGivingUp(l) ==
    IF hook.closedByUs \/ hook.attempts = MaxAttempts
    THEN /\ hook' = [hook EXCEPT !.ws = NoLine, !.status = "closed"]
         /\ lines' = [lines EXCEPT ![l] = Free]
    ELSE ScheduleReconnect([hook EXCEPT !.ws = NoLine], l)
HandleClose(l) ==
    IF hook.closedByUs
    THEN /\ hook' = [hook EXCEPT !.ws = NoLine, !.status = "closed"]
         /\ lines' = [lines EXCEPT ![l] = Free]
    ELSE ScheduleReconnect([hook EXCEPT !.ws = NoLine], l)

OnClose(l) ==
    /\ lines[l].state = "closing"
    /\ HandleClose(l)
    /\ UNCHANGED <<deps, mounted, token, events, sent, overtaken, bounds>>

(* The handshake fails or the connection is lost: onerror and onclose in one task. *)
LoseConnection(l) ==
    /\ l \in Sockets /\ bounds.failures < MaxFailures
    /\ HandleClose(l)
    /\ bounds' = [bounds EXCEPT !.failures = @ + 1]
    /\ UNCHANGED <<deps, mounted, token, events, sent, overtaken>>

(* The timer fires connect with the dependencies of its closure. *)
FireTimer(l) ==
    /\ lines[l].state = "waiting"
    /\ Connect(hook, lines, l, lines[l].sub)
    /\ UNCHANGED <<deps, mounted, token, events, sent, overtaken, bounds>>

(* The constructor of WebSocket throws, and connect schedules itself again. *)
ConstructorThrows(l) ==
    /\ lines[l].state = "waiting" /\ token /\ bounds.failures < MaxFailures
    /\ ScheduleReconnect(Connecting(hook), l)
    /\ bounds' = [bounds EXCEPT !.failures = @ + 1]
    /\ UNCHANGED <<deps, mounted, token, events, sent, overtaken>>

(* The reconnect button closes the socket of the ref, if there is one. *)
Reconnect ==
    /\ mounted /\ bounds.clicks < MaxClicks
    /\ hook' = [hook EXCEPT !.attempts = 0]
    /\ lines' = IF hook.ws = NoLine THEN lines
                ELSE [lines EXCEPT ![hook.ws].state = "closing", ![hook.ws].inbox = <<>>]
    /\ bounds' = [bounds EXCEPT !.clicks = @ + 1]
    /\ UNCHANGED <<deps, mounted, token, events, sent, overtaken>>

(* The clear button. *)
Clear ==
    /\ mounted /\ events # <<>>
    /\ events' = <<>>
    /\ UNCHANGED <<hook, lines, deps, mounted, token, sent, overtaken, bounds>>

(* The hub sends an event to every connection (external). *)
Broadcast ==
    /\ sent < MaxEvents
    /\ sent' = sent + 1
    /\ lines' = [l \in Lines |-> IF lines[l].state = "open"
                                 THEN [lines[l] EXCEPT !.inbox = Append(@, sent + 1)] ELSE lines[l]]
    /\ UNCHANGED <<hook, deps, mounted, token, events, overtaken, bounds>>

Next ==
    \/ Disable \/ \E d \in Subs : Resubscribe(d)
    \/ \E l \in Lines : OnOpen(l) \/ OnRefused(l) \/ OnMessage(l) \/ OnClose(l)
    \/ \E l \in Lines : LoseConnection(l) \/ FireTimer(l) \/ ConstructorThrows(l)
    \/ Unmount \/ Logout \/ Reconnect \/ Clear \/ Broadcast

Spec == Init /\ [][Next]_vars

(* Timers fire, handshakes end, and close events arrive: the browser's event loop. *)
FairSpec ==
    /\ Spec
    /\ \A l \in Lines : /\ WF_vars(OnOpen(l) \/ LoseConnection(l))
                        /\ WF_vars(OnClose(l))
                        /\ WF_vars(FireTimer(l) \/ ConstructorThrows(l))

-----------------------------------------------------------------------------
Wanted == mounted /\ deps # Off

(* An enabled hook keeps one socket or timer, a disabled or unmounted one none; every one more
   goes back to a close event that a new run of the effect has overtaken, and that then empties
   the ref of the new socket and reconnects the old one. *)
LeaksWereOvertaken ==
    Cardinality(Live) <= (IF Wanted THEN 1 ELSE 0) + overtaken

(* Unless a close was overtaken, no event is shown twice or out of order, through losses,
   reconnects and changes of the subscription. *)
EventsOnce ==
    overtaken = 0 => \A i, j \in DOMAIN events : i < j => events[i] > events[j]

(* Unless a close was overtaken, the status that the page shows is that of its socket. *)
StatusIsTrue ==
    (overtaken = 0 /\ mounted) =>
        /\ hook.status = "idle" => Live = {}
        /\ hook.status = "open" => \E l \in InState({"open", "closing"}) : lines[l].sub = deps
        /\ hook.status \in {"connecting", "reconnecting"} =>
              \E l \in InState({"waiting", "connecting", "closing"}) : lines[l].sub = deps

(* However often connections fail, and whatever was overtaken, what the page asks for is
   subscribed again for as long as it asks and the session lasts. *)
StaysSubscribed ==
    \A d \in Subs :
        (deps = d /\ mounted /\ token) ~>
            (deps # d \/ ~mounted \/ ~token \/ \E l \in Lines : lines[l].state = "open" /\ lines[l].sub = d)
=============================================================================
