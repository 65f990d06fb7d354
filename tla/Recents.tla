------------------------------- MODULE Recents -------------------------------
(***************************************************************************)
(* The list of versions that the browser keeps in its local storage, which *)
(* every window of the browser reads and writes, and the Builds tab, which *)
(* follows the build of a version picked from it. Each window keeps the    *)
(* list it parsed last, and is told of its own writes only.                *)
(***************************************************************************)
EXTENDS Naturals, Sequences, SequencesExt

CONSTANTS
    Cached,          \* the versions of a function
    Windows,         \* windows of the browser on its pages
    RecentLimit      \* how many versions the list keeps
ASSUME LimitAssumption == RecentLimit \in Nat \ {0}

VARIABLES
    recents,         \* the text in the local storage: the list, newest first
    snapshots,       \* per window, the list as it was last parsed, and the text it was parsed from
    tabs,            \* per window, its Builds tab
    added,           \* every version added to the list, newest first
    builds           \* server: the builds of the versions

recentVars == <<recents, snapshots, tabs, added, builds>>

NoId == "none"
NotParsed == [parsed |-> FALSE, raw |-> <<>>, items |-> <<>>]
NoTab == [shown |-> FALSE, list |-> <<>>, vid |-> NoId, status |-> "unfetched"]
Lists == SeqOf(Cached, RecentLimit)

RecTypeOK ==
    /\ recents \in Lists
    /\ snapshots \in [Windows -> [parsed : BOOLEAN, raw : Lists, items : Lists]]
    /\ tabs \in [Windows -> [shown : BOOLEAN, list : Lists, vid : Cached \cup {NoId},
                             status : {"unfetched", "queued", "complete", "failed"}]]
    /\ builds \in [Cached -> {"none", "queued", "complete", "failed"}]
    /\ \A v \in Cached : Contains(added, v) = (builds[v] # "none")

-----------------------------------------------------------------------------
\* Mutant: a list that was parsed is not parsed again.
ItemsOnce(w) == IF snapshots[w].parsed THEN snapshots[w].items ELSE recents
(* The parsed list is used again only while the text is the one it was parsed from. *)
getCached(w) == IF snapshots[w].parsed /\ snapshots[w].raw = recents THEN snapshots[w].items ELSE recents
Parsed(w) == [parsed |-> TRUE, raw |-> recents, items |-> getCached(w)]
\* No version is listed twice.
addCached(w, v) ==
    LET list == <<v>> \o RemoveFirst(getCached(w), v)
    IN  SubSeq(list, 1, IF Len(list) < RecentLimit THEN Len(list) ELSE RecentLimit)

(* The effect of the tab: a blank choice becomes the newest version of the list. *)
Chosen(vid, list) == IF vid = NoId /\ list # <<>> THEN Head(list) ELSE vid
Follow(t, vid) == [t EXCEPT !.vid = vid, !.status = IF vid = t.vid THEN t.status ELSE "unfetched"]
Rerenders(t, list) == [Follow(t, Chosen(t.vid, list)) EXCEPT !.list = list]

(* The answer to a registration asked for in a window: its list is read, changed and written back, and its
   listener, when the tab is shown, parses what was written. *)
Registered(w) ==
    /\ \E v \in Cached :
        /\ builds[v] = "none" /\ builds' = [builds EXCEPT ![v] = "queued"]
        /\ recents' = addCached(w, v) /\ added' = <<v>> \o added
    /\ IF tabs[w].shown THEN
            /\ snapshots' = [snapshots EXCEPT ![w] = [parsed |-> TRUE, raw |-> recents', items |-> recents']]
            /\ tabs' = [tabs EXCEPT ![w] = Rerenders(tabs[w], recents')]
       ELSE snapshots' = [snapshots EXCEPT ![w] = NotParsed] /\ UNCHANGED tabs

BuildsTab(w) ==
    /\ tabs' = [tabs EXCEPT ![w] = IF @.shown THEN NoTab ELSE Rerenders([NoTab EXCEPT !.shown = TRUE], getCached(w))]
    /\ snapshots' = [snapshots EXCEPT ![w] = IF tabs[w].shown THEN @ ELSE Parsed(w)]
    /\ UNCHANGED <<recents, added, builds>>
(* Whatever is chosen or typed renders the tab again, which reads the list again; a blank is replaced. *)
setVid(w) ==
    /\ tabs[w].shown
    /\ \E v \in Cached \cup {NoId} : tabs' = [tabs EXCEPT ![w] = Rerenders(Follow(tabs[w], v), getCached(w))]
    /\ snapshots' = [snapshots EXCEPT ![w] = Parsed(w)]
    /\ UNCHANGED <<recents, added, builds>>
(* A build that has ended is not asked for again; an identifier that is none gives no status. *)
PollBuild(w) ==
    /\ tabs[w].shown /\ tabs[w].vid # NoId /\ tabs[w].status \notin {"complete", "failed"}
    /\ builds[tabs[w].vid] # "none"
    /\ tabs' = [tabs EXCEPT ![w] = [Rerenders(@, getCached(w)) EXCEPT !.status = builds[tabs[w].vid]]]
    /\ snapshots' = [snapshots EXCEPT ![w] = Parsed(w)]
    /\ UNCHANGED <<recents, added, builds>>
BuildEnds ==
    /\ \E v \in Cached, b \in {"complete", "failed"} : builds[v] = "queued" /\ builds' = [builds EXCEPT ![v] = b]
    /\ UNCHANGED <<recents, snapshots, tabs, added>>

-----------------------------------------------------------------------------
RecInit ==
    /\ recents = <<>> /\ added = <<>> /\ builds = [v \in Cached |-> "none"]
    /\ snapshots = [w \in Windows |-> NotParsed] /\ tabs = [w \in Windows |-> NoTab]
RecNext ==
    \/ BuildEnds
    \/ \E w \in Windows : Registered(w) \/ BuildsTab(w) \/ setVid(w) \/ PollBuild(w)
RecSpec == RecInit /\ [][RecNext]_recentVars

-----------------------------------------------------------------------------
(* The list holds the newest of the versions registered from any window, newest first: no window writes back
   an old list, and no window shows a list that is not a former one. *)
Newest(all) == SubSeq(all, 1, IF Len(all) < RecentLimit THEN Len(all) ELSE RecentLimit)
RecentsAreNewest ==
    /\ recents = Newest(added)
    /\ \A w \in Windows : \E i \in 0 .. Len(added) : tabs[w].list = Newest(SubSeq(added, i + 1, Len(added)))
=============================================================================
