------------------------------ MODULE Releases ------------------------------
(***************************************************************************)
(* The abstract view of one function's deployments: an append-only list of *)
(* releases, each of a built version, and at most one live release, which  *)
(* invocations use.  It says nothing of handlers, statements or failures:  *)
(* a failure can only show as the live release going away.                 *)
(***************************************************************************)
EXTENDS Naturals

CONSTANTS Versions, MaxDeployments, NoVersion

VARIABLES
    built,    \* the versions whose build is complete
    release,  \* the version of every release, NoVersion for none yet
    live      \* the release that serves, 0 for none

vars == <<built, release, live>>

Releases == {d \in 1..MaxDeployments : release[d] # NoVersion}

\* The newest release, and the one before it.
Newest(d) == d \in Releases /\ \A e \in Releases : e <= d
Previous(d) ==
    /\ d \in Releases
    /\ \E n \in Releases : d < n /\ \A e \in Releases : e = n \/ e <= d

Init == built = {} /\ release = [d \in 1..MaxDeployments |-> NoVersion] /\ live = 0

Build == \E v \in Versions : built' = built \cup {v} /\ UNCHANGED <<release, live>>

\* A new release of a built version, newer than all others, takes over.
Publish ==
    \E d \in 1..MaxDeployments, v \in built :
        /\ \A e \in Releases : e < d
        /\ release' = [release EXCEPT ![d] = v]
        /\ live' = d
        /\ UNCHANGED built

\* The newest release goes out of service, for good or until it is confirmed.
Withdraw == Newest(live) /\ live' = 0 /\ UNCHANGED <<built, release>>
Confirm == live = 0 /\ Newest(live') /\ UNCHANGED <<built, release>>

\* The release before the newest takes over.
Restore == Previous(live') /\ UNCHANGED <<built, release>>

Next == Build \/ Publish \/ Withdraw \/ Confirm \/ Restore

Spec == Init /\ [][Next]_vars
=============================================================================
