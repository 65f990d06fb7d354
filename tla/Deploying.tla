------------------------------ MODULE Deploying ------------------------------
(***************************************************************************)
(* The Deployments tab of one function: a form whose two buttons deploy a  *)
(* version and roll back, and a card that follows the deployment answered  *)
(* last. The tab comes and goes while its requests run, and other users    *)
(* register versions. (Its history is one of the queries of ServerCache.)  *)
(***************************************************************************)
EXTENDS Naturals, Sequences

CONSTANTS
    DepVersions,     \* the versions of the function
    DepOps           \* names of the deploys and rollbacks, each used once
ASSUME DepVersionsAssumption == DepVersions # {}

VARIABLES
    depShown,        \* the tab is mounted
    spec,            \* the version chosen to be deployed, and whether its environment parses
    complete,        \* the versions whose builds are complete, as fetched
    depOps,
    live,            \* activeDeploymentID, 0 for none
    liveBy,          \* the operation whose answer set it
    liveSeen,        \* the status the card shows
    deployments,     \* server: the statuses of the deployments, oldest first
    done,            \* server: how many operations it has carried out
    built           \* server: the versions whose builds are complete

depVars == <<depShown, spec, complete, depOps, live, liveBy, liveSeen, deployments, done, built>>
serverVars == <<deployments, done, built>>
liveVars == <<live, liveBy, liveSeen>>

NoVersion == "none"
NoDepOp == [kind |-> "none", at |-> "unused", version |-> NoVersion, id |-> 0, rank |-> 0,
            mounted |-> FALSE, with |-> {}]
DeploymentStatuses == {"deploying", "active", "failed", "superseded"}
Unfetched == "unfetched"

DepTypeOK ==
    /\ depShown \in BOOLEAN
    /\ spec \in [version : DepVersions \cup {NoVersion}, env : BOOLEAN]
    /\ depOps \in [DepOps -> [kind : {"none", "deploy", "rollback"}, at : {"unused", "sent", "done", "heard", "failed"},
                              version : DepVersions \cup {NoVersion}, id : 0 .. Len(deployments), rank : 0 .. done,
                              mounted : BOOLEAN, with : SUBSET DepOps]]
    /\ live \in 0 .. Len(deployments) /\ liveBy \in DepOps \cup {NoVersion}
    /\ liveSeen \in DeploymentStatuses \cup {Unfetched}
    /\ built \in SUBSET DepVersions
    \* Only versions whose builds are complete can be chosen and deployed.
    /\ complete \cup ({spec.version} \ {NoVersion}) \subseteq built

-----------------------------------------------------------------------------
DEFAULT_SPEC == [version |-> NoVersion, env |-> TRUE]
ShowDeployments ==
    /\ ~depShown /\ depShown' = TRUE
    /\ UNCHANGED <<spec, complete, depOps, liveVars, serverVars>>
(* The state of the tab is lost; its requests go on. *)
LeaveDeployments ==
    /\ depShown /\ depShown' = FALSE
    /\ spec' = DEFAULT_SPEC /\ live' = 0 /\ liveBy' = NoVersion /\ liveSeen' = Unfetched
    /\ depOps' = [o \in DepOps |-> [depOps[o] EXCEPT !.mounted = FALSE]]
    /\ UNCHANGED <<complete, serverVars>>

(* The form. *)
pickVersion ==
    /\ depShown
    /\ \E v \in complete \ {spec.version} : spec' = [spec EXCEPT !.version = v]
    /\ UNCHANGED <<depShown, complete, depOps, liveVars, serverVars>>
editEnvText ==
    /\ depShown /\ spec' = [spec EXCEPT !.env = ~@]
    /\ UNCHANGED <<depShown, complete, depOps, liveVars, serverVars>>

InFlight == {o \in DepOps : depOps[o].at \in {"sent", "done"} /\ depOps[o].mounted}
(* Each button is disabled while its own request runs. *)
Asks(o, kind, version) ==
    /\ depShown /\ depOps[o].at = "unused"
    /\ ~\E r \in InFlight : depOps[r].kind = kind
    /\ depOps' = [depOps EXCEPT ![o] = [NoDepOp EXCEPT !.kind = kind, !.at = "sent", !.version = version,
                                                       !.mounted = TRUE, !.with = InFlight]]
    /\ UNCHANGED <<depShown, spec, complete, liveVars, serverVars>>
\* An environment that parseEnvObject refuses is an error before anything is sent.
onDeploy(o) == spec.version # NoVersion /\ spec.env /\ Asks(o, "deploy", spec.version)
onRollback(o) == Asks(o, "rollback", NoVersion)

-----------------------------------------------------------------------------
(* The server. A rollback takes up the second newest deployment, if there are two. *)
Carries(o, id) ==
    /\ done' = done + 1
    /\ depOps' = [depOps EXCEPT ![o].at = "done", ![o].id = id, ![o].rank = done + 1]
    /\ UNCHANGED <<depShown, spec, complete, liveVars, built>>
DeployStarted(o) ==
    /\ depOps[o].at = "sent" /\ depOps[o].kind = "deploy"
    /\ deployments' = Append(deployments, "deploying") /\ Carries(o, Len(deployments) + 1)
RolledBack(o) ==
    /\ depOps[o].at = "sent" /\ depOps[o].kind = "rollback" /\ Len(deployments) >= 2
    /\ deployments' = [deployments EXCEPT ![Len(deployments)] = "superseded", ![Len(deployments) - 1] = "active"]
    /\ Carries(o, Len(deployments) - 1)
DeploymentEnds ==
    /\ \E i \in DOMAIN deployments :
        /\ deployments[i] = "deploying"
        /\ \/ deployments' = [deployments EXCEPT ![i] = "failed"]
           \/ deployments' = [j \in DOMAIN deployments |-> IF j = i THEN "active"
                                ELSE IF deployments[j] = "active" THEN "superseded" ELSE deployments[j]]
    /\ UNCHANGED <<depShown, spec, complete, depOps, liveVars, done, built>>
BuildCompletes ==
    /\ \E v \in DepVersions \ built : built' = built \cup {v}
    /\ UNCHANGED <<depShown, spec, complete, depOps, liveVars, deployments, done>>

-----------------------------------------------------------------------------
(* Answers. *)
\* Mutant: an answer does not replace the deployment that is followed.
FollowsFirst(o) == depOps[o].mounted /\ live = 0
\* setActiveDeploymentID: the answer that comes last, on the page that asked.
Follows(o) == depOps[o].mounted
Answered(o) ==
    /\ depOps[o].at = "done"
    /\ depOps' = [depOps EXCEPT ![o].at = "heard"]
    /\ IF Follows(o) THEN
            /\ live' = depOps[o].id /\ liveBy' = o
            \* Another id is another query.
            /\ liveSeen' = IF depOps[o].id = live THEN liveSeen ELSE Unfetched
       ELSE UNCHANGED liveVars
    /\ UNCHANGED <<depShown, spec, complete, serverVars>>
\* Refused, or lost on the way there or back.
DepFails(o) ==
    /\ depOps[o].at \in {"sent", "done"} /\ depOps' = [depOps EXCEPT ![o].at = "failed"]
    /\ UNCHANGED <<depShown, spec, complete, liveVars, serverVars>>

(* The poll: every 1.5 s while there is a deployment to follow, whatever its status. *)
PollDeployment ==
    /\ live # 0 /\ liveSeen' = deployments[live]
    /\ UNCHANGED <<depShown, spec, complete, depOps, live, liveBy, serverVars>>
VersionsFetched ==
    /\ depShown /\ complete' = built
    /\ UNCHANGED <<depShown, spec, depOps, liveVars, serverVars>>

-----------------------------------------------------------------------------
(* A function that was deployed once before; its latest version is not built yet. *)
DepInit ==
    /\ depShown = FALSE /\ spec = DEFAULT_SPEC /\ depOps = [o \in DepOps |-> NoDepOp]
    /\ live = 0 /\ liveBy = NoVersion /\ liveSeen = Unfetched
    /\ complete = {} /\ built = {CHOOSE v \in DepVersions : TRUE}
    /\ deployments = <<"active">> /\ done = 0
DepNext ==
    \/ ShowDeployments \/ LeaveDeployments \/ pickVersion \/ editEnvText
    \/ DeploymentEnds \/ BuildCompletes \/ PollDeployment \/ VersionsFetched
    \/ \E o \in DepOps :
        onDeploy(o) \/ onRollback(o) \/ DeployStarted(o) \/ RolledBack(o) \/ Answered(o) \/ DepFails(o)
DepSpec == DepInit /\ [][DepNext]_depVars

-----------------------------------------------------------------------------
(* The live card follows the operation that the server carried out last among those whose answers the page
   has heard, unless a deploy and a rollback were under way together and were answered in the other order. *)
Overlap(o, r) == o \in depOps[r].with \/ r \in depOps[o].with
LiveIsLast ==
    \A o \in DepOps : (depOps[o].at = "heard" /\ depOps[o].mounted) =>
        /\ live # 0
        /\ depOps[o].rank > depOps[liveBy].rank => Overlap(o, liveBy)
=============================================================================
