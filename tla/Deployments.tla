---------------------------- MODULE Deployments ----------------------------
(***************************************************************************)
(* Function versions, their builds and their deployments, for one function *)
(* of one project.                                                         *)
(*                                                                         *)
(* The state is what PostgreSQL holds (function_versions, build_jobs,      *)
(* deployments, functions.current_version and                              *)
(* functions.last_deployment_status), the goroutines that simulate the     *)
(* builds, and the HTTP handlers in flight.  A handler is a sequence of    *)
(* separate statements and one HTTP call to the dataplane: every one of    *)
(* them is a step of its own, so handlers interleave at each of them.      *)
(***************************************************************************)
EXTENDS Naturals

CONSTANTS
    Handlers,        \* the requests the API serves at the same time
    Versions,        \* the version names a client may register
    MaxDeployments,  \* bound: how many rows the table deployments may get
    FaultKinds,      \* which of "crash", "disconnect", "db" may happen
    MaxFaults,       \* bound: how many of them may happen
    NoVersion        \* NULL in functions.current_version

ASSUME BoundsAssumption == MaxDeployments \in Nat /\ MaxFaults \in Nat
ASSUME NoVersionAssumption == NoVersion \notin Versions

VARIABLES
    build,       \* function_versions.build_status, "absent" before the INSERT
    job,         \* build_jobs.status of the version's only job
    builder,     \* the goroutine simulateBuild of the version
    current,     \* functions.current_version
    status,      \* deployments.status, "unborn" before the INSERT commits
    release,     \* deployments.fn_version_id
    begun,       \* how many INSERT transactions have taken their started_at
    lastStatus,  \* functions.last_deployment_status
    ready,       \* the project is provisioned: bucket and tenant database
    work,        \* the handlers in flight
    faults       \* how many faults have happened (bound)

vars == <<build, job, builder, current, status, release, begun, lastStatus,
          ready, work, faults>>

versionVars == <<build, job, builder, current>>
rowVars == <<status, release, begun>>

(***************************************************************************)
(* A deployment is named by the rank of its started_at, which PostgreSQL   *)
(* takes when the transaction begins, not when it commits.                 *)
(***************************************************************************)
Deps == 1..MaxDeployments
BuildStatus == {"absent", "queued", "complete"}
JobStatus == {"none", "queued", "succeeded"}
DeploymentStatus == {"unborn", "active", "deploying", "failed", "superseded"}

(***************************************************************************)
(* Where a handler is: the name says what it has just done.                *)
(***************************************************************************)
DeployPoints == {"checked", "begun", "inserting", "inserted", "deploying",
                 "acked", "refused", "activated", "failed"}
RollbackPoints == {"rolling"}
VersionPoints == {"versioned", "named"}
Points == {"idle"} \cup DeployPoints \cup RollbackPoints \cup VersionPoints

Work == [at : Points, version : Versions \cup {NoVersion},
         dep : 0..MaxDeployments, targets : SUBSET Deps]

Idle == [at |-> "idle", version |-> NoVersion, dep |-> 0, targets |-> {}]

Born == {d \in Deps : status[d] # "unborn"}
Active == {d \in Deps : status[d] = "active"}

\* LatestActiveDeploymentForFunction: the newest active row; 0 for no row.
Served == IF Active = {} THEN 0
          ELSE CHOOSE d \in Active : \A e \in Active : e <= d

TypeOK ==
    /\ build \in [Versions -> BuildStatus]
    /\ job \in [Versions -> JobStatus]
    /\ builder \in [Versions -> {"none", "building", "reporting"}]
    /\ current \in Versions \cup {NoVersion}
    /\ status \in [Deps -> DeploymentStatus]
    /\ release \in [Deps -> Versions \cup {NoVersion}]
    /\ begun \in 0..MaxDeployments
    /\ lastStatus \in {"none", "active", "failed"}
    /\ ready \in BOOLEAN
    /\ work \in [Handlers -> Work]
    /\ faults \in 0..MaxFaults

Init ==
    /\ build = [v \in Versions |-> "absent"]
    /\ job = [v \in Versions |-> "none"]
    /\ builder = [v \in Versions |-> "none"]
    /\ current = NoVersion
    /\ status = [d \in Deps |-> "unborn"]
    /\ release = [d \in Deps |-> NoVersion]
    /\ begun = 0
    /\ lastStatus = "none"
    /\ ready = FALSE
    /\ work = [h \in Handlers |-> Idle]
    /\ faults = 0

At(h, point) == work[h].at = point
Goto(h, point) == work' = [work EXCEPT ![h].at = point]
Finish(h) == work' = [work EXCEPT ![h] = Idle]

-----------------------------------------------------------------------------
(* Registering a version: POST .../versions and the build goroutine.       *)

\* The INSERT of InsertVersionQueued.  UNIQUE(fn_id, version) turns a second
\* registration of the name into 409 VERSION_IMMUTABLE, which writes nothing.
InsertVersion(h, v) ==
    /\ At(h, "idle")
    /\ build[v] = "absent"
    /\ build' = [build EXCEPT ![v] = "queued"]
    /\ work' = [work EXCEPT ![h] = [Idle EXCEPT !.at = "versioned", !.version = v]]
    /\ UNCHANGED <<job, builder, current, rowVars, lastStatus, ready, faults>>

\* The UPDATE of InsertVersionQueued, a statement (and a transaction) of its own.
SetCurrentVersion(h) ==
    /\ At(h, "versioned")
    /\ current' = work[h].version
    /\ Goto(h, "named")
    /\ UNCHANGED <<build, job, builder, rowVars, lastStatus, ready, faults>>

\* Mutant: the handler answers 201 without starting the goroutine.
QueueBuildOnly(h) ==
    /\ At(h, "named")
    /\ job' = [job EXCEPT ![work[h].version] = "queued"]
    /\ Finish(h)
    /\ UNCHANGED <<build, builder, current, rowVars, lastStatus, ready, faults>>

\* InsertBuildJob, then `go simulateBuild` and 201.
QueueBuild(h) ==
    /\ At(h, "named")
    /\ job' = [job EXCEPT ![work[h].version] = "queued"]
    /\ builder' = [builder EXCEPT ![work[h].version] = "building"]
    /\ Finish(h)
    /\ UNCHANGED <<build, current, rowVars, lastStatus, ready, faults>>

\* simulateBuild: UpdateVersionBuildStatus "complete", then FinishBuildJob.
CompleteVersion(v) ==
    /\ builder[v] = "building"
    /\ build' = [build EXCEPT ![v] = "complete"]
    /\ builder' = [builder EXCEPT ![v] = "reporting"]
    /\ UNCHANGED <<job, current, rowVars, lastStatus, ready, work, faults>>

\* Mutant: the job can be finished before its version.
FinishBuildEarly(v) ==
    /\ builder[v] # "none"
    /\ job' = [job EXCEPT ![v] = "succeeded"]
    /\ builder' = [builder EXCEPT ![v] = "none"]
    /\ UNCHANGED <<build, current, rowVars, lastStatus, ready, work, faults>>

FinishBuild(v) ==
    /\ builder[v] = "reporting"
    /\ job' = [job EXCEPT ![v] = "succeeded"]
    /\ builder' = [builder EXCEPT ![v] = "none"]
    /\ UNCHANGED <<build, current, rowVars, lastStatus, ready, work, faults>>

-----------------------------------------------------------------------------
(* Deploying a version: POST .../deploy.                                   *)

\* Mutant: any registered version will do.
CheckVersionExists(h, v) ==
    /\ At(h, "idle")
    /\ build[v] # "absent"
    /\ work' = [work EXCEPT ![h] = [Idle EXCEPT !.at = "checked", !.version = v]]
    /\ UNCHANGED <<versionVars, rowVars, lastStatus, ready, faults>>

\* The handler reads the version row; anything but a complete build ends in
\* 404 or 409 BUILD_PENDING and writes nothing.  An omitted version in the
\* body stands for functions.current_version.
CheckVersion(h, v) ==
    /\ At(h, "idle")
    /\ build[v] = "complete"
    /\ work' = [work EXCEPT ![h] = [Idle EXCEPT !.at = "checked", !.version = v]]
    /\ UNCHANGED <<versionVars, rowVars, lastStatus, ready, faults>>

DeployCurrent(h) == current # NoVersion /\ CheckVersion(h, current)

\* InsertDeployment begins: now() is fixed here, and with it started_at.
BeginInsert(h) ==
    /\ At(h, "checked")
    /\ begun < MaxDeployments
    /\ begun' = begun + 1
    /\ work' = [work EXCEPT ![h].at = "begun", ![h].dep = begun + 1]
    /\ UNCHANGED <<versionVars, status, release, lastStatus, ready, faults>>

\* Mutant: the UPDATE supersedes no row.
RunInsertOnly(h) ==
    /\ At(h, "begun")
    /\ work' = [work EXCEPT ![h].at = "inserting"]
    /\ UNCHANGED <<versionVars, rowVars, lastStatus, ready, faults>>

\* INSERT and UPDATE run.  Under READ COMMITTED the UPDATE finds the rows that
\* are committed and active when the statement starts: not the rows of the
\* transactions still open.
RunInsert(h) ==
    /\ At(h, "begun")
    /\ work' = [work EXCEPT ![h].at = "inserting", ![h].targets = Active]
    /\ UNCHANGED <<versionVars, rowVars, lastStatus, ready, faults>>

\* The commit: the new row appears as active, and of the rows the UPDATE found
\* those that are still active once it holds their locks become superseded.
CommitInsert(h) ==
    LET new == work[h].dep
        old == work[h].targets \cap Active
    IN  /\ At(h, "inserting")
        /\ status' = [d \in Deps |-> IF d = new THEN "active"
                                     ELSE IF d \in old THEN "superseded"
                                     ELSE status[d]]
        /\ release' = [release EXCEPT ![new] = work[h].version]
        /\ Goto(h, "inserted")
        /\ UNCHANGED <<versionVars, begun, lastStatus, ready, faults>>

\* MarkDeploymentDeploying, whatever the row's status has become.
MarkDeploying(h) ==
    /\ At(h, "inserted")
    /\ status' = [status EXCEPT ![work[h].dep] = "deploying"]
    /\ Goto(h, "deploying")
    /\ UNCHANGED <<versionVars, release, begun, lastStatus, ready, faults>>

\* ProjectByID or ConnectionURL finds the project unprovisioned: 400
\* PROVISIONING_PENDING, and the row stays as it is.
RejectUnprovisioned(h) ==
    /\ At(h, "deploying")
    /\ ~ready
    /\ Finish(h)
    /\ UNCHANGED <<versionVars, rowVars, lastStatus, ready, faults>>

\* dp.Deploy: the dataplane answers that it has stored the deployment.
DataplaneAccepts(h) ==
    /\ At(h, "deploying")
    /\ ready
    /\ Goto(h, "acked")
    /\ UNCHANGED <<versionVars, rowVars, lastStatus, ready, faults>>

\* Mutant: the handler answers 502 without marking the row.
DataplaneFailsSilently(h) ==
    /\ At(h, "deploying")
    /\ ready
    /\ Finish(h)
    /\ UNCHANGED <<versionVars, rowVars, lastStatus, ready, faults>>

\* dp.Deploy fails: refused, unreachable, or no answer within 30 s, whether or not
\* the dataplane has stored the deployment.
DataplaneFails(h) ==
    /\ At(h, "deploying")
    /\ ready
    /\ Goto(h, "refused")
    /\ UNCHANGED <<versionVars, rowVars, lastStatus, ready, faults>>

\* Mutants: the row of an accepted deployment stays "deploying"; the row of a
\* refused one gets a status the schema does not know.
MarkActiveNowhere(h) ==
    /\ At(h, "acked")
    /\ Goto(h, "activated")
    /\ UNCHANGED <<versionVars, rowVars, lastStatus, ready, faults>>

MarkRefused(h) ==
    /\ At(h, "refused")
    /\ status' = [status EXCEPT ![work[h].dep] = "refused"]
    /\ Goto(h, "failed")
    /\ UNCHANGED <<versionVars, release, begun, lastStatus, ready, faults>>

\* MarkDeploymentActive and MarkDeploymentFailed, whatever the row's status is.
MarkActive(h) ==
    /\ At(h, "acked")
    /\ status' = [status EXCEPT ![work[h].dep] = "active"]
    /\ Goto(h, "activated")
    /\ UNCHANGED <<versionVars, release, begun, lastStatus, ready, faults>>

MarkFailed(h) ==
    /\ At(h, "refused")
    /\ status' = [status EXCEPT ![work[h].dep] = "failed"]
    /\ Goto(h, "failed")
    /\ UNCHANGED <<versionVars, release, begun, lastStatus, ready, faults>>

\* Mutant: only a success is recorded.
UpdateLastSuccess(h) ==
    /\ \/ At(h, "activated") /\ lastStatus' = "active"
       \/ At(h, "failed") /\ UNCHANGED lastStatus
    /\ Finish(h)
    /\ UNCHANGED <<versionVars, rowVars, ready, faults>>

\* UpdateFunctionLastDeployment and the answer: 200, or 502 GATEWAY_ERROR.
UpdateLast(h) ==
    /\ \/ At(h, "activated") /\ lastStatus' = "active"
       \/ At(h, "failed") /\ lastStatus' = "failed"
    /\ Finish(h)
    /\ UNCHANGED <<versionVars, rowVars, ready, faults>>

-----------------------------------------------------------------------------
(* Rolling back: POST .../deployments/rollback.                            *)

\* Mutant: the newest row and any older one.
NewestAndOlder(n, p) ==
    /\ {n, p} \subseteq Born
    /\ p < n
    /\ \A d \in Born : d <= n

NewestTwo(n, p) ==
    /\ {n, p} \subseteq Born
    /\ p < n
    /\ \A d \in Born : d = n \/ d <= p

\* RollbackFunctionDeployment selects the two newest rows, whatever they are;
\* with fewer than two it answers 400 and writes nothing.
SelectRollback(h) ==
    /\ At(h, "idle")
    /\ \E n, p \in Deps :
          /\ NewestTwo(n, p)
          /\ work' = [work EXCEPT ![h] = [Idle EXCEPT !.at = "rolling",
                                            !.dep = p, !.targets = {n}]]
    /\ UNCHANGED <<versionVars, rowVars, lastStatus, ready, faults>>

\* Mutant: the newest row is deleted.
CommitRollbackDeleting(h) ==
    /\ At(h, "rolling")
    /\ status' = [d \in Deps |-> IF d = work[h].dep THEN "active"
                                 ELSE IF d \in work[h].targets THEN "unborn"
                                 ELSE status[d]]
    /\ Finish(h)
    /\ UNCHANGED <<versionVars, release, begun, lastStatus, ready, faults>>

\* Its two UPDATEs and the commit.  The dataplane is not called and
\* last_deployment_status is not touched.
CommitRollback(h) ==
    /\ At(h, "rolling")
    /\ status' = [d \in Deps |-> IF d = work[h].dep THEN "active"
                                 ELSE IF d \in work[h].targets THEN "superseded"
                                 ELSE status[d]]
    /\ Finish(h)
    /\ UNCHANGED <<versionVars, release, begun, lastStatus, ready, faults>>

-----------------------------------------------------------------------------
(* The project becomes ready, and what can go wrong.                       *)

Provisioned ==
    /\ ~ready
    /\ ready' = TRUE
    /\ UNCHANGED <<versionVars, rowVars, lastStatus, work, faults>>

Fault(kind) ==
    /\ kind \in FaultKinds
    /\ faults < MaxFaults
    /\ faults' = faults + 1

\* The API process dies: handlers and build goroutines are gone, the database
\* stays.  Nothing at start-up resumes them.
Crash ==
    /\ Fault("crash")
    /\ work' = [h \in Handlers |-> Idle]
    /\ builder' = [v \in Versions |-> "none"]
    /\ UNCHANGED <<build, job, current, rowVars, lastStatus, ready>>

\* The client goes away: the request context is cancelled and every later
\* statement of the handler fails (an open transaction rolls back).
Disconnect(h) ==
    /\ Fault("disconnect")
    /\ ~At(h, "idle")
    /\ Finish(h)
    /\ UNCHANGED <<versionVars, rowVars, lastStatus, ready>>

\* A statement fails.  Where the code drops the error the handler goes on as
\* if the statement had run; elsewhere it answers an error and ends.
AfterDbError(point) ==
    CASE point = "inserted" -> "deploying"
      [] point = "acked" -> "activated"
      [] point = "refused" -> "failed"
      [] OTHER -> "idle"

DbError(h) ==
    /\ Fault("db")
    /\ ~At(h, "idle")
    /\ LET next == AfterDbError(work[h].at)
       IN  IF next = "idle" THEN Finish(h) ELSE Goto(h, next)
    /\ UNCHANGED <<versionVars, rowVars, lastStatus, ready>>

\* simulateBuild drops the errors of both of its updates.
BuildDbError(v) ==
    /\ Fault("db")
    /\ builder[v] # "none"
    /\ builder' = [builder EXCEPT ![v] = IF @ = "building" THEN "reporting" ELSE "none"]
    /\ UNCHANGED <<build, job, current, rowVars, lastStatus, ready, work>>

-----------------------------------------------------------------------------
DeployStep(h) ==
    \/ BeginInsert(h) \/ RunInsert(h) \/ CommitInsert(h) \/ MarkDeploying(h)
    \/ RejectUnprovisioned(h) \/ DataplaneAccepts(h) \/ DataplaneFails(h)
    \/ MarkActive(h) \/ MarkFailed(h) \/ UpdateLast(h)

HandlerStep(h) ==
    \/ SetCurrentVersion(h) \/ QueueBuild(h)
    \/ DeployStep(h) \/ CommitRollback(h)

Request(h) ==
    \/ \E v \in Versions : InsertVersion(h, v) \/ CheckVersion(h, v)
    \/ DeployCurrent(h)
    \/ SelectRollback(h)

BuildStep(v) == CompleteVersion(v) \/ FinishBuild(v)

Failure ==
    \/ Crash
    \/ \E h \in Handlers : Disconnect(h) \/ DbError(h)
    \/ \E v \in Versions : BuildDbError(v)

Next ==
    \/ \E h \in Handlers : Request(h) \/ HandlerStep(h)
    \/ \E v \in Versions : BuildStep(v)
    \/ Provisioned
    \/ Failure

Spec == Init /\ [][Next]_vars

\* The Go runtime schedules every goroutine, statements return, and dp.Deploy
\* ends by its 30 s timeout: what is in flight goes on.  Clients need not send
\* requests, and provisioning may never succeed.
Fairness ==
    /\ \A h \in Handlers : WF_vars(HandlerStep(h))
    /\ \A v \in Versions : WF_vars(BuildStep(v))

FairSpec == Spec /\ Fairness
-----------------------------------------------------------------------------
(* Properties.                                                             *)

\* A deployment row always names a version whose build is complete: the check
\* of the deploy handler is not repeated after it, so this rests on a version
\* never leaving "complete", across crashes, retries and rollbacks.
DeployedAreBuilt == \A d \in Born : release[d] \in Versions /\ build[release[d]] = "complete"

\* The version a deployment row was inserted for never changes, and the row is
\* never taken back, whatever handlers run next to each other.
ReleasesAreImmutable ==
    [][\A d \in Born : d \in Born' /\ release'[d] = release[d]]_vars

\* A build job that reports success belongs to a version that can be deployed:
\* simulateBuild completes the version before the job.
SucceededJobsAreDeployable ==
    \A v \in Versions : job[v] = "succeeded" => build[v] = "complete"

\* At most one deployment of the function is active (InsertDeployment
\* supersedes the others).  True of requests served one after the other.
SingleActive == \A d, e \in Active : d = e

\* When the deploy handler is about to answer 200 its deployment is the one
\* LatestActiveDeploymentForFunction returns.  True of serial requests.
ActivatedIsServed ==
    \A h \in Handlers : At(h, "activated") => Served = work[h].dep

\* functions.last_deployment_status is the status of the newest deployment
\* whenever no request is in flight and that deployment ended one way or the
\* other.  True of serial requests without faults; overlapping ones write it out
\* of order, and a crash comes between the two statements.
LastStatusIsLatest ==
    (faults = 0 /\ \A h \in Handlers : At(h, "idle")) =>
        \A d \in Born : (\A e \in Born : e <= d) /\ status[d] \in {"active", "failed"}
                           => lastStatus = status[d]

\* A deployment the dataplane never confirmed is not made active again.
FailedStaysInactive ==
    [][\A d \in Deps : status[d] = "failed" => status'[d] # "active"]_vars

\* Every registered version becomes deployable: its build ends. (A crash ends the
\* goroutine of the build for good.)
BuildsComplete ==
    \A v \in Versions : build[v] = "queued" ~> (build[v] = "complete" \/ faults > 0)

\* A deployment that has passed the provisioning check leaves "deploying",
\* whatever the dataplane answers, unless something fails.
DeploymentsResolve ==
    \A d \in Deps :
        (ready /\ \E h \in Handlers : At(h, "deploying") /\ work[h].dep = d)
            ~> (status[d] # "deploying" \/ faults > 0)

\* What a function's deployments promise to a client that waits for each answer
\* before it sends the next request: the abstract specification Releases.
Promise == INSTANCE Releases WITH live <- Served,
                                  built <- {v \in Versions : build[v] = "complete"}
KeepsPromise == Promise!Spec
=============================================================================
