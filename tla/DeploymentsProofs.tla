------------------------- MODULE DeploymentsProofs -------------------------
(***************************************************************************)
(* What holds of Deployments for every set of handlers and versions and    *)
(* for every bound.                                                        *)
(***************************************************************************)
EXTENDS Deployments, TLAPS

\* The points of the deploy handler at which it owns a row of deployments.
RowPoints == DeployPoints \ {"checked"}

\* From BeginInsert on, a deploy handler works on a row within the table.
HandlersOwnRows ==
    \A h \in Handlers : work[h].at \in RowPoints => work[h].dep \in Deps

-----------------------------------------------------------------------------
(* How handlers move, once for all actions.                                *)

LEMMA IdleIsWork == Idle \in Work
  BY BoundsAssumption DEF Idle, Work, Points

LEMMA GotoKeeps ==
  ASSUME work \in [Handlers -> Work], NEW h \in Handlers, NEW p \in Points, Goto(h, p)
  PROVE  /\ work' \in [Handlers -> Work]
         /\ \A g \in Handlers \ {h} : work'[g] = work[g]
         /\ work'[h].at = p
         /\ work'[h].version = work[h].version
         /\ work'[h].dep = work[h].dep
         /\ work'[h].targets = work[h].targets
  BY DEF Goto, Work

LEMMA FinishKeeps ==
  ASSUME work \in [Handlers -> Work], NEW h \in Handlers, Finish(h)
  PROVE  /\ work' \in [Handlers -> Work]
         /\ \A g \in Handlers \ {h} : work'[g] = work[g]
         /\ work'[h] = Idle
  BY IdleIsWork DEF Finish

\* A request that starts at a point, with a version, a row and targets.
LEMMA StartKeeps ==
  ASSUME work \in [Handlers -> Work], NEW h \in Handlers, NEW w \in Work,
         work' = [work EXCEPT ![h] = w]
  PROVE  /\ work' \in [Handlers -> Work]
         /\ \A g \in Handlers \ {h} : work'[g] = work[g]
         /\ work'[h] = w
  OBVIOUS

LEMMA PointNames ==
  /\ {"idle", "checked", "begun", "inserting", "inserted", "deploying", "acked",
      "refused", "activated", "failed", "rolling", "versioned", "named"} = Points
  /\ RowPoints = {"begun", "inserting", "inserted", "deploying", "acked",
                  "refused", "activated", "failed"}
  BY DEF Points, RowPoints, DeployPoints, RollbackPoints, VersionPoints

-----------------------------------------------------------------------------
(* Type correctness.                                                       *)

TypeInv == TypeOK /\ HandlersOwnRows

LEMMA TypeInvInit == Init => TypeInv
  <1> SUFFICES ASSUME Init PROVE TypeInv
    OBVIOUS
  <1>1. work \in [Handlers -> Work]
    BY IdleIsWork DEF Init
  <1>2. HandlersOwnRows
    BY PointNames DEF Init, Idle, HandlersOwnRows
  <1>3. begun \in 0..MaxDeployments /\ faults \in 0..MaxFaults
    BY BoundsAssumption DEF Init
  <1>4. build \in [Versions -> BuildStatus] /\ job \in [Versions -> JobStatus]
        /\ builder \in [Versions -> {"none", "building", "reporting"}]
    BY DEF Init, BuildStatus, JobStatus
  <1>5. status \in [Deps -> DeploymentStatus] /\ release \in [Deps -> Versions \cup {NoVersion}]
    BY DEF Init, DeploymentStatus
  <1>6. QED
    BY <1>1, <1>2, <1>3, <1>4, <1>5 DEF Init, TypeInv, TypeOK

LEMMA VersionStepTypes ==
  ASSUME TypeInv, NEW h \in Handlers,
         \/ \E v \in Versions : InsertVersion(h, v) \/ CheckVersion(h, v)
         \/ SetCurrentVersion(h) \/ QueueBuild(h)
  PROVE  TypeInv'
<1> USE DEF TypeInv
<1>1. ASSUME NEW v \in Versions, InsertVersion(h, v) PROVE TypeInv'
  <2>1. [Idle EXCEPT !.at = "versioned", !.version = v] \in Work
    BY IdleIsWork, PointNames DEF Idle, Work
  <2>2. work' \in [Handlers -> Work] /\ HandlersOwnRows'
    BY <1>1, <2>1, StartKeeps, PointNames
    DEF InsertVersion, TypeOK, HandlersOwnRows, Idle, Deps
  <2>3. QED
    BY <1>1, <2>2 DEF InsertVersion, TypeOK, BuildStatus, rowVars
<1>2. ASSUME NEW v \in Versions, CheckVersion(h, v) PROVE TypeInv'
  <2>1. [Idle EXCEPT !.at = "checked", !.version = v] \in Work
    BY IdleIsWork, PointNames DEF Idle, Work
  <2>2. work' \in [Handlers -> Work] /\ HandlersOwnRows'
    BY <1>2, <2>1, StartKeeps, PointNames
    DEF CheckVersion, TypeOK, HandlersOwnRows, Idle, Deps
  <2>3. QED
    BY <1>2, <2>2 DEF CheckVersion, TypeOK, versionVars, rowVars
<1>3. ASSUME SetCurrentVersion(h) PROVE TypeInv'
  <2>1. work' \in [Handlers -> Work] /\ HandlersOwnRows'
    BY <1>3, GotoKeeps, PointNames DEF SetCurrentVersion, TypeOK, HandlersOwnRows, Deps
  <2>2. current' \in Versions \cup {NoVersion}
    BY <1>3 DEF SetCurrentVersion, TypeOK, Work
  <2>3. QED
    BY <1>3, <2>1, <2>2 DEF SetCurrentVersion, TypeOK, rowVars
<1>4. ASSUME QueueBuild(h) PROVE TypeInv'
  <2>1. work' \in [Handlers -> Work] /\ HandlersOwnRows'
    BY <1>4, FinishKeeps, PointNames DEF QueueBuild, TypeOK, HandlersOwnRows, Idle, Deps
  <2>2. QED
    BY <1>4, <2>1 DEF QueueBuild, TypeOK, JobStatus, rowVars
<1>5. QED
  BY <1>1, <1>2, <1>3, <1>4

LEMMA DeployStepTypes ==
  ASSUME TypeInv, NEW h \in Handlers, DeployStep(h)
  PROVE  TypeInv'
<1> USE DEF TypeInv
<1>1. ASSUME BeginInsert(h) PROVE TypeInv'
  <2>1. begun + 1 \in Deps /\ begun + 1 \in 0..MaxDeployments
    BY <1>1, BoundsAssumption DEF BeginInsert, TypeOK, Deps
  <2> DEFINE w == [work[h] EXCEPT !.at = "begun", !.dep = begun + 1]
  <2>2. w \in Work /\ w.dep = begun + 1 /\ work' = [work EXCEPT ![h] = w]
    BY <1>1, <2>1, PointNames DEF BeginInsert, TypeOK, Work
  <2>3. work' \in [Handlers -> Work] /\ HandlersOwnRows'
    <3> HIDE DEF w
    <3> QED BY <2>1, <2>2, StartKeeps DEF TypeOK, HandlersOwnRows, Deps
  <2>4. QED
    BY <1>1, <2>1, <2>3 DEF BeginInsert, TypeOK, versionVars
<1>2. ASSUME RunInsert(h) PROVE TypeInv'
  <2> DEFINE w == [work[h] EXCEPT !.at = "inserting", !.targets = Active]
  <2>1. w \in Work /\ w.dep = work[h].dep /\ work' = [work EXCEPT ![h] = w]
    BY <1>2, PointNames DEF RunInsert, TypeOK, Work, Active
  <2>2. work[h].dep \in Deps
    BY <1>2, PointNames DEF RunInsert, At, HandlersOwnRows
  <2>3. work' \in [Handlers -> Work] /\ HandlersOwnRows'
    <3> HIDE DEF w
    <3> QED BY <2>1, <2>2, StartKeeps DEF TypeOK, HandlersOwnRows, Deps
  <2>4. QED
    BY <1>2, <2>3 DEF RunInsert, TypeOK, versionVars, rowVars
<1>3. ASSUME CommitInsert(h) PROVE TypeInv'
  <2>1. work' \in [Handlers -> Work] /\ HandlersOwnRows'
    BY <1>3, GotoKeeps, PointNames DEF CommitInsert, At, TypeOK, HandlersOwnRows, Deps
  <2>2. status' \in [Deps -> DeploymentStatus]
    BY <1>3 DEF CommitInsert, TypeOK, DeploymentStatus
  <2>3. release' \in [Deps -> Versions \cup {NoVersion}]
    BY <1>3 DEF CommitInsert, TypeOK, Work
  <2>4. QED
    BY <1>3, <2>1, <2>2, <2>3 DEF CommitInsert, TypeOK, versionVars
<1>4. ASSUME MarkDeploying(h) \/ MarkActive(h) \/ MarkFailed(h) PROVE TypeInv'
  <2>1. work' \in [Handlers -> Work] /\ HandlersOwnRows'
    BY <1>4, GotoKeeps, PointNames
    DEF MarkDeploying, MarkActive, MarkFailed, At, TypeOK, HandlersOwnRows, Deps
  <2>2. status' \in [Deps -> DeploymentStatus]
    BY <1>4 DEF MarkDeploying, MarkActive, MarkFailed, TypeOK, DeploymentStatus
  <2>3. QED
    BY <1>4, <2>1, <2>2 DEF MarkDeploying, MarkActive, MarkFailed, TypeOK, versionVars
<1>5. ASSUME RejectUnprovisioned(h) \/ UpdateLast(h) PROVE TypeInv'
  <2>1. work' \in [Handlers -> Work] /\ HandlersOwnRows'
    BY <1>5, FinishKeeps, PointNames
    DEF RejectUnprovisioned, UpdateLast, TypeOK, HandlersOwnRows, Idle, Deps
  <2>2. QED
    BY <1>5, <2>1 DEF RejectUnprovisioned, UpdateLast, TypeOK, versionVars, rowVars
<1>6. ASSUME DataplaneAccepts(h) \/ DataplaneFails(h) PROVE TypeInv'
  <2>1. work' \in [Handlers -> Work] /\ HandlersOwnRows'
    BY <1>6, GotoKeeps, PointNames
    DEF DataplaneAccepts, DataplaneFails, At, TypeOK, HandlersOwnRows, Deps
  <2>2. QED
    BY <1>6, <2>1 DEF DataplaneAccepts, DataplaneFails, TypeOK, versionVars, rowVars
<1>7. QED
  BY <1>1, <1>2, <1>3, <1>4, <1>5, <1>6 DEF DeployStep

LEMMA RollbackTypes ==
  ASSUME TypeInv, NEW h \in Handlers, SelectRollback(h) \/ CommitRollback(h)
  PROVE  TypeInv'
<1> USE DEF TypeInv
<1>1. ASSUME SelectRollback(h) PROVE TypeInv'
  <2>1. PICK n \in Deps, p \in Deps :
          work' = [work EXCEPT ![h] = [Idle EXCEPT !.at = "rolling", !.dep = p, !.targets = {n}]]
    BY <1>1 DEF SelectRollback
  <2>2. [Idle EXCEPT !.at = "rolling", !.dep = p, !.targets = {n}] \in Work
    <3>1. p \in 0..MaxDeployments /\ {n} \subseteq Deps
      BY BoundsAssumption DEF Deps
    <3>2. "rolling" \in Points
      BY PointNames
    <3>3. QED
      BY <3>1, <3>2, IdleIsWork DEF Idle, Work
  <2>3. work' \in [Handlers -> Work] /\ HandlersOwnRows'
    BY <2>1, <2>2, StartKeeps, PointNames DEF TypeOK, HandlersOwnRows, Idle, Deps
  <2>4. QED
    BY <1>1, <2>3 DEF SelectRollback, TypeOK, versionVars, rowVars
<1>2. ASSUME CommitRollback(h) PROVE TypeInv'
  <2>1. work' \in [Handlers -> Work] /\ HandlersOwnRows'
    BY <1>2, FinishKeeps, PointNames DEF CommitRollback, TypeOK, HandlersOwnRows, Idle, Deps
  <2>2. status' \in [Deps -> DeploymentStatus]
    BY <1>2 DEF CommitRollback, TypeOK, DeploymentStatus
  <2>3. QED
    BY <1>2, <2>1, <2>2 DEF CommitRollback, TypeOK, versionVars
<1>3. QED
  BY <1>1, <1>2

LEMMA FailureTypes ==
  ASSUME TypeInv, Failure
  PROVE  TypeInv'
<1> USE DEF TypeInv
<1>1. ASSUME NEW kind, Fault(kind) PROVE faults' \in 0..MaxFaults
  BY <1>1, BoundsAssumption DEF Fault, TypeOK
<1>2. ASSUME Crash PROVE TypeInv'
  <2>1. work' \in [Handlers -> Work] /\ HandlersOwnRows'
    BY <1>2, IdleIsWork, PointNames DEF Crash, HandlersOwnRows, Idle
  <2>2. QED
    BY <1>1, <1>2, <2>1 DEF Crash, TypeOK, rowVars
<1>3. ASSUME NEW h \in Handlers, Disconnect(h) PROVE TypeInv'
  <2>1. work' \in [Handlers -> Work] /\ HandlersOwnRows'
    BY <1>3, FinishKeeps, PointNames DEF Disconnect, TypeOK, HandlersOwnRows, Idle, Deps
  <2>2. QED
    BY <1>1, <1>3, <2>1 DEF Disconnect, TypeOK, versionVars, rowVars
<1>4. ASSUME NEW h \in Handlers, DbError(h) PROVE TypeInv'
  <2> DEFINE next == AfterDbError(work[h].at)
  <2>1. next \in {"idle", "deploying", "activated", "failed"}
        /\ (next # "idle" => work[h].at \in RowPoints)
    <3>1. CASE work[h].at \in {"inserted", "acked", "refused"}
      BY <3>1, PointNames DEF AfterDbError
    <3>2. CASE work[h].at \notin {"inserted", "acked", "refused"}
      BY <3>2 DEF AfterDbError
    <3>3. QED
      BY <3>1, <3>2
  <2>2. work' \in [Handlers -> Work] /\ HandlersOwnRows'
    <3>1. CASE next = "idle"
      <4>1. Finish(h)
        BY <1>4, <3>1 DEF DbError
      <4>2. QED
        BY <4>1, FinishKeeps, PointNames DEF TypeOK, HandlersOwnRows, Idle, Deps
    <3>2. CASE next # "idle"
      <4>1. Goto(h, next)
        BY <1>4, <3>2 DEF DbError
      <4>2. next \in Points
        BY <2>1, PointNames
      <4>3. QED
        <5> HIDE DEF next
        <5> QED BY <2>1, <3>2, <4>1, <4>2, GotoKeeps DEF TypeOK, HandlersOwnRows, Deps
    <3>3. QED
      BY <3>1, <3>2
  <2>3. QED
    BY <1>1, <1>4, <2>2 DEF DbError, TypeOK, versionVars, rowVars
<1>5. ASSUME NEW v \in Versions, BuildDbError(v) PROVE TypeInv'
  <2>1. HandlersOwnRows'
    BY <1>5 DEF BuildDbError, HandlersOwnRows, Deps
  <2>2. QED
    BY <1>1, <1>5, <2>1 DEF BuildDbError, TypeOK, rowVars
<1>6. QED
  BY <1>2, <1>3, <1>4, <1>5 DEF Failure

LEMMA TypeStep == ASSUME TypeInv, [Next]_vars PROVE TypeInv'
<1> USE DEF TypeInv
<1>1. ASSUME NEW v \in Versions, BuildStep(v) PROVE TypeInv'
  BY <1>1 DEF BuildStep, CompleteVersion, FinishBuild, TypeOK, BuildStatus,
              JobStatus, HandlersOwnRows, Deps, rowVars
<1>2. CASE Provisioned
  BY <1>2 DEF Provisioned, TypeOK, HandlersOwnRows, Deps, versionVars, rowVars
<1>3. CASE UNCHANGED vars
  BY <1>3 DEF vars, TypeOK, HandlersOwnRows, Deps
<1>4. ASSUME NEW h \in Handlers, DeployCurrent(h) PROVE TypeInv'
  BY <1>4, VersionStepTypes DEF DeployCurrent, TypeOK
<1>5. QED
  BY <1>1, <1>2, <1>3, <1>4, VersionStepTypes, DeployStepTypes, RollbackTypes, FailureTypes
  DEF Next, Request, HandlerStep

\* The state keeps its type: the columns and the handlers only ever hold the
\* statuses and points the code has, and every handler that works on a row of
\* deployments works on one within the table.
THEOREM TypeCorrect == Spec => []TypeOK
<1>1. TypeInv => TypeOK
  BY DEF TypeInv
<1>2. QED
  BY <1>1, TypeInvInit, TypeStep, PTL DEF Spec

-----------------------------------------------------------------------------
(* Rows: whose they are, and which versions they name.                     *)

BeforeCommit == {"begun", "inserting"}

\* No two handlers own the same row, and none owns a row that is not begun.
RowsHaveOneOwner ==
    /\ \A d \in Born : d <= begun
    /\ \A h \in Handlers : work[h].at \in RowPoints => work[h].dep <= begun
    /\ \A g, h \in Handlers :
          g # h /\ work[g].at \in RowPoints /\ work[h].at \in RowPoints
            => work[g].dep # work[h].dep

\* A row appears with its handler's commit, and a rollback works on rows that
\* have appeared.
RowsAppearOnce ==
    /\ \A d \in Deps \ Born : release[d] = NoVersion
    /\ \A h \in Handlers :
        /\ work[h].at \in BeforeCommit => work[h].dep \notin Born
        /\ work[h].at \in RowPoints \ BeforeCommit => work[h].dep \in Born
        /\ work[h].at = "rolling" => work[h].dep \in Born /\ work[h].targets \subseteq Born

\* What CheckVersion has seen stays true while the handler runs.
HandlersDeployBuilt ==
    \A h \in Handlers : work[h].at \in DeployPoints =>
        work[h].version \in Versions /\ build[work[h].version] = "complete"

RowInv == /\ TypeInv
          /\ RowsHaveOneOwner
          /\ RowsAppearOnce
          /\ HandlersDeployBuilt
          /\ DeployedAreBuilt

\* A completed build stays complete in every step.
LEMMA CompleteIsFinal ==
  ASSUME TypeInv, [Next]_vars, NEW v \in Versions, build[v] = "complete"
  PROVE  build'[v] = "complete"
<1> USE DEF TypeInv, TypeOK
<1>1. ASSUME NEW h \in Handlers, NEW w \in Versions, InsertVersion(h, w)
      PROVE build'[v] = "complete"
  BY <1>1 DEF InsertVersion
<1>2. ASSUME NEW w \in Versions, BuildStep(w) PROVE build'[v] = "complete"
  BY <1>2 DEF BuildStep, CompleteVersion, FinishBuild
<1>3. ASSUME NEW h \in Handlers, NEW w \in Versions, CheckVersion(h, w) PROVE UNCHANGED build
  BY <1>3 DEF CheckVersion, versionVars
<1>4. ASSUME NEW h \in Handlers, HandlerStep(h) PROVE UNCHANGED build
  BY <1>4 DEF HandlerStep, DeployStep, SetCurrentVersion, QueueBuild, BeginInsert, RunInsert,
       CommitInsert, MarkDeploying, RejectUnprovisioned, DataplaneAccepts, DataplaneFails,
       MarkActive, MarkFailed, UpdateLast, CommitRollback, versionVars
<1>5. ASSUME NEW h \in Handlers, DeployCurrent(h) PROVE UNCHANGED build
  BY <1>5 DEF DeployCurrent, CheckVersion, versionVars
<1>6. ASSUME NEW h \in Handlers, SelectRollback(h) PROVE UNCHANGED build
  BY <1>6 DEF SelectRollback, versionVars
<1>7. CASE Provisioned \/ Failure
  BY <1>7 DEF Provisioned, Failure, Crash, Disconnect, DbError, BuildDbError, versionVars
<1>8. CASE UNCHANGED vars
  BY <1>8 DEF vars
<1>9. QED
  BY <1>1, <1>2, <1>3, <1>4, <1>5, <1>6, <1>7, <1>8 DEF Next, Request

\* A step that leaves the table alone, and in which every handler stays where
\* it is or moves without leaving its row, keeps what RowInv says of rows.
LEMMA QuietStepKeepsRows ==
  ASSUME RowInv, TypeInv', UNCHANGED rowVars,
         \A v \in Versions : build[v] = "complete" => build'[v] = "complete",
         \A h \in Handlers :
            \/ work'[h] = work[h]
            \/ work'[h].at \notin DeployPoints \cup {"rolling"}
            \/ /\ work'[h].at = "checked"
               /\ work'[h].version \in Versions
               /\ build[work'[h].version] = "complete"
            \/ /\ work[h].at \in RowPoints /\ work'[h].at \in RowPoints
               /\ work[h].at \in BeforeCommit <=> work'[h].at \in BeforeCommit
               /\ work'[h].dep = work[h].dep
               /\ work'[h].version = work[h].version
            \/ /\ work'[h].at = "rolling"
               /\ work'[h].dep \in Born /\ work'[h].targets \subseteq Born
  PROVE  RowInv'
<1> USE PointNames DEF RowInv
<1>1. Born' = Born /\ begun' = begun /\ release' = release
  BY DEF rowVars, Born
<1>2. RowsHaveOneOwner'
  BY <1>1 DEF RowsHaveOneOwner, DeployPoints
<1>3. RowsAppearOnce'
  BY <1>1 DEF RowsAppearOnce, DeployPoints, BeforeCommit
<1>4. HandlersDeployBuilt'
  BY DEF HandlersDeployBuilt, DeployPoints
<1>5. DeployedAreBuilt'
  BY <1>1 DEF DeployedAreBuilt
<1>6. QED
  BY <1>2, <1>3, <1>4, <1>5
LEMMA RowInvInit == Init => RowInv
  BY TypeInvInit, PointNames
  DEF Init, RowInv, RowsHaveOneOwner, RowsAppearOnce, HandlersDeployBuilt,
      DeployedAreBuilt, Idle, Born, BeforeCommit, DeployPoints

LEMMA BeginKeepsRows ==
  ASSUME RowInv, TypeInv', NEW h \in Handlers, BeginInsert(h)
  PROVE  RowInv'
<1> USE DEF RowInv
<1>1. /\ Born' = Born /\ begun' = begun + 1 /\ release' = release /\ build' = build
      /\ begun \in Nat
  BY BoundsAssumption DEF BeginInsert, Born, versionVars, TypeInv, TypeOK
<1> DEFINE w == [work[h] EXCEPT !.at = "begun", !.dep = begun + 1]
<1>2. work[h].at = "checked" /\ work' = [work EXCEPT ![h] = w]
  BY DEF BeginInsert, At, TypeInv, TypeOK, Work
<1>3. w \in Work /\ w.at = "begun" /\ w.dep = begun + 1 /\ w.version = work[h].version
      /\ work \in [Handlers -> Work]
  BY <1>1, PointNames, BoundsAssumption DEF BeginInsert, TypeInv, TypeOK, Work
<1> HIDE DEF w
<1>4. work'[h] = w /\ \A g \in Handlers \ {h} : work'[g] = work[g]
  BY <1>2, <1>3, StartKeeps
<1>5. \A g \in Handlers \ {h} : work[g].at \in RowPoints => work[g].dep \in Nat /\ work[g].dep <= begun
  BY DEF RowsHaveOneOwner, TypeInv, HandlersOwnRows, Deps
<1>6. \A d \in Born : d \in Nat /\ d <= begun
  BY DEF RowsHaveOneOwner, Born, Deps
<1>7. RowsHaveOneOwner'
  BY <1>1, <1>3, <1>4, <1>5, <1>6 DEF RowsHaveOneOwner
<1>8. RowsAppearOnce'
  BY <1>1, <1>3, <1>4, <1>6 DEF RowsAppearOnce, BeforeCommit
<1>9. HandlersDeployBuilt'
  BY <1>1, <1>2, <1>3, <1>4, PointNames DEF HandlersDeployBuilt, DeployPoints
<1>10. QED
  BY <1>1, <1>7, <1>8, <1>9 DEF DeployedAreBuilt

LEMMA CommitKeepsRows ==
  ASSUME RowInv, TypeInv', NEW h \in Handlers, CommitInsert(h)
  PROVE  RowInv'
<1> USE DEF RowInv
<1>1. /\ begun' = begun /\ build' = build
      /\ work[h].at = "inserting" /\ Goto(h, "inserted")
  BY DEF CommitInsert, At, versionVars
<1>2. work[h].dep \in Deps \ Born /\ work[h].version \in Versions
      /\ build[work[h].version] = "complete"
  BY <1>1, PointNames
  DEF RowsAppearOnce, BeforeCommit, HandlersDeployBuilt, TypeInv, HandlersOwnRows, DeployPoints
<1>3. Born' = Born \cup {work[h].dep}
      /\ release' = [release EXCEPT ![work[h].dep] = work[h].version]
      /\ release \in [Deps -> Versions \cup {NoVersion}]
  BY <1>2 DEF CommitInsert, Born, Active, TypeInv, TypeOK
<1>4. /\ \A g \in Handlers \ {h} : work'[g] = work[g]
      /\ work'[h].at = "inserted" /\ work'[h].dep = work[h].dep
      /\ work'[h].version = work[h].version
  BY <1>1, GotoKeeps, PointNames DEF TypeInv, TypeOK
<1>5. RowsHaveOneOwner'
  BY <1>1, <1>3, <1>4, PointNames DEF RowsHaveOneOwner
<1>6. RowsAppearOnce'
  BY <1>1, <1>3, <1>4, PointNames DEF RowsAppearOnce, RowsHaveOneOwner, BeforeCommit
<1>7. HandlersDeployBuilt'
  BY <1>1, <1>4, PointNames DEF HandlersDeployBuilt, DeployPoints
<1>8. DeployedAreBuilt'
  BY <1>1, <1>2, <1>3 DEF DeployedAreBuilt, Born
<1>9. QED
  BY <1>5, <1>6, <1>7, <1>8

\* MarkDeploying, MarkActive, MarkFailed and the commit of a rollback write
\* the status of rows that have appeared, and none makes a row disappear.
LEMMA MarkKeepsRows ==
  ASSUME RowInv, TypeInv', NEW h \in Handlers,
         MarkDeploying(h) \/ MarkActive(h) \/ MarkFailed(h)
  PROVE  RowInv'
<1> USE DEF RowInv
<1>1. PICK p \in RowPoints \ BeforeCommit : Goto(h, p)
  BY PointNames DEF MarkDeploying, MarkActive, MarkFailed, BeforeCommit
<1>2. work[h].at \in RowPoints \ BeforeCommit
  BY PointNames DEF MarkDeploying, MarkActive, MarkFailed, BeforeCommit, At
<1>3. work[h].dep \in Born
  BY <1>2 DEF RowsAppearOnce
<1>4. Born' = Born /\ begun' = begun /\ release' = release /\ build' = build
  BY <1>3 DEF MarkDeploying, MarkActive, MarkFailed, Born, TypeInv, TypeOK, versionVars
<1>5. /\ \A g \in Handlers \ {h} : work'[g] = work[g]
      /\ work'[h].at = p /\ work'[h].dep = work[h].dep
      /\ work'[h].version = work[h].version
  BY <1>1, GotoKeeps, PointNames DEF TypeInv, TypeOK
<1>6. RowsHaveOneOwner' /\ RowsAppearOnce' /\ HandlersDeployBuilt' /\ DeployedAreBuilt'
  BY <1>2, <1>3, <1>4, <1>5, PointNames
  DEF RowsHaveOneOwner, RowsAppearOnce, HandlersDeployBuilt, DeployedAreBuilt,
      BeforeCommit, DeployPoints
<1>7. QED
  BY <1>6

LEMMA RollbackKeepsRows ==
  ASSUME RowInv, TypeInv', NEW h \in Handlers, CommitRollback(h)
  PROVE  RowInv'
<1> USE DEF RowInv
<1>1. work[h].dep \in Born /\ work[h].targets \subseteq Born
  BY DEF CommitRollback, At, RowsAppearOnce
<1>2. Born' = Born /\ begun' = begun /\ release' = release /\ build' = build
  BY <1>1 DEF CommitRollback, Born, TypeInv, TypeOK, versionVars
<1>3. work'[h] = Idle /\ \A g \in Handlers \ {h} : work'[g] = work[g]
  BY FinishKeeps DEF CommitRollback, TypeInv, TypeOK
<1>4. RowsHaveOneOwner' /\ RowsAppearOnce' /\ HandlersDeployBuilt' /\ DeployedAreBuilt'
  BY <1>2, <1>3, PointNames
  DEF RowsHaveOneOwner, RowsAppearOnce, HandlersDeployBuilt, DeployedAreBuilt,
      BeforeCommit, DeployPoints, Idle
<1>5. QED
  BY <1>4
LEMMA RowStep == ASSUME RowInv, [Next]_vars PROVE RowInv'
<1>1. TypeInv' /\ \A v \in Versions : build[v] = "complete" => build'[v] = "complete"
  BY TypeStep, CompleteIsFinal DEF RowInv
<1>2. TypeInv /\ work \in [Handlers -> Work]
  BY DEF RowInv, TypeInv, TypeOK
<1>3. ASSUME NEW h \in Handlers, NEW v \in Versions, InsertVersion(h, v) PROVE RowInv'
  <2>1. UNCHANGED rowVars /\ \A g \in Handlers \ {h} : work'[g] = work[g]
    BY <1>2, <1>3 DEF InsertVersion
  <2>2. work'[h].at = "versioned"
    BY <1>2, <1>3 DEF InsertVersion, Idle
  <2>3. QED
    BY <1>1, <2>1, <2>2, PointNames, QuietStepKeepsRows DEF DeployPoints
<1>4. ASSUME NEW h \in Handlers, NEW v \in Versions, CheckVersion(h, v) PROVE RowInv'
  <2>1. UNCHANGED rowVars /\ \A g \in Handlers \ {h} : work'[g] = work[g]
    BY <1>2, <1>4 DEF CheckVersion
  <2>2. work'[h].at = "checked" /\ work'[h].version = v /\ build[v] = "complete"
    BY <1>2, <1>4 DEF CheckVersion, Idle
  <2>3. QED
    BY <1>1, <2>1, <2>2, QuietStepKeepsRows
<1>5. ASSUME NEW h \in Handlers, SetCurrentVersion(h) \/ QueueBuild(h) PROVE RowInv'
  <2>1. UNCHANGED rowVars /\ \A g \in Handlers \ {h} : work'[g] = work[g]
    BY <1>2, <1>5 DEF SetCurrentVersion, QueueBuild, Goto, Finish
  <2>2. work'[h].at \in {"named", "idle"}
    BY <1>2, <1>5, PointNames, GotoKeeps, FinishKeeps DEF SetCurrentVersion, QueueBuild, Idle
  <2>3. QED
    BY <1>1, <2>1, <2>2, PointNames, QuietStepKeepsRows DEF DeployPoints
<1>6. ASSUME NEW h \in Handlers, RunInsert(h) PROVE RowInv'
  <2>1. UNCHANGED rowVars /\ \A g \in Handlers \ {h} : work'[g] = work[g]
    BY <1>2, <1>6 DEF RunInsert
  <2>2. /\ work[h].at = "begun" /\ work'[h].at = "inserting"
        /\ work'[h].dep = work[h].dep /\ work'[h].version = work[h].version
    BY <1>2, <1>6 DEF RunInsert, At, Work
  <2>3. QED
    BY <1>1, <2>1, <2>2, PointNames, QuietStepKeepsRows DEF BeforeCommit
<1>7. ASSUME NEW h \in Handlers, RejectUnprovisioned(h) \/ UpdateLast(h) PROVE RowInv'
  <2>1. UNCHANGED rowVars /\ Finish(h)
    BY <1>7 DEF RejectUnprovisioned, UpdateLast
  <2>2. work'[h].at = "idle" /\ \A g \in Handlers \ {h} : work'[g] = work[g]
    BY <1>2, <2>1, FinishKeeps DEF Idle
  <2>3. QED
    BY <1>1, <2>1, <2>2, PointNames, QuietStepKeepsRows DEF DeployPoints
<1>8. ASSUME NEW h \in Handlers, DataplaneAccepts(h) \/ DataplaneFails(h) PROVE RowInv'
  <2>1. PICK p \in {"acked", "refused"} : Goto(h, p) /\ work[h].at = "deploying" /\ UNCHANGED rowVars
    BY <1>8 DEF DataplaneAccepts, DataplaneFails, At
  <2>2. /\ work'[h].at = p /\ work'[h].dep = work[h].dep
        /\ work'[h].version = work[h].version
        /\ \A g \in Handlers \ {h} : work'[g] = work[g]
    BY <1>2, <2>1, GotoKeeps, PointNames
  <2>3. QED
    BY <1>1, <2>1, <2>2, PointNames, QuietStepKeepsRows DEF BeforeCommit
<1>9. ASSUME NEW h \in Handlers, SelectRollback(h) PROVE RowInv'
  <2>1. PICK n \in Born, p \in Born :
          work' = [work EXCEPT ![h] = [Idle EXCEPT !.at = "rolling", !.dep = p, !.targets = {n}]]
    BY <1>9 DEF SelectRollback, NewestTwo
  <2>2. /\ work'[h].at = "rolling" /\ work'[h].dep = p /\ work'[h].targets = {n}
        /\ \A g \in Handlers \ {h} : work'[g] = work[g]
    BY <1>2, <2>1 DEF Idle
  <2>3. UNCHANGED rowVars
    BY <1>9 DEF SelectRollback
  <2>4. QED
    BY <1>1, <2>2, <2>3, QuietStepKeepsRows
<1>10. ASSUME NEW h \in Handlers, Disconnect(h) \/ DbError(h) PROVE RowInv'
  <2>1. UNCHANGED rowVars
    BY <1>10 DEF Disconnect, DbError
  <2>2. CASE Finish(h)
    BY <1>1, <1>2, <2>1, <2>2, FinishKeeps, PointNames, QuietStepKeepsRows DEF Idle, DeployPoints
  <2>3. CASE ~Finish(h)
    <3> DEFINE p == AfterDbError(work[h].at)
    <3>1. p # "idle" /\ Goto(h, p)
      BY <1>10, <2>3 DEF Disconnect, DbError
    <3>2. work[h].at \in {"inserted", "acked", "refused"}
      BY <3>1 DEF AfterDbError
    <3>3. p \in {"deploying", "activated", "failed"}
      BY <3>2 DEF AfterDbError
    <3> HIDE DEF p
    <3>4. /\ work'[h].at = p /\ work'[h].dep = work[h].dep
          /\ work'[h].version = work[h].version
          /\ \A g \in Handlers \ {h} : work'[g] = work[g]
      BY <1>2, <3>1, <3>3, GotoKeeps, PointNames
    <3>5. QED
      BY <1>1, <2>1, <3>2, <3>3, <3>4, PointNames, QuietStepKeepsRows DEF BeforeCommit
  <2>4. QED
    BY <2>2, <2>3
<1>11. ASSUME Crash PROVE RowInv'
  <2>1. UNCHANGED rowVars /\ \A h \in Handlers : work'[h].at = "idle"
    BY <1>11 DEF Crash, Idle
  <2>2. QED
    BY <1>1, <2>1, PointNames, QuietStepKeepsRows DEF DeployPoints
<1>12. ASSUME UNCHANGED <<rowVars, work>> PROVE RowInv'
  BY <1>1, <1>12, QuietStepKeepsRows
<1>13. CASE Provisioned \/ (\E v \in Versions : BuildStep(v) \/ BuildDbError(v)) \/ UNCHANGED vars
  BY <1>12, <1>13
  DEF Provisioned, BuildStep, CompleteVersion, FinishBuild, BuildDbError, vars, rowVars
<1>14. ASSUME NEW h \in Handlers, DeployStep(h) PROVE RowInv'
  BY <1>1, <1>6, <1>7, <1>8, <1>14, BeginKeepsRows, CommitKeepsRows, MarkKeepsRows DEF DeployStep
<1>15. ASSUME NEW h \in Handlers, DeployCurrent(h) PROVE RowInv'
  BY <1>2, <1>4, <1>15 DEF DeployCurrent, TypeInv, TypeOK
<1>16. QED
  BY <1>1, <1>3, <1>4, <1>5, <1>9, <1>10, <1>11, <1>13, <1>14, <1>15, RollbackKeepsRows
  DEF Next, Request, HandlerStep, Failure

\* Whatever requests overlap, whatever fails and wherever the process dies,
\* every deployment row names a version whose build is complete.
THEOREM OnlyBuiltVersionsAreDeployed == Spec => []DeployedAreBuilt
<1>1. RowInv => DeployedAreBuilt
  BY DEF RowInv
<1>2. QED
  BY <1>1, RowInvInit, RowStep, PTL DEF Spec

\* A row that has appeared stays, and keeps its version, in every step.
THEOREM ReleasesNeverChange == Spec => ReleasesAreImmutable
<1>1. RowInv /\ [Next]_vars => [\A d \in Born : d \in Born' /\ release'[d] = release[d]]_vars
  <2> SUFFICES ASSUME RowInv, [Next]_vars, NEW d \in Born
               PROVE  d \in Born' /\ release'[d] = release[d]
    OBVIOUS
  <2>1. CASE UNCHANGED <<status, release>>
    BY <2>1 DEF Born
  <2>2. ASSUME NEW h \in Handlers, CommitInsert(h) PROVE d \in Born' /\ release'[d] = release[d]
    <3>1. work[h].dep \notin Born
      BY <2>2 DEF CommitInsert, At, RowInv, RowsAppearOnce, BeforeCommit
    <3>2. QED
      BY <2>2, <3>1 DEF CommitInsert, Born, RowInv, TypeInv, TypeOK
  <2>3. ASSUME NEW h \in Handlers,
               MarkDeploying(h) \/ MarkActive(h) \/ MarkFailed(h) \/ CommitRollback(h)
        PROVE  d \in Born' /\ release'[d] = release[d]
    BY <2>3 DEF MarkDeploying, MarkActive, MarkFailed, CommitRollback, Born, RowInv, TypeInv, TypeOK
  <2>4. QED
    BY <2>1, <2>2, <2>3
    DEF Next, Request, HandlerStep, DeployStep, DeployCurrent, BuildStep, Failure, vars, rowVars,
        InsertVersion, SetCurrentVersion, QueueBuild, CheckVersion, BeginInsert, RunInsert,
        RejectUnprovisioned, DataplaneAccepts, DataplaneFails, UpdateLast, SelectRollback,
        CompleteVersion, FinishBuild, Provisioned, Crash, Disconnect, DbError, BuildDbError
<1>2. QED
  BY <1>1, RowInvInit, RowStep, PTL DEF Spec, ReleasesAreImmutable
\* A build job that succeeded belongs to a complete version, provided no
\* statement of the build goroutine fails (it drops their errors).
THEOREM SucceededJobs ==
  ASSUME "db" \notin FaultKinds
  PROVE  Spec => []SucceededJobsAreDeployable
<1> DEFINE JobInv ==
      /\ TypeInv
      /\ SucceededJobsAreDeployable
      /\ \A v \in Versions : builder[v] = "reporting" => build[v] = "complete"
<1>1. Init => JobInv
  BY TypeInvInit DEF Init, SucceededJobsAreDeployable
<1>2. JobInv /\ [Next]_vars => JobInv'
  <2> SUFFICES ASSUME JobInv, [Next]_vars PROVE JobInv'
    OBVIOUS
  <2>1. TypeInv' /\ \A v \in Versions : build[v] = "complete" => build'[v] = "complete"
    BY TypeStep, CompleteIsFinal
  <2> DEFINE Earned ==
        \A v \in Versions :
           /\ job'[v] = "succeeded" => job[v] = "succeeded" \/ builder[v] = "reporting"
           /\ builder'[v] = "reporting" => builder[v] = "reporting" \/ build'[v] = "complete"
  <2>2. Earned
    <3>1. ASSUME NEW v \in Versions, BuildStep(v) PROVE Earned
      BY <3>1 DEF BuildStep, CompleteVersion, FinishBuild, TypeInv, TypeOK
    <3>2. ASSUME NEW h \in Handlers, QueueBuild(h) PROVE Earned
      BY <3>2 DEF QueueBuild, TypeInv, TypeOK
    <3>3. CASE Crash
      BY <3>3 DEF Crash
    <3>4. CASE UNCHANGED <<job, builder>>
      BY <3>4
    <3>5. QED
      BY <3>1, <3>2, <3>3, <3>4
      DEF Next, Request, HandlerStep, DeployStep, DeployCurrent, Failure, vars, versionVars,
          InsertVersion, SetCurrentVersion, CheckVersion, BeginInsert, RunInsert, CommitInsert,
          MarkDeploying, RejectUnprovisioned, DataplaneAccepts, DataplaneFails, MarkActive,
          MarkFailed, UpdateLast, SelectRollback, CommitRollback, Provisioned, Disconnect,
          DbError, BuildDbError, Fault
  <2>3. QED
    BY <2>1, <2>2 DEF SucceededJobsAreDeployable
<1>3. QED
  BY <1>1, <1>2, PTL DEF Spec

-----------------------------------------------------------------------------
(* One request at a time.                                                  *)

OneRequestAtATime == \A g, h \in Handlers : g = h

\* A row with two newer rows is not active: an insert supersedes all rows
\* before its own, and a rollback reaches no further than the second newest.
ActiveAreRecent == \A d \in Active : \A e, f \in Born : ~(d < e /\ e < f)

SettlingPoints == RowPoints \ BeforeCommit

\* What the only handler knows of the table.
HandlerKnows(h) ==
    /\ work[h].at \in BeforeCommit => work[h].dep = begun
    /\ work[h].at = "inserting" => Active \subseteq work[h].targets
    /\ work[h].at \in SettlingPoints =>
          Active \subseteq {work[h].dep} /\ \A e \in Born : e <= work[h].dep
    /\ work[h].at = "rolling" =>
          \E n \in Born : work[h].targets = {n} /\ NewestTwo(n, work[h].dep)

SerialInv == /\ RowInv
             /\ SingleActive
             /\ ActiveAreRecent
             /\ \A h \in Handlers : HandlerKnows(h)

LEMMA SerialInit == Init => SerialInv
  BY RowInvInit, PointNames
  DEF Init, SerialInv, SingleActive, ActiveAreRecent, HandlerKnows, Idle, Active,
      BeforeCommit, SettlingPoints

\* Steps that leave the table alone.
LEMMA SerialQuiet ==
  ASSUME SerialInv, UNCHANGED <<status, begun>>,
         \A h \in Handlers :
            \/ work'[h] = work[h]
            \/ work'[h].at \notin RowPoints \cup {"rolling"}
            \/ /\ work[h].at \in SettlingPoints /\ work'[h].at \in SettlingPoints
               /\ work'[h].dep = work[h].dep
            \/ /\ work[h].at = "begun" /\ work'[h].at = "inserting"
               /\ work'[h].dep = work[h].dep /\ work'[h].targets = Active
            \/ /\ work'[h].at = "rolling"
               /\ \E n \in Born : work'[h].targets = {n} /\ NewestTwo(n, work'[h].dep)
  PROVE  SingleActive' /\ ActiveAreRecent' /\ \A h \in Handlers : HandlerKnows(h)'
<1>1. Born' = Born /\ Active' = Active /\ begun' = begun
  BY DEF Born, Active
<1>2. SingleActive' /\ ActiveAreRecent'
  BY <1>1 DEF SerialInv, SingleActive, ActiveAreRecent
<1>3. ASSUME NEW h \in Handlers PROVE HandlerKnows(h)'
  <2>1. HandlerKnows(h)
    BY DEF SerialInv
  <2>2. QED
    BY <1>1, <2>1, PointNames DEF HandlerKnows, NewestTwo, BeforeCommit, SettlingPoints
<1>4. QED
  BY <1>2, <1>3
LEMMA SerialCommits ==
  ASSUME OneRequestAtATime, SerialInv, NEW h \in Handlers,
         \/ BeginInsert(h) \/ CommitInsert(h) \/ MarkDeploying(h) \/ MarkActive(h)
         \/ MarkFailed(h) \/ CommitRollback(h)
  PROVE  SingleActive' /\ ActiveAreRecent' /\ \A g \in Handlers : HandlerKnows(g)'
<1> USE PointNames DEF OneRequestAtATime, SerialInv, SingleActive, ActiveAreRecent
<1>1. Handlers = {h} /\ HandlerKnows(h) /\ work \in [Handlers -> Work]
      /\ status \in [Deps -> DeploymentStatus] /\ begun \in Nat
  BY BoundsAssumption DEF RowInv, TypeInv, TypeOK
<1>2. \A d \in Born : d \in Nat /\ d <= begun
  BY DEF RowInv, RowsHaveOneOwner, Born, Deps
<1>3. CASE BeginInsert(h)
  <2>1. Born' = Born /\ Active' = Active /\ begun' = begun + 1
    BY <1>3 DEF BeginInsert, Born, Active
  <2>2. work'[h].at = "begun" /\ work'[h].dep = begun + 1
    BY <1>1, <1>3 DEF BeginInsert, Work
  <2>3. QED
    BY <1>1, <2>1, <2>2 DEF HandlerKnows, BeforeCommit, SettlingPoints
<1>4. CASE CommitInsert(h)
  <2> DEFINE new == work[h].dep
  <2>1. /\ work[h].at = "inserting" /\ new = begun /\ Active \subseteq work[h].targets
        /\ new \in Deps \ Born
    BY <1>1, <1>4 DEF CommitInsert, At, HandlerKnows, BeforeCommit, RowInv, RowsAppearOnce,
                      TypeInv, HandlersOwnRows
  <2>2. Active' = {new} /\ Born' = Born \cup {new}
    BY <1>4, <2>1 DEF CommitInsert, Active, Born
  <2>3. \A d \in Born' : d \in Nat /\ d <= new
    BY <1>1, <1>2, <2>1, <2>2 DEF Deps
  <2>4. work'[h].at = "inserted" /\ work'[h].dep = new
    BY <1>1, <1>4, GotoKeeps DEF CommitInsert
  <2>5. QED
    BY <1>1, <2>2, <2>3, <2>4 DEF HandlerKnows, BeforeCommit, SettlingPoints
<1>5. CASE MarkDeploying(h) \/ MarkActive(h) \/ MarkFailed(h)
  <2> DEFINE d == work[h].dep
  <2>1. /\ work[h].at \in SettlingPoints /\ d \in Born
        /\ Active \subseteq {d} /\ \A e \in Born : e <= d
    BY <1>1, <1>5 DEF MarkDeploying, MarkActive, MarkFailed, At, HandlerKnows, BeforeCommit,
                      SettlingPoints, RowInv, RowsAppearOnce
  <2>2. Active' \subseteq {d} /\ Born' = Born
    BY <1>1, <1>5, <2>1 DEF MarkDeploying, MarkActive, MarkFailed, Active, Born
  <2>3. work'[h].at \in SettlingPoints /\ work'[h].dep = d
    BY <1>1, <1>5, GotoKeeps
    DEF MarkDeploying, MarkActive, MarkFailed, BeforeCommit, SettlingPoints
  <2>4. \A e \in Born : e \in Nat
    BY <1>2
  <2>5. QED
    BY <1>1, <2>1, <2>2, <2>3, <2>4 DEF HandlerKnows, BeforeCommit, SettlingPoints
<1>6. CASE CommitRollback(h)
  <2>1. PICK n \in Born : work[h].targets = {n} /\ NewestTwo(n, work[h].dep)
    BY <1>1, <1>6 DEF CommitRollback, At, HandlerKnows
  <2> DEFINE p == work[h].dep
  <2>2. p \in Born /\ p < n /\ \A d \in Born : d = n \/ d <= p
    BY <2>1 DEF NewestTwo
  <2>3. Active \subseteq {n, p}
    <3>1. ASSUME NEW d \in Active, d # n, d # p PROVE FALSE
      BY <1>2, <2>2, <3>1 DEF Active, Born
    <3>2. QED
      BY <3>1
  <2>4. Active' = {p} /\ Born' = Born
    BY <1>1, <1>6, <2>1, <2>2, <2>3 DEF CommitRollback, Active, Born
  <2>5. work'[h].at = "idle"
    BY <1>1, <1>6, FinishKeeps DEF CommitRollback, Idle
  <2>6. ActiveAreRecent'
    BY <1>2, <2>2, <2>4
  <2>7. QED
    BY <1>1, <2>4, <2>5, <2>6 DEF HandlerKnows, BeforeCommit, SettlingPoints
<1>7. QED
  BY <1>3, <1>4, <1>5, <1>6
LEMMA SerialStep ==
  ASSUME OneRequestAtATime, SerialInv, [Next]_vars
  PROVE  SerialInv'
<1>1. RowInv /\ RowInv' /\ work \in [Handlers -> Work]
  BY RowStep DEF SerialInv, RowInv, TypeInv, TypeOK
<1> DEFINE Kept == SingleActive' /\ ActiveAreRecent' /\ \A g \in Handlers : HandlerKnows(g)'
<1>2. ASSUME NEW h \in Handlers, UNCHANGED <<status, begun>>,
             \A g \in Handlers \ {h} : work'[g] = work[g],
             work'[h].at \in {"idle", "checked", "versioned", "named"}
      PROVE  Kept
  BY <1>2, PointNames, SerialQuiet
<1>3. ASSUME NEW h \in Handlers, Request(h) PROVE Kept
  <2>1. CASE SelectRollback(h)
    <3>1. PICK n \in Born, p \in Born :
            /\ work' = [work EXCEPT ![h] = [Idle EXCEPT !.at = "rolling", !.dep = p, !.targets = {n}]]
            /\ NewestTwo(n, p)
      BY <2>1 DEF SelectRollback, NewestTwo
    <3>2. /\ work'[h].at = "rolling" /\ work'[h].targets = {n} /\ work'[h].dep = p
          /\ \A g \in Handlers \ {h} : work'[g] = work[g]
      BY <1>1, <3>1 DEF Idle
    <3>3. UNCHANGED <<status, begun>>
      BY <2>1 DEF SelectRollback, rowVars
    <3>4. QED
      BY <3>1, <3>2, <3>3, SerialQuiet
  <2>2. ASSUME NEW v, InsertVersion(h, v) \/ CheckVersion(h, v) PROVE Kept
    <3>1. UNCHANGED <<status, begun>> /\ \A g \in Handlers \ {h} : work'[g] = work[g]
      BY <1>1, <2>2 DEF InsertVersion, CheckVersion, rowVars
    <3>2. work'[h].at \in {"checked", "versioned"}
      BY <1>1, <2>2 DEF InsertVersion, CheckVersion, Idle
    <3>3. QED
      BY <1>2, <3>1, <3>2
  <2>3. QED
    BY <1>3, <2>1, <2>2 DEF Request, DeployCurrent
<1>4. ASSUME NEW h \in Handlers, Finish(h), UNCHANGED <<status, begun>> PROVE Kept
  BY <1>1, <1>2, <1>4, FinishKeeps DEF Idle
<1>5. ASSUME NEW h \in Handlers, SetCurrentVersion(h) \/ QueueBuild(h) PROVE Kept
  BY <1>1, <1>2, <1>4, <1>5, GotoKeeps, PointNames DEF SetCurrentVersion, QueueBuild, rowVars
<1>6. ASSUME NEW h \in Handlers, RunInsert(h) PROVE Kept
  <2>1. /\ work[h].at = "begun" /\ work'[h].at = "inserting"
        /\ work'[h].dep = work[h].dep /\ work'[h].targets = Active
        /\ \A g \in Handlers \ {h} : work'[g] = work[g]
    BY <1>1, <1>6 DEF RunInsert, At, Work
  <2>2. UNCHANGED <<status, begun>>
    BY <1>6 DEF RunInsert, rowVars
  <2>3. QED
    BY <2>1, <2>2, SerialQuiet
<1>7. ASSUME NEW h \in Handlers, NEW p \in {"deploying", "acked", "refused", "activated", "failed"},
             Goto(h, p), work[h].at \in SettlingPoints, UNCHANGED <<status, begun>>
      PROVE  Kept
  <2>1. /\ work'[h].at \in SettlingPoints /\ work'[h].dep = work[h].dep
        /\ \A g \in Handlers \ {h} : work'[g] = work[g]
    BY <1>1, <1>7, GotoKeeps, PointNames DEF SettlingPoints, BeforeCommit
  <2>2. QED
    BY <1>7, <2>1, SerialQuiet
<1>8. ASSUME NEW h \in Handlers, DataplaneAccepts(h) \/ DataplaneFails(h) PROVE Kept
  BY <1>7, <1>8, PointNames
  DEF DataplaneAccepts, DataplaneFails, At, rowVars, SettlingPoints, BeforeCommit
<1>9. ASSUME NEW h \in Handlers, RejectUnprovisioned(h) \/ UpdateLast(h) PROVE Kept
  BY <1>4, <1>9 DEF RejectUnprovisioned, UpdateLast, rowVars
<1>10. ASSUME NEW h \in Handlers, Disconnect(h) \/ DbError(h) PROVE Kept
  <2>1. UNCHANGED <<status, begun>>
    BY <1>10 DEF Disconnect, DbError, rowVars
  <2>2. CASE Finish(h)
    BY <1>4, <2>1, <2>2
  <2>3. CASE ~Finish(h)
    <3> DEFINE p == AfterDbError(work[h].at)
    <3>1. p # "idle" /\ Goto(h, p)
      BY <1>10, <2>3 DEF Disconnect, DbError
    <3>2. work[h].at \in {"inserted", "acked", "refused"}
      BY <3>1 DEF AfterDbError
    <3>3. p \in {"deploying", "activated", "failed"}
      BY <3>2 DEF AfterDbError
    <3> HIDE DEF p
    <3>4. QED
      BY <1>7, <2>1, <3>1, <3>2, <3>3, PointNames DEF SettlingPoints, BeforeCommit
  <2>4. QED
    BY <2>2, <2>3
<1>11. ASSUME Crash PROVE Kept
  <2>1. UNCHANGED <<status, begun>>
    BY <1>11 DEF Crash, rowVars
  <2>2. \A h \in Handlers : work'[h].at \notin RowPoints \cup {"rolling"}
    BY <1>11, PointNames DEF Crash, Idle
  <2>3. QED
    BY <2>1, <2>2, SerialQuiet
<1>12. ASSUME UNCHANGED <<status, begun, work>> PROVE Kept
  BY <1>12, SerialQuiet
<1>13. Kept
  <2> HIDE DEF Kept
  <2>1. ASSUME NEW h \in Handlers, HandlerStep(h) PROVE Kept
    <3> USE DEF Kept
    <3> QED BY <1>5, <1>6, <1>8, <1>9, <2>1, SerialCommits DEF HandlerStep, DeployStep
  <2>2. ASSUME NEW v \in Versions, BuildStep(v) \/ BuildDbError(v) PROVE Kept
    BY <1>12, <2>2 DEF BuildStep, CompleteVersion, FinishBuild, BuildDbError, rowVars
  <2>3. CASE Provisioned \/ UNCHANGED vars
    BY <1>12, <2>3 DEF Provisioned, vars, rowVars
  <2>4. CASE Failure
    BY <1>10, <1>11, <2>2, <2>4 DEF Failure
  <2>5. QED
    BY <1>3, <2>1, <2>2, <2>3, <2>4 DEF Next
<1>14. QED
  BY <1>1, <1>13 DEF SerialInv

\* If requests come one at a time, at most one deployment of the function is
\* ever active, whatever crashes, disconnects and failed statements do.
THEOREM SerialSingleActive ==
  ASSUME OneRequestAtATime
  PROVE  Spec => []SingleActive
<1>1. SerialInv => SingleActive
  BY DEF SerialInv
<1>2. SerialInv /\ [Next]_vars => SerialInv'
  BY SerialStep
<1>3. QED
  BY <1>1, <1>2, SerialInit, PTL DEF Spec

\* What LatestActiveDeploymentForFunction finds among at most one row.
LEMMA ServedValue ==
  ASSUME SingleActive
  PROVE  /\ Active = {} => Served = 0
         /\ \A d \in Active : d \in Nat => Active = {d} /\ Served = d
<1>1. Active = {} => Served = 0
  BY DEF Served
<1>2. ASSUME NEW d \in Active, d \in Nat PROVE Active = {d} /\ Served = d
  <2>1. Active = {d}
    BY <1>2 DEF SingleActive
  <2>2. d \in Active /\ \A e \in Active : e <= d
    BY <1>2, <2>1
  <2>3. QED
    BY <2>1, <2>2 DEF Served
<1>3. QED
  BY <1>1, <1>2

\* One request at a time, and no failing statement: a handler that is about to
\* answer 200 has made its own deployment the one that serves.
THEOREM SerialActivatedIsServed ==
  ASSUME OneRequestAtATime, "db" \notin FaultKinds
  PROVE  Spec => []ActivatedIsServed
<1> DEFINE Marked == \A h \in Handlers : At(h, "activated") => work[h].dep \in Active
<1>1. Init => Marked
  BY DEF Init, Idle, At
<1>2. SerialInv /\ Marked /\ [Next]_vars => Marked'
  <2> SUFFICES ASSUME SerialInv, Marked, [Next]_vars, NEW g \in Handlers, At(g, "activated")'
               PROVE  work'[g].dep \in Active'
    BY DEF At
  <2>1. work \in [Handlers -> Work] /\ status \in [Deps -> DeploymentStatus]
    BY DEF SerialInv, RowInv, TypeInv, TypeOK
  <2>2. ASSUME NEW h \in Handlers, MarkActive(h) PROVE work'[g].dep \in Active'
    <3>1. h = g /\ work[g].dep \in Born
      BY <2>2, PointNames
      DEF OneRequestAtATime, MarkActive, At, SerialInv, RowInv, RowsAppearOnce, BeforeCommit
    <3>2. work'[g].dep = work[g].dep
      BY <2>1, <2>2, <3>1, GotoKeeps, PointNames DEF MarkActive
    <3>3. QED
      BY <2>1, <2>2, <3>1, <3>2 DEF MarkActive, Active, Born
  <2>3. CASE work'[g] = work[g] /\ UNCHANGED status
    BY <2>3 DEF At, Active
  <2>4. ASSUME NEW h \in Handlers, Request(h) \/ SetCurrentVersion(h) \/ QueueBuild(h)
        PROVE  work'[g].dep \in Active'
    <3> DEFINE Elsewhere ==
          UNCHANGED status /\ \/ work'[g] = work[g]
                              \/ work'[g].at \in {"versioned", "checked", "rolling", "named", "idle"}
    <3>a. ASSUME NEW v \in Versions, InsertVersion(h, v) \/ CheckVersion(h, v) PROVE Elsewhere
      BY <2>1, <3>a DEF InsertVersion, CheckVersion, Idle, rowVars
    <3>b. ASSUME SelectRollback(h) PROVE Elsewhere
      <4>1. PICK n \in Deps, p \in Deps :
              work' = [work EXCEPT ![h] = [Idle EXCEPT !.at = "rolling", !.dep = p, !.targets = {n}]]
        BY <3>b DEF SelectRollback
      <4>2. QED
        BY <2>1, <3>b, <4>1 DEF SelectRollback, Idle, rowVars
    <3>c. ASSUME SetCurrentVersion(h) PROVE Elsewhere
      BY <2>1, <3>c, GotoKeeps, PointNames DEF SetCurrentVersion, rowVars
    <3>d. ASSUME QueueBuild(h) PROVE Elsewhere
      BY <2>1, <3>d DEF QueueBuild, Finish, Idle, rowVars
    <3>e. ASSUME DeployCurrent(h) PROVE Elsewhere
      BY <2>1, <3>e DEF DeployCurrent, CheckVersion, Idle, rowVars
    <3>1. Elsewhere
      <4> HIDE DEF Elsewhere
      <4> QED BY <2>4, <3>a, <3>b, <3>c, <3>d, <3>e DEF Request
    <3>2. QED
      BY <2>3, <3>1 DEF At
  <2>5. ASSUME NEW h \in Handlers, HandlerStep(h), ~MarkActive(h) PROVE work'[g].dep \in Active'
    <3>1. h = g
      BY DEF OneRequestAtATime
    <3>2. work'[h].at # "activated" \/ SetCurrentVersion(h) \/ QueueBuild(h)
      <4>1. CASE BeginInsert(h) \/ RunInsert(h)
        BY <2>1, <4>1 DEF BeginInsert, RunInsert, Work
      <4>2. CASE CommitInsert(h) \/ MarkDeploying(h) \/ DataplaneAccepts(h)
                 \/ DataplaneFails(h) \/ MarkFailed(h)
        BY <2>1, <4>2
        DEF CommitInsert, MarkDeploying, DataplaneAccepts, DataplaneFails, MarkFailed, Goto, Work
      <4>3. CASE RejectUnprovisioned(h) \/ UpdateLast(h) \/ CommitRollback(h)
        BY <2>1, <4>3 DEF RejectUnprovisioned, UpdateLast, CommitRollback, Finish, Idle
      <4>4. QED
        BY <2>5, <4>1, <4>2, <4>3 DEF HandlerStep, DeployStep
    <3>3. QED
      BY <2>4, <3>1, <3>2 DEF At
  <2>6. CASE Failure
    <3>1. UNCHANGED status /\ (work'[g] = work[g] \/ work'[g].at = "idle")
      BY <2>1, <2>6 DEF Failure, Crash, Disconnect, DbError, BuildDbError, Fault, Finish, Idle, rowVars
    <3>2. QED
      BY <2>3, <3>1 DEF At
  <2>7. ASSUME NEW v \in Versions, BuildStep(v) PROVE work'[g].dep \in Active'
    BY <2>3, <2>7 DEF BuildStep, CompleteVersion, FinishBuild, rowVars
  <2>8. CASE Provisioned \/ UNCHANGED vars
    BY <2>3, <2>8 DEF Provisioned, vars, rowVars
  <2>9. QED
    BY <2>2, <2>4, <2>5, <2>6, <2>7, <2>8 DEF Next
<1>3. SerialInv /\ Marked => ActivatedIsServed
  BY ServedValue DEF SerialInv, ActivatedIsServed, Active, Deps
<1>4. SerialInv /\ [Next]_vars => SerialInv'
  BY SerialStep
<1>5. QED
  BY <1>1, <1>2, <1>3, <1>4, SerialInit, PTL DEF Spec

-----------------------------------------------------------------------------
(* The status the function shows, when requests come one at a time.        *)

Newest(d) == \A e \in Born : e <= d

\* The newest row is recorded with the function, or its handler still runs.
NewestIsRecorded ==
    \A d \in Born : Newest(d) /\ status[d] \in {"active", "failed"} =>
        \/ lastStatus = status[d]
        \/ \E h \in Handlers : work[h].at \in SettlingPoints

\* What a handler has written to its row is still there.
HandlerMarked(h) ==
    /\ At(h, "deploying") => status[work[h].dep] = "deploying"
    /\ At(h, "activated") => status[work[h].dep] = "active"
    /\ At(h, "failed") => status[work[h].dep] = "failed"

RecordInv == faults = 0 => NewestIsRecorded /\ \A h \in Handlers : HandlerMarked(h)

LEMMA RecordInit == Init => RecordInv
  BY PointNames DEF Init, RecordInv, NewestIsRecorded, HandlerMarked, At, Idle, Born

\* Steps that write no status: a handler stays where it is, or outside the part
\* of the deploy handler that has a row, or hears from the dataplane.
LEMMA RecordQuiet ==
  ASSUME NewestIsRecorded, \A h \in Handlers : HandlerMarked(h),
         UNCHANGED <<status, lastStatus>>,
         \A h \in Handlers :
            \/ work'[h] = work[h]
            \/ work[h].at \notin SettlingPoints /\ work'[h].at \notin SettlingPoints
            \/ work'[h].at \in {"acked", "refused"}
  PROVE  NewestIsRecorded' /\ \A h \in Handlers : HandlerMarked(h)'
<1>1. Born' = Born
  BY DEF Born
<1>2. ASSUME NEW h \in Handlers PROVE HandlerMarked(h)'
  BY <1>2, PointNames DEF HandlerMarked, At, SettlingPoints, BeforeCommit
<1>3. \A h \in Handlers : work[h].at \in SettlingPoints => work'[h].at \in SettlingPoints
  BY PointNames DEF SettlingPoints, BeforeCommit
<1>4. NewestIsRecorded'
  BY <1>1, <1>3 DEF NewestIsRecorded, Newest
<1>5. QED
  BY <1>2, <1>4

\* Steps that write the status of a row or of the function.
LEMMA RecordMarks ==
  ASSUME OneRequestAtATime, SerialInv, NewestIsRecorded, NEW h \in Handlers, HandlerMarked(h),
         \/ CommitInsert(h) \/ MarkDeploying(h) \/ MarkActive(h) \/ MarkFailed(h)
         \/ RejectUnprovisioned(h) \/ UpdateLast(h) \/ CommitRollback(h)
  PROVE  NewestIsRecorded' /\ \A g \in Handlers : HandlerMarked(g)'
<1>1. /\ Handlers = {h} /\ HandlerKnows(h) /\ work \in [Handlers -> Work]
      /\ status \in [Deps -> DeploymentStatus] /\ work[h].at \in Points
  BY DEF OneRequestAtATime, SerialInv, RowInv, TypeInv, TypeOK, Work
<1>2. \A d \in Born : d \in Nat
  BY DEF Born, Deps
<1> DEFINE row == work[h].dep
<1>3. CASE CommitInsert(h) \/ MarkDeploying(h) \/ MarkActive(h) \/ MarkFailed(h)
  <2>1. row \in Deps
    BY <1>1, <1>3, PointNames
    DEF CommitInsert, MarkDeploying, MarkActive, MarkFailed, At, SerialInv, RowInv, TypeInv,
        HandlersOwnRows
  <2>2. CASE CommitInsert(h)
    BY <1>1, <2>1, <2>2, GotoKeeps, PointNames
    DEF CommitInsert, NewestIsRecorded, HandlerMarked, At, SettlingPoints, BeforeCommit
  <2>3. CASE MarkDeploying(h)
    BY <1>1, <2>1, <2>3, GotoKeeps, PointNames
    DEF MarkDeploying, NewestIsRecorded, HandlerMarked, At, SettlingPoints, BeforeCommit
  <2>4. CASE MarkActive(h)
    BY <1>1, <2>1, <2>4, GotoKeeps, PointNames
    DEF MarkActive, NewestIsRecorded, HandlerMarked, At, SettlingPoints, BeforeCommit
  <2>5. CASE MarkFailed(h)
    BY <1>1, <2>1, <2>5, GotoKeeps, PointNames
    DEF MarkFailed, NewestIsRecorded, HandlerMarked, At, SettlingPoints, BeforeCommit
  <2>6. QED
    BY <1>3, <2>2, <2>3, <2>4, <2>5
<1>4. CASE RejectUnprovisioned(h) \/ UpdateLast(h)
  <2>1. work[h].at \in SettlingPoints /\ status' = status /\ work'[h].at = "idle"
    BY <1>1, <1>4, FinishKeeps, PointNames
    DEF RejectUnprovisioned, UpdateLast, At, SettlingPoints, BeforeCommit, Idle, rowVars
  <2>2. row \in Born /\ \A e \in Born : e <= row
    BY <1>1, <2>1 DEF HandlerKnows, SettlingPoints, SerialInv, RowInv, RowsAppearOnce
  <2>3. ASSUME NEW d \in Born, \A e \in Born : e <= d PROVE d = row
    <3>1. d \in Nat /\ row \in Nat /\ d <= row /\ row <= d
      BY <1>2, <2>2, <2>3
    <3>2. QED
      BY <3>1
  <2>4. Born' = Born
    BY <2>1 DEF Born
  <2>5. HandlerMarked(h)'
    BY <2>1 DEF HandlerMarked, At
  <2>6. CASE RejectUnprovisioned(h)
    <3>1. status[row] = "deploying"
      BY <2>6 DEF RejectUnprovisioned, HandlerMarked
    <3>2. QED
      BY <1>1, <2>1, <2>3, <2>4, <2>5, <3>1 DEF NewestIsRecorded, Newest
  <2>7. CASE UpdateLast(h)
    <3>1. lastStatus' = status[row]
      BY <2>7 DEF UpdateLast, HandlerMarked, At
    <3>2. QED
      BY <1>1, <2>1, <2>3, <2>4, <2>5, <3>1 DEF NewestIsRecorded, Newest
  <2>8. QED
    BY <1>4, <2>6, <2>7
<1>5. CASE CommitRollback(h)
  <2>1. PICK n \in Born : work[h].targets = {n} /\ NewestTwo(n, row)
    BY <1>1, <1>5 DEF CommitRollback, At, HandlerKnows
  <2>2. row \in Born /\ row < n /\ \A d \in Born : d = n \/ d <= row
    BY <2>1 DEF NewestTwo
  <2>3. row \in Nat /\ n \in Nat /\ n # row
    BY <1>2, <2>2
  <2>4. status'[n] = "superseded" /\ Born' = Born
    BY <1>1, <1>5, <2>1, <2>2, <2>3 DEF CommitRollback, Born
  <2>5. ASSUME NEW d \in Born, \A e \in Born : e <= d PROVE d = n
    <3>1. d \in Nat /\ n <= d /\ (d = n \/ d <= row)
      BY <1>2, <2>2, <2>5
    <3>2. QED
      BY <2>2, <2>3, <3>1
  <2>6. work'[h].at = "idle"
    BY <1>1, <1>5, FinishKeeps DEF CommitRollback, Idle
  <2>7. HandlerMarked(h)'
    BY <2>6 DEF HandlerMarked, At
  <2>8. NewestIsRecorded'
    BY <2>4, <2>5 DEF NewestIsRecorded, Newest
  <2>9. QED
    BY <1>1, <2>7, <2>8
<1>6. QED
  BY <1>3, <1>4, <1>5

LEMMA RecordStep ==
  ASSUME OneRequestAtATime, SerialInv, RecordInv, [Next]_vars
  PROVE  RecordInv'
<1> SUFFICES ASSUME faults' = 0
             PROVE  NewestIsRecorded' /\ \A h \in Handlers : HandlerMarked(h)'
  BY DEF RecordInv
<1>1. /\ work \in [Handlers -> Work] /\ faults \in Nat
      /\ \A h \in Handlers : work[h].at \in Points
  BY BoundsAssumption DEF SerialInv, RowInv, TypeInv, TypeOK, Work
<1> DEFINE Kept == NewestIsRecorded' /\ \A h \in Handlers : HandlerMarked(h)'
<1>2. ASSUME NEW kind, Fault(kind) PROVE FALSE
  BY <1>1, <1>2 DEF Fault
<1>3. CASE UNCHANGED faults
  <2>1. NewestIsRecorded /\ \A h \in Handlers : HandlerMarked(h)
    BY <1>3 DEF RecordInv
  <2>2. ASSUME NEW h \in Handlers, UNCHANGED <<status, lastStatus>>,
               \A g \in Handlers \ {h} : work'[g] = work[g],
               \/ work[h].at \notin SettlingPoints /\ work'[h].at \notin SettlingPoints
               \/ work'[h].at \in {"acked", "refused"}
        PROVE  Kept
    BY <2>1, <2>2, RecordQuiet
  <2>3. ASSUME NEW h \in Handlers, Request(h) PROVE Kept
    <3>1. UNCHANGED <<status, lastStatus>> /\ work[h].at = "idle"
      BY <2>3 DEF Request, InsertVersion, CheckVersion, DeployCurrent, SelectRollback, At, rowVars
    <3>2. ASSUME NEW v, InsertVersion(h, v) \/ CheckVersion(h, v)
          PROVE  /\ work'[h].at \in {"versioned", "checked"}
                 /\ \A g \in Handlers \ {h} : work'[g] = work[g]
      BY <1>1, <3>2 DEF InsertVersion, CheckVersion, Idle
    <3>3. ASSUME SelectRollback(h)
          PROVE  work'[h].at = "rolling" /\ \A g \in Handlers \ {h} : work'[g] = work[g]
      <4>1. PICK n \in Deps, p \in Deps :
              work' = [work EXCEPT ![h] = [Idle EXCEPT !.at = "rolling", !.dep = p, !.targets = {n}]]
        BY <3>3 DEF SelectRollback
      <4>2. QED
        BY <1>1, <4>1 DEF Idle
    <3>4. /\ work'[h].at \in {"versioned", "checked", "rolling"}
          /\ \A g \in Handlers \ {h} : work'[g] = work[g]
      BY <2>3, <3>2, <3>3 DEF Request, DeployCurrent
    <3>5. QED
      BY <2>2, <3>1, <3>4, PointNames DEF SettlingPoints
  <2>4. ASSUME NEW h \in Handlers,
               \/ SetCurrentVersion(h) \/ QueueBuild(h) \/ BeginInsert(h) \/ RunInsert(h)
        PROVE  Kept
    <3>1. UNCHANGED <<status, lastStatus>> /\ work[h].at \in {"versioned", "named", "checked", "begun"}
      BY <2>4 DEF SetCurrentVersion, QueueBuild, BeginInsert, RunInsert, At, rowVars
    <3>2. CASE SetCurrentVersion(h) \/ QueueBuild(h)
      <4>1. /\ work'[h].at \in {"named", "idle"}
            /\ \A g \in Handlers \ {h} : work'[g] = work[g]
        BY <1>1, <3>2, GotoKeeps, FinishKeeps, PointNames DEF SetCurrentVersion, QueueBuild, Idle
      <4>2. QED
        BY <2>2, <3>1, <4>1, PointNames DEF SettlingPoints, BeforeCommit
    <3>3. CASE BeginInsert(h) \/ RunInsert(h)
      <4>1. /\ work'[h].at \in {"begun", "inserting"}
            /\ \A g \in Handlers \ {h} : work'[g] = work[g]
        BY <1>1, <3>3 DEF BeginInsert, RunInsert, Work
      <4>2. QED
        BY <2>2, <3>1, <4>1, PointNames DEF SettlingPoints, BeforeCommit
    <3>4. QED
      BY <2>4, <3>2, <3>3
  <2>5. ASSUME NEW h \in Handlers, DataplaneAccepts(h) \/ DataplaneFails(h) PROVE Kept
    <3>1. /\ UNCHANGED <<status, lastStatus>> /\ work'[h].at \in {"acked", "refused"}
          /\ \A g \in Handlers \ {h} : work'[g] = work[g]
      BY <1>1, <2>5, GotoKeeps, PointNames DEF DataplaneAccepts, DataplaneFails, rowVars
    <3>2. QED
      BY <2>2, <3>1
  <2>6. ASSUME NEW h \in Handlers, HandlerStep(h) PROVE Kept
    BY <2>1, <2>4, <2>5, <2>6, RecordMarks DEF HandlerStep, DeployStep
  <2>7. ASSUME UNCHANGED <<status, lastStatus, work>> PROVE Kept
    BY <2>1, <2>7, RecordQuiet
  <2>8. ASSUME NEW v \in Versions, BuildStep(v) PROVE Kept
    BY <2>7, <2>8 DEF BuildStep, CompleteVersion, FinishBuild, rowVars
  <2>9. ASSUME Provisioned \/ UNCHANGED vars PROVE Kept
    BY <2>7, <2>9 DEF Provisioned, vars, rowVars
  <2>10. ~Failure
    BY <1>2 DEF Failure, Crash, Disconnect, DbError, BuildDbError
  <2>11. QED
    <3> HIDE DEF Kept
    <3>1. Kept
      BY <2>3, <2>6, <2>8, <2>9, <2>10 DEF Next
    <3>2. QED
      BY <3>1 DEF Kept
<1>4. CASE ~UNCHANGED faults
  <2>1. Failure
    BY <1>4
    DEF Next, Request, InsertVersion, CheckVersion, DeployCurrent, SelectRollback, HandlerStep,
        SetCurrentVersion, QueueBuild, DeployStep, BeginInsert, RunInsert, CommitInsert,
        MarkDeploying, RejectUnprovisioned, DataplaneAccepts, DataplaneFails, MarkActive,
        MarkFailed, UpdateLast, CommitRollback, BuildStep, CompleteVersion, FinishBuild,
        Provisioned, vars
  <2>2. QED
    BY <1>2, <2>1 DEF Failure, Crash, Disconnect, DbError, BuildDbError
<1>5. QED
  BY <1>3, <1>4

\* One request at a time, and nothing has failed so far: between requests
\* functions.last_deployment_status is how the newest deployment ended.
THEOREM SerialLastStatus ==
  ASSUME OneRequestAtATime
  PROVE  Spec => []LastStatusIsLatest
<1>1. SerialInv /\ RecordInv => LastStatusIsLatest
  BY PointNames
  DEF RecordInv, NewestIsRecorded, Newest, LastStatusIsLatest, At, SettlingPoints
<1>2. SerialInv /\ RecordInv /\ [Next]_vars => SerialInv' /\ RecordInv'
  BY SerialStep, RecordStep
<1>3. QED
  BY <1>1, <1>2, SerialInit, RecordInit, PTL DEF Spec

-----------------------------------------------------------------------------
(* Deployments implements Releases when requests come one at a time.       *)

\* A release of the abstract specification is a committed row.
LEMMA RowsAreReleases ==
  /\ RowInv => Promise!Releases = Born
  /\ RowInv' => (Promise!Releases)' = Born'
  BY NoVersionAssumption
  DEF RowInv, RowsAppearOnce, DeployedAreBuilt, Promise!Releases, Born, Deps

\* The versions whose build is complete.
Completed == {v \in Versions : build[v] = "complete"}

LEMMA PromiseInit == Init => Promise!Init
  BY ServedValue
  DEF Init, Promise!Init, SingleActive, Active, Deps

\* A step that leaves the table and the completed versions alone stutters.
LEMMA QuietStepStutters ==
  ASSUME UNCHANGED <<build, status, release>>
  PROVE  UNCHANGED Promise!vars
  BY DEF Promise!vars, Served, Active

LEMMA CompletionBuilds ==
  ASSUME TypeInv, NEW v \in Versions, CompleteVersion(v)
  PROVE  Promise!Build
<1>1. Completed' = Completed \cup {v}
  BY DEF TypeInv, TypeOK, CompleteVersion, Completed
<1>2. UNCHANGED <<release, Served>>
  BY DEF CompleteVersion, rowVars, Served, Active
<1>3. QED
  BY <1>1, <1>2 DEF Promise!Build, Completed

\* The commit of an INSERT publishes: its row is the newest and only active one.
LEMMA CommitPublishes ==
  ASSUME OneRequestAtATime, SerialInv, SerialInv', NEW h \in Handlers, CommitInsert(h)
  PROVE  Promise!Publish
<1> DEFINE new == work[h].dep
           v == work[h].version
<1>1. /\ work[h].at = "inserting" /\ new = begun /\ Active \subseteq work[h].targets
      /\ new \in Deps \ Born
  BY PointNames DEF SerialInv, CommitInsert, At, HandlerKnows, BeforeCommit, RowInv,
                    RowsAppearOnce, TypeInv, HandlersOwnRows
<1>2. v \in Completed
  BY <1>1 DEF SerialInv, RowInv, HandlersDeployBuilt, DeployPoints, Completed
<1>3. \A e \in Born : e \in Nat /\ e < new
  BY <1>1 DEF SerialInv, RowInv, RowsHaveOneOwner, Born, Deps
<1>4. new \in Active'
  BY <1>1 DEF CommitInsert, Active
<1>5. Served' = new
  <2>1. SingleActive' /\ new \in Nat
    BY <1>1 DEF SerialInv, Deps
  <2>2. \A d \in Active' : d = new
    BY <1>4, <2>1 DEF SingleActive
  <2>3. Active' = {new}
    BY <1>4, <2>2
  <2>4. QED
    BY <2>1, <2>3 DEF Served
<1>6. release' = [release EXCEPT ![new] = v] /\ Completed' = Completed
  BY DEF CommitInsert, versionVars, Completed
<1>7. Promise!Releases = Born
  BY RowsAreReleases DEF SerialInv
<1> HIDE DEF new, v
<1>8. QED
  BY <1>1, <1>2, <1>3, <1>5, <1>6, <1>7 DEF Promise!Publish, Completed, Deps

\* Marking the row of the handler withdraws it or confirms it, or changes
\* nothing that clients can see.
LEMMA MarkWithdrawsOrConfirms ==
  ASSUME OneRequestAtATime, SerialInv, SerialInv', NEW h \in Handlers,
         MarkDeploying(h) \/ MarkActive(h) \/ MarkFailed(h)
  PROVE  Promise!Withdraw \/ Promise!Confirm \/ UNCHANGED Promise!vars
<1> DEFINE d == work[h].dep
<1>1. /\ work[h].at \in SettlingPoints /\ d \in Born
      /\ Active \subseteq {d} /\ \A e \in Born : e <= d
  BY PointNames DEF MarkDeploying, MarkActive, MarkFailed, At, SerialInv, HandlerKnows,
                    BeforeCommit, SettlingPoints, RowInv, RowsAppearOnce
<1>2. d \in Nat /\ d # 0 /\ status \in [Deps -> DeploymentStatus]
  BY <1>1 DEF Born, Deps, SerialInv, RowInv, TypeInv, TypeOK
<1>3. UNCHANGED <<build, release>>
  BY DEF MarkDeploying, MarkActive, MarkFailed, versionVars
<1>4. Promise!Releases = Born /\ (Promise!Releases)' = Born' /\ Born' = Born
  <2>1. Born' = Born
    BY <1>1, <1>2 DEF MarkDeploying, MarkActive, MarkFailed, Born
  <2>2. QED
    BY <2>1, RowsAreReleases DEF SerialInv
<1>5. Served \in {0, d}
  BY <1>1, <1>2, ServedValue DEF SerialInv
<1>6. CASE MarkActive(h)
  <2>1. Active' = {d}
    BY <1>1, <1>2, <1>6 DEF MarkActive, Active, Born
  <2>2. Served' = d
    BY <1>2, <2>1 DEF Served
  <2>3. QED
    BY <1>1, <1>3, <1>4, <1>5, <2>2
    DEF Promise!Confirm, Promise!Newest, Promise!vars
<1>7. CASE MarkDeploying(h) \/ MarkFailed(h)
  <2>1. Active' = {}
    BY <1>1, <1>2, <1>7 DEF MarkDeploying, MarkFailed, Active, Born
  <2>2. Served' = 0
    BY <2>1 DEF Served
  <2>3. QED
    BY <1>1, <1>3, <1>4, <1>5, <2>2
    DEF Promise!Withdraw, Promise!Newest, Promise!vars
<1>8. QED
  BY <1>6, <1>7

LEMMA RollbackRestores ==
  ASSUME OneRequestAtATime, SerialInv, SerialInv', NEW h \in Handlers, CommitRollback(h)
  PROVE  Promise!Restore
<1>1. PICK n \in Born : work[h].targets = {n} /\ NewestTwo(n, work[h].dep)
  BY DEF SerialInv, CommitRollback, At, HandlerKnows
<1> DEFINE p == work[h].dep
<1>2. p \in Born /\ p < n /\ p \in Nat /\ \A d \in Born : d = n \/ d <= p
  BY <1>1 DEF NewestTwo, Born, Deps
<1>3. p \in Active'
  BY <1>2 DEF CommitRollback, Active, Born
<1>4. Active' = {p}
  BY <1>3 DEF SerialInv, SingleActive
<1>5. Served' = p
  BY <1>2, <1>4 DEF Served
<1>6. UNCHANGED <<build, release>>
  BY DEF CommitRollback, versionVars
<1>7. Born' = Born
  BY <1>1, <1>2 DEF CommitRollback, Born, SerialInv, RowInv, TypeInv, TypeOK
<1>8. Promise!Releases = Born /\ (Promise!Releases)' = Born'
  BY RowsAreReleases DEF SerialInv
<1>9. QED
  BY <1>1, <1>2, <1>5, <1>6, <1>7, <1>8 DEF Promise!Restore, Promise!Previous

\* Every step of the code is a step of Releases, or one it does not see.
LEMMA PromiseStep ==
  ASSUME OneRequestAtATime, SerialInv, SerialInv', [Next]_vars
  PROVE  [Promise!Next]_(Promise!vars)
<1> DEFINE Maps == [Promise!Next]_(Promise!vars)
<1>1. ASSUME UNCHANGED <<build, status, release>> PROVE Maps
  BY <1>1, QuietStepStutters
<1>2. ASSUME NEW h \in Handlers, NEW v \in Versions, InsertVersion(h, v) PROVE Maps
  <2>1. UNCHANGED <<Completed, status, release>>
    BY <1>2 DEF InsertVersion, Completed, rowVars, SerialInv, RowInv, TypeInv, TypeOK
  <2>2. QED
    BY <2>1 DEF Completed, Promise!vars, Served, Active
<1>3. ASSUME NEW h \in Handlers, Request(h) PROVE Maps
  <2>1. CASE \E v \in Versions : CheckVersion(h, v)
    BY <1>1, <2>1 DEF CheckVersion, versionVars, rowVars
  <2>2. CASE DeployCurrent(h) \/ SelectRollback(h)
    BY <1>1, <2>2 DEF DeployCurrent, SelectRollback, CheckVersion, versionVars, rowVars
  <2>3. QED
    BY <1>2, <1>3, <2>1, <2>2 DEF Request
<1>4. ASSUME NEW h \in Handlers, HandlerStep(h) PROVE Maps
  <2>1. CASE CommitInsert(h)
    BY <2>1, CommitPublishes DEF Promise!Next
  <2>2. CASE MarkDeploying(h) \/ MarkActive(h) \/ MarkFailed(h)
    BY <2>2, MarkWithdrawsOrConfirms DEF Promise!Next
  <2>3. CASE CommitRollback(h)
    BY <2>3, RollbackRestores DEF Promise!Next
  <2>4. CASE \/ SetCurrentVersion(h) \/ QueueBuild(h) \/ BeginInsert(h) \/ RunInsert(h)
             \/ RejectUnprovisioned(h) \/ DataplaneAccepts(h) \/ DataplaneFails(h)
             \/ UpdateLast(h)
    BY <1>1, <2>4
    DEF SetCurrentVersion, QueueBuild, BeginInsert, RunInsert, RejectUnprovisioned,
        DataplaneAccepts, DataplaneFails, UpdateLast, versionVars, rowVars
  <2>5. QED
    BY <1>4, <2>1, <2>2, <2>3, <2>4 DEF HandlerStep, DeployStep
<1>5. ASSUME NEW v \in Versions, BuildStep(v) PROVE Maps
  <2>1. CASE CompleteVersion(v)
    BY <2>1, CompletionBuilds DEF Promise!Next, SerialInv, RowInv
  <2>2. CASE FinishBuild(v)
    BY <1>1, <2>2 DEF FinishBuild, rowVars
  <2>3. QED
    BY <1>5, <2>1, <2>2 DEF BuildStep
<1>6. CASE Provisioned \/ Failure \/ UNCHANGED vars
  BY <1>1, <1>6 DEF Provisioned, Failure, Crash, Disconnect, DbError, BuildDbError,
                    vars, versionVars, rowVars
<1>7. QED
  BY <1>3, <1>4, <1>5, <1>6 DEF Next

\* To clients that wait for each answer the table of deployments is an
\* append-only list of releases with at most one of them live, and the live one
\* changes only by a new release, its confirmation or a rollback by one.
THEOREM SerialKeepsPromise ==
  ASSUME OneRequestAtATime
  PROVE  Spec => KeepsPromise
<1>1. SerialInv /\ [Next]_vars => SerialInv'
  BY SerialStep
<1>2. SerialInv /\ SerialInv' /\ [Next]_vars => [Promise!Next]_(Promise!vars)
  BY PromiseStep
<1>3. QED
  BY <1>1, <1>2, SerialInit, PromiseInit, PTL DEF Spec, KeepsPromise, Promise!Spec
=============================================================================
