----------------------------- MODULE ServerCache -----------------------------
(***************************************************************************)
(* What the pages of the web UI show of the server: the queries and the    *)
(* mutations of the pages, which key each query is kept under, and which   *)
(* keys a mutation invalidates when it succeeds. The query cache itself    *)
(* (TanStack Query, external) is modelled from the options the client is   *)
(* created with. The entries of the cache do not depend on each other, so  *)
(* a behaviour follows one of them, the focus.                             *)
(*                                                                         *)
(* Data is abstracted to the set of writes that it reflects. Left out are  *)
(* what no query shows (consoles, presigned URLs, invocations, test mails, *)
(* installs), the queries whose data no page writes (databases, metrics),  *)
(* the trails of everything (audit log, logs, traces), and what the server *)
(* does on its own after it has answered (provisioning, builds, dispatch). *)
(***************************************************************************)
EXTENDS Naturals, FiniteSets, Sequences, SequencesExt

CONSTANT MaxWrites   \* bound: mutations and writes of others in a behaviour
ASSUME WritesAssumption == MaxWrites \in Nat

VARIABLES
    focus,     \* the query that is followed
    page,      \* the page that is shown
    running,   \* the mutations and where they are
    written,   \* the writes that the server has made, "other" for those of other users
    answered,  \* the mutations whose success the page has heard of
    overtaken, \* those of them that came while a fetch ran that nothing cancels
    entry      \* the cache entry of the focus

cacheVars == <<focus, page, running, written, answered, overtaken, entry>>

FunctionTabs == {"editor", "versions", "builds", "deployments", "invoke", "entrypoint"}
Pages == FunctionTabs \cup
    {"projects", "overview", "members", "keys", "settings", "migrate", "catalog", "graphql", "storage",
     "integrations", "functions", "triggers", "dlq", "cdc", "marketplace", "listing", "users", "adminProjects"}

-----------------------------------------------------------------------------
(* The queries: the key, what of the answer is shown, the pages that show it, whether it is polled. *)
Query(key, reads, on) == [key |-> key, reads |-> reads, on |-> on, polled |-> "never"]
Polled(q, when) == [q EXCEPT !.polled = when]

useProjectsList == Query(<<"projects", "list">>, {"projectList", "project"}, Pages)
useProject == Polled(Query(<<"projects", "detail", "p">>, {"project"}, Pages), "sometimes")
ProjectApiKeys == Query(<<"projects", "p", "keys">>, {"key"}, {"overview", "keys"})
RolesMatrix == Query(<<"projects", "p", "permissions">>, {"member"}, {"settings"})
RetentionSettings == Query(<<"projects", "p", "retention">>, {"retention"}, {"settings"})
TenantCatalog == Query(<<"projects", "p", "tenant-catalog-tables">>, {"table"}, {"catalog"})
DataAllowlist == Query(<<"projects", "p", "data-allowlist">>, {"allowlist"}, {"catalog"})
GraphqlSchema == Query(<<"projects", "p", "graphql", "schema">>, {"table", "allowlist"}, {"graphql"})
Migrations == Query(<<"migrations", "p">>, {"migration"}, {"migrate"})
useFunctionsList == Query(<<"functions", "p", "list", "1", "filters">>,
    {"function", "currentVersion", "lastDeployment", "trigger", "entrypoint"}, {"functions"})
FunctionNames == Query(<<"functions", "p", "list", "1", "{}">>, {"function"}, Pages)
useFunctionDetail == Query(<<"functions", "p", "detail", "f">>,
    {"function", "currentVersion", "entrypoint"}, FunctionTabs)
useFunctionVersions == Query(<<"functions", "p", "versions", "f">>, {"version"}, {"versions", "deployments"})
useFunctionDeployments == Query(<<"functions", "p", "deployments", "f">>, {"deployment"}, {"deployments"})
useDeploymentByID == Polled(Query(<<"deployments", "d">>, {"deployment"}, {"deployments"}), "always")
useBuildStatus == Polled(Query(<<"build", "p", "f", "v">>, {"build"}, {"builds"}), "sometimes")
useEntrypoint == Query(<<"entrypoint", "p", "f">>, {"entrypoint"}, {"entrypoint"})
Draft == Query(<<"function", "p", "f", "draft">>, {"draft"}, {"editor"})
useTriggersList == Query(<<"triggers", "p", "list">>, {"trigger", "triggerState"}, {"triggers"})
TriggerNames == Query(<<"triggers", "p", "search">>, {"trigger"}, Pages)
DeadLetters == Query(<<"triggers", "p", "dlq">>, {"deadLetter"}, {"dlq"})
CdcSubscriptions == Query(<<"cdc", "p">>, {"subscription"}, {"cdc"})
Objects == Query(<<"storage", "p", "prefix">>, {"object"}, {"storage"})
Integrations == Query(<<"integrations", "p">>, {"integration"}, {"integrations"})
MarketplaceList == Query(<<"marketplace", "list", "1">>, {"listing", "latest"}, {"marketplace"})
MarketplaceDetail == Query(<<"marketplace", "slug">>, {"listing", "latest"}, {"listing"})
ListingVersions == Query(<<"marketplace", "slug", "versions">>, {"listingVersion"}, {"listing"})
AdminUsers == Query(<<"admin", "users", "1">>, {"user"}, {"users"})
AdminProjects == Query(<<"admin", "projects", "1">>, {"projectList", "project"}, {"adminProjects"})

Queries ==
    {useProjectsList, useProject, ProjectApiKeys, RolesMatrix, RetentionSettings, TenantCatalog, DataAllowlist,
     GraphqlSchema, Migrations, useFunctionsList, FunctionNames, useFunctionDetail, useFunctionVersions,
     useFunctionDeployments, useDeploymentByID, useBuildStatus, useEntrypoint, Draft, useTriggersList,
     TriggerNames, DeadLetters, CdcSubscriptions, Objects, Integrations, MarketplaceList, MarketplaceDetail,
     ListingVersions, AdminUsers, AdminProjects}

-----------------------------------------------------------------------------
(* The mutations: the pages that offer it, what it writes, the prefixes of the keys it invalidates. *)
Mutation(on, writes, invalidates) == [on |-> on, writes |-> writes, invalidates |-> invalidates]
Functions == <<"functions", "p">>
ProjectKeys == <<"projects", "p", "keys">>

useCreateProject == Mutation(Pages, {"projectList"}, {<<"projects", "list">>})
useCreateFunction == Mutation({"functions"}, {"function"}, {Functions})
useRegisterVersion == Mutation({"versions", "editor"}, {"version", "currentVersion"},
    {Functions \o <<"versions", "f">>})
\* Mutant: the deployments only, as useRollback does.
useDeployLikeRollback == Mutation({"deployments"}, {"deployment", "lastDeployment"},
    {Functions \o <<"deployments", "f">>})
useDeploy == Mutation({"deployments"}, {"deployment", "lastDeployment"},
    {Functions \o <<"deployments", "f">>, Functions})
useRollback == Mutation({"deployments"}, {"deployment", "lastDeployment"},
    {Functions \o <<"deployments", "f">>})
useUpsertEntrypoint == Mutation({"entrypoint"}, {"entrypoint"}, {<<"entrypoint", "p", "f">>})
saveDraft == Mutation({"editor"}, {"draft"}, {<<"function", "p", "f", "draft">>})
createTrigger == Mutation({"triggers"}, {"trigger"}, {<<"triggers", "p">>})
useToggleTrigger == Mutation({"triggers"}, {"triggerState"}, {<<"triggers", "p", "list">>})
useTestFireTrigger == Mutation({"triggers"}, {"triggerState"}, {})
subscribeTable == Mutation({"cdc"}, {"subscription"}, {<<"cdc", "p">>})
unsubscribeTable == Mutation({"cdc"}, {"subscription"}, {<<"cdc", "p">>})
uploadObject == Mutation({"storage"}, {"object"}, {<<"storage", "p">>})
\* The editor and the tab of the versions put a source or an artifact into the project's bucket.
uploadSource == Mutation({"editor"}, {"object"}, {})
uploadArtifact == Mutation({"versions"}, {"object"}, {})
removeObject == Mutation({"storage"}, {"object"}, {<<"storage", "p">>})
mintKey == Mutation({"keys"}, {"key"}, {ProjectKeys})
revokeKey == Mutation({"keys"}, {"key"}, {ProjectKeys})
setQuota == Mutation({"keys"}, {"key"}, {ProjectKeys})
grantMember == Mutation({"members"}, {"member"}, {})
saveRetention == Mutation({"settings"}, {"retention"}, {<<"projects", "p", "retention">>})
saveAllowlist == Mutation({"settings"}, {"allowlist"}, {})
patchAllowlist == Mutation({"catalog"}, {"allowlist"}, {<<"projects", "p", "data-allowlist">>})
migrate == Mutation({"migrate"}, {"migration", "table"}, {<<"migrations", "p">>})
createListing == Mutation({"marketplace"}, {"listing"}, {<<"marketplace">>})
publishListing == Mutation({"listing"}, {"latest", "listingVersion"}, {<<"marketplace", "slug">>})
updateUser == Mutation({"users"}, {"user"}, {<<"admin", "users">>})
setEnabled == Mutation({"adminProjects"}, {"project"}, {<<"admin", "projects">>})
saveIntegration == Mutation({"integrations"}, {"integration"}, {<<"integrations", "p">>})

Mutations ==
    [createProject |-> useCreateProject, createFunction |-> useCreateFunction,
     registerVersion |-> useRegisterVersion, deploy |-> useDeploy, rollback |-> useRollback,
     upsertEntrypoint |-> useUpsertEntrypoint, saveDraft |-> saveDraft, createTrigger |-> createTrigger,
     toggleTrigger |-> useToggleTrigger, testFireTrigger |-> useTestFireTrigger,
     subscribeTable |-> subscribeTable, unsubscribeTable |-> unsubscribeTable, uploadObject |-> uploadObject,
     uploadSource |-> uploadSource, uploadArtifact |-> uploadArtifact, removeObject |-> removeObject, mintKey |-> mintKey, revokeKey |-> revokeKey, setQuota |-> setQuota,
     grantMember |-> grantMember, saveRetention |-> saveRetention, saveAllowlist |-> saveAllowlist,
     patchAllowlist |-> patchAllowlist, migrate |-> migrate, createListing |-> createListing,
     publishListing |-> publishListing, updateUser |-> updateUser, setEnabled |-> setEnabled,
     saveIntegration |-> saveIntegration]
Names == DOMAIN Mutations

(* The mutations that matter to the focus, and the pages between which a user of it moves. *)
Touches(m) == Mutations[m].writes \cap focus.reads # {}
\* Invalidation matches every key that begins with the given one.
Refreshes(m) == \E k \in Mutations[m].invalidates : IsPrefix(k, focus.key)
OwnPages == (IF focus.on = Pages THEN {} ELSE focus.on)
    \cup UNION {IF Mutations[m].on = Pages THEN {} ELSE Mutations[m].on : m \in {n \in Names : Touches(n)}}
    \cup {"projects"}
IsShown == page \in focus.on

(* The mutations whose success leaves a page that shows what they wrote as it was. *)
Gaps == {
    <<"registerVersion", useFunctionsList>>, <<"registerVersion", useFunctionDetail>>,
    <<"rollback", useFunctionsList>>,
    <<"upsertEntrypoint", useFunctionsList>>, <<"upsertEntrypoint", useFunctionDetail>>,
    <<"createTrigger", useFunctionsList>>, <<"testFireTrigger", useTriggersList>>,
    <<"grantMember", RolesMatrix>>, <<"saveAllowlist", DataAllowlist>>, <<"saveAllowlist", GraphqlSchema>>,
    <<"patchAllowlist", GraphqlSchema>>, <<"migrate", TenantCatalog>>, <<"migrate", GraphqlSchema>>,
    <<"publishListing", MarketplaceList>>, <<"createProject", AdminProjects>>,
    <<"uploadSource", Objects>>, <<"uploadArtifact", Objects>>,
    <<"setEnabled", useProjectsList>>, <<"setEnabled", useProject>>}

-----------------------------------------------------------------------------
(* The cache entry of a key. *)
EntryType == [loaded : BOOLEAN, saw : SUBSET (Names \cup {"other"}), invalid : BOOLEAN, aged : BOOLEAN,
              fetch : {"none", "asked", "read"}, read : SUBSET (Names \cup {"other"}), failed : BOOLEAN]
NoEntry == [loaded |-> FALSE, saw |-> {}, invalid |-> FALSE, aged |-> FALSE,
            fetch |-> "none", read |-> {}, failed |-> FALSE]

CacheTypeOK ==
    /\ focus \in Queries /\ page \in OwnPages
    /\ running \in [Names -> {"idle", "sent", "written"}]
    /\ written \subseteq Names \cup {"other"} /\ Cardinality(written) <= MaxWrites
    /\ overtaken \subseteq answered /\ answered \subseteq written
    /\ entry \in EntryType
    /\ entry.saw \subseteq written /\ entry.read \subseteq written
    /\ IsShown => entry.loaded \/ entry.fetch # "none" \/ entry.failed

Ask(e) == [e EXCEPT !.fetch = "asked", !.read = {}, !.failed = FALSE]
\* A fetch that runs is shared.
FetchOnce(e) == IF e.fetch = "none" THEN Ask(e) ELSE e
Mounts(e) == IF ~e.loaded \/ e.invalid \/ e.aged THEN FetchOnce(e) ELSE e
\* An observed entry is fetched again, and the fetch under way is dropped if there are data to keep.
Uncancelled(e) == e.fetch # "none" /\ ~(IsShown /\ e.loaded)
Invalidate(e) ==
    LET marked == [e EXCEPT !.invalid = e.loaded \/ e.fetch # "none"]
    IN  IF ~IsShown THEN marked ELSE IF e.loaded THEN Ask(marked) ELSE FetchOnce(marked)

-----------------------------------------------------------------------------
CacheInit ==
    /\ focus \in Queries
    /\ page \in OwnPages
    /\ running = [m \in Names |-> "idle"]
    /\ written = {} /\ answered = {} /\ overtaken = {}
    /\ entry = IF IsShown THEN Ask(NoEntry) ELSE NoEntry

(* Another page: the queries it shows mount; a fetch outlives the page that asked. *)
Navigate(p) ==
    /\ p \in OwnPages \ {page}
    /\ page' = p
    /\ entry' = IF p \in focus.on /\ ~IsShown THEN Mounts(entry) ELSE entry
    /\ UNCHANGED <<focus, running, written, answered, overtaken>>

Started == {m \in Names : running[m] # "idle"} \cup written
(* The user starts a mutation: its button is disabled while it is pending. *)
Mutate(m) ==
    /\ Touches(m) /\ page \in Mutations[m].on
    /\ m \notin Started /\ Cardinality(Started) < MaxWrites
    /\ running' = [running EXCEPT ![m] = "sent"]
    /\ UNCHANGED <<focus, page, written, answered, overtaken, entry>>

ServerWrites(m) ==
    /\ running[m] = "sent"
    /\ running' = [running EXCEPT ![m] = "written"]
    /\ written' = written \cup {m}
    /\ UNCHANGED <<focus, page, answered, overtaken, entry>>

(* onSuccess, whether or not its page is still shown. *)
OnSuccess(m) ==
    /\ running[m] = "written"
    /\ running' = [running EXCEPT ![m] = "idle"]
    /\ answered' = answered \cup {m}
    /\ overtaken' = IF Uncancelled(entry) THEN overtaken \cup {m} ELSE overtaken
    /\ entry' = IF Refreshes(m) THEN Invalidate(entry) ELSE entry
    /\ UNCHANGED <<focus, page, written>>

(* The mutation is refused, or its answer is lost after the server has written. *)
OnError(m) ==
    /\ running[m] # "idle"
    /\ running' = [running EXCEPT ![m] = "idle"]
    /\ UNCHANGED <<focus, page, written, answered, overtaken, entry>>

OtherWrites ==
    /\ "other" \notin written /\ Cardinality(Started) < MaxWrites
    /\ written' = written \cup {"other"}
    /\ UNCHANGED <<focus, page, running, answered, overtaken, entry>>

(* The steps of a fetch. *)
ServerReads ==
    /\ entry.fetch = "asked"
    /\ entry' = [entry EXCEPT !.fetch = "read", !.read = written]
    /\ UNCHANGED <<focus, page, running, written, answered, overtaken>>
Store ==
    /\ entry.fetch = "read"
    /\ entry' = [NoEntry EXCEPT !.loaded = TRUE, !.saw = entry.read]
    /\ UNCHANGED <<focus, page, running, written, answered, overtaken>>
\* Its retries are used up.
FetchFails ==
    /\ entry.fetch = "asked"
    /\ entry' = [entry EXCEPT !.fetch = "none", !.failed = TRUE]
    /\ UNCHANGED <<focus, page, running, written, answered, overtaken>>

Polls == focus.polled # "never" /\ IsShown /\ entry.fetch = "none"
(* refetchInterval of an observed query. *)
Poll ==
    /\ Polls
    /\ entry' = Ask(entry)
    /\ UNCHANGED <<focus, page, running, written, answered, overtaken>>

(* Thirty seconds after it was stored. *)
Age ==
    /\ entry.loaded /\ ~entry.aged
    /\ entry' = [entry EXCEPT !.aged = TRUE]
    /\ UNCHANGED <<focus, page, running, written, answered, overtaken>>
(* Five minutes after it was last shown. *)
Collect ==
    /\ ~IsShown /\ entry.fetch = "none" /\ entry # NoEntry
    /\ entry' = NoEntry
    /\ UNCHANGED <<focus, page, running, written, answered, overtaken>>

CacheNext ==
    \/ \E p \in Pages : Navigate(p)
    \/ \E m \in Names : Mutate(m) \/ ServerWrites(m) \/ OnSuccess(m) \/ OnError(m)
    \/ OtherWrites \/ ServerReads \/ Store \/ FetchFails \/ Poll \/ Age \/ Collect

CacheSpec == CacheInit /\ [][CacheNext]_cacheVars

-----------------------------------------------------------------------------
(* When a page rests, neither fetching nor marked nor failed, it shows the effect of every mutation whose
   success it has heard of, except for the known gaps, for what is polled all the time, and for a success that came while
   the first load, or a fetch left behind by another page, was under way: nothing cancels those, and
   their older answer clears the mark of the invalidation. *)
StaleForAReason ==
    (IsShown /\ entry.loaded /\ entry.fetch = "none" /\ ~entry.failed) =>
        \A m \in answered \ entry.saw :
            \/ <<m, focus>> \in Gaps \/ m \in overtaken
            \/ focus.polled = "always"
=============================================================================
