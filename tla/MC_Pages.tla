------------------------------- MODULE MC_Pages -------------------------------
(***************************************************************************)
(* The pages of the web UI in one run. Nothing is shared between them in   *)
(* the browser but the query cache, which ServerCache models: a behaviour  *)
(* follows one page, and the others stay as they begin.                    *)
(***************************************************************************)
EXTENDS Publishing, Settings, Forms, Deploying, Recents, Uploads, Bucket, PayloadForm, Lists, ServerCache

VARIABLE followed    \* the page that moves

pagesVars == <<pubVars, setVars, fVars, depVars, recentVars, upVars, stoVars, payVars, listVars, cacheVars, followed>>

(* The instance: two plain keys of objects, and one that goes on with a "#" after the first; a file whose name
   is a key and one whose name is another; filters that the form of a trigger reads in part; a filter of lists
   that one row passes. *)
MCNameOf == [f \in Files |-> IF f = "report.txt" THEN "report" ELSE "other"]
MCObjectKeys == {"report", "report#2", "other"}
MCUnder == [p \in KeyPrefixes |-> {"report", "report#2"}]
MCAddressed == [k \in MCObjectKeys |-> IF k = "report#2" THEN "report" ELSE k]
MCMatching == [all |-> 1 .. MaxRows, some |-> {2}]
MCJsonFilters == {
    <<>>,
    <<Clause("amount", "=", "number", 0, 0), Clause("amount", "IS NULL", "none", 0, 0)>>,
    <<Clause("amount", "=", "bare", 0, 0), Clause("amount", "IS NULL", "none", 0, 0)>>,
    <<Clause("amount", "=", "word", 0, 0), Clause("amount", "=", "digits", 0, 0)>>,
    <<Clause("amount", "=", "quotedLiteral", 0, 0), Clause("amount", "=", "number", 0, 0)>>,
    <<OddClause, Clause("amount", "IN", "list", 1, 0)>>,
    <<Clause("amount", "=", "word", 0, 1), Clause("amount", "=", "number", 0, 0)>>,
    <<Clause("amount", "=", "word", 0, 1), Clause("amount", "=", "word", 0, -1)>>,
    <<Clause("amount", "=", "opens", 0, 0), OddClause>>}

PagesInit ==
    /\ followed \in {"publishing", "settings", "forms", "deploying", "recents", "uploads", "bucket", "payload", "lists",
                    "cache"}
    /\ PubInit /\ DepInit /\ RecInit /\ UpInit /\ StoInit /\ PayInit
    /\ SetInit /\ FormInit /\ ListInit /\ CacheInit
    /\ followed # "settings" => setKind = RetentionCard
    /\ followed # "forms" => fKind = NewKey
    /\ followed # "lists" => listKind = FunctionListPage
    /\ followed # "cache" => focus = useProject /\ page = "projects"
PagesNext ==
    /\ UNCHANGED followed
    /\ IF followed = "publishing" THEN PubNext ELSE UNCHANGED pubVars
    /\ IF followed = "settings" THEN SetNext ELSE UNCHANGED setVars
    /\ IF followed = "forms" THEN FormNext ELSE UNCHANGED fVars
    /\ IF followed = "deploying" THEN DepNext ELSE UNCHANGED depVars
    /\ IF followed = "recents" THEN RecNext ELSE UNCHANGED recentVars
    /\ IF followed = "uploads" THEN UpNext ELSE UNCHANGED upVars
    /\ IF followed = "bucket" THEN StoNext ELSE UNCHANGED stoVars
    /\ IF followed = "payload" THEN PayNext ELSE UNCHANGED payVars
    /\ IF followed = "lists" THEN ListNext ELSE UNCHANGED listVars
    /\ IF followed = "cache" THEN CacheNext ELSE UNCHANGED cacheVars
PagesSpec == PagesInit /\ [][PagesNext]_pagesVars

(* Every page keeps to its types, which say too which request may run beside which and what can be chosen; the
   answers that forms show are their own, and pages of a list that are fetched in order leave no row out. *)
PagesTypeOK ==
    CASE followed = "publishing" -> PubTypeOK
      [] followed = "settings" -> SetTypeOK
      [] followed = "forms" -> FormTypeOK /\ AnswersMatch
      [] followed = "deploying" -> DepTypeOK
      [] followed = "recents" -> RecTypeOK
      [] followed = "uploads" -> UpTypeOK
      [] followed = "bucket" -> StoTypeOK
      [] followed = "payload" -> PayTypeOK
      [] followed = "lists" -> ListTypeOK /\ NothingSkipped
      [] followed = "cache" -> CacheTypeOK
=============================================================================
