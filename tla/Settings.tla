------------------------------- MODULE Settings -------------------------------
(***************************************************************************)
(* The forms of the web UI that change a value the server already has: the *)
(* entrypoint of a function, the retention of a project, the quota of an   *)
(* API key, the role of a user, and the allowlist of tables, which two     *)
(* pages write. They differ in when they take over the server's value, and *)
(* in what must be known before they may be saved. A behaviour follows one *)
(* of them, on a page that comes and goes, while other users write the     *)
(* same value and fetches are slow or fail.                                *)
(***************************************************************************)
EXTENDS Integers, FiniteSets

CONSTANTS
    Items,       \* a value is a set of items: an allowlist is one, and the other settings do not look inside
    Saves,       \* names of the saves, each used once
    MaxOthers    \* bound: writes of other users

ASSUME OthersAssumption == MaxOthers \in Nat
ASSUME SavesAssumption == IsFiniteSet(Saves)

VARIABLES
    setKind,     \* the form that is followed
    setShown,    \* its page is mounted
    setting,     \* the value on the server, numbered, and whose it is
    setCache,    \* the query that loads it
    setForm,     \* what the inputs hold, and the number of the newest value they have shown
    saves,
    others

setVars == <<setKind, setShown, setting, setCache, setForm, saves, others>>

Values == SUBSET Items
Unknown == -1
Numbers == Unknown .. Cardinality(Saves) + MaxOthers

(* The kinds of forms. *)
EntrypointTab == "entrypoint"
RetentionCard == "retention"
KeyRow == "quota"
UserRow == "role"
DataAllowlistCard == "allowlist"
TablesCatalogPage == "catalog"
Kinds == {EntrypointTab, RetentionCard, KeyRow, UserRow, DataAllowlistCard, TablesCatalogPage}
Effects == {EntrypointTab, RetentionCard}
Rows == {KeyRow, UserRow}

Defaults == [value |-> {}, seen |-> Unknown]
NotLoaded == [loaded |-> FALSE, data |-> [value |-> {}, number |-> Unknown], failed |-> FALSE, invalid |-> FALSE,
              fetch |-> "none", read |-> [value |-> {}, number |-> Unknown]]
NoSave == [at |-> "unused", value |-> {}, seen |-> Unknown, known |-> Unknown, mounted |-> FALSE]

SetTypeOK ==
    /\ setKind \in Kinds /\ setShown \in BOOLEAN
    /\ setting \in [value : Values, number : Numbers, by : {"browser", "other"}]
    /\ setCache \in [loaded : BOOLEAN, data : [value : Values, number : Numbers], failed : BOOLEAN,
                     invalid : BOOLEAN, fetch : {"none", "asked", "read"}, read : [value : Values, number : Numbers]]
    /\ setForm \in [value : Values, seen : Numbers]
    /\ saves \in [Saves -> [at : {"unused", "sent", "written", "ended"}, value : Values, seen : Numbers,
                            known : Numbers, mounted : BOOLEAN]]
    /\ others \in 0 .. MaxOthers

-----------------------------------------------------------------------------
isLoading == ~setCache.loaded /\ setCache.fetch # "none"
\* The row of a key is in a table that an error hides; that of a user is not.
RowShown(c) == c.loaded /\ (setKind = KeyRow => ~c.failed)

\* Mutant: the effect runs when the page mounts, and for the first data.
SeedsOnce(c, data) == ~c.loaded
\* The effects run for data that differ from those before: equal data keep their identity.
Seeds(c, data) == ~c.loaded \/ c.data.value # data.value
(* What the inputs hold once the data have arrived. *)
AfterData(data) ==
    CASE setKind \in Effects ->
            IF Seeds(setCache, data) THEN [value |-> data.value, seen |-> data.number]
            ELSE IF setCache.data.value = data.value THEN [setForm EXCEPT !.seen = data.number] ELSE setForm
      [] setKind \in Rows ->
            IF ~RowShown(setCache) THEN [value |-> data.value, seen |-> data.number]
            ELSE IF setCache.data.value = data.value /\ setForm.seen = setCache.data.number
                 THEN [setForm EXCEPT !.seen = data.number] ELSE setForm
      [] OTHER -> setForm

(* A page that mounts begins with its defaults, with the data of the cache where there are some. *)
Fresh(c) == IF setKind \in Effects \cup Rows /\ c.loaded /\ (setKind \in Rows => RowShown(c))
            THEN [value |-> c.data.value, seen |-> c.data.number] ELSE Defaults

Fetch(c) == [c EXCEPT !.fetch = "asked", !.failed = c.failed /\ c.loaded]
\* The allowlist card has no query at all.
Fetches == setKind # DataAllowlistCard

Open ==
    /\ ~setShown /\ setShown' = TRUE
    /\ setForm' = Fresh(setCache)
    /\ \E aged \in BOOLEAN :
        setCache' = IF Fetches /\ setCache.fetch = "none" /\ (~setCache.loaded \/ setCache.invalid \/ aged)
                    THEN Fetch(setCache) ELSE setCache
    /\ UNCHANGED <<setKind, setting, saves, others>>
Close ==
    /\ setShown /\ setShown' = FALSE
    /\ setForm' = Defaults
    /\ saves' = [s \in Saves |-> [saves[s] EXCEPT !.mounted = FALSE]]
    /\ UNCHANGED <<setKind, setting, setCache, others>>

SettingRead ==
    /\ setCache.fetch = "asked"
    /\ setCache' = [setCache EXCEPT !.fetch = "read", !.read = [value |-> setting.value, number |-> setting.number]]
    /\ UNCHANGED <<setKind, setShown, setting, setForm, saves, others>>
SettingArrives ==
    /\ setCache.fetch = "read"
    /\ setCache' = [NotLoaded EXCEPT !.loaded = TRUE, !.data = setCache.read]
    /\ setForm' = IF setShown THEN AfterData(setCache.read) ELSE setForm
    /\ UNCHANGED <<setKind, setShown, setting, saves, others>>
SettingFails ==
    /\ setCache.fetch = "asked"
    /\ setCache' = [setCache EXCEPT !.fetch = "none", !.failed = TRUE]
    /\ setForm' = IF setKind = KeyRow THEN Defaults ELSE setForm
    /\ UNCHANGED <<setKind, setShown, setting, saves, others>>

-----------------------------------------------------------------------------
(* The inputs. *)
InputsShown ==
    CASE setKind = EntrypointTab -> ~isLoading
      [] setKind = RetentionCard -> setCache.loaded /\ ~setCache.failed
      [] setKind \in Rows -> RowShown(setCache)
      [] setKind = DataAllowlistCard -> TRUE
      [] OTHER -> FALSE
TypeValue ==
    /\ setShown /\ InputsShown
    /\ \E v \in Values \ {setForm.value} : setForm' = [setForm EXCEPT !.value = v]
    /\ UNCHANGED <<setKind, setShown, setting, setCache, saves, others>>

(* The button, and what it would send. *)
SaveShown ==
    CASE setKind = EntrypointTab -> ~isLoading
      [] setKind = KeyRow -> RowShown(setCache)
      [] setKind = UserRow -> setCache.loaded /\ setForm.value # setCache.data.value
      [] setKind = TablesCatalogPage -> ~isLoading
      [] OTHER -> TRUE
\* The catalog adds one table to the list it has, or takes one away; without a list it has the empty one.
Toggled == {setCache.data.value \cup {x} : x \in Items \ setCache.data.value}
           \cup {setCache.data.value \ {x} : x \in setCache.data.value}
Sent == IF setKind = TablesCatalogPage THEN Toggled ELSE {setForm.value}
SavePending == \E s \in Saves : saves[s].mounted /\ saves[s].at \in {"sent", "written"}
Save(s) ==
    /\ setShown /\ SaveShown /\ ~SavePending /\ saves[s].at = "unused"
    /\ \E v \in Sent :
        saves' = [saves EXCEPT ![s] =
            [at |-> "sent", value |-> v, known |-> setCache.data.number, mounted |-> TRUE,
             seen |-> IF setKind = TablesCatalogPage THEN setCache.data.number ELSE setForm.seen]]
    /\ UNCHANGED <<setKind, setShown, setting, setCache, setForm, others>>

SaveLands(s) ==
    /\ saves[s].at = "sent"
    /\ setting' = [value |-> saves[s].value, number |-> setting.number + 1, by |-> "browser"]
    /\ saves' = [saves EXCEPT ![s].at = "written"]
    /\ UNCHANGED <<setKind, setShown, setCache, setForm, others>>
(* onSuccess: all but the allowlist card invalidate the query. *)
SaveEnds(s) ==
    /\ saves[s].at = "written"
    /\ saves' = [saves EXCEPT ![s] = [NoSave EXCEPT !.at = "ended"]]
    /\ setCache' = IF ~Fetches THEN setCache
                   ELSE IF ~setShown THEN [setCache EXCEPT !.invalid = TRUE]
                   ELSE IF setCache.loaded \/ setCache.fetch = "none" THEN Fetch([setCache EXCEPT !.invalid = TRUE])
                   ELSE setCache
    /\ UNCHANGED <<setKind, setShown, setting, setForm, others>>
SaveErrs(s) ==
    /\ saves[s].at \in {"sent", "written"}
    /\ saves' = [saves EXCEPT ![s] = [NoSave EXCEPT !.at = "ended"]]
    /\ UNCHANGED <<setKind, setShown, setting, setCache, setForm, others>>
OtherSaves ==
    /\ others < MaxOthers /\ others' = others + 1
    /\ \E v \in Values : setting' = [value |-> v, number |-> setting.number + 1, by |-> "other"]
    /\ UNCHANGED <<setKind, setShown, setCache, setForm, saves>>

-----------------------------------------------------------------------------
SetInit ==
    /\ setKind \in Kinds /\ setShown = FALSE
    /\ setting = [value |-> Items, number |-> 0, by |-> "other"]
    /\ setCache = NotLoaded /\ setForm = Defaults
    /\ saves = [s \in Saves |-> NoSave] /\ others = 0
SetNext ==
    \/ Open \/ Close \/ SettingRead \/ SettingArrives \/ SettingFails \/ TypeValue \/ OtherSaves
    \/ \E s \in Saves : Save(s) \/ SaveLands(s) \/ SaveEnds(s) \/ SaveErrs(s)
SetSpec == SetInit /\ [][SetNext]_setVars

-----------------------------------------------------------------------------
(* A save that replaces the value of somebody else which its form had not shown was sent before the browser
   had that value (before it had any, in the forms that can be saved unloaded), or belongs to a row, whose
   input is set once and keeps its value when the list is fetched again. *)
SavesUnloaded == {EntrypointTab, RetentionCard, DataAllowlistCard, TablesCatalogPage}
Replaces(s) == saves[s].at = "sent" /\ saves'[s].at = "written" /\ setting.by = "other"
               /\ saves[s].seen # setting.number
OverwritesHaveReasons ==
    [][ \A s \in Saves : Replaces(s) =>
          IF saves[s].known = Unknown THEN setKind \in SavesUnloaded
          ELSE saves[s].known # setting.number \/ setKind \in Rows ]_setVars
=============================================================================
