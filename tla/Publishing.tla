----------------------------- MODULE Publishing -----------------------------
(***************************************************************************)
(* How a browser publishes versions of one function: the Editor tab, which *)
(* keeps a draft, uploads its source and registers a version, and the      *)
(* Versions tab, which presigns, uploads and registers an artifact built   *)
(* elsewhere. Both are unmounted when another tab is shown, while their    *)
(* requests go on. The server's side is what the requests do to the draft, *)
(* to the artifacts in the bucket and to the table of versions.            *)
(***************************************************************************)
EXTENDS Naturals, FiniteSets

CONSTANTS
    FilePaths,      \* names of source files
    Texts,          \* the contents of all the files and the environment, together
    StarterPath, StarterText,
    Versions,       \* versions that the user enters
    PubOps,         \* names of the operations that the user starts, each used once
    MaxEdits        \* bound: changes the user makes in the forms

ASSUME StarterAssumption == StarterPath \in FilePaths /\ StarterText \in Texts
ASSUME VersionsAssumption == Versions # {}
ASSUME EditsAssumption == MaxEdits \in Nat
ASSUME OpsAssumption == IsFiniteSet(PubOps)

VARIABLES
    tab,         \* the tab that is shown
    editor,      \* the state of EditorTab
    form,        \* the state of VersionsTab
    cached,      \* the cache entry of the draft
    pubOps,      \* saves, publications, uploads, registrations
    draft,       \* the draft on the server, numbered
    artifacts,   \* the bucket: the source stored for each version
    stored,      \* per version, every source that was ever stored for it
    registered,  \* the versions of the function
    saved,       \* number of the newest draft that this browser heard it had saved
    edits

pubVars == <<tab, editor, form, cached, pubOps, draft, artifacts, stored, registered, saved, edits>>

(* A revision is what a draft holds: the files by name, and the text of everything. *)
Revisions == [paths : SUBSET FilePaths, text : Texts]
NoFiles == [paths |-> {}, text |-> StarterText]
Tarball == [paths |-> {}, text |-> "tarball"]
STARTERS == [paths |-> {StarterPath}, text |-> StarterText]
Sources == Revisions \cup {Tarball}

Blank == "blank"     \* an empty input, and an artifact key that is not known
NoEditor == [rev |-> NoFiles, active |-> Blank, version |-> Blank, env |-> TRUE,
             hydrated |-> FALSE, base |-> 0, knew |-> 0, overtaken |-> FALSE]
NewEditor == [NoEditor EXCEPT !.version = CHOOSE v \in Versions : TRUE]
NewForm == [version |-> Blank, key |-> Blank, file |-> FALSE]
NoDraft == [number |-> 0, rev |-> NoFiles]
NoOp == [kind |-> "none", at |-> "unused", source |-> NoFiles, version |-> Blank, key |-> Blank, number |-> 0, mounted |-> FALSE]
NotRegistered == [sum |-> "unknown", key |-> Blank, by |-> "nobody"]
NotCached == [loaded |-> FALSE, data |-> NoDraft, invalid |-> FALSE, failed |-> FALSE, late |-> FALSE,
              fetch |-> "none", read |-> NoDraft]

Drafts == [number : 0 .. Cardinality(PubOps), rev : Revisions]
PubTypeOK ==
    /\ tab \in {"editor", "versions", "other"}
    /\ editor \in [rev : Revisions, active : FilePaths \cup {Blank}, version : Versions \cup {Blank},
                   env : BOOLEAN, hydrated : BOOLEAN, base : 0 .. Cardinality(PubOps), knew : 0 .. Cardinality(PubOps), overtaken : BOOLEAN]
    /\ form \in [version : Versions \cup {Blank}, key : Versions \cup {Blank}, file : BOOLEAN]
    /\ cached \in [loaded : BOOLEAN, data : Drafts, invalid : BOOLEAN, failed : BOOLEAN, late : BOOLEAN,
                   fetch : {"none", "asked", "read"}, read : Drafts]
    /\ pubOps \in [PubOps -> [kind : {"none", "save", "publish", "upload", "register"},
                              at : {"unused", "sent", "stored", "presigned", "written", "ended"},
                              source : Sources, version : Versions \cup {Blank},
                              key : Versions \cup {Blank}, number : 0 .. Cardinality(PubOps),
                              mounted : BOOLEAN]]
    /\ draft \in Drafts
    /\ artifacts \in [Versions -> Sources] /\ stored \in [Versions -> SUBSET Sources]
    /\ DOMAIN registered = Versions
    /\ saved \in 0 .. draft.number /\ edits \in 0 .. MaxEdits
    \* The files of an editor that shows the draft: there is one, and one of them is active.
    /\ editor.hydrated => editor.active \in editor.rev.paths

-----------------------------------------------------------------------------
(* The draft query (TanStack Query, external) and the hydration of the editor. *)
Mounted(c) ==
    IF (~c.loaded \/ c.invalid) /\ c.fetch = "none" THEN [c EXCEPT !.fetch = "asked", !.failed = FALSE, !.late = FALSE] ELSE c
\* Mutant: saving forgets the query.
InvalidatedNot(c) == c
\* Unless the editor is shown, nothing cancels a fetch, whose late answer clears the mark.
Invalidated(c) ==
    IF tab = "editor" THEN [c EXCEPT !.invalid = TRUE, !.fetch = "asked", !.failed = FALSE, !.late = FALSE]
    ELSE [c EXCEPT !.invalid = TRUE, !.late = c.fetch # "none"]

DraftFiles(d) == IF d.rev.paths # {} THEN d.rev ELSE [STARTERS EXCEPT !.text = d.rev.text]
\* Mutant: the effect depends on the data and not on the function's id.
HydratesOnData == tab = "editor" /\ cached.loaded /\ (editor.hydrated => editor.base # cached.data.number)
\* The dependency of the effect is the id of the function, which the first data bring.
Hydrates == tab = "editor" /\ cached.loaded /\ ~editor.hydrated
Hydrate ==
    /\ Hydrates
    /\ \E p \in DraftFiles(cached.data).paths :
        editor' = [editor EXCEPT !.rev = DraftFiles(cached.data), !.active = p, !.env = TRUE,
                                 !.hydrated = TRUE, !.base = cached.data.number,
                                 !.knew = saved,
                                 !.overtaken = cached.invalid \/ cached.late \/ cached.fetch # "none"]
    /\ UNCHANGED <<tab, form, cached, pubOps, draft, artifacts, stored, registered, saved, edits>>

DraftRead ==
    /\ cached.fetch = "asked"
    /\ cached' = [cached EXCEPT !.fetch = "read", !.read = draft]
    /\ UNCHANGED <<tab, editor, form, pubOps, draft, artifacts, stored, registered, saved, edits>>
DraftArrives ==
    /\ cached.fetch = "read"
    /\ cached' = [NotCached EXCEPT !.loaded = TRUE, !.data = cached.read, !.late = cached.late]
    /\ UNCHANGED <<tab, editor, form, pubOps, draft, artifacts, stored, registered, saved, edits>>
DraftFails ==
    /\ cached.fetch = "asked"
    /\ cached' = [cached EXCEPT !.fetch = "none", !.failed = TRUE]
    /\ UNCHANGED <<tab, editor, form, pubOps, draft, artifacts, stored, registered, saved, edits>>

(* Another tab of the function: the state of the one that goes is lost, its requests go on. *)
ShowTab(t) ==
    /\ t # tab
    /\ tab' = t
    /\ form' = NewForm
    /\ editor' = IF t = "editor" THEN NewEditor ELSE NoEditor
    /\ cached' = IF t = "editor" THEN Mounted(cached) ELSE cached
    /\ pubOps' = [o \in PubOps |-> [pubOps[o] EXCEPT !.mounted = FALSE]]
    /\ UNCHANGED <<draft, artifacts, stored, registered, saved, edits>>

-----------------------------------------------------------------------------
(* EditorTab. A draft that fails to load hides the whole editor. *)
EditorShown == tab = "editor" /\ editor.hydrated /\ ~cached.failed

Types(e) ==
    /\ EditorShown /\ edits < MaxEdits
    /\ edits' = edits + 1
    /\ editor' = e
    /\ UNCHANGED <<tab, form, cached, pubOps, draft, artifacts, stored, registered, saved>>

updateActiveContent == \E x \in Texts \ {editor.rev.text} : Types([editor EXCEPT !.rev.text = x])
setActivePath == \E p \in editor.rev.paths \ {editor.active} : Types([editor EXCEPT !.active = p])
addFile ==
    \E p \in FilePaths \ editor.rev.paths :
        Types([editor EXCEPT !.rev.paths = @ \cup {p}, !.active = p])
\* Mutant: the path that is removed stays the active one.
ActiveAsBefore(p) == {editor.active}
ActiveWithout(p) == IF editor.active = p THEN editor.rev.paths \ {p} ELSE {editor.active}
removeFile ==
    \E p \in editor.rev.paths : \E a \in ActiveWithout(p) :
        /\ Cardinality(editor.rev.paths) > 1
        /\ Types([editor EXCEPT !.rev.paths = @ \ {p}, !.active = a])
\* The starters of the other runtimes wait for an editor without files.
swapRuntime ==
    IF editor.rev.paths = {} THEN Types([editor EXCEPT !.rev = STARTERS, !.active = StarterPath])
    ELSE \E x \in Texts \ {editor.rev.text} : Types([editor EXCEPT !.rev.text = x])
editEnv == Types([editor EXCEPT !.env = ~@])
editVersion == \E v \in (Versions \cup {Blank}) \ {editor.version} : Types([editor EXCEPT !.version = v])

Pending(kind) == \E o \in PubOps : /\ pubOps[o].kind = kind /\ pubOps[o].mounted
                                   /\ pubOps[o].at \in {"sent", "stored", "presigned", "written"}
Starts(o, op) ==
    /\ pubOps[o].at = "unused"
    /\ pubOps' = [pubOps EXCEPT ![o] = [op EXCEPT !.at = "sent", !.mounted = TRUE]]
    /\ UNCHANGED <<tab, editor, form, cached, draft, artifacts, stored, registered, saved, edits>>

\* An environment that does not parse fails either of them before anything is sent.
SaveDraft(o) ==
    /\ EditorShown /\ editor.env /\ ~Pending("save")
    /\ Starts(o, [NoOp EXCEPT !.kind = "save", !.source = editor.rev])
Publish(o) ==
    /\ EditorShown /\ editor.env /\ ~Pending("publish") /\ editor.version # Blank
    /\ Starts(o, [NoOp EXCEPT !.kind = "publish", !.source = editor.rev,
                              !.version = editor.version, !.key = editor.version])

(* VersionsTab. *)
EditForm ==
    /\ tab = "versions" /\ edits < MaxEdits
    /\ edits' = edits + 1
    /\ \/ \E v \in (Versions \cup {Blank}) \ {form.version} : form' = [form EXCEPT !.version = v]
       \/ form' = [form EXCEPT !.file = ~@]
    /\ UNCHANGED <<tab, editor, cached, pubOps, draft, artifacts, stored, registered, saved>>
presignAndUpload(o) ==
    /\ tab = "versions" /\ form.file /\ form.version # Blank /\ ~Pending("upload")
    /\ Starts(o, [NoOp EXCEPT !.kind = "upload", !.source = Tarball, !.version = form.version])
onRegister(o) ==
    /\ tab = "versions" /\ form.version # Blank /\ ~Pending("register")
    /\ Starts(o, [NoOp EXCEPT !.kind = "register", !.version = form.version, !.key = form.key])

-----------------------------------------------------------------------------
(* The server, and what its answers do. *)
Moves(o, at) == pubOps' = [pubOps EXCEPT ![o].at = at]

DraftSaved(o) ==
    /\ pubOps[o].kind = "save" /\ pubOps[o].at = "sent"
    /\ draft' = [number |-> draft.number + 1, rev |-> pubOps[o].source]
    /\ pubOps' = [pubOps EXCEPT ![o].at = "written", ![o].number = draft.number + 1]
    /\ UNCHANGED <<tab, editor, form, cached, artifacts, stored, registered, saved, edits>>
SaveSucceeds(o) ==
    /\ pubOps[o].kind = "save" /\ pubOps[o].at = "written"
    /\ Moves(o, "ended")
    /\ saved' = IF pubOps[o].number > saved THEN pubOps[o].number ELSE saved
    /\ cached' = Invalidated(cached)
    /\ UNCHANGED <<tab, editor, form, draft, artifacts, stored, registered, edits>>

\* The key of an artifact is made from the version alone: what it held is replaced.
Puts(o, source) ==
    LET v == pubOps[o].version
    IN  /\ artifacts' = [artifacts EXCEPT ![v] = source]
        /\ stored' = [stored EXCEPT ![v] = @ \cup {source}]
SourceStored(o) ==
    /\ pubOps[o].kind = "publish" /\ pubOps[o].at = "sent"
    /\ Puts(o, pubOps[o].source) /\ Moves(o, "stored")
    /\ UNCHANGED <<tab, editor, form, cached, draft, registered, saved, edits>>
Presigned(o) ==
    /\ pubOps[o].kind = "upload" /\ pubOps[o].at = "sent"
    /\ Moves(o, "presigned")
    /\ form' = IF pubOps[o].mounted THEN [form EXCEPT !.key = pubOps[o].version] ELSE form
    /\ UNCHANGED <<tab, editor, cached, draft, artifacts, stored, registered, saved, edits>>
Uploaded(o) ==
    /\ pubOps[o].kind = "upload" /\ pubOps[o].at = "presigned"
    /\ Puts(o, Tarball) /\ Moves(o, "ended")
    /\ UNCHANGED <<tab, editor, form, cached, draft, registered, saved, edits>>

\* Mutant: the version that the input holds by now.
RegisteredVersionNow(o) ==
    IF tab = "editor" /\ editor.version # Blank THEN editor.version ELSE pubOps[o].version
\* The version the operation began with.
RegisteredVersion(o) == pubOps[o].version
(* A version that exists is refused; a registration that succeeds clears the form that sent it. *)
Registers(o) ==
    LET v == RegisteredVersion(o)
        editorDoes == pubOps[o].kind = "publish"
    IN  /\ \/ editorDoes /\ pubOps[o].at = "stored"
           \/ pubOps[o].kind = "register" /\ pubOps[o].at = "sent"
        /\ Moves(o, "ended")
        /\ IF registered[v] # NotRegistered THEN UNCHANGED <<registered, form>>
           ELSE /\ registered' = [registered EXCEPT ![v] =
                       [sum |-> IF editorDoes THEN pubOps[o].source ELSE "unknown", key |-> pubOps[o].key,
                        by |-> IF editorDoes THEN "editor" ELSE "form"]]
                /\ form' = IF ~editorDoes /\ pubOps[o].mounted THEN NewForm ELSE form
        /\ UNCHANGED <<tab, editor, cached, draft, artifacts, stored, saved, edits>>

(* A request is refused or lost, or its answer is: the operation goes no further. *)
OpFails(o) ==
    /\ pubOps[o].at \in {"sent", "stored", "presigned", "written"}
    /\ Moves(o, "ended")
    /\ UNCHANGED <<tab, editor, form, cached, draft, artifacts, stored, registered, saved, edits>>

-----------------------------------------------------------------------------
PubInit ==
    /\ tab = "other" /\ editor = NoEditor /\ form = NewForm /\ cached = NotCached
    /\ pubOps = [o \in PubOps |-> NoOp]
    /\ draft = NoDraft /\ saved = 0 /\ edits = 0
    /\ artifacts = [v \in Versions |-> NoFiles] /\ stored = [v \in Versions |-> {}]
    /\ registered = [v \in Versions |-> NotRegistered]

PubNext ==
    \/ Hydrate \/ DraftRead \/ DraftArrives \/ DraftFails
    \/ \E t \in {"editor", "versions", "other"} : ShowTab(t)
    \/ updateActiveContent \/ setActivePath \/ addFile \/ removeFile \/ swapRuntime \/ editEnv \/ editVersion
    \/ EditForm
    \/ \E o \in PubOps :
        \/ SaveDraft(o) \/ Publish(o) \/ presignAndUpload(o) \/ onRegister(o)
        \/ DraftSaved(o) \/ SaveSucceeds(o) \/ SourceStored(o) \/ Presigned(o) \/ Uploaded(o)
        \/ Registers(o) \/ OpFails(o)

PubSpec == PubInit /\ [][PubNext]_pubVars

-----------------------------------------------------------------------------
(* What the user has typed is changed by nobody else: neither the refetch after a save, nor the answer
   to any request, touches the files of an editor that shows them. *)
EditsSurvive ==
    [][ (editor.hydrated /\ tab' = tab /\ editor' # editor) => edits' = edits + 1 ]_pubVars

(* A version published by the editor names the artifact of its own version, and its checksum is that of
   a source that was stored under it, whatever was edited while the upload ran. *)
PublishedIsItsSource ==
    \A v \in Versions : registered[v].by = "editor" =>
        registered[v].key = v /\ registered[v].sum \in stored[v]

(* The editor works on a draft older than one this browser knew to be saved only if it was opened before the
   refetch after that save was answered, or if a fetch that began before it was answered after it. *)
StaleDraftsWereReopened ==
    (editor.hydrated /\ editor.base < editor.knew) => editor.overtaken

(* The artifact of a registered version is never replaced. (It is.) *)
ArtifactsAreImmutable ==
    [][ \A v \in Versions :
          (registered[v].by = "editor" /\ registered[v].key = v) => artifacts'[v] = artifacts[v] ]_pubVars
=============================================================================
