-------------------------- MODULE PublishingProofs --------------------------
(***************************************************************************)
(* Theorems about Publishing, for all files, texts and versions and any    *)
(* number of operations.                                                   *)
(***************************************************************************)
EXTENDS Publishing, FiniteSetTheorems, TLAPS

EditorTypes == [rev : Revisions, active : FilePaths \cup {Blank}, version : Versions \cup {Blank}, env : BOOLEAN,
                hydrated : BOOLEAN, base : Nat, knew : Nat, overtaken : BOOLEAN]
FormTypes == [version : Versions \cup {Blank}, key : Versions \cup {Blank}, file : BOOLEAN]
EditorOpTypes ==
    [kind : {"none", "save", "publish", "upload", "register"},
     at : {"unused", "sent", "stored", "presigned", "written", "ended"},
     source : Sources, version : Versions \cup {Blank}, key : Versions \cup {Blank}, number : Nat, mounted : BOOLEAN]
DraftTypes == [number : Nat, rev : Revisions]
CacheTypes == [loaded : BOOLEAN, data : DraftTypes, invalid : BOOLEAN, failed : BOOLEAN, late : BOOLEAN,
               fetch : {"none", "asked", "read"}, read : DraftTypes]

-----------------------------------------------------------------------------
(* What the browser types and sends. *)

\* The types of the two tabs and of the operations they start.
TabsTyped ==
    /\ editor \in EditorTypes /\ form \in FormTypes /\ pubOps \in [PubOps -> EditorOpTypes]
    /\ cached \in CacheTypes /\ draft \in DraftTypes /\ saved \in Nat
    /\ \A o \in PubOps : pubOps[o].kind = "save" => pubOps[o].source \in Revisions

LEMMA Constants1 ==
    /\ NoFiles \in Revisions /\ STARTERS \in Revisions /\ Tarball \in Sources
    /\ NoEditor \in EditorTypes /\ NewEditor \in EditorTypes /\ NewForm \in FormTypes
    /\ NoDraft \in DraftTypes /\ NotCached \in CacheTypes /\ NoOp \in EditorOpTypes
<1>1. NoFiles \in Revisions /\ STARTERS \in Revisions /\ Tarball \in Sources
  BY StarterAssumption DEF NoFiles, STARTERS, Revisions, Tarball, Sources
<1>2. NoEditor \in EditorTypes
  BY <1>1 DEF NoEditor, EditorTypes
<1>3. NewEditor \in EditorTypes
  <2>1. (CHOOSE v \in Versions : TRUE) \in Versions
    BY VersionsAssumption
  <2> QED
    BY <1>2, <2>1 DEF NewEditor, EditorTypes
<1>4. NewForm \in FormTypes /\ NoDraft \in DraftTypes
  BY <1>1 DEF NewForm, FormTypes, NoDraft, DraftTypes
<1>5. NotCached \in CacheTypes
  BY <1>4 DEF NotCached, CacheTypes
<1>6. NoOp \in EditorOpTypes
  BY <1>1 DEF NoOp, EditorOpTypes, Sources
<1> QED
  BY <1>1, <1>2, <1>3, <1>4, <1>5, <1>6

\* Everything the user does to the source in the editor leaves it a source.
Edited(e) ==
    \/ \E x \in Texts : e = [editor EXCEPT !.rev.text = x]
    \/ \E p \in FilePaths : e = [editor EXCEPT !.active = p]
    \/ \E p \in FilePaths : e = [editor EXCEPT !.rev.paths = @ \cup {p}, !.active = p]
    \/ \E p \in FilePaths, a \in FilePaths \cup {Blank} : e = [editor EXCEPT !.rev.paths = @ \ {p}, !.active = a]
    \/ e = [editor EXCEPT !.rev = STARTERS, !.active = StarterPath]
    \/ e = [editor EXCEPT !.env = ~@]
    \/ \E v \in Versions \cup {Blank} : e = [editor EXCEPT !.version = v]
UserTypes ==
    updateActiveContent \/ setActivePath \/ addFile \/ removeFile \/ swapRuntime \/ editEnv \/ editVersion

LEMMA EditedKeepsTypes ==
    ASSUME editor \in EditorTypes, NEW e, Edited(e)
    PROVE  /\ e \in EditorTypes /\ e.hydrated = editor.hydrated /\ e.base = editor.base /\ e.knew = editor.knew
           /\ e.overtaken = editor.overtaken
<1>1. editor.rev \in Revisions
  BY DEF EditorTypes
<1>2. \A x \in Texts : [editor.rev EXCEPT !.text = x] \in Revisions
  BY <1>1 DEF Revisions
<1>3. \A p \in FilePaths : [editor.rev EXCEPT !.paths = @ \cup {p}] \in Revisions
  BY <1>1 DEF Revisions
<1>4. \A p \in FilePaths : [editor.rev EXCEPT !.paths = @ \ {p}] \in Revisions
  BY <1>1 DEF Revisions
<1>5. CASE \E x \in Texts : e = [editor EXCEPT !.rev.text = x]
  BY <1>2, <1>5 DEF EditorTypes
<1>6. CASE \E p \in FilePaths : e = [editor EXCEPT !.active = p]
  BY <1>6 DEF EditorTypes
<1>7. CASE \E p \in FilePaths : e = [editor EXCEPT !.rev.paths = @ \cup {p}, !.active = p]
  BY <1>3, <1>7 DEF EditorTypes
<1>8. CASE \E p \in FilePaths, a \in FilePaths \cup {Blank} :
               e = [editor EXCEPT !.rev.paths = @ \ {p}, !.active = a]
  BY <1>4, <1>8 DEF EditorTypes
<1>9. CASE e = [editor EXCEPT !.rev = STARTERS, !.active = StarterPath]
  BY <1>9, Constants1, StarterAssumption DEF EditorTypes
<1>10. CASE e = [editor EXCEPT !.env = ~@]
  BY <1>10 DEF EditorTypes
<1>11. CASE \E v \in Versions \cup {Blank} : e = [editor EXCEPT !.version = v]
  BY <1>11 DEF EditorTypes
<1> QED
  BY <1>5, <1>6, <1>7, <1>8, <1>9, <1>10, <1>11 DEF Edited

LEMMA UserTypesEdits ==
    ASSUME editor \in EditorTypes, UserTypes
    PROVE  \E e : Edited(e) /\ Types(e)
<1>1. editor.rev \in Revisions /\ editor.rev.paths \subseteq FilePaths /\ editor.active \in FilePaths \cup {Blank}
  BY DEF EditorTypes, Revisions
<1>2. CASE updateActiveContent
  BY <1>2 DEF updateActiveContent, Edited
<1>3. CASE setActivePath
  BY <1>1, <1>3 DEF setActivePath, Edited
<1>4. CASE addFile
  BY <1>4 DEF addFile, Edited
<1>5. CASE removeFile
  BY <1>1, <1>5 DEF removeFile, ActiveWithout, Edited
<1>6. CASE swapRuntime
  BY <1>6 DEF swapRuntime, Edited
<1>7. CASE editEnv
  BY <1>7 DEF editEnv, Edited
<1>8. CASE editVersion
  BY <1>8 DEF editVersion, Edited
<1> QED
  BY <1>2, <1>3, <1>4, <1>5, <1>6, <1>7, <1>8 DEF UserTypes

\* An operation that goes on keeps what it was started with.
LEMMA MovesKeeps ==
    ASSUME pubOps \in [PubOps -> EditorOpTypes], NEW o \in PubOps,
           NEW at \in {"stored", "presigned", "written", "ended"}, Moves(o, at)
    PROVE  /\ pubOps' \in [PubOps -> EditorOpTypes] /\ pubOps'[o].at = at
           /\ \A r \in PubOps : r # o => pubOps'[r] = pubOps[r]
           /\ \A r \in PubOps : /\ pubOps'[r].kind = pubOps[r].kind /\ pubOps'[r].source = pubOps[r].source
                                /\ pubOps'[r].version = pubOps[r].version /\ pubOps'[r].key = pubOps[r].key
                                /\ pubOps'[r].number = pubOps[r].number
<1>1. pubOps' = [pubOps EXCEPT ![o].at = at]
  BY DEF Moves
<1>2. \A r \in PubOps : r # o => pubOps'[r] = pubOps[r]
  BY <1>1
<1>3. pubOps'[o] = [pubOps[o] EXCEPT !.at = at] /\ pubOps[o] \in EditorOpTypes
  BY <1>1
<1>4. /\ pubOps'[o] \in EditorOpTypes /\ pubOps'[o].at = at
      /\ pubOps'[o].kind = pubOps[o].kind /\ pubOps'[o].source = pubOps[o].source
      /\ pubOps'[o].version = pubOps[o].version /\ pubOps'[o].key = pubOps[o].key
      /\ pubOps'[o].number = pubOps[o].number
  BY <1>3 DEF EditorOpTypes
<1>5. pubOps' \in [PubOps -> EditorOpTypes]
  BY <1>1, <1>4
<1> QED
  BY <1>2, <1>4, <1>5

\* What the user starts, and with what.
OpStarted(op) ==
    \/ op.kind = "save" /\ op.source = editor.rev /\ op.version = Blank /\ op.key = Blank
    \/ op.kind = "publish" /\ op.source = editor.rev /\ op.version = editor.version /\ op.version # Blank
       /\ op.key = op.version
    \/ op.kind = "upload" /\ op.source = Tarball /\ op.version = form.version /\ op.key = Blank
    \/ op.kind = "register" /\ op.source = NoFiles /\ op.version = form.version /\ op.key = form.key
UserStarts(o) == SaveDraft(o) \/ Publish(o) \/ presignAndUpload(o) \/ onRegister(o)

LEMMA UserStartsOp ==
    ASSUME TabsTyped, NEW o \in PubOps, UserStarts(o)
    PROVE  /\ pubOps[o].at = "unused"
           /\ \E op \in EditorOpTypes : /\ pubOps' = [pubOps EXCEPT ![o] = op]
                                  /\ op.at = "sent" /\ op.number = 0 /\ OpStarted(op)
           /\ UNCHANGED <<tab, editor, form, cached, draft, artifacts, stored, registered, saved, edits>>
<1>1. /\ editor.rev \in Sources /\ editor.version \in Versions \cup {Blank}
      /\ form.version \in Versions \cup {Blank} /\ form.key \in Versions \cup {Blank}
  BY DEF TabsTyped, EditorTypes, FormTypes, Sources
<1>2. /\ NoOp.number = 0 /\ NoOp.source = NoFiles /\ NoOp.version = Blank /\ NoOp.key = Blank /\ NoOp \in EditorOpTypes
  BY Constants1 DEF NoOp
<1>3. CASE SaveDraft(o)
  <2> DEFINE op == [NoOp EXCEPT !.kind = "save", !.source = editor.rev]
  <2>1. /\ op.kind = "save" /\ op.source = editor.rev /\ op.version = Blank /\ op.key = Blank
        /\ [op EXCEPT !.at = "sent", !.mounted = TRUE] \in EditorOpTypes
    BY <1>1, <1>2 DEF EditorOpTypes, NoOp
  <2>2. Starts(o, op)
    BY <1>3 DEF SaveDraft
  <2>3. OpStarted([op EXCEPT !.at = "sent", !.mounted = TRUE])
    BY <2>1 DEF OpStarted, NoOp
  <2> QED
    BY <2>1, <2>2, <2>3 DEF Starts, NoOp
<1>4. CASE Publish(o)
  <2> DEFINE op == [NoOp EXCEPT !.kind = "publish", !.source = editor.rev, !.version = editor.version,
                                !.key = editor.version]
  <2>1. [op EXCEPT !.at = "sent", !.mounted = TRUE] \in EditorOpTypes
    BY <1>1, <1>2 DEF EditorOpTypes, NoOp
  <2>2. Starts(o, op) /\ editor.version # Blank
    BY <1>4 DEF Publish
  <2>3. OpStarted([op EXCEPT !.at = "sent", !.mounted = TRUE])
    BY <2>2 DEF OpStarted, NoOp
  <2> QED
    BY <2>1, <2>2, <2>3 DEF Starts, NoOp
<1>5. CASE presignAndUpload(o)
  <2> DEFINE op == [NoOp EXCEPT !.kind = "upload", !.source = Tarball, !.version = form.version]
  <2>1. [op EXCEPT !.at = "sent", !.mounted = TRUE] \in EditorOpTypes
    BY <1>1, <1>2, Constants1 DEF EditorOpTypes, NoOp
  <2>2. Starts(o, op)
    BY <1>5 DEF presignAndUpload
  <2>3. OpStarted([op EXCEPT !.at = "sent", !.mounted = TRUE])
    BY DEF OpStarted, NoOp
  <2> QED
    BY <2>1, <2>2, <2>3 DEF Starts, NoOp
<1>6. CASE onRegister(o)
  <2> DEFINE op == [NoOp EXCEPT !.kind = "register", !.version = form.version, !.key = form.key]
  <2>1. [op EXCEPT !.at = "sent", !.mounted = TRUE] \in EditorOpTypes
    BY <1>1, <1>2 DEF EditorOpTypes, NoOp
  <2>2. Starts(o, op)
    BY <1>6 DEF onRegister
  <2>3. OpStarted([op EXCEPT !.at = "sent", !.mounted = TRUE])
    BY DEF OpStarted, NoOp
  <2> QED
    BY <2>1, <2>2, <2>3 DEF Starts, NoOp
<1> QED
  BY <1>3, <1>4, <1>5, <1>6 DEF UserStarts

\* The draft entry after a mount or an invalidation.
LEMMA CacheStaysTyped ==
    ASSUME NEW c \in CacheTypes PROVE Mounted(c) \in CacheTypes /\ Invalidated(c) \in CacheTypes
<1>1. Mounted(c) \in CacheTypes
  BY DEF Mounted, CacheTypes
<1>2. Invalidated(c) \in CacheTypes
  BY DEF Invalidated, CacheTypes
<1> QED
  BY <1>1, <1>2

LEMMA TabsTypedInitially == PubInit => TabsTyped
<1> SUFFICES ASSUME PubInit PROVE TabsTyped
  OBVIOUS
<1>1. pubOps \in [PubOps -> EditorOpTypes]
  BY Constants1 DEF PubInit
<1>2. \A o \in PubOps : pubOps[o].kind # "save"
  BY DEF PubInit, NoOp
<1> QED
  BY <1>1, <1>2, Constants1 DEF PubInit, TabsTyped

LEMMA TabsTypedKept == TabsTyped /\ [PubNext]_pubVars => TabsTyped'
<1> SUFFICES ASSUME TabsTyped, [PubNext]_pubVars PROVE TabsTyped'
  OBVIOUS
<1> USE DEF TabsTyped
<1>1. CASE UNCHANGED pubVars
  BY <1>1 DEF pubVars
<1>2. CASE Hydrate
  <2>1. cached.data \in DraftTypes
    BY DEF CacheTypes
  <2>2. DraftFiles(cached.data) \in Revisions
    BY <2>1, StarterAssumption DEF DraftFiles, DraftTypes, Revisions, STARTERS
  <2>3. DraftFiles(cached.data).paths \subseteq FilePaths /\ cached.data.number \in Nat
    BY <2>1, <2>2 DEF Revisions, DraftTypes
  <2>4. (cached.invalid \/ cached.late \/ cached.fetch # "none") \in BOOLEAN
    BY DEF CacheTypes
  <2>5. PICK p \in DraftFiles(cached.data).paths :
          editor' = [editor EXCEPT !.rev = DraftFiles(cached.data), !.active = p, !.env = TRUE, !.hydrated = TRUE,
                                   !.base = cached.data.number, !.knew = saved,
                                   !.overtaken = cached.invalid \/ cached.late \/ cached.fetch # "none"]
    BY <1>2 DEF Hydrate
  <2>6. editor' \in EditorTypes
    BY <2>2, <2>3, <2>4, <2>5 DEF EditorTypes
  <2> QED
    BY <1>2, <2>6 DEF Hydrate
<1>3. CASE DraftRead
  <2>1. cached' \in CacheTypes
    BY <1>3 DEF DraftRead, CacheTypes
  <2> QED
    BY <1>3, <2>1 DEF DraftRead
<1>4. CASE DraftArrives
  <2>1. cached' \in CacheTypes
    BY <1>4, Constants1 DEF DraftArrives, CacheTypes
  <2> QED
    BY <1>4, <2>1 DEF DraftArrives
<1>5. CASE DraftFails
  <2>1. cached' \in CacheTypes
    BY <1>5 DEF DraftFails, CacheTypes
  <2> QED
    BY <1>5, <2>1 DEF DraftFails
<1>6. ASSUME NEW t \in {"editor", "versions", "other"}, ShowTab(t) PROVE TabsTyped'
  <2>1. cached' \in CacheTypes
    BY <1>6, CacheStaysTyped DEF ShowTab
  <2>2. \A o \in PubOps : LET op == [pubOps[o] EXCEPT !.mounted = FALSE]
                          IN  op \in EditorOpTypes /\ op.kind = pubOps[o].kind /\ op.source = pubOps[o].source
    BY DEF EditorOpTypes
  <2>3. pubOps' \in [PubOps -> EditorOpTypes] /\ \A o \in PubOps : pubOps'[o].kind = "save" => pubOps'[o].source \in Revisions
    BY <1>6, <2>2 DEF ShowTab
  <2> QED
    BY <1>6, <2>1, <2>3, Constants1 DEF ShowTab
<1>7. CASE UserTypes
  BY <1>7, UserTypesEdits, EditedKeepsTypes DEF Types
<1>8. CASE EditForm
  <2>1. form' \in FormTypes
    BY <1>8 DEF EditForm, FormTypes
  <2> QED
    BY <1>8, <2>1 DEF EditForm
<1>9. ASSUME NEW o \in PubOps, UserStarts(o) PROVE TabsTyped'
  <2>1. PICK op \in EditorOpTypes : pubOps' = [pubOps EXCEPT ![o] = op] /\ OpStarted(op)
    BY <1>9, UserStartsOp
  <2>2. op.kind = "save" => op.source \in Revisions
    BY <2>1 DEF OpStarted, EditorTypes
  <2>3. pubOps' \in [PubOps -> EditorOpTypes] /\ \A r \in PubOps : pubOps'[r].kind = "save" => pubOps'[r].source \in Revisions
    BY <2>1, <2>2
  <2> QED
    BY <1>9, <2>3, UserStartsOp
<1>10. ASSUME NEW o \in PubOps, DraftSaved(o) PROVE TabsTyped'
  <2>1. pubOps[o].source \in Revisions /\ draft.number + 1 \in Nat
    BY <1>10 DEF DraftSaved, DraftTypes
  <2>2. draft' \in DraftTypes
    BY <1>10, <2>1 DEF DraftSaved, DraftTypes
  <2>3. LET op == [pubOps[o] EXCEPT !.at = "written", !.number = draft.number + 1]
        IN  op \in EditorOpTypes /\ op.kind = pubOps[o].kind /\ op.source = pubOps[o].source
    BY <2>1 DEF EditorOpTypes
  <2>4. pubOps' = [pubOps EXCEPT ![o] = [pubOps[o] EXCEPT !.at = "written", !.number = draft.number + 1]]
    BY <1>10 DEF DraftSaved
  <2>5. pubOps' \in [PubOps -> EditorOpTypes] /\ \A r \in PubOps : pubOps'[r].kind = "save" => pubOps'[r].source \in Revisions
    BY <2>3, <2>4
  <2> QED
    BY <1>10, <2>2, <2>5 DEF DraftSaved
<1>11. ASSUME NEW o \in PubOps, SaveSucceeds(o) PROVE TabsTyped'
  <2>1. cached' \in CacheTypes /\ pubOps[o].number \in Nat
    BY <1>11, CacheStaysTyped DEF SaveSucceeds, EditorOpTypes
  <2> QED
    BY <1>11, <2>1, MovesKeeps DEF SaveSucceeds
<1>12. ASSUME NEW o \in PubOps, Presigned(o) PROVE TabsTyped'
  <2>1. pubOps[o].version \in Versions \cup {Blank}
    BY DEF EditorOpTypes
  <2>2. form' \in FormTypes
    BY <1>12, <2>1 DEF Presigned, FormTypes
  <2> QED
    BY <1>12, <2>2, MovesKeeps DEF Presigned
<1>13. ASSUME NEW o \in PubOps, Registers(o) PROVE TabsTyped'
  <2>1. form' \in FormTypes
    BY <1>13, Constants1 DEF Registers
  <2> QED
    BY <1>13, <2>1, MovesKeeps DEF Registers
<1>14. ASSUME NEW o \in PubOps, SourceStored(o) \/ Uploaded(o) \/ OpFails(o) PROVE TabsTyped'
  BY <1>14, MovesKeeps DEF SourceStored, Uploaded, OpFails
<1> QED
  BY <1>1, <1>2, <1>3, <1>4, <1>5, <1>6, <1>7, <1>8, <1>9, <1>10, <1>11, <1>12, <1>13, <1>14
  DEF PubNext, UserTypes, UserStarts

(* What keeps the operations' sources, versions and keys. *)

\* An operation of the user's keeps its source, version, key and number once it has begun.
LEMMA ShowTabKeeps ==
    ASSUME TabsTyped, NEW t, ShowTab(t)
    PROVE  /\ pubOps' \in [PubOps -> EditorOpTypes]
           /\ \A r \in PubOps : /\ pubOps'[r].kind = pubOps[r].kind /\ pubOps'[r].source = pubOps[r].source
                                /\ pubOps'[r].version = pubOps[r].version /\ pubOps'[r].key = pubOps[r].key
                                /\ pubOps'[r].number = pubOps[r].number /\ pubOps'[r].at = pubOps[r].at
<1>1. pubOps \in [PubOps -> EditorOpTypes]
  BY DEF TabsTyped
<1>2. \A r \in PubOps : LET op == [pubOps[r] EXCEPT !.mounted = FALSE]
                        IN  /\ op \in EditorOpTypes /\ op.kind = pubOps[r].kind /\ op.source = pubOps[r].source
                            /\ op.version = pubOps[r].version /\ op.key = pubOps[r].key
                            /\ op.number = pubOps[r].number /\ op.at = pubOps[r].at
  BY <1>1 DEF EditorOpTypes
<1> QED
  BY <1>2 DEF ShowTab

\* A publication carries its own version as its key, and its source is stored before it is registered.
PublicationsStored ==
    \A o \in PubOps : pubOps[o].kind = "publish" =>
        /\ pubOps[o].version \in Versions /\ pubOps[o].key = pubOps[o].version
        /\ pubOps[o].at = "stored" => pubOps[o].source \in stored[pubOps[o].version]
SourcesInv ==
    /\ TabsTyped
    /\ stored \in [Versions -> SUBSET Sources] /\ DOMAIN registered = Versions
    /\ PublicationsStored
    /\ PublishedIsItsSource

LEMMA SourcesInvInitially == PubInit => SourcesInv
<1> SUFFICES ASSUME PubInit PROVE SourcesInv
  OBVIOUS
<1>1. \A o \in PubOps : pubOps[o].kind = "none"
  BY DEF PubInit, NoOp
<1>2. \A v \in Versions : registered[v].by = "nobody"
  BY DEF PubInit, NotRegistered
<1> QED
  BY <1>1, <1>2, TabsTypedInitially DEF PubInit, SourcesInv, PublicationsStored, PublishedIsItsSource

LEMMA SourcesInvKept == SourcesInv /\ [PubNext]_pubVars => SourcesInv'
<1> SUFFICES ASSUME SourcesInv, [PubNext]_pubVars PROVE SourcesInv'
  OBVIOUS
<1>0. TabsTyped /\ TabsTyped' /\ pubOps \in [PubOps -> EditorOpTypes]
  BY TabsTypedKept DEF SourcesInv, TabsTyped
\* A step that stores and registers nothing, and leaves the publications as they are.
<1>1. ASSUME UNCHANGED <<stored, registered>>,
             \A r \in PubOps : pubOps'[r].kind = "publish" =>
                /\ pubOps'[r].version \in Versions /\ pubOps'[r].key = pubOps'[r].version
                /\ pubOps'[r].at = "stored" => (/\ pubOps[r].kind = "publish" /\ pubOps[r].at = "stored"
                                                /\ pubOps'[r].source = pubOps[r].source
                                                /\ pubOps'[r].version = pubOps[r].version)
      PROVE  SourcesInv'
  BY <1>0, <1>1 DEF SourcesInv, PublicationsStored, PublishedIsItsSource
<1>2. CASE UNCHANGED <<pubOps, stored, registered>>
  BY <1>1, <1>2 DEF SourcesInv, PublicationsStored
<1>3. ASSUME NEW t \in {"editor", "versions", "other"}, ShowTab(t) PROVE SourcesInv'
  BY <1>0, <1>1, <1>3, ShowTabKeeps DEF SourcesInv, PublicationsStored, ShowTab
<1>4. ASSUME NEW o \in PubOps, UserStarts(o) PROVE SourcesInv'
  <2>1. PICK op \in EditorOpTypes : pubOps' = [pubOps EXCEPT ![o] = op] /\ op.at = "sent" /\ OpStarted(op)
    BY <1>0, <1>4, UserStartsOp
  <2>2. op.kind = "publish" => op.version \in Versions /\ op.key = op.version
    BY <1>0, <2>1 DEF OpStarted, TabsTyped, EditorTypes
  <2>3. UNCHANGED <<stored, registered>>
    BY <1>0, <1>4, UserStartsOp
  <2>4. \A r \in PubOps : pubOps'[r] = IF r = o THEN op ELSE pubOps[r]
    BY <1>0, <2>1
  <2> QED
    BY <1>1, <2>1, <2>2, <2>3, <2>4 DEF SourcesInv, PublicationsStored
<1>5. ASSUME NEW o \in PubOps, DraftSaved(o) PROVE SourcesInv'
  <2>1. LET op == [pubOps[o] EXCEPT !.at = "written", !.number = draft.number + 1]
        IN  op.kind = "save" /\ pubOps' = [pubOps EXCEPT ![o] = op]
    BY <1>0, <1>5 DEF DraftSaved, EditorOpTypes
  <2>2. \A r \in PubOps : pubOps'[r].kind = "publish" => pubOps'[r] = pubOps[r]
    BY <1>0, <2>1
  <2> QED
    BY <1>1, <1>5, <2>2 DEF DraftSaved, SourcesInv, PublicationsStored
<1>6. ASSUME NEW o \in PubOps, SaveSucceeds(o) \/ Presigned(o) \/ OpFails(o) PROVE SourcesInv'
  <2>1. UNCHANGED <<stored, registered>>
    BY <1>6 DEF SaveSucceeds, Presigned, OpFails
  <2>2. \E at \in {"presigned", "ended"} : Moves(o, at)
    BY <1>6 DEF SaveSucceeds, Presigned, OpFails
  <2> QED
    BY <1>0, <1>1, <2>1, <2>2, MovesKeeps DEF SourcesInv, PublicationsStored
\* A source that is stored stays among those stored for its version.
<1>7. ASSUME NEW o \in PubOps, SourceStored(o) \/ Uploaded(o) PROVE SourcesInv'
  <2> DEFINE source == IF pubOps[o].kind = "publish" THEN pubOps[o].source ELSE Tarball
  <2>1. source \in Sources
    BY <1>0, Constants1 DEF EditorOpTypes
  <2>2. stored' = [stored EXCEPT ![pubOps[o].version] = @ \cup {source}] /\ UNCHANGED registered
    BY <1>7 DEF SourceStored, Uploaded, Puts
  <2>3. /\ stored' \in [Versions -> SUBSET Sources] /\ \A v \in Versions : stored[v] \subseteq stored'[v]
        /\ pubOps[o].version \in Versions => source \in stored'[pubOps[o].version]
    <3> HIDE DEF source
    <3> QED
      BY <2>1, <2>2 DEF SourcesInv
  <2>4. PICK at \in {"stored", "ended"} : Moves(o, at)
    BY <1>7 DEF SourceStored, Uploaded
  <2>5. PublicationsStored'
    <3> SUFFICES ASSUME NEW r \in PubOps, pubOps'[r].kind = "publish"
                 PROVE  /\ pubOps'[r].version \in Versions /\ pubOps'[r].key = pubOps'[r].version
                        /\ pubOps'[r].at = "stored" => pubOps'[r].source \in stored'[pubOps'[r].version]
      BY DEF PublicationsStored
    <3>1. /\ pubOps[r].kind = "publish" /\ pubOps'[r].version = pubOps[r].version
          /\ pubOps'[r].key = pubOps[r].key /\ pubOps'[r].source = pubOps[r].source
          /\ r # o => pubOps'[r].at = pubOps[r].at
      BY <1>0, <2>4, MovesKeeps
    <3>2. pubOps[r].version \in Versions /\ pubOps[r].key = pubOps[r].version
      BY <3>1 DEF SourcesInv, PublicationsStored
    <3>3. CASE r = o
      BY <2>3, <3>1, <3>2, <3>3
    <3>4. CASE r # o
      BY <2>3, <3>1, <3>2, <3>4 DEF SourcesInv, PublicationsStored
    <3> QED
      BY <3>3, <3>4
  <2> QED
    BY <1>0, <2>2, <2>3, <2>5 DEF SourcesInv, PublishedIsItsSource
\* The checksum that is registered is that of the source stored under the version.
<1>8. ASSUME NEW o \in PubOps, Registers(o) PROVE SourcesInv'
  <2> DEFINE v == pubOps[o].version
             row == [sum |-> IF pubOps[o].kind = "publish" THEN pubOps[o].source ELSE "unknown", key |-> pubOps[o].key,
                     by |-> IF pubOps[o].kind = "publish" THEN "editor" ELSE "form"]
  <2>1. /\ Moves(o, "ended") /\ UNCHANGED stored
        /\ registered' = registered \/ registered' = [registered EXCEPT ![v] = row]
        /\ pubOps[o].kind = "publish" => pubOps[o].at = "stored"
    BY <1>8 DEF Registers, RegisteredVersion
  <2>2. PublicationsStored'
    BY <1>0, <2>1, MovesKeeps DEF SourcesInv, PublicationsStored
  <2>3. row.by = "editor" => v \in Versions /\ row.key = v /\ row.sum \in stored[v]
    BY <2>1 DEF SourcesInv, PublicationsStored
  <2>4. DOMAIN registered' = Versions /\ PublishedIsItsSource'
    <3> HIDE DEF v, row
    <3> QED
      BY <2>1, <2>3 DEF SourcesInv, PublishedIsItsSource
  <2> QED
    BY <1>0, <2>1, <2>2, <2>4 DEF SourcesInv
<1>9. UserTypes => UNCHANGED <<pubOps, stored, registered>>
  BY <1>0, UserTypesEdits DEF TabsTyped, Types
<1>10. (Hydrate \/ DraftRead \/ DraftArrives \/ DraftFails \/ EditForm \/ UNCHANGED pubVars)
          => UNCHANGED <<pubOps, stored, registered>>
  BY DEF Hydrate, DraftRead, DraftArrives, DraftFails, EditForm, pubVars
<1> QED
  BY <1>2, <1>3, <1>4, <1>5, <1>6, <1>7, <1>8, <1>9, <1>10 DEF PubNext, UserTypes, UserStarts

(* A version published by the editor names the artifact of its own version, and carries the checksum of a
   source that was stored under it, whatever the user edits between the upload and the registration. *)
THEOREM PublishedVersionsAreTheirSources == PubSpec => []PublishedIsItsSource
<1>1. SourcesInv => PublishedIsItsSource
  BY DEF SourcesInv
<1> QED
  BY <1>1, SourcesInvInitially, SourcesInvKept, PTL DEF PubSpec

(* The editor changes by itself only when it is first filled, and when its tab comes or goes: what the user has
   typed is overwritten by no answer to a request. *)
THEOREM EditsAreKept == PubSpec => EditsSurvive
<1> DEFINE Kept == (editor.hydrated /\ tab' = tab /\ editor' # editor) => edits' = edits + 1
<1>1. ASSUME [PubNext]_pubVars PROVE Kept
  <2>1. CASE UserTypes
    BY <2>1 DEF UserTypes, updateActiveContent, setActivePath, addFile, removeFile, swapRuntime, editEnv,
                editVersion, Types
  <2>2. CASE Hydrate
    BY <2>2 DEF Hydrate, Hydrates
  <2>3. ASSUME NEW t, ShowTab(t) PROVE Kept
    BY <2>3 DEF ShowTab
  <2>4. CASE DraftRead \/ DraftArrives \/ DraftFails \/ EditForm \/ UNCHANGED pubVars
    BY <2>4 DEF DraftRead, DraftArrives, DraftFails, EditForm, pubVars
  <2>5. ASSUME NEW o \in PubOps, UserStarts(o) PROVE Kept
    BY <2>5 DEF UserStarts, SaveDraft, Publish, presignAndUpload, onRegister, Starts
  <2>6. ASSUME NEW o \in PubOps,
               DraftSaved(o) \/ SaveSucceeds(o) \/ SourceStored(o) \/ Presigned(o) \/ Uploaded(o)
               \/ Registers(o) \/ OpFails(o)
        PROVE  Kept
    BY <2>6 DEF DraftSaved, SaveSucceeds, SourceStored, Presigned, Uploaded, Registers, OpFails
  <2> QED
    BY <1>1, <2>1, <2>2, <2>3, <2>4, <2>5, <2>6 DEF PubNext, UserTypes, UserStarts
<1> QED
  BY <1>1, PTL DEF PubSpec, EditsSurvive

-----------------------------------------------------------------------------
(* Which draft the editor works on. *)

\* Data that nothing makes doubtful are as new as every draft this browser knows to be saved.
FreshData(c) == c.loaded /\ ~c.invalid /\ ~c.late /\ c.fetch = "none" => c.data.number >= saved
FreshRead(c) == c.fetch = "read" /\ ~c.late => c.read.number >= saved
RefetchesInvalid(c) == c.loaded /\ c.fetch # "none" => c.invalid
CountersInv ==
    /\ saved <= draft.number /\ \A o \in PubOps : pubOps[o].number <= draft.number
    /\ FreshData(cached) /\ FreshRead(cached) /\ RefetchesInvalid(cached)
DraftsInv == TabsTyped /\ CountersInv /\ StaleDraftsWereReopened

LEMMA DraftsInvInitially == PubInit => DraftsInv
<1> SUFFICES ASSUME PubInit PROVE DraftsInv
  OBVIOUS
<1>1. \A o \in PubOps : pubOps[o].number = 0
  BY DEF PubInit, NoOp
<1>2. ~cached.loaded /\ cached.fetch = "none" /\ ~editor.hydrated /\ saved = 0 /\ draft.number = 0
  BY DEF PubInit, NotCached, NoEditor, NoDraft
<1> QED
  BY <1>1, <1>2, TabsTypedInitially
  DEF DraftsInv, CountersInv, FreshData, FreshRead, RefetchesInvalid, StaleDraftsWereReopened

\* A fetch that a page starts is not an old one, and one that is not awaited is marked.
LEMMA MountedFresh ==
    ASSUME TabsTyped, CountersInv
    PROVE  LET c == Mounted(cached) IN FreshData(c) /\ FreshRead(c) /\ RefetchesInvalid(c)
<1>1. Mounted(cached) = cached
      \/ /\ Mounted(cached) = [cached EXCEPT !.fetch = "asked", !.failed = FALSE, !.late = FALSE]
         /\ ~cached.loaded \/ cached.invalid
  BY DEF Mounted
<1> QED
  BY <1>1 DEF TabsTyped, CacheTypes, CountersInv, FreshData, FreshRead, RefetchesInvalid

LEMMA DraftsInvKept == DraftsInv /\ [PubNext]_pubVars => DraftsInv'
<1> SUFFICES ASSUME DraftsInv, [PubNext]_pubVars PROVE DraftsInv'
  OBVIOUS
<1>0. TabsTyped /\ TabsTyped' /\ pubOps \in [PubOps -> EditorOpTypes] /\ saved \in Nat /\ draft.number \in Nat
  BY TabsTypedKept DEF DraftsInv, TabsTyped, DraftTypes
<1>1. cached \in CacheTypes /\ editor \in EditorTypes
  BY <1>0 DEF TabsTyped
<1>2. ASSUME UNCHANGED <<cached, draft, saved>>, \A o \in PubOps : pubOps'[o].number <= draft.number
      PROVE  CountersInv'
  BY <1>2 DEF DraftsInv, CountersInv, FreshData, FreshRead, RefetchesInvalid
<1>3. ASSUME UNCHANGED editor PROVE StaleDraftsWereReopened'
  BY <1>3 DEF DraftsInv, StaleDraftsWereReopened
<1>4. CASE Hydrate
  <2>1. UNCHANGED <<cached, draft, saved, pubOps>>
    BY <1>4 DEF Hydrate
  <2>2. /\ editor'.base = cached.data.number /\ editor'.knew = saved
        /\ editor'.overtaken = (cached.invalid \/ cached.late \/ cached.fetch # "none")
    BY <1>1, <1>4 DEF Hydrate, EditorTypes
  <2>3. cached.loaded /\ FreshData(cached) /\ cached.data.number \in Nat
    BY <1>1, <1>4 DEF Hydrate, Hydrates, DraftsInv, CountersInv, CacheTypes, DraftTypes
  <2>4. cached.data.number < saved => (cached.invalid \/ cached.late \/ cached.fetch # "none")
    BY <1>0, <2>3 DEF FreshData
  <2>5. (cached.invalid \/ cached.late \/ cached.fetch # "none") => editor'.overtaken
    BY <2>2, Zenon
  <2>6. StaleDraftsWereReopened'
    BY <2>2, <2>4, <2>5 DEF StaleDraftsWereReopened
  <2> QED
    BY <1>0, <1>2, <2>1, <2>6 DEF DraftsInv, CountersInv
<1>5. CASE DraftRead
  <2>1. cached' = [cached EXCEPT !.fetch = "read", !.read = draft] /\ UNCHANGED <<draft, saved, pubOps, editor>>
    BY <1>5 DEF DraftRead
  <2>2. cached.fetch = "asked"
    BY <1>5 DEF DraftRead
  <2>3. /\ cached'.fetch = "read" /\ cached'.read = draft /\ cached'.loaded = cached.loaded
        /\ cached'.invalid = cached.invalid
    BY <1>1, <2>1 DEF CacheTypes
  <2>4. CountersInv'
    BY <1>0, <2>1, <2>2, <2>3 DEF DraftsInv, CountersInv, FreshData, FreshRead, RefetchesInvalid
  <2> QED
    BY <1>0, <1>3, <2>1, <2>4 DEF DraftsInv
<1>6. CASE DraftArrives
  <2>1. UNCHANGED <<draft, saved, pubOps, editor>> /\ cached.fetch = "read"
    BY <1>6 DEF DraftArrives
  <2>2. cached' = [NotCached EXCEPT !.loaded = TRUE, !.data = cached.read, !.late = cached.late]
    BY <1>6 DEF DraftArrives
  <2>3. cached'.fetch = "none" /\ cached'.data = cached.read /\ cached'.late = cached.late
    BY <2>2 DEF NotCached
  <2>4. CountersInv'
    BY <2>1, <2>3 DEF DraftsInv, CountersInv, FreshData, FreshRead, RefetchesInvalid
  <2> QED
    BY <1>0, <1>3, <2>1, <2>4 DEF DraftsInv
<1>7. CASE DraftFails
  <2>1. UNCHANGED <<draft, saved, pubOps, editor>> /\ cached.fetch = "asked"
    BY <1>7 DEF DraftFails
  <2>2. cached'.fetch = "none" /\ cached'.loaded = cached.loaded /\ cached'.invalid = cached.invalid
    BY <1>1, <1>7 DEF DraftFails, CacheTypes
  <2>3. CountersInv'
    BY <2>1, <2>2 DEF DraftsInv, CountersInv, FreshData, FreshRead, RefetchesInvalid
  <2> QED
    BY <1>0, <1>3, <2>1, <2>3 DEF DraftsInv
<1>8. ASSUME NEW t \in {"editor", "versions", "other"}, ShowTab(t) PROVE DraftsInv'
  <2>1. UNCHANGED <<draft, saved>> /\ cached' \in {cached, Mounted(cached)}
    BY <1>8 DEF ShowTab
  <2>2. \A o \in PubOps : pubOps'[o].number = pubOps[o].number
    BY <1>0, <1>8, ShowTabKeeps
  <2>3. CountersInv'
    BY <1>0, <2>1, <2>2, MountedFresh DEF DraftsInv, CountersInv, FreshData, FreshRead, RefetchesInvalid
  <2>4. ~editor'.hydrated
    BY <1>8 DEF ShowTab, NewEditor, NoEditor
  <2> QED
    BY <1>0, <2>3, <2>4 DEF DraftsInv, StaleDraftsWereReopened
<1>9. CASE UserTypes
  <2>1. PICK e : Edited(e) /\ Types(e)
    BY <1>1, <1>9, UserTypesEdits
  <2>2. editor' = e /\ UNCHANGED <<cached, draft, saved, pubOps>>
    BY <2>1 DEF Types
  <2>3. /\ editor'.hydrated = editor.hydrated /\ editor'.base = editor.base /\ editor'.knew = editor.knew
        /\ editor'.overtaken = editor.overtaken
    BY <1>1, <2>1, <2>2, EditedKeepsTypes
  <2>4. StaleDraftsWereReopened'
    BY <2>3 DEF DraftsInv, StaleDraftsWereReopened
  <2> QED
    BY <1>0, <1>2, <2>2, <2>4 DEF DraftsInv, CountersInv
<1>10. ASSUME NEW o \in PubOps, UserStarts(o) PROVE DraftsInv'
  <2>1. PICK op \in EditorOpTypes : pubOps' = [pubOps EXCEPT ![o] = op] /\ op.number = 0
    BY <1>0, <1>10, UserStartsOp
  <2>2. \A r \in PubOps : pubOps'[r].number <= draft.number
    BY <1>0, <2>1 DEF DraftsInv, CountersInv
  <2>3. UNCHANGED <<cached, draft, saved, editor>>
    BY <1>0, <1>10, UserStartsOp
  <2> QED
    BY <1>0, <1>2, <1>3, <2>2, <2>3 DEF DraftsInv
<1>11. ASSUME NEW o \in PubOps, DraftSaved(o) PROVE DraftsInv'
  <2>1. draft'.number = draft.number + 1 /\ UNCHANGED <<cached, saved, editor>>
    BY <1>11 DEF DraftSaved
  <2>2. pubOps' = [pubOps EXCEPT ![o] = [pubOps[o] EXCEPT !.at = "written", !.number = draft.number + 1]]
    BY <1>11 DEF DraftSaved
  <2>3. [pubOps[o] EXCEPT !.at = "written", !.number = draft.number + 1].number = draft.number + 1
    BY <1>0 DEF EditorOpTypes
  <2>4. \A r \in PubOps : pubOps[r].number \in Nat
    BY <1>0 DEF EditorOpTypes
  <2>5. \A r \in PubOps : pubOps'[r].number <= draft.number + 1
    BY <1>0, <2>2, <2>3, <2>4 DEF DraftsInv, CountersInv
  <2> QED
    BY <1>0, <1>3, <2>1, <2>5 DEF DraftsInv, CountersInv, FreshData, FreshRead, RefetchesInvalid
<1>12. ASSUME NEW o \in PubOps, SaveSucceeds(o) PROVE DraftsInv'
  <2>1. Moves(o, "ended") /\ UNCHANGED <<draft, editor>> /\ cached' = Invalidated(cached)
    BY <1>12 DEF SaveSucceeds
  <2>2. \A r \in PubOps : pubOps'[r].number = pubOps[r].number
    BY <1>0, <2>1, MovesKeeps
  <2>3. saved' <= draft.number
    BY <1>12 DEF SaveSucceeds, DraftsInv, CountersInv
  <2>4. /\ cached'.invalid = TRUE
        /\ cached'.fetch = "asked" \/ (cached'.fetch = cached.fetch /\ cached'.late = (cached.fetch # "none"))
    BY <1>1, <2>1 DEF Invalidated, CacheTypes
  <2>5. FreshData(cached)' /\ FreshRead(cached)' /\ RefetchesInvalid(cached)'
    BY <2>4 DEF FreshData, FreshRead, RefetchesInvalid
  <2> QED
    BY <1>0, <1>3, <2>1, <2>2, <2>3, <2>5 DEF DraftsInv, CountersInv
<1>13. ASSUME NEW o \in PubOps,
              SourceStored(o) \/ Presigned(o) \/ Uploaded(o) \/ Registers(o) \/ OpFails(o)
       PROVE  DraftsInv'
  <2>1. PICK at \in {"stored", "presigned", "ended"} : Moves(o, at)
    BY <1>13 DEF SourceStored, Presigned, Uploaded, Registers, OpFails
  <2>2. UNCHANGED <<cached, draft, saved, editor>>
    BY <1>13 DEF SourceStored, Presigned, Uploaded, Registers, OpFails
  <2>3. \A r \in PubOps : pubOps'[r].number = pubOps[r].number
    BY <1>0, <2>1, MovesKeeps
  <2> QED
    BY <1>0, <1>2, <1>3, <2>2, <2>3 DEF DraftsInv, CountersInv
<1>14. CASE EditForm \/ UNCHANGED pubVars
  <2>1. UNCHANGED <<cached, draft, saved, editor, pubOps>>
    BY <1>14 DEF EditForm, pubVars
  <2> QED
    BY <1>0, <1>2, <1>3, <2>1 DEF DraftsInv, CountersInv
<1> QED
  BY <1>4, <1>5, <1>6, <1>7, <1>8, <1>9, <1>10, <1>11, <1>12, <1>13, <1>14 DEF PubNext, UserTypes, UserStarts

(* An editor is filled from a draft older than one this browser knew to be saved only while the fetch that
   brings a newer one is under way, or after a late answer. *)
THEOREM EditorsOpenWhatWasSaved == PubSpec => []StaleDraftsWereReopened
<1>1. DraftsInv => StaleDraftsWereReopened
  BY DEF DraftsInv
<1> QED
  BY <1>1, DraftsInvInitially, DraftsInvKept, PTL DEF PubSpec
-----------------------------------------------------------------------------
(* How far the numbers of drafts go, and what an editor shows.             *)

\* The saves that the server may have carried out: one for each number given to a draft, at least.
SourceWritten == {o \in PubOps : pubOps[o].kind = "save" /\ pubOps[o].at \notin {"unused", "sent"}}
CountInv ==
    /\ draft.number <= Cardinality(SourceWritten)
    /\ cached.data.number <= draft.number /\ cached.read.number <= draft.number
    /\ editor.base <= draft.number /\ editor.knew <= draft.number
\* The files of an editor that shows the draft: there is one, and one of them is active.
ShownInv ==
    /\ tab \in {"editor", "versions", "other"} /\ edits \in 0 .. MaxEdits
    /\ artifacts \in [Versions -> Sources]
    /\ editor.hydrated => editor.active \in editor.rev.paths
PubTypeInv == SourcesInv /\ DraftsInv /\ CountInv /\ ShownInv

LEMMA WrittenGrows ==
    /\ Cardinality(SourceWritten) \in Nat /\ Cardinality(SourceWritten') \in Nat /\ Cardinality(SourceWritten) <= Cardinality(PubOps)
    /\ Cardinality(PubOps) \in Nat
    /\ SourceWritten \subseteq SourceWritten' => Cardinality(SourceWritten) <= Cardinality(SourceWritten')
    /\ \A o \in PubOps : SourceWritten' = SourceWritten \cup {o} /\ o \notin SourceWritten
            => Cardinality(SourceWritten') = Cardinality(SourceWritten) + 1
<1>1. SourceWritten \subseteq PubOps /\ SourceWritten' \subseteq PubOps
  BY DEF SourceWritten
<1>2. IsFiniteSet(SourceWritten) /\ IsFiniteSet(SourceWritten') /\ Cardinality(SourceWritten) <= Cardinality(PubOps)
  BY <1>1, OpsAssumption, FS_Subset
<1>3. Cardinality(SourceWritten) \in Nat /\ Cardinality(SourceWritten') \in Nat /\ Cardinality(PubOps) \in Nat
  BY <1>2, OpsAssumption, FS_CardinalityType
<1>4. SourceWritten \subseteq SourceWritten' => Cardinality(SourceWritten) <= Cardinality(SourceWritten')
  BY <1>2, FS_Subset
<1>5. ASSUME NEW o \in PubOps, SourceWritten' = SourceWritten \cup {o}, o \notin SourceWritten
      PROVE  Cardinality(SourceWritten') = Cardinality(SourceWritten) + 1
  BY <1>2, <1>5, FS_AddElement
<1> QED
  BY <1>2, <1>3, <1>4, <1>5

LEMMA PubTypeInvInitially == PubInit => PubTypeInv
<1> SUFFICES ASSUME PubInit PROVE PubTypeInv
  OBVIOUS
<1>1. draft.number = 0 /\ cached.data.number = 0 /\ cached.read.number = 0 /\ editor.base = 0 /\ editor.knew = 0
  BY DEF PubInit, NoDraft, NotCached, NoEditor
<1>2. CountInv
  BY <1>1, WrittenGrows DEF CountInv
<1>3. ~editor.hydrated /\ tab = "other" /\ edits = 0
  BY DEF PubInit, NoEditor
<1>4. artifacts \in [Versions -> Sources]
  BY Constants1 DEF PubInit, Sources
<1>5. ShownInv
  BY <1>3, <1>4, EditsAssumption DEF ShownInv
<1> QED
  BY <1>2, <1>5, SourcesInvInitially, DraftsInvInitially DEF PubTypeInv

\* The numbers of a step that writes no draft.
LEMMA CountStays ==
    ASSUME CountInv, TabsTyped, UNCHANGED draft, SourceWritten \subseteq SourceWritten',
           cached'.data.number <= draft.number, cached'.read.number <= draft.number,
           editor'.base <= draft.number, editor'.knew <= draft.number
    PROVE  CountInv'
<1>1. draft.number \in Nat
  BY DEF TabsTyped, DraftTypes
<1>2. draft.number <= Cardinality(SourceWritten) /\ Cardinality(SourceWritten) <= Cardinality(SourceWritten')
  BY WrittenGrows DEF CountInv
<1>3. draft.number <= Cardinality(SourceWritten')
  BY <1>1, <1>2, WrittenGrows
<1> QED
  BY <1>3 DEF CountInv

LEMMA CountKept == PubTypeInv /\ [PubNext]_pubVars => CountInv'
<1> SUFFICES ASSUME PubTypeInv, [PubNext]_pubVars PROVE CountInv'
  OBVIOUS
<1>1. /\ TabsTyped /\ CountInv /\ saved <= draft.number /\ saved \in Nat /\ draft.number \in Nat
      /\ cached \in CacheTypes /\ editor \in EditorTypes /\ pubOps \in [PubOps -> EditorOpTypes]
  BY DEF PubTypeInv, DraftsInv, CountersInv, TabsTyped, DraftTypes
<1>2. /\ cached.data.number <= draft.number /\ cached.read.number <= draft.number
      /\ editor.base <= draft.number /\ editor.knew <= draft.number
  BY <1>1 DEF CountInv
<1>3. NoEditor.base = 0 /\ NoEditor.knew = 0 /\ NewEditor.base = 0 /\ NewEditor.knew = 0
  BY DEF NoEditor, NewEditor
<1>4. ASSUME NEW c \in CacheTypes
      PROVE  /\ Mounted(c).data = c.data /\ Mounted(c).read = c.read
             /\ Invalidated(c).data = c.data /\ Invalidated(c).read = c.read
  BY DEF Mounted, Invalidated, CacheTypes
<1>5. CASE Hydrate
  <2>1. UNCHANGED <<cached, draft, pubOps>> /\ editor'.base = cached.data.number /\ editor'.knew = saved
    BY <1>1, <1>5 DEF Hydrate, EditorTypes
  <2> QED
    BY <1>1, <1>2, <2>1, CountStays DEF SourceWritten
<1>6. CASE DraftRead
  <2>1. UNCHANGED <<draft, pubOps, editor>> /\ cached'.data = cached.data /\ cached'.read = draft
    BY <1>1, <1>6 DEF DraftRead, CacheTypes
  <2> QED
    BY <1>1, <1>2, <2>1, CountStays DEF SourceWritten
<1>7. CASE DraftArrives
  <2>1. UNCHANGED <<draft, pubOps, editor>> /\ cached'.data = cached.read /\ cached'.read = NoDraft
    BY <1>1, <1>7 DEF DraftArrives, NotCached
  <2>2. NoDraft.number = 0
    BY DEF NoDraft
  <2> QED
    BY <1>1, <1>2, <2>1, <2>2, CountStays DEF SourceWritten
<1>8. CASE DraftFails
  <2>1. UNCHANGED <<draft, pubOps, editor>> /\ cached'.data = cached.data /\ cached'.read = cached.read
    BY <1>1, <1>8 DEF DraftFails, CacheTypes
  <2> QED
    BY <1>1, <1>2, <2>1, CountStays DEF SourceWritten
<1>9. ASSUME NEW t \in {"editor", "versions", "other"}, ShowTab(t) PROVE CountInv'
  <2>1. UNCHANGED draft /\ cached' \in {cached, Mounted(cached)} /\ editor' \in {NoEditor, NewEditor}
    BY <1>9 DEF ShowTab
  <2>2. SourceWritten \subseteq SourceWritten'
    BY <1>1, <1>9, ShowTabKeeps DEF SourceWritten
  <2>3. cached'.data = cached.data /\ cached'.read = cached.read
    BY <1>1, <1>4, <2>1
  <2> QED
    BY <1>1, <1>2, <1>3, <2>1, <2>2, <2>3, CountStays
<1>10. CASE UserTypes
  <2>1. PICK e : Edited(e) /\ Types(e)
    BY <1>1, <1>10, UserTypesEdits
  <2>2. editor' = e /\ UNCHANGED <<cached, draft, pubOps>>
    BY <2>1 DEF Types
  <2>3. editor'.base = editor.base /\ editor'.knew = editor.knew
    BY <1>1, <2>1, <2>2, EditedKeepsTypes
  <2> QED
    BY <1>1, <1>2, <2>2, <2>3, CountStays DEF SourceWritten
<1>11. ASSUME NEW o \in PubOps, UserStarts(o) PROVE CountInv'
  <2>1. PICK op \in EditorOpTypes : pubOps' = [pubOps EXCEPT ![o] = op] /\ op.at = "sent"
    BY <1>1, <1>11, UserStartsOp
  <2>2. pubOps[o].at = "unused" /\ UNCHANGED <<cached, draft, editor>>
    BY <1>1, <1>11, UserStartsOp
  <2>3. SourceWritten \subseteq SourceWritten'
    BY <1>1, <2>1, <2>2 DEF SourceWritten
  <2> QED
    BY <1>1, <1>2, <2>2, <2>3, CountStays
<1>12. ASSUME NEW o \in PubOps, DraftSaved(o) PROVE CountInv'
  <2>1. /\ pubOps[o].kind = "save" /\ pubOps[o].at = "sent"
        /\ draft'.number = draft.number + 1 /\ UNCHANGED <<cached, editor>>
        /\ pubOps' = [pubOps EXCEPT ![o].at = "written", ![o].number = draft.number + 1]
    BY <1>12 DEF DraftSaved
  <2>2. pubOps'[o].kind = "save" /\ pubOps'[o].at = "written" /\ \A r \in PubOps \ {o} : pubOps'[r] = pubOps[r]
    BY <1>1, <2>1 DEF EditorOpTypes
  <2>3. SourceWritten' = SourceWritten \cup {o} /\ o \notin SourceWritten
    BY <2>1, <2>2 DEF SourceWritten
  <2>4. Cardinality(SourceWritten') = Cardinality(SourceWritten) + 1 /\ Cardinality(SourceWritten) \in Nat
    BY <2>3, WrittenGrows
  <2>5. draft'.number <= Cardinality(SourceWritten')
    BY <1>1, <2>1, <2>4 DEF CountInv
  <2>6. /\ cached.data.number \in Nat /\ cached.read.number \in Nat /\ editor.base \in Nat /\ editor.knew \in Nat
    BY <1>1 DEF CacheTypes, DraftTypes, EditorTypes
  <2>7. /\ cached.data.number <= draft.number + 1 /\ cached.read.number <= draft.number + 1
        /\ editor.base <= draft.number + 1 /\ editor.knew <= draft.number + 1
    BY <1>1, <1>2, <2>6
  <2> QED
    BY <2>1, <2>5, <2>7 DEF CountInv
<1>13. ASSUME NEW o \in PubOps, NEW at \in {"stored", "presigned", "ended"}, Moves(o, at),
              UNCHANGED <<draft, editor>>, cached' \in {cached, Invalidated(cached)}
       PROVE  CountInv'
  <2>1. SourceWritten \subseteq SourceWritten'
    BY <1>1, <1>13, MovesKeeps DEF SourceWritten
  <2>2. cached'.data = cached.data /\ cached'.read = cached.read
    BY <1>1, <1>4, <1>13
  <2> QED
    BY <1>1, <1>2, <1>13, <2>1, <2>2, CountStays
<1>14. ASSUME NEW o \in PubOps,
              SaveSucceeds(o) \/ SourceStored(o) \/ Presigned(o) \/ Uploaded(o) \/ Registers(o) \/ OpFails(o)
       PROVE  CountInv'
  BY <1>13, <1>14 DEF SaveSucceeds, SourceStored, Presigned, Uploaded, Registers, OpFails
<1>15. CASE EditForm \/ UNCHANGED pubVars
  <2>1. UNCHANGED <<cached, draft, editor, pubOps>>
    BY <1>15 DEF EditForm, pubVars
  <2> QED
    BY <1>1, <1>2, <2>1, CountStays DEF SourceWritten
<1> QED
  BY <1>5, <1>6, <1>7, <1>8, <1>9, <1>10, <1>11, <1>12, <1>14, <1>15 DEF PubNext, UserTypes, UserStarts

\* What the user edits leaves the editor with the file that is shown among those it has.
LEMMA ActiveStays ==
    ASSUME TabsTyped, ShownInv, editor.hydrated, UserTypes
    PROVE  editor'.active \in editor'.rev.paths
<1>1. editor \in EditorTypes /\ editor.rev \in Revisions /\ editor.active \in editor.rev.paths
  BY DEF TabsTyped, ShownInv, EditorTypes
<1>2. CASE updateActiveContent
  BY <1>1, <1>2 DEF updateActiveContent, Types, EditorTypes, Revisions
<1>3. CASE setActivePath
  BY <1>1, <1>3 DEF setActivePath, Types, EditorTypes
<1>4. CASE addFile
  BY <1>1, <1>4 DEF addFile, Types, EditorTypes, Revisions
<1>5. CASE removeFile
  <2>1. PICK p \in editor.rev.paths :
          \E a \in ActiveWithout(p) : editor' = [editor EXCEPT !.rev.paths = @ \ {p}, !.active = a]
    BY <1>5 DEF removeFile, Types
  <2>2. PICK a \in ActiveWithout(p) : editor' = [editor EXCEPT !.rev.paths = @ \ {p}, !.active = a]
    BY <2>1
  <2>3. editor'.active = a /\ editor'.rev.paths = editor.rev.paths \ {p}
    BY <1>1, <2>2 DEF EditorTypes, Revisions
  <2>4. a \in editor.rev.paths \ {p}
    BY <1>1, <2>2 DEF ActiveWithout
  <2> QED
    BY <2>3, <2>4
<1>6. CASE swapRuntime
  <2>1. editor.rev.paths # {}
    BY <1>1
  <2>2. PICK x \in Texts : editor' = [editor EXCEPT !.rev.text = x]
    BY <1>6, <2>1 DEF swapRuntime, Types
  <2> QED
    BY <1>1, <2>2 DEF EditorTypes, Revisions
<1>7. CASE editEnv \/ editVersion
  BY <1>1, <1>7 DEF editEnv, editVersion, Types, EditorTypes
<1> QED
  BY <1>2, <1>3, <1>4, <1>5, <1>6, <1>7 DEF UserTypes

LEMMA ShownKept == TabsTyped /\ ShownInv /\ [PubNext]_pubVars => ShownInv'
<1> SUFFICES ASSUME TabsTyped, ShownInv, [PubNext]_pubVars PROVE ShownInv'
  OBVIOUS
<1>1. /\ pubOps \in [PubOps -> EditorOpTypes] /\ editor \in EditorTypes
      /\ tab \in {"editor", "versions", "other"} /\ edits \in 0 .. MaxEdits /\ edits \in Nat /\ MaxEdits \in Nat
      /\ artifacts \in [Versions -> Sources] /\ (editor.hydrated => editor.active \in editor.rev.paths)
  BY EditsAssumption DEF TabsTyped, ShownInv
<1>2. ASSUME UNCHANGED <<tab, edits, editor>>, artifacts' \in [Versions -> Sources] PROVE ShownInv'
  BY <1>2 DEF ShownInv
<1>3. CASE Hydrate
  <2>1. UNCHANGED <<tab, edits, artifacts>>
    BY <1>3 DEF Hydrate
  <2>2. editor'.active \in editor'.rev.paths
    BY <1>1, <1>3 DEF Hydrate, EditorTypes
  <2> QED
    BY <2>1, <2>2 DEF ShownInv
<1>4. CASE DraftRead \/ DraftArrives \/ DraftFails \/ UNCHANGED pubVars
  BY <1>1, <1>2, <1>4 DEF DraftRead, DraftArrives, DraftFails, pubVars
<1>5. ASSUME NEW t \in {"editor", "versions", "other"}, ShowTab(t) PROVE ShownInv'
  <2>1. tab' = t /\ UNCHANGED <<edits, artifacts>>
    BY <1>5 DEF ShowTab
  <2>2. ~editor'.hydrated
    BY <1>5 DEF ShowTab, NewEditor, NoEditor
  <2> QED
    BY <1>1, <2>1, <2>2 DEF ShownInv
<1>6. CASE UserTypes
  <2>1. PICK e : Edited(e) /\ Types(e)
    BY <1>1, <1>6, UserTypesEdits
  <2>2. editor' = e /\ edits < MaxEdits /\ edits' = edits + 1 /\ UNCHANGED <<tab, artifacts>>
    BY <2>1 DEF Types
  <2>3. editor'.hydrated = editor.hydrated
    BY <1>1, <2>1, <2>2, EditedKeepsTypes
  <2>4. edits' \in 0 .. MaxEdits
    BY <1>1, <2>2
  <2>5. editor'.hydrated => editor'.active \in editor'.rev.paths
    BY <1>6, <2>3, ActiveStays
  <2> QED
    BY <1>1, <2>2, <2>4, <2>5 DEF ShownInv
<1>7. CASE EditForm
  <2>1. edits < MaxEdits /\ edits' = edits + 1 /\ UNCHANGED <<tab, artifacts, editor>>
    BY <1>7 DEF EditForm
  <2>2. edits' \in 0 .. MaxEdits
    BY <1>1, <2>1
  <2> QED
    BY <1>1, <2>1, <2>2 DEF ShownInv
<1>8. ASSUME NEW o \in PubOps, UserStarts(o) PROVE ShownInv'
  BY <1>1, <1>2, <1>8, UserStartsOp
<1>9. ASSUME NEW o \in PubOps, NEW source \in Sources, Puts(o, source), UNCHANGED <<tab, edits, editor>>
      PROVE  ShownInv'
  BY <1>1, <1>2, <1>9 DEF Puts
<1>10. ASSUME NEW o \in PubOps, SourceStored(o) \/ Uploaded(o) PROVE ShownInv'
  <2>1. pubOps[o].source \in Sources /\ Tarball \in Sources
    BY <1>1 DEF EditorOpTypes, Sources
  <2> QED
    BY <1>9, <1>10, <2>1 DEF SourceStored, Uploaded
<1>11. ASSUME NEW o \in PubOps, DraftSaved(o) \/ SaveSucceeds(o) \/ Presigned(o) \/ Registers(o) \/ OpFails(o)
       PROVE  ShownInv'
  BY <1>1, <1>2, <1>11 DEF DraftSaved, SaveSucceeds, Presigned, Registers, OpFails
<1> QED
  BY <1>3, <1>4, <1>5, <1>6, <1>7, <1>8, <1>10, <1>11 DEF PubNext, UserTypes, UserStarts

LEMMA PubTypeInvKept == PubTypeInv /\ [PubNext]_pubVars => PubTypeInv'
  BY SourcesInvKept, DraftsInvKept, CountKept, ShownKept DEF PubTypeInv, DraftsInv

LEMMA PubTypesFollow == PubTypeInv => PubTypeOK
<1> SUFFICES ASSUME PubTypeInv PROVE PubTypeOK
  OBVIOUS
<1>1. TabsTyped /\ CountInv /\ CountersInv /\ ShownInv
  BY DEF PubTypeInv, DraftsInv
<1> DEFINE N == Cardinality(PubOps)
<1>2. N \in Nat /\ draft.number \in Nat /\ draft.number <= N /\ saved \in Nat /\ saved <= draft.number
  <2>1. draft.number \in Nat /\ saved \in Nat /\ saved <= draft.number /\ draft.number <= Cardinality(SourceWritten)
    BY <1>1 DEF TabsTyped, DraftTypes, CountersInv, CountInv
  <2> QED
    BY <2>1, WrittenGrows
<1> HIDE DEF N
<1>3. \A n \in Nat : n <= draft.number => n \in 0 .. N
  BY <1>2
<1>4. /\ \A o \in PubOps : pubOps[o].number \in 0 .. N
      /\ editor.base \in 0 .. N /\ editor.knew \in 0 .. N
      /\ cached.data.number \in 0 .. N /\ cached.read.number \in 0 .. N /\ draft.number \in 0 .. N
  <2>1. /\ \A o \in PubOps : pubOps[o].number \in Nat
        /\ editor.base \in Nat /\ editor.knew \in Nat /\ cached.data.number \in Nat /\ cached.read.number \in Nat
    BY <1>1 DEF TabsTyped, EditorOpTypes, EditorTypes, CacheTypes, DraftTypes
  <2> QED
    BY <1>1, <1>2, <1>3, <2>1 DEF CountersInv, CountInv
<1>5. editor \in [rev : Revisions, active : FilePaths \cup {Blank}, version : Versions \cup {Blank}, env : BOOLEAN,
                  hydrated : BOOLEAN, base : 0 .. N, knew : 0 .. N, overtaken : BOOLEAN]
  BY <1>1, <1>4 DEF TabsTyped, EditorTypes
<1>6. /\ draft \in [number : 0 .. N, rev : Revisions] /\ cached.data \in [number : 0 .. N, rev : Revisions]
      /\ cached.read \in [number : 0 .. N, rev : Revisions]
  BY <1>1, <1>4 DEF TabsTyped, DraftTypes, CacheTypes
<1>7. cached \in [loaded : BOOLEAN, data : [number : 0 .. N, rev : Revisions], invalid : BOOLEAN, failed : BOOLEAN,
                  late : BOOLEAN, fetch : {"none", "asked", "read"}, read : [number : 0 .. N, rev : Revisions]]
  BY <1>1, <1>6 DEF TabsTyped, CacheTypes
<1>8. pubOps \in [PubOps -> [kind : {"none", "save", "publish", "upload", "register"},
                             at : {"unused", "sent", "stored", "presigned", "written", "ended"},
                             source : Sources, version : Versions \cup {Blank}, key : Versions \cup {Blank},
                             number : 0 .. N, mounted : BOOLEAN]]
  BY <1>1, <1>4 DEF TabsTyped, EditorOpTypes
<1>9. stored \in [Versions -> SUBSET Sources] /\ DOMAIN registered = Versions
  BY DEF PubTypeInv, SourcesInv
<1>10. saved \in 0 .. draft.number
  BY <1>2
<1> QED
  BY <1>1, <1>5, <1>6, <1>7, <1>8, <1>9, <1>10 DEF PubTypeOK, Drafts, N, TabsTyped, FormTypes, ShownInv

(* Type correctness of the Editor and Versions tabs: among other things, no draft has a number that no save has
   brought, and an editor that shows a draft has one of its files active, whatever is removed or added. *)
THEOREM PublishingTypeCorrect == PubSpec => []PubTypeOK
  BY PubTypeInvInitially, PubTypeInvKept, PubTypesFollow, PTL DEF PubSpec
=============================================================================
