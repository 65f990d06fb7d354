------------------------------- MODULE Uploads -------------------------------
(***************************************************************************)
(* The upload card of the storage page: it presigns an upload for the key  *)
(* in its input and sends the chosen file to where the answer says. The    *)
(* page comes and goes while its requests run.                             *)
(***************************************************************************)
EXTENDS Naturals, FiniteSets

CONSTANTS
    Keys,            \* texts that may stand in the key input
    BadKeys,         \* those that validateObjectKey refuses
    Files,           \* files that the user may choose
    NameOf,          \* their names
    MaxTyped,        \* bound: times the user types a key
    MaxUploads       \* bound: uploads under way
ASSUME NamesAssumption == BadKeys \subseteq Keys /\ NameOf \in [Files -> Keys]
ASSUME UploadsAssumption == {MaxTyped, MaxUploads} \subseteq Nat

VARIABLES
    upShown,         \* the page is mounted
    card,            \* the inputs of the card, and its presigned answer
    presign,         \* the presign request of the page that is mounted
    uploads,         \* the uploads under way
    keysTyped
upVars == <<upShown, card, presign, uploads, keysTyped>>

Nothing == "nothing"
\* The user has typed in the key input since a presign was asked for, "touched": the one whose answer the card
\* has, "retyped": the last one.
UploadCard == [key |-> Nothing, file |-> Nothing, presigned |-> Nothing, progress |-> FALSE, touched |-> FALSE,
               retyped |-> FALSE]
AllUploads == [target : Keys \ BadKeys, file : Files, key : Keys \cup {Nothing}, touched : BOOLEAN, mounted : BOOLEAN]

UpTypeOK ==
    /\ upShown \in BOOLEAN
    /\ card \in [key : Keys \cup {Nothing}, file : Files \cup {Nothing}, presigned : (Keys \ BadKeys) \cup {Nothing},
                 progress : BOOLEAN, touched : BOOLEAN, retyped : BOOLEAN]
    /\ presign \in Keys \cup {Nothing}
    /\ uploads \subseteq AllUploads
    /\ keysTyped \in 0 .. MaxTyped
    \* The button is disabled while the upload of the page runs.
    /\ Cardinality({u \in uploads : u.mounted}) = IF card.progress THEN 1 ELSE 0

-----------------------------------------------------------------------------
(* A page that goes forgets its card; an upload goes on, and the answer to a presign is dropped. *)
StorageBrowserPage ==
    /\ upShown' = ~upShown /\ card' = UploadCard /\ presign' = Nothing
    /\ uploads' = {[u EXCEPT !.mounted = FALSE] : u \in uploads}
    /\ UNCHANGED keysTyped

setKey ==
    /\ upShown /\ keysTyped < MaxTyped /\ keysTyped' = keysTyped + 1
    /\ \E k \in (Keys \cup {Nothing}) \ {card.key} : card' = [card EXCEPT !.key = k, !.touched = TRUE, !.retyped = TRUE]
    /\ UNCHANGED <<upShown, presign, uploads>>
\* Mutant: the name of the file replaces what was typed.
AlwaysNamed(f) == NameOf[f]
\* A file that is dropped or chosen names the key, unless one is there.
KeyWith(f) == IF card.key = Nothing THEN NameOf[f] ELSE card.key
onDrop ==
    /\ upShown
    /\ \E f \in Files : card' = [card EXCEPT !.file = f, !.key = KeyWith(f)]
    /\ UNCHANGED <<upShown, presign, uploads, keysTyped>>

validateObjectKey(k) == k \notin BadKeys
Presign ==
    /\ upShown /\ presign = Nothing /\ card.key # Nothing /\ validateObjectKey(card.key)
    /\ presign' = card.key /\ card' = [card EXCEPT !.retyped = FALSE]
    /\ UNCHANGED <<upShown, uploads, keysTyped>>
PresignSucceeds ==
    /\ presign # Nothing /\ presign' = Nothing
    /\ card' = [card EXCEPT !.presigned = presign, !.touched = card.retyped]
    /\ UNCHANGED <<upShown, uploads, keysTyped>>
\* The answer before it stays.
PresignFails ==
    /\ presign # Nothing /\ presign' = Nothing
    /\ UNCHANGED <<upShown, card, uploads, keysTyped>>

\* The presigned answer stays for the next file.
upload ==
    /\ upShown /\ card.presigned # Nothing /\ card.file # Nothing /\ ~card.progress /\ Cardinality(uploads) < MaxUploads
    /\ card' = [card EXCEPT !.progress = TRUE]
    /\ uploads' = uploads \cup {[target |-> card.presigned, file |-> card.file, key |-> card.key,
                                 touched |-> card.touched, mounted |-> TRUE]}
    /\ UNCHANGED <<upShown, presign, keysTyped>>
\* Stored, refused or lost.
UploadEnds ==
    /\ \E u \in uploads :
        /\ uploads' = uploads \ {u}
        /\ card' = IF u.mounted THEN [card EXCEPT !.progress = FALSE] ELSE card
    /\ UNCHANGED <<upShown, presign, keysTyped>>

-----------------------------------------------------------------------------
UpInit ==
    /\ upShown = FALSE /\ card = UploadCard /\ presign = Nothing /\ uploads = {}
    /\ keysTyped = 0
UpNext ==
    StorageBrowserPage \/ setKey \/ onDrop \/ Presign \/ PresignSucceeds \/ PresignFails \/ upload \/ UploadEnds
UpSpec == UpInit /\ [][UpNext]_upVars

-----------------------------------------------------------------------------
(* A file is sent to the key that stood in the input when its upload was started, unless the user has typed
   in that input since the presign that the upload uses was asked for. *)
UploadsGoWhereSigned == \A u \in uploads : u.target = u.key \/ u.touched
=============================================================================
