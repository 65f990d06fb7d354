------------------------------- MODULE Bucket --------------------------------
(***************************************************************************)
(* The objects card of the storage page: it lists the objects under a      *)
(* prefix and deletes those whose deletion the user confirms. Uploads add  *)
(* objects meanwhile. (A download changes nothing and is left out.)        *)
(***************************************************************************)
EXTENDS Naturals, FiniteSets

CONSTANTS
    ObjectKeys,      \* the keys of objects
    KeyPrefixes,        \* what may stand in the prefix input, besides the empty one
    Under,           \* the keys under each of them
    Addressed        \* the key that the path of a deletion names: the text before a "#" or a "?"
ASSUME KeysAssumption == Under \in [KeyPrefixes -> SUBSET ObjectKeys] /\ Addressed \in [ObjectKeys -> ObjectKeys]

VARIABLES
    stoShown,        \* the page is mounted
    prefix,          \* the prefix typed, and the one applied
    listing,         \* per prefix, the keys as fetched
    removals,        \* the deletions under way
    objects          \* server: the objects
stoVars == <<stoShown, prefix, listing, removals, objects>>

NewPrefix == [typed |-> "", applied |-> ""]
StoTypeOK ==
    /\ stoShown \in BOOLEAN
    /\ prefix \in [typed : KeyPrefixes \cup {""}, applied : KeyPrefixes \cup {""}]
    /\ listing \in [KeyPrefixes \cup {""} -> SUBSET ObjectKeys]
    /\ removals \subseteq [key : ObjectKeys, at : {"sent", "done"}, mounted : BOOLEAN]
    /\ Cardinality({r \in removals : r.mounted}) <= 1
    /\ objects \subseteq ObjectKeys

-----------------------------------------------------------------------------
ObjectsCard ==
    /\ stoShown' = ~stoShown /\ prefix' = NewPrefix
    /\ removals' = {[r EXCEPT !.mounted = FALSE] : r \in removals}
    /\ UNCHANGED <<listing, objects>>
setPrefix ==
    /\ stoShown
    /\ \E p \in (KeyPrefixes \cup {""}) \ {prefix.typed} : prefix' = [prefix EXCEPT !.typed = p]
    /\ UNCHANGED <<stoShown, listing, removals, objects>>
setAppliedPrefix ==
    /\ stoShown /\ prefix.applied # prefix.typed /\ prefix' = [prefix EXCEPT !.applied = prefix.typed]
    /\ UNCHANGED <<stoShown, listing, removals, objects>>
(* The list is fetched when its prefix is applied, after an upload and after a deletion; one fetched before
   is shown meanwhile. *)
Listed(p) == IF p = "" THEN objects ELSE objects \cap Under[p]
ObjectsFetched ==
    /\ stoShown /\ listing' = [listing EXCEPT ![prefix.applied] = Listed(prefix.applied)]
    /\ UNCHANGED <<stoShown, prefix, removals, objects>>
(* The user has confirmed that this object is to be deleted. *)
remove ==
    /\ stoShown /\ ~\E r \in removals : r.mounted
    /\ \E k \in listing[prefix.applied] : removals' = removals \cup {[key |-> k, at |-> "sent", mounted |-> TRUE]}
    /\ UNCHANGED <<stoShown, prefix, listing, objects>>
(* The server deletes what the path names, and an object that is not there as well. *)
Removes ==
    /\ \E r \in removals :
        /\ r.at = "sent" /\ objects' = objects \ {Addressed[r.key]}
        /\ removals' = (removals \ {r}) \cup {[r EXCEPT !.at = "done"]}
    /\ UNCHANGED <<stoShown, prefix, listing>>
RemovalEnds ==
    /\ \E r \in removals : removals' = removals \ {r}
    /\ UNCHANGED <<stoShown, prefix, listing, objects>>
ObjectStored ==
    /\ \E k \in ObjectKeys \ objects : objects' = objects \cup {k}
    /\ UNCHANGED <<stoShown, prefix, listing, removals>>

-----------------------------------------------------------------------------
StoInit ==
    /\ stoShown = FALSE /\ prefix = NewPrefix /\ listing = [p \in KeyPrefixes \cup {""} |-> {}]
    /\ removals = {} /\ objects = {}
StoNext ==
    \/ ObjectsCard \/ setPrefix \/ setAppliedPrefix \/ ObjectsFetched \/ remove \/ Removes \/ RemovalEnds
    \/ ObjectStored
StoSpec == StoInit /\ [][StoNext]_stoVars

-----------------------------------------------------------------------------
(* The object that goes is one whose deletion the user has confirmed. (It may be another.) *)
DeletesWhatWasConfirmed ==
    [][ \A k \in objects : k \notin objects' => \E r \in removals : r.key = k ]_stoVars
=============================================================================
