---------------------------- MODULE PagesProofs -----------------------------
(***************************************************************************)
(* Theorems about what pages of the web UI show and keep: the uploads of   *)
(* the Storage page (Uploads), the local list of versions (Recents), the   *)
(* paged lists (Lists), the cache of queries (ServerCache), the card that  *)
(* lists objects (Bucket), the builder of payloads (PayloadForm), and all  *)
(* the pages in one run (MC_Pages).                                        *)
(***************************************************************************)
EXTENDS MC_Pages, PublishingProofs, RequestsProofs, FiniteSetTheorems, SequenceTheorems,
    WellFoundedInduction, TLAPS

-----------------------------------------------------------------------------
(* Uploads: what was signed is what the input holds, or the user has typed *)
(* since.                                                                  *)

\* The uploads of the page that is mounted: their number, told without counting.
MountedUploads == {u \in uploads : u.mounted}
CardTypes ==
    [key : Keys \cup {Nothing}, file : Files \cup {Nothing}, presigned : (Keys \ BadKeys) \cup {Nothing},
     progress : BOOLEAN, touched : BOOLEAN, retyped : BOOLEAN]

\* What presign and uploads add to the types: a key under way to be signed was valid, and the button counts.
UpTypeInv ==
    /\ upShown \in BOOLEAN
    /\ card \in CardTypes
    /\ presign \in (Keys \ BadKeys) \cup {Nothing}
    /\ uploads \subseteq AllUploads
    /\ keysTyped \in 0 .. MaxTyped
    /\ card.progress => \E u : MountedUploads = {u}
    /\ ~card.progress => MountedUploads = {}

\* A presigned answer, and one that is awaited, belong to the key in the input unless the user has typed since.
CardIsSigned ==
    /\ card.presigned # Nothing => card.presigned = card.key \/ card.touched
    /\ presign # Nothing => presign = card.key \/ card.retyped

SignedInv == UpTypeInv /\ CardIsSigned /\ UploadsGoWhereSigned

\* The page is opened or left with its card, request and uploads forgotten.
LEMMA PageKeepsTypes ==
    ASSUME UpTypeInv, StorageBrowserPage PROVE UpTypeInv'
<1>1. UploadCard \in CardTypes
  BY DEF UploadCard, CardTypes, Nothing
<1>2. uploads' \subseteq AllUploads
  BY DEF UpTypeInv, StorageBrowserPage, AllUploads
<1>3. MountedUploads' = {}
  BY DEF UpTypeInv, StorageBrowserPage, AllUploads, MountedUploads
<1>4. ~card'.progress
  BY DEF StorageBrowserPage, UploadCard
<1> QED
  BY <1>1, <1>2, <1>3, <1>4 DEF UpTypeInv, StorageBrowserPage

\* A new upload is the only one of the page: the button was enabled.
LEMMA UploadKeepsTypes ==
    ASSUME UpTypeInv, upload PROVE UpTypeInv'
<1> DEFINE new == [target |-> card.presigned, file |-> card.file, key |-> card.key,
                   touched |-> card.touched, mounted |-> TRUE]
<1>1. new \in AllUploads
  BY DEF UpTypeInv, upload, AllUploads, CardTypes
<1>2. card' \in CardTypes /\ card'.progress
  BY DEF UpTypeInv, upload, CardTypes
<1>3. MountedUploads' = {new}
  <2>1. MountedUploads = {}
    BY DEF UpTypeInv, upload
  <2>2. uploads' = uploads \cup {new}
    BY DEF upload
  <2>3. new.mounted
    OBVIOUS
  <2> HIDE DEF new
  <2> QED
    BY <2>1, <2>2, <2>3 DEF MountedUploads
<1>4. uploads' \subseteq AllUploads
  BY <1>1 DEF upload, UpTypeInv
<1> HIDE DEF new
<1> QED
  BY <1>2, <1>3, <1>4 DEF UpTypeInv, upload

\* What ends is one of the uploads, of this page or of one that went.
LEMMA EndKeepsTypes ==
    ASSUME UpTypeInv, UploadEnds PROVE UpTypeInv'
<1>1. PICK u \in uploads : /\ uploads' = uploads \ {u}
                           /\ card' = IF u.mounted THEN [card EXCEPT !.progress = FALSE] ELSE card
  BY DEF UploadEnds
<1>2. MountedUploads' = MountedUploads \ {u}
  BY <1>1 DEF MountedUploads
<1>3. CASE u.mounted
  <2>1. u \in MountedUploads
    BY <1>3 DEF MountedUploads
  <2>2. MountedUploads' = {}
    BY <1>2, <2>1 DEF UpTypeInv
  <2>3. card' \in CardTypes /\ ~card'.progress
    BY <1>1, <1>3 DEF UpTypeInv, CardTypes
  <2> QED
    BY <1>1, <2>2, <2>3 DEF UpTypeInv, UploadEnds
<1>4. CASE ~u.mounted
  <2>1. MountedUploads' = MountedUploads
    BY <1>2, <1>4 DEF MountedUploads
  <2> QED
    BY <1>1, <1>4, <2>1 DEF UpTypeInv, UploadEnds
<1> QED
  BY <1>3, <1>4

LEMMA UpTypeInvInitially == UpInit => UpTypeInv
<1> SUFFICES ASSUME UpInit PROVE UpTypeInv
  OBVIOUS
<1>1. UploadCard \in CardTypes /\ ~UploadCard.progress
  BY DEF UploadCard, CardTypes, Nothing
<1>2. MountedUploads = {}
  BY DEF UpInit, MountedUploads
<1>3. keysTyped \in 0 .. MaxTyped
  BY UploadsAssumption DEF UpInit
<1> QED
  BY <1>1, <1>2, <1>3 DEF UpInit, UpTypeInv

LEMMA UpTypeInvKept == UpTypeInv /\ [UpNext]_upVars => UpTypeInv'
<1> SUFFICES ASSUME UpTypeInv, [UpNext]_upVars PROVE UpTypeInv'
  OBVIOUS
<1> USE DEF UpTypeInv
<1>1. CASE StorageBrowserPage
  BY <1>1, PageKeepsTypes
<1>2. CASE setKey
  <2>1. card' \in CardTypes /\ card'.progress = card.progress
    BY <1>2 DEF setKey, CardTypes
  <2>2. keysTyped' \in 0 .. MaxTyped
    BY <1>2, UploadsAssumption DEF setKey
  <2> QED
    BY <1>2, <2>1, <2>2 DEF setKey, MountedUploads
<1>3. CASE onDrop
  <2>1. PICK f \in Files : card' = [card EXCEPT !.file = f, !.key = KeyWith(f)]
    BY <1>3 DEF onDrop
  <2>2. KeyWith(f) \in Keys \cup {Nothing}
    BY NamesAssumption DEF KeyWith, CardTypes
  <2>3. card' \in CardTypes /\ card'.progress = card.progress
    BY <2>1, <2>2 DEF CardTypes
  <2> QED
    BY <1>3, <2>3 DEF onDrop, MountedUploads
<1>4. CASE Presign
  <2>1. presign' \in (Keys \ BadKeys) \cup {Nothing}
    BY <1>4 DEF Presign, validateObjectKey, CardTypes
  <2>2. card' \in CardTypes /\ card'.progress = card.progress
    BY <1>4 DEF Presign, CardTypes
  <2> QED
    BY <1>4, <2>1, <2>2 DEF Presign, MountedUploads
<1>5. CASE PresignSucceeds
  <2>1. card' \in CardTypes /\ card'.progress = card.progress
    BY <1>5 DEF PresignSucceeds, CardTypes
  <2> QED
    BY <1>5, <2>1 DEF PresignSucceeds, MountedUploads
<1>6. CASE PresignFails
  BY <1>6 DEF PresignFails, MountedUploads
<1>7. CASE upload
  BY <1>7, UploadKeepsTypes
<1>8. CASE UploadEnds
  BY <1>8, EndKeepsTypes
<1>9. CASE UNCHANGED upVars
  BY <1>9 DEF upVars, MountedUploads
<1> QED
  BY <1>1, <1>2, <1>3, <1>4, <1>5, <1>6, <1>7, <1>8, <1>9 DEF UpNext

LEMMA UpTypeInvImpliesTypes == UpTypeInv => UpTypeOK
<1> SUFFICES ASSUME UpTypeInv PROVE UpTypeOK
  OBVIOUS
<1>1. Cardinality(MountedUploads) = IF card.progress THEN 1 ELSE 0
  <2>1. CASE card.progress
    <3>1. PICK u : MountedUploads = {u}
      BY <2>1 DEF UpTypeInv
    <3> QED
      BY <2>1, <3>1, FS_Singleton
  <2>2. CASE ~card.progress
    BY <2>2, FS_EmptySet DEF UpTypeInv
  <2> QED
    BY <2>1, <2>2 DEF UpTypeInv
<1> QED
  BY <1>1 DEF UpTypeInv, UpTypeOK, CardTypes, MountedUploads

(* Type correctness of the upload card: a presigned answer is for a valid key, and the page has an upload under
   way exactly while its button is disabled. *)
THEOREM UploadsTypeCorrect == UpSpec => []UpTypeOK
<1>1. UpInit => UpTypeInv
  BY UpTypeInvInitially
<1>2. UpTypeInv /\ [UpNext]_upVars => UpTypeInv'
  BY UpTypeInvKept
<1>3. UpTypeInv => UpTypeOK
  BY UpTypeInvImpliesTypes
<1> QED
  BY <1>1, <1>2, <1>3, PTL DEF UpSpec

\* The card stays signed: a file names the key only of a card that has none, and no answer is for no key.
LEMMA CardStaysSigned ==
    ASSUME UpTypeInv, CardIsSigned, [UpNext]_upVars PROVE CardIsSigned'
<1> USE DEF CardIsSigned, UpTypeInv, CardTypes
<1>1. CASE StorageBrowserPage
  BY <1>1 DEF StorageBrowserPage, UploadCard
<1>2. CASE setKey
  BY <1>2 DEF setKey
<1>3. CASE onDrop
  BY <1>3 DEF onDrop, KeyWith
<1>4. CASE Presign \/ PresignFails
  BY <1>4 DEF Presign, PresignFails
<1>5. CASE PresignSucceeds
  BY <1>5 DEF PresignSucceeds
<1>6. CASE upload
  BY <1>6 DEF upload
<1>7. CASE UploadEnds
  BY <1>7 DEF UploadEnds
<1>8. CASE UNCHANGED upVars
  BY <1>8 DEF upVars
<1> QED
  BY <1>1, <1>2, <1>3, <1>4, <1>5, <1>6, <1>7, <1>8 DEF UpNext

LEMMA UploadsStaySigned ==
    ASSUME SignedInv, [UpNext]_upVars PROVE UploadsGoWhereSigned'
<1> USE DEF SignedInv, UploadsGoWhereSigned
<1>1. CASE StorageBrowserPage
  <2>1. \A u \in uploads : [u EXCEPT !.mounted = FALSE].target = u.target
                        /\ [u EXCEPT !.mounted = FALSE].key = u.key
                        /\ [u EXCEPT !.mounted = FALSE].touched = u.touched
    BY DEF UpTypeInv, AllUploads
  <2>2. uploads' = {[u EXCEPT !.mounted = FALSE] : u \in uploads}
    BY <1>1 DEF StorageBrowserPage
  <2>3. ASSUME NEW v \in uploads' PROVE v.target = v.key \/ v.touched
    <3>1. PICK u \in uploads : v = [u EXCEPT !.mounted = FALSE]
      BY <2>2
    <3>2. v.target = u.target /\ v.key = u.key /\ v.touched = u.touched
      BY <2>1, <3>1
    <3>3. u.target = u.key \/ u.touched
      OBVIOUS
    <3> QED
      BY <3>2, <3>3
  <2> QED
    BY <2>3
<1>2. CASE upload
  <2>1. \A u \in uploads' \ uploads : u.target = card.presigned /\ u.key = card.key /\ u.touched = card.touched
    BY <1>2 DEF upload
  <2>2. card.presigned = card.key \/ card.touched
    BY <1>2 DEF upload, CardIsSigned
  <2> QED
    BY <2>1, <2>2
<1>3. CASE UploadEnds
  BY <1>3 DEF UploadEnds
<1>4. CASE setKey \/ onDrop \/ Presign \/ PresignSucceeds \/ PresignFails \/ UNCHANGED upVars
  BY <1>4 DEF setKey, onDrop, Presign, PresignSucceeds, PresignFails, upVars
<1> QED
  BY <1>1, <1>2, <1>3, <1>4 DEF UpNext

(* UploadsGoWhereSigned: whatever answers come late and whatever page comes or goes, a file is sent to the key
   that stands in the input, unless the user has typed since that key was signed. *)
THEOREM UploadsFollowTheirKeys == UpSpec => []UploadsGoWhereSigned
<1>1. UpInit => SignedInv
  <2> SUFFICES ASSUME UpInit PROVE SignedInv
    OBVIOUS
  <2>1. CardIsSigned /\ UploadsGoWhereSigned
    BY DEF UpInit, CardIsSigned, UploadCard, UploadsGoWhereSigned
  <2> QED
    BY <2>1, UpTypeInvInitially DEF SignedInv
<1>2. SignedInv /\ [UpNext]_upVars => SignedInv'
  BY UpTypeInvKept, CardStaysSigned, UploadsStaySigned DEF SignedInv
<1>3. SignedInv => UploadsGoWhereSigned
  BY DEF SignedInv
<1> QED
  BY <1>1, <1>2, <1>3, PTL DEF UpSpec

-----------------------------------------------------------------------------
(* Recents: whichever window writes the list, it is the newest of what was *)
(* ever added, since no window reads a snapshot of an older text.          *)

Snapshot == [parsed : BOOLEAN, raw : Lists, items : Lists]
Tab == [shown : BOOLEAN, list : Lists, vid : Cached \cup {NoId}, status : {"unfetched", "queued", "complete", "failed"}]
IsFormer(list, all) == \E i \in 0 .. Len(all) : list = Newest(SubSeq(all, i + 1, Len(all)))

\* Every snapshot is that of its text, so that a list read again is the one in the storage.
RecentsInv ==
    /\ added \in Seq(Cached) /\ builds \in [Cached -> {"none", "queued", "complete", "failed"}]
    /\ \A v \in Cached : Contains(added, v) = (builds[v] # "none")
    /\ recents = Newest(added)
    /\ snapshots \in [Windows -> Snapshot]
    /\ \A w \in Windows : snapshots[w].parsed => snapshots[w].items = snapshots[w].raw
    /\ tabs \in [Windows -> Tab]
    /\ \A w \in Windows : IsFormer(tabs[w].list, added)

-----------------------------------------------------------------------------
LEMMA NewestIs ==
    ASSUME NEW S, NEW s \in Seq(S)
    PROVE  /\ Newest(s) \in Seq(S) /\ Newest(s) \in SeqOf(S, RecentLimit)
           /\ Len(Newest(s)) = IF Len(s) < RecentLimit THEN Len(s) ELSE RecentLimit
           /\ \A i \in 1 .. Len(Newest(s)) : Newest(s)[i] = s[i]
<1> DEFINE n == IF Len(s) < RecentLimit THEN Len(s) ELSE RecentLimit
<1>1. n \in 0 .. Len(s) /\ n <= RecentLimit /\ n \in Int
  BY LenProperties, LimitAssumption
<1>2. Newest(s) = SubSeq(s, 1, n)
  BY DEF Newest
<1>3. \A i \in 1 .. n : s[i] \in S
  BY <1>1, ElementOfSeq, LenProperties
<1> HIDE DEF n
<1>4. Newest(s) \in Seq(S) /\ Len(Newest(s)) = n /\ \A i \in 1 .. n : Newest(s)[i] = s[i]
  <2>1. /\ SubSeq(s, 1, n) \in Seq(S) /\ Len(SubSeq(s, 1, n)) = IF 1 <= n THEN n - 1 + 1 ELSE 0
        /\ \A i \in 1 .. n - 1 + 1 : SubSeq(s, 1, n)[i] = s[1 + i - 1]
    BY <1>1, <1>3, SubSeqProperties
  <2>2. n - 1 + 1 = n /\ \A i \in 1 .. n : 1 + i - 1 = i
    BY <1>1
  <2>3. (IF 1 <= n THEN n ELSE 0) = n
    BY <1>1
  <2> QED
    BY <1>2, <2>1, <2>2, <2>3
<1>5. Newest(s) \in [1 .. n -> S] /\ n \in 0 .. RecentLimit
  BY <1>1, <1>4, LenProperties, LimitAssumption
<1> QED
  BY <1>4, <1>5 DEF SeqOf, n

\* What follows the first i elements.
LEMMA Suffix ==
    ASSUME NEW S, NEW s \in Seq(S), NEW i \in 0 .. Len(s)
    PROVE  LET b == SubSeq(s, i + 1, Len(s))
           IN  b \in Seq(S) /\ Len(b) = Len(s) - i /\ \A j \in 1 .. Len(s) - i : b[j] = s[i + j]
<1> DEFINE b == SubSeq(s, i + 1, Len(s))  n == Len(s) - i
<1>1. Len(s) \in Nat /\ i \in Nat /\ n \in Nat /\ Len(s) - (i + 1) + 1 = n
  BY LenProperties
<1>2. \A j \in i + 1 .. Len(s) : s[j] \in S
  <2>1. \A j \in i + 1 .. Len(s) : j \in 1 .. Len(s)
    BY <1>1
  <2> QED
    BY <2>1, ElementOfSeq
<1>3. /\ b \in Seq(S) /\ Len(b) = IF i + 1 <= Len(s) THEN Len(s) - (i + 1) + 1 ELSE 0
      /\ \A j \in 1 .. Len(s) - (i + 1) + 1 : b[j] = s[i + 1 + j - 1]
  <2>1. i + 1 \in Int /\ Len(s) \in Int
    BY <1>1
  <2> QED
    BY <1>2, <2>1, SubSeqProperties
<1>4. \A j \in 1 .. n : i + 1 + j - 1 = i + j
  BY <1>1
<1> HIDE DEF b
<1>5. Len(b) = n
  <2>1. i + 1 <= Len(s) \/ i = Len(s)
    <3>1. \A l \in Nat, k \in Nat : k \in 0 .. l => k + 1 <= l \/ k = l
      OBVIOUS
    <3> QED
      BY <1>1, <3>1
  <2>2. CASE i + 1 <= Len(s)
    BY <1>1, <1>3, <2>2
  <2>3. CASE i = Len(s)
    <3>1. n = 0 /\ ~(i + 1 <= Len(s))
      BY <1>1, <2>3
    <3> QED
      BY <1>3, <3>1
  <2> QED
    BY <2>1, <2>2, <2>3
<1>6. \A j \in 1 .. n : b[j] = s[i + j]
  BY <1>1, <1>3, <1>4
<1> QED
  BY <1>3, <1>5, <1>6 DEF b

LEMMA FormerNow ==
    ASSUME NEW s \in Seq(Cached)
    PROVE  IsFormer(Newest(s), s) /\ IsFormer(<<>>, s)
<1>1. Len(s) \in Nat /\ 0 \in 0 .. Len(s) /\ Len(s) \in 0 .. Len(s) /\ SubSeq(s, 0 + 1, Len(s)) = s
  BY LenProperties, SubSeqFull
<1>2. SubSeq(s, Len(s) + 1, Len(s)) = <<>>
  BY <1>1, SubSeqEmpty
<1>3. Newest(<<>>) = <<>>
  <2> DEFINE e == <<>>
  <2>1. e \in Seq(Cached) /\ Len(e) = 0
    BY EmptySeq
  <2> HIDE DEF e
  <2>2. Newest(e) \in Seq(Cached) /\ Len(Newest(e)) = IF Len(e) < RecentLimit THEN Len(e) ELSE RecentLimit
    BY <2>1, NewestIs
  <2>3. Newest(e) \in Seq(Cached) /\ Len(Newest(e)) = 0
    BY <2>1, <2>2, LimitAssumption
  <2> QED
    BY <2>3, EmptySeq DEF e
<1> QED
  BY <1>1, <1>2, <1>3 DEF IsFormer

LEMMA Former ==
    ASSUME NEW s \in Seq(Cached), NEW v \in Cached
    PROVE  /\ <<v>> \o s \in Seq(Cached) /\ Len(<<v>> \o s) = Len(s) + 1
           /\ \A i \in 1 .. Len(s) + 1 : (<<v>> \o s)[i] = IF i = 1 THEN v ELSE s[i - 1]
           /\ \A list : IsFormer(list, s) => IsFormer(list, <<v>> \o s)
<1> DEFINE more == <<v>> \o s
<1>1. Len(s) \in Nat /\ <<v>> \in Seq(Cached) /\ Len(<<v>>) = 1 /\ <<v>>[1] = v
  BY LenProperties
<1>2. more \in Seq(Cached) /\ Len(more) = Len(s) + 1 /\ \A i \in 1 .. Len(s) + 1 : more[i] = IF i = 1 THEN v ELSE s[i - 1]
  BY <1>1, ConcatProperties
<1> HIDE DEF more
<1>3. ASSUME NEW i \in 0 .. Len(s) PROVE i + 1 \in 0 .. Len(more) /\ SubSeq(more, (i + 1) + 1, Len(more)) = SubSeq(s, i + 1, Len(s))
  <2> DEFINE a == SubSeq(more, (i + 1) + 1, Len(more))  b == SubSeq(s, i + 1, Len(s))  k == i + 1
  <2>1. b \in Seq(Cached) /\ Len(b) = Len(s) - i /\ \A j \in 1 .. Len(s) - i : b[j] = s[i + j]
    BY Suffix
  <2>2. k \in 0 .. Len(more)
    BY <1>1, <1>2
  <2>3. a \in Seq(Cached) /\ Len(a) = Len(more) - k /\ \A j \in 1 .. Len(more) - k : a[j] = more[k + j]
    BY <1>2, <2>2, Suffix
  <2> HIDE DEF a, b
  <2>4. Len(a) = Len(b)
    BY <1>1, <1>2, <2>1, <2>3
  <2>5. ASSUME NEW j \in 1 .. Len(s) - i PROVE a[j] = b[j]
    <3>1. k + j \in 1 .. Len(s) + 1 /\ k + j # 1 /\ k + j - 1 = i + j /\ j \in 1 .. Len(more) - k
      BY <1>1, <1>2
    <3>2. a[j] = more[k + j] /\ more[k + j] = s[k + j - 1] /\ b[j] = s[i + j]
      BY <1>2, <2>1, <2>3, <3>1
    <3> QED
      BY <3>1, <3>2
  <2>6. a = b
    BY <2>1, <2>3, <2>4, <2>5, SeqEqual
  <2> QED
    BY <2>2, <2>6 DEF a, b
<1>4. \A list : IsFormer(list, s) => IsFormer(list, more)
  BY <1>3 DEF IsFormer
<1> QED
  BY <1>2, <1>4 DEF more

\* The newest are found from the newest.
LEMMA NewestOfMore ==
    ASSUME NEW s \in Seq(Cached), NEW v \in Cached
    PROVE  Newest(<<v>> \o Newest(s)) = Newest(<<v>> \o s)
<1> DEFINE a == Newest(<<v>> \o Newest(s))  b == Newest(<<v>> \o s)
<1>1. /\ Newest(s) \in Seq(Cached) /\ Len(s) \in Nat /\ Len(Newest(s)) = (IF Len(s) < RecentLimit THEN Len(s) ELSE RecentLimit)
      /\ \A i \in 1 .. Len(Newest(s)) : Newest(s)[i] = s[i]
  BY NewestIs, LenProperties
<1>2. /\ <<v>> \o s \in Seq(Cached) /\ Len(<<v>> \o s) = Len(s) + 1
      /\ \A i \in 1 .. Len(s) + 1 : (<<v>> \o s)[i] = IF i = 1 THEN v ELSE s[i - 1]
  BY Former
<1>3. /\ <<v>> \o Newest(s) \in Seq(Cached) /\ Len(<<v>> \o Newest(s)) = Len(Newest(s)) + 1
      /\ \A i \in 1 .. Len(Newest(s)) + 1 : (<<v>> \o Newest(s))[i] = IF i = 1 THEN v ELSE Newest(s)[i - 1]
  BY <1>1, Former
<1>4. b \in Seq(Cached) /\ Len(b) = (IF Len(s) + 1 < RecentLimit THEN Len(s) + 1 ELSE RecentLimit)
      /\ \A i \in 1 .. Len(b) : b[i] = (<<v>> \o s)[i]
  BY <1>2, NewestIs
<1>5. a \in Seq(Cached) /\ Len(a) = (IF Len(Newest(s)) + 1 < RecentLimit THEN Len(Newest(s)) + 1 ELSE RecentLimit)
      /\ \A i \in 1 .. Len(a) : a[i] = (<<v>> \o Newest(s))[i]
  BY <1>3, NewestIs
<1> HIDE DEF a, b
<1>6. Len(a) = Len(b) /\ Len(b) \in Nat
  BY <1>1, <1>4, <1>5, LimitAssumption
<1>7. ASSUME NEW i \in 1 .. Len(b) PROVE a[i] = b[i]
  <2>1. i \in 1 .. Len(s) + 1 /\ i \in 1 .. Len(Newest(s)) + 1 /\ (i # 1 => i - 1 \in 1 .. Len(Newest(s)))
    BY <1>1, <1>4, LimitAssumption
  <2> QED
    BY <1>1, <1>2, <1>3, <1>4, <1>5, <1>6, <2>1
<1>8. a = b
  BY <1>4, <1>5, <1>6, <1>7, SeqEqual
<1> QED
  BY <1>8 DEF a, b

LEMMA EmptyIsAList == <<>> \in Lists
<1>1. <<>> \in [1 .. 0 -> Cached] /\ 0 \in 0 .. RecentLimit
  BY LimitAssumption
<1> QED
  BY <1>1 DEF Lists, SeqOf

\* A tab keeps its type when it renders a list, and shows that list.
LEMMA TabsRender ==
    ASSUME NEW t \in Tab, NEW list \in Lists, NEW v \in Cached \cup {NoId}
    PROVE  /\ Rerenders(t, list) \in Tab /\ Rerenders(t, list).list = list
           /\ Follow(t, v) \in Tab
           /\ NoTab \in Tab /\ [NoTab EXCEPT !.shown = TRUE] \in Tab /\ NoTab.list = <<>>
<1>1. ASSUME NEW u \in Tab, NEW x \in Cached \cup {NoId} PROVE Follow(u, x) \in Tab
  BY DEF Follow, Tab
<1>2. Chosen(t.vid, list) \in Cached \cup {NoId}
  <2>1. t.vid \in Cached \cup {NoId}
    BY DEF Tab
  <2>2. list # <<>> => Head(list) \in Cached
    <3>1. PICK m \in 0 .. RecentLimit : list \in [1 .. m -> Cached]
      BY DEF Lists, SeqOf
    <3>2. list \in Seq(Cached)
      BY <3>1, LimitAssumption
    <3> QED
      BY <3>2, HeadTailProperties
  <2> QED
    BY <2>1, <2>2 DEF Chosen
<1>3. Rerenders(t, list) \in Tab /\ Rerenders(t, list).list = list
  <2> DEFINE f == Follow(t, Chosen(t.vid, list))
  <2>1. f \in Tab
    BY <1>1, <1>2
  <2>2. Rerenders(t, list) = [f EXCEPT !.list = list]
    BY DEF Rerenders
  <2> HIDE DEF f
  <2> QED
    BY <2>1, <2>2 DEF Tab
<1>5. NoTab \in Tab /\ [NoTab EXCEPT !.shown = TRUE] \in Tab /\ NoTab.list = <<>>
  BY EmptyIsAList DEF NoTab, Tab
<1> QED
  BY <1>1, <1>3, <1>5

-----------------------------------------------------------------------------
\* An answered registration puts its version first.
LEMMA Adding ==
    ASSUME RecentsInv, NEW w \in Windows, NEW v \in Cached, builds[v] = "none"
    PROVE  addCached(w, v) = Newest(<<v>> \o added)
<1>1. getCached(w) = recents /\ recents = Newest(added) /\ added \in Seq(Cached)
  BY DEF RecentsInv, getCached
<1>2. ~Contains(added, v)
  BY DEF RecentsInv
<1>3. ~\E i \in 1 .. Len(recents) : recents[i] = v
  <2>1. /\ Len(recents) = IF Len(added) < RecentLimit THEN Len(added) ELSE RecentLimit
        /\ \A i \in 1 .. Len(recents) : recents[i] = added[i]
    BY <1>1, NewestIs
  <2>2. \A i \in 1 .. Len(recents) : i \in 1 .. Len(added)
    BY <1>1, <2>1, LenProperties, LimitAssumption
  <2> QED
    BY <1>2, <2>1, <2>2 DEF Contains
<1>4. RemoveFirst(recents, v) = recents
  BY <1>3 DEF RemoveFirst
<1>5. addCached(w, v) = Newest(<<v>> \o Newest(added))
  BY <1>1, <1>4 DEF addCached, Newest
<1> QED
  BY <1>1, <1>5, NewestOfMore

LEMMA RecentsKept == ASSUME RecentsInv, [RecNext]_recentVars PROVE RecentsInv'
<1>1. /\ \A w \in Windows : getCached(w) = recents
      /\ recents \in Lists /\ IsFormer(recents, added) /\ added \in Seq(Cached)
      /\ snapshots \in [Windows -> Snapshot] /\ tabs \in [Windows -> Tab]
      /\ \A w \in Windows : (snapshots[w].parsed => snapshots[w].items = snapshots[w].raw) /\ IsFormer(tabs[w].list, added)
  BY NewestIs, FormerNow DEF RecentsInv, getCached, Lists
<1>2. \A w \in Windows : Parsed(w) \in Snapshot /\ Parsed(w).items = Parsed(w).raw
  BY <1>1 DEF Parsed, Snapshot
\* The steps of a window that only reads the list.
<1>3. ASSUME NEW w \in Windows, UNCHANGED <<recents, added, builds>>,
             NEW t \in Tab, tabs' = [tabs EXCEPT ![w] = t], IsFormer(t.list, added),
             snapshots' = snapshots \/ snapshots' = [snapshots EXCEPT ![w] = Parsed(w)]
      PROVE  RecentsInv'
  <2>1. tabs' \in [Windows -> Tab] /\ \A u \in Windows : IsFormer(tabs'[u].list, added)
    BY <1>1, <1>3
  <2>2. snapshots' \in [Windows -> Snapshot] /\ \A u \in Windows : snapshots'[u].parsed => snapshots'[u].items = snapshots'[u].raw
    BY <1>1, <1>2, <1>3
  <2>3. recents' = recents /\ added' = added /\ builds' = builds
    BY <1>3
  <2> QED
    BY <2>1, <2>2, <2>3 DEF RecentsInv
<1>4. ASSUME NEW w \in Windows, NEW t \in Tab PROVE Rerenders(t, getCached(w)) \in Tab /\ IsFormer(Rerenders(t, getCached(w)).list, added)
  <2>1. Rerenders(t, recents) \in Tab /\ Rerenders(t, recents).list = recents
    BY <1>1, TabsRender DEF Tab
  <2> QED
    BY <1>1, <2>1
<1>5. CASE BuildEnds
  <2>1. PICK v \in Cached, b \in {"complete", "failed"} : builds[v] = "queued" /\ builds' = [builds EXCEPT ![v] = b]
    BY <1>5 DEF BuildEnds
  <2>2. UNCHANGED <<recents, snapshots, tabs, added>>
    BY <1>5 DEF BuildEnds
  <2>3. builds' \in [Cached -> {"none", "queued", "complete", "failed"}]
        /\ \A u \in Cached : (builds'[u] # "none") = (builds[u] # "none")
    BY <2>1 DEF RecentsInv
  <2> QED
    BY <2>2, <2>3 DEF RecentsInv
<1>6. ASSUME NEW w \in Windows, Registered(w) PROVE RecentsInv'
  <2>1. PICK v \in Cached : /\ builds[v] = "none" /\ builds' = [builds EXCEPT ![v] = "queued"]
                            /\ recents' = addCached(w, v) /\ added' = <<v>> \o added
    BY <1>6 DEF Registered
  <2>2. recents' = Newest(added') /\ added' \in Seq(Cached) /\ recents' \in Lists /\ IsFormer(recents', added')
    <3>1. <<v>> \o added \in Seq(Cached)
      BY <1>1, Former
    <3>2. IsFormer(Newest(<<v>> \o added), <<v>> \o added)
      BY <3>1, FormerNow
    <3> QED
      BY <2>1, <3>1, <3>2, Adding, NewestIs DEF Lists
  <2>3. \A u \in Windows : IsFormer(tabs[u].list, added')
    BY <1>1, <2>1, Former
  <2>4. builds' \in [Cached -> {"none", "queued", "complete", "failed"}]
    BY <2>1 DEF RecentsInv
  <2>5. \A u \in Cached : Contains(added', u) = (builds'[u] # "none")
    <3>1. /\ Len(added') = Len(added) + 1 /\ Len(added) \in Nat
          /\ \A i \in 1 .. Len(added) + 1 : added'[i] = IF i = 1 THEN v ELSE added[i - 1]
      BY <1>1, <2>1, Former, LenProperties
    <3>2. ASSUME NEW u \in Cached PROVE (\E i \in 1 .. Len(added') : added'[i] = u) <=> u = v \/ \E i \in 1 .. Len(added) : added[i] = u
      <4>1. u = v => 1 \in 1 .. Len(added') /\ added'[1] = u
        BY <3>1
      <4>2. ASSUME NEW i \in 1 .. Len(added), added[i] = u PROVE i + 1 \in 1 .. Len(added') /\ added'[i + 1] = u
        BY <3>1, <4>2
      <4>3. ASSUME NEW i \in 1 .. Len(added'), added'[i] = u, u # v PROVE i - 1 \in 1 .. Len(added) /\ added[i - 1] = u
        BY <3>1, <4>3
      <4> QED
        BY <4>1, <4>2, <4>3
    <3>3. \A u \in Cached : (\E i \in 1 .. Len(added) : added[i] = u) <=> builds[u] # "none"
      BY DEF RecentsInv, Contains
    <3>4. \A u \in Cached : builds'[u] # "none" <=> u = v \/ builds[u] # "none"
      BY <2>1 DEF RecentsInv
    <3> QED
      BY <3>2, <3>3, <3>4 DEF Contains
  <2>6. CASE tabs[w].shown
    <3>1. snapshots' = [snapshots EXCEPT ![w] = [parsed |-> TRUE, raw |-> recents', items |-> recents']]
          /\ tabs' = [tabs EXCEPT ![w] = Rerenders(tabs[w], recents')]
      BY <1>6, <2>6 DEF Registered
    <3>2. tabs[w] \in Tab /\ NoId \in Cached \cup {NoId}
      BY <1>1
    <3>3. Rerenders(tabs[w], recents') \in Tab /\ Rerenders(tabs[w], recents').list = recents'
      BY <2>2, <3>2, TabsRender
    <3>4. tabs' \in [Windows -> Tab] /\ \A u \in Windows : IsFormer(tabs'[u].list, added')
      BY <1>1, <2>2, <2>3, <3>1, <3>3
    <3>5. snapshots' \in [Windows -> Snapshot] /\ \A u \in Windows : snapshots'[u].parsed => snapshots'[u].items = snapshots'[u].raw
      BY <1>1, <2>2, <3>1 DEF Snapshot
    <3> QED
      BY <2>2, <2>4, <2>5, <3>4, <3>5 DEF RecentsInv
  <2>7. CASE ~tabs[w].shown
    <3>1. snapshots' = [snapshots EXCEPT ![w] = NotParsed] /\ tabs' = tabs
      BY <1>6, <2>7 DEF Registered
    <3>2. NotParsed \in Snapshot /\ NotParsed.items = NotParsed.raw
      <4>1. <<>> \in Lists
        BY EmptyIsAList
      <4> QED
        BY <4>1 DEF NotParsed, Snapshot
    <3>3. snapshots' \in [Windows -> Snapshot] /\ \A u \in Windows : snapshots'[u].parsed => snapshots'[u].items = snapshots'[u].raw
      BY <1>1, <3>1, <3>2
    <3> QED
      BY <1>1, <2>2, <2>3, <2>4, <2>5, <3>1, <3>3 DEF RecentsInv
  <2> QED
    BY <2>6, <2>7
<1>7. ASSUME NEW w \in Windows, BuildsTab(w) PROVE RecentsInv'
  <2> DEFINE t == IF tabs[w].shown THEN NoTab ELSE Rerenders([NoTab EXCEPT !.shown = TRUE], getCached(w))
  <2>1. NoTab \in Tab /\ [NoTab EXCEPT !.shown = TRUE] \in Tab /\ NoTab.list = <<>>
    BY <1>1, TabsRender
  <2>2. t \in Tab /\ IsFormer(t.list, added)
    BY <1>1, <1>4, <2>1, FormerNow
  <2>3. UNCHANGED <<recents, added, builds>> /\ tabs' = [tabs EXCEPT ![w] = t]
        /\ (snapshots' = snapshots \/ snapshots' = [snapshots EXCEPT ![w] = Parsed(w)])
    BY <1>1, <1>7 DEF BuildsTab
  <2> HIDE DEF t
  <2> QED
    BY <1>3, <2>2, <2>3
<1>8. ASSUME NEW w \in Windows, setVid(w) PROVE RecentsInv'
  <2>1. PICK v \in Cached \cup {NoId} : tabs' = [tabs EXCEPT ![w] = Rerenders(Follow(tabs[w], v), getCached(w))]
    BY <1>8 DEF setVid
  <2>2. tabs[w] \in Tab
    BY <1>1
  <2>3. Follow(tabs[w], v) \in Tab
    BY <1>1, <2>2, TabsRender
  <2>4. UNCHANGED <<recents, added, builds>> /\ snapshots' = [snapshots EXCEPT ![w] = Parsed(w)]
    BY <1>8 DEF setVid
  <2> QED
    BY <1>3, <1>4, <2>1, <2>3, <2>4
<1>9. ASSUME NEW w \in Windows, PollBuild(w) PROVE RecentsInv'
  <2> DEFINE r == Rerenders(tabs[w], getCached(w))  t == [r EXCEPT !.status = builds[tabs[w].vid]]
  <2>1. r \in Tab /\ IsFormer(r.list, added)
    BY <1>1, <1>4
  <2>2. tabs' = [tabs EXCEPT ![w] = t] /\ UNCHANGED <<recents, added, builds>> /\ snapshots' = [snapshots EXCEPT ![w] = Parsed(w)]
    BY <1>1, <1>9 DEF PollBuild
  <2>3. builds[tabs[w].vid] \in {"queued", "complete", "failed"}
    <3>1. tabs[w].vid \in Cached
      BY <1>1, <1>9 DEF PollBuild, Tab
    <3> QED
      BY <1>9, <3>1 DEF PollBuild, RecentsInv
  <2> HIDE DEF r
  <2>4. t \in Tab /\ t.list = r.list
    BY <2>1, <2>3 DEF Tab
  <2> HIDE DEF t
  <2> QED
    BY <1>3, <2>1, <2>2, <2>4
<1>10. CASE UNCHANGED recentVars
  BY <1>10 DEF recentVars, RecentsInv
<1> QED
  BY <1>5, <1>6, <1>7, <1>8, <1>9, <1>10 DEF RecNext

LEMMA RecentsInvHolds == RecSpec => []RecentsInv
<1>1. RecInit => RecentsInv
  <2> SUFFICES ASSUME RecInit PROVE RecentsInv
    OBVIOUS
  <2> DEFINE e == <<>>
  <2>1. added = e /\ recents = e /\ builds = [v \in Cached |-> "none"]
        /\ snapshots = [w \in Windows |-> NotParsed] /\ tabs = [w \in Windows |-> NoTab]
    BY DEF RecInit
  <2>2. e \in Seq(Cached) /\ Len(e) = 0 /\ e \in Lists
    BY EmptySeq, EmptyIsAList
  <2>3. NotParsed \in Snapshot /\ NotParsed.items = NotParsed.raw
    BY <2>2 DEF NotParsed, Snapshot
  <2>4. NoTab \in Tab /\ NoTab.list = e
    BY <2>2 DEF NoTab, Tab
  <2> HIDE DEF e
  <2>5. Newest(e) = e
    <3>1. Newest(e) \in Seq(Cached) /\ Len(Newest(e)) = IF Len(e) < RecentLimit THEN Len(e) ELSE RecentLimit
      BY <2>2, NewestIs
    <3>2. Len(Newest(e)) = 0
      BY <2>2, <3>1, LimitAssumption
    <3> QED
      BY <3>1, <3>2, EmptySeq DEF e
  <2>6. IsFormer(e, e)
    BY <2>2, <2>5, FormerNow
  <2>7. \A v \in Cached : Contains(added, v) = (builds[v] # "none")
    <3>1. \A i \in 1 .. Len(added) : FALSE
      BY <2>1, <2>2
    <3>2. \A v \in Cached : builds[v] = "none"
      BY <2>1
    <3> QED
      BY <3>1, <3>2 DEF Contains
  <2>8. snapshots \in [Windows -> Snapshot] /\ \A w \in Windows : snapshots[w].parsed => snapshots[w].items = snapshots[w].raw
    BY <2>1, <2>3
  <2>9. tabs \in [Windows -> Tab] /\ \A w \in Windows : IsFormer(tabs[w].list, added)
    BY <2>1, <2>4, <2>6
  <2>10. builds \in [Cached -> {"none", "queued", "complete", "failed"}]
    BY <2>1
  <2> QED
    BY <2>1, <2>2, <2>5, <2>7, <2>8, <2>9, <2>10 DEF RecentsInv
<1> QED
  BY <1>1, RecentsKept, PTL DEF RecSpec

\* The list, the snapshots, the tabs and the builds have their types, and a version has been added
\* when and only when it has a build (lib/localCache.ts, BuildsTab.tsx).
THEOREM RecentsTypeCorrect == RecSpec => []RecTypeOK
<1>1. RecentsInv => RecTypeOK
  BY NewestIs DEF RecentsInv, RecTypeOK, Snapshot, Tab, Lists
<1> QED
  BY <1>1, RecentsInvHolds, PTL

\* The list in the storage is always the newest of what the windows added, and a Builds tab shows the
\* list there is or was (addCached, getCached and useLocalCache).
THEOREM ListsAreNewest == RecSpec => []RecentsAreNewest
<1>1. RecentsInv => RecentsAreNewest
  BY DEF RecentsInv, RecentsAreNewest, IsFormer
<1> QED
  BY <1>1, RecentsInvHolds, PTL

-----------------------------------------------------------------------------
(* Lists: a page in the cache is what the server answered when there were  *)
(* as many rows as the page was fetched at.                                *)

Filters == DOMAIN Matching
PageNumbers == 1 .. MaxPages

\* The page as it was answered when there were n rows.
RowsLeft(p, n) == IF n > Offset(p) THEN n - Offset(p) ELSE 0
PageAt(p, n) == [i \in 1 .. LeastOf(PageSize, RowsLeft(p, n)) |-> RowsLeft(p, n) + 1 - i]
Answer(p, n) == [loaded |-> TRUE, failed |-> FALSE, at |-> n, rows |-> PageAt(p, n)]
Unanswered(failed) == [loaded |-> FALSE, failed |-> failed, at |-> 0, rows |-> <<>>]
IsPage(e, p, most) == (\E b \in BOOLEAN : e = Unanswered(b)) \/ \E n \in 0 .. most : e = Answer(p, n)

ListInv ==
    /\ listKind \in ListKinds /\ listShown \in BOOLEAN /\ listPage \in PageNumbers /\ listFilters \in Filters
    /\ rows \in 0 .. MaxRows
    /\ DOMAIN listed = Filters /\ \A f \in Filters : DOMAIN listed[f] = PageNumbers
    /\ \A f \in Filters, p \in PageNumbers : IsPage(listed[f][p], p, rows)
    /\ ~listKind.filtered =>
        /\ listFilters = DEFAULT_FILTERS
        /\ \A f \in Filters, p \in PageNumbers : listed[f][p] = NoPage \/ f = DEFAULT_FILTERS

-----------------------------------------------------------------------------
LEMMA Constants ==
    /\ PageSize \in Nat /\ PageSize > 0 /\ MaxRows \in Nat /\ MaxRows >= 1 /\ MaxPages \in Nat /\ 1 \in PageNumbers
    /\ DEFAULT_FILTERS \in Filters
BY ListsAssumption DEF PageNumbers, Filters, DEFAULT_FILTERS

\* The rows of a page are numbered downwards from what is left for it.
LEMMA PageIs ==
    ASSUME NEW p \in PageNumbers, NEW n \in Nat
    PROVE  /\ Offset(p) \in Nat /\ RowsLeft(p, n) \in Nat
           /\ PageAt(p, n) \in Seq(Int) /\ Len(PageAt(p, n)) = LeastOf(PageSize, RowsLeft(p, n))
           /\ \A i \in 1 .. LeastOf(PageSize, RowsLeft(p, n)) : PageAt(p, n)[i] = RowsLeft(p, n) + 1 - i
<1>1. Offset(p) \in Nat
  <2>1. p - 1 \in Nat /\ PageSize \in Nat
    BY Constants DEF PageNumbers
  <2>2. \A a, b \in Nat : a * b \in Nat
    OBVIOUS
  <2> QED
    BY <2>1, <2>2 DEF Offset
<1>2. RowsLeft(p, n) \in Nat
  BY <1>1 DEF RowsLeft
<1> DEFINE l == RowsLeft(p, n)  k == LeastOf(PageSize, l)  s == PageAt(p, n)
<1>3. s = [i \in 1 .. k |-> l + 1 - i]
  BY DEF PageAt
<1> HIDE DEF l, s
<1>4. l \in Nat /\ k \in Nat
  BY <1>2, Constants DEF LeastOf, l
<1> HIDE DEF k
<1>5. s \in [1 .. k -> Int]
  BY <1>3, <1>4
<1>6. s \in Seq(Int)
  BY <1>4, <1>5
<1>7. Len(s) = k
  <2>1. DOMAIN s = 1 .. k /\ DOMAIN s = 1 .. Len(s) /\ Len(s) \in Nat
    BY <1>5, <1>6, LenProperties
  <2>2. ~(k < Len(s))
    <3>1. k < Len(s) => Len(s) \in 1 .. Len(s) /\ Len(s) \notin 1 .. k
      BY <1>4, <2>1
    <3> QED
      BY <2>1, <3>1
  <2>3. ~(Len(s) < k)
    <3>1. Len(s) < k => k \in 1 .. k /\ k \notin 1 .. Len(s)
      BY <1>4, <2>1
    <3> QED
      BY <2>1, <3>1
  <2> QED
    BY <1>4, <2>1, <2>2, <2>3
<1>8. \A i \in 1 .. k : s[i] = l + 1 - i
  BY <1>3
<1> QED
  BY <1>1, <1>4, <1>6, <1>7, <1>8 DEF s, k, l

\* A page of the cache stays one while rows are added.
LEMMA PagesStay ==
    ASSUME NEW m \in Nat, NEW n \in Nat, m <= n, NEW p, NEW e, IsPage(e, p, m)
    PROVE  IsPage(e, p, n)
<1>1. 0 .. m \subseteq 0 .. n
  OBVIOUS
<1> QED
  BY <1>1 DEF IsPage

\* One page of the cache changes.
LEMMA PageStored ==
    ASSUME ListInv, NEW f \in Filters, NEW p \in PageNumbers, NEW e, IsPage(e, p, rows),
           UNCHANGED <<listKind, listShown, listPage, listFilters, rows>>,
           listed' = [listed EXCEPT ![f] = [listed[f] EXCEPT ![p] = e]],
           e = NoPage \/ f = listFilters
    PROVE  ListInv'
<1>1. DOMAIN listed' = Filters /\ \A g \in Filters : DOMAIN listed'[g] = PageNumbers
  BY DEF ListInv
<1>2. \A g \in Filters, q \in PageNumbers : listed'[g][q] = IF g = f /\ q = p THEN e ELSE listed[g][q]
  BY DEF ListInv
<1>3. \A g \in Filters, q \in PageNumbers : IsPage(listed'[g][q], q, rows')
  BY <1>2 DEF ListInv
<1> QED
  BY <1>1, <1>2, <1>3 DEF ListInv

LEMMA ListStep == ASSUME ListInv, [ListNext]_listVars PROVE ListInv'
<1> DEFINE Rests == UNCHANGED <<listKind, listed, rows>>
<1>1. listPage \in PageNumbers /\ listFilters \in Filters /\ rows \in Nat /\ rows <= MaxRows
  BY Constants DEF ListInv
<1>2. CASE ShowList \/ GoTo
  <2>1. listShown' \in BOOLEAN /\ listPage' = 1 /\ listFilters' = DEFAULT_FILTERS /\ Rests
    BY <1>2 DEF ShowList, GoTo, ListInv
  <2> QED
    BY <2>1, Constants DEF ListInv
<1>3. CASE Pagination
  <2>1. listPage' \in PageNumbers /\ UNCHANGED <<listKind, listShown, listFilters, listed, rows>>
    BY <1>3 DEF Pagination, PageNumbers
  <2> QED
    BY <2>1 DEF ListInv
<1>4. CASE setFilters
  <2>1. listFilters' \in Filters /\ listKind.filtered /\ UNCHANGED <<listKind, listShown, listPage, listed, rows>>
    BY <1>4 DEF setFilters, Filters
  <2> QED
    BY <2>1 DEF ListInv
<1>5. CASE FetchPage
  <2> DEFINE e == [loaded |-> TRUE, failed |-> FALSE, at |-> rows, rows |-> PageOf(listPage)]
  <2>1. listed' = [listed EXCEPT ![listFilters] = [listed[listFilters] EXCEPT ![listPage] = e]]
        /\ UNCHANGED <<listKind, listShown, listPage, listFilters, rows>>
    BY <1>5 DEF FetchPage
  <2>2. PageOf(listPage) = PageAt(listPage, rows)
    BY DEF PageOf, PageAt, RowsLeft
  <2>3. e = Answer(listPage, rows)
    BY <2>2 DEF Answer
  <2> HIDE DEF e
  <2>4. IsPage(e, listPage, rows)
    BY <1>1, <2>3 DEF IsPage
  <2> QED
    BY <1>1, <2>1, <2>4, PageStored
<1>6. CASE PageFails
  <2>1. ~Here.loaded /\ listed' = [listed EXCEPT ![listFilters][listPage].failed = TRUE]
        /\ UNCHANGED <<listKind, listShown, listPage, listFilters, rows>>
    BY <1>6 DEF PageFails
  <2> DEFINE e == [Here EXCEPT !.failed = TRUE]
  <2>2. listed' = [listed EXCEPT ![listFilters] = [listed[listFilters] EXCEPT ![listPage] = e]]
    BY <2>1 DEF Here
  <2>3. IsPage(Here, listPage, rows)
    BY <1>1 DEF ListInv, Here
  <2>4. PICK b \in BOOLEAN : Here = Unanswered(b)
    BY <2>1, <2>3 DEF IsPage, Answer
  <2>5. e = Unanswered(TRUE)
    <3>1. e = [Unanswered(b) EXCEPT !.failed = TRUE]
      BY <2>4
    <3> HIDE DEF e
    <3> QED
      BY <3>1 DEF Unanswered
  <2> HIDE DEF e
  <2>6. IsPage(e, listPage, rows)
    BY <2>5 DEF IsPage
  <2> QED
    BY <1>1, <2>1, <2>2, <2>6, PageStored
<1>7. CASE Forgotten
  <2>1. PICK f \in Filters, p \in PageNumbers : listed' = [listed EXCEPT ![f][p] = NoPage]
    BY <1>7 DEF Forgotten, Filters, PageNumbers
  <2>2. UNCHANGED <<listKind, listShown, listPage, listFilters, rows>>
    BY <1>7 DEF Forgotten
  <2>3. IsPage(NoPage, p, rows)
    BY DEF IsPage, NoPage, Unanswered
  <2> QED
    BY <2>1, <2>2, <2>3, PageStored
<1>8. CASE RowAdded
  <2>1. rows' = rows + 1 /\ rows' \in 0 .. MaxRows /\ UNCHANGED <<listKind, listShown, listPage, listFilters, listed>>
    BY <1>1, <1>8, Constants DEF RowAdded
  <2>2. rows' \in Nat /\ rows <= rows'
    BY <1>1, <2>1
  <2>3. \A f \in Filters, p \in PageNumbers : IsPage(listed'[f][p], p, rows')
    BY <1>1, <2>1, <2>2, PagesStay DEF ListInv
  <2> QED
    BY <2>1, <2>3 DEF ListInv
<1>9. CASE UNCHANGED listVars
  BY <1>9 DEF listVars, ListInv
<1> QED
  BY <1>2, <1>3, <1>4, <1>5, <1>6, <1>7, <1>8, <1>9 DEF ListNext

LEMMA ListInvHolds == ListSpec => []ListInv
<1>1. ListInit => ListInv
  <2> SUFFICES ASSUME ListInit PROVE ListInv
    OBVIOUS
  <2>1. listed = [f \in Filters |-> [p \in PageNumbers |-> NoPage]]
    BY DEF ListInit, Filters, PageNumbers
  <2>2. \A f \in Filters, p \in PageNumbers : listed[f][p] = NoPage
    BY <2>1
  <2>3. \A p : IsPage(NoPage, p, rows)
    BY DEF IsPage, NoPage, Unanswered
  <2>4. rows \in 0 .. MaxRows
    BY Constants DEF ListInit
  <2>5. DOMAIN listed = Filters /\ \A f \in Filters : DOMAIN listed[f] = PageNumbers
    BY <2>1
  <2> QED
    BY <2>2, <2>3, <2>4, <2>5, Constants DEF ListInit, ListInv
<1> QED
  BY <1>1, ListStep, PTL DEF ListSpec

\* The page that is shown and the pages in the cache have their types, and a list without filters is
\* cached under one key only (the list pages and Pagination.tsx).
THEOREM ListsTypeCorrect == ListSpec => []ListTypeOK
<1>1. ListInv => ListTypeOK
  <2> SUFFICES ASSUME ListInv PROVE ListTypeOK
    OBVIOUS
  <2> DEFINE Fits(e) == e.loaded \in BOOLEAN /\ e.failed \in BOOLEAN /\ e.at \in 0 .. rows /\ Len(e.rows) <= PageSize
  <2>1. ASSUME NEW f \in Filters, NEW p \in PageNumbers PROVE Fits(listed[f][p])
    <3>1. rows \in Nat /\ IsPage(listed[f][p], p, rows)
      BY Constants DEF ListInv
    <3>2. ASSUME NEW b \in BOOLEAN PROVE Fits(Unanswered(b))
      <4>1. Len(<<>>) = 0 /\ 0 \in 0 .. rows
        BY <3>1, EmptySeq
      <4> QED
        BY <4>1, Constants DEF Unanswered
    <3>3. ASSUME NEW n \in 0 .. rows PROVE Fits(Answer(p, n))
      <4>1. n \in Nat
        BY <3>1
      <4>2. Len(PageAt(p, n)) = LeastOf(PageSize, RowsLeft(p, n)) /\ RowsLeft(p, n) \in Nat
        BY <4>1, PageIs
      <4>3. Len(PageAt(p, n)) <= PageSize
        BY <4>2, Constants DEF LeastOf
      <4> QED
        BY <4>3 DEF Answer
    <3> HIDE DEF Fits
    <3> QED
      BY <3>1, <3>2, <3>3 DEF IsPage
  <2> QED
    BY <2>1 DEF ListInv, ListTypeOK, Filters, PageNumbers
<1> QED
  BY <1>1, ListInvHolds, PTL

\* The first and the last row of a page.
LEMMA PageEnds ==
    ASSUME NEW p \in PageNumbers, NEW n \in Nat
    PROVE  /\ PageAt(p, n) = <<>> <=> RowsLeft(p, n) = 0
           /\ RowsLeft(p, n) # 0 =>
                /\ PageAt(p, n)[1] = RowsLeft(p, n)
                /\ PageAt(p, n)[Len(PageAt(p, n))] = RowsLeft(p, n) + 1 - LeastOf(PageSize, RowsLeft(p, n))
<1> DEFINE l == RowsLeft(p, n)  k == LeastOf(PageSize, l)  s == PageAt(p, n)
<1>1. l \in Nat /\ s \in Seq(Int) /\ Len(s) = k /\ \A i \in 1 .. k : s[i] = l + 1 - i
  BY PageIs
<1>2. k \in Nat /\ (k = 0 <=> l = 0)
  BY <1>1, Constants DEF LeastOf
<1> HIDE DEF s, l, k
<1>3. s = <<>> <=> l = 0
  BY <1>1, <1>2, EmptySeq
<1>4. l # 0 => 1 \in 1 .. k /\ k \in 1 .. k /\ l + 1 - 1 = l
  BY <1>1, <1>2
<1>5. l # 0 => s[1] = l /\ s[k] = l + 1 - k
  BY <1>1, <1>4
<1> QED
  BY <1>1, <1>3, <1>5 DEF s, l, k

\* A page and the next, answered in this order, leave no row out.
LEMMA NextPage ==
    ASSUME NEW p \in PageNumbers, p + 1 \in PageNumbers, NEW n \in Nat, NEW m \in Nat, n <= m
    PROVE  LET s == PageAt(p, n)
               t == PageAt(p + 1, m)
               oldest == IF s = <<>> THEN 1 ELSE s[Len(s)]
           IN  IF t = <<>> THEN oldest = 1 ELSE t[1] >= oldest - 1
<1> DEFINE l == RowsLeft(p, n)  k == LeastOf(PageSize, l)  r == RowsLeft(p + 1, m)
           s == PageAt(p, n)  t == PageAt(p + 1, m)  oldest == IF s = <<>> THEN 1 ELSE s[Len(s)]
<1>1. /\ s = <<>> <=> l = 0
      /\ l # 0 => s[Len(s)] = l + 1 - k
      /\ t = <<>> <=> r = 0
      /\ r # 0 => t[1] = r
  BY PageEnds
<1>2. Offset(p) \in Nat /\ l \in Nat /\ r \in Nat
  BY PageIs
<1>3. Offset(p + 1) = Offset(p) + PageSize
  <2>1. \A a, b \in Nat : ((a + 1) - 1) * b = (a - 1) * b + b
    OBVIOUS
  <2>2. p \in Nat
    BY DEF PageNumbers
  <2> QED
    BY <2>1, <2>2, Constants DEF Offset
<1>4. /\ l = (IF n > Offset(p) THEN n - Offset(p) ELSE 0) /\ k = (IF PageSize < l THEN PageSize ELSE l)
      /\ r = (IF m > Offset(p) + PageSize THEN m - (Offset(p) + PageSize) ELSE 0)
  BY <1>3 DEF RowsLeft, LeastOf
<1> HIDE DEF l, k, r, s, t
<1>5. k \in Nat /\ (r = 0 => k = l) /\ r >= l - k
  BY <1>2, <1>4, Constants
<1>6. oldest = IF l = 0 THEN 1 ELSE l + 1 - k
  BY <1>1
<1> HIDE DEF oldest
<1>7. r = 0 => oldest = 1
  BY <1>2, <1>5, <1>6
<1>8. r >= oldest - 1
  <2>1. CASE l = 0
    BY <1>2, <1>6, <2>1
  <2>2. CASE l # 0
    BY <1>2, <1>5, <1>6, <2>2
  <2> QED
    BY <2>1, <2>2
<1>9. IF t = <<>> THEN oldest = 1 ELSE t[1] >= oldest - 1
  BY <1>1, <1>7, <1>8
<1> QED
  BY <1>9 DEF oldest, s, t

\* Who turns the pages forward misses no row (the pages are numbered from the newest row, and
\* ListFunctionsByProject and its like skip as many rows as the pages before hold).
THEOREM PagesSkipNothing == ListSpec => []NothingSkipped
<1>1. ListInv => NothingSkipped
  <2> SUFFICES ASSUME ListInv, NEW f \in Filters, NEW p \in 1 .. MaxPages - 1
               PROVE  LET first == listed[f][p]
                          next == listed[f][p + 1]
                          oldest == IF first.rows = <<>> THEN 1 ELSE first.rows[Len(first.rows)]
                      IN  /\ p = 1 /\ first.loaded => (first.rows = <<>>) = (first.at = 0) /\ (first.at > 0 => first.rows[1] = first.at)
                          /\ first.loaded /\ next.loaded /\ first.at <= next.at =>
                                IF next.rows = <<>> THEN oldest = 1 ELSE next.rows[1] >= oldest - 1
    BY DEF NothingSkipped, Filters
  <2> DEFINE first == listed[f][p]  next == listed[f][p + 1]
             oldest == IF first.rows = <<>> THEN 1 ELSE first.rows[Len(first.rows)]
  <2>1. p \in PageNumbers /\ p + 1 \in PageNumbers /\ rows \in Nat
    <3>1. rows \in Nat
      BY Constants DEF ListInv
    <3> QED
      BY <3>1, Constants DEF PageNumbers
  <2>2. IsPage(first, p, rows) /\ IsPage(next, p + 1, rows)
    BY <2>1 DEF ListInv
  <2> HIDE DEF first, next
  <2>3. first.loaded => \E n \in 0 .. rows : first = Answer(p, n)
    BY <2>2 DEF IsPage, Unanswered
  <2>4. next.loaded => \E n \in 0 .. rows : next = Answer(p + 1, n)
    BY <2>2 DEF IsPage, Unanswered
  <2>5. 0 .. rows \subseteq Nat
    BY <2>1
  <2>6. ASSUME first.loaded, p = 1
        PROVE  (first.rows = <<>>) = (first.at = 0) /\ (first.at > 0 => first.rows[1] = first.at)
    <3>1. PICK n \in Nat : first = Answer(p, n)
      BY <2>3, <2>5, <2>6
    <3>2. first.at = n /\ first.rows = PageAt(p, n)
      BY <3>1 DEF Answer
    <3>3. RowsLeft(p, n) = n
      <4>1. \A b \in Nat : (1 - 1) * b = 0
        OBVIOUS
      <4>2. Offset(p) = 0
        BY <2>6, <4>1, Constants DEF Offset
      <4> QED
        BY <4>2 DEF RowsLeft
    <3> QED
      BY <2>1, <3>2, <3>3, PageEnds
  <2>7. ASSUME first.loaded, next.loaded, first.at <= next.at
        PROVE  IF next.rows = <<>> THEN oldest = 1 ELSE next.rows[1] >= oldest - 1
    <3>1. PICK n \in Nat : first = Answer(p, n)
      BY <2>3, <2>5, <2>7
    <3>2. PICK m \in Nat : next = Answer(p + 1, m)
      BY <2>4, <2>5, <2>7
    <3>3. first.at = n /\ first.rows = PageAt(p, n) /\ next.at = m /\ next.rows = PageAt(p + 1, m)
      BY <3>1, <3>2 DEF Answer
    <3> QED
      BY <2>1, <2>7, <3>3, NextPage
  <2> QED
    BY <2>6, <2>7 DEF first, next
<1> QED
  BY <1>1, ListInvHolds, PTL

-----------------------------------------------------------------------------
(* The tables of ServerCache: for every query the mutations that write     *)
(* what it shows, each with the reason why the query is refreshed or not.  *)

LEMMA NamesAre ==
    Names = {"createProject", "createFunction", "registerVersion", "deploy", "rollback", "upsertEntrypoint",
             "saveDraft", "createTrigger", "toggleTrigger", "testFireTrigger", "subscribeTable", "unsubscribeTable",
             "uploadObject", "uploadSource", "uploadArtifact", "removeObject", "mintKey", "revokeKey", "setQuota",
             "grantMember", "saveRetention", "saveAllowlist", "patchAllowlist", "migrate", "createListing",
             "publishListing", "updateUser", "setEnabled", "saveIntegration"}
BY DEF Names, Mutations

LEMMA Writes ==
    /\ Mutations.createProject.writes = {"projectList"}
    /\ Mutations.createFunction.writes = {"function"}
    /\ Mutations.registerVersion.writes = {"version", "currentVersion"}
    /\ Mutations.deploy.writes = {"deployment", "lastDeployment"}
    /\ Mutations.rollback.writes = {"deployment", "lastDeployment"}
    /\ Mutations.upsertEntrypoint.writes = {"entrypoint"}
    /\ Mutations.saveDraft.writes = {"draft"}
    /\ Mutations.createTrigger.writes = {"trigger"}
    /\ Mutations.toggleTrigger.writes = {"triggerState"}
    /\ Mutations.testFireTrigger.writes = {"triggerState"}
    /\ Mutations.subscribeTable.writes = {"subscription"}
    /\ Mutations.unsubscribeTable.writes = {"subscription"}
    /\ Mutations.uploadObject.writes = {"object"}
    /\ Mutations.uploadSource.writes = {"object"}
    /\ Mutations.uploadArtifact.writes = {"object"}
    /\ Mutations.removeObject.writes = {"object"}
    /\ Mutations.mintKey.writes = {"key"}
    /\ Mutations.revokeKey.writes = {"key"}
    /\ Mutations.setQuota.writes = {"key"}
    /\ Mutations.grantMember.writes = {"member"}
    /\ Mutations.saveRetention.writes = {"retention"}
    /\ Mutations.saveAllowlist.writes = {"allowlist"}
    /\ Mutations.patchAllowlist.writes = {"allowlist"}
    /\ Mutations.migrate.writes = {"migration", "table"}
    /\ Mutations.createListing.writes = {"listing"}
    /\ Mutations.publishListing.writes = {"latest", "listingVersion"}
    /\ Mutations.updateUser.writes = {"user"}
    /\ Mutations.setEnabled.writes = {"project"}
    /\ Mutations.saveIntegration.writes = {"integration"}
BY DEF Mutations, Mutation,
   useCreateProject, useCreateFunction, useRegisterVersion, useDeploy, useRollback, useUpsertEntrypoint, saveDraft,
     createTrigger, useToggleTrigger, useTestFireTrigger, subscribeTable, unsubscribeTable, uploadObject,
     uploadSource, uploadArtifact, removeObject, mintKey, revokeKey, setQuota, grantMember, saveRetention,
     saveAllowlist, patchAllowlist, migrate, createListing, publishListing, updateUser, setEnabled, saveIntegration

LEMMA Invalidates ==
    /\ Mutations.createProject.invalidates = {<<"projects", "list">>}
    /\ Mutations.createFunction.invalidates = {<<"functions", "p">>}
    /\ Mutations.registerVersion.invalidates = {<<"functions", "p", "versions", "f">>}
    /\ Mutations.deploy.invalidates = {<<"functions", "p", "deployments", "f">>, <<"functions", "p">>}
    /\ Mutations.rollback.invalidates = {<<"functions", "p", "deployments", "f">>}
    /\ Mutations.upsertEntrypoint.invalidates = {<<"entrypoint", "p", "f">>}
    /\ Mutations.saveDraft.invalidates = {<<"function", "p", "f", "draft">>}
    /\ Mutations.createTrigger.invalidates = {<<"triggers", "p">>}
    /\ Mutations.toggleTrigger.invalidates = {<<"triggers", "p", "list">>}
    /\ Mutations.subscribeTable.invalidates = {<<"cdc", "p">>}
    /\ Mutations.unsubscribeTable.invalidates = {<<"cdc", "p">>}
    /\ Mutations.uploadObject.invalidates = {<<"storage", "p">>}
    /\ Mutations.removeObject.invalidates = {<<"storage", "p">>}
    /\ Mutations.mintKey.invalidates = {<<"projects", "p", "keys">>}
    /\ Mutations.revokeKey.invalidates = {<<"projects", "p", "keys">>}
    /\ Mutations.setQuota.invalidates = {<<"projects", "p", "keys">>}
    /\ Mutations.saveRetention.invalidates = {<<"projects", "p", "retention">>}
    /\ Mutations.patchAllowlist.invalidates = {<<"projects", "p", "data-allowlist">>}
    /\ Mutations.migrate.invalidates = {<<"migrations", "p">>}
    /\ Mutations.createListing.invalidates = {<<"marketplace">>}
    /\ Mutations.publishListing.invalidates = {<<"marketplace", "slug">>}
    /\ Mutations.updateUser.invalidates = {<<"admin", "users">>}
    /\ Mutations.setEnabled.invalidates = {<<"admin", "projects">>}
    /\ Mutations.saveIntegration.invalidates = {<<"integrations", "p">>}
<1>1. /\ Mutations.createProject.invalidates = {<<"projects", "list">>}
      /\ Mutations.createFunction.invalidates = {<<"functions", "p">>}
      /\ Mutations.registerVersion.invalidates = {<<"functions", "p", "versions", "f">>}
      /\ Mutations.deploy.invalidates = {<<"functions", "p", "deployments", "f">>, <<"functions", "p">>}
      /\ Mutations.rollback.invalidates = {<<"functions", "p", "deployments", "f">>}
      /\ Mutations.upsertEntrypoint.invalidates = {<<"entrypoint", "p", "f">>}
      /\ Mutations.saveDraft.invalidates = {<<"function", "p", "f", "draft">>}
      /\ Mutations.createTrigger.invalidates = {<<"triggers", "p">>}
  BY DEF Mutations, Mutation, Functions, ProjectKeys, useCreateProject, useCreateFunction, useRegisterVersion,
     useDeploy, useRollback, useUpsertEntrypoint, saveDraft, createTrigger
<1>2. /\ Mutations.toggleTrigger.invalidates = {<<"triggers", "p", "list">>}
      /\ Mutations.subscribeTable.invalidates = {<<"cdc", "p">>}
      /\ Mutations.unsubscribeTable.invalidates = {<<"cdc", "p">>}
      /\ Mutations.uploadObject.invalidates = {<<"storage", "p">>}
      /\ Mutations.removeObject.invalidates = {<<"storage", "p">>}
      /\ Mutations.mintKey.invalidates = {<<"projects", "p", "keys">>}
      /\ Mutations.revokeKey.invalidates = {<<"projects", "p", "keys">>}
      /\ Mutations.setQuota.invalidates = {<<"projects", "p", "keys">>}
  BY DEF Mutations, Mutation, Functions, ProjectKeys, useToggleTrigger, subscribeTable, unsubscribeTable,
     uploadObject, removeObject, mintKey, revokeKey, setQuota
<1>3. /\ Mutations.saveRetention.invalidates = {<<"projects", "p", "retention">>}
      /\ Mutations.patchAllowlist.invalidates = {<<"projects", "p", "data-allowlist">>}
      /\ Mutations.migrate.invalidates = {<<"migrations", "p">>}
      /\ Mutations.createListing.invalidates = {<<"marketplace">>}
      /\ Mutations.publishListing.invalidates = {<<"marketplace", "slug">>}
      /\ Mutations.updateUser.invalidates = {<<"admin", "users">>}
      /\ Mutations.setEnabled.invalidates = {<<"admin", "projects">>}
      /\ Mutations.saveIntegration.invalidates = {<<"integrations", "p">>}
  BY DEF Mutations, Mutation, Functions, ProjectKeys, saveRetention, patchAllowlist, migrate, createListing,
     publishListing, updateUser, setEnabled, saveIntegration
<1> QED
  BY <1>1, <1>2, <1>3

Reason(m, q) ==
    \/ <<m, q>> \in Gaps
    \/ q.polled = "always"
    \/ \E k \in Mutations[m].invalidates : IsPrefix(k, q.key)
Covered(q) == \A m \in Names : Mutations[m].writes \cap q.reads # {} => Reason(m, q)

LEMMA QueriesAreCovered == \A q \in Queries : Covered(q)
<1>1. Covered(useProjectsList)
  <2>1. \A m \in Names : Mutations[m].writes \cap useProjectsList.reads # {} => m \in {"createProject", "setEnabled"}
    BY NamesAre, Writes DEF useProjectsList, Query
  <2>2. IsPrefix(<<"projects", "list">>, useProjectsList.key)
    BY DEF IsPrefix, useProjectsList, Query
  <2>3. \A m \in {"createProject", "setEnabled"} : Reason(m, useProjectsList)
    BY <2>2, Invalidates DEF Reason, Gaps
  <2> QED
    BY <2>1, <2>3 DEF Covered
<1>2. Covered(useProject)
  <2>1. \A m \in Names : Mutations[m].writes \cap useProject.reads # {} => m \in {"setEnabled"}
    BY NamesAre, Writes DEF useProject, Query, Polled
  <2>2. \A m \in {"setEnabled"} : Reason(m, useProject)
    BY DEF Reason, Gaps
  <2> QED
    BY <2>1, <2>2 DEF Covered
<1>3. Covered(ProjectApiKeys)
  <2>1. \A m \in Names : Mutations[m].writes \cap ProjectApiKeys.reads # {} => m \in {"mintKey", "revokeKey", "setQuota"}
    BY NamesAre, Writes DEF ProjectApiKeys, Query
  <2>2. IsPrefix(<<"projects", "p", "keys">>, ProjectApiKeys.key)
    BY DEF IsPrefix, ProjectApiKeys, Query
  <2>3. \A m \in {"mintKey", "revokeKey", "setQuota"} : Reason(m, ProjectApiKeys)
    BY <2>2, Invalidates DEF Reason
  <2> QED
    BY <2>1, <2>3 DEF Covered
<1>4. Covered(RolesMatrix)
  <2>1. \A m \in Names : Mutations[m].writes \cap RolesMatrix.reads # {} => m \in {"grantMember"}
    BY NamesAre, Writes DEF RolesMatrix, Query
  <2>2. \A m \in {"grantMember"} : Reason(m, RolesMatrix)
    BY DEF Reason, Gaps
  <2> QED
    BY <2>1, <2>2 DEF Covered
<1>5. Covered(RetentionSettings)
  <2>1. \A m \in Names : Mutations[m].writes \cap RetentionSettings.reads # {} => m \in {"saveRetention"}
    BY NamesAre, Writes DEF RetentionSettings, Query
  <2>2. IsPrefix(<<"projects", "p", "retention">>, RetentionSettings.key)
    BY DEF IsPrefix, RetentionSettings, Query
  <2>3. \A m \in {"saveRetention"} : Reason(m, RetentionSettings)
    BY <2>2, Invalidates DEF Reason
  <2> QED
    BY <2>1, <2>3 DEF Covered
<1>6. Covered(TenantCatalog)
  <2>1. \A m \in Names : Mutations[m].writes \cap TenantCatalog.reads # {} => m \in {"migrate"}
    BY NamesAre, Writes DEF TenantCatalog, Query
  <2>2. \A m \in {"migrate"} : Reason(m, TenantCatalog)
    BY DEF Reason, Gaps
  <2> QED
    BY <2>1, <2>2 DEF Covered
<1>7. Covered(DataAllowlist)
  <2>1. \A m \in Names : Mutations[m].writes \cap DataAllowlist.reads # {} => m \in {"saveAllowlist", "patchAllowlist"}
    BY NamesAre, Writes DEF DataAllowlist, Query
  <2>2. IsPrefix(<<"projects", "p", "data-allowlist">>, DataAllowlist.key)
    BY DEF IsPrefix, DataAllowlist, Query
  <2>3. \A m \in {"saveAllowlist", "patchAllowlist"} : Reason(m, DataAllowlist)
    BY <2>2, Invalidates DEF Reason, Gaps
  <2> QED
    BY <2>1, <2>3 DEF Covered
<1>8. Covered(GraphqlSchema)
  <2>1. \A m \in Names : Mutations[m].writes \cap GraphqlSchema.reads # {} => m \in {"saveAllowlist", "patchAllowlist", "migrate"}
    BY NamesAre, Writes DEF GraphqlSchema, Query
  <2>2. \A m \in {"saveAllowlist", "patchAllowlist", "migrate"} : Reason(m, GraphqlSchema)
    BY DEF Reason, Gaps
  <2> QED
    BY <2>1, <2>2 DEF Covered
<1>9. Covered(Migrations)
  <2>1. \A m \in Names : Mutations[m].writes \cap Migrations.reads # {} => m \in {"migrate"}
    BY NamesAre, Writes DEF Migrations, Query
  <2>2. IsPrefix(<<"migrations", "p">>, Migrations.key)
    BY DEF IsPrefix, Migrations, Query
  <2>3. \A m \in {"migrate"} : Reason(m, Migrations)
    BY <2>2, Invalidates DEF Reason
  <2> QED
    BY <2>1, <2>3 DEF Covered
<1>10. Covered(useFunctionsList)
  <2>1. \A m \in Names : Mutations[m].writes \cap useFunctionsList.reads # {} =>
           m \in {"createFunction", "registerVersion", "deploy", "rollback", "upsertEntrypoint", "createTrigger"}
    BY NamesAre, Writes DEF useFunctionsList, Query
  <2>2. IsPrefix(<<"functions", "p">>, useFunctionsList.key)
    BY DEF IsPrefix, useFunctionsList, Query
  <2>3. \A m \in {"createFunction", "registerVersion", "deploy", "rollback", "upsertEntrypoint", "createTrigger"} : Reason(m, useFunctionsList)
    BY <2>2, Invalidates DEF Reason, Gaps
  <2> QED
    BY <2>1, <2>3 DEF Covered
<1>11. Covered(FunctionNames)
  <2>1. \A m \in Names : Mutations[m].writes \cap FunctionNames.reads # {} => m \in {"createFunction"}
    BY NamesAre, Writes DEF FunctionNames, Query
  <2>2. IsPrefix(<<"functions", "p">>, FunctionNames.key)
    BY DEF IsPrefix, FunctionNames, Query
  <2>3. \A m \in {"createFunction"} : Reason(m, FunctionNames)
    BY <2>2, Invalidates DEF Reason
  <2> QED
    BY <2>1, <2>3 DEF Covered
<1>12. Covered(useFunctionDetail)
  <2>1. \A m \in Names : Mutations[m].writes \cap useFunctionDetail.reads # {} =>
           m \in {"createFunction", "registerVersion", "upsertEntrypoint"}
    BY NamesAre, Writes DEF useFunctionDetail, Query
  <2>2. IsPrefix(<<"functions", "p">>, useFunctionDetail.key)
    BY DEF IsPrefix, useFunctionDetail, Query
  <2>3. \A m \in {"createFunction", "registerVersion", "upsertEntrypoint"} : Reason(m, useFunctionDetail)
    BY <2>2, Invalidates DEF Reason, Gaps
  <2> QED
    BY <2>1, <2>3 DEF Covered
<1>13. Covered(useFunctionVersions)
  <2>1. \A m \in Names : Mutations[m].writes \cap useFunctionVersions.reads # {} => m \in {"registerVersion"}
    BY NamesAre, Writes DEF useFunctionVersions, Query
  <2>2. IsPrefix(<<"functions", "p", "versions", "f">>, useFunctionVersions.key)
    BY DEF IsPrefix, useFunctionVersions, Query
  <2>3. \A m \in {"registerVersion"} : Reason(m, useFunctionVersions)
    BY <2>2, Invalidates DEF Reason
  <2> QED
    BY <2>1, <2>3 DEF Covered
<1>14. Covered(useFunctionDeployments)
  <2>1. \A m \in Names : Mutations[m].writes \cap useFunctionDeployments.reads # {} => m \in {"deploy", "rollback"}
    BY NamesAre, Writes DEF useFunctionDeployments, Query
  <2>2. IsPrefix(<<"functions", "p", "deployments", "f">>, useFunctionDeployments.key)
    BY DEF IsPrefix, useFunctionDeployments, Query
  <2>3. \A m \in {"deploy", "rollback"} : Reason(m, useFunctionDeployments)
    BY <2>2, Invalidates DEF Reason
  <2> QED
    BY <2>1, <2>3 DEF Covered
<1>15. Covered(useDeploymentByID)
  <2>1. \A m \in Names : Mutations[m].writes \cap useDeploymentByID.reads # {} => m \in {"deploy", "rollback"}
    BY NamesAre, Writes DEF useDeploymentByID, Query, Polled
  <2>2. \A m \in {"deploy", "rollback"} : Reason(m, useDeploymentByID)
    BY DEF Reason, useDeploymentByID, Query, Polled
  <2> QED
    BY <2>1, <2>2 DEF Covered
<1>16. Covered(useBuildStatus)
  <2>1. \A m \in Names : Mutations[m].writes \cap useBuildStatus.reads # {} => m \in {}
    BY NamesAre, Writes DEF useBuildStatus, Query, Polled
  <2> QED
    BY <2>1 DEF Covered
<1>17. Covered(useEntrypoint)
  <2>1. \A m \in Names : Mutations[m].writes \cap useEntrypoint.reads # {} => m \in {"upsertEntrypoint"}
    BY NamesAre, Writes DEF useEntrypoint, Query
  <2>2. IsPrefix(<<"entrypoint", "p", "f">>, useEntrypoint.key)
    BY DEF IsPrefix, useEntrypoint, Query
  <2>3. \A m \in {"upsertEntrypoint"} : Reason(m, useEntrypoint)
    BY <2>2, Invalidates DEF Reason
  <2> QED
    BY <2>1, <2>3 DEF Covered
<1>18. Covered(Draft)
  <2>1. \A m \in Names : Mutations[m].writes \cap Draft.reads # {} => m \in {"saveDraft"}
    BY NamesAre, Writes DEF Draft, Query
  <2>2. IsPrefix(<<"function", "p", "f", "draft">>, Draft.key)
    BY DEF IsPrefix, Draft, Query
  <2>3. \A m \in {"saveDraft"} : Reason(m, Draft)
    BY <2>2, Invalidates DEF Reason
  <2> QED
    BY <2>1, <2>3 DEF Covered
<1>19. Covered(useTriggersList)
  <2>1. \A m \in Names : Mutations[m].writes \cap useTriggersList.reads # {} =>
           m \in {"createTrigger", "toggleTrigger", "testFireTrigger"}
    BY NamesAre, Writes DEF useTriggersList, Query
  <2>2. IsPrefix(<<"triggers", "p">>, useTriggersList.key) /\ IsPrefix(<<"triggers", "p", "list">>, useTriggersList.key)
    BY DEF IsPrefix, useTriggersList, Query
  <2>3. \A m \in {"createTrigger", "toggleTrigger", "testFireTrigger"} : Reason(m, useTriggersList)
    BY <2>2, Invalidates DEF Reason, Gaps
  <2> QED
    BY <2>1, <2>3 DEF Covered
<1>20. Covered(TriggerNames)
  <2>1. \A m \in Names : Mutations[m].writes \cap TriggerNames.reads # {} => m \in {"createTrigger"}
    BY NamesAre, Writes DEF TriggerNames, Query
  <2>2. IsPrefix(<<"triggers", "p">>, TriggerNames.key)
    BY DEF IsPrefix, TriggerNames, Query
  <2>3. \A m \in {"createTrigger"} : Reason(m, TriggerNames)
    BY <2>2, Invalidates DEF Reason
  <2> QED
    BY <2>1, <2>3 DEF Covered
<1>21. Covered(DeadLetters)
  <2>1. \A m \in Names : Mutations[m].writes \cap DeadLetters.reads # {} => m \in {}
    BY NamesAre, Writes DEF DeadLetters, Query
  <2> QED
    BY <2>1 DEF Covered
<1>22. Covered(CdcSubscriptions)
  <2>1. \A m \in Names : Mutations[m].writes \cap CdcSubscriptions.reads # {} => m \in {"subscribeTable", "unsubscribeTable"}
    BY NamesAre, Writes DEF CdcSubscriptions, Query
  <2>2. IsPrefix(<<"cdc", "p">>, CdcSubscriptions.key)
    BY DEF IsPrefix, CdcSubscriptions, Query
  <2>3. \A m \in {"subscribeTable", "unsubscribeTable"} : Reason(m, CdcSubscriptions)
    BY <2>2, Invalidates DEF Reason
  <2> QED
    BY <2>1, <2>3 DEF Covered
<1>23. Covered(Objects)
  <2>1. \A m \in Names : Mutations[m].writes \cap Objects.reads # {} =>
           m \in {"uploadObject", "removeObject", "uploadSource", "uploadArtifact"}
    BY NamesAre, Writes DEF Objects, Query
  <2>2. IsPrefix(<<"storage", "p">>, Objects.key)
    BY DEF IsPrefix, Objects, Query
  <2>3. \A m \in {"uploadObject", "removeObject"} : Reason(m, Objects)
    BY <2>2, Invalidates DEF Reason
  <2>4. \A m \in {"uploadSource", "uploadArtifact"} : Reason(m, Objects)
    BY DEF Reason, Gaps
  <2> QED
    BY <2>1, <2>3, <2>4 DEF Covered
<1>24. Covered(Integrations)
  <2>1. \A m \in Names : Mutations[m].writes \cap Integrations.reads # {} => m \in {"saveIntegration"}
    BY NamesAre, Writes DEF Integrations, Query
  <2>2. IsPrefix(<<"integrations", "p">>, Integrations.key)
    BY DEF IsPrefix, Integrations, Query
  <2>3. \A m \in {"saveIntegration"} : Reason(m, Integrations)
    BY <2>2, Invalidates DEF Reason
  <2> QED
    BY <2>1, <2>3 DEF Covered
<1>25. Covered(MarketplaceList)
  <2>1. \A m \in Names : Mutations[m].writes \cap MarketplaceList.reads # {} => m \in {"createListing", "publishListing"}
    BY NamesAre, Writes DEF MarketplaceList, Query
  <2>2. IsPrefix(<<"marketplace">>, MarketplaceList.key)
    BY DEF IsPrefix, MarketplaceList, Query
  <2>3. \A m \in {"createListing", "publishListing"} : Reason(m, MarketplaceList)
    BY <2>2, Invalidates DEF Reason, Gaps
  <2> QED
    BY <2>1, <2>3 DEF Covered
<1>26. Covered(MarketplaceDetail)
  <2>1. \A m \in Names : Mutations[m].writes \cap MarketplaceDetail.reads # {} => m \in {"createListing", "publishListing"}
    BY NamesAre, Writes DEF MarketplaceDetail, Query
  <2>2. IsPrefix(<<"marketplace">>, MarketplaceDetail.key) /\ IsPrefix(<<"marketplace", "slug">>, MarketplaceDetail.key)
    BY DEF IsPrefix, MarketplaceDetail, Query
  <2>3. \A m \in {"createListing", "publishListing"} : Reason(m, MarketplaceDetail)
    BY <2>2, Invalidates DEF Reason
  <2> QED
    BY <2>1, <2>3 DEF Covered
<1>27. Covered(ListingVersions)
  <2>1. \A m \in Names : Mutations[m].writes \cap ListingVersions.reads # {} => m \in {"publishListing"}
    BY NamesAre, Writes DEF ListingVersions, Query
  <2>2. IsPrefix(<<"marketplace", "slug">>, ListingVersions.key)
    BY DEF IsPrefix, ListingVersions, Query
  <2>3. \A m \in {"publishListing"} : Reason(m, ListingVersions)
    BY <2>2, Invalidates DEF Reason
  <2> QED
    BY <2>1, <2>3 DEF Covered
<1>28. Covered(AdminUsers)
  <2>1. \A m \in Names : Mutations[m].writes \cap AdminUsers.reads # {} => m \in {"updateUser"}
    BY NamesAre, Writes DEF AdminUsers, Query
  <2>2. IsPrefix(<<"admin", "users">>, AdminUsers.key)
    BY DEF IsPrefix, AdminUsers, Query
  <2>3. \A m \in {"updateUser"} : Reason(m, AdminUsers)
    BY <2>2, Invalidates DEF Reason
  <2> QED
    BY <2>1, <2>3 DEF Covered
<1>29. Covered(AdminProjects)
  <2>1. \A m \in Names : Mutations[m].writes \cap AdminProjects.reads # {} => m \in {"createProject", "setEnabled"}
    BY NamesAre, Writes DEF AdminProjects, Query
  <2>2. IsPrefix(<<"admin", "projects">>, AdminProjects.key)
    BY DEF IsPrefix, AdminProjects, Query
  <2>3. \A m \in {"createProject", "setEnabled"} : Reason(m, AdminProjects)
    BY <2>2, Invalidates DEF Reason, Gaps
  <2> QED
    BY <2>1, <2>3 DEF Covered
<1> QED
  BY <1>1, <1>2, <1>3, <1>4, <1>5, <1>6, <1>7, <1>8, <1>9, <1>10, <1>11, <1>12, <1>13, <1>14, <1>15, <1>16, <1>17,
    <1>18, <1>19, <1>20, <1>21, <1>22, <1>23, <1>24, <1>25, <1>26, <1>27, <1>28, <1>29 DEF Queries

-----------------------------------------------------------------------------
(* ServerCache: an entry that rests and that a page shows has seen every   *)
(* success that invalidated it in time.                                    *)

Writers == Names \cup {"other"}
CacheStates == {"idle", "sent", "written"}

\* The types, with what counts the writes and what ties the mutations to the focus.
EntryInv ==
    /\ focus \in Queries /\ page \in OwnPages
    /\ entry \in EntryType /\ entry.saw \subseteq written /\ entry.read \subseteq written
    /\ IsShown => entry.loaded \/ entry.fetch # "none" \/ entry.failed
MutationsInv ==
    /\ running \in [Names -> CacheStates]
    /\ written \subseteq Writers /\ answered \subseteq written /\ overtaken \subseteq answered
    /\ IsFiniteSet(Started) /\ Cardinality(Started) <= MaxWrites
    /\ \A m \in Names : running[m] = "written" => m \in written
    /\ \A m \in Names : running[m] # "idle" => Touches(m)
    /\ \A m \in answered : m \in Names /\ Touches(m)

\* What the entry must show before it rests: the success of m, unless it was overtaken.
Reflects(e, m) ==
    /\ e.fetch = "read" => m \in e.read
    /\ e.loaded => m \in e.saw \/ e.fetch # "none" \/ e.failed \/ (e.invalid /\ ~IsShown)
ReflectsInv == \A m \in answered \ overtaken : Refreshes(m) => Reflects(entry, m)

CacheInv == EntryInv /\ MutationsInv /\ ReflectsInv

-----------------------------------------------------------------------------
\* A fetch that begins keeps the data.
LEMMA AsksFacts ==
    ASSUME NEW e \in EntryType
    PROVE  LET a == Ask(e)
           IN  /\ a \in EntryType /\ a.fetch = "asked" /\ a.read = {} /\ ~a.failed
               /\ a.loaded = e.loaded /\ a.saw = e.saw /\ a.invalid = e.invalid
BY DEF Ask, EntryType

LEMMA AsksOnce ==
    ASSUME NEW e \in EntryType
    PROVE  LET a == FetchOnce(e)
           IN  /\ a \in EntryType /\ a.fetch # "none" /\ a.loaded = e.loaded /\ a.saw = e.saw /\ a.invalid = e.invalid
               /\ a.read \in {{}, e.read} /\ (a.fetch = "read" => e.fetch = "read" /\ a.read = e.read)
BY AsksFacts DEF FetchOnce, EntryType

LEMMA NewEntryFacts ==
    /\ NoEntry \in EntryType /\ ~NoEntry.loaded /\ NoEntry.fetch = "none" /\ NoEntry.saw = {} /\ NoEntry.read = {}
    /\ ~NoEntry.failed
BY DEF NoEntry, EntryType

\* The mounting of a page, and an invalidation, leave the data alone and fetch what is missing or old.
LEMMA MountsAndInvalidates ==
    ASSUME NEW e \in EntryType
    PROVE  /\ LET a == Mounts(e)
              IN  /\ a \in EntryType /\ a.saw = e.saw /\ a.loaded = e.loaded /\ a.read \in {{}, e.read}
                  /\ a.loaded \/ a.fetch # "none"
                  /\ a.fetch = "read" => e.fetch = "read" /\ a.read = e.read
                  /\ a.fetch # "none" \/ (a = e /\ ~e.invalid)
           /\ LET a == Invalidate(e)
              IN  /\ a \in EntryType /\ a.saw = e.saw /\ a.loaded = e.loaded /\ a.read \in {{}, e.read}
                  /\ a.fetch = "read" => e.fetch = "read" /\ a.read = e.read
                  /\ e.fetch # "none" => a.fetch # "none"
                  /\ IsShown => a.fetch # "none"
                  /\ IsShown /\ e.loaded => a.fetch = "asked"
                  /\ a.loaded => a.invalid
<1>1. LET a == Mounts(e)
      IN  /\ a \in EntryType /\ a.saw = e.saw /\ a.loaded = e.loaded /\ a.read \in {{}, e.read}
          /\ a.loaded \/ a.fetch # "none"
          /\ a.fetch = "read" => e.fetch = "read" /\ a.read = e.read
          /\ a.fetch # "none" \/ (a = e /\ ~e.invalid)
  BY AsksOnce DEF Mounts
<1> DEFINE i == e.loaded \/ e.fetch # "none"
           marked == [e EXCEPT !.invalid = i]
<1>2. i \in BOOLEAN
  BY DEF EntryType
<1>3. e.loaded => i
  OBVIOUS
<1>4. Invalidate(e) = IF ~IsShown THEN marked ELSE IF e.loaded THEN Ask(marked) ELSE FetchOnce(marked)
  BY DEF Invalidate
<1> HIDE DEF i
<1>5. /\ marked \in EntryType /\ marked.saw = e.saw /\ marked.loaded = e.loaded /\ marked.read = e.read
      /\ marked.fetch = e.fetch /\ marked.invalid = i
  BY <1>2 DEF EntryType
<1> HIDE DEF marked
<1>6. CASE ~IsShown
  BY <1>1, <1>3, <1>4, <1>5, <1>6
<1>7. CASE IsShown /\ e.loaded
  BY <1>1, <1>3, <1>4, <1>5, <1>7, AsksFacts
<1>8. CASE IsShown /\ ~e.loaded
  BY <1>1, <1>3, <1>4, <1>5, <1>8, AsksOnce
<1> QED
  BY <1>6, <1>7, <1>8
LEMMA MutationsRest ==
    ASSUME MutationsInv, UNCHANGED <<focus, running, written, answered, overtaken>> PROVE MutationsInv'
BY DEF MutationsInv, Started, Touches

LEMMA FetchKeepsCache ==
    ASSUME CacheInv, ServerReads \/ Store \/ FetchFails \/ Poll \/ Age \/ Collect PROVE CacheInv'
<1> USE DEF CacheInv
<1>1. UNCHANGED <<focus, page, running, written, answered, overtaken>>
  BY DEF ServerReads, Store, FetchFails, Poll, Age, Collect
<1>2. MutationsInv'
  BY <1>1, MutationsRest
<1>3. IsShown' = IsShown /\ \A m \in Names : Refreshes(m)' = Refreshes(m)
  BY <1>1 DEF IsShown, Refreshes
<1>4. entry \in EntryType /\ entry.saw \subseteq written /\ entry.read \subseteq written /\ written \subseteq Writers
      /\ answered \subseteq written /\ answered \subseteq Names
      /\ (IsShown => entry.loaded \/ entry.fetch # "none" \/ entry.failed)
  BY DEF EntryInv, MutationsInv
<1> DEFINE Kept == /\ entry' \in EntryType /\ entry'.saw \subseteq written /\ entry'.read \subseteq written
                   /\ IsShown => entry'.loaded \/ entry'.fetch # "none" \/ entry'.failed
                   /\ \A m \in answered \ overtaken : Refreshes(m) => Reflects(entry', m)
<1>5. Kept => EntryInv' /\ ReflectsInv'
  BY <1>1, <1>3, <1>4 DEF EntryInv, ReflectsInv, OwnPages, Touches, Reflects
<1>6. CASE ServerReads
  <2>1. entry' = [entry EXCEPT !.fetch = "read", !.read = written]
    BY <1>6 DEF ServerReads
  <2>2. entry' \in EntryType /\ entry'.saw = entry.saw /\ entry'.read = written /\ entry'.fetch = "read"
    BY <1>4, <2>1 DEF EntryType, Writers
  <2>3. Kept
    BY <1>4, <2>2 DEF Reflects
  <2> QED
    BY <1>2, <1>5, <2>3
<1>7. CASE Store
  <2>1. entry' = [NoEntry EXCEPT !.loaded = TRUE, !.saw = entry.read] /\ entry.fetch = "read"
    BY <1>7 DEF Store
  <2>2. entry' \in EntryType /\ entry'.loaded /\ entry'.saw = entry.read /\ entry'.read = {} /\ entry'.fetch = "none"
    BY <1>4, <2>1 DEF EntryType, NoEntry
  <2>3. \A m \in answered \ overtaken : Refreshes(m) => m \in entry.read
    BY <2>1 DEF ReflectsInv, Reflects
  <2>4. Kept
    BY <1>4, <2>2, <2>3 DEF Reflects
  <2> QED
    BY <1>2, <1>5, <2>4
<1>8. CASE FetchFails
  <2>1. entry' = [entry EXCEPT !.fetch = "none", !.failed = TRUE]
    BY <1>8 DEF FetchFails
  <2>2. entry' \in EntryType /\ entry'.saw = entry.saw /\ entry'.read = entry.read /\ entry'.fetch = "none"
        /\ entry'.failed
    BY <1>4, <2>1 DEF EntryType
  <2>3. Kept
    BY <1>4, <2>2 DEF Reflects
  <2> QED
    BY <1>2, <1>5, <2>3
<1>9. CASE Poll
  <2>1. entry' = Ask(entry)
    BY <1>9 DEF Poll
  <2>2. entry' \in EntryType /\ entry'.saw = entry.saw /\ entry'.read = {} /\ entry'.fetch = "asked"
    BY <1>4, <2>1, AsksFacts
  <2>3. Kept
    BY <1>4, <2>2 DEF Reflects
  <2> QED
    BY <1>2, <1>5, <2>3
<1>10. CASE Age
  <2>1. entry' = [entry EXCEPT !.aged = TRUE]
    BY <1>10 DEF Age
  <2>2. /\ entry' \in EntryType /\ entry'.saw = entry.saw /\ entry'.read = entry.read /\ entry'.fetch = entry.fetch
        /\ entry'.failed = entry.failed /\ entry'.loaded = entry.loaded /\ entry'.invalid = entry.invalid
    BY <1>4, <2>1 DEF EntryType
  <2>3. Kept
    BY <1>4, <2>2 DEF ReflectsInv, Reflects
  <2> QED
    BY <1>2, <1>5, <2>3
<1>11. CASE Collect
  <2>1. entry' = NoEntry /\ ~IsShown
    BY <1>11 DEF Collect
  <2>2. Kept
    BY <1>4, <2>1, NewEntryFacts DEF Reflects
  <2> QED
    BY <1>2, <1>5, <2>2
<1> QED
  BY <1>6, <1>7, <1>8, <1>9, <1>10, <1>11

LEMMA NavigationKeepsCache ==
    ASSUME CacheInv, NEW p \in Pages, Navigate(p) PROVE CacheInv'
<1> USE DEF CacheInv
<1>1. UNCHANGED <<focus, running, written, answered, overtaken>> /\ p \in OwnPages /\ page' = p
  BY DEF Navigate
<1>2. MutationsInv'
  BY <1>1, MutationsRest
<1>3. IsShown' = (p \in focus.on) /\ OwnPages' = OwnPages /\ \A m \in Names : Refreshes(m)' = Refreshes(m)
  BY <1>1 DEF IsShown, OwnPages, Touches, Refreshes
<1>4. entry \in EntryType /\ entry.saw \subseteq written /\ entry.read \subseteq written /\ answered \subseteq Names
      /\ (IsShown => entry.loaded \/ entry.fetch # "none" \/ entry.failed)
  BY DEF EntryInv, MutationsInv
<1>5. CASE p \in focus.on /\ ~IsShown
  <2>1. entry' = Mounts(entry)
    BY <1>5 DEF Navigate
  <2>2. /\ entry' \in EntryType /\ entry'.saw = entry.saw /\ entry'.loaded = entry.loaded /\ entry'.read \in {{}, entry.read}
        /\ entry'.loaded \/ entry'.fetch # "none"
        /\ entry'.fetch = "read" => entry.fetch = "read" /\ entry'.read = entry.read
        /\ entry'.fetch # "none" \/ (entry' = entry /\ ~entry.invalid)
    BY <1>4, <2>1, MountsAndInvalidates
  <2>3. EntryInv'
    BY <1>1, <1>3, <1>4, <2>2 DEF EntryInv
  <2>4. ReflectsInv'
    BY <1>1, <1>3, <1>4, <2>2 DEF ReflectsInv, Reflects
  <2> QED
    BY <1>2, <2>3, <2>4
<1>6. CASE ~(p \in focus.on /\ ~IsShown)
  <2>1. entry' = entry /\ (IsShown' => IsShown)
    BY <1>3, <1>6 DEF Navigate
  <2>2. EntryInv'
    BY <1>1, <1>3, <1>4, <2>1 DEF EntryInv
  <2>3. ReflectsInv'
    BY <1>1, <1>3, <1>4, <2>1 DEF ReflectsInv, Reflects
  <2> QED
    BY <1>2, <2>2, <2>3
<1> QED
  BY <1>5, <1>6
\* The writes of a behaviour are counted by those that have begun.
LEMMA FewStarted ==
    ASSUME MutationsInv, NEW s, Started' \subseteq Started \/ (Started' = Started \cup {s} /\ Cardinality(Started) < MaxWrites)
    PROVE  IsFiniteSet(Started)' /\ (Cardinality(Started) <= MaxWrites)'
<1>1. IsFiniteSet(Started) /\ Cardinality(Started) <= MaxWrites /\ Cardinality(Started) \in Nat
  BY FS_CardinalityType DEF MutationsInv
<1>2. CASE Started' \subseteq Started
  <2>1. IsFiniteSet(Started') /\ Cardinality(Started') <= Cardinality(Started) /\ Cardinality(Started') \in Nat
    BY <1>1, <1>2, FS_Subset, FS_CardinalityType
  <2> QED
    BY <1>1, <2>1, WritesAssumption
<1>3. CASE Started' = Started \cup {s} /\ Cardinality(Started) < MaxWrites
  <2>1. IsFiniteSet(Started') /\ Cardinality(Started') \in {Cardinality(Started), Cardinality(Started) + 1}
    BY <1>1, <1>3, FS_AddElement
  <2> QED
    BY <1>1, <1>3, <2>1, WritesAssumption
<1> QED
  BY <1>2, <1>3

\* A step that leaves the page, the entry and the answers alone, and only adds to what is written.
LEMMA EntryRests ==
    ASSUME CacheInv, MutationsInv', UNCHANGED <<focus, page, answered, overtaken, entry>>, written \subseteq written'
    PROVE  CacheInv'
<1>1. EntryInv'
  BY DEF CacheInv, EntryInv, OwnPages, Touches, IsShown
<1>2. ReflectsInv'
  BY DEF CacheInv, ReflectsInv, Reflects, Refreshes, IsShown
<1> QED
  BY <1>1, <1>2 DEF CacheInv

LEMMA WritesKeepCache ==
    ASSUME CacheInv, NEW m \in Names, Mutate(m) \/ ServerWrites(m) \/ OnError(m) \/ OtherWrites PROVE CacheInv'
<1>1. MutationsInv /\ UNCHANGED <<focus, page, answered, overtaken, entry>> /\ \A n \in Names : Touches(n)' = Touches(n)
  BY DEF CacheInv, Mutate, ServerWrites, OnError, OtherWrites, Touches
<1>2. CASE Mutate(m)
  <2>1. Touches(m) /\ Cardinality(Started) < MaxWrites /\ running' = [running EXCEPT ![m] = "sent"] /\ written' = written
    BY <1>2 DEF Mutate
  <2>2. Started' = Started \cup {m}
    BY <1>1, <2>1 DEF Started, MutationsInv
  <2>3. IsFiniteSet(Started)' /\ (Cardinality(Started) <= MaxWrites)'
    BY <1>1, <2>1, <2>2, FewStarted
  <2>4. MutationsInv'
    BY <1>1, <2>1, <2>3 DEF MutationsInv, CacheStates
  <2> QED
    BY <1>1, <2>1, <2>4, EntryRests
<1>3. CASE ServerWrites(m)
  <2>1. running[m] = "sent" /\ running' = [running EXCEPT ![m] = "written"] /\ written' = written \cup {m}
    BY <1>3 DEF ServerWrites
  <2>2. Started' \subseteq Started
    BY <1>1, <2>1 DEF Started, MutationsInv
  <2>3. IsFiniteSet(Started)' /\ (Cardinality(Started) <= MaxWrites)'
    BY <1>1, <2>2, FewStarted
  <2>4. MutationsInv'
    BY <1>1, <2>1, <2>3 DEF MutationsInv, CacheStates, Writers
  <2> QED
    BY <1>1, <2>1, <2>4, EntryRests
<1>4. CASE OnError(m)
  <2>1. running' = [running EXCEPT ![m] = "idle"] /\ written' = written
    BY <1>4 DEF OnError
  <2>2. Started' \subseteq Started
    BY <1>1, <2>1 DEF Started, MutationsInv
  <2>3. IsFiniteSet(Started)' /\ (Cardinality(Started) <= MaxWrites)'
    BY <1>1, <2>2, FewStarted
  <2>4. MutationsInv'
    BY <1>1, <2>1, <2>3 DEF MutationsInv, CacheStates
  <2> QED
    BY <1>1, <2>1, <2>4, EntryRests
<1>5. CASE OtherWrites
  <2>1. Cardinality(Started) < MaxWrites /\ running' = running /\ written' = written \cup {"other"}
    BY <1>5 DEF OtherWrites
  <2>2. Started' = Started \cup {"other"}
    BY <2>1 DEF Started
  <2>3. IsFiniteSet(Started)' /\ (Cardinality(Started) <= MaxWrites)'
    BY <1>1, <2>1, <2>2, FewStarted
  <2>4. MutationsInv'
    BY <1>1, <2>1, <2>3 DEF MutationsInv, Writers
  <2> QED
    BY <1>1, <2>1, <2>4, EntryRests
<1> QED
  BY <1>2, <1>3, <1>4, <1>5

LEMMA SuccessKeepsCache ==
    ASSUME CacheInv, NEW m \in Names, OnSuccess(m) PROVE CacheInv'
<1>1. /\ running[m] = "written" /\ running' = [running EXCEPT ![m] = "idle"] /\ answered' = answered \cup {m}
      /\ overtaken' = IF Uncancelled(entry) THEN overtaken \cup {m} ELSE overtaken
      /\ UNCHANGED <<focus, page, written>>
  BY DEF OnSuccess
<1>2. IsShown' = IsShown /\ OwnPages' = OwnPages /\ \A n \in Names : Touches(n)' = Touches(n) /\ Refreshes(n)' = Refreshes(n)
  BY <1>1 DEF IsShown, OwnPages, Touches, Refreshes
<1>3. MutationsInv /\ m \in written /\ Touches(m)
  BY <1>1 DEF CacheInv, MutationsInv
<1>4. MutationsInv'
  <2>1. Started' \subseteq Started
    BY <1>1, <1>3 DEF Started, MutationsInv
  <2>2. IsFiniteSet(Started)' /\ (Cardinality(Started) <= MaxWrites)'
    BY <1>3, <2>1, FewStarted
  <2>3. running' \in [Names -> CacheStates] /\ \A n \in Names : running'[n] # "idle" => running'[n] = running[n]
    BY <1>1, <1>3 DEF MutationsInv, CacheStates
  <2>4. overtaken \subseteq overtaken' /\ overtaken' \subseteq overtaken \cup {m}
    BY <1>1
  <2> QED
    BY <1>1, <1>2, <1>3, <2>2, <2>3, <2>4 DEF MutationsInv
<1>5. entry \in EntryType /\ entry.saw \subseteq written /\ entry.read \subseteq written /\ answered \subseteq Names
      /\ (IsShown => entry.loaded \/ entry.fetch # "none" \/ entry.failed)
  BY DEF CacheInv, EntryInv, MutationsInv
<1>6. CASE Refreshes(m)
  <2>1. entry' = Invalidate(entry)
    BY <1>6 DEF OnSuccess
  <2>2. /\ entry' \in EntryType /\ entry'.saw = entry.saw /\ entry'.loaded = entry.loaded /\ entry'.read \in {{}, entry.read}
        /\ entry'.fetch = "read" => entry.fetch = "read" /\ entry'.read = entry.read
        /\ entry.fetch # "none" => entry'.fetch # "none"
        /\ IsShown => entry'.fetch # "none"
        /\ IsShown /\ entry.loaded => entry'.fetch = "asked"
        /\ entry'.loaded => entry'.invalid
    BY <1>5, <2>1, MountsAndInvalidates
  <2>3. EntryInv'
    BY <1>1, <1>2, <1>5, <2>2 DEF CacheInv, EntryInv
  <2>4. ReflectsInv'
    <3>1. ASSUME NEW n \in Names, n \in answered' \ overtaken', Refreshes(n)' PROVE Reflects(entry, n)'
      <4>1. CASE n \in answered \ overtaken
        <5>1. Refreshes(n) /\ Reflects(entry, n)
          BY <1>2, <1>5, <3>1, <4>1 DEF CacheInv, ReflectsInv
        <5> QED
          BY <1>2, <2>2, <5>1 DEF Reflects
      <4>2. CASE n = m /\ n \notin overtaken'
        <5>1. ~Uncancelled(entry)
          BY <1>1, <4>2
        <5> QED
          BY <1>2, <2>2, <5>1 DEF Reflects, Uncancelled
      <4> QED
        BY <1>1, <3>1, <4>1, <4>2
    <3>2. answered' \subseteq Names
      BY <1>1, <1>5
    <3> QED
      BY <3>1, <3>2 DEF ReflectsInv
  <2> QED
    BY <1>4, <2>3, <2>4 DEF CacheInv
<1>7. CASE ~Refreshes(m)
  <2>1. entry' = entry
    BY <1>7 DEF OnSuccess
  <2>2. EntryInv'
    BY <1>1, <1>2, <2>1 DEF CacheInv, EntryInv
  <2>3. overtaken \subseteq overtaken'
    BY <1>1
  <2>4. ReflectsInv'
    BY <1>1, <1>2, <1>5, <1>7, <2>1, <2>3 DEF CacheInv, ReflectsInv, Reflects
  <2> QED
    BY <1>4, <2>2, <2>4 DEF CacheInv
<1> QED
  BY <1>6, <1>7

LEMMA CacheInvHolds == CacheSpec => []CacheInv
<1>1. CacheInit => CacheInv
  <2> SUFFICES ASSUME CacheInit PROVE CacheInv
    OBVIOUS
  <2>1. entry \in EntryType /\ entry.saw = {} /\ entry.read = {} /\ (IsShown => entry.fetch # "none")
    BY AsksFacts, NewEntryFacts DEF CacheInit
  <2>2. EntryInv
    BY <2>1 DEF CacheInit, EntryInv
  <2>3. Started = {}
    BY DEF CacheInit, Started
  <2>4. IsFiniteSet(Started) /\ Cardinality(Started) <= MaxWrites
    BY <2>3, FS_EmptySet, WritesAssumption
  <2>5. MutationsInv
    BY <2>4 DEF CacheInit, MutationsInv, CacheStates
  <2> QED
    BY <2>2, <2>5 DEF CacheInit, CacheInv, ReflectsInv
<1>2. CacheInv /\ [CacheNext]_cacheVars => CacheInv'
  <2> SUFFICES ASSUME CacheInv, [CacheNext]_cacheVars PROVE CacheInv'
    OBVIOUS
  <2>1. ASSUME NEW p \in Pages, Navigate(p) PROVE CacheInv'
    BY <2>1, NavigationKeepsCache
  <2>2. ASSUME NEW m \in Names, Mutate(m) \/ ServerWrites(m) \/ OnError(m) PROVE CacheInv'
    BY <2>2, WritesKeepCache
  <2>3. ASSUME NEW m \in Names, OnSuccess(m) PROVE CacheInv'
    BY <2>3, SuccessKeepsCache
  <2>4. CASE OtherWrites
    <3>1. "deploy" \in Names
      BY NamesAre
    <3> QED
      BY <2>4, <3>1, WritesKeepCache
  <2>5. CASE ServerReads \/ Store \/ FetchFails \/ Poll \/ Age \/ Collect
    BY <2>5, FetchKeepsCache
  <2>6. CASE UNCHANGED cacheVars
    <3>1. UNCHANGED <<focus, page, answered, overtaken, entry>> /\ UNCHANGED <<running, written>>
      BY <2>6 DEF cacheVars
    <3>2. MutationsInv'
      BY <3>1, MutationsRest DEF CacheInv
    <3> QED
      BY <3>1, <3>2, EntryRests
  <2> QED
    BY <2>1, <2>2, <2>3, <2>4, <2>5, <2>6 DEF CacheNext
<1> QED
  BY <1>1, <1>2, PTL DEF CacheSpec

\* The cache entry, the mutations and the page have their types, and no more writes than the bound
\* are made (lib/query.ts and the pages).
THEOREM CacheTypeCorrect == CacheSpec => []CacheTypeOK
<1>1. CacheInv => CacheTypeOK
  <2> SUFFICES ASSUME CacheInv PROVE CacheTypeOK
    OBVIOUS
  <2>1. EntryInv /\ MutationsInv
    BY DEF CacheInv
  <2>2. written \subseteq Started
    BY DEF Started
  <2>3. Cardinality(written) <= MaxWrites
    <3>1. Cardinality(written) <= Cardinality(Started) /\ Cardinality(written) \in Nat /\ Cardinality(Started) \in Nat
      BY <2>1, <2>2, FS_Subset, FS_CardinalityType DEF MutationsInv
    <3> QED
      BY <2>1, <3>1, WritesAssumption DEF MutationsInv
  <2> QED
    BY <2>1, <2>3 DEF EntryInv, MutationsInv, CacheTypeOK, CacheStates, Writers
<1> QED
  BY <1>1, CacheInvHolds, PTL

\* A page that rests shows every success that it has heard of, except for the known gaps, for the
\* deployment that is polled, and for a success that came during a fetch that nothing cancels.
THEOREM StalenessIsExplained == CacheSpec => []StaleForAReason
<1>1. CacheInv => StaleForAReason
  <2> SUFFICES ASSUME CacheInv, IsShown, entry.loaded, entry.fetch = "none", ~entry.failed,
                      NEW m \in answered \ entry.saw
               PROVE  <<m, focus>> \in Gaps \/ m \in overtaken \/ focus.polled = "always"
    BY DEF StaleForAReason
  <2>1. m \in Names /\ Touches(m) /\ focus \in Queries
    BY DEF CacheInv, EntryInv, MutationsInv
  <2>2. Reason(m, focus)
    BY <2>1, QueriesAreCovered DEF Covered, Touches
  <2>3. CASE Refreshes(m) /\ m \notin overtaken
    BY <2>3 DEF CacheInv, ReflectsInv, Reflects
  <2> QED
    BY <2>2, <2>3 DEF Reason, Refreshes
<1> QED
  BY <1>1, CacheInvHolds, PTL

-----------------------------------------------------------------------------
(* Bucket: the card waits for one deletion at a time.                      *)

RemovalTypes == [key : ObjectKeys, at : {"sent", "done"}, mounted : BOOLEAN]
PrefixTypes == [typed : KeyPrefixes \cup {""}, applied : KeyPrefixes \cup {""}]

\* The types, with the deletion of the page that is mounted told without counting.
StoTypeInv ==
    /\ stoShown \in BOOLEAN /\ prefix \in PrefixTypes
    /\ listing \in [KeyPrefixes \cup {""} -> SUBSET ObjectKeys]
    /\ removals \subseteq RemovalTypes /\ objects \subseteq ObjectKeys
    /\ \A r, q \in removals : r.mounted /\ q.mounted => r = q

LEMMA NewPrefixIsTyped == NewPrefix \in PrefixTypes
  BY DEF NewPrefix, PrefixTypes

LEMMA StoTypeInvInitially == StoInit => StoTypeInv
<1> SUFFICES ASSUME StoInit PROVE StoTypeInv
  OBVIOUS
<1>1. listing \in [KeyPrefixes \cup {""} -> SUBSET ObjectKeys]
  BY DEF StoInit
<1>2. stoShown \in BOOLEAN /\ prefix \in PrefixTypes /\ removals = {} /\ objects = {}
  BY NewPrefixIsTyped DEF StoInit
<1> QED
  BY <1>1, <1>2 DEF StoTypeInv

LEMMA RemovalsStay ==
    ASSUME StoTypeInv, ObjectsCard \/ remove \/ Removes \/ RemovalEnds
    PROVE  /\ removals' \subseteq RemovalTypes
           /\ \A r, q \in removals' : r.mounted /\ q.mounted => r = q
<1>1. removals \subseteq RemovalTypes /\ \A r, q \in removals : r.mounted /\ q.mounted => r = q
  BY DEF StoTypeInv
<1>2. CASE ObjectsCard
  <2>1. removals' = {[r EXCEPT !.mounted = FALSE] : r \in removals}
    BY <1>2 DEF ObjectsCard
  <2>2. ASSUME NEW r \in removals'
        PROVE  r \in RemovalTypes /\ ~r.mounted
    <3>1. PICK q \in removals : r = [q EXCEPT !.mounted = FALSE]
      BY <2>1
    <3> QED
      BY <1>1, <3>1 DEF RemovalTypes
  <2> QED
    BY <2>2
<1>3. CASE remove
  <2>1. PICK k \in listing[prefix.applied] :
          removals' = removals \cup {[key |-> k, at |-> "sent", mounted |-> TRUE]}
    BY <1>3 DEF remove
  <2> DEFINE new == [key |-> k, at |-> "sent", mounted |-> TRUE]
  <2>2. ~\E r \in removals : r.mounted
    BY <1>3 DEF remove
  <2>3. k \in ObjectKeys
    BY <2>1 DEF StoTypeInv, PrefixTypes
  <2>4. new \in RemovalTypes
    BY <2>3 DEF RemovalTypes
  <2>5. removals' = removals \cup {new}
    BY <2>1
  <2> HIDE DEF new
  <2> QED
    BY <1>1, <2>2, <2>4, <2>5
<1>4. CASE Removes
  <2>1. PICK r \in removals : removals' = (removals \ {r}) \cup {[r EXCEPT !.at = "done"]}
    BY <1>4 DEF Removes
  <2> DEFINE removed == [r EXCEPT !.at = "done"]
  <2>2. removed \in RemovalTypes /\ removed.mounted = r.mounted
    BY <1>1 DEF RemovalTypes
  <2> HIDE DEF removed
  <2> QED
    BY <1>1, <2>1, <2>2 DEF removed
<1>5. CASE RemovalEnds
  BY <1>1, <1>5 DEF RemovalEnds
<1> QED
  BY <1>2, <1>3, <1>4, <1>5

LEMMA StoTypeInvKept == StoTypeInv /\ [StoNext]_stoVars => StoTypeInv'
<1> SUFFICES ASSUME StoTypeInv, [StoNext]_stoVars PROVE StoTypeInv'
  OBVIOUS
<1>1. CASE ObjectsCard \/ remove \/ Removes \/ RemovalEnds
  <2>1. stoShown' \in BOOLEAN
    BY <1>1 DEF ObjectsCard, remove, Removes, RemovalEnds, StoTypeInv
  <2>2. prefix' \in PrefixTypes
    BY <1>1, NewPrefixIsTyped DEF ObjectsCard, remove, Removes, RemovalEnds, StoTypeInv
  <2>3. listing' = listing /\ objects' \subseteq objects
    BY <1>1 DEF ObjectsCard, remove, Removes, RemovalEnds
  <2> QED
    BY <1>1, <2>1, <2>2, <2>3, RemovalsStay DEF StoTypeInv
<1>2. CASE setPrefix \/ setAppliedPrefix
  BY <1>2 DEF setPrefix, setAppliedPrefix, StoTypeInv, PrefixTypes
<1>3. CASE ObjectsFetched
  <2>1. Listed(prefix.applied) \subseteq ObjectKeys
    BY DEF Listed, StoTypeInv
  <2> QED
    BY <1>3, <2>1 DEF ObjectsFetched, StoTypeInv
<1>4. CASE ObjectStored
  BY <1>4 DEF ObjectStored, StoTypeInv
<1>5. CASE UNCHANGED stoVars
  BY <1>5 DEF stoVars, StoTypeInv
<1> QED
  BY <1>1, <1>2, <1>3, <1>4, <1>5 DEF StoNext

LEMMA StoTypesFollow == StoTypeInv => StoTypeOK
<1> SUFFICES ASSUME StoTypeInv PROVE StoTypeOK
  OBVIOUS
<1> DEFINE mounted == {r \in removals : r.mounted}
<1>1. Cardinality(mounted) <= 1
  <2>1. CASE mounted = {}
    BY <2>1, FS_EmptySet
  <2>2. CASE mounted # {}
    <3>1. PICK r \in mounted : TRUE
      BY <2>2
    <3>2. mounted = {r}
      BY <3>1 DEF StoTypeInv
    <3>3. Cardinality({r}) = 1
      BY FS_Singleton
    <3> QED
      BY <3>2, <3>3
  <2> QED
    BY <2>1, <2>2
<1> QED
  BY <1>1 DEF StoTypeInv, StoTypeOK, PrefixTypes, RemovalTypes

(* Type correctness of the objects card: it deletes one object at a time, and lists objects only. *)
THEOREM BucketTypeCorrect == StoSpec => []StoTypeOK
  BY StoTypeInvInitially, StoTypeInvKept, StoTypesFollow, PTL DEF StoSpec

(* DeletesWhatWasConfirmed, as long as the path of a deletion names the whole key, which it does of keys without
   a "#" or a "?": then no object goes but one whose deletion the user has confirmed. *)
THEOREM PlainKeysAreDeleted ==
    ASSUME \A k \in ObjectKeys : Addressed[k] = k PROVE StoSpec => DeletesWhatWasConfirmed
<1>1. ASSUME StoTypeInv, [StoNext]_stoVars
      PROVE  \A k \in objects : k \notin objects' => \E r \in removals : r.key = k
  <2>1. CASE Removes
    <3>1. PICK r \in removals : objects' = objects \ {Addressed[r.key]}
      BY <2>1 DEF Removes
    <3>2. Addressed[r.key] = r.key
      BY <1>1 DEF StoTypeInv, RemovalTypes
    <3> QED
      BY <3>1, <3>2
  <2>2. CASE ~Removes
    <3>1. objects \subseteq objects'
      BY <1>1, <2>2
      DEF StoNext, ObjectsCard, setPrefix, setAppliedPrefix, ObjectsFetched, remove, RemovalEnds, ObjectStored, stoVars
    <3> QED
      BY <3>1
  <2> QED
    BY <2>1, <2>2
<1>2. StoTypeInv /\ [StoNext]_stoVars
        => [\A k \in objects : k \notin objects' => \E r \in removals : r.key = k]_stoVars
  BY <1>1
<1> QED
  BY <1>2, StoTypeInvInitially, StoTypeInvKept, PTL DEF StoSpec, DeletesWhatWasConfirmed

-----------------------------------------------------------------------------
(* PayloadForm: the filter is read into rows and written again. What Only  *)
(* keeps of a sequence is shown by induction over the sequence.            *)

\* A set of numbers that is not empty has a least one, and one that has 0 and what comes after each has them all.
LEMMA Least == ASSUME NEW T, T \subseteq Nat, T # {} PROVE \E n \in T : \A m \in T : n <= m
<1> DEFINE R == OpToRel(<, Nat)
<1>1. IsWellFoundedOn(R, Nat)
  BY NatLessThanWellFounded
<1>2. \A p \in Nat \X Nat : p \in R <=> p[1] < p[2]
  BY DEF OpToRel
<1> HIDE DEF R
<1>3. PICK x \in T : \A y \in T : ~(<<y, x>> \in R)
  BY <1>1, WFMin
<1>4. ASSUME NEW y \in T PROVE x <= y
  <2> DEFINE p == <<y, x>>
  <2>1. p \in Nat \X Nat /\ p[1] = y /\ p[2] = x /\ p \notin R
    BY <1>3
  <2> HIDE DEF p
  <2>2. ~(y < x)
    BY <1>2, <2>1
  <2> QED
    BY <2>2
<1> QED
  BY <1>4

LEMMA NatSetInduction == ASSUME NEW S, 0 \in S, \A n \in Nat : n \in S => n + 1 \in S PROVE Nat \subseteq S
<1> SUFFICES ASSUME Nat \ S # {} PROVE FALSE
  OBVIOUS
<1>1. PICK n \in Nat \ S : \A m \in Nat \ S : n <= m
  <2> DEFINE T == Nat \ S
  <2>1. T \subseteq Nat /\ T # {}
    OBVIOUS
  <2> HIDE DEF T
  <2>2. \E n \in T : \A m \in T : n <= m
    BY <2>1, Least
  <2> QED
    BY <2>2 DEF T
<1>2. n # 0 /\ n - 1 \in Nat /\ ~(n <= n - 1)
  BY <1>1
<1>3. n - 1 \in S
  BY <1>1, <1>2
<1> QED
  BY <1>1, <1>2, <1>3

\* What the first n members of s leave, for every n up to m.
IsOnly(f, s, S, m) ==
    f = [n \in 0 .. m |-> IF n = 0 THEN <<>> ELSE IF s[n] \in S THEN Append(f[n - 1], s[n]) ELSE f[n - 1]]

LEMMA OnlyIsDefined == ASSUME NEW s, NEW S PROVE \A m \in Nat : \E f : IsOnly(f, s, S, m)
<1> DEFINE E == {m \in Nat : \E f : IsOnly(f, s, S, m)}
<1>1. 0 \in E
  <2> DEFINE f == [n \in 0 .. 0 |-> <<>>]
  <2>1. f = [n \in 0 .. 0 |-> IF n = 0 THEN <<>> ELSE IF s[n] \in S THEN Append(f[n - 1], s[n]) ELSE f[n - 1]]
    OBVIOUS
  <2> QED
    BY <2>1 DEF IsOnly
<1>2. ASSUME NEW m \in Nat, m \in E PROVE m + 1 \in E
  <2>1. PICK f : IsOnly(f, s, S, m)
    BY <1>2
  <2> DEFINE g == [n \in 0 .. m + 1 |->
                     IF n = m + 1 THEN IF s[n] \in S THEN Append(f[m], s[n]) ELSE f[m] ELSE f[n]]
  <2>2. \A n \in 0 .. m : g[n] = f[n]
    OBVIOUS
  <2>3. \A n \in 0 .. m : f[n] = IF n = 0 THEN <<>> ELSE IF s[n] \in S THEN Append(f[n - 1], s[n]) ELSE f[n - 1]
    BY <2>1 DEF IsOnly
  <2>4. g[m + 1] = IF s[m + 1] \in S THEN Append(g[m], s[m + 1]) ELSE g[m]
    BY <2>2
  <2>5. DOMAIN g = 0 .. m + 1
    OBVIOUS
  <2>6. \A n \in 0 .. m + 1 : n = m + 1 \/ n \in 0 .. m
    OBVIOUS
  <2>7. \A n \in 1 .. m : n - 1 \in 0 .. m /\ n \in 0 .. m
    OBVIOUS
  <2>a. m + 1 - 1 = m /\ m + 1 # 0 /\ \A n \in 0 .. m : n = 0 \/ n \in 1 .. m
    OBVIOUS
  <2> DEFINE h == [n \in 0 .. m + 1 |-> IF n = 0 THEN <<>> ELSE IF s[n] \in S THEN Append(g[n - 1], s[n]) ELSE g[n - 1]]
  <2>8. ASSUME NEW n \in 0 .. m + 1 PROVE g[n] = h[n]
    <3>0. h[n] = IF n = 0 THEN <<>> ELSE IF s[n] \in S THEN Append(g[n - 1], s[n]) ELSE g[n - 1]
      OBVIOUS
    <3> HIDE DEF g, h
    <3>1. CASE n = m + 1
      BY <2>4, <2>a, <3>0, <3>1
    <3>2. CASE n = 0
      BY <2>2, <2>3, <3>0, <3>2
    <3>3. CASE n \in 1 .. m
      BY <2>2, <2>3, <2>7, <3>0, <3>3
    <3> QED
      BY <2>6, <2>a, <3>1, <3>2, <3>3
  <2>9. g = h
    BY <2>8
  <2>10. IsOnly(g, s, S, m + 1)
    <3> HIDE DEF g
    <3> QED BY <2>9 DEF IsOnly
  <2> HIDE DEF g, h
  <2> QED
    BY <2>10
<1> HIDE DEF E
<1>3. Nat \subseteq E
  BY <1>1, <1>2, NatSetInduction
<1> QED
  BY <1>3 DEF E

LEMMA OnlyUnfolds ==
    ASSUME NEW s, NEW S, Len(s) \in Nat
    PROVE  \E f : Only(s, S) = f[Len(s)] /\ IsOnly(f, s, S, Len(s))
<1> DEFINE f == CHOOSE f : IsOnly(f, s, S, Len(s))
<1>1. IsOnly(f, s, S, Len(s))
  BY OnlyIsDefined
<1>2. Only(s, S) = f[Len(s)]
  BY DEF Only, IsOnly
<1> QED
  BY <1>1, <1>2

\* What the sequence q keeps of the first n members of s.
Places(s, S, n) == {k \in 1 .. n : s[k] \in S}
Keeps(q, s, S, n) ==
    \E pos \in [Places(s, S, n) -> DOMAIN q] :
        /\ \A k \in Places(s, S, n) : q[pos[k]] = s[k]
        /\ \A k, m \in Places(s, S, n) : k # m => pos[k] # pos[m]

\* One more member is appended, or left out.
LEMMA KeepsOneMore ==
    ASSUME NEW T, NEW s, NEW S, NEW q \in Seq(T), NEW n \in Nat, Keeps(q, s, S, n), s[n + 1] \in T
    PROVE  /\ s[n + 1] \notin S => Keeps(q, s, S, n + 1)
           /\ s[n + 1] \in S => Keeps(Append(q, s[n + 1]), s, S, n + 1)
<1>1. PICK pos \in [Places(s, S, n) -> DOMAIN q] :
        /\ \A k \in Places(s, S, n) : q[pos[k]] = s[k]
        /\ \A k, m \in Places(s, S, n) : k # m => pos[k] # pos[m]
  BY DEF Keeps
<1>2. \A k \in 1 .. n + 1 : k = n + 1 \/ k \in 1 .. n
  OBVIOUS
<1>3. n + 1 \notin 1 .. n /\ n + 1 \in 1 .. n + 1 /\ \A k \in 1 .. n : k \in 1 .. n + 1
  OBVIOUS
<1>4. CASE s[n + 1] \notin S
  <2>1. Places(s, S, n + 1) = Places(s, S, n)
    BY <1>2, <1>3, <1>4 DEF Places
  <2> QED
    BY <1>1, <1>4, <2>1 DEF Keeps
<1>5. CASE s[n + 1] \in S
  <2>1. Places(s, S, n + 1) = Places(s, S, n) \cup {n + 1} /\ n + 1 \notin Places(s, S, n)
    BY <1>2, <1>3, <1>5 DEF Places
  <2> DEFINE longer == Append(q, s[n + 1])
  <2>2. /\ Len(q) \in Nat /\ DOMAIN q = 1 .. Len(q) /\ DOMAIN longer = 1 .. Len(q) + 1
        /\ longer[Len(q) + 1] = s[n + 1] /\ \A i \in DOMAIN q : longer[i] = q[i]
    OBVIOUS
  <2>3. /\ Len(q) + 1 \in DOMAIN longer /\ Len(q) + 1 \notin DOMAIN q /\ DOMAIN q \subseteq DOMAIN longer
    BY <2>2
  <2> HIDE DEF longer
  <2> DEFINE Old == Places(s, S, n)
             place == [k \in Old \cup {n + 1} |-> IF k = n + 1 THEN Len(q) + 1 ELSE pos[k]]
  <2>4. \A k \in Old : place[k] = pos[k] /\ pos[k] \in DOMAIN q
    BY <1>1, <2>1
  <2>5. place[n + 1] = Len(q) + 1 /\ DOMAIN place = Old \cup {n + 1}
    OBVIOUS
  <2>6. place \in [Old \cup {n + 1} -> DOMAIN longer]
    BY <2>3, <2>4, <2>5
  <2> HIDE DEF place
  <2>7. \A k \in Old \cup {n + 1} : longer[place[k]] = s[k]
    BY <1>1, <2>2, <2>4, <2>5
  <2>8. \A k, m \in Old \cup {n + 1} : k # m => place[k] # place[m]
    BY <1>1, <2>3, <2>4, <2>5
  <2>9. Keeps(longer, s, S, n + 1)
    BY <2>1, <2>6, <2>7, <2>8 DEF Keeps
  <2> QED
    BY <1>5, <2>9 DEF longer
<1> QED
  BY <1>4, <1>5

LEMMA OnlyKeeps ==
    ASSUME NEW T, NEW s \in Seq(T), NEW S
    PROVE  /\ Only(s, S) \in Seq(T \cap S) /\ Len(Only(s, S)) <= Len(s)
           /\ Keeps(Only(s, S), s, S, Len(s))
           /\ Len(s) > 0 /\ s[Len(s)] \notin S => Len(Only(s, S)) < Len(s)
<1>0. Len(s) \in Nat /\ \A n \in 1 .. Len(s) : s[n] \in T
  OBVIOUS
<1>1. PICK f : Only(s, S) = f[Len(s)] /\ IsOnly(f, s, S, Len(s))
  BY <1>0, OnlyUnfolds
<1>2. \A n \in 0 .. Len(s) :
        f[n] = IF n = 0 THEN <<>> ELSE IF s[n] \in S THEN Append(f[n - 1], s[n]) ELSE f[n - 1]
  BY <1>1 DEF IsOnly
<1> DEFINE Good(n) == f[n] \in Seq(T \cap S) /\ Len(f[n]) <= n /\ Keeps(f[n], s, S, n)
           E == {n \in Nat : n <= Len(s) => Good(n)}
<1>3. Good(0)
  <2>1. f[0] = <<>>
    BY <1>0, <1>2
  <2>2. f[0] \in Seq(T \cap S) /\ Len(f[0]) = 0 /\ DOMAIN f[0] = 1 .. 0
    BY <2>1
  <2>3. Places(s, S, 0) = {}
    BY DEF Places
  <2>4. [k \in {} |-> 0] \in [{} -> DOMAIN f[0]]
    OBVIOUS
  <2>5. Keeps(f[0], s, S, 0)
    BY <2>3, <2>4 DEF Keeps
  <2> QED
    BY <2>2, <2>5
<1>4. ASSUME NEW n \in Nat, n + 1 <= Len(s), Good(n) PROVE Good(n + 1)
  <2>1. n + 1 \in 0 .. Len(s) /\ n + 1 # 0 /\ n + 1 - 1 = n /\ n + 1 \in 1 .. Len(s)
    BY <1>0, <1>4
  <2>2. s[n + 1] \in T /\ f[n + 1] = IF s[n + 1] \in S THEN Append(f[n], s[n + 1]) ELSE f[n]
    BY <1>0, <1>2, <2>1
  <2> DEFINE q == f[n]
             x == s[n + 1]
  <2>3. q \in Seq(T \cap S) /\ Len(q) \in Nat /\ Len(q) <= n /\ Keeps(q, s, S, n)
    BY <1>4
  <2> HIDE DEF q
  <2>4. /\ x \notin S => Keeps(q, s, S, n + 1)
        /\ x \in S => Keeps(Append(q, x), s, S, n + 1)
    <3>1. q \in Seq(T)
      BY <2>3
    <3> QED
      BY <2>2, <2>3, <3>1, KeepsOneMore
  <2>5. CASE x \in S
    <3>1. f[n + 1] = Append(q, x)
      BY <2>2, <2>5 DEF q
    <3>2. Append(q, x) \in Seq(T \cap S) /\ Len(Append(q, x)) = Len(q) + 1
      BY <2>2, <2>3, <2>5
    <3> QED
      BY <2>3, <2>4, <2>5, <3>1, <3>2
  <2>6. CASE x \notin S
    <3>1. f[n + 1] = q
      BY <2>2, <2>6 DEF q
    <3> QED
      BY <2>3, <2>4, <2>6, <3>1
  <2> QED
    BY <2>5, <2>6
<1> HIDE DEF Good
<1>5. Nat \subseteq E
  <2>1. 0 \in E
    BY <1>3
  <2>2. ASSUME NEW n \in Nat, n \in E PROVE n + 1 \in E
    <3>1. n + 1 <= Len(s) => n <= Len(s)
      BY <1>0
    <3> QED
      BY <1>4, <2>2, <3>1
  <2> HIDE DEF E
  <2> QED
    BY <2>1, <2>2, NatSetInduction
<1>6. \A n \in Nat : n <= Len(s) => Good(n)
  BY <1>5
<1>7. Good(Len(s))
  BY <1>0, <1>6
<1>8. ASSUME Len(s) > 0, s[Len(s)] \notin S PROVE Len(Only(s, S)) < Len(s)
  <2>1. Len(s) \in 0 .. Len(s) /\ Len(s) # 0 /\ Len(s) - 1 \in Nat /\ Len(s) - 1 <= Len(s)
    BY <1>0, <1>8
  <2>2. f[Len(s)] = f[Len(s) - 1]
    BY <1>2, <1>8, <2>1
  <2>3. Good(Len(s) - 1)
    BY <1>6, <2>1
  <2>4. Len(f[Len(s) - 1]) \in Nat /\ Len(f[Len(s) - 1]) <= Len(s) - 1
    BY <2>3 DEF Good
  <2> QED
    BY <1>0, <1>1, <2>2, <2>4
<1> QED
  BY <1>1, <1>7, <1>8 DEF Good

-----------------------------------------------------------------------------
(* The rows of a filter, and the filter written of rows.                   *)

\* A sequence made of another one, member by member.
LEMMA MappedSeq ==
    ASSUME NEW S, NEW T, NEW s \in Seq(S), NEW t, DOMAIN t = DOMAIN s, t = [i \in DOMAIN s |-> t[i]],
           \A i \in DOMAIN s : t[i] \in T
    PROVE  t \in Seq(T) /\ Len(t) = Len(s)
<1>1. Len(s) \in Nat /\ DOMAIN s = 1 .. Len(s)
  OBVIOUS
<1>2. t \in [1 .. Len(s) -> T]
  BY <1>1
<1> QED
  BY <1>1, <1>2

Readable == {c \in Clauses : c.field # "odd"}
Named == {r \in ConditionRows : r.field # ""}

LEMMA LayersBound == MaxLayers \in Nat /\ MaxLayers # 0 /\ 0 \in 0 .. MaxLayers
                     /\ \A n \in 1 .. MaxLayers : n \in 0 .. MaxLayers
<1>1. MaxLayers \in Nat \ {0}
  BY PayAssumption
<1> QED
  BY <1>1

LEMMA ClauseBound == MaxClauses \in Nat /\ 0 \in 0 .. MaxClauses
<1>1. MaxClauses \in Nat
  BY PayAssumption
<1> QED
  BY <1>1

\* The parts of a filter, by what they compare with.
Simples == [field : PayFields, op : {"="}, text : {"number", "literal", "digits", "quotedLiteral", "bare", "opens"},
            layers : {0}, depth : {0}]
Words == [field : PayFields, op : {"="}, text : {"word"}, layers : {0}, depth : Depths]
Apostrophes == [field : PayFields, op : {"="}, text : {"apostrophe"}, layers : 0 .. MaxLayers, depth : Depths]
NullTests == [field : PayFields, op : {"IS NULL"}, text : {"none"}, layers : {0}, depth : {0}]
Memberships == [field : PayFields, op : {"IN"}, text : {"list"}, layers : 1 .. MaxLayers, depth : Depths]
Odds == [field : {"odd"}, op : {"="}, text : {"bare"}, layers : {0}, depth : Depths]
LEMMA ClausesAre == Clauses = Simples \cup Words \cup Apostrophes \cup NullTests \cup Memberships \cup Odds
  BY DEF Clauses, Simples, Words, Apostrophes, NullTests, Memberships, Odds
LEMMA ReadableParts == Readable \subseteq Simples \cup Words \cup Apostrophes \cup NullTests \cup Memberships
<1>1. \A c \in Odds : c.field = "odd"
  BY DEF Odds
<1> QED
  BY <1>1, ClausesAre DEF Readable

LEMMA ClauseTypes ==
    /\ OddClause \in Clauses /\ OddClause.field = "odd"
    /\ \A d \in Depths : [OddClause EXCEPT !.depth = d] \in Clauses
    /\ \A f \in PayFields : /\ Clause(f, "IS NULL", "none", 0, 0) \in Clauses
                            /\ Clause(f, "=", "number", 0, 0) \in Clauses
                            /\ Clause(f, "=", "literal", 0, 0) \in Clauses
                            /\ Clause(f, "=", "opens", 0, 0) \in Clauses
    /\ \A f \in PayFields : \A d \in Depths :
         /\ Clause(f, "=", "word", 0, d) \in Clauses
         /\ \A n \in 0 .. MaxLayers : Clause(f, "=", "apostrophe", n, d) \in Clauses
         /\ \A n \in 1 .. MaxLayers : Clause(f, "IN", "list", n, d) \in Clauses
<1>1. /\ OddClause \in Odds /\ OddClause.field = "odd"
      /\ \A d \in Depths : [OddClause EXCEPT !.depth = d] \in Odds
  BY DEF OddClause, Clause, Odds, Depths
<1>2. \A f \in PayFields : Clause(f, "IS NULL", "none", 0, 0) \in NullTests
  BY DEF Clause, NullTests
<1>3. \A f \in PayFields : /\ Clause(f, "=", "number", 0, 0) \in Simples
                           /\ Clause(f, "=", "literal", 0, 0) \in Simples
                           /\ Clause(f, "=", "opens", 0, 0) \in Simples
  BY DEF Clause, Simples
<1>4. \A f \in PayFields : \A d \in Depths :
         /\ Clause(f, "=", "word", 0, d) \in Words
         /\ \A n \in 0 .. MaxLayers : Clause(f, "=", "apostrophe", n, d) \in Apostrophes
         /\ \A n \in 1 .. MaxLayers : Clause(f, "IN", "list", n, d) \in Memberships
  BY DEF Clause, Words, Apostrophes, Memberships
<1> QED
  BY <1>1, <1>2, <1>3, <1>4, ClausesAre

\* A part with what it swallows is a part.
LEMMA SwallowingIsClause ==
    ASSUME NEW c \in Clauses, c.depth # 0, NEW d \in {0, c.depth}
    PROVE  [c EXCEPT !.text = IF @ = "word" THEN "apostrophe" ELSE @, !.depth = d] \in Clauses
<1> DEFINE joined == [c EXCEPT !.text = IF @ = "word" THEN "apostrophe" ELSE @, !.depth = d]
<1>1. d \in Depths
  <2>1. c.depth \in Depths
    BY ClausesAre DEF Simples, Words, Apostrophes, NullTests, Memberships, Odds, Depths
  <2> QED
    BY <2>1 DEF Depths
<1>2. c \in Words \cup Apostrophes \cup Memberships \cup Odds
  BY ClausesAre DEF Simples, NullTests
<1>3. CASE c \in Words
  <2>1. joined \in Apostrophes
    BY <1>1, <1>3, LayersBound DEF Words, Apostrophes
  <2> QED
    BY <2>1, ClausesAre
<1>4. CASE c \in Apostrophes
  <2>1. joined \in Apostrophes
    BY <1>1, <1>4 DEF Apostrophes
  <2> QED
    BY <2>1, ClausesAre
<1>5. CASE c \in Memberships
  <2>1. joined \in Memberships
    BY <1>1, <1>5 DEF Memberships
  <2> QED
    BY <2>1, ClausesAre
<1>6. CASE c \in Odds
  <2>1. joined \in Odds
    BY <1>1, <1>6 DEF Odds
  <2> QED
    BY <2>1, ClausesAre
<1> QED
  BY <1>2, <1>3, <1>4, <1>5, <1>6

\* The parts that are read: as many as the filter has, and the same before any parenthesis is left open.
LEMMA PartsAreClauses ==
    ASSUME NEW filter \in Seq(Clauses)
    PROVE  /\ splitTopAnd(filter) \in Seq(Clauses) /\ Len(splitTopAnd(filter)) = Len(filter)
           /\ \A k \in DOMAIN filter : Faithful(filter, k) => splitTopAnd(filter)[k] = filter[k]
<1> DEFINE parts == splitTopAnd(filter)
           part(k) == IF ~Balanced(filter, k - 1) THEN OddClause
                      ELSE IF filter[k].depth = 0 \/ k = Len(filter) THEN filter[k] ELSE Joined(filter, k)
<1>1. parts = [k \in DOMAIN filter |-> part(k)]
  BY DEF splitTopAnd
<1>2. DOMAIN parts = DOMAIN filter /\ \A k \in DOMAIN filter : parts[k] = part(k)
  BY <1>1
<1>3. ASSUME NEW k \in DOMAIN filter PROVE part(k) \in Clauses
  <2>1. filter[k] \in Clauses
    OBVIOUS
  <2>2. filter[k].depth # 0 => Joined(filter, k) \in Clauses
    <3> DEFINE d == IF \E n \in k + 1 .. Len(filter) : Balanced(filter, n) THEN 0 ELSE filter[k].depth
    <3>1. Joined(filter, k) = [filter[k] EXCEPT !.text = IF @ = "word" THEN "apostrophe" ELSE @, !.depth = d]
      BY DEF Joined
    <3>2. d \in {0, filter[k].depth}
      OBVIOUS
    <3> HIDE DEF d
    <3> QED
      BY <2>1, <3>1, <3>2, SwallowingIsClause
  <2> QED
    BY <2>1, <2>2, ClauseTypes
<1>4. ASSUME NEW k \in DOMAIN filter, Faithful(filter, k) PROVE part(k) = filter[k]
  <2>1. \A j \in 1 .. k - 1 : filter[j].depth = 0
    BY <1>4 DEF Faithful
  <2>2. {j \in 1 .. k - 1 : filter[j].depth = 1} = {j \in 1 .. k - 1 : filter[j].depth = -1}
    BY <2>1
  <2>3. Balanced(filter, k - 1)
    BY <2>2 DEF Balanced, Count
  <2>4. filter[k].depth = 0
    BY <1>4 DEF Faithful, Plain
  <2> QED
    BY <2>3, <2>4
<1> HIDE DEF parts, part
<1>5. parts = [k \in DOMAIN filter |-> parts[k]]
  BY <1>1, <1>2
<1>6. parts \in Seq(Clauses) /\ Len(parts) = Len(filter)
  BY <1>2, <1>3, <1>5, MappedSeq
<1> QED
  BY <1>2, <1>4, <1>6 DEF parts

\* What the form reads of a part is a row, and the same again if the part is one it can write.
LEMMA StrippedIsRow ==
    ASSUME NEW c \in Readable
    PROVE  stripQuotes(c) \in ConditionRows /\ (Plain(c) => stripQuotes(c) = c)
<1> DEFINE t == CASE c.text = "digits" -> "number" [] c.text = "quotedLiteral" -> "literal" [] c.text = "bare" -> "word"
                  [] c.text = "opens" -> "apostrophe" [] OTHER -> c.text
           Known == {"number", "literal", "digits", "quotedLiteral", "bare", "opens", "word", "apostrophe", "none", "list"}
<1>1. c \in [field : PayFields, op : {"=", "IN", "IS NULL"}, text : Known, layers : 0 .. MaxLayers, depth : Depths]
  <2>1. CASE c \in Simples
    BY <2>1, LayersBound DEF Simples, Depths
  <2>2. CASE c \in Words
    BY <2>2, LayersBound DEF Words
  <2>3. CASE c \in Apostrophes
    BY <2>3 DEF Apostrophes
  <2>4. CASE c \in NullTests
    BY <2>4, LayersBound DEF NullTests, Depths
  <2>5. CASE c \in Memberships
    BY <2>5, LayersBound DEF Memberships
  <2> QED
    BY <2>1, <2>2, <2>3, <2>4, <2>5, ReadableParts
<1>2. stripQuotes(c) = [c EXCEPT !.text = t]
  BY DEF stripQuotes
<1>3. t \in {"number", "literal", "word", "apostrophe", "half", "none", "list"}
  BY <1>1
<1>4. Plain(c) => t = c.text
  BY DEF Plain
<1> HIDE DEF t
<1>5. stripQuotes(c) \in ConditionRows
  BY <1>1, <1>2, <1>3 DEF ConditionRows
<1>6. Plain(c) => stripQuotes(c) = c
  BY <1>1, <1>2, <1>4
<1> QED
  BY <1>5, <1>6

LEMMA OneMoreIsBounded ==
    ASSUME NEW n \in 0 .. MaxLayers PROVE OneMore(n) \in 1 .. MaxLayers /\ OneMore(n) \in 0 .. MaxLayers
<1>1. MaxLayers \in Nat /\ MaxLayers # 0 /\ n \in Nat /\ n <= MaxLayers
  BY LayersBound
<1>2. OneMore(n) = IF n < MaxLayers THEN n + 1 ELSE MaxLayers
  BY DEF OneMore
<1>3. CASE n < MaxLayers
  BY <1>1, <1>2, <1>3
<1>4. CASE ~(n < MaxLayers)
  BY <1>1, <1>2, <1>4
<1> QED
  BY <1>3, <1>4

\* What the form writes of a row is a part of a filter, and the row itself if it was read from such a part.
LEMMA WrittenIsClause ==
    ASSUME NEW r \in Named, r.field # "odd"
    PROVE  Written(r) \in Clauses /\ (r \in Clauses /\ Plain(r) => Written(r) = r)
<1>1. r \in ConditionRows /\ r.field \in PayFields
  BY DEF Named, ConditionRows
<1>2. r.op \in {"=", "IN", "IS NULL"} /\ r.layers \in 0 .. MaxLayers /\ r.depth \in Depths
      /\ r.text \in {"number", "literal", "word", "apostrophe", "half", "none", "list"}
  BY <1>1 DEF ConditionRows
<1>3. OneMore(r.layers) \in 1 .. MaxLayers /\ OneMore(r.layers) \in 0 .. MaxLayers
  BY <1>2, OneMoreIsBounded
<1>4. ASSUME r \in Clauses, Plain(r)
      PROVE  /\ r = Clause(r.field, r.op, r.text, 0, 0)
             /\ \/ r.op = "=" /\ r.text \in {"number", "literal", "word"}
                \/ r.op = "IS NULL" /\ r.text = "none"
  <2>1. r \in Simples \cup Words \cup Apostrophes \cup NullTests \cup Memberships
    BY <1>4, ReadableParts DEF Readable, Plain
  <2>2. r \in Simples \cup Words \cup NullTests
    BY <1>4, <2>1 DEF Plain, Apostrophes, Memberships
  <2>3. CASE r \in Simples
    BY <1>4, <2>3 DEF Plain, Simples, Clause
  <2>4. CASE r \in Words
    BY <1>4, <2>4 DEF Plain, Words, Clause
  <2>5. CASE r \in NullTests
    BY <1>4, <2>5 DEF Plain, NullTests, Clause
  <2> QED
    BY <2>2, <2>3, <2>4, <2>5
<1>5. CASE r.op = "="
  <2>1. CASE r.text = "number"
    <3>1. Written(r) = Clause(r.field, "=", "number", 0, 0)
      BY <1>5, <2>1 DEF Written, Quoted
    <3> QED
      BY <1>1, <1>4, <1>5, <2>1, <3>1, ClauseTypes
  <2>2. CASE r.text = "literal"
    <3>1. Written(r) = Clause(r.field, "=", "literal", 0, 0)
      BY <1>5, <2>2 DEF Written, Quoted
    <3> QED
      BY <1>1, <1>4, <1>5, <2>2, <3>1, ClauseTypes
  <2>3. CASE r.text = "apostrophe"
    <3>1. Written(r) = Clause(r.field, "=", "apostrophe", OneMore(r.layers), r.depth)
      BY <1>5, <2>3 DEF Written, Quoted
    <3> QED
      BY <1>1, <1>2, <1>3, <1>4, <2>3, <3>1, ClauseTypes
  <2>4. CASE r.text = "half"
    <3>1. Written(r) = Clause(r.field, "=", "opens", 0, 0)
      BY <1>5, <2>4 DEF Written, Quoted
    <3> QED
      BY <1>1, <1>4, <2>4, <3>1, ClauseTypes
  <2>5. CASE r.text \in {"word", "none", "list"}
    <3>1. Written(r) = Clause(r.field, "=", "word", 0, r.depth)
      BY <1>5, <2>5 DEF Written, Quoted
    <3>2. Plain(r) => r.depth = 0
      BY DEF Plain
    <3> QED
      BY <1>1, <1>2, <1>4, <1>5, <2>5, <3>1, <3>2, ClauseTypes
  <2> QED
    BY <1>2, <2>1, <2>2, <2>3, <2>4, <2>5
<1>6. CASE r.op = "IN"
  <2>1. Written(r) = Clause(r.field, "IN", "list", OneMore(r.layers), r.depth)
    BY <1>6 DEF Written
  <2>2. ~(r \in Clauses /\ Plain(r))
    BY <1>4, <1>6
  <2> QED
    BY <1>1, <1>2, <1>3, <2>1, <2>2, ClauseTypes
<1>7. CASE r.op = "IS NULL"
  <2>1. Written(r) = Clause(r.field, "IS NULL", "none", 0, 0)
    BY <1>7 DEF Written
  <2> QED
    BY <1>1, <1>4, <1>7, <2>1, ClauseTypes
<1> QED
  BY <1>2, <1>5, <1>6, <1>7

LEMMA ParsedAreRows ==
    ASSUME NEW filter \in Seq(Clauses)
    PROVE  /\ parseFilter(filter) \in Seq(ConditionRows) /\ Len(parseFilter(filter)) <= Len(filter)
           /\ \E pos \in [{k \in DOMAIN filter : Faithful(filter, k)} -> DOMAIN parseFilter(filter)] :
                \A k \in {k \in DOMAIN filter : Faithful(filter, k)} :
                     /\ parseFilter(filter)[pos[k]] = filter[k]
                     /\ \A m \in {k2 \in DOMAIN filter : Faithful(filter, k2)} : k # m => pos[k] # pos[m]
<1> DEFINE parts == splitTopAnd(filter)
           kept == Only(parts, Readable)
           conds == [i \in DOMAIN kept |-> stripQuotes(kept[i])]
           F == {k \in DOMAIN filter : Faithful(filter, k)}
<1>0. /\ parts \in Seq(Clauses) /\ Len(parts) = Len(filter)
      /\ \A k \in F : parts[k] = filter[k] /\ filter[k] \in Clauses
  BY PartsAreClauses
<1>2. parseFilter(filter) = conds
  BY DEF parseFilter, Readable
<1> HIDE DEF parts
<1>1. kept \in Seq(Clauses \cap Readable) /\ Len(kept) <= Len(filter) /\ Keeps(kept, parts, Readable, Len(filter))
  BY <1>0, OnlyKeeps
<1> HIDE DEF kept
<1>3. kept \in Seq(Readable) /\ \A i \in DOMAIN kept : kept[i] \in Readable
  <2>1. Clauses \cap Readable = Readable
    BY DEF Readable
  <2>2. kept \in Seq(Readable)
    BY <1>1, <2>1
  <2> QED
    BY <2>2
<1>4. DOMAIN conds = DOMAIN kept /\ \A i \in DOMAIN kept : conds[i] = stripQuotes(kept[i])
  OBVIOUS
<1>5. conds = [i \in DOMAIN kept |-> conds[i]]
  OBVIOUS
<1> HIDE DEF conds
<1>6. \A i \in DOMAIN kept : conds[i] \in ConditionRows
  BY <1>3, <1>4, StrippedIsRow
<1>7. conds \in Seq(ConditionRows) /\ Len(conds) = Len(kept)
  BY <1>3, <1>4, <1>5, <1>6, MappedSeq
<1> DEFINE P == Places(parts, Readable, Len(filter))
<1>8. PICK place \in [P -> DOMAIN kept] :
        /\ \A k \in P : kept[place[k]] = parts[k]
        /\ \A k, m \in P : k # m => place[k] # place[m]
  BY <1>1 DEF Keeps
<1>9. \A k \in F : k \in P /\ Plain(parts[k])
  <2> SUFFICES ASSUME NEW k \in F PROVE k \in P /\ Plain(parts[k])
    OBVIOUS
  <2>1. k \in 1 .. Len(filter) /\ Plain(filter[k]) /\ parts[k] = filter[k] /\ filter[k] \in Clauses
    BY <1>0, LenProperties DEF Faithful
  <2>2. parts[k] \in Readable
    BY <2>1 DEF Readable, Plain
  <2> QED
    BY <2>1, <2>2 DEF Places
<1> HIDE DEF P, F
<1> DEFINE pos == [k \in F |-> place[k]]
<1>10. pos \in [F -> DOMAIN conds] /\ \A k \in F : pos[k] = place[k]
  BY <1>4, <1>8, <1>9
<1> HIDE DEF pos
<1>11. ASSUME NEW k \in F PROVE conds[pos[k]] = filter[k]
  <2>1. place[k] \in DOMAIN kept /\ kept[place[k]] = parts[k] /\ Plain(parts[k])
    BY <1>8, <1>9
  <2>2. conds[place[k]] = parts[k]
    BY <1>3, <1>4, <2>1, StrippedIsRow
  <2> QED
    BY <1>0, <1>10, <2>2
<1>12. \A k \in F : \A m \in F : k # m => pos[k] # pos[m]
  BY <1>8, <1>9, <1>10
<1>13. Len(conds) <= Len(filter)
  BY <1>1, <1>7
<1> QED
  BY <1>2, <1>7, <1>10, <1>11, <1>12, <1>13 DEF F

LEMMA WrittenAreClauses ==
    ASSUME NEW conds \in Seq(ConditionRows)
    PROVE  /\ serialiseFilter(conds) \in Seq(Clauses) /\ Len(serialiseFilter(conds)) <= Len(conds)
           /\ Len(conds) > 0 /\ conds[Len(conds)].field = "" => Len(serialiseFilter(conds)) < Len(conds)
           /\ \A i \in DOMAIN conds : conds[i] \in Readable /\ Plain(conds[i])
                => Contains(serialiseFilter(conds), conds[i])
<1> DEFINE kept == Only(conds, Named)
           Part(r) == IF r.field = "odd" THEN [OddClause EXCEPT !.depth = r.depth] ELSE Written(r)
           parts == [i \in DOMAIN kept |-> Part(kept[i])]
<1>1. /\ kept \in Seq(ConditionRows \cap Named) /\ Len(kept) <= Len(conds) /\ Keeps(kept, conds, Named, Len(conds))
      /\ Len(conds) > 0 /\ conds[Len(conds)] \notin Named => Len(kept) < Len(conds)
  BY OnlyKeeps
<1>2. serialiseFilter(conds) = parts
  BY DEF serialiseFilter, Named
<1> HIDE DEF kept
<1>3. kept \in Seq(Named) /\ \A i \in DOMAIN kept : kept[i] \in Named
  <2>1. ConditionRows \cap Named = Named
    BY DEF Named
  <2>2. kept \in Seq(Named)
    BY <1>1, <2>1
  <2> QED
    BY <2>2
<1>4. DOMAIN parts = DOMAIN kept /\ \A i \in DOMAIN kept : parts[i] = Part(kept[i])
  OBVIOUS
<1>5. parts = [i \in DOMAIN kept |-> parts[i]]
  OBVIOUS
<1> HIDE DEF parts
<1>6. \A r \in Named : Part(r) \in Clauses
  <2>1. \A r \in Named : r.depth \in Depths
    BY DEF Named, ConditionRows
  <2> QED
    BY <2>1, WrittenIsClause, ClauseTypes
<1>7. \A r \in Named : r \in Readable /\ Plain(r) => Part(r) = r
  BY WrittenIsClause DEF Readable
<1> HIDE DEF Part
<1>8. parts \in Seq(Clauses) /\ Len(parts) = Len(kept)
  BY <1>3, <1>4, <1>5, <1>6, MappedSeq
<1>9. PICK pos \in [Places(conds, Named, Len(conds)) -> DOMAIN kept] :
        \A k \in Places(conds, Named, Len(conds)) : kept[pos[k]] = conds[k]
  BY <1>1 DEF Keeps
<1>10. ASSUME NEW i \in DOMAIN conds, conds[i] \in Readable, Plain(conds[i]) PROVE Contains(parts, conds[i])
  <2>1. i \in 1 .. Len(conds) /\ conds[i] \in ConditionRows
    OBVIOUS
  <2>2. conds[i].field # ""
    <3>1. conds[i].field \in PayFields
      BY <1>10, ReadableParts DEF Simples, Words, Apostrophes, NullTests, Memberships
    <3> QED
      BY <3>1, PayAssumption
  <2>3. i \in Places(conds, Named, Len(conds))
    BY <2>1, <2>2 DEF Places, Named
  <2>4. pos[i] \in DOMAIN kept /\ kept[pos[i]] = conds[i] /\ conds[i] \in Named
    BY <1>3, <1>9, <2>3
  <2>5. parts[pos[i]] = conds[i]
    BY <1>4, <1>7, <1>10, <2>4
  <2>6. pos[i] \in 1 .. Len(parts)
    BY <1>4, <1>8, <2>4
  <2> QED
    BY <2>5, <2>6 DEF Contains
<1>11. Len(conds) > 0 /\ conds[Len(conds)].field = "" => Len(parts) < Len(conds)
  BY <1>1, <1>8 DEF Named
<1> QED
  BY <1>1, <1>2, <1>8, <1>10, <1>11

LEMMA BoundedSeqs ==
    ASSUME NEW T, NEW s, NEW n \in Nat
    PROVE  s \in SeqOf(T, n) <=> s \in Seq(T) /\ Len(s) <= n
<1>1. ASSUME s \in SeqOf(T, n) PROVE s \in Seq(T) /\ Len(s) <= n
  <2>1. PICK m \in 0 .. n : s \in [1 .. m -> T]
    BY <1>1 DEF SeqOf
  <2>2. m \in Nat /\ m <= n
    OBVIOUS
  <2>3. s \in Seq(T) /\ Len(s) = m
    BY <2>1, <2>2
  <2> QED
    BY <2>2, <2>3
<1>2. ASSUME s \in Seq(T), Len(s) <= n PROVE s \in SeqOf(T, n)
  <2>1. s \in [1 .. Len(s) -> T] /\ Len(s) \in Nat
    BY <1>2, LenProperties
  <2>2. Len(s) \in 0 .. n
    BY <1>2, <2>1
  <2> QED
    BY <2>1, <2>2 DEF SeqOf
<1> QED
  BY <1>1, <1>2

LEMMA EditedRows == ASSUME NEW r \in ConditionRows, NEW e \in RowEdits(r) PROVE e \in ConditionRows
<1>1. CASE \E f \in PayFields \cup {"", "odd"} : e = [r EXCEPT !.field = f]
  BY <1>1 DEF ConditionRows
<1>2. CASE e \in {[r EXCEPT !.op = "IS NULL"], [r EXCEPT !.op = "IN", !.text = "list", !.layers = 0]}
  BY <1>2, LayersBound DEF ConditionRows
<1>3. CASE \E t \in {"word", "apostrophe"} : e = [r EXCEPT !.op = "=", !.text = t, !.layers = 0]
  BY <1>3, LayersBound DEF ConditionRows
<1>4. CASE \E t \in {"number", "literal", "word", "apostrophe"} : e = [r EXCEPT !.text = t, !.layers = 0, !.depth = 0]
  BY <1>4, LayersBound DEF ConditionRows, Depths
<1>5. CASE \E d \in Depths : e = [r EXCEPT !.text = "word", !.layers = 0, !.depth = d]
  BY <1>5, LayersBound DEF ConditionRows
<1>6. CASE \E d \in Depths : e = [r EXCEPT !.layers = 0, !.depth = d]
  BY <1>6, LayersBound DEF ConditionRows
<1>7. \A t \in CASE r.op = "=" -> {} [] r.op = "IN" -> {"word", "apostrophe"} [] r.op = "IS NULL" -> {"word"} :
        t \in {"word", "apostrophe"}
  BY DEF ConditionRows
<1> QED
  BY <1>1, <1>2, <1>3, <1>4, <1>5, <1>6, <1>7 DEF RowEdits

Reductions == {NoReduce} \cup [op : {"sum", "count"}, field : PayFields \cup {""}]
LEMMA ConfigTypes ==
    /\ \A d \in DSLConfig : /\ d.map \subseteq PayFields /\ d.reduce \in Reductions
                            /\ d.filter \in Seq(Clauses) /\ Len(d.filter) <= MaxClauses
    /\ \A d \in DSLConfig, filter \in Seq(Clauses) :
         Len(filter) <= MaxClauses => [d EXCEPT !.filter = filter] \in DSLConfig
    /\ \A d \in DSLConfig, map \in SUBSET PayFields : [d EXCEPT !.map = map] \in DSLConfig
    /\ \A d \in DSLConfig, reduce \in Reductions : [d EXCEPT !.reduce = reduce] \in DSLConfig
    /\ NewDSL \in DSLConfig
<1> DEFINE Bounded == SeqOf(Clauses, MaxClauses)
<1>1. MaxClauses \in Nat
  BY PayAssumption
<1>2. \A filter : filter \in Bounded <=> filter \in Seq(Clauses) /\ Len(filter) <= MaxClauses
  BY <1>1, BoundedSeqs
<1>3. DSLConfig = [map : SUBSET PayFields, filter : Bounded, reduce : Reductions]
  BY DEF DSLConfig, Reductions
<1>4. <<>> \in Bounded
  <2> DEFINE none == <<>>
  <2>1. none \in Seq(Clauses) /\ Len(none) = 0
    BY EmptySeq
  <2> HIDE DEF none, Bounded
  <2>2. Len(none) <= MaxClauses
    BY <1>1, <2>1
  <2>3. none \in Bounded
    BY <1>2, <2>1, <2>2, Zenon
  <2> QED
    BY <2>3 DEF none
<1> HIDE DEF Bounded
<1>5. NewDSL \in DSLConfig
  BY <1>3, <1>4 DEF NewDSL, Reductions
<1> QED
  BY <1>2, <1>3, <1>5

\* The rows of the value, and what is written of rows made from them: what was not edited is there.
LEMMA OthersAreWritten ==
    ASSUME NEW filter \in Seq(Clauses), Len(filter) <= MaxClauses, NEW conds \in Seq(ConditionRows), NEW i,
           \A j \in DOMAIN parseFilter(filter) \ {i} : \E m \in DOMAIN conds : conds[m] = parseFilter(filter)[j]
    PROVE  \E e \in 0 .. MaxClauses : \A k \in DOMAIN filter \ {e} :
             Faithful(filter, k) => Contains(serialiseFilter(conds), filter[k])
<1> DEFINE old == parseFilter(filter)
           P == {k \in DOMAIN filter : Faithful(filter, k)}
<1>1. PICK pos \in [P -> DOMAIN old] :
        \A k \in P : old[pos[k]] = filter[k] /\ \A m \in P : k # m => pos[k] # pos[m]
  BY ParsedAreRows
<1>2. MaxClauses \in Nat /\ Len(filter) \in Nat /\ DOMAIN filter = 1 .. Len(filter)
  BY PayAssumption, LenProperties
<1>3. P \subseteq 0 .. MaxClauses /\ 0 \in 0 .. MaxClauses
  BY <1>2
<1> HIDE DEF P, old
<1>4. PICK e \in 0 .. MaxClauses : \A k \in P : pos[k] = i => k = e
  <2>1. CASE \E k \in P : pos[k] = i
    <3>1. PICK e \in P : pos[e] = i
      BY <2>1
    <3>2. \A k \in P : pos[k] = i => k = e
      BY <1>1, <3>1
    <3> QED
      BY <1>3, <3>2
  <2>2. CASE ~\E k \in P : pos[k] = i
    BY <1>3, <2>2
  <2> QED
    BY <2>1, <2>2
<1>5. ASSUME NEW k \in DOMAIN filter \ {e}, Faithful(filter, k) PROVE Contains(serialiseFilter(conds), filter[k])
  <2>1. k \in P /\ filter[k] \in Clauses /\ Plain(filter[k])
    BY <1>2, <1>5 DEF P, Faithful
  <2>2. filter[k] \in Readable
    BY <2>1 DEF Readable, Plain
  <2>3. pos[k] \in DOMAIN old \ {i} /\ old[pos[k]] = filter[k]
    BY <1>1, <1>4, <1>5, <2>1
  <2>4. PICK m \in DOMAIN conds : conds[m] = filter[k]
    BY <2>3 DEF old
  <2> QED
    BY <2>1, <2>2, <2>4, WrittenAreClauses
<1> QED
  BY <1>5

\* Rows in which one is replaced by others, or by none: the rest is there.
Replacing(old, i, mid) == (SubSeq(old, 1, i - 1) \o mid) \o SubSeq(old, i + 1, Len(old))

LEMMA PlacesAround ==
    ASSUME NEW n \in Nat, NEW k \in Nat, NEW i \in Nat, 1 <= i, i <= n
    PROVE  /\ ((i - 1) + k) + (n - i) = (n - 1) + k
           /\ \A j \in 1 .. n : j < i => /\ j \in 1 .. i - 1 /\ j \in 1 .. (i - 1) + k /\ j <= i - 1
                                         /\ j <= (i - 1) + k /\ j \in 1 .. ((i - 1) + k) + (n - i)
           /\ \A j \in 1 .. n : i < j => /\ j - i \in 1 .. n - i /\ (j - i) + i = j
                                         /\ ((i - 1) + k) + (j - i) \in 1 .. ((i - 1) + k) + (n - i)
                                         /\ ~(((i - 1) + k) + (j - i) <= (i - 1) + k)
                                         /\ (((i - 1) + k) + (j - i)) - ((i - 1) + k) = j - i
           /\ \A j \in 1 .. n : j # i => j < i \/ i < j
  OBVIOUS

LEMMA HeadOf ==
    ASSUME NEW T, NEW old \in Seq(T), NEW n \in Nat, n = Len(old), NEW i \in Nat, 1 <= i, i <= n
    PROVE  LET a == SubSeq(old, 1, i - 1)
           IN  a \in Seq(T) /\ Len(a) = i - 1 /\ \A j \in 1 .. i - 1 : a[j] = old[j]
  OBVIOUS

LEMMA RestOf ==
    ASSUME NEW T, NEW old \in Seq(T), NEW n \in Nat, n = Len(old), NEW i \in Nat, 1 <= i, i <= n
    PROVE  LET b == SubSeq(old, i + 1, n)
           IN  b \in Seq(T) /\ Len(b) = n - i /\ \A j \in 1 .. n - i : b[j] = old[j + i]
  OBVIOUS

LEMMA Replaced ==
    ASSUME NEW old \in Seq(ConditionRows), NEW mid \in Seq(ConditionRows), NEW i \in DOMAIN old
    PROVE  /\ Replacing(old, i, mid) \in Seq(ConditionRows) /\ Len(Replacing(old, i, mid)) = (Len(old) - 1) + Len(mid)
           /\ \A j \in DOMAIN old \ {i} : \E m \in DOMAIN Replacing(old, i, mid) : Replacing(old, i, mid)[m] = old[j]
<1> DEFINE a == SubSeq(old, 1, i - 1)
           b == SubSeq(old, i + 1, Len(old))
           am == a \o mid
           conds == Replacing(old, i, mid)
           n == Len(old)
           k == Len(mid)
<1>1. n \in Nat /\ k \in Nat /\ i \in Nat /\ 1 <= i /\ i <= n
  BY LenProperties
<1>2. DOMAIN old = 1 .. n
  BY LenProperties
<1>3. a \in Seq(ConditionRows) /\ Len(a) = i - 1 /\ \A j \in 1 .. i - 1 : a[j] = old[j]
  BY <1>1, HeadOf
<1>4. b \in Seq(ConditionRows) /\ Len(b) = n - i /\ \A j \in 1 .. n - i : b[j] = old[j + i]
  BY <1>1, RestOf
<1>5. conds = am \o b
  BY DEF Replacing
<1> HIDE DEF a, b, conds
<1>6. am \in Seq(ConditionRows) /\ Len(am) = (i - 1) + k /\ \A j \in 1 .. (i - 1) + k : am[j] = IF j <= i - 1 THEN a[j] ELSE mid[j - (i - 1)]
  <2>1. /\ am \in Seq(ConditionRows) /\ Len(am) = Len(a) + k
        /\ \A j \in 1 .. Len(a) + k : am[j] = IF j <= Len(a) THEN a[j] ELSE mid[j - Len(a)]
    BY <1>3, ConcatProperties
  <2>2. Len(a) = i - 1
    BY <1>3
  <2> HIDE DEF am, k
  <2> QED
    BY <2>1, <2>2
<1> HIDE DEF am
<1>7. /\ conds \in Seq(ConditionRows) /\ Len(conds) = ((i - 1) + k) + (n - i)
      /\ \A j \in 1 .. ((i - 1) + k) + (n - i) :
           conds[j] = IF j <= (i - 1) + k THEN am[j] ELSE b[j - ((i - 1) + k)]
  <2>1. /\ am \o b \in Seq(ConditionRows) /\ Len(am \o b) = Len(am) + Len(b)
        /\ \A j \in 1 .. Len(am) + Len(b) : (am \o b)[j] = IF j <= Len(am) THEN am[j] ELSE b[j - Len(am)]
    BY <1>4, <1>6, ConcatProperties
  <2>2. /\ conds \in Seq(ConditionRows) /\ Len(conds) = Len(am) + Len(b)
        /\ \A j \in 1 .. Len(am) + Len(b) : conds[j] = IF j <= Len(am) THEN am[j] ELSE b[j - Len(am)]
    BY <1>5, <2>1, Zenon
  <2>3. Len(am) = (i - 1) + k /\ Len(b) = n - i
    BY <1>4, <1>6
  <2> HIDE DEF n, k
  <2> QED
    BY <2>2, <2>3
<1>8. DOMAIN conds = 1 .. ((i - 1) + k) + (n - i)
  <2>1. DOMAIN conds = 1 .. Len(conds)
    BY <1>7, LenProperties
  <2> HIDE DEF n, k
  <2> QED
    BY <1>7, <2>1
<1> HIDE DEF n, k
<1>9. ASSUME NEW j \in 1 .. n, j < i PROVE j \in DOMAIN conds /\ conds[j] = old[j]
  <2>1. /\ j \in 1 .. i - 1 /\ j \in 1 .. (i - 1) + k /\ j <= i - 1
        /\ j <= (i - 1) + k /\ j \in 1 .. ((i - 1) + k) + (n - i)
    BY <1>1, <1>9, PlacesAround
  <2>2. conds[j] = am[j]
    BY <1>7, <2>1
  <2>3. am[j] = a[j]
    BY <1>6, <2>1
  <2>4. a[j] = old[j]
    BY <1>3, <2>1
  <2> QED
    BY <1>8, <2>1, <2>2, <2>3, <2>4
<1>10. ASSUME NEW j \in 1 .. n, i < j PROVE \E m \in DOMAIN conds : conds[m] = old[j]
  <2> DEFINE m == ((i - 1) + k) + (j - i)
  <2>1. /\ j - i \in 1 .. n - i /\ (j - i) + i = j /\ m \in 1 .. ((i - 1) + k) + (n - i)
        /\ ~(m <= (i - 1) + k) /\ m - ((i - 1) + k) = j - i
    BY <1>1, <1>10, PlacesAround
  <2> HIDE DEF m
  <2>2. conds[m] = b[m - ((i - 1) + k)]
    BY <1>7, <2>1
  <2>3. b[j - i] = old[(j - i) + i]
    BY <1>4, <2>1
  <2> QED
    BY <1>8, <2>1, <2>2, <2>3
<1>11. \A j \in DOMAIN old \ {i} : \E m \in DOMAIN conds : conds[m] = old[j]
  <2>1. \A j \in 1 .. n : j # i => j < i \/ i < j
    BY <1>1, PlacesAround
  <2> QED
    BY <1>2, <1>9, <1>10, <2>1
<1>12. Len(conds) = (n - 1) + k
  BY <1>1, <1>7, PlacesAround
<1> QED
  BY <1>7, <1>11, <1>12 DEF conds, n, k

\* The rows after an edit: they are rows, and the others are among them.
LEMMA RowsAfterEdit ==
    ASSUME NEW old \in Seq(ConditionRows)
    PROVE  /\ \A i \in DOMAIN old : \A r \in RowEdits(old[i]) :
                LET conds == [old EXCEPT ![i] = r]
                IN  /\ conds \in Seq(ConditionRows) /\ Len(conds) = Len(old)
                    /\ \A j \in DOMAIN old \ {i} : \E m \in DOMAIN conds : conds[m] = old[j]
           /\ \A i \in DOMAIN old : \A half \in OtherHalf :
                LET conds == WithAnd(old, i, half)
                IN  /\ conds \in Seq(ConditionRows) /\ Len(conds) = Len(old) + 1
                    /\ \A j \in DOMAIN old \ {i} : \E m \in DOMAIN conds : conds[m] = old[j]
           /\ \A i \in DOMAIN old :
                LET conds == RemoveAt(old, i)
                IN  /\ conds \in Seq(ConditionRows) /\ Len(conds) <= Len(old)
                    /\ \A j \in DOMAIN old \ {i} : \E m \in DOMAIN conds : conds[m] = old[j]
           /\ LET conds == Append(old, Clause("", "=", "word", 0, 0))
              IN  /\ conds \in Seq(ConditionRows) /\ Len(conds) = Len(old) + 1 /\ conds[Len(conds)].field = ""
                  /\ \A j \in DOMAIN old : \E m \in DOMAIN conds : conds[m] = old[j]
<1>1. Len(old) \in Nat /\ DOMAIN old = 1 .. Len(old)
  BY LenProperties
<1>2. ASSUME NEW i \in DOMAIN old, NEW r \in RowEdits(old[i])
      PROVE  LET conds == [old EXCEPT ![i] = r]
             IN  /\ conds \in Seq(ConditionRows) /\ Len(conds) = Len(old)
                 /\ \A j \in DOMAIN old \ {i} : \E m \in DOMAIN conds : conds[m] = old[j]
  <2>1. r \in ConditionRows
    BY EditedRows
  <2>2. [old EXCEPT ![i] = r] \in Seq(ConditionRows) /\ Len([old EXCEPT ![i] = r]) = Len(old)
    BY <1>1, <2>1, ExceptSeq
  <2>3. \A j \in DOMAIN old \ {i} : [old EXCEPT ![i] = r][j] = old[j]
    OBVIOUS
  <2> QED
    BY <2>2, <2>3
<1>5. ASSUME NEW i \in DOMAIN old, NEW half \in OtherHalf
      PROVE  LET conds == WithAnd(old, i, half)
             IN  /\ conds \in Seq(ConditionRows) /\ Len(conds) = Len(old) + 1
                 /\ \A j \in DOMAIN old \ {i} : \E m \in DOMAIN conds : conds[m] = old[j]
  <2> DEFINE first == [old[i] EXCEPT !.text = "half", !.layers = 0, !.depth = 0]
             halves == <<first, half>>
             conds == WithAnd(old, i, half)
  <2>1. old[i] \in ConditionRows
    OBVIOUS
  <2>2. first \in ConditionRows
    BY <2>1, LayersBound DEF ConditionRows, Depths
  <2>3. half \in ConditionRows
    BY LayersBound DEF ConditionRows, Depths, OtherHalf
  <2>4. conds = Replacing(old, i, halves)
    BY DEF WithAnd, Replacing
  <2> HIDE DEF first
  <2>5. halves \in Seq(ConditionRows) /\ Len(halves) = 2
    BY <2>2, <2>3
  <2> HIDE DEF halves, conds
  <2>a. /\ Replacing(old, i, halves) \in Seq(ConditionRows) /\ Len(Replacing(old, i, halves)) = (Len(old) - 1) + Len(halves)
        /\ \A j \in DOMAIN old \ {i} : \E m \in DOMAIN Replacing(old, i, halves) : Replacing(old, i, halves)[m] = old[j]
    BY <2>5, Replaced
  <2>6. /\ conds \in Seq(ConditionRows) /\ Len(conds) = (Len(old) - 1) + Len(halves)
        /\ \A j \in DOMAIN old \ {i} : \E m \in DOMAIN conds : conds[m] = old[j]
    BY <2>a, <2>4, Zenon
  <2>7. (Len(old) - 1) + 2 = Len(old) + 1
    BY <1>1
  <2> QED
    BY <2>5, <2>6, <2>7 DEF conds
<1>3. ASSUME NEW i \in DOMAIN old
      PROVE  LET conds == RemoveAt(old, i)
             IN  /\ conds \in Seq(ConditionRows) /\ Len(conds) <= Len(old)
                 /\ \A j \in DOMAIN old \ {i} : \E m \in DOMAIN conds : conds[m] = old[j]
  <2> DEFINE none == <<>>
             a == SubSeq(old, 1, i - 1)
             b == SubSeq(old, i + 1, Len(old))
             conds == RemoveAt(old, i)
  <2>1. none \in Seq(ConditionRows) /\ Len(none) = 0
    BY EmptySeq
  <2>2. i - 1 \in Nat
    BY <1>1
  <2>3. a \in Seq(ConditionRows)
    BY <1>1, <2>2
  <2>4. a \o none = a
    <3> HIDE DEF a
    <3> QED
      BY <2>3
  <2>5. conds = Replacing(old, i, none)
    BY <2>4 DEF RemoveAt, Replacing
  <2> HIDE DEF none, conds
  <2>a. /\ Replacing(old, i, none) \in Seq(ConditionRows) /\ Len(Replacing(old, i, none)) = (Len(old) - 1) + Len(none)
        /\ \A j \in DOMAIN old \ {i} : \E m \in DOMAIN Replacing(old, i, none) : Replacing(old, i, none)[m] = old[j]
    BY <2>1, Replaced
  <2>6. /\ conds \in Seq(ConditionRows) /\ Len(conds) = (Len(old) - 1) + Len(none)
        /\ \A j \in DOMAIN old \ {i} : \E m \in DOMAIN conds : conds[m] = old[j]
    BY <2>a, <2>5, Zenon
  <2>7. (Len(old) - 1) + 0 <= Len(old)
    BY <1>1
  <2> QED
    BY <2>1, <2>6, <2>7 DEF conds
<1>4. LET conds == Append(old, Clause("", "=", "word", 0, 0))
      IN  /\ conds \in Seq(ConditionRows) /\ Len(conds) = Len(old) + 1 /\ conds[Len(conds)].field = ""
          /\ \A j \in DOMAIN old : \E m \in DOMAIN conds : conds[m] = old[j]
  <2> DEFINE new == Clause("", "=", "word", 0, 0)
             conds == Append(old, new)
  <2>1. new \in ConditionRows /\ new.field = ""
    BY LayersBound DEF Clause, ConditionRows, Depths
  <2> HIDE DEF new
  <2>2. conds \in Seq(ConditionRows) /\ Len(conds) = Len(old) + 1 /\ conds[Len(old) + 1] = new /\ DOMAIN conds = 1 .. Len(old) + 1
    <3>1. conds \in Seq(ConditionRows) /\ Len(conds) = Len(old) + 1 /\ conds[Len(old) + 1] = new
      BY <2>1, AppendProperties
    <3> QED
      BY <3>1, LenProperties
  <2>3. \A j \in 1 .. Len(old) : conds[j] = old[j] /\ j \in 1 .. Len(old) + 1
    <3>1. \A j \in 1 .. Len(old) : conds[j] = old[j]
      BY <2>1, AppendProperties
    <3>2. \A j \in 1 .. Len(old) : j \in 1 .. Len(old) + 1
      BY <1>1
    <3> QED
      BY <3>1, <3>2
  <2> HIDE DEF conds
  <2>4. conds \in Seq(ConditionRows) /\ Len(conds) = Len(old) + 1 /\ conds[Len(conds)].field = ""
        /\ \A j \in DOMAIN old : \E m \in DOMAIN conds : conds[m] = old[j]
    BY <1>1, <2>1, <2>2, <2>3
  <2> QED
    BY <2>4 DEF conds, new
<1> QED
  BY <1>2, <1>3, <1>4, <1>5

\* Every edit of the conditions keeps the value well typed, and all parts but one.
LEMMA ConditionsKept ==
    ASSUME PayTypeOK, update \/ RemoveRow \/ AddCondition
    PROVE  /\ dsl' \in DSLConfig
           /\ \E e \in 0 .. MaxClauses : \A k \in DOMAIN dsl.filter \ {e} :
                Faithful(dsl.filter, k) => Contains(dsl'.filter, dsl.filter[k])
<1> DEFINE filter == dsl.filter
           old == parseFilter(dsl.filter)
<1>1. dsl \in DSLConfig /\ filter \in Seq(Clauses) /\ Len(filter) <= MaxClauses
      /\ Len(filter) \in Nat /\ MaxClauses \in Nat
  <2>1. dsl \in DSLConfig
    BY DEF PayTypeOK
  <2>2. filter \in Seq(Clauses) /\ Len(filter) <= MaxClauses
    BY <2>1, ConfigTypes
  <2> QED
    BY <2>1, <2>2, ClauseBound, LenProperties
<1>2. old \in Seq(ConditionRows) /\ Len(old) <= Len(filter) /\ Len(old) \in Nat
  <2>1. old \in Seq(ConditionRows) /\ Len(old) <= Len(filter)
    BY <1>1, ParsedAreRows
  <2> QED
    BY <2>1, LenProperties
<1> HIDE DEF old, filter
<1>3. ASSUME NEW conds \in Seq(ConditionRows), NEW i, setConditions(conds), Len(serialiseFilter(conds)) <= MaxClauses,
             \A j \in DOMAIN old \ {i} : \E m \in DOMAIN conds : conds[m] = old[j]
      PROVE  /\ dsl' \in DSLConfig
             /\ \E e \in 0 .. MaxClauses : \A k \in DOMAIN dsl.filter \ {e} :
                  Faithful(dsl.filter, k) => Contains(dsl'.filter, dsl.filter[k])
  <2>1. dsl' = [dsl EXCEPT !.filter = serialiseFilter(conds)]
    BY <1>3 DEF setConditions, onForm, onChange
  <2>2. dsl' \in DSLConfig
    BY <1>1, <1>3, <2>1, WrittenAreClauses, ConfigTypes
  <2>3. dsl'.filter = serialiseFilter(conds)
    BY <1>1, <2>1 DEF DSLConfig
  <2>4. \E e \in 0 .. MaxClauses : \A k \in DOMAIN filter \ {e} :
          Faithful(filter, k) => Contains(serialiseFilter(conds), filter[k])
    BY <1>1, <1>3, OthersAreWritten DEF old, filter
  <2> QED
    BY <2>2, <2>3, <2>4 DEF filter
<1>a. ASSUME NEW conds \in Seq(ConditionRows), Len(conds) <= MaxClauses PROVE Len(serialiseFilter(conds)) <= MaxClauses
  <2> DEFINE length == Len(serialiseFilter(conds))
  <2>1. length \in Nat /\ Len(conds) \in Nat
    BY WrittenAreClauses, LenProperties
  <2>2. length <= Len(conds)
    BY WrittenAreClauses
  <2> HIDE DEF length
  <2>3. length <= MaxClauses
    BY <1>1, <1>2, <1>a, <2>1, <2>2
  <2> QED
    BY <2>3 DEF length
<1>4. CASE update
  <2>0. PICK i \in DOMAIN old :
          \/ \E r \in RowEdits(old[i]) : setConditions([old EXCEPT ![i] = r])
          \/ Len(old) < MaxClauses /\ \E half \in OtherHalf : setConditions(WithAnd(old, i, half))
    BY <1>4 DEF update, old
  <2>1. CASE \E r \in RowEdits(old[i]) : setConditions([old EXCEPT ![i] = r])
    <3>1. PICK r \in RowEdits(old[i]) : setConditions([old EXCEPT ![i] = r])
      BY <2>1
    <3> DEFINE conds == [old EXCEPT ![i] = r]
    <3>2. /\ conds \in Seq(ConditionRows) /\ Len(conds) = Len(old)
          /\ \A j \in DOMAIN old \ {i} : \E m \in DOMAIN conds : conds[m] = old[j]
      BY <1>2, RowsAfterEdit
    <3>3. setConditions(conds)
      BY <3>1
    <3> HIDE DEF conds
    <3>4. Len(conds) <= MaxClauses
      BY <1>1, <1>2, <3>2
    <3> QED
      BY <1>3, <3>2, <3>3, <3>4, <1>a
  <2>2. CASE Len(old) < MaxClauses /\ \E half \in OtherHalf : setConditions(WithAnd(old, i, half))
    <3>1. PICK half \in OtherHalf : setConditions(WithAnd(old, i, half))
      BY <2>2
    <3> DEFINE conds == WithAnd(old, i, half)
    <3>2. /\ conds \in Seq(ConditionRows) /\ Len(conds) = Len(old) + 1
          /\ \A j \in DOMAIN old \ {i} : \E m \in DOMAIN conds : conds[m] = old[j]
      BY <1>2, RowsAfterEdit
    <3>3. setConditions(conds)
      BY <3>1
    <3> HIDE DEF conds
    <3>4. Len(conds) <= MaxClauses
      BY <1>1, <1>2, <2>2, <3>2
    <3> QED
      BY <1>3, <3>2, <3>3, <3>4, <1>a
  <2> QED
    BY <2>0, <2>1, <2>2
<1>5. CASE RemoveRow
  <2>1. PICK i \in DOMAIN old : setConditions(RemoveAt(old, i))
    BY <1>5 DEF RemoveRow, old
  <2> DEFINE conds == RemoveAt(old, i)
  <2>2. /\ conds \in Seq(ConditionRows) /\ Len(conds) <= Len(old)
        /\ \A j \in DOMAIN old \ {i} : \E m \in DOMAIN conds : conds[m] = old[j]
    BY <1>2, RowsAfterEdit
  <2>3. setConditions(conds)
    BY <2>1
  <2> HIDE DEF conds
  <2>4. Len(conds) \in Nat
    BY <2>2, LenProperties
  <2>5. Len(conds) <= MaxClauses
    BY <1>1, <1>2, <2>2, <2>4
  <2> QED
    BY <1>3, <2>2, <2>3, <2>5, <1>a
<1>6. CASE AddCondition
  <2> DEFINE conds == Append(old, Clause("", "=", "word", 0, 0))
  <2>1. setConditions(conds)
    BY <1>6 DEF AddCondition, old
  <2>2. /\ conds \in Seq(ConditionRows) /\ Len(conds) = Len(old) + 1 /\ conds[Len(conds)].field = ""
        /\ \A j \in DOMAIN old \ {0} : \E m \in DOMAIN conds : conds[m] = old[j]
    BY <1>2, RowsAfterEdit
  <2> HIDE DEF conds
  <2>3. Len(serialiseFilter(conds)) <= MaxClauses
    <3> DEFINE last == Len(conds)
               length == Len(serialiseFilter(conds))
    <3>0. last = Len(old) + 1
      BY <2>2
    <3>1. last = Len(old) + 1 /\ last \in Nat /\ last > 0
      <4> HIDE DEF last
      <4> QED
        BY <1>2, <3>0
    <3>2. length \in Nat
      BY <2>2, WrittenAreClauses, LenProperties
    <3>3. length < last
      BY <2>2, <3>1, WrittenAreClauses
    <3> HIDE DEF last, length
    <3>4. length <= MaxClauses
      BY <1>1, <1>2, <3>1, <3>2, <3>3
    <3> QED
      BY <3>4 DEF length
  <2> QED
    BY <1>3, <2>1, <2>2, <2>3
<1> QED
  BY <1>4, <1>5, <1>6

\* Steps that leave the conditions alone.
QuietPayStep ==
    setMode \/ setDraft \/ AddField \/ RemoveField \/ ReduceBuilder \/ setJson \/ UNCHANGED payVars

LEMMA QuietPayKeeps ==
    ASSUME PayTypeOK, QuietPayStep
    PROVE  dsl' \in DSLConfig /\ dsl'.filter = dsl.filter
<1>1. dsl \in DSLConfig /\ dsl.map \subseteq PayFields /\ dsl.reduce \in Reductions /\ mapDraft \in PayFields \cup {""}
  BY ConfigTypes DEF PayTypeOK
<1>2. /\ \A map : [dsl EXCEPT !.map = map].filter = dsl.filter
      /\ \A reduce : [dsl EXCEPT !.reduce = reduce].filter = dsl.filter
  BY <1>1 DEF DSLConfig
<1>3. CASE setMode \/ setDraft \/ setJson \/ UNCHANGED payVars
  BY <1>1, <1>3 DEF setMode, setDraft, setJson, payVars
<1>4. CASE AddField
  <2>1. dsl' = [dsl EXCEPT !.map = dsl.map \cup {mapDraft}] /\ mapDraft \in PayFields
    BY <1>1, <1>4 DEF AddField, onForm, onChange
  <2> QED
    BY <1>1, <1>2, <2>1, ConfigTypes
<1>5. CASE RemoveField
  <2>1. PICK f \in dsl.map : dsl' = [dsl EXCEPT !.map = dsl.map \ {f}]
    BY <1>5 DEF RemoveField, onForm, onChange
  <2> QED
    BY <1>1, <1>2, <2>1, ConfigTypes
<1>6. CASE ReduceBuilder
  <2>1. /\ dsl.reduce.field \in PayFields \cup {""}
        /\ dsl.reduce.op = "sum" => dsl.reduce \in [op : {"sum", "count"}, field : PayFields \cup {""}]
    <3>1. NoReduce.field = "" /\ NoReduce.op = "none"
      BY DEF NoReduce
    <3>2. CASE dsl.reduce = NoReduce
      BY <3>1, <3>2
    <3>3. CASE dsl.reduce \in [op : {"sum", "count"}, field : PayFields \cup {""}]
      BY <3>3
    <3> QED
      BY <1>1, <3>2, <3>3 DEF Reductions
  <2>2. \E reduce \in Reductions : dsl' = [dsl EXCEPT !.reduce = reduce]
    <3>1. CASE dsl' = [dsl EXCEPT !.reduce = NoReduce]
      BY <3>1 DEF Reductions
    <3>2. CASE \E op \in {"sum", "count"} : dsl' = [dsl EXCEPT !.reduce = [op |-> op, field |-> dsl.reduce.field]]
      <4>1. \A op \in {"sum", "count"} : [op |-> op, field |-> dsl.reduce.field] \in Reductions
        BY <2>1 DEF Reductions
      <4> QED
        BY <3>2, <4>1
    <3>3. CASE dsl.reduce.op = "sum" /\ \E f \in PayFields \cup {""} : dsl' = [dsl EXCEPT !.reduce.field = f]
      <4>1. dsl.reduce \in [op : {"sum", "count"}, field : PayFields \cup {""}]
        BY <2>1, <3>3
      <4>2. PICK f \in PayFields \cup {""} : dsl' = [dsl EXCEPT !.reduce = [dsl.reduce EXCEPT !.field = f]]
        BY <3>3
      <4>3. [dsl.reduce EXCEPT !.field = f] \in Reductions
        BY <4>1 DEF Reductions
      <4> QED
        BY <4>2, <4>3
    <3> QED
      BY <1>6, <3>1, <3>2, <3>3 DEF ReduceBuilder, onForm, onChange
  <2> QED
    BY <1>1, <1>2, <2>2, ConfigTypes
<1> QED
  BY <1>3, <1>4, <1>5, <1>6 DEF QuietPayStep

LEMMA PayTypesInitially == PayInit => PayTypeOK
  BY ConfigTypes DEF PayInit, PayTypeOK

LEMMA PayTypesKept == PayTypeOK /\ [PayNext]_payVars => PayTypeOK'
<1> SUFFICES ASSUME PayTypeOK, [PayNext]_payVars PROVE PayTypeOK'
  OBVIOUS
<1> USE DEF PayTypeOK
<1>1. CASE update \/ RemoveRow \/ AddCondition
  <2>1. jsonText' = dsl' /\ UNCHANGED <<jsonMode, jsonError, mapDraft>>
    BY <1>1 DEF update, RemoveRow, AddCondition, setConditions, onForm, onChange
  <2>2. dsl' \in DSLConfig
    BY <1>1, ConditionsKept
  <2> QED
    BY <2>1, <2>2
<1>2. CASE AddField \/ RemoveField \/ ReduceBuilder
  <2>1. jsonText' = dsl' /\ UNCHANGED <<jsonMode, jsonError>> /\ ~jsonMode /\ mapDraft' \in {mapDraft, ""}
    BY <1>2 DEF AddField, RemoveField, ReduceBuilder, onForm, onChange
  <2>2. dsl' \in DSLConfig
    BY <1>2, QuietPayKeeps DEF QuietPayStep
  <2> QED
    BY <2>1, <2>2
<1>3. CASE setMode \/ setDraft \/ UNCHANGED payVars
  <2>1. dsl' = dsl /\ jsonText' = jsonText
    BY <1>3 DEF setMode, setDraft, payVars
  <2>2. mapDraft' \in PayFields \cup {""}
    BY <1>3 DEF setMode, setDraft, payVars
  <2>3. jsonMode' \in BOOLEAN /\ jsonError' \in BOOLEAN
    BY <1>3, Zenon DEF setMode, setDraft, payVars
  <2>4. jsonMode' => mapDraft' = ""
    BY <1>3, Zenon DEF setMode, setDraft, payVars
  <2> QED
    BY <2>1, <2>2, <2>3, <2>4
<1>4. CASE setJson
  <2>1. jsonText' \in DSLConfig \cup {NotJson}
    <3>1. ASSUME NEW f \in JsonFilters PROVE [dsl EXCEPT !.filter = f] \in DSLConfig
      <4>1. f \in SeqOf(Clauses, MaxClauses) /\ MaxClauses \in Nat
        BY FiltersAssumption, PayAssumption
      <4>2. f \in Seq(Clauses) /\ Len(f) <= MaxClauses
        BY <4>1, BoundedSeqs
      <4> QED
        BY <4>2, ConfigTypes
    <3> QED
      BY <1>4, <3>1 DEF setJson
  <2> QED
    BY <1>4, <2>1 DEF setJson
<1>5. CASE applyJson
  BY <1>5 DEF applyJson, onChange
<1> QED
  BY <1>1, <1>2, <1>3, <1>4, <1>5 DEF PayNext

(* Type correctness of the builder: however often its filter is read into rows and written again, it stays a
   filter of parts the reading knows, and no edit gives it more of them than an AND typed into a value, whose
   guard holds the bound. *)
THEOREM PayloadTypeCorrect == PaySpec => []PayTypeOK
  BY PayTypesInitially, PayTypesKept, PTL DEF PaySpec

(* OtherClausesKept, for filters of any length: an edit of the form leaves every part but one, of those it can
   write as they were read and that no open parenthesis before them swallows. *)
THEOREM EditsKeepTheOthers == PaySpec => OtherClausesKept
<1>1. ASSUME PayTypeOK, [PayNext]_payVars
      PROVE  applyJson \/ \E e \in 0 .. MaxClauses : \A k \in DOMAIN dsl.filter \ {e} :
                Faithful(dsl.filter, k) => Contains(dsl'.filter, dsl.filter[k])
  <2>1. CASE update \/ RemoveRow \/ AddCondition
    BY <2>1, <1>1, ConditionsKept
  <2>2. CASE QuietPayStep
    <3>1. dsl'.filter = dsl.filter /\ dsl.filter \in Seq(Clauses)
      BY <1>1, <2>2, QuietPayKeeps, ConfigTypes DEF PayTypeOK
    <3>2. \A k \in DOMAIN dsl.filter : Contains(dsl.filter, dsl.filter[k])
      BY <3>1, LenProperties DEF Contains
    <3>3. 0 \in 0 .. MaxClauses
      BY ClauseBound
    <3> QED
      BY <3>1, <3>2, <3>3
  <2> QED
    BY <1>1, <2>1, <2>2 DEF PayNext, QuietPayStep
<1> QED
  BY <1>1, PayTypesInitially, PayTypesKept, PTL DEF PaySpec, OtherClausesKept

-----------------------------------------------------------------------------
(* The pages in one run (MC_Pages): a behaviour follows one page, and is a *)
(* behaviour of every page, since the others stay as they begin.           *)

PageNames == {"publishing", "settings", "forms", "deploying", "recents", "uploads", "bucket", "payload", "lists",
              "cache"}

LEMMA PagesBegin ==
    PagesInit => /\ followed \in PageNames /\ PubInit /\ SetInit /\ FormInit /\ DepInit /\ RecInit
                 /\ UpInit /\ StoInit /\ PayInit /\ ListInit /\ CacheInit
  BY DEF PagesInit, PageNames

LEMMA OnePageMoves ==
    [PagesNext]_pagesVars =>
        /\ UNCHANGED followed
        /\ [PubNext]_pubVars /\ [SetNext]_setVars /\ [FormNext]_fVars /\ [DepNext]_depVars /\ [RecNext]_recentVars
        /\ [UpNext]_upVars /\ [StoNext]_stoVars /\ [PayNext]_payVars /\ [ListNext]_listVars /\ [CacheNext]_cacheVars
<1>1. CASE PagesNext
  BY <1>1 DEF PagesNext
<1>2. CASE UNCHANGED pagesVars
  BY <1>2 DEF pagesVars
<1> QED
  BY <1>1, <1>2

(* Whatever is proved of a page is true of the run: a behaviour of the pages is one of each of them. (Page by
   page: the modules share no variable, only the screen.) *)
THEOREM PagesImplementEach ==
    PagesSpec => /\ PubSpec /\ SetSpec /\ FormSpec /\ DepSpec /\ RecSpec
                 /\ UpSpec /\ StoSpec /\ PaySpec /\ ListSpec /\ CacheSpec
  BY PagesBegin, OnePageMoves, PTL
     DEF PagesSpec, PubSpec, SetSpec, FormSpec, DepSpec, RecSpec, UpSpec, StoSpec, PaySpec, ListSpec, CacheSpec

(* PagesTypeOK, for any bounds: every page keeps to its types, forms show answers of their own, and pages of a
   list leave no row out. *)
THEOREM PagesTypeCorrect == PagesSpec => []PagesTypeOK
<1>1. PagesSpec => [](followed \in PageNames)
  <2>1. followed \in PageNames /\ [PagesNext]_pagesVars => (followed \in PageNames)'
    BY OnePageMoves
  <2> QED
    BY PagesBegin, <2>1, PTL DEF PagesSpec
<1>2. /\ followed \in PageNames /\ PubTypeOK /\ SetTypeOK /\ FormTypeOK /\ AnswersMatch /\ DepTypeOK /\ RecTypeOK
      /\ UpTypeOK /\ StoTypeOK /\ PayTypeOK /\ ListTypeOK /\ NothingSkipped /\ CacheTypeOK
      => PagesTypeOK
  <2> SUFFICES ASSUME followed \in PageNames, PubTypeOK, SetTypeOK, FormTypeOK, AnswersMatch, DepTypeOK, RecTypeOK,
                      UpTypeOK, StoTypeOK, PayTypeOK, ListTypeOK, NothingSkipped, CacheTypeOK
               PROVE  PagesTypeOK
    OBVIOUS
  <2>1. CASE followed = "publishing"
    BY <2>1 DEF PagesTypeOK
  <2>2. CASE followed = "settings"
    BY <2>2 DEF PagesTypeOK
  <2>3. CASE followed = "forms"
    BY <2>3 DEF PagesTypeOK
  <2>4. CASE followed = "deploying"
    BY <2>4 DEF PagesTypeOK
  <2>5. CASE followed = "recents"
    BY <2>5 DEF PagesTypeOK
  <2>6. CASE followed = "uploads"
    BY <2>6 DEF PagesTypeOK
  <2>7. CASE followed = "bucket"
    BY <2>7 DEF PagesTypeOK
  <2>8. CASE followed = "payload"
    BY <2>8 DEF PagesTypeOK
  <2>9. CASE followed = "lists"
    BY <2>9 DEF PagesTypeOK
  <2>10. CASE followed = "cache"
    BY <2>10 DEF PagesTypeOK
  <2> QED
    BY <2>1, <2>2, <2>3, <2>4, <2>5, <2>6, <2>7, <2>8, <2>9, <2>10 DEF PageNames
<1> QED
  BY <1>1, <1>2, PagesImplementEach, PublishingTypeCorrect, SettingsTypeCorrect, FormsTypeCorrect,
     AnswersAreOfTheLast, DeployingTypeCorrect, RecentsTypeCorrect, UploadsTypeCorrect, BucketTypeCorrect,
     PayloadTypeCorrect, ListsTypeCorrect, PagesSkipNothing, CacheTypeCorrect, PTL
=============================================================================
