------------------------------ MODULE PartsProofs -----------------------------
(***************************************************************************)
(* Proofs about the modules MCParts puts side by side: Media, Wishlist,    *)
(* Catalog, Categories and ProductForm, for any number of files, products, *)
(* variations, categories, options and requests in flight.  What holds of  *)
(* CategoryPanel is proved in CategoryPanelProofs; at the end all six are  *)
(* taken together.                                                         *)
(***************************************************************************)
EXTENDS MCParts, CategoryPanelProofs

-------------------------------------------------------------------------------
(* Images: the asset and the row. *)

(* What a call knows of its file.  Nobody but the upload has heard of a    *)
(* file before its row is written.                                         *)
FileSound(u) ==
  /\ stage[u] = "idle" => file[u] = 0
  /\ stage[u] # "idle" => file[u] \in 1..files
  /\ stage[u] = "recording" =>
       /\ file[u] \in stored \ listed
       /\ \A w \in Uploader \ {u} : file[w] # file[u]
  /\ stage[u] = "undoing" => file[u] \notin listed \/ file[u] \in unsure
  /\ stage[u] = "forgetting" => file[u] \notin stored \/ file[u] \in refused

(* Some call is about this file and has come to one of these stages.       *)
HasCall(f, stages) == \E u \in Uploader : stage[u] \in stages /\ file[u] = f

(* NoBrokenRow and NoStrayAsset, file by file.                             *)
PicturesKnown ==
  \A f \in listed \ stored :
    f \in unsure \/ f \in unfinished \/ HasCall(f, {"forgetting"})

StraysKnown ==
  \A f \in stored \ listed :
    \/ f \in logged \/ f \in refused \/ f \in unsure
    \/ HasCall(f, {"recording", "undoing"})

MediaInv ==
  /\ MediaTypeOK
  /\ \A u \in Uploader : FileSound(u)
  /\ PicturesKnown
  /\ StraysKnown

LEMMA MediaStarts ==
  MediaInit => MediaInv
  BY MediaAssumption
  DEF MediaInit, MediaInv, MediaTypeOK, FileSound, PicturesKnown, StraysKnown, HasCall

LEMMA UploadSteps ==
  ASSUME MediaInv, NEW u \in Uploader, UploadBuffer(u)
  PROVE  MediaInv'
<1> USE DEF MediaInv, UploadBuffer, MediaGoes, MediaTypeOK, mishaps
<1>0. files \in Nat /\ files + 1 \in 1..MaxFiles
  BY MediaAssumption
<1>1. MediaTypeOK'
  BY <1>0, MediaAssumption
<1>2. \A w \in Uploader : FileSound(w)'
  BY <1>0 DEF FileSound
<1>3. PicturesKnown'
  BY DEF PicturesKnown, HasCall
<1>4. StraysKnown'
  BY DEF StraysKnown, HasCall
<1>5. QED
  BY <1>1, <1>2, <1>3, <1>4

LEMMA RecordSteps ==
  ASSUME MediaInv, NEW u \in Uploader, RecordFile(u) \/ RecordFails(u)
  PROVE  MediaInv'
<1> USE DEF MediaInv, RecordFile, RecordFails, MediaGoes, MediaTypeOK, mishaps
<1>1. MediaTypeOK'
  BY DEF FileSound
<1>2. \A w \in Uploader : FileSound(w)'
  BY DEF FileSound
<1>3. PicturesKnown'
  BY DEF PicturesKnown, HasCall, FileSound
<1>4. StraysKnown'
  BY DEF StraysKnown, HasCall
<1>5. QED
  BY <1>1, <1>2, <1>3, <1>4

LEMMA UndoSteps ==
  ASSUME MediaInv, NEW u \in Uploader, Undo(u) \/ UndoRefused(u) \/ UndoFails(u)
  PROVE  MediaInv'
<1> USE DEF MediaInv, Undo, UndoRefused, UndoFails, MediaGoes, MediaTypeOK, mishaps
<1>1. MediaTypeOK'
  BY DEF FileSound
<1>2. \A w \in Uploader : FileSound(w)'
  BY DEF FileSound
<1>3. PicturesKnown'
  BY DEF PicturesKnown, HasCall, FileSound
<1>4. StraysKnown'
  BY DEF StraysKnown, HasCall
<1>5. QED
  BY <1>1, <1>2, <1>3, <1>4

LEMMA RemoveSteps ==
  ASSUME MediaInv, NEW u \in Uploader,
         \/ \E f \in listed : FindMedia(u, f)
         \/ DestroyAsset(u) \/ DestroyRefused(u) \/ DestroyFails(u) \/ DeleteRow(u)
  PROVE  MediaInv'
<1> USE DEF MediaInv, FindMedia, DestroyAsset, DestroyRefused, DestroyFails, DeleteRow, MediaGoes,
            MediaTypeOK, mishaps
<1>1. MediaTypeOK'
  BY DEF FileSound
<1>2. \A w \in Uploader : FileSound(w)'
  BY DEF FileSound
<1>3. PicturesKnown'
  BY DEF PicturesKnown, HasCall, FileSound
<1>4. StraysKnown'
  BY DEF StraysKnown, HasCall, FileSound
<1>5. QED
  BY <1>1, <1>2, <1>3, <1>4

LEMMA DeathSteps ==
  ASSUME MediaInv, NEW u \in Uploader, Die(u)
  PROVE  MediaInv'
<1> USE DEF MediaInv, Die, MediaGoes, MediaTypeOK, mishaps
<1>1. MediaTypeOK'
  BY DEF FileSound
<1>2. \A w \in Uploader : FileSound(w)'
  BY DEF FileSound
<1>3. PicturesKnown'
  BY DEF PicturesKnown, HasCall
<1>4. StraysKnown'
  BY DEF StraysKnown, HasCall
<1>5. QED
  BY <1>1, <1>2, <1>3, <1>4

LEMMA MediaInvariant ==
  MediaSpec => []MediaInv
<1>1. MediaInv /\ [MediaNext]_mediaVars => MediaInv'
  <2>1. ASSUME MediaInv, MediaNext
        PROVE  MediaInv'
    BY <2>1, UploadSteps, RecordSteps, UndoSteps, RemoveSteps, DeathSteps DEF MediaNext
  <2>2. ASSUME MediaInv, UNCHANGED mediaVars
        PROVE  MediaInv'
    BY <2>2 DEF MediaInv, mediaVars, mishaps, MediaTypeOK, FileSound, PicturesKnown, StraysKnown, HasCall
  <2>3. QED
    BY <2>1, <2>2
<1>2. QED
  BY <1>1, MediaStarts, PTL DEF MediaSpec

(* Type correctness of the assets, the rows and the calls in flight
   (media.service.js, upload and remove). *)
THEOREM MediaTyped ==
  MediaSpec => []MediaTypeOK
<1>1. MediaInv => MediaTypeOK
  BY DEF MediaInv
<1>2. QED
  BY <1>1, MediaInvariant, PTL

(* Uploads, failed writes, roll-backs and removals in any order break no
   picture: one whose row stays is being removed, or a removal was cut off
   between the stores or not heard, or the upload was reported as failed
   although the row was written (media.service.js, upload and remove). *)
THEOREM PicturesHold ==
  MediaSpec => []NoBrokenRow
<1>1. MediaInv => NoBrokenRow
  BY DEF MediaInv, PicturesKnown, HasCall, NoBrokenRow, FilesAt
<1>2. QED
  BY <1>1, MediaInvariant, PTL

(* An asset without a row is being uploaded or rolled back, is named in the
   log for removal by hand, was declined by Cloudinary, or belongs to an
   upload that died or was not heard (media.service.js, upload and remove). *)
THEOREM StraysAreNamed ==
  MediaSpec => []NoStrayAsset
<1>1. MediaInv => NoStrayAsset
  BY DEF MediaInv, StraysKnown, HasCall, NoStrayAsset, FilesAt
<1>2. QED
  BY <1>1, MediaInvariant, PTL

-------------------------------------------------------------------------------
(* Wishlists: what is saved and what is about to be. *)

(* A union of sets of at most k elements each has at most k for each. *)
LEMMA UnionBound ==
  ASSUME NEW C, IsFiniteSet(C), NEW f, NEW k \in Nat,
         \A c \in C : IsFiniteSet(f[c]) /\ Cardinality(f[c]) <= k
  PROVE  /\ IsFiniteSet(UNION {f[c] : c \in C})
         /\ Cardinality(UNION {f[c] : c \in C}) <= Cardinality(C) * k
<1> DEFINE U == UNION {f[c] : c \in C}
           Counts(c) == Bijection(1..Cardinality(f[c]), f[c])
           count == [c \in C |-> CHOOSE g : g \in Counts(c)]
           Numbered(x, q) == q[2] \in 1..Cardinality(f[q[1]]) /\ count[q[1]][q[2]] = x
           number == [x \in U |-> CHOOSE q \in C \X (1..k) : Numbered(x, q)]
<1>1. \A c \in C : count[c] \in Counts(c)
  <2>1. \A c \in C : \E g : g \in Counts(c)
    BY FS_CardinalityType DEF ExistsBijection
  <2>2. QED
    BY <2>1
<1>2. \A x \in U : \E q \in C \X (1..k) : Numbered(x, q)
  <2> SUFFICES ASSUME NEW x \in U
               PROVE  \E q \in C \X (1..k) : Numbered(x, q)
    OBVIOUS
  <2>1. PICK c \in C : x \in f[c]
    OBVIOUS
  <2>2. Cardinality(f[c]) \in Nat /\ Cardinality(f[c]) <= k
    BY FS_CardinalityType
  <2>3. \E i \in 1..Cardinality(f[c]) : count[c][i] = x
    BY <1>1, <2>1 DEF Bijection, Surjection
  <2>4. PICK i \in 1..Cardinality(f[c]) : count[c][i] = x
    BY <2>3
  <2>5. i \in 1..k
    BY <2>2
  <2>6. Numbered(x, <<c, i>>)
    BY <2>4
  <2>7. QED
    BY <2>5, <2>6
<1>3. \A x \in U : number[x] \in C \X (1..k) /\ Numbered(x, number[x])
  <2> HIDE DEF Numbered, U
  <2>1. QED
    BY <1>2
<1>4. number \in Injection(U, C \X (1..k))
  <2>1. number \in [U -> C \X (1..k)]
    <3> HIDE DEF U, Numbered
    <3>1. QED
      BY <1>3
  <2>2. \A x, y \in U : number[x] = number[y] => x = y
    <3> HIDE DEF number, U, count
    <3>1. QED
      BY <1>3
  <2>3. QED
    BY <2>1, <2>2 DEF Injection, IsInjective
<1>5. IsFiniteSet(1..k) /\ Cardinality(1..k) = k
  BY FS_Interval
<1>6. IsFiniteSet(C \X (1..k)) /\ Cardinality(C \X (1..k)) = Cardinality(C) * k
  BY <1>5, FS_Product
<1>7. QED
  <2> HIDE DEF U, number
  <2>1. IsFiniteSet(U) /\ Cardinality(U) <= Cardinality(C \X (1..k))
    BY <1>4, <1>6, FS_Injection
  <2>2. QED
    BY <1>6, <2>1 DEF U

Inserting == {c \in Client : doing[c] = "inserting"}

(* What is on the list, or has been let through to it. *)
Load == saved \cup UNION {wanted[c] : c \in Inserting}

Room == MaxItems + (Cardinality(Client) - 1) * MaxBatch

WishlistInv ==
  /\ WishlistTypeOK
  /\ \A c \in Client : Cardinality(wanted[c]) <= MaxBatch
  /\ Cardinality(Load) <= Room

LEMMA RoomType ==
  Room \in Nat /\ Cardinality(Client) \in Nat /\ MaxItems <= Room
<1>1. Cardinality(Client) \in Nat \ {0}
  BY WishlistAssumption, FS_CardinalityType, FS_EmptySet
<1>2. (Cardinality(Client) - 1) * MaxBatch \in Nat
  BY <1>1, WishlistAssumption
<1>3. QED
  BY <1>1, <1>2, WishlistAssumption DEF Room

LEMMA WishesFinite ==
  ASSUME NEW S, S \subseteq Product
  PROVE  /\ IsFiniteSet(S) /\ Cardinality(S) \in Nat
         /\ \A T \in SUBSET S : Cardinality(T) <= Cardinality(S)
  BY WishlistAssumption, FS_Subset, FS_CardinalityType

LEMMA UnionAtMost ==
  ASSUME NEW S, NEW T, S \subseteq Product, T \subseteq Product
  PROVE  Cardinality(S \cup T) <= Cardinality(S) + Cardinality(T)
<1>1. Cardinality(S \cup T) = Cardinality(S) + Cardinality(T) - Cardinality(S \cap T)
  BY WishesFinite, FS_Union
<1>2. Cardinality(S) \in Nat /\ Cardinality(T) \in Nat /\ Cardinality(S \cap T) \in Nat
  <2>1. S \cap T \subseteq Product
    OBVIOUS
  <2>2. QED
    BY <2>1, WishesFinite
<1>3. QED
  BY <1>1, <1>2

LEMMA WishlistStarts ==
  WishlistInit => WishlistInv
<1> SUFFICES ASSUME WishlistInit
             PROVE  WishlistInv
  OBVIOUS
<1> USE DEF WishlistInit
<1>1. WishlistTypeOK
  BY WishlistAssumption DEF WishlistTypeOK
<1>2. Load = {}
  BY DEF Load, Inserting
<1>3. QED
  BY <1>1, <1>2, RoomType, FS_EmptySet, WishlistAssumption DEF WishlistInv

(* A step that lets nothing through adds nothing to the load. *)
LEMMA LoadShrinks ==
  ASSUME WishlistInv, Load' \subseteq Load
  PROVE  (Cardinality(Load) <= Room)'
<1>1. Load \subseteq Product
  BY DEF WishlistInv, WishlistTypeOK, Load, Inserting
<1>2. Cardinality(Load') <= Cardinality(Load) /\ Cardinality(Load') \in Nat /\ Cardinality(Load) \in Nat
  BY <1>1, WishesFinite
<1>3. QED
  BY <1>2, RoomType DEF WishlistInv, Room

(* The requests that are past the count bring a batch each; the one that
   counts brings what fits. *)
LEMMA AssertRoomSteps ==
  ASSUME WishlistInv, NEW c \in Client, AssertRoom(c)
  PROVE  WishlistInv'
<1> USE DEF WishlistInv, AssertRoom, Does
<1>1. WishlistTypeOK'
  BY DEF WishlistTypeOK
<1>2. (\A w \in Client : Cardinality(wanted[w]) <= MaxBatch)'
  BY FS_EmptySet, WishlistAssumption DEF WishlistTypeOK
<1>3. CASE Cardinality(saved) + Cardinality(wanted[c]) > MaxItems
  <2>1. Load' \subseteq Load
    BY <1>3 DEF Load, Inserting, WishlistTypeOK
  <2>2. QED
    BY <1>1, <1>2, <2>1, LoadShrinks
<1>4. CASE ~(Cardinality(saved) + Cardinality(wanted[c]) > MaxItems)
  <2> DEFINE Others == UNION {wanted[w] : w \in Client \ {c}}
             Filled == saved \cup wanted[c]
  <2>1. Load' \subseteq Filled \cup Others
    BY <1>4 DEF Load, Inserting, WishlistTypeOK
  <2>2. saved \subseteq Product /\ wanted[c] \subseteq Product /\ Others \subseteq Product
    BY DEF WishlistTypeOK
  <2>3. Cardinality(Others) <= (Cardinality(Client) - 1) * MaxBatch
    <3>1. IsFiniteSet(Client \ {c}) /\ Cardinality(Client \ {c}) = Cardinality(Client) - 1
      BY WishlistAssumption, FS_RemoveElement
    <3>2. \A w \in Client \ {c} : IsFiniteSet(wanted[w]) /\ Cardinality(wanted[w]) <= MaxBatch
      BY WishesFinite DEF WishlistTypeOK
    <3>3. QED
      BY <3>1, <3>2, UnionBound, WishlistAssumption
  <2>4. Cardinality(Filled) <= MaxItems
    <3>1. Cardinality(Filled) <= Cardinality(saved) + Cardinality(wanted[c])
      BY <2>2, UnionAtMost
    <3>2. QED
      BY <1>4, <2>2, <3>1, WishesFinite, WishlistAssumption
  <2>5. Cardinality(Filled \cup Others) <= Cardinality(Filled) + Cardinality(Others)
    BY <2>2, UnionAtMost
  <2>6. Cardinality(Load') <= Cardinality(Filled \cup Others)
    BY <2>1, <2>2, WishesFinite
  <2>7. /\ Cardinality(Load') \in Nat /\ Cardinality(Filled \cup Others) \in Nat
        /\ Cardinality(Filled) \in Nat /\ Cardinality(Others) \in Nat
    BY <2>1, <2>2, WishesFinite
  <2>8. Cardinality(Load') <= Room
    <3> HIDE DEF Filled, Others
    <3>1. QED
      BY <2>3, <2>4, <2>5, <2>6, <2>7, RoomType, WishlistAssumption DEF Room
  <2>9. QED
    BY <1>1, <1>2, <2>8 DEF Room
<1>5. QED
  BY <1>3, <1>4

LEMMA InsertSteps ==
  ASSUME WishlistInv, NEW c \in Client, InsertMany(c)
  PROVE  WishlistInv'
<1> USE DEF WishlistInv, InsertMany, Does
<1>1. WishlistTypeOK'
  BY DEF WishlistTypeOK
<1>2. (\A w \in Client : Cardinality(wanted[w]) <= MaxBatch)'
  BY FS_EmptySet, WishlistAssumption DEF WishlistTypeOK
<1>3. Load' \subseteq Load
  BY DEF Load, Inserting, WishlistTypeOK
<1>4. QED
  BY <1>1, <1>2, <1>3, LoadShrinks

LEMMA AskSteps ==
  ASSUME WishlistInv, NEW c \in Client,
         \/ \E batch \in SUBSET Product : AddItems(c, batch)
         \/ \E p \in Product : Toggle(c, p)
         \/ FindExisting(c) \/ CheckVisible(c)
  PROVE  WishlistInv'
<1> USE DEF WishlistInv, AddItems, Toggle, FindExisting, CheckVisible, Asks, Does
<1>1. WishlistTypeOK'
  BY WishlistAssumption DEF WishlistTypeOK
<1>2. (\A w \in Client : Cardinality(wanted[w]) <= MaxBatch)'
  <2>1. \A p \in Product : Cardinality({p}) <= MaxBatch
    <3>1. \A p \in Product : Cardinality({p}) = 1
      BY FS_Singleton
    <3>2. QED
      BY <3>1, WishlistAssumption
  <2>2. Cardinality(wanted[c] \ saved) <= MaxBatch
    <3>1. /\ Cardinality(wanted[c] \ saved) <= Cardinality(wanted[c])
          /\ Cardinality(wanted[c]) \in Nat /\ Cardinality(wanted[c] \ saved) \in Nat
      BY WishesFinite DEF WishlistTypeOK
    <3>2. QED
      BY <3>1, WishlistAssumption
  <2>3. Cardinality({}) <= MaxBatch
    BY FS_EmptySet, WishlistAssumption
  <2>4. CASE \E batch \in SUBSET Product : AddItems(c, batch)
    <3>1. PICK batch \in SUBSET Product : AddItems(c, batch)
      BY <2>4
    <3>2. Cardinality(batch) <= MaxBatch
      BY <3>1, WishlistAssumption
    <3>3. QED
      BY <3>1, <3>2 DEF WishlistTypeOK
  <2>5. CASE \E p \in Product : Toggle(c, p)
    BY <2>1, <2>5 DEF WishlistTypeOK
  <2>6. CASE FindExisting(c) \/ CheckVisible(c)
    BY <2>2, <2>3, <2>6 DEF WishlistTypeOK
  <2>7. QED
    BY <2>4, <2>5, <2>6
<1>3. Load' \subseteq Load
  BY DEF Load, Inserting, WishlistTypeOK
<1>4. QED
  BY <1>1, <1>2, <1>3, LoadShrinks

LEMMA DeletionSteps ==
  ASSUME WishlistInv,
         \/ \E c \in Client : Clear(c) \/ \E batch \in SUBSET Product : RemoveItems(c, batch)
         \/ \E p \in Product : ChangeVisibility(p)
  PROVE  WishlistInv'
<1> USE DEF WishlistInv, Clear, RemoveItems, ChangeVisibility, Asks
<1>1. WishlistTypeOK'
  BY WishlistAssumption DEF WishlistTypeOK
<1>2. (\A w \in Client : Cardinality(wanted[w]) <= MaxBatch)'
  OBVIOUS
<1>3. Load' \subseteq Load
  BY DEF Load, Inserting
<1>4. QED
  BY <1>1, <1>2, <1>3, LoadShrinks

LEMMA WishlistInvariant ==
  WishlistSpec => []WishlistInv
<1>1. WishlistInv /\ [WishlistNext]_wishlistVars => WishlistInv'
  <2>1. ASSUME WishlistInv, WishlistNext
        PROVE  WishlistInv'
    BY <2>1, AssertRoomSteps, InsertSteps, AskSteps, DeletionSteps DEF WishlistNext
  <2>2. ASSUME WishlistInv, UNCHANGED wishlistVars
        PROVE  WishlistInv'
    BY <2>2 DEF WishlistInv, wishlistVars, WishlistTypeOK, Load, Inserting, Room
  <2>3. QED
    BY <2>1, <2>2
<1>2. QED
  BY <1>1, WishlistStarts, PTL DEF WishlistSpec

(* Type correctness of the list and of the requests in flight
   (wishlist.service.js). *)
THEOREM WishlistTyped ==
  WishlistSpec => []WishlistTypeOK
<1>1. WishlistInv => WishlistTypeOK
  BY DEF WishlistInv
<1>2. QED
  BY <1>1, WishlistInvariant, PTL

(* However many requests overlap, the list exceeds its limit by a batch for
   each of them but one, and never by more (wishlist.service.js, assertRoom). *)
THEOREM WishlistStaysBounded ==
  WishlistSpec => []WishlistBounded
<1>1. WishlistInv => WishlistBounded
  <2> SUFFICES ASSUME WishlistInv
               PROVE  Cardinality(saved) <= Room
    BY DEF WishlistBounded, Room
  <2>1. Load \subseteq Product /\ saved \subseteq Load
    BY DEF WishlistInv, WishlistTypeOK, Load, Inserting
  <2>2. /\ Cardinality(saved) <= Cardinality(Load)
        /\ Cardinality(saved) \in Nat /\ Cardinality(Load) \in Nat
    BY <2>1, WishesFinite
  <2>3. QED
    BY <2>2, RoomType DEF WishlistInv
<1>2. QED
  BY <1>1, WishlistInvariant, PTL

-------------------------------------------------------------------------------
(* A product and its variations: what a save makes of a document. *)

Published(d) == d.status # "DRAFT" => d.published

(* The fields that differ from what was read are written over the others.  *)
Merged(copy, read, old) ==
  [f \in DOMAIN old |-> IF copy[f] # read[f] THEN copy[f] ELSE old[f]]

Over(copy, read, old, fields) ==
  (\E f \in fields : copy[f] # read[f]) /\ (\E f \in fields : old[f] # read[f])

LEMMA DocFields ==
  ASSUME NEW d \in Doc
  PROVE  DOMAIN d = {"there", "status", "published", "selling", "original"}
  BY DEF Doc

LEMMA MergedFields ==
  ASSUME NEW copy \in Doc, NEW read \in Doc, NEW old \in Doc,
         NEW m, m = Merged(copy, read, old)
  PROVE  /\ m.there = IF copy.there # read.there THEN copy.there ELSE old.there
         /\ m.status = IF copy.status # read.status THEN copy.status ELSE old.status
         /\ m.published =
              IF copy.published # read.published THEN copy.published ELSE old.published
         /\ m.selling = IF copy.selling # read.selling THEN copy.selling ELSE old.selling
         /\ m.original = IF copy.original # read.original THEN copy.original ELSE old.original
  BY DocFields DEF Merged

LEMMA MergedDoc ==
  ASSUME NEW copy \in Doc, NEW read \in Doc, NEW old \in Doc
  PROVE  Merged(copy, read, old) \in Doc
<1> DEFINE m == Merged(copy, read, old)
<1>1. DOMAIN m = {"there", "status", "published", "selling", "original"}
  BY DocFields DEF Merged
<1>2. m = [there |-> m.there, status |-> m.status, published |-> m.published,
           selling |-> m.selling, original |-> m.original]
  BY <1>1 DEF Merged
<1>3. /\ m.there \in {"absent", "live", "removed"} /\ m.status \in Status
      /\ m.published \in BOOLEAN /\ m.selling \in Price /\ m.original \in Was
  BY MergedFields DEF Doc
<1>4. QED
  BY <1>2, <1>3 DEF Doc

(* A pair of fields that nobody changed since it was read is saved as the
   copy has it, and a pair the copy leaves alone stays as it is. *)
LEMMA MergedInOrder ==
  ASSUME NEW copy \in Doc, NEW read \in Doc, NEW old \in Doc,
         InOrder(copy), InOrder(old),
         ~Over(copy, read, old, {"selling", "original"})
  PROVE  InOrder(Merged(copy, read, old))
  BY MergedFields DEF Over, InOrder

LEMMA MergedPublished ==
  ASSUME NEW copy \in Doc, NEW read \in Doc, NEW old \in Doc,
         Published(copy), Published(old),
         ~Over(copy, read, old, {"status", "published"})
  PROVE  Published(Merged(copy, read, old))
  BY MergedFields DEF Over, Published

(* What an edit carries to its save. *)
Sound(d) ==
  /\ d.at \in {"saving", "creating"} => InOrder(d.copy)
  /\ d.at \in {"saving", "creating"} /\ d.id = "product" =>
       "publication" \in contested \/ Published(d.copy)
  /\ d.at = "saving" => d.copy.there = d.read.there
  /\ d.at = "creating" => d.copy.there = "live" /\ Published(d.copy)
  /\ d.at = "removing" => ~atomic

CatalogInv ==
  /\ CatalogTypeOK
  /\ \A e \in Staff : Sound(draft[e])
  /\ CatalogCoherent

LEMMA NoDraftSound ==
  NoDraft \in Draft /\ NoDoc \in Doc /\ Sound(NoDraft)
  BY CatalogAssumption DEF NoDraft, Draft, NoDoc, Doc, Status, Sound, Item, Was, NoPrice, Price

LEMMA CatalogStarts ==
  CatalogInit => CatalogInv
<1> SUFFICES ASSUME CatalogInit
             PROVE  CatalogInv
  OBVIOUS
<1> USE DEF CatalogInit
<1>1. CatalogTypeOK
  BY NoDraftSound, CatalogAssumption DEF CatalogTypeOK
<1>2. \A e \in Staff : Sound(draft[e])
  BY NoDraftSound
<1>3. CatalogCoherent
  BY DEF CatalogCoherent, OnSaleIsPublished, PricesInOrder, VariationsFollow, InOrder, OnFile,
         NoDoc, Item
<1>4. QED
  BY <1>1, <1>2, <1>3 DEF CatalogInv

-------------------------------------------------------------------------------
(* Edits of one document. *)

LEMMA BeginSteps ==
  ASSUME CatalogInv, NEW e \in Staff, NEW d \in Draft, Sound(d), Begins(e, d)
  PROVE  CatalogInv'
<1> USE DEF CatalogInv, Begins
<1>1. CatalogTypeOK'
  BY CatalogAssumption DEF CatalogTypeOK
<1>2. (\A f \in Staff : Sound(draft[f]))'
  BY DEF CatalogTypeOK, Sound
<1>3. CatalogCoherent'
  BY DEF CatalogCoherent, OnSaleIsPublished, PricesInOrder, VariationsFollow, OnFile
<1>4. QED
  BY <1>1, <1>2, <1>3

LEMMA AcceptSteps ==
  ASSUME CatalogInv, NEW e \in Staff, NEW i \in Item, NEW copy \in Doc, Accepts(e, i, copy),
         copy.there = item[i].there,
         i = "product" => "publication" \in contested \/ Published(copy)
  PROVE  CatalogInv'
<1> DEFINE d == [at |-> "saving", id |-> i, read |-> item[i], copy |-> copy]
<1>1. d \in Draft
  BY DEF CatalogInv, CatalogTypeOK, Draft
<1>2. Sound(d)
  BY DEF Accepts, Sound
<1>3. QED
  BY <1>1, <1>2, BeginSteps DEF Accepts

LEMMA EditSteps ==
  ASSUME CatalogInv, NEW e \in Staff,
         \/ \E s \in Status : PatchStatus(e, s)
         \/ \E s \in Status \cup {"none"}, p \in Price, o \in Was : UpdateProduct(e, s, p, o)
         \/ \E p, o \in Was : \/ PatchPricing(e, p, o)
                              \/ \E v \in Variation : PatchVariation(e, v, p, o)
  PROVE  CatalogInv'
<1>1. item["product"] \in Doc /\ \A v \in Variation : item[v] \in Doc
  BY DEF CatalogInv, CatalogTypeOK, Item
<1>2. "publication" \in contested \/ Published(item["product"])
  BY DEF CatalogInv, CatalogCoherent, OnSaleIsPublished, Published
<1>3. CASE \E s \in Status : PatchStatus(e, s)
  <2>1. PICK s \in Status : PatchStatus(e, s)
    BY <1>3
  <2> DEFINE copy == [item["product"] EXCEPT !.status = s, !.published = s # "DRAFT"]
  <2>2. copy \in Doc /\ copy.there = item["product"].there /\ Published(copy)
    BY <1>1 DEF Doc, Published
  <2>3. QED
    BY <2>1, <2>2, AcceptSteps DEF PatchStatus, Item
<1>4. CASE \E s \in Status \cup {"none"}, p \in Price, o \in Was : UpdateProduct(e, s, p, o)
  <2>1. PICK s \in Status \cup {"none"}, p \in Price, o \in Was : UpdateProduct(e, s, p, o)
    BY <1>4
  <2> DEFINE copy == [item["product"] EXCEPT !.status = IF s = "none" THEN @ ELSE s,
                                             !.published = s # "DRAFT",
                                             !.selling = p,
                                             !.original = Given(o, @)]
  <2>2. copy \in Doc /\ copy.there = item["product"].there /\ Published(copy)
    BY <1>1 DEF Doc, Published, Given, Status
  <2>3. QED
    BY <2>1, <2>2, AcceptSteps DEF UpdateProduct, Item
<1>5. ASSUME NEW p \in Was, NEW o \in Was, PatchPricing(e, p, o)
      PROVE  CatalogInv'
  <2> DEFINE copy == [item["product"] EXCEPT !.selling = Given(p, @), !.original = o]
  <2>1. /\ copy \in Doc /\ copy.there = item["product"].there
        /\ "publication" \in contested \/ Published(copy)
    BY <1>1, <1>2 DEF Doc, Published, Given, Was
  <2>2. QED
    BY <1>5, <2>1, AcceptSteps DEF PatchPricing, Item
<1>6. ASSUME NEW p \in Was, NEW o \in Was, NEW v \in Variation, PatchVariation(e, v, p, o)
      PROVE  CatalogInv'
  <2> DEFINE copy == [item[v] EXCEPT !.selling = Given(p, @), !.original = Given(o, @)]
  <2>1. copy \in Doc /\ copy.there = item[v].there
    BY <1>1 DEF Doc, Given, Was
  <2>2. v # "product"
    BY CatalogAssumption
  <2>3. QED
    BY <1>6, <2>1, <2>2, AcceptSteps DEF PatchVariation, Item
<1>7. QED
  BY <1>3, <1>4, <1>5, <1>6

LEMMA SaveSteps ==
  ASSUME CatalogInv, NEW e \in Staff, SaveItem(e)
  PROVE  CatalogInv'
<1> DEFINE d == draft[e]
           old == item[d.id]
           new == Merged(d.copy, d.read, old)
<1>1. d \in Draft /\ d.at = "saving" /\ Sound(d)
  BY DEF CatalogInv, CatalogTypeOK, SaveItem
<1>2. d.id \in Item /\ d.copy \in Doc /\ d.read \in Doc /\ old \in Doc
  BY <1>1 DEF Draft, CatalogInv, CatalogTypeOK
<1>3. /\ item' = [item EXCEPT ![d.id] = new]
      /\ contested' = contested
           \cup (IF Over(d.copy, d.read, old, {"selling", "original"}) THEN {"prices"} ELSE {})
           \cup (IF Over(d.copy, d.read, old, {"status", "published"})
                 THEN {"publication"} ELSE {})
      /\ Ends(e)
  BY DEF SaveItem, Merged, Over
<1>4. new \in Doc
  BY <1>2, MergedDoc
<1>5. new.there = old.there
  BY <1>1, <1>2, MergedFields DEF Sound
<1> HIDE DEF new, old, d
<1>6. CatalogTypeOK'
  BY <1>2, <1>3, <1>4, NoDraftSound DEF Ends, CatalogInv, CatalogTypeOK
<1>7. (\A f \in Staff : Sound(draft[f]))'
  BY <1>3, NoDraftSound DEF Ends, CatalogInv, CatalogTypeOK, Sound
<1>8. ("publication" \in contested \/ OnSaleIsPublished)'
  <2>1. CASE d.id = "product" /\ "publication" \notin contested'
    <3>1. Published(d.copy) /\ Published(old)
      BY <1>1, <1>3, <2>1 DEF CatalogInv, CatalogCoherent, OnSaleIsPublished, Published, Sound, old
    <3>2. ~Over(d.copy, d.read, old, {"status", "published"})
      BY <1>3, <2>1
    <3>3. Published(new)
      BY <1>2, <3>1, <3>2, MergedPublished DEF new
    <3>4. item'["product"] = new
      BY <1>2, <1>3, <2>1 DEF CatalogInv, CatalogTypeOK
    <3>5. QED
      BY <3>3, <3>4 DEF OnSaleIsPublished, Published
  <2>2. CASE d.id # "product"
    BY <1>3, <2>2 DEF CatalogInv, CatalogCoherent, CatalogTypeOK, OnSaleIsPublished, Item
  <2>3. QED
    BY <2>1, <2>2
<1>9. ("prices" \in contested \/ PricesInOrder)'
  <2>1. CASE "prices" \notin contested'
    <3>1. InOrder(d.copy) /\ InOrder(old) /\ \A i \in Item : InOrder(item[i])
      BY <1>1, <1>2, <1>3, <2>1 DEF CatalogInv, CatalogCoherent, PricesInOrder, Sound, old
    <3>2. ~Over(d.copy, d.read, old, {"selling", "original"})
      BY <1>3, <2>1
    <3>3. InOrder(new)
      BY <1>2, <3>1, <3>2, MergedInOrder DEF new
    <3>4. \A i \in Item : item'[i] = IF i = d.id THEN new ELSE item[i]
      BY <1>3 DEF CatalogInv, CatalogTypeOK
    <3>5. QED
      BY <3>1, <3>3, <3>4 DEF PricesInOrder, InOrder
  <2>2. QED
    BY <2>1
<1>10. (~atomic \/ VariationsFollow)'
  <2>1. \A i \in Item : item'[i].there = item[i].there
    BY <1>2, <1>3, <1>5 DEF CatalogInv, CatalogTypeOK, old
  <2>2. atomic' = atomic
    BY <1>3 DEF Ends
  <2>3. QED
    BY <2>1, <2>2 DEF CatalogInv, CatalogCoherent, VariationsFollow, OnFile, Item
<1>11. QED
  BY <1>6, <1>7, <1>8, <1>9, <1>10 DEF CatalogInv, CatalogCoherent

LEMMA RemoveVariationSteps ==
  ASSUME CatalogInv, NEW v \in Variation, RemoveVariation(v)
  PROVE  CatalogInv'
<1> USE DEF CatalogInv, RemoveVariation
<1>1. v \in Item /\ v # "product" /\ item[v] \in Doc
  BY CatalogAssumption DEF Item, CatalogTypeOK
<1>2. [item[v] EXCEPT !.there = "removed"] \in Doc
  BY <1>1 DEF Doc
<1>3. CatalogTypeOK'
  BY <1>1, <1>2 DEF CatalogTypeOK
<1>4. (\A f \in Staff : Sound(draft[f]))'
  BY DEF Sound
<1>5. \A i \in Item : /\ item'[i].selling = item[i].selling
                      /\ item'[i].original = item[i].original
                      /\ item'[i].there = IF i = v THEN "removed" ELSE item[i].there
  BY <1>1 DEF CatalogTypeOK, Doc
<1>6. item'["product"] = item["product"]
  BY <1>1 DEF CatalogTypeOK, Item
<1>7. CatalogCoherent'
  BY <1>1, <1>5, <1>6
  DEF CatalogCoherent, OnSaleIsPublished, PricesInOrder, InOrder, VariationsFollow, OnFile, Item
<1>8. QED
  BY <1>3, <1>4, <1>7

-------------------------------------------------------------------------------
(* The product with its variations. *)

LEMMA CreateSteps ==
  ASSUME CatalogInv, NEW e \in Staff, NEW s \in Status, NEW p \in Price, NEW o \in Was,
         CreateProduct(e, s, p, o)
  PROVE  CatalogInv'
<1> DEFINE copy == [there |-> "live", status |-> s, published |-> s # "DRAFT",
                    selling |-> p, original |-> o]
           d == [at |-> "creating", id |-> "product", read |-> NoDoc, copy |-> copy]
<1>1. copy \in Doc /\ Published(copy)
  BY DEF Doc, Published
<1>2. d \in Draft
  BY <1>1, NoDraftSound DEF Draft, Item
<1>3. Sound(d)
  BY <1>1 DEF CreateProduct, Sound
<1>4. QED
  BY <1>2, <1>3, BeginSteps DEF CreateProduct

LEMMA MadeDoc ==
  ASSUME NEW d \in Doc, NEW p \in Was, NEW o \in Was
  PROVE  Made(d, p, o) \in Doc /\ Made(d, p, o).there = d.there
  BY DEF Made, Doc, Given, Was

(* An edit that ends leaves every other as it was. *)
LEMMA EndSteps ==
  ASSUME CatalogInv, NEW e \in Staff, Ends(e), UNCHANGED contested
  PROVE  /\ (\A f \in Staff : Sound(draft[f]))'
         /\ draft' \in [Staff -> Draft] /\ saves' \in 0..MaxSaves /\ atomic' \in BOOLEAN
         /\ contested' \subseteq {"prices", "publication"}
  BY NoDraftSound DEF CatalogInv, CatalogTypeOK, Ends, Sound

LEMMA InsertAllSteps ==
  ASSUME CatalogInv, NEW e \in Staff, NEW p \in Was, NEW o \in Was, InsertTogether(e, p, o)
  PROVE  CatalogInv'
<1> DEFINE d == draft[e].copy
<1>1. /\ d \in Doc /\ draft[e].at = "creating" /\ Sound(draft[e])
      /\ d.there = "live" /\ InOrder(d) /\ Published(d)
  BY DEF InsertTogether, CatalogInv, CatalogTypeOK, Draft, Sound
<1>2. /\ Made(d, p, o) \in Doc /\ Made(d, p, o).there = "live" /\ InOrder(Made(d, p, o))
  BY <1>1, MadeDoc DEF InsertTogether
<1>3. /\ item' = [i \in Item |-> IF i = "product" THEN d ELSE Made(d, p, o)]
      /\ Ends(e) /\ contested' = contested
  BY DEF InsertTogether, Committed
<1> HIDE DEF d
<1>4. /\ item' \in [Item -> Doc] /\ item'["product"] = d
      /\ \A i \in Item : item'[i].there = "live" /\ InOrder(item'[i])
  BY <1>1, <1>2, <1>3 DEF Item
<1>5. CatalogCoherent'
  BY <1>1, <1>4
  DEF CatalogCoherent, OnSaleIsPublished, PricesInOrder, InOrder, VariationsFollow, OnFile, Item,
      Published
<1>6. QED
  BY <1>3, <1>4, <1>5, EndSteps DEF CatalogInv, CatalogTypeOK

LEMMA InsertProductSteps ==
  ASSUME CatalogInv, NEW e \in Staff, InsertProduct(e)
  PROVE  CatalogInv'
<1> DEFINE d == draft[e].copy
<1>1. d \in Doc /\ InOrder(d) /\ Published(d)
  BY DEF InsertProduct, CatalogInv, CatalogTypeOK, Draft, Sound
<1>2. /\ item' = [item EXCEPT !["product"] = d]
      /\ ~atomic /\ UNCHANGED <<atomic, draft, saves, contested>>
  BY DEF InsertProduct
<1> HIDE DEF d
<1>3. /\ item' \in [Item -> Doc] /\ item'["product"] = d
      /\ \A i \in Item : i # "product" => item'[i] = item[i]
  BY <1>1, <1>2 DEF CatalogInv, CatalogTypeOK, Item
<1>4. CatalogCoherent'
  BY <1>1, <1>2, <1>3
  DEF CatalogInv, CatalogCoherent, OnSaleIsPublished, PricesInOrder, InOrder, Item, Published
<1>5. QED
  BY <1>2, <1>3, <1>4 DEF CatalogInv, CatalogTypeOK, Sound

LEMMA InsertSomeSteps ==
  ASSUME CatalogInv, NEW e \in Staff, NEW accepted \in SUBSET Variation,
         NEW p \in Was, NEW o \in Was, InsertVariations(e, accepted, p, o)
  PROVE  CatalogInv'
<1> DEFINE d == draft[e].copy
<1>1. d \in Doc
  BY DEF InsertVariations, CatalogInv, CatalogTypeOK, Draft
<1>2. Made(d, p, o) \in Doc
  BY <1>1, MadeDoc
<1>3. /\ item' = [i \in Item |-> IF i \in accepted THEN Made(d, p, o) ELSE item[i]]
      /\ Ends(e) /\ contested' = contested /\ ~atomic
      /\ InOrder(Made(d, p, o)) \/ accepted = {}
  BY DEF InsertVariations, Committed
<1> HIDE DEF d
<1>4. item' \in [Item -> Doc] /\ item'["product"] = item["product"]
  BY <1>2, <1>3, CatalogAssumption DEF CatalogInv, CatalogTypeOK, Item
<1>5. \A i \in Item : InOrder(item[i]) => InOrder(item'[i])
  BY <1>3
<1>6. atomic' = atomic
  BY <1>3 DEF Ends
<1>7. CatalogCoherent'
  BY <1>3, <1>4, <1>5, <1>6
  DEF CatalogInv, CatalogCoherent, OnSaleIsPublished, PricesInOrder, InOrder
<1>8. QED
  BY <1>3, <1>4, <1>7, EndSteps DEF CatalogInv, CatalogTypeOK

LEMMA RemovedDocs ==
  ASSUME CatalogInv, NEW i \in Item
  PROVE  /\ RemovesAll(i) \in Doc
         /\ RemovesAll(i).there = IF item[i].there = "live" THEN "removed" ELSE item[i].there
         /\ InOrder(item[i]) => InOrder(RemovesAll(i))
         /\ Published(item[i]) => Published(RemovesAll(i))
<1>1. item[i] \in Doc
  BY DEF CatalogInv, CatalogTypeOK
<1>2. QED
  BY <1>1 DEF RemovesAll, Doc, InOrder, Published

LEMMA RemoveAllSteps ==
  ASSUME CatalogInv, NEW e \in Staff, RemoveTogether(e) \/ RemoveVariations(e)
  PROVE  CatalogInv'
<1>1. /\ item' = [i \in Item |-> RemovesAll(i)]
      /\ contested' = contested /\ atomic' = atomic
  BY DEF RemoveTogether, RemoveVariations, Committed, Ends
<1>2. item' \in [Item -> Doc] /\ \A i \in Item : item'[i] = RemovesAll(i)
  BY <1>1, RemovedDocs
<1>3. CatalogCoherent'
  <2>1. (OnSaleIsPublished => OnSaleIsPublished') /\ (PricesInOrder => PricesInOrder')
    BY <1>2, RemovedDocs DEF OnSaleIsPublished, PricesInOrder, Published, InOrder, Item
  <2>2. \A i \in Item : item'[i].there # "live"
    BY <1>2, RemovedDocs
  <2>3. VariationsFollow'
    BY <2>2 DEF VariationsFollow, OnFile, Item
  <2>4. QED
    BY <1>1, <2>1, <2>3 DEF CatalogInv, CatalogCoherent
<1>4. CASE RemoveTogether(e)
  BY <1>2, <1>3, <1>4 DEF RemoveTogether, CatalogInv, CatalogTypeOK, Sound
<1>5. CASE RemoveVariations(e)
  BY <1>2, <1>3, <1>5, EndSteps DEF RemoveVariations, Committed, CatalogInv, CatalogTypeOK
<1>6. QED
  BY <1>4, <1>5

LEMMA RemoveProductSteps ==
  ASSUME CatalogInv, NEW e \in Staff, RemoveProduct(e)
  PROVE  CatalogInv'
<1> USE DEF RemoveProduct
<1>1. item["product"] \in Doc
  BY DEF CatalogInv, CatalogTypeOK, Item
<1> DEFINE gone == [item["product"] EXCEPT !.there = "removed"]
           d == [NoDraft EXCEPT !.at = "removing"]
<1>2. /\ gone \in Doc
      /\ InOrder(item["product"]) => InOrder(gone)
      /\ Published(item["product"]) => Published(gone)
  BY <1>1 DEF Doc, InOrder, Published
<1>3. d \in Draft /\ Sound(d)
  BY NoDraftSound DEF Draft, NoDraft, Sound
<1>4. /\ item' = [item EXCEPT !["product"] = gone] /\ draft' = [draft EXCEPT ![e] = d]
      /\ ~atomic /\ UNCHANGED <<atomic, saves, contested>>
  OBVIOUS
<1> HIDE DEF gone, d, RemoveProduct
<1>5. CatalogTypeOK'
  BY <1>2, <1>3, <1>4 DEF CatalogInv, CatalogTypeOK
<1>6. (\A f \in Staff : Sound(draft[f]))'
  BY <1>3, <1>4 DEF CatalogInv, CatalogTypeOK, Sound
<1>7. CatalogCoherent'
  BY <1>2, <1>4
  DEF CatalogInv, CatalogTypeOK, CatalogCoherent, OnSaleIsPublished, PricesInOrder, Published,
      InOrder, Item
<1>8. QED
  BY <1>5, <1>6, <1>7 DEF CatalogInv

LEMMA LapseSteps ==
  ASSUME CatalogInv, NEW e \in Staff, Lapsed(e)
  PROVE  CatalogInv'
<1>1. Ends(e) /\ UNCHANGED <<item, contested>> /\ atomic' = atomic
  BY DEF Lapsed, Ends
<1>2. CatalogCoherent'
  BY <1>1
  DEF CatalogInv, CatalogCoherent, OnSaleIsPublished, PricesInOrder, VariationsFollow, OnFile
<1>3. QED
  BY <1>1, <1>2, EndSteps DEF CatalogInv, CatalogTypeOK

LEMMA CatalogInvariant ==
  CatalogSpec => []CatalogInv
<1>1. CatalogInv /\ [CatalogNext]_catalogVars => CatalogInv'
  <2>1. ASSUME CatalogInv, CatalogNext
        PROVE  CatalogInv'
    BY <2>1, EditSteps, SaveSteps, RemoveVariationSteps, CreateSteps, InsertAllSteps,
       InsertProductSteps, InsertSomeSteps, RemoveAllSteps, RemoveProductSteps, LapseSteps
    DEF CatalogNext
  <2>2. ASSUME CatalogInv, UNCHANGED catalogVars
        PROVE  CatalogInv'
    BY <2>2
    DEF CatalogInv, catalogVars, CatalogTypeOK, Sound, CatalogCoherent, OnSaleIsPublished,
        PricesInOrder, VariationsFollow, OnFile
  <2>3. QED
    BY <2>1, <2>2
<1>2. QED
  BY <1>1, CatalogStarts, PTL DEF CatalogSpec

(* Type correctness of the documents and of the edits in flight
   (product.service.js, variation.service.js). *)
THEOREM CatalogTyped ==
  CatalogSpec => []CatalogTypeOK
<1>1. CatalogInv => CatalogTypeOK
  BY DEF CatalogInv
<1>2. QED
  BY <1>1, CatalogInvariant, PTL

(* However staff edit a product and its variations panel by panel, it stays
   coherent, unless two edits of one pair of fields overlapped
   (product.service.js, product.model.js, variation.service.js). *)
THEOREM CatalogStaysCoherent ==
  CatalogSpec => []CatalogCoherent
<1>1. CatalogInv => CatalogCoherent
  BY DEF CatalogInv
<1>2. QED
  BY <1>1, CatalogInvariant, PTL

-------------------------------------------------------------------------------
(* Categories: the tree. *)


Moves == UNION {[ids -> Parent] : ids \in SUBSET Category}

(* What a call knows while nobody has saved since it began: the ancestors  *)
(* it read are closed under parent up to the next one to read.             *)
HasRead(d) ==
  /\ \/ d.op = "update" /\ d.id \in Live
     \/ d.op = "create" /\ d.id = Root
  /\ d.seen \subseteq Live /\ d.id \notin d.seen
  /\ \A s \in d.seen : parent[s] \in d.seen \cup {d.next}
  /\ d.seen = {} => d.next = d.to
  /\ d.seen # {} => d.to \in d.seen

MayGoOn(d) == d.seen # {} => d.next \in Live

HasTested(moves) ==
  /\ DOMAIN moves \subseteq Live
  /\ \A c \in DOMAIN moves : moves[c] \in Live \cup {Root}
  /\ AcyclicOn(Live, [c \in Category |-> IF c \in DOMAIN moves THEN moves[c]
                                         ELSE parent[c]])

HasNoChild(c) == c \in Live /\ \A d \in Live : parent[d] # c

Knows(e) ==
  ~edit[e].overtaken =>
    /\ step[e] = "walking" => HasRead(edit[e]) /\ MayGoOn(edit[e])
    /\ step[e] = "saving" => HasRead(edit[e]) /\ edit[e].next = Root
    /\ step[e] = "sorting" => HasTested(edit[e].moves)
    /\ step[e] = "removing" => HasNoChild(edit[e].id)

(* A call that walks has an ancestor to read. *)
Typed ==
  /\ CategoriesTypeOK
  /\ \A e \in Editor : step[e] = "walking" => edit[e].next \in Category

TreeInv ==
  /\ Typed
  /\ Undisturbed =>
       /\ AcyclicOn(Live, parent)
       /\ \A c \in Live : parent[c] \in Live \cup {Root}
       /\ \A e \in Editor : Knows(e)

-------------------------------------------------------------------------------
(* Types. *)

LEMMA NewEditTyped ==
  ASSUME NEW op \in {"create", "update", "sort", "remove"}, NEW id \in Parent,
         NEW to \in Parent, NEW moves \in Moves
  PROVE  /\ NewEdit(op, id, to) \in Edit
         /\ [NewEdit(op, id, to) EXCEPT !.moves = moves] \in Edit
<1>1. [c \in {} |-> Root] \in [{} -> Parent]
  OBVIOUS
<1>2. [c \in {} |-> Root] \in Moves
  BY <1>1 DEF Moves
<1> QED BY <1>2 DEF NewEdit, Edit, Moves

LEMMA NoEditTyped == NoEdit \in Edit
<1>1. [c \in {} |-> Root] \in [{} -> Parent]
  OBVIOUS
<1>2. [c \in {} |-> Root] \in Moves /\ Root \in Parent
  BY <1>1 DEF Moves, Parent
<1> QED BY <1>2, NewEditTyped DEF NoEdit

LEMMA BeginTyped ==
  ASSUME Typed, NEW e \in Editor, NEW d \in Edit,
         NEW next \in {"walking", "saving", "sorting", "removing"}, Begin(e, next, d),
         next = "walking" => d.next \in Category
  PROVE  Typed'
BY CategoriesAssumption DEF Typed, CategoriesTypeOK, Begin, tree

LEMMA StartTyped ==
  ASSUME Typed, NEW e \in Editor, NEW op \in {"create", "update"}, NEW id \in Parent,
         NEW to \in Parent, Begin(e, AfterParent(to), NewEdit(op, id, to))
  PROVE  Typed'
<1> DEFINE d == NewEdit(op, id, to)
           next == AfterParent(to)
<1>1. [c \in {} |-> Root] \in Moves
  BY NoEditTyped DEF NoEdit, NewEdit, Edit, Moves
<1>2. d \in Edit
  BY <1>1, NewEditTyped
<1>3. next \in {"walking", "saving", "sorting", "removing"}
  BY DEF AfterParent
<1>4. next = "walking" => d.next \in Category
  BY DEF NewEdit, AfterParent, Parent
<1>5. Begin(e, next, d)
  OBVIOUS
<1> HIDE DEF d, next
<1> QED BY <1>2, <1>3, <1>4, <1>5, BeginTyped

LEMMA SaveTyped ==
  ASSUME Typed, NEW e \in Editor, NEW d \in Edit, SaveGoesOn(e, d), step[e] # "walking",
         parent' \in [Category -> Parent],
         state' \in [Category -> {"absent", "live", "removed"}]
  PROVE  Typed'
<1>1. \A f \in Editor : [edit[f] EXCEPT !.overtaken = step[f] # "idle"] \in Edit
  BY DEF Typed, CategoriesTypeOK, Edit
<1>2. edit' \in [Editor -> Edit]
  BY <1>1 DEF SaveGoesOn
<1>3. step' \in [Editor -> {"idle", "walking", "saving", "sorting", "removing"}]
  BY DEF SaveGoesOn, Typed, CategoriesTypeOK
<1>4. edit[e].overtaken \in BOOLEAN
  BY DEF Typed, CategoriesTypeOK, Edit
<1>5. crossed' \in BOOLEAN
  BY <1>4 DEF SaveGoesOn, Typed, CategoriesTypeOK
<1>6. CategoriesTypeOK'
  BY <1>2, <1>3, <1>5 DEF SaveGoesOn, Typed, CategoriesTypeOK
<1>7. ASSUME NEW f \in Editor, step'[f] = "walking"
      PROVE  edit'[f].next \in Category
  <2>1. f # e /\ step[f] = "walking"
    BY <1>7 DEF SaveGoesOn, Typed, CategoriesTypeOK
  <2>2. edit'[f] = [edit[f] EXCEPT !.overtaken = step[f] # "idle"]
    BY <2>1 DEF SaveGoesOn
  <2>3. edit[f] \in Edit
    BY DEF Typed, CategoriesTypeOK
  <2>4. edit'[f].next = edit[f].next
    BY <2>2, <2>3 DEF Edit
  <2> QED BY <2>1, <2>4 DEF Typed
<1> QED BY <1>6, <1>7 DEF Typed

LEMMA EndTyped ==
  ASSUME Typed, NEW e \in Editor, End(e), UNCHANGED <<tree, transactional, edits, crossed>>
  PROVE  Typed'
BY NoEditTyped DEF End, Typed, CategoriesTypeOK, tree

LEMMA TypesKept ==
  ASSUME Typed, [CategoriesNext]_categoriesVars
  PROVE  Typed'
<1> USE CategoriesAssumption
<1>0. Root \in Parent /\ Category \subseteq Parent /\ Parent \ {Root} \subseteq Category
  BY DEF Parent
<1>a. [c \in {} |-> Root] \in Moves
  BY NoEditTyped DEF NoEdit, NewEdit, Edit, Moves
<1>1. ASSUME NEW e \in Editor, NEW to \in Parent, Create(e, to)
      PROVE  Typed'
  BY <1>0, <1>1, StartTyped DEF Create
<1>2. ASSUME NEW e \in Editor, NEW c \in Category, NEW to \in Parent, Update(e, c, to)
      PROVE  Typed'
  BY <1>0, <1>2, StartTyped DEF Update
<1>3. ASSUME NEW e \in Editor, NEW ids \in SUBSET Category, NEW moves \in [ids -> Parent],
             Sort(e, moves)
      PROVE  Typed'
  <2>1. moves \in Moves
    BY DEF Moves
  <2> QED BY <1>0, <1>3, <2>1, NewEditTyped, BeginTyped DEF Sort
<1>4. ASSUME NEW e \in Editor, NEW c \in Category, Remove(e, c)
      PROVE  Typed'
  BY <1>0, <1>a, <1>4, NewEditTyped, BeginTyped DEF Remove
<1>5. ASSUME NEW e \in Editor, Walk(e)
      PROVE  Typed'
  <2> DEFINE n == edit[e].next
             up == IF state[n] = "live" THEN parent[n] ELSE Root
  <2>1. CASE End(e)
    BY <1>5, <2>1, EndTyped DEF Walk
  <2>2. CASE ~End(e)
    <3>1. edit' = [edit EXCEPT ![e].seen = @ \cup {n}, ![e].next = up]
      BY <1>5, <2>2 DEF Walk
    <3>2. step' = [step EXCEPT ![e] = AfterParent(up)]
      BY <1>5, <2>2 DEF Walk
    <3>3. edit[e] \in Edit /\ n \in Category
      BY <1>5 DEF Typed, CategoriesTypeOK, Walk
    <3>4. up \in Parent
      BY <3>3, <1>0 DEF Typed, CategoriesTypeOK
    <3> HIDE DEF up
    <3>5. [edit[e] EXCEPT !.seen = @ \cup {n}, !.next = up] \in Edit
      BY <3>3, <3>4 DEF Edit
    <3>6. edit' = [edit EXCEPT ![e] = [edit[e] EXCEPT !.seen = @ \cup {n}, !.next = up]]
      BY <3>1, <3>3 DEF Typed, CategoriesTypeOK
    <3>7. CategoriesTypeOK'
      BY <1>5, <3>2, <3>5, <3>6 DEF Walk, AfterParent, Typed, CategoriesTypeOK, tree
    <3>8. step'[e] = "walking" => edit'[e].next \in Category
      BY <1>0, <3>2, <3>3, <3>4, <3>6 DEF AfterParent, Typed, CategoriesTypeOK, Edit
    <3>9. \A f \in Editor \ {e} : step'[f] = step[f] /\ edit'[f] = edit[f]
      BY <3>2, <3>6 DEF Typed, CategoriesTypeOK
    <3> QED BY <3>7, <3>8, <3>9 DEF Typed
  <2> QED BY <2>1, <2>2
<1>6. ASSUME NEW e \in Editor, SaveCreate(e)
      PROVE  Typed'
  <2>1. edit[e].to \in Parent
    BY DEF Typed, CategoriesTypeOK, Edit
  <2>2. /\ parent' \in [Category -> Parent]
        /\ state' \in [Category -> {"absent", "live", "removed"}]
    BY <1>6, <2>1 DEF SaveCreate, Typed, CategoriesTypeOK
  <2> QED BY <1>6, <2>2, NoEditTyped, SaveTyped DEF SaveCreate, Saved
<1>7. ASSUME NEW e \in Editor, SaveUpdate(e)
      PROVE  Typed'
  <2>1. edit[e].to \in Parent
    BY DEF Typed, CategoriesTypeOK, Edit
  <2>2. /\ parent' \in [Category -> Parent]
        /\ state' \in [Category -> {"absent", "live", "removed"}]
    BY <1>7, <2>1 DEF SaveUpdate, Typed, CategoriesTypeOK
  <2> QED BY <1>7, <2>2, NoEditTyped, SaveTyped DEF SaveUpdate, Saved
<1>8. ASSUME NEW moves \in Moves
      PROVE  Moved(moves) \in [Category -> Parent]
  BY <1>8 DEF Moves, Moved, Typed, CategoriesTypeOK
<1>9. ASSUME NEW e \in Editor
      PROVE  edit[e].moves \in Moves
  BY DEF Typed, CategoriesTypeOK, Edit, Moves
<1>10. ASSUME NEW e \in Editor, SaveSort(e)
       PROVE  Typed'
  <2>1. /\ parent' \in [Category -> Parent]
        /\ state' \in [Category -> {"absent", "live", "removed"}]
    BY <1>8, <1>9, <1>10 DEF SaveSort, Typed, CategoriesTypeOK
  <2> QED BY <1>10, <2>1, NoEditTyped, SaveTyped DEF SaveSort, Saved
<1>11. ASSUME NEW e \in Editor, SaveMove(e)
       PROVE  Typed'
  <2> DEFINE moves == edit[e].moves
             Only(ids) == [c \in ids |-> moves[c]]
  <2>1. ASSUME NEW ids \in SUBSET DOMAIN moves
        PROVE  Only(ids) \in Moves
    <3>1. PICK all \in SUBSET Category : moves \in [all -> Parent]
      BY <1>9 DEF Moves
    <3>2. ids \in SUBSET Category /\ Only(ids) \in [ids -> Parent]
      BY <3>1
    <3> QED BY <3>2 DEF Moves
  <2>2. PICK c \in DOMAIN moves :
           /\ parent' = Moved(Only({c}))
           /\ SaveGoesOn(e, IF DOMAIN moves = {c} THEN NoEdit
                            ELSE [edit[e] EXCEPT !.moves = Only(DOMAIN moves \ {c})])
    BY <1>11 DEF SaveMove
  <2>3. Only({c}) \in Moves /\ Only(DOMAIN moves \ {c}) \in Moves
    BY <2>1
  <2>4. /\ parent' \in [Category -> Parent]
        /\ state' \in [Category -> {"absent", "live", "removed"}]
    BY <1>8, <1>11, <2>2, <2>3 DEF SaveMove, Typed, CategoriesTypeOK
  <2> HIDE DEF Only, moves
  <2>5. [edit[e] EXCEPT !.moves = Only(DOMAIN moves \ {c})] \in Edit
    BY <2>3 DEF Typed, CategoriesTypeOK, Edit, Moves
  <2>6. step[e] # "walking"
    BY <1>11 DEF SaveMove
  <2> QED BY <2>2, <2>4, <2>5, <2>6, NoEditTyped, SaveTyped
<1>12. ASSUME NEW e \in Editor, SaveRemove(e)
       PROVE  Typed'
  <2>1. /\ parent' \in [Category -> Parent]
        /\ state' \in [Category -> {"absent", "live", "removed"}]
    BY <1>12 DEF SaveRemove, Typed, CategoriesTypeOK
  <2> QED BY <1>12, <2>1, NoEditTyped, SaveTyped DEF SaveRemove, Saved
<1>13. ASSUME NEW e \in Editor, Abandon(e)
       PROVE  Typed'
  BY <1>13, EndTyped DEF Abandon
<1>14. CASE UNCHANGED categoriesVars
  BY <1>14 DEF Typed, CategoriesTypeOK, categoriesVars, tree
<1> QED
  BY <1>1, <1>2, <1>3, <1>4, <1>5, <1>6, <1>7, <1>10, <1>11, <1>12, <1>13, <1>14
  DEF CategoriesNext

-------------------------------------------------------------------------------
(* The tree. *)

(* A new leaf below a live category, or at the top, closes no cycle. *)
LEMMA LeafKeepsAcyclic ==
  ASSUME NEW cats, NEW up, AcyclicOn(cats, up), \A c \in cats : up[c] \in cats \cup {Root},
         NEW new, new \notin cats, new # Root, Root \notin cats, NEW to \in cats \cup {Root},
         NEW up2, up2[new] = to, \A c \in cats : up2[c] = up[c]
  PROVE  AcyclicOn(cats \cup {new}, up2)
<1> SUFFICES ASSUME NEW S \in SUBSET (cats \cup {new}), S # {}
             PROVE  \E c \in S : up2[c] \notin S
  BY DEF AcyclicOn
<1>1. CASE S = {new}
  BY <1>1
<1>2. CASE S # {new}
  <2> DEFINE T == S \ {new}
  <2>1. T \in SUBSET cats /\ T # {}
    BY <1>2
  <2>2. PICK c \in T : up[c] \notin T
    BY <2>1 DEF AcyclicOn
  <2>3. c \in S /\ c \in cats /\ up2[c] = up[c] /\ up[c] # new
    BY <2>1, <2>2
  <2> QED BY <2>2, <2>3
<1> QED BY <1>1, <1>2

(* A category may move below one whose ancestors do not include it. *)
LEMMA MoveKeepsAcyclic ==
  ASSUME NEW cats, NEW up, AcyclicOn(cats, up), Root \notin cats,
         NEW id \in cats, NEW to, NEW seen \in SUBSET cats, id \notin seen,
         to \in seen \/ to = Root, \A s \in seen : up[s] \in seen \cup {Root},
         NEW up2, up2[id] = to, \A c \in cats : c # id => up2[c] = up[c]
  PROVE  AcyclicOn(cats, up2)
<1> SUFFICES ASSUME NEW S \in SUBSET cats, S # {}
             PROVE  \E c \in S : up2[c] \notin S
  BY DEF AcyclicOn
<1>1. CASE id \notin S
  <2>1. PICK c \in S : up[c] \notin S
    BY DEF AcyclicOn
  <2> QED BY <1>1, <2>1
<1>2. CASE id \in S /\ to \notin S
  BY <1>2
<1>3. CASE id \in S /\ to \in S
  <2> DEFINE T == S \cap seen
  <2>1. T \in SUBSET cats /\ T # {}
    BY <1>3
  <2>2. PICK c \in T : up[c] \notin T
    BY <2>1 DEF AcyclicOn
  <2>3. c \in S /\ c # id /\ up2[c] = up[c] /\ up[c] \notin S
    BY <2>2
  <2> QED BY <2>3
<1> QED BY <1>1, <1>2, <1>3

(* Whoever has saved ends the tests of all others. *)
LEMMA SavedKnowsNothing ==
  ASSUME Typed, NEW e \in Editor, Saved(e)
  PROVE  /\ \A f \in Editor : Knows(f)'
         /\ Undisturbed' => Undisturbed /\ ~edit[e].overtaken
<1>1. ASSUME NEW f \in Editor, f # e, step'[f] # "idle"
      PROVE  edit'[f].overtaken = TRUE
  <2>1. edit'[f] = [edit[f] EXCEPT !.overtaken = step[f] # "idle"] /\ step'[f] = step[f]
    BY <1>1 DEF Saved, SaveGoesOn, Typed, CategoriesTypeOK
  <2>2. edit[f] \in Edit
    BY DEF Typed, CategoriesTypeOK
  <2> QED BY <1>1, <2>1, <2>2 DEF Edit
<1>2. step'[e] = "idle"
  BY DEF Saved, SaveGoesOn, Typed, CategoriesTypeOK
<1>3. ASSUME NEW f \in Editor
      PROVE  Knows(f)'
  BY <1>1, <1>2 DEF Knows
<1>4. crossed' = (crossed \/ edit[e].overtaken) /\ transactional' = transactional
  BY DEF Saved, SaveGoesOn
<1> QED BY <1>3, <1>4 DEF Undisturbed

(* What the others know does not change when the tree does not. *)
LEMMA OthersKnow ==
  ASSUME NEW e \in Editor, NEW f \in Editor, f # e, Knows(f), UNCHANGED tree,
         step'[f] = step[f], edit'[f] = edit[f]
  PROVE  Knows(f)'
BY DEF Knows, HasRead, MayGoOn, HasTested, HasNoChild, Live, tree, AcyclicOn

LEMMA EndKnows ==
  ASSUME Typed, \A f \in Editor : Knows(f), NEW e \in Editor, End(e), UNCHANGED tree
  PROVE  \A f \in Editor : Knows(f)'
<1>1. ASSUME NEW f \in Editor, f # e
      PROVE  Knows(f)'
  BY <1>1, OthersKnow DEF End, Typed, CategoriesTypeOK
<1>2. Knows(e)'
  BY DEF End, Knows, Typed, CategoriesTypeOK
<1> QED BY <1>1, <1>2

LEMMA BeginKnows ==
  ASSUME Typed, \A f \in Editor : Knows(f), NEW e \in Editor, NEW next, NEW d,
         Begin(e, next, d),
         next \in {"walking", "saving"} => HasRead(d),
         next = "walking" => MayGoOn(d),
         next = "saving" => d.next = Root,
         next = "sorting" => HasTested(d.moves),
         next = "removing" => HasNoChild(d.id)
  PROVE  \A f \in Editor : Knows(f)'
<1>1. ASSUME NEW f \in Editor, f # e
      PROVE  Knows(f)'
  BY <1>1, OthersKnow DEF Begin, Typed, CategoriesTypeOK
<1>2. step'[e] = next /\ edit'[e] = d /\ UNCHANGED tree
  BY DEF Begin, Typed, CategoriesTypeOK
<1>3. Knows(e)'
  BY <1>2 DEF Knows, HasRead, MayGoOn, HasTested, HasNoChild, Live, tree, AcyclicOn
<1> QED BY <1>1, <1>3

LEMMA TreeKept ==
  ASSUME TreeInv, [CategoriesNext]_categoriesVars, Undisturbed'
  PROVE  /\ AcyclicOn(Live, parent)'
         /\ (\A c \in Live : parent[c] \in Live \cup {Root})'
         /\ \A e \in Editor : Knows(e)'
<1> DEFINE Good == /\ AcyclicOn(Live, parent)'
                   /\ (\A c \in Live : parent[c] \in Live \cup {Root})'
                   /\ \A e \in Editor : Knows(e)'
<1> SUFFICES Good
  OBVIOUS
<1>a. Typed /\ Root \notin Category /\ Live \subseteq Category
  BY CategoriesAssumption DEF TreeInv, Live
<1>b. Undisturbed =>
        /\ AcyclicOn(Live, parent)
        /\ \A c \in Live : parent[c] \in Live \cup {Root}
        /\ \A e \in Editor : Knows(e)
  BY DEF TreeInv
<1>c. UNCHANGED tree /\ Undisturbed =>
        /\ AcyclicOn(Live, parent)'
        /\ (\A c \in Live : parent[c] \in Live \cup {Root})'
  BY <1>b DEF AcyclicOn, Live, tree
<1> HIDE DEF Good
<1>1. ASSUME NEW e \in Editor, NEW to \in Parent, Create(e, to)
      PROVE  Good
  <2> DEFINE d == NewEdit("create", Root, to)
  <2>1. UNCHANGED tree /\ Undisturbed
    BY <1>1 DEF Create, Begin, Undisturbed
  <2>2. HasRead(d) /\ MayGoOn(d) /\ d.next = to
    BY DEF NewEdit, HasRead, MayGoOn
  <2>3. Begin(e, AfterParent(to), d) /\ AfterParent(to) \in {"walking", "saving"}
        /\ (AfterParent(to) = "saving" => to = Root)
    BY <1>1 DEF Create, AfterParent
  <2> HIDE DEF d
  <2>4. \A f \in Editor : Knows(f)'
    BY <1>a, <1>b, <2>1, <2>2, <2>3, BeginKnows
  <2> QED BY <1>c, <2>1, <2>4 DEF Good
<1>2. ASSUME NEW e \in Editor, NEW c \in Category, NEW to \in Parent, Update(e, c, to)
      PROVE  Good
  <2> DEFINE d == NewEdit("update", c, to)
  <2>1. UNCHANGED tree /\ Undisturbed
    BY <1>2 DEF Update, Begin, Undisturbed
  <2>2. HasRead(d) /\ MayGoOn(d) /\ d.next = to
    BY <1>2 DEF Update, NewEdit, HasRead, MayGoOn
  <2>3. Begin(e, AfterParent(to), d) /\ AfterParent(to) \in {"walking", "saving"}
        /\ (AfterParent(to) = "saving" => to = Root)
    BY <1>2 DEF Update, AfterParent
  <2> HIDE DEF d
  <2>4. \A f \in Editor : Knows(f)'
    BY <1>a, <1>b, <2>1, <2>2, <2>3, BeginKnows
  <2> QED BY <1>c, <2>1, <2>4 DEF Good
<1>3. ASSUME NEW e \in Editor, NEW ids \in SUBSET Category, NEW moves \in [ids -> Parent],
             Sort(e, moves)
      PROVE  Good
  <2> DEFINE d == [NewEdit("sort", Root, Root) EXCEPT !.moves = moves]
  <2>1. UNCHANGED tree /\ Undisturbed
    BY <1>3 DEF Sort, Begin, Undisturbed
  <2>2. d.moves = moves
    BY DEF NewEdit
  <2>3. HasTested(moves)
    BY <1>3 DEF Sort, HasTested
  <2>4. Begin(e, "sorting", d)
    BY <1>3 DEF Sort
  <2> HIDE DEF d
  <2>5. \A f \in Editor : Knows(f)'
    BY <1>a, <1>b, <2>1, <2>2, <2>3, <2>4, BeginKnows
  <2> QED BY <1>c, <2>1, <2>5 DEF Good
<1>4. ASSUME NEW e \in Editor, NEW c \in Category, Remove(e, c)
      PROVE  Good
  <2> DEFINE d == NewEdit("remove", c, Root)
  <2>1. UNCHANGED tree /\ Undisturbed
    BY <1>4 DEF Remove, Begin, Undisturbed
  <2>2. d.id = c
    BY DEF NewEdit
  <2>3. HasNoChild(c) /\ Begin(e, "removing", d)
    BY <1>4 DEF Remove, HasNoChild
  <2> HIDE DEF d
  <2>4. \A f \in Editor : Knows(f)'
    BY <1>a, <1>b, <2>1, <2>2, <2>3, BeginKnows
  <2> QED BY <1>c, <2>1, <2>4 DEF Good
<1>5. ASSUME NEW e \in Editor, Walk(e)
      PROVE  Good
  <2> DEFINE n == edit[e].next
             up == IF state[n] = "live" THEN parent[n] ELSE Root
  <2>1. UNCHANGED tree /\ Undisturbed
    BY <1>5 DEF Walk, Undisturbed
  <2>2. CASE End(e)
    BY <1>a, <1>b, <1>c, <2>1, <2>2, EndKnows DEF Good
  <2>3. CASE ~End(e)
    <3>1. /\ step[e] = "walking" /\ ~Refuses(e)
          /\ edit' = [edit EXCEPT ![e].seen = @ \cup {n}, ![e].next = up]
          /\ step' = [step EXCEPT ![e] = AfterParent(up)]
      BY <1>5, <2>3 DEF Walk
    <3>2. edit[e] \in Edit /\ n \in Category
      BY <1>a, <3>1 DEF Typed, CategoriesTypeOK
    <3>3. /\ edit'[e].seen = edit[e].seen \cup {n} /\ edit'[e].next = up
          /\ edit'[e].op = edit[e].op /\ edit'[e].id = edit[e].id
          /\ edit'[e].to = edit[e].to /\ edit'[e].overtaken = edit[e].overtaken
      BY <1>a, <3>1, <3>2 DEF Typed, CategoriesTypeOK, Edit
    <3>4. step'[e] = AfterParent(up)
      BY <1>a, <3>1 DEF Typed, CategoriesTypeOK
    <3>5. ASSUME ~edit[e].overtaken
          PROVE  HasRead(edit[e])' /\ (up # Root => MayGoOn(edit[e])')
      <4>1. HasRead(edit[e]) /\ MayGoOn(edit[e])
        BY <1>b, <2>1, <3>1, <3>5 DEF Knows
      <4>2. n \in Live /\ n # edit[e].id
        BY <3>1, <3>2, <4>1 DEF Refuses, MayGoOn, Live
      <4>3. up = parent[n]
        BY <4>2 DEF Live
      <4>4. n = edit[e].to \/ edit[e].to \in edit[e].seen
        BY <4>1 DEF HasRead
      <4>5. \A s \in edit[e].seen \cup {n} : parent[s] \in (edit[e].seen \cup {n}) \cup {up}
        BY <4>1, <4>3 DEF HasRead
      <4>6. Live' = Live /\ parent' = parent
        BY <2>1 DEF Live, tree
      <4> HIDE DEF up, n
      <4>7. HasRead(edit[e])'
        BY <3>3, <4>1, <4>2, <4>4, <4>5, <4>6 DEF HasRead
      <4>8. up \in Live \cup {Root}
        BY <1>b, <2>1, <4>2, <4>3
      <4>9. up # Root => MayGoOn(edit[e])'
        BY <3>3, <4>6, <4>8 DEF MayGoOn
      <4> QED BY <4>7, <4>9 DEF up
    <3>6. /\ step'[e] = "walking" \/ step'[e] = "saving"
          /\ step'[e] = "walking" => up # Root
          /\ step'[e] = "saving" => up = Root
      BY <3>4 DEF AfterParent
    <3>7. Knows(e)'
      BY <3>3, <3>5, <3>6 DEF Knows
    <3>8. \A f \in Editor \ {e} : step'[f] = step[f] /\ edit'[f] = edit[f]
      BY <1>a, <3>1 DEF Typed, CategoriesTypeOK
    <3>9. \A f \in Editor \ {e} : Knows(f)'
      BY <1>b, <2>1, <3>8, OthersKnow
    <3> QED BY <1>c, <2>1, <3>7, <3>9 DEF Good
  <2> QED BY <2>2, <2>3
<1>6. ASSUME NEW e \in Editor, SaveCreate(e)
      PROVE  Good
  <2>1. Saved(e) /\ step[e] = "saving" /\ edit[e].op = "create"
    BY <1>6 DEF SaveCreate
  <2>2. Undisturbed /\ ~edit[e].overtaken /\ \A f \in Editor : Knows(f)'
    BY <1>a, <2>1, SavedKnowsNothing
  <2>3. HasRead(edit[e]) /\ edit[e].next = Root
    BY <1>b, <2>1, <2>2 DEF Knows
  <2> DEFINE to == edit[e].to
  <2>4. to \in Live \cup {Root}
    BY <2>3 DEF HasRead
  <2>5. PICK c \in Category : /\ state[c] = "absent"
                              /\ state' = [state EXCEPT ![c] = "live"]
                              /\ parent' = [parent EXCEPT ![c] = to]
    BY <1>6 DEF SaveCreate
  <2>6. Live' = Live \cup {c} /\ c \notin Live
    BY <1>a, <2>5 DEF Live, Typed, CategoriesTypeOK
  <2>7. parent'[c] = to /\ \A d \in Live : parent'[d] = parent[d]
    BY <1>a, <2>5, <2>6 DEF Typed, CategoriesTypeOK
  <2> HIDE DEF to
  <2>8. AcyclicOn(Live \cup {c}, parent')
    BY <1>a, <1>b, <2>2, <2>4, <2>6, <2>7, LeafKeepsAcyclic
  <2>9. \A d \in Live' : parent'[d] \in Live' \cup {Root}
    BY <1>b, <2>2, <2>4, <2>6, <2>7
  <2>10. AcyclicOn(Live, parent)'
    BY <2>6, <2>8 DEF AcyclicOn
  <2> QED BY <2>2, <2>9, <2>10 DEF Good
<1>7. ASSUME NEW e \in Editor, SaveUpdate(e)
      PROVE  Good
  <2>1. Saved(e) /\ step[e] = "saving" /\ edit[e].op = "update" /\ state' = state
    BY <1>7 DEF SaveUpdate
  <2>2. Undisturbed /\ ~edit[e].overtaken /\ \A f \in Editor : Knows(f)'
    BY <1>a, <2>1, SavedKnowsNothing
  <2>3. HasRead(edit[e]) /\ edit[e].next = Root
    BY <1>b, <2>1, <2>2 DEF Knows
  <2> DEFINE to == edit[e].to
             id == edit[e].id
             seen == edit[e].seen
  <2>4. /\ id \in Live /\ seen \subseteq Live /\ id \notin seen
        /\ to \in seen \/ to = Root
        /\ \A s \in seen : parent[s] \in seen \cup {Root}
    BY <2>1, <2>3 DEF HasRead
  <2>5. parent' = [parent EXCEPT ![id] = to] /\ Live' = Live
    BY <1>7, <2>1 DEF SaveUpdate, Live
  <2>6. parent'[id] = to /\ \A c \in Live : c # id => parent'[c] = parent[c]
    BY <1>a, <2>4, <2>5 DEF Typed, CategoriesTypeOK
  <2> HIDE DEF to, id, seen
  <2>7. AcyclicOn(Live, parent')
    BY <1>a, <1>b, <2>2, <2>4, <2>6, MoveKeepsAcyclic
  <2>8. \A c \in Live : parent'[c] \in Live \cup {Root}
    BY <1>b, <2>2, <2>4, <2>6
  <2>9. AcyclicOn(Live, parent)'
    BY <2>5, <2>7 DEF AcyclicOn
  <2> QED BY <2>2, <2>5, <2>8, <2>9 DEF Good
<1>8. ASSUME NEW e \in Editor, SaveSort(e)
      PROVE  Good
  <2>1. Saved(e) /\ step[e] = "sorting" /\ state' = state
    BY <1>8 DEF SaveSort
  <2>2. Undisturbed /\ ~edit[e].overtaken /\ \A f \in Editor : Knows(f)'
    BY <1>a, <2>1, SavedKnowsNothing
  <2> DEFINE moves == edit[e].moves
             up == [c \in Category |-> IF c \in DOMAIN moves THEN moves[c] ELSE parent[c]]
  <2>3. HasTested(moves)
    BY <1>b, <2>1, <2>2 DEF Knows
  <2>4. parent' = up /\ Live' = Live
    BY <1>8, <2>1, <2>3 DEF SaveSort, Moved, Live, HasTested
  <2>5. AcyclicOn(Live, up) /\ \A c \in Live : up[c] \in Live \cup {Root}
    BY <1>a, <1>b, <2>2, <2>3 DEF HasTested
  <2> HIDE DEF up
  <2>6. AcyclicOn(Live, parent)'
    BY <2>4, <2>5 DEF AcyclicOn
  <2> QED BY <2>2, <2>4, <2>5, <2>6 DEF Good
<1>9. ASSUME NEW e \in Editor, SaveMove(e)
      PROVE  Good
  BY <1>9 DEF SaveMove, SaveGoesOn, Undisturbed
<1>10. ASSUME NEW e \in Editor, SaveRemove(e)
       PROVE  Good
  <2>1. Saved(e) /\ step[e] = "removing" /\ parent' = parent
    BY <1>10 DEF SaveRemove
  <2>2. Undisturbed /\ ~edit[e].overtaken /\ \A f \in Editor : Knows(f)'
    BY <1>a, <2>1, SavedKnowsNothing
  <2>3. HasNoChild(edit[e].id)
    BY <1>b, <2>1, <2>2 DEF Knows
  <2>4. Live' = Live \ {edit[e].id}
    BY <1>10, <1>a DEF SaveRemove, Live, Typed, CategoriesTypeOK
  <2>5. AcyclicOn(Live, parent)'
    BY <1>b, <2>1, <2>2, <2>4 DEF AcyclicOn
  <2>6. \A c \in Live' : parent'[c] \in Live' \cup {Root}
    BY <1>b, <2>1, <2>2, <2>3, <2>4 DEF HasNoChild
  <2> QED BY <2>2, <2>5, <2>6 DEF Good
<1>11. ASSUME NEW e \in Editor, Abandon(e)
       PROVE  Good
  <2>1. UNCHANGED tree /\ Undisturbed /\ End(e)
    BY <1>11 DEF Abandon, Undisturbed
  <2> QED BY <1>a, <1>b, <1>c, <2>1, EndKnows DEF Good
<1>12. CASE UNCHANGED categoriesVars
  <2>1. UNCHANGED tree /\ Undisturbed /\ step' = step /\ edit' = edit
    BY <1>12 DEF categoriesVars, Undisturbed
  <2>2. \A e \in Editor : Knows(e)'
    BY <1>b, <2>1 DEF Knows, HasRead, MayGoOn, HasTested, HasNoChild, Live, tree, AcyclicOn
  <2> QED BY <1>c, <2>1, <2>2 DEF Good
<1> QED
  BY <1>1, <1>2, <1>3, <1>4, <1>5, <1>6, <1>7, <1>8, <1>9, <1>10, <1>11, <1>12
  DEF CategoriesNext

LEMMA TreeInvInit == CategoriesInit => TreeInv
<1> SUFFICES ASSUME CategoriesInit
             PROVE  TreeInv
  OBVIOUS
<1>1. Typed
  <2>1. parent \in [Category -> Parent]
    BY DEF CategoriesInit, Parent
  <2>2. state \in [Category -> {"absent", "live", "removed"}]
    BY DEF CategoriesInit
  <2>3. /\ step \in [Editor -> {"idle", "walking", "saving", "sorting", "removing"}]
        /\ \A e \in Editor : step[e] # "walking"
    BY DEF CategoriesInit
  <2>4. edit \in [Editor -> Edit]
    BY NoEditTyped DEF CategoriesInit
  <2>5. edits \in 0..MaxEdits
    BY CategoriesAssumption DEF CategoriesInit
  <2>6. transactional \in BOOLEAN
    BY DEF CategoriesInit
  <2>7. crossed \in BOOLEAN
    BY DEF CategoriesInit
  <2> QED BY <2>1, <2>2, <2>3, <2>4, <2>5, <2>6, <2>7 DEF Typed, CategoriesTypeOK
<1>2. \A e \in Editor : Knows(e)
  BY DEF CategoriesInit, Knows
<1>3. AcyclicOn(Live, parent) /\ \A c \in Live : parent[c] \in Live \cup {Root}
  BY CategoriesAssumption DEF CategoriesInit, AcyclicOn, Live
<1> QED BY <1>1, <1>2, <1>3 DEF TreeInv

LEMMA TreeInvHolds == CategoriesSpec => []TreeInv
<1>1. TreeInv /\ [CategoriesNext]_categoriesVars => TreeInv'
  <2> SUFFICES ASSUME TreeInv, [CategoriesNext]_categoriesVars
               PROVE  TreeInv'
    OBVIOUS
  <2>1. Typed'
    BY TypesKept DEF TreeInv
  <2>2. Undisturbed' => /\ AcyclicOn(Live, parent)'
                        /\ (\A c \in Live : parent[c] \in Live \cup {Root})'
                        /\ \A e \in Editor : Knows(e)'
    BY TreeKept
  <2> QED BY <2>1, <2>2 DEF TreeInv
<1> QED BY <1>1, TreeInvInit, PTL DEF CategoriesSpec

-------------------------------------------------------------------------------
(* Every variable keeps its type (category.service.js). *)
THEOREM CategoriesTyped == CategoriesSpec => []CategoriesTypeOK
BY TreeInvHolds, PTL DEF TreeInv, Typed

(* Whatever creates, moves, sorts and removals are in flight, no category
   becomes its own ancestor and none is left below a removed one, while no call
   saves on a tree that changed since it began to read: what a walk has read
   stays closed under parent (category.service.js, validateParent, sort and
   remove). *)
THEOREM TreeStaysWhole == CategoriesSpec => []TreeStands
BY TreeInvHolds, PTL DEF TreeInv, TreeStands, Acyclic, ParentsLive

-------------------------------------------------------------------------------
(* The form of a new product: rows and pictures. *)

(* What a call under way will write over the rows, or over the gallery, is *)
(* what they have now, unless they changed since it began.                 *)
RowsKnown(c) ==
  /\ variants[c] = filled[c] /\ product.rows[c] = product.due[c]
  /\ \A j \in Job : job[j].kind \in {"sync", "rowPicture"} => job[j].list[c] = filled[c]

GalleryKnown ==
  gallery = hung /\ \A j \in Job : job[j].kind = "pictures" => job[j].pictures = hung

(* A row that is sent a picture was there. *)
CallsSound ==
  \A j \in Job :
    /\ job[j].kind = "pictures" => job[j].brings # 0
    /\ job[j].kind = "rowPicture" => job[j].list[job[j].at].there

FormTyped == ProductFormTypeOK /\ CallsSound

FormInv ==
  /\ FormTyped
  /\ \A c \in Combination \ exposed : RowsKnown(c)
  /\ shaken \/ GalleryKnown

LEMMA CallsTyped ==
  ASSUME ProductFormTypeOK
  PROVE  /\ NoCall \in Call /\ NoVariant \in VariantRow /\ NewVariant \in VariantRow
         /\ NoVariants \in [Combination -> VariantRow]
         /\ SyncCall \in Call
         /\ tally < MaxWork => PicturesCall \in Call
         /\ \A c \in Combination : tally < MaxWork => RowPictureCall(c) \in Call
<1>1. NoVariant \in VariantRow /\ NewVariant \in VariantRow
  BY ProductFormAssumption DEF NoVariant, NewVariant, VariantRow
<1>2. NoVariants \in [Combination -> VariantRow]
  BY <1>1 DEF NoVariants
<1>3. (CHOOSE c \in Combination : TRUE) \in Combination
  BY ProductFormAssumption
<1>4. NoCall \in Call
  BY <1>2, <1>3, ProductFormAssumption DEF NoCall, Call
<1>5. SyncCall \in Call
  BY <1>4 DEF SyncCall, Call, ProductFormTypeOK
<1>6. tally < MaxWork => tally + 1 \in 0..MaxWork
  BY ProductFormAssumption DEF ProductFormTypeOK
<1>7. tally < MaxWork => PicturesCall \in Call
  BY <1>4, <1>6 DEF PicturesCall, Call, ProductFormTypeOK
<1>8. \A c \in Combination : tally < MaxWork => RowPictureCall(c) \in Call
  BY <1>4, <1>6 DEF RowPictureCall, Call, ProductFormTypeOK
<1> QED BY <1>1, <1>2, <1>4, <1>5, <1>7, <1>8

(* A change of the rows leaves a row in nobody's way only if it is the     *)
(* same, or no call was under way.                                         *)
LEMMA RowsMeantKnown ==
  ASSUME FormInv, NEW meant, NEW others \in SUBSET Job, RowsMeant(meant, others),
         NEW c \in Combination \ exposed'
  PROVE  /\ c \notin exposed /\ filled'[c] = meant[c]
         /\ \A j \in others :
              job[j].kind \in {"sync", "rowPicture"} => job[j].list[c] = filled'[c]
<1>1. c \notin exposed /\ filled'[c] = meant[c]
  BY DEF RowsMeant
<1>2. CASE Threatened({"sync", "rowPicture"}, others)
  <2>1. meant[c] = filled[c]
    BY <1>1, <1>2 DEF RowsMeant
  <2> QED BY <1>1, <2>1 DEF FormInv, RowsKnown
<1>3. CASE ~Threatened({"sync", "rowPicture"}, others)
  BY <1>1, <1>3 DEF Threatened
<1> QED BY <1>2, <1>3

LEMMA GalleryMeantKnown ==
  ASSUME FormInv, NEW meant, NEW others \in SUBSET Job, GalleryMeant(meant, others), ~shaken'
  PROVE  /\ GalleryKnown /\ hung' = meant
         /\ \A j \in others : job[j].kind = "pictures" => job[j].pictures = hung'
<1>1. GalleryKnown /\ hung' = meant
  BY DEF GalleryMeant, FormInv
<1>2. CASE Threatened({"pictures"}, others)
  BY <1>1, <1>2 DEF GalleryMeant, GalleryKnown
<1>3. CASE ~Threatened({"pictures"}, others)
  BY <1>1, <1>3 DEF Threatened
<1> QED BY <1>1, <1>2, <1>3

LEMMA FormInvStep ==
  ASSUME FormInv, [ProductFormNext]_productFormVars
  PROVE  FormInv'
<1>t. ProductFormTypeOK
  BY DEF FormInv, FormTyped
<1>v. CallsSound
  BY DEF FormInv, FormTyped
<1> USE <1>t
<1>u. tally < MaxWork => tally + 1 \in 0..MaxWork /\ tally + 1 \in 1..MaxWork
  BY ProductFormAssumption DEF ProductFormTypeOK
<1>1. ASSUME NEW combos \in SUBSET Combination, ChangeAxes(combos)
      PROVE  FormInv'
  BY <1>1 DEF ChangeAxes, FormInv, FormTyped, CallsSound, ProductFormTypeOK, RowsKnown, GalleryKnown, story
<1>2. ASSUME NEW c \in Combination, TypePrice(c)
      PROVE  FormInv'
  <2>1. FormTyped'
    BY <1>v, <1>2, <1>u DEF FormTyped, CallsSound, TypePrice, Works, RowsMeant, ProductFormTypeOK, VariantRow
  <2>2. ASSUME NEW d \in Combination \ exposed'
        PROVE  RowsKnown(d)'
    <3> DEFINE meant == IF filled[c].there THEN [filled EXCEPT ![c].price = tally + 1] ELSE filled
    <3>1. RowsMeant(meant, Job)
      BY <1>2 DEF TypePrice
    <3>2. /\ d \notin exposed /\ filled'[d] = meant[d]
          /\ \A j \in Job : job[j].kind \in {"sync", "rowPicture"} => job[j].list[d] = filled'[d]
      <4> HIDE DEF meant
      <4> QED BY <3>1, <2>2, RowsMeantKnown
    <3>3. variants[d] = filled[d] /\ product.rows[d] = product.due[d]
      BY <3>2 DEF FormInv, RowsKnown
    <3>4. variants'[d] = meant[d]
      BY <1>2, <3>3 DEF TypePrice, ProductFormTypeOK
    <3> QED BY <1>2, <3>2, <3>3, <3>4 DEF TypePrice, RowsKnown
  <2>3. shaken' \/ GalleryKnown'
    BY <1>2 DEF TypePrice, RowsMeant, FormInv, GalleryKnown
  <2> QED BY <2>1, <2>2, <2>3 DEF FormInv
<1>3. ASSUME AddByUrl
      PROVE  FormInv'
  <2>1. FormTyped'
    BY <1>v, <1>3, <1>u DEF FormTyped, CallsSound, AddByUrl, Works, GalleryMeant, ProductFormTypeOK
  <2>2. \A c \in Combination \ exposed' : RowsKnown(c)'
    BY <1>3 DEF AddByUrl, GalleryMeant, FormInv, RowsKnown
  <2>3. shaken' \/ GalleryKnown'
    BY <1>3, GalleryMeantKnown DEF AddByUrl, GalleryKnown
  <2> QED BY <2>1, <2>2, <2>3 DEF FormInv
<1>4. ASSUME NEW n \in gallery, RemoveImage(n)
      PROVE  FormInv'
  <2>1. FormTyped'
    BY <1>v, <1>4 DEF FormTyped, CallsSound, RemoveImage, GalleryMeant, ProductFormTypeOK
  <2>2. \A c \in Combination \ exposed' : RowsKnown(c)'
    BY <1>4 DEF RemoveImage, GalleryMeant, FormInv, RowsKnown
  <2>3. shaken' \/ GalleryKnown'
    BY <1>4, GalleryMeantKnown DEF RemoveImage, GalleryKnown
  <2> QED BY <2>1, <2>2, <2>3 DEF FormInv
<1>5. ASSUME SetTab
      PROVE  FormInv'
  <2>1. ASSUME NEW j \in Job
        PROVE  /\ job'[j] \in Call /\ job'[j].kind = job[j].kind
               /\ job'[j].list = job[j].list /\ job'[j].pictures = job[j].pictures
               /\ job'[j].brings = job[j].brings /\ job'[j].at = job[j].at
    <3>1. job[j] \in Call /\ job'[j] = [job[j] EXCEPT !.shown = FALSE]
      BY <1>5 DEF SetTab, ProductFormTypeOK
    <3> QED BY <3>1 DEF Call
  <2>2. FormTyped'
    <3>1. job' = [j \in Job |-> job'[j]]
      BY <1>5 DEF SetTab
    <3>2. job' \in [Job -> Call]
      BY <2>1, <3>1
    <3>3. CallsSound'
      BY <1>v, <2>1 DEF CallsSound
    <3>4. ProductFormTypeOK'
      BY <1>5, <3>2 DEF SetTab, ProductFormTypeOK, story
    <3> QED BY <3>3, <3>4 DEF FormTyped
  <2>3. \A c \in Combination \ exposed' : RowsKnown(c)'
    <3>1. /\ UNCHANGED <<variants, filled, exposed, product>>
          /\ \A j \in Job : job'[j].kind = job[j].kind /\ job'[j].list = job[j].list
      BY <1>5, <2>1 DEF SetTab, story
    <3> QED BY <3>1 DEF FormInv, RowsKnown
  <2>4. shaken' \/ GalleryKnown'
    BY <1>5, <2>1 DEF SetTab, FormInv, GalleryKnown, story
  <2> QED BY <2>2, <2>3, <2>4 DEF FormInv
<1>6. ASSUME SubmitNew
      PROVE  FormInv'
  <2>1. product' = [made |-> TRUE, rows |-> variants, due |-> filled]
    BY <1>6 DEF SubmitNew
  <2>2. FormTyped'
    BY <1>v, <1>6, <2>1 DEF FormTyped, CallsSound, SubmitNew, ProductFormTypeOK, story
  <2> QED BY <1>6, <2>1, <2>2 DEF SubmitNew, FormInv, RowsKnown, GalleryKnown, story
<1>7. ASSUME NEW j \in Job, NEW call \in Call, Calls(j, call), UNCHANGED product,
             tally' \in 0..MaxWork, syncs' \in 0..MaxSyncs,
             call.kind \in {"sync", "rowPicture"} => call.list = variants,
             call.kind = "pictures" => call.pictures = gallery /\ call.brings # 0,
             call.kind = "rowPicture" => call.list[call.at].there,
             UNCHANGED matrix
      PROVE  FormInv'
  <2>1. job' = [job EXCEPT ![j] = call] /\ UNCHANGED <<matrix, variants, gallery, product, story>>
    BY <1>7 DEF Calls
  <2>2. FormTyped'
    BY <1>v, <1>7, <2>1 DEF FormTyped, CallsSound, ProductFormTypeOK, story
  <2>3. \A c \in Combination \ exposed' : RowsKnown(c)'
    BY <1>7, <2>1 DEF FormInv, RowsKnown, ProductFormTypeOK, story
  <2>4. shaken' \/ GalleryKnown'
    BY <1>7, <2>1 DEF FormInv, GalleryKnown, ProductFormTypeOK, story
  <2> QED BY <2>2, <2>3, <2>4 DEF FormInv
<1>8. ASSUME NEW j \in Job, Regenerate(j)
      PROVE  FormInv'
  <2>1. SyncCall \in Call /\ SyncCall.kind = "sync" /\ SyncCall.list = variants
    BY CallsTyped DEF SyncCall, NoCall
  <2>2. syncs' \in 0..MaxSyncs
    BY <1>8, ProductFormAssumption DEF Regenerate, ProductFormTypeOK
  <2> QED BY <1>7, <1>8, <2>1, <2>2 DEF Regenerate, Calls, ProductFormTypeOK
<1>9. ASSUME NEW j \in Job, NEW c \in Combination, UploadRowPicture(j, c)
      PROVE  FormInv'
  <2>1. /\ RowPictureCall(c) \in Call /\ RowPictureCall(c).kind = "rowPicture"
        /\ RowPictureCall(c).list = variants
        /\ RowPictureCall(c).list[RowPictureCall(c).at].there
    BY <1>9, CallsTyped DEF RowPictureCall, NoCall, UploadRowPicture, Works
  <2>2. tally' \in 0..MaxWork
    BY <1>9, <1>u DEF UploadRowPicture, Works
  <2> QED BY <1>7, <1>9, <2>1, <2>2 DEF UploadRowPicture, Works, Calls, ProductFormTypeOK
<1>10. ASSUME NEW j \in Job, UploadFiles(j)
       PROVE  FormInv'
  <2>1. /\ PicturesCall \in Call /\ PicturesCall.kind = "pictures"
        /\ PicturesCall.pictures = gallery /\ PicturesCall.brings # 0
    BY <1>10, <1>u, CallsTyped DEF PicturesCall, NoCall, UploadFiles, Works
  <2>2. tally' \in 0..MaxWork
    BY <1>10, <1>u DEF UploadFiles, Works
  <2> QED BY <1>7, <1>10, <2>1, <2>2 DEF UploadFiles, Works, Calls, ProductFormTypeOK
<1>11. ASSUME NEW j \in Job, Answered(j)
       PROVE  /\ job' \in [Job -> Call]
              /\ \A k \in Job \ {j} : job'[k] = job[k]
              /\ job'[j].kind = "none"
  BY <1>11, CallsTyped DEF Answered, ProductFormTypeOK, NoCall
<1>12. ASSUME NEW j \in Job, FailUpload(j)
       PROVE  FormInv'
  <2>1. Answered(j)
    BY <1>12 DEF FailUpload
  <2>2. FormTyped'
    BY <1>v, <1>11, <1>12, <2>1 DEF FormTyped, CallsSound, FailUpload, Answered, ProductFormTypeOK, story
  <2>0. /\ \A k \in Job \ {j} : job'[k] = job[k]
        /\ job'[j].kind = "none"
        /\ UNCHANGED <<variants, gallery, product, story>>
    BY <1>11, <1>12, <2>1 DEF FailUpload, Answered
  <2>3. \A c \in Combination \ exposed' : RowsKnown(c)'
    BY <2>0 DEF FormInv, RowsKnown, story
  <2>4. shaken' \/ GalleryKnown'
    BY <2>0 DEF FormInv, GalleryKnown, story
  <2> QED BY <2>2, <2>3, <2>4 DEF FormInv
<1>13. ASSUME NEW j \in Job, FinishSync(j)
       PROVE  FormInv'
  <2> DEFINE meant == [c \in Combination |->
                         IF c \notin job[j].combos THEN NoVariant
                         ELSE IF filled[c].there THEN filled[c] ELSE NewVariant]
  <2>1. Answered(j) /\ job[j].kind = "sync" /\ RowsMeant(meant, Job \ {j})
    BY <1>13 DEF FinishSync
  <2>2. variants' = Synced(job[j].list, job[j].combos) /\ UNCHANGED gallery
    BY <1>13 DEF FinishSync
  <2>3. meant \in [Combination -> VariantRow]
    BY CallsTyped DEF ProductFormTypeOK
  <2>4. variants' \in [Combination -> VariantRow]
    BY <2>2, CallsTyped DEF ProductFormTypeOK, Synced, Call
  <2>5. FormTyped'
    <3> HIDE DEF meant
    <3> QED BY <1>v, <1>11, <2>1, <2>2, <2>3, <2>4 DEF FormTyped, CallsSound, Answered, RowsMeant, ProductFormTypeOK
  <2>6. ASSUME NEW c \in Combination \ exposed'
        PROVE  RowsKnown(c)'
    <3>1. /\ c \notin exposed /\ filled'[c] = meant[c]
          /\ \A k \in Job \ {j} :
               job[k].kind \in {"sync", "rowPicture"} => job[k].list[c] = filled'[c]
      <4> HIDE DEF meant
      <4> QED BY <2>1, <2>6, RowsMeantKnown
    <3>2. product.rows[c] = product.due[c] /\ job[j].list[c] = filled[c]
      BY <2>1, <3>1 DEF FormInv, RowsKnown
    <3>3. variants'[c] = meant[c]
      BY <2>2, <3>2 DEF Synced
    <3> HIDE DEF meant
    <3> QED BY <1>11, <2>1, <3>1, <3>2, <3>3 DEF RowsKnown, Answered
  <2>7. shaken' \/ GalleryKnown'
    BY <1>11, <2>1, <2>2 DEF RowsMeant, FormInv, GalleryKnown
  <2> QED BY <2>5, <2>6, <2>7 DEF FormInv
<1>14. ASSUME NEW j \in Job, FinishRowPicture(j)
       PROVE  FormInv'
  <2> DEFINE at == job[j].at
             brings == job[j].brings
             meant == IF filled[at].there THEN [filled EXCEPT ![at].picture = brings] ELSE filled
  <2>0. at \in Combination /\ brings \in 0..MaxWork /\ job[j].list \in [Combination -> VariantRow]
    BY DEF ProductFormTypeOK, Call
  <2>1. Answered(j) /\ job[j].kind = "rowPicture" /\ RowsMeant(meant, Job \ {j})
    BY <1>14 DEF FinishRowPicture
  <2>2. variants' = [job[j].list EXCEPT ![at].picture = brings] /\ UNCHANGED gallery
    BY <1>14 DEF FinishRowPicture
  <2>3. meant \in [Combination -> VariantRow]
    BY <2>0 DEF ProductFormTypeOK, VariantRow
  <2>4. variants' \in [Combination -> VariantRow]
    BY <2>0, <2>2 DEF VariantRow
  <2>5. FormTyped'
    <3> HIDE DEF meant
    <3> QED BY <1>v, <1>11, <2>1, <2>2, <2>3, <2>4 DEF FormTyped, CallsSound, Answered, RowsMeant, ProductFormTypeOK
  <2>6. ASSUME NEW c \in Combination \ exposed'
        PROVE  RowsKnown(c)'
    <3>1. /\ c \notin exposed /\ filled'[c] = meant[c]
          /\ \A k \in Job \ {j} :
               job[k].kind \in {"sync", "rowPicture"} => job[k].list[c] = filled'[c]
      <4> HIDE DEF meant
      <4> QED BY <2>1, <2>6, RowsMeantKnown
    <3>2. product.rows[c] = product.due[c] /\ job[j].list[c] = filled[c]
      BY <2>1, <3>1 DEF FormInv, RowsKnown
    <3>3. variants'[c] = meant[c]
      <4>1. CASE c = at
        <5>1. job[j].list[at].there /\ filled[at] = job[j].list[at]
          BY <1>v, <2>1, <3>2, <4>1 DEF CallsSound
        <5> QED BY <2>0, <2>2, <4>1, <5>1 DEF ProductFormTypeOK
      <4>2. CASE c # at
        BY <2>0, <2>2, <3>2, <4>2 DEF ProductFormTypeOK
      <4> QED BY <4>1, <4>2
    <3> HIDE DEF meant
    <3> QED BY <1>11, <2>1, <3>1, <3>2, <3>3 DEF RowsKnown, Answered
  <2>7. shaken' \/ GalleryKnown'
    <3> HIDE DEF meant
    <3> QED BY <1>11, <2>1, <2>2 DEF RowsMeant, FormInv, GalleryKnown
  <2> QED BY <2>5, <2>6, <2>7 DEF FormInv
<1>15. ASSUME NEW j \in Job, FinishFiles(j)
       PROVE  FormInv'
  <2>1. /\ Answered(j) /\ job[j].kind = "pictures"
        /\ gallery' = job[j].pictures \cup {job[j].brings}
        /\ GalleryMeant(hung \cup {job[j].brings}, Job \ {j}) /\ UNCHANGED variants
    BY <1>15 DEF FinishFiles
  <2>0. job[j].brings \in 1..MaxWork
    BY <1>v, <2>1, ProductFormAssumption DEF CallsSound, ProductFormTypeOK, Call
  <2>2. FormTyped'
    BY <1>v, <1>11, <2>1, <2>0 DEF FormTyped, CallsSound, Answered, GalleryMeant, ProductFormTypeOK, Call
  <2>3. \A c \in Combination \ exposed' : RowsKnown(c)'
    BY <1>11, <2>1 DEF Answered, GalleryMeant, FormInv, RowsKnown
  <2>4. shaken' \/ GalleryKnown'
    BY <1>11, <2>1, GalleryMeantKnown DEF GalleryKnown
  <2> QED BY <2>2, <2>3, <2>4 DEF FormInv
<1>16. CASE UNCHANGED productFormVars
  BY <1>16 DEF productFormVars, FormInv, FormTyped, CallsSound, ProductFormTypeOK, RowsKnown, GalleryKnown, story
<1> QED
  BY <1>1, <1>2, <1>3, <1>4, <1>5, <1>6, <1>8, <1>9, <1>10, <1>12, <1>13, <1>14, <1>15, <1>16
     DEF ProductFormNext

LEMMA FormInvInit == ProductFormInit => FormInv
<1> SUFFICES ASSUME ProductFormInit
             PROVE  FormInv
  OBVIOUS
<1>1. NoVariants \in [Combination -> VariantRow]
  BY ProductFormAssumption DEF NoVariants, NoVariant, VariantRow
<1>2. NoCall \in Call /\ NoCall.kind = "none"
  BY <1>1, ProductFormAssumption DEF NoCall, Call
<1>3. product \in [made : BOOLEAN, rows : [Combination -> VariantRow],
                    due : [Combination -> VariantRow]]
  BY <1>1 DEF ProductFormInit
<1>4. ProductFormTypeOK
  <2>1. matrix \subseteq Combination /\ gallery \subseteq 1..MaxWork /\ hung \subseteq 1..MaxWork
    BY DEF ProductFormInit
  <2>2. tally \in 0..MaxWork /\ syncs \in 0..MaxSyncs
    BY ProductFormAssumption DEF ProductFormInit
  <2>4. exposed \subseteq Combination /\ shaken \in BOOLEAN
    BY DEF ProductFormInit
  <2>3. /\ variants \in [Combination -> VariantRow] /\ filled \in [Combination -> VariantRow]
        /\ job \in [Job -> Call]
    BY <1>1, <1>2 DEF ProductFormInit
  <2> QED BY <1>3, <2>1, <2>2, <2>3, <2>4 DEF ProductFormTypeOK
<1>5. FormTyped
  BY <1>2, <1>4 DEF ProductFormInit, FormTyped, CallsSound
<1> QED BY <1>2, <1>5 DEF ProductFormInit, FormInv, RowsKnown, GalleryKnown

(* Every variable keeps its type (variations-builder.tsx, image-manager.tsx). *)
THEOREM ProductFormTyped == ProductFormSpec => []ProductFormTypeOK
<1>1. FormInv => ProductFormTypeOK
  BY DEF FormInv, FormTyped
<1>2. QED
  BY <1>1, FormInvInit, FormInvStep, PTL DEF ProductFormSpec

(* For any options, any number of calls under way and any number of fields
   typed, a row or a gallery that nobody changed while a call was under way is
   what staff made it (variations-builder.tsx, regenerate and upload;
   image-manager.tsx, uploadFiles). *)
THEOREM QuietFormsKeepAll == ProductFormSpec => []FilledInStays
<1>1. FormInv => FilledInStays
  BY DEF FormInv, FilledInStays, RowsKnown, GalleryKnown
<1>2. QED
  BY <1>1, FormInvInit, FormInvStep, PTL DEF ProductFormSpec

-------------------------------------------------------------------------------
(* The components side by side (module MCParts). *)

(* Six components that share no document: each of them behaves as it does
   alone, whatever the others do (category.service.js, category-tree.tsx,
   product.service.js, media.service.js, wishlist.service.js,
   variations-builder.tsx). *)
THEOREM PartsAreThemselves ==
  PartsSpec => /\ CategoriesSpec /\ CategoryPanelSpec /\ CatalogSpec
               /\ MediaSpec /\ WishlistSpec /\ ProductFormSpec
<1>1. PartsInit => /\ CategoriesInit /\ CategoryPanelInit /\ CatalogInit
                   /\ MediaInit /\ WishlistInit /\ ProductFormInit
  BY DEF PartsInit
<1>2. [PartsNext]_partsVars =>
        /\ [CategoriesNext]_categoriesVars /\ [CategoryPanelNext]_categoryPanelVars
        /\ [CatalogNext]_catalogVars /\ [MediaNext]_mediaVars
        /\ [WishlistNext]_wishlistVars /\ [ProductFormNext]_productFormVars
  BY Zenon DEF PartsNext, CategoriesPart, CategoryPanelPart, CatalogPart, MediaPart,
     WishlistPart, ProductFormPart, partsVars
<1>3. QED
  BY <1>1, <1>2, PTL DEF PartsSpec, CategoriesSpec, CategoryPanelSpec, CatalogSpec, MediaSpec,
     WishlistSpec, ProductFormSpec

(* Whatever happens to any component, all of them keep their types
   (category.service.js, category-tree.tsx, product.service.js,
   media.service.js, wishlist.service.js, variations-builder.tsx). *)
THEOREM PartsTyped ==
  PartsSpec => []TypesOK
<1>1. (/\ CategoriesTypeOK /\ CategoryPanelTypeOK /\ CatalogTypeOK
       /\ MediaTypeOK /\ WishlistTypeOK /\ ProductFormTypeOK) => TypesOK
  BY DEF TypesOK
<1>2. QED
  BY <1>1, PartsAreThemselves, CategoriesTyped, CategoryPanelTyped, CatalogTyped, MediaTyped,
     WishlistTyped, ProductFormTyped, PTL

===============================================================================
