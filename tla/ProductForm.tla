----------------------------- MODULE ProductForm -----------------------------
(***************************************************************************)
(* The form on which staff make a product (src/frontend/components/panel/  *)
(* products: product-form.tsx, form-panels.tsx, variations-builder.tsx,    *)
(* image-manager.tsx; lib/panel/product-form.ts).                          *)
(*                                                                         *)
(* Its rows, one per combination of the options, and its gallery change    *)
(* with every key typed, and again when a call to the API is answered: the *)
(* handler that made the call then writes the whole list as it was when    *)
(* the call was made.  Texts, shipping, specs and the order of the gallery *)
(* are left out; saving one tab of an existing product is PatchPricing and *)
(* its like in module Catalog.                                             *)
(***************************************************************************)
EXTENDS Naturals

CONSTANTS
  Combination, \* what the options can combine to
  Job,         \* calls in flight at a time
  MaxWork,     \* bound: fields typed and pictures sent
  MaxSyncs     \* bound: times the rows are generated

ASSUME ProductFormAssumption ==
  Combination # {} /\ MaxWork \in Nat /\ MaxSyncs \in Nat

VARIABLES
  matrix,    \* the combinations of the options as they are typed
  variants,  \* the rows
  gallery,   \* the pictures
  job,       \* the calls
  tally,     \* fields typed and pictures sent so far, which numbers them
  syncs,     \* generations of the rows so far
  product,   \* the product, once it is made
  filled,    \* history: the rows with every change since
  hung,      \* history: the gallery with every change since
  exposed,   \* history: rows that changed while a call was under way
  shaken     \* history: and so did the gallery

story == <<filled, hung, exposed, shaken>>
productFormVars == <<matrix, variants, gallery, job, tally, syncs, product, story>>

(* price and picture: the number of what filled them in, 0 by default.     *)
VariantRow == [there : BOOLEAN, price : 0..MaxWork, picture : 0..MaxWork]
NoVariant == [there |-> FALSE, price |-> 0, picture |-> 0]
NewVariant == [there |-> TRUE, price |-> 0, picture |-> 0]

(* combos, list and pictures: what the handler had before it; shown: the   *)
(* panel waits for its rows.                                               *)
Call == [kind : {"none", "sync", "rowPicture", "pictures"}, shown : BOOLEAN,
         combos : SUBSET Combination, list : [Combination -> VariantRow],
         pictures : SUBSET (1..MaxWork), at : Combination, brings : 0..MaxWork]

ProductFormTypeOK ==
  /\ matrix \subseteq Combination
  /\ variants \in [Combination -> VariantRow] /\ filled \in [Combination -> VariantRow]
  /\ gallery \subseteq 1..MaxWork /\ hung \subseteq 1..MaxWork
  /\ job \in [Job -> Call]
  /\ tally \in 0..MaxWork /\ syncs \in 0..MaxSyncs
  /\ product \in [made : BOOLEAN, rows : [Combination -> VariantRow], due : [Combination -> VariantRow]]
  /\ exposed \subseteq Combination /\ shaken \in BOOLEAN

NoVariants == [c \in Combination |-> NoVariant]

NoCall ==
  [kind |-> "none", shown |-> FALSE, combos |-> {}, list |-> NoVariants, pictures |-> {},
   at |-> CHOOSE c \in Combination : TRUE, brings |-> 0]

SyncCall ==
  [NoCall EXCEPT !.kind = "sync", !.shown = TRUE, !.combos = matrix, !.list = variants]

RowPictureCall(c) ==
  [NoCall EXCEPT !.kind = "rowPicture", !.list = variants, !.at = c, !.brings = tally + 1]

PicturesCall ==
  [NoCall EXCEPT !.kind = "pictures", !.pictures = gallery, !.brings = tally + 1]

ProductFormInit ==
  /\ matrix = {} /\ variants = NoVariants /\ gallery = {}
  /\ job = [j \in Job |-> NoCall]
  /\ tally = 0 /\ syncs = 0
  /\ product = [made |-> FALSE, rows |-> NoVariants, due |-> NoVariants]
  /\ filled = NoVariants /\ hung = {} /\ exposed = {} /\ shaken = FALSE

Works == ~product.made /\ tally < MaxWork /\ tally' = tally + 1

(* Some other call will write over the rows, or over the gallery. *)
Threatened(kinds, others) == \E k \in others : job[k].kind \in kinds

RowsMeant(meant, others) ==
  /\ filled' = meant
  /\ exposed' = exposed \cup (IF Threatened({"sync", "rowPicture"}, others)
                              THEN {c \in Combination : meant[c] # filled[c]} ELSE {})
  /\ UNCHANGED <<hung, shaken>>

GalleryMeant(meant, others) ==
  /\ hung' = meant
  /\ shaken' = (shaken \/ (meant # hung /\ Threatened({"pictures"}, others)))
  /\ UNCHANGED <<filled, exposed>>

-------------------------------------------------------------------------------
(* What staff do at once. *)

(* A value is added to an option or taken from it, or an option is. *)
ChangeAxes(combos) ==
  /\ ~product.made /\ combos # matrix /\ matrix' = combos
  /\ UNCHANGED <<variants, gallery, job, tally, syncs, product, story>>

(* update, in the list on the screen, which is there while there are options. *)
TypePrice(c) ==
  /\ matrix # {} /\ variants[c].there /\ Works
  /\ variants' = [variants EXCEPT ![c].price = tally + 1]
  /\ RowsMeant(IF filled[c].there THEN [filled EXCEPT ![c].price = tally + 1] ELSE filled, Job)
  /\ UNCHANGED <<matrix, gallery, job, syncs, product>>

AddByUrl ==
  /\ Works
  /\ gallery' = gallery \cup {tally + 1}
  /\ GalleryMeant(hung \cup {tally + 1}, Job)
  /\ UNCHANGED <<matrix, variants, job, syncs, product>>

RemoveImage(n) ==
  /\ ~product.made /\ n \in gallery
  /\ gallery' = gallery \ {n}
  /\ GalleryMeant(hung \ {n}, Job)
  /\ UNCHANGED <<matrix, variants, job, tally, syncs, product>>

(* Another tab, or another product type: what the panel was waiting for is *)
(* forgotten, and will land nevertheless.                                  *)
SetTab ==
  /\ ~product.made /\ \E j \in Job : job[j].shown
  /\ job' = [j \in Job |-> [job[j] EXCEPT !.shown = FALSE]]
  /\ UNCHANGED <<matrix, variants, gallery, tally, syncs, product, story>>

-------------------------------------------------------------------------------
(* What needs an answer. *)

Calls(j, call) ==
  /\ job[j].kind = "none" /\ job' = [job EXCEPT ![j] = call]
  /\ UNCHANGED <<matrix, variants, gallery, product, story>>

(* The button is off while the panel waits. *)
Regenerate(j) ==
  /\ ~product.made /\ syncs < MaxSyncs /\ syncs' = syncs + 1
  /\ matrix # {} /\ \A k \in Job : job[k].kind = "sync" => ~job[k].shown
  /\ Calls(j, SyncCall)
  /\ UNCHANGED tally

UploadRowPicture(j, c) ==
  /\ matrix # {} /\ variants[c].there /\ Works
  /\ Calls(j, RowPictureCall(c)) /\ UNCHANGED syncs

UploadFiles(j) ==
  Works /\ Calls(j, PicturesCall) /\ UNCHANGED syncs

Answered(j) ==
  /\ ~product.made /\ job' = [job EXCEPT ![j] = NoCall]
  /\ UNCHANGED <<matrix, tally, syncs, product>>

(* Mutant: every row is made anew. *)
SyncedAnew(list, combos) ==
  [c \in Combination |-> IF c \notin combos THEN NoVariant ELSE NewVariant]

Synced(list, combos) ==
  [c \in Combination |-> IF c \notin combos THEN NoVariant
                         ELSE IF list[c].there THEN list[c] ELSE NewVariant]

(* The answer, or the same worked out here if there was none. *)
FinishSync(j) ==
  /\ job[j].kind = "sync" /\ Answered(j)
  /\ variants' = Synced(job[j].list, job[j].combos)
  /\ RowsMeant([c \in Combination |-> IF c \notin job[j].combos THEN NoVariant
                                      ELSE IF filled[c].there THEN filled[c] ELSE NewVariant],
               Job \ {j})
  /\ UNCHANGED gallery

FinishRowPicture(j) ==
  LET c == job[j].at
  IN
  /\ job[j].kind = "rowPicture" /\ Answered(j)
  /\ variants' = [job[j].list EXCEPT ![c].picture = job[j].brings]
  /\ RowsMeant(IF filled[c].there THEN [filled EXCEPT ![c].picture = job[j].brings] ELSE filled,
               Job \ {j})
  /\ UNCHANGED gallery

FinishFiles(j) ==
  /\ job[j].kind = "pictures" /\ Answered(j)
  /\ gallery' = job[j].pictures \cup {job[j].brings}
  /\ GalleryMeant(hung \cup {job[j].brings}, Job \ {j})
  /\ UNCHANGED variants

(* With several files, those that went through before are not shown. *)
FailUpload(j) ==
  /\ job[j].kind \in {"rowPicture", "pictures"} /\ Answered(j)
  /\ UNCHANGED <<variants, gallery, story>>

-------------------------------------------------------------------------------
(* The form is sent when every tab is valid; the rows need not match the   *)
(* options.  A refusal leaves it as it is.                                 *)

SubmitNew ==
  /\ ~product.made
  /\ matrix # {} /\ \E c \in Combination : variants[c].there
  /\ product' = [made |-> TRUE, rows |-> variants, due |-> filled]
  /\ UNCHANGED <<matrix, variants, gallery, job, tally, syncs, story>>

ProductFormNext ==
  \/ \E combos \in SUBSET Combination : ChangeAxes(combos)
  \/ \E c \in Combination : TypePrice(c) \/ \E j \in Job : UploadRowPicture(j, c)
  \/ AddByUrl \/ \E n \in gallery : RemoveImage(n)
  \/ SetTab \/ SubmitNew
  \/ \E j \in Job : \/ Regenerate(j) \/ UploadFiles(j) \/ FinishSync(j) \/ FinishRowPicture(j)
                    \/ FinishFiles(j) \/ FailUpload(j)

ProductFormSpec == ProductFormInit /\ [][ProductFormNext]_productFormVars

-------------------------------------------------------------------------------
(* Properties. *)

(* What staff filled in stays, through any number of generations, uploads and
   changes of the options, and is what the product is made with.  Only what
   changed while some call was under way may be undone, when that call writes
   back the list it began with (variations-builder.tsx, regenerate and upload;
   image-manager.tsx, uploadFiles). *)
FilledInStays ==
  /\ \A c \in Combination \ exposed :
       variants[c] = filled[c] /\ product.rows[c] = product.due[c]
  /\ shaken \/ gallery = hung

(* "Syncing keeps everything you have already filled in"
   (variations-builder.tsx): a price that was typed in a row is in that row
   until another replaces it. *)
SyncKeepsPrices ==
  [][\A c \in Combination :
       variants[c].there /\ variants'[c].there /\ (\E j \in Job : FinishSync(j))
         => variants'[c].price = variants[c].price]_productFormVars

===============================================================================
