------------------------------- MODULE Catalog -------------------------------
(***************************************************************************)
(* One product and its variations under concurrent edits of staff          *)
(* (modules/product/product.service.js, modules/variation/                 *)
(* variation.service.js and the models both save).                         *)
(*                                                                         *)
(* An edit reads a document, tests and changes the copy, and saves: the    *)
(* fields that differ from what was read are written, whatever the others  *)
(* are by then.  Creating and removing a product writes its variations     *)
(* too, in a transaction where the database has them.                      *)
(*                                                                         *)
(* Here a product has a status and prices; texts, images, references,      *)
(* attributes and stock are left out, and so is an update that is refused  *)
(* because a list it replaces was replaced meanwhile.                      *)
(***************************************************************************)
EXTENDS Naturals

CONSTANTS
  Variation,
  Staff,     \* edits in flight at a time
  MaxPrice,  \* bound: the highest price
  MaxSaves   \* bound: edits in a behaviour

ASSUME CatalogAssumption ==
  "product" \notin Variation /\ MaxPrice \in Nat \ {0} /\ MaxSaves \in Nat

VARIABLES
  item,     \* the documents
  atomic,   \* the deployment supports transactions
  draft,    \* each edit: what it read, and its copy
  saves,    \* edits made
  contested   \* history: the rules whose fields an edit wrote over a change

catalogVars == <<item, atomic, draft, saves, contested>>

Price == 1..MaxPrice
NoPrice == 0
Was == Price \cup {NoPrice}
Item == Variation \cup {"product"}

(* ACTIVE stands for OUT_OF_STOCK, too. *)
Status == {"DRAFT", "ACTIVE"}

Doc == [there : {"absent", "live", "removed"}, status : Status,
        published : BOOLEAN, selling : Price, original : Was]

NoDoc == [there |-> "absent", status |-> "DRAFT", published |-> FALSE, selling |-> 1,
          original |-> NoPrice]

Draft == [at : {"idle", "saving", "creating", "removing"}, id : Item, read : Doc, copy : Doc]

NoDraft == [at |-> "idle", id |-> "product", read |-> NoDoc, copy |-> NoDoc]

CatalogTypeOK ==
  /\ item \in [Item -> Doc] /\ atomic \in BOOLEAN
  /\ draft \in [Staff -> Draft]
  /\ saves \in 0..MaxSaves
  /\ contested \subseteq {"prices", "publication"}

CatalogInit ==
  /\ item = [i \in Item |-> NoDoc] /\ atomic \in BOOLEAN
  /\ draft = [e \in Staff |-> NoDraft]
  /\ saves = 0 /\ contested = {}

OnFile(i) == item[i].there = "live"

InOrder(d) == d.original = NoPrice \/ d.original >= d.selling

Begins(e, d) ==
  /\ draft[e].at = "idle" /\ saves < MaxSaves /\ saves' = saves + 1
  /\ draft' = [draft EXCEPT ![e] = d]
  /\ UNCHANGED <<item, atomic, contested>>

Ends(e) ==
  /\ draft' = [draft EXCEPT ![e] = NoDraft]
  /\ UNCHANGED <<atomic, saves>>

-------------------------------------------------------------------------------
(* Edits of one document. *)

(* Mutant: the prices of the patch are compared by themselves. *)
AcceptsAlone(e, i, copy) ==
  LET old == item[i]
  IN
  /\ OnFile(i)
  /\ (copy.selling # old.selling /\ copy.original # old.original) => InOrder(copy)
  /\ Begins(e, [at |-> "saving", id |-> i, read |-> old, copy |-> copy])

(* The rule about prices is tested on the copy as a whole. *)
Accepts(e, i, copy) ==
  /\ OnFile(i) /\ InOrder(copy)
  /\ Begins(e, [at |-> "saving", id |-> i, read |-> item[i], copy |-> copy])

Given(price, old) == IF price = NoPrice THEN old ELSE price

(* No status: the product keeps its own, and counts as published.          *)
UpdateProduct(e, status, selling, original) ==
  Accepts(e, "product",
    [item["product"] EXCEPT !.status = IF status = "none" THEN @ ELSE status,
                            !.published = status # "DRAFT",
                            !.selling = selling,
                            !.original = Given(original, @)])

PatchStatus(e, status) ==
  Accepts(e, "product",
    [item["product"] EXCEPT !.status = status, !.published = status # "DRAFT"])

(* A was-price can be taken away as well. *)
PatchPricing(e, selling, original) ==
  Accepts(e, "product",
    [item["product"] EXCEPT !.selling = Given(selling, @), !.original = original])

PatchVariation(e, v, selling, original) ==
  Accepts(e, v,
    [item[v] EXCEPT !.selling = Given(selling, @), !.original = Given(original, @)])

SaveItem(e) ==
  LET d == draft[e]
      old == item[d.id]
      Modified(field) == d.copy[field] # d.read[field]
      Over(fields) == (\E f \in fields : Modified(f)) /\ (\E f \in fields : old[f] # d.read[f])
  IN
  /\ d.at = "saving"
  /\ item' = [item EXCEPT ![d.id] =
                [f \in DOMAIN old |-> IF Modified(f) THEN d.copy[f] ELSE old[f]]]
  /\ contested' = contested
       \cup (IF Over({"selling", "original"}) THEN {"prices"} ELSE {})
       \cup (IF Over({"status", "published"}) THEN {"publication"} ELSE {})
  /\ Ends(e)

RemoveVariation(v) ==
  /\ OnFile(v) /\ item' = [item EXCEPT ![v].there = "removed"]
  /\ UNCHANGED <<atomic, draft, saves, contested>>

-------------------------------------------------------------------------------
(* The product with its variations. *)

CreateProduct(e, status, selling, original) ==
  LET d == [there |-> "live", status |-> status, published |-> status # "DRAFT",
            selling |-> selling, original |-> original]
  IN
  /\ item["product"].there = "absent" /\ \A f \in Staff : draft[f].at # "creating"
  /\ InOrder(d)
  /\ Begins(e, [at |-> "creating", id |-> "product", read |-> NoDoc, copy |-> d])

(* A variation takes from the product the prices it was not given.         *)
Made(d, selling, original) ==
  [d EXCEPT !.published = FALSE, !.selling = Given(selling, @), !.original = Given(original, @)]

Committed(e, docs) == item' = docs /\ Ends(e) /\ UNCHANGED contested

InsertTogether(e, selling, original) ==
  LET d == draft[e].copy
  IN
  /\ atomic /\ draft[e].at = "creating" /\ InOrder(Made(d, selling, original))
  /\ Committed(e, [i \in Item |-> IF i = "product" THEN d ELSE Made(d, selling, original)])

(* Without transactions the product is there before its variations, and    *)
(* some of them, or all, may be refused.                                   *)
InsertProduct(e) ==
  /\ ~atomic /\ draft[e].at = "creating" /\ item["product"].there = "absent"
  /\ item' = [item EXCEPT !["product"] = draft[e].copy]
  /\ UNCHANGED <<atomic, draft, saves, contested>>

InsertVariations(e, accepted, selling, original) ==
  LET d == draft[e].copy
  IN
  /\ ~atomic /\ draft[e].at = "creating" /\ item["product"].there # "absent"
  /\ InOrder(Made(d, selling, original)) \/ accepted = {}
  /\ Committed(e, [i \in Item |-> IF i \in accepted THEN Made(d, selling, original)
                                  ELSE item[i]])

RemovesAll(i) == [item[i] EXCEPT !.there = IF @ = "live" THEN "removed" ELSE @]

RemoveTogether(e) ==
  /\ atomic /\ OnFile("product") /\ draft[e].at = "idle"
  /\ item' = [i \in Item |-> RemovesAll(i)]
  /\ UNCHANGED <<atomic, draft, saves, contested>>

RemoveProduct(e) ==
  /\ ~atomic /\ OnFile("product") /\ draft[e].at = "idle"
  /\ item' = [item EXCEPT !["product"].there = "removed"]
  /\ draft' = [draft EXCEPT ![e] = [NoDraft EXCEPT !.at = "removing"]]
  /\ UNCHANGED <<atomic, saves, contested>>

RemoveVariations(e) ==
  /\ draft[e].at = "removing"
  /\ Committed(e, [i \in Item |-> RemovesAll(i)])

(* The process dies or the database refuses: the edit ends where it is.    *)
Lapsed(e) ==
  /\ draft[e].at # "idle"
  /\ Ends(e)
  /\ UNCHANGED <<item, contested>>

CatalogNext ==
  \/ \E e \in Staff :
       \/ \E s \in Status :
            \/ PatchStatus(e, s)
            \/ \E p \in Price, o \in Was : CreateProduct(e, s, p, o)
       \/ \E s \in Status \cup {"none"}, p \in Price, o \in Was : UpdateProduct(e, s, p, o)
       \/ \E p, o \in Was :
            \/ PatchPricing(e, p, o) \/ InsertTogether(e, p, o)
            \/ \E v \in Variation : PatchVariation(e, v, p, o)
            \/ \E accepted \in SUBSET Variation : InsertVariations(e, accepted, p, o)
       \/ SaveItem(e) \/ InsertProduct(e) \/ RemoveTogether(e) \/ RemoveProduct(e)
       \/ RemoveVariations(e) \/ Lapsed(e)
  \/ \E v \in Variation : RemoveVariation(v)

CatalogSpec == CatalogInit /\ [][CatalogNext]_catalogVars

-------------------------------------------------------------------------------
(* Properties. *)

OnSaleIsPublished == item["product"].status # "DRAFT" => item["product"].published

PricesInOrder == \A i \in Item : InOrder(item[i])

VariationsFollow ==
  \/ item["product"].there # "live" /\ \A v \in Variation : ~OnFile(v)
  \/ item["product"].there = "live" /\ \A v \in Variation : item[v].there # "absent"

(* What staff save one panel at a time adds up: a product on sale has a date
   of publication, a was-price is never below the price, and where there are
   transactions a product comes and goes with its variations.  Only two edits
   of the same pair of fields that overlap can break the first two
   (product.service.js, create, update, patchSection and remove;
   product.model.js, validatePrices; variation.service.js, patch). *)
CatalogCoherent ==
  /\ "publication" \in contested \/ OnSaleIsPublished
  /\ "prices" \in contested \/ PricesInOrder
  /\ ~atomic \/ VariationsFollow

===============================================================================
