------------------------------- MODULE MCParts -------------------------------
(***************************************************************************)
(* Small instances for TLC of six components that share no document: a     *)
(* behaviour is one of a single component, the others stand still.         *)
(***************************************************************************)
EXTENDS Categories, CategoryPanel, Catalog, Media, Wishlist, ProductForm

VARIABLE part

partsVars ==
  <<categoriesVars, categoryPanelVars, catalogVars, mediaVars, wishlistVars,
    productFormVars, part>>

PartsInit ==
  /\ CategoriesInit /\ CategoryPanelInit /\ CatalogInit
  /\ MediaInit /\ WishlistInit /\ ProductFormInit
  /\ part \in {"categories", "panel", "catalog", "media", "wishlist", "form"}
  /\ transactional \/ part = "categories"
  /\ part = "panel" \/ \A n \in Node : place[n].up = Top
  /\ part = "panel" \/ matches = [p \in Panel |-> {}]
  /\ atomic \/ part = "catalog"

CategoriesPart ==
  /\ part = "categories" /\ CategoriesNext
  /\ UNCHANGED <<categoryPanelVars, catalogVars, mediaVars, wishlistVars,
                 productFormVars, part>>

CategoryPanelPart ==
  /\ part = "panel" /\ CategoryPanelNext
  /\ UNCHANGED <<categoriesVars, catalogVars, mediaVars, wishlistVars,
                 productFormVars, part>>

CatalogPart ==
  /\ part = "catalog" /\ CatalogNext
  /\ UNCHANGED <<categoriesVars, categoryPanelVars, mediaVars, wishlistVars,
                 productFormVars, part>>

MediaPart ==
  /\ part = "media" /\ MediaNext
  /\ UNCHANGED <<categoriesVars, categoryPanelVars, catalogVars, wishlistVars,
                 productFormVars, part>>

WishlistPart ==
  /\ part = "wishlist" /\ WishlistNext
  /\ UNCHANGED <<categoriesVars, categoryPanelVars, catalogVars, mediaVars,
                 productFormVars, part>>

ProductFormPart ==
  /\ part = "form" /\ ProductFormNext
  /\ UNCHANGED <<categoriesVars, categoryPanelVars, catalogVars, mediaVars,
                 wishlistVars, part>>

PartsNext ==
  \/ CategoriesPart \/ CategoryPanelPart \/ CatalogPart
  \/ MediaPart \/ WishlistPart \/ ProductFormPart

PartsSpec ==
  PartsInit /\ [][PartsNext]_partsVars /\ CategoriesFairness

(* Every variable of the six components has its type: the documents of
   category.service.js, product.service.js, media.service.js and
   wishlist.service.js, the form of variations-builder.tsx and the rows of
   category-tree.tsx. *)
TypesOK ==
  /\ CategoriesTypeOK /\ CategoryPanelTypeOK /\ CatalogTypeOK
  /\ MediaTypeOK /\ WishlistTypeOK /\ ProductFormTypeOK

===============================================================================
