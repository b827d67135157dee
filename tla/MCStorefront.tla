----------------------------- MODULE MCStorefront -----------------------------
(***************************************************************************)
(* Small instances for TLC of what stands between a shopper and the        *)
(* account: the cart at the API, the guest cart in the browser, the copies *)
(* a page shows, the session cookies, and the checkout form.  They share   *)
(* no state: a behaviour is one of a single component, the others stand    *)
(* still.                                                                  *)
(***************************************************************************)
EXTENDS MCCart, GuestCart, CachedViews, Browser, Checkout

VARIABLE side

storefrontVars == <<vars, guestCartVars, viewsVars, browserVars, checkoutVars, side>>

(* The calls of the cart are alike: which of them has which form is one case. *)
Reordered(bodies) == {[c \in Call |-> bodies[p[c]]] : p \in Permutations(Call)}

StorefrontInit ==
  /\ Init /\ GuestCartInit /\ CachedViewsInit /\ BrowserInit
  /\ CheckoutInit
  /\ side \in {"cart", "guestCart", "views", "browser", "checkout"}
  /\ form = CHOOSE f \in Reordered(form) : TRUE
  /\ side = "cart" \/ form = CHOOSE f \in [Call -> Form] : TRUE
  /\ side = "cart" \/ items = <<>>
  /\ side = "views" \/ view = "cart"
  /\ side = "checkout" \/ (~alive /\ network = CHOOSE n \in Network : TRUE)

CartSide ==
  /\ side = "cart" /\ Next
  /\ UNCHANGED <<guestCartVars, viewsVars, browserVars, checkoutVars, side>>

GuestCartSide ==
  /\ side = "guestCart" /\ GuestCartNext
  /\ UNCHANGED <<vars, viewsVars, browserVars, checkoutVars, side>>

CachedViewsSide ==
  /\ side = "views" /\ CachedViewsNext
  /\ UNCHANGED <<vars, guestCartVars, browserVars, checkoutVars, side>>

BrowserSide ==
  /\ side = "browser" /\ BrowserNext
  /\ UNCHANGED <<vars, guestCartVars, viewsVars, checkoutVars, side>>

CheckoutSide ==
  /\ side = "checkout" /\ CheckoutNext
  /\ UNCHANGED <<vars, guestCartVars, viewsVars, browserVars, side>>

StorefrontNext == CartSide \/ GuestCartSide \/ CachedViewsSide \/ BrowserSide \/ CheckoutSide

StorefrontSymmetry == Permutations(Tab) \cup Permutations(Page)

StorefrontSpec == StorefrontInit /\ [][StorefrontNext]_storefrontVars

(* The cart document and its copies, what the browser keeps, what a page shows,
   the cookies and the checkout form have their types (cart.service.js, guest-cart.ts,
   use-cart.ts, proxy.ts, checkout-form.tsx). *)
TypesOK == /\ TypeOK /\ GuestCartTypeOK /\ CachedViewsTypeOK /\ BrowserTypeOK
           /\ CheckoutTypeOK

===============================================================================
