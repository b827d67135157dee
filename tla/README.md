# GadgetSimp in TLA+

GadgetSimp is an online shop: an Express and MongoDB API (`src/backend`) and a
Next.js storefront and control panel (`src/frontend`). This directory holds TLA+
models of the parts whose correctness depends on the order in which concurrent
requests, staff handlers, tabs, answers and failures interleave, the TLC
configurations that check them on small instances, and TLAPS proofs about them.

The API runs as one or more Node processes. A request is a chain of awaited
database operations; MongoDB makes each single-document operation atomic and
nothing larger. Orders, carts, accounts and wishlists use no transactions (the
comment at `order.service.js:160-165` says why), and the catalog uses them only
where the deployment has them, so between any two awaits of one request anything
may happen in another. The browser is the same on a smaller scale: between a
request and its answer the shopper goes on clicking. That is the grain of every
model here: **one step per awaited operation that reads or writes shared state.**

## The system

| Part | State it keeps | Operations | Interacts with | What makes it correct |
|---|---|---|---|---|
| Order placement (`modules/order/order.service.js`) | `orders`; `stock.quantity` of products and variants | `placeOrder`: look up the idempotency key, price, reserve line by line, insert, compensate | catalog (reads policy and price), cart (empties ordered lines), auth (account invitation), mail | units conserved, no oversell, one order per key, a failed checkout keeps nothing |
| Order administration (`order.admin.service.js`) | `orders`: status, payment, `stockReleased`, `deletedAt` | `changeStatus`, `updateDetails`, `softDelete`, `hardDelete` | stock counts | stock comes back exactly once, an ended order stays ended |
| Guest-order claiming (`order.link.js`) | `orders.userId` | `claimGuestOrders` | run by auth when an account appears | no order of the address is forgotten |
| Cart (`modules/cart`) | one versioned document per user | `addItems`, `updateItems`, `removeItems`, `clear`; emptied by checkout | catalog (ceilings), orders | a shopper's change is neither lost nor applied to another line |
| Sessions (`auth.service.js`, `user.model.js`, `shared/tokens.js`, `middleware/authenticate.js`) | refresh sessions, `tokenVersion`, password and reset link in the user document | login, refresh (rotation, reuse detection), logout, logoutAll, password change and reset | frontend proxy, user administration | a spent token is never accepted, a revoked session stays revoked, nobody is signed out by bad luck |
| Registration (`auth.service.js`, `pendingRegistration.model.js`) | pending registrations with expiring, hashed tokens | register, resend, verify, complete, invite from checkout, social sign-up | users, orders, mail | one account per address, a signup can go on or goes away |
| User administration (`modules/user`) | users: role, status | `createUser`, `updateRole`, `updateStatus`, `softDelete`, `hardDelete` | sessions, registration | what staff revoke is revoked |
| Categories (`modules/category`) | a tree by `parentId` | create, update, sort, remove | products | no cycles, no orphans |
| Category panel (`components/panel/categories`) | the rows of the tree as it was read, the calls under way | drag, arrows, form, archive, search | categories | what is dropped lands where it was shown |
| Products and variations (`modules/product`, `modules/variation`) | products, variants, prices, stock | create, update, section patches, generate, remove | orders and cart read them; orders move `stock.quantity` | what panels save one at a time adds up |
| Wishlist (`modules/wishlist`) | rows per user and product | add, toggle, remove, clear | catalog | no duplicates, a cap |
| Media (`modules/media`) | documents, and assets in Cloudinary | upload, list, remove | products | a row has its asset, an asset its row |
| Brands, attributes | single documents | create, update, remove | products | unique slugs |
| Shop, dashboard, catalog queries | none | reads | everything | right answers |
| Middleware, configuration, mail, sequences | rate-limit counters, connections | filters, start-up, shutdown, `nextSequence` | everything | |
| Frontend API client and proxy (`proxy.ts`, `lib/api/client.ts`) | two cookies, refreshes in flight | resolve a session, refresh once, retry | sessions | one refresh per token; a network error is not a sign-out |
| Frontend cart (`lib/cart/guest-cart.ts`, `components/cart/guest-cart-merge.tsx`, `hooks/use-cart.ts`, `use-wishlist.ts`) | a guest cart in local storage and in every tab; cached copies of cart and wishlist | add, remove, merge on sign-in; optimistic writes, roll-backs, fetches | cart, wishlist | nothing lost or doubled by the merge; the page ends up showing the truth |
| Frontend checkout (`components/checkout`) | the form, its idempotency key and lines | open, submit, hear the answer, try again | order placement, both carts | a line is bought once |
| Product form (`components/panel/products`) | the rows of variants and the gallery, as typed | generate rows, upload, submit | catalog, media | what staff fill in stays |
| Other frontend pages and components | view state | | | |

`PROJECT.json` lists the same parts with their status, and under `hazards` what
in this code is hard to test, each at the line where it bites.

### What is hard here

* **Interleaving without transactions.** Checkouts price on one read and reserve
  on later writes; staff handlers read a document, decide, write other documents
  and then save the first; a category is moved after a walk up the tree that
  takes one query per ancestor.
* **Three kinds of save.** Mongoose writes the modified fields; a save that
  replaces or edits an array carries the version it read, one that appends and one
  of plain fields do not. Which of them a handler issues decides what a concurrent
  handler can undo.
* **Partial failure.** A reservation, a compensation and a restock are several
  increments, each of which can fail alone; an image lives in two stores; the
  process can stop between any two steps.
* **Retries.** Idempotency keys, cart writes, order numbers, sign-up links and
  token refreshes are all retried, by the server, by the client or by the shopper.
* **Answers in the wrong order.** An answer can be lost, arrive after the browser
  has moved on, or write back a list that has been edited since.
* **Two tabs.** Cookies and local storage are shared; what a tab has in memory is
  not.

## Modules

| Module | What it is |
|---|---|
| `StockLedger` | the abstract promise about units of stock: shelf, claims, `Take`, `PutBack` |
| `Orders` | `placeOrder` and the staff handlers, step by step; shown to implement `StockLedger` |
| `Cart` | one shopper's cart: versioned saves, their retries, and the direct updates beside them |
| `Subsequences` | filtering a sequence by positions, defined without recursion so that it can be proved about; extended by `Cart` and `CategoryPanel` |
| `Sessions` | one account's document under sign-ins, refreshes, revocations and password changes |
| `Registration` | one e-mail address on its way to an account, and the guest orders it takes over |
| `Categories` | the category tree under concurrent edits |
| `CategoryPanel` | staff rearranging the tree by hand, from a list that a search has thinned out |
| `Catalog` | one product and its variations under concurrent edits |
| `Media` | images across the cloud and the database |
| `Wishlist` | one user's wishlist and its cap |
| `ProductForm` | the form of a new product and the calls that write back into it |
| `Browser` | one browser's cookies, the page server that renews them, and outages |
| `GuestCart` | the guest cart in several tabs and its move to the account |
| `CachedViews` | optimistic copies of the cart and the wishlist on a page |
| `Checkout` | the checkout form's life, and what its submissions do to both carts |
| `MCOrders`, `MCCart` | small instances for TLC |
| `MCAccounts` | `Sessions` and `Registration` for one run of TLC |
| `MCParts` | `Categories`, `CategoryPanel`, `Catalog`, `Media`, `Wishlist` and `ProductForm` for one run of TLC |
| `MCStorefront` | `Cart`, `GuestCart`, `CachedViews`, `Browser` and `Checkout` for one run of TLC |
| `StockLedgerProofs`, `OrdersProofs`, `CartProofs`, `CategoryPanelProofs`, `AccountsProofs`, `PartsProofs`, `StorefrontProofs` | TLAPS proofs; the last three are about the components of `MCAccounts`, `MCParts` and `MCStorefront` |
| `SubsequencesProofs` | lemmas about `Subsequences`, extended by `CartProofs` and `CategoryPanelProofs` |

`StockLedger` is instantiated by `Orders`. The other components meet at narrow
places, and each module has the other side of its own: the checkout reaches the
cart by one update (`ClearOrderedLines` in `Cart`, the last step of a submission in
`Checkout`); the cart reaches the stock only by reading how many units a SKU has
left (`limit`); staff reach an account through its document (`UpdateRole` and its
like in `Sessions`); an account's birth claims the guest orders (`Registration`);
the browser sees of the API's sessions which tokens are stored and which versions
are void (`Browser`).

Several modules excuse a race that the code does not prevent. The excuse is always
a **history variable that names it**, set by the step at which the race happens and
by no other, so that a property says "this holds unless that happened": `raced`
(a revocation saved by a request that had missed another), `overlaid` (a sign-up
saved over a row that had changed since it was read), `crossed` (a category saved
on a tree that had changed), `contested` (two edits of one pair of fields),
`refused`, `unsure` and `unfinished` (an asset that the cloud declined to remove, an
upload that died or was not heard, a removal that was cut off with the asset gone),
`causes` (what befell a refresh token), `mayDouble` and `mayVanish`,
`retold` and `overlooked` (entries and lines), `unlucky` (late answers), `exposed`
and `shaken` (rows and pictures that changed while a call was under way),
`overtaken` (a cart that a direct update changed). `fresh` in `CategoryPanel` is the
same thing the other way round: nothing was written since the list was read.

### `Orders` and the code

| Variable | Code |
|---|---|
| `stock` | `stock.quantity` of a product without variants, or of a variant |
| `policy` | `stock.trackInventory`, `stock.allowBackorder`, `status` and visibility, folded into the four ways a SKU can be sold |
| `form` | the validated body, with the caller it is scoped to |
| `pc`, `next`, `seen`, `reserved`, `outcome`, `answer` | where a `placeOrder` call is, the line it is about to reserve, the policy it read when pricing, each line's `reservedQuantity`, and how it ended |
| `pending` | the increments `releaseAll` has still to land |
| `order` | the `orders` collection; documents are named by the request that inserted them |
| `task` | a staff handler between its read and its save: what it read and decided, and the increments it has still to land |
| `back` | history only: the lines whose units were put back |

| Code | Actions |
|---|---|
| `placeOrder`, key lookup | `FindExisting`, `FindNone` |
| `priceItems` (`loadSelections`, `checkSelection`) | `PriceItems`, `RefuseItems` |
| `reserveAll` / `reserveLine` | `ReserveLine` (one atomic `updateOne` each), `ReserveFails` |
| `createWithUniqueNumber` | `CreateOrder`, `CreateConflicts` (unique index on the key), `CreateFails` (no number, or a refused insert) |
| `releaseAll` | `UndoLine` in any order, `UndoLineLost`, `FinishUndo` |
| a crash, or a throw outside the `try` | `Die` |
| `changeStatus`, `updateDetails`, `softDelete`, `hardDelete` | `BeginStatus`, `BeginDetails`, `BeginSoftDelete`, `BeginHardDelete` (the read and the decision), `RestockLine`, `SaveStatus`, `SaveDetails`, `SaveSoftDelete`, `SaveHardDelete`, `SaveFindsNothing` |
| a database error in a staff handler | `HandlerFails` |
| a staff edit of how a SKU is sold | `SetPolicy` |

A save is modelled as Mongoose performs it: it writes the modified fields over
whatever the document is by then. The order schema does not enable optimistic
concurrency and its saves append to `statusHistory` without a version condition,
so a stale save is not refused.

Three specifications share these actions. `Spec` is the code: staff handlers of
one order may overlap, and may fail before their save. `SerialSpec` adds the
discipline that staff work on one order one handler at a time and that every
handler reaches its save; nothing in the code enforces it, and it is what the
stock bookkeeping relies on, as the violations below show. `FairSerialSpec` is
`SerialSpec` with weak fairness of each call's steps.

What is abstracted: two lines of one order may name one SKU (the validator allows
it); prices, totals, fees and e-mails do not occur; a product that vanished for
good before its reservation is a refusal like any other; `stock.quantity` moves
only through orders, since an absolute count saved by staff is a stock-take and
says what is on the shelf whatever was reserved meanwhile. What the first attempt
of a submission left is looked up once, before pricing, so a retry that overlaps it
is decided by the unique index and answered with a conflict (`CreateConflicts`), or
refused for want of stock: `RetriesGetTheOrder`, below, is about that.

### `Cart` and the code

| Variable | Code |
|---|---|
| `items`, `version` | the cart document's `items` and `__v` |
| `limit` | `ceilingFor(available)` of each SKU at the moment; zero when `checkSelection` would refuse it |
| `form` | the validated body, for `addItems` after `groupRequested` |
| `pc`, `attempt`, `copy`, `copyVersion`, `ceiling`, `outcome` | where a call is, its attempts in `withCartWrite`, the document and the ceilings it read, and how it ended |
| `overtaken` | history only: a direct update has changed the items since the call read them |

| Code | Actions |
|---|---|
| `addItems` before its first attempt (`loadSelections`, `checkSelection`) | `CheckItems`, `RefuseItems` |
| `openCart` and what an attempt decides on the copy | `OpenCart`, `OpenFindsUnknown` (an id that is gone), `OpenFindsFull` (the line cap), `OpenFindsDamage` (the copy does not validate) |
| `updateItems` reading the catalog | `ReadLimits` |
| `cart.save()` | `SaveWhole` (`$set` of the array), `SavePush` (`$push`), `SavePositions` (`$set` of `items.<i>.quantity`), `SaveNothing` |
| a `VersionError` in `withCartWrite` | `SaveLost` (start over), `SaveConflicts` (409) |
| `removeItems` | `FindItems`, `FindNoItems`, `PullItems` |
| `clear`, `clearOrderedLines` | `Clear`, `ClearOrderedLines` |
| a sale or a staff edit elsewhere | `SetLimit` |

`optimisticConcurrency: true` makes `cart.save()` one update under the condition
that `__v` is still what was read, and increments it. What the update writes is not
the copy but what was modified in it, and the model follows Mongoose in this: a
push appends to whatever array is there, a changed quantity is written at the
line's position in the copy, and a removal, or a push together with a changed
quantity, replaces the array. A position past the end makes an element of the one
field, and MongoDB pads the gap with null; `Stray` and `Hole` are these.
`$pull` and `$set: { items: [] }` issued by `updateOne` and `findOneAndUpdate`
bypass all of this and leave `__v` alone.

A line's id is modelled by the call that pushed it and its SKU. The upsert that
creates a cart is an empty cart that is already there. An array with a null in it
makes `removeItems` throw (`Unreadable`). A raised line whose quantity
is at its ceiling counts as unmodified, since prices are left out.

### `Sessions` and the code

The variables are the user document's fields (`password`, `tokenVersion`, `status`,
`sessions`, `link`, `version`), each request's copy (`draft`) and next step (`pc`),
the tokens handed out (`issued`, each with the token it replaced, its sign-in, the
version and the password it was minted under), and the clock (`expired`,
`lapsed`). Tokens are numbered in the order their sessions were stored.

| Code | Actions |
|---|---|
| `login` (`addSession`, with the eviction at the cap) | `Login`, `Save` |
| `refresh`: rotation, an expired or revoked token, reuse | `Refresh`, `Save` |
| `logout`, `logoutAll` | `Logout`, `LogoutAll`, `Save` |
| `changePassword`, `forgotPassword`, `resetPassword` | `ChangePassword`, `ForgotPassword`, `ResetPassword`, `Save` |
| `updateRole`, `updateStatus`, `softDelete`, `hardDelete` of `user.service.js` | `UpdateRole`, `UpdateStatus`, `SoftDelete`, `HardDelete`, `Save`, `Delete` |
| a `VersionError`, a document that is gone, a request that dies | `SaveFails` |
| JWT and link lifetimes | `Expire` |

A draft's `writes` are the paths that Mongoose takes for modified. A save that
replaces the list names the version it read; one that only pushes a session advances
the version and tests nothing; one of other fields (`tokenVersion` among them)
ignores it.

### `Registration` and the code

`row` is the pending registration of the address (its token, whether the address is
proven, whether a password is known, how long it lives), `users` the accounts,
`owner` the guest orders; `at` and `work` are each request's next step and what it
has read.

| Code | Actions |
|---|---|
| `register`, `inviteAccountFromCheckout`, `resendVerification` | `Register`, `InviteAccountFromCheckout`, `ResendVerification`, `Upsert`, `SaveResend`, `SaveMisses`, `Mail` |
| `verifyEmail`, `completeRegistration` | `VerifyEmail`, `CompleteRegistration`, `CheckAddress`, `Rotate`, `Hand`, `CreateAccount`, `CreateCollides` |
| `socialLogin`, `createUser` | `SocialLogin`, `CreateUser`, `CreateAccount`, `CreateCollides` |
| `afterAccountCreated`, `claimGuestOrders` | `ClearRow`, `ClaimGuestOrders` (one `updateMany`) |
| a request that dies, or a mail server that refuses | `Fail` |
| guests who go on ordering; accounts removed by staff | `PlaceGuestOrder`, `EraseAccount` |
| expiry and MongoDB's TTL monitor | `Lapse`, `Sweep` |

### The catalog: `Categories`, `CategoryPanel`, `Catalog`, `Media`, `Wishlist`, `ProductForm`

* `Categories`: `parent` and `state` are the documents. `Create` and `Update` begin
  a walk (`validateParent`), `Walk` reads one ancestor, `SaveCreate` and
  `SaveUpdate` write; `Sort` tests the tree it read and `SaveSort` writes all moves,
  or `SaveMove` one at a time where `transactional` is false; `Remove` looks for a
  child and `SaveRemove` archives; `Abandon` is a refusal or a death at any step.
* `CategoryPanel`: `place`, `there` and `archived` are the documents again, now with
  their order; `panel` is the list a panel shows (`Fetch`: `filterGrouped` with
  `Included` for its search, then `flattenTree`), `mutation` the calls under way.
  `OnDragEnd` computes the new list (`Drops`: the block that moves, the depths the
  pointer may choose, the parent each depth means) and sends `SortEntries` of it;
  `Nudge`, `SaveCategory`, `NewCategory` and `ArchiveCategory` are the arrows, the
  form and the archive button. `CarryOut` and `Refused` are the endpoint in one step,
  `Succeeded` empties the panel until it has read again.
* `Catalog`: `item` holds the product and its variations, `draft` each edit's read
  and copy. `UpdateProduct`, `PatchStatus`, `PatchPricing` and `PatchVariation` test
  the copy (`validatePrices`, the price rule of the panel, the date of publication)
  and `SaveItem` writes the fields that differ. `CreateProduct` and `RemoveProduct`
  write the variations too, together or, where `atomic` is false, one after the
  other; `Lapsed` is a process that stops half way.
* `Media`: `stored` and `listed` are the two stores. `UploadBuffer`, `RecordFile`,
  `RecordFails` and `Undo` are `upload` with its roll-back, `FindMedia`,
  `DestroyAsset` and `DeleteRow` are `remove`; each call to the cloud may fail, or be
  carried out and not heard, and `Die` may come at any step. `DestroyRefused` is an
  answer of the cloud that is neither ok nor not found: it is logged and taken for
  done, and the row goes while the asset stays.
* `Wishlist`: `AddItems` and `Toggle` start a chain of reads (`FindExisting`,
  `CheckVisible`, `AssertRoom`) that ends in `InsertMany`;
  `RemoveItems` and `Clear` are single statements; `ChangeVisibility` is the
  catalog's side.
* `ProductForm`: `variants` and `gallery` are the form's lists, `matrix` the
  combinations of its options, `job` the calls under way, each with the list as it
  was when the call was made. `ChangeAxes`, `TypePrice`, `AddByUrl` and
  `RemoveImage` are what staff type; `Regenerate`, `UploadRowPicture` and
  `UploadFiles` make a call and `FinishSync`, `FinishRowPicture`, `FinishFiles` and
  `FailUpload` are its answer; `SetTab` unmounts a panel; `SubmitNew` makes the
  product from the rows.

### The browser: `Browser`, `GuestCart`, `CachedViews`, `Checkout`

* `Browser`: `jar` holds the two cookies, `page` the page requests, `renewal` the
  refresh a page waits for, `held` and `voided` the API's side. `SendPage`,
  `FetchUser`, `Refresh` (which joins a refresh of the same token that is in
  flight), `RotateToken`, `RefuseRevoked`, `DetectReuse`, `Outage`, `Settle` and
  `WriteCookies` are `proxy.ts` and the API behind it; `SignIn` and `ClearSession`
  are `auth.ts` and `client.ts`. A sign-out is a request of its own (`leaving`): it is
  sent with the cookies of the moment (`SignOut`), perhaps once more after a renewal
  (`RetrySignOut`), ends a session at the API (`EndSession`), and then its answer
  deletes both cookies, whatever they are by then (`SignedOut`), or it fails or is not
  heard and the page forgets its own token only (`SignOutFails`). `LoseAnswer` and
  `Age` are the network and the clock.
* `GuestCart`: `kept` is local storage, `entries` each tab's copy, `inFlight` the
  promise at module scope that guards the move, `posts` the requests.
  `AddGuestEntry` and `RemoveGuestEntries` write the whole copy back;
  `SignInTab`, `Navigate` and `ReloadTab` may start a move (`MergeGuestCart`, at
  most `BatchSize` entries); `HearMoved`, `HearRefused` and `HearNothing` are its
  end, which releases the promise (`Settled`); `SignOutTab` forgets it.
* `CachedViews`: `content` is the API's state, `shown` the page's. `SetQuantity`,
  `ToggleHeart` and `RemoveLines` write, `CarryOut` and `Decline` are the API,
  `Succeed`, `BeRefused` and `GiveUp` the page's handlers (`absorb`, `RollBack`),
  `Mount`, `AnswerFetch`, `LandFetch` and `FailFetch` its fetches.
* `Checkout`: `basket`, `basketAtApi` and `seen` are the two carts and the page's
  copy, `alive`, `bearer` and `believes` the session as the API, the cookie and the
  page see it, `checkout` the form with its key, `submissions` the requests.
  `OpenCheckout`, `EditEmail`, `LeaveCheckout`, `ReloadCheckout` and `OnSubmit` are
  the shopper; `FindExisting`, `WriteOrder` and `RefuseOrder` the endpoint (how it
  prices and reserves is `Orders`); `HearOrder`, `HearRefusal` and `LoseAnswerTo`
  the answer.

## Runs

Components that share no state are checked in one run: a behaviour of
`MCStorefront`, `MCAccounts` or `MCParts` chooses a component in its first state
and is a behaviour of that component, the others standing still. The reachable
states are those of the components side by side, not their product. Deadlock is
not checked anywhere: calls end and the bounds run out, so every behaviour of
these models really stops.

| Run | Specification and bounds | Shows |
|---|---|---|
| `orders_placement` | `Spec`; 3 calls, 2 handlers that may overlap on one order, 2 staff operations, 1 crash, failure or lost increment (2,313,423 states) | `KeysAreHonoured`, `FailedCheckoutHoldsNothing`, `EndedOrderHoldsNothing`, `TypeOK` |
| `orders_staff` | `FairSerialSpec`; 2 calls, 2 handlers on different orders, 3 staff operations, 1 policy edit, 1 crash or lost increment of a call (466,413 states) | `NoOversell`, `StockIsConserved`, `ReleasedFlagIsTruthful`, `EveryHoldResolves`, and that `Orders` implements `StockLedger` (`ImplementsLedger`) |
| `storefront` | cart: 3 calls of eight bodies, 3 SKUs, 2 attempts, 2 lines, 1 change of a ceiling; guest cart: 2 tabs, 2 entries, 3 requests of one entry each; views: 2 writes at a time, 3 in all; browser: 2 page requests at a time and a sign-out, 3 of both in all, 3 token pairs; checkout: 2 submissions from 2 networks, 3 other things a shopper does (2,975,690 states) | `LinesDistinct`, `CartWithinLimit`, `ConflictMeansContention`, `SavesAreAtomic`, `EntriesMoveOnce`, `QuietViewIsTrue`, `AlarmsHaveACause`, `LinesOrderedOnce`, `TypesOK` |
| `accounts` | sessions: 3 requests at a time, 4 in all, a cap of 2 sessions; registration: 2 requests at a time, 3 in all, 2 guest orders, 1 resend (461,954 states) | `TokenUsedOnce`, `ListBounded`, `SignedOutStaysOut`, `OneSessionPerLogin`, `RevocationIsFinal`, `NewPasswordEndsOldSessions`, `NoSessionLost`, `ResetLinkWorksOnce`, `OneAccountPerAddress`, `PastOrdersAreClaimed`, `SignupCanGoOn`, `SignupsEvaporate`, `AccountsTypeOK` |
| `parts` | categories: 3 categories, 2 calls at a time, 3 in all, sorts of 2; panel: 4 categories in two levels, every tree and every search, 2 calls; catalog: a product with a variation, 2 prices, 2 edits at a time, 3 in all; media: 2 files, 2 calls; wishlist: a cap of 1, batches of 2, 2 requests at a time, 3 in all; form: 2 combinations, 2 calls under way, 2 generations (621,203 states) | `TreeStands`, `WalksEnd`, `DropsLandAsShown`, `CatalogCoherent`, `NoBrokenRow`, `NoStrayAsset`, `WishlistBounded`, `FilledInStays`, `TypesOK` |
| `orders_double_tap` | `Spec`; 2 calls with one submission, no fault | violates `RetriesGetTheOrder` |
| `orders_restock_retry` | `Spec`; 1 call, 1 handler, 1 failure | violates `NoInventedStock` |
| `orders_reopened` | `Spec`; 1 call, 2 handlers | violates `EndedStaysEnded` |
| `cart_stray_line` | `Cart`; 2 calls on two lines | violates `EveryLineNamesAProduct` |
| `checkout_token_lapsed` | `Checkout`; 1 submission, 2 other things | violates `SignedInOrdersAreLinked` |
| `product_form_sync` | `ProductForm`; 2 calls | violates `SyncKeepsPrices` |
| `browser_outage` | `Browser`; 2 page requests | violates `OutageKeepsCookies` |

### Why the bounds are enough for what they show

*Orders.* Three calls are a first attempt, its retry and a competitor for the last
unit; initial counts of two and one make every combination of enough, too little
and just enough occur; two lines are the least that a partial reservation, a
partial compensation and a repeated SKU need; two staff operations overlap on one
order and either may fail, and three, one after the other, cancel, delete and remove
one. What is conserved while staff overlap is not asked of TLC: two handlers that end
one order at a time do restock twice, as the violations show, so the books are
checked and proved where they do not. `MaxEdits`, `MaxFaults` and `MaxStaffOps` bound
how often a policy edit, a fault and a staff operation occur and appear in guards
only. Nothing names a request or a handler; the run without temporal properties
treats them as symmetric.

*Cart.* Three calls are a writer and two that overtake it, one by a save and one by
a withdrawal, or two savers and a third that loses to both; the code's three
attempts are two here, so that two competitors suffice to exhaust them. The cart
starts empty or full, and the bodies make every form of save occur on either. Which
call has which body makes no difference, so each choice of bodies is started from once.

*Sessions.* With a cap of two, the third sign-in evicts, and three requests in
flight can exceed the cap by two, which is what `ListBounded` allows and no less.
A fourth request is there to trip over what three left behind: a rotation, a
revocation or a reset that raced, then a token or link from before.

*Browser, guest cart, views, checkout.* Two of anything make an overlap, a third
makes the one that comes after it: a page request with outdated cookies after two
that shared a refresh; a write after an answer that came late. Entries are moved one
per request, the code's fifty, so two entries are already a batch that was cut; the third
request is the one that a promise released too early lets through.
A lost answer, a reload and a sign-out in any order fit in the three errands of the
checkout. The two tabs are interchangeable and treated as symmetric, and so are the
page requests.

*Catalog side.* Every race here is between two calls, and a third finds what they
left. Three categories, of which two are there, are the least for a cycle that a
walk has passed before it closes, and for a child created below a category that
goes. In the panel, four categories and two levels give a block with a child, a
neighbour on either side and a row at the greatest depth; the initial tree and the
search are arbitrary. One panel is enough: a call that it has under way while it
makes another stands for a colleague's, since a list is outdated by any write,
whoever made it. A wishlist capped at one and batches of two overflow at
once.

*Registration.* Two requests and a third cover a link followed while its row is
replaced, an account made twice, and a signup after an account was removed.

### Fairness

* `FairSerialSpec` assumes weak fairness of `Step(r)` for each call: Node runs the
  continuation of an awaited operation once it settles, and every operation of the
  driver settles, by an answer or by a timeout. A crash or a lost increment is not a
  fair step and may never happen. Nothing is assumed of staff.
* `RegistrationFairness` is weak fairness of `Lapse` and `Sweep`: time passes, and
  MongoDB's TTL monitor runs. No request has to arrive or to go on.
* `CategoriesFairness` is weak fairness of `Walk(e)`: a walk that had its answer
  asks for the next ancestor. It does not by itself make walks end: they end
  because there is no cycle.

### What the violations say

* A submission that is sent again while its first attempt is under way, a button
  tapped twice for instance, is answered with a conflict: both look their key up
  before either inserts (`order.service.js:445`), and the insert that then meets the
  unique index is an error like any other (`:459`, `:595`). `order.docs.js:199-204`
  promises the original order to just such a button, and `order.service.js:441` to a
  retried submission. Nothing is ordered twice (`KeysAreHonoured`); the shopper is
  told so in a way that reads like a failure.
* A cancellation that fails between its increments and its save restocks again when
  it is retried (`order.admin.service.js:179`), although the comment at `:174`
  recommends the retry and the one at `:130` promises "exactly once". Two handlers
  that end one order at once do the same without any failure: both read
  `stockReleased` as false (`:178`, `:293`, `:323`).
* A confirmation that overlaps a cancellation re-opens the cancelled order after its
  units went back (`order.admin.service.js:187`; `constants.js:331` says an order
  that ended has ended).
* A removal between another call's read and its save leaves the cart's version
  alone (`cart.service.js:585`), so that save is not refused and writes its quantity
  where the line used to be: past the end of the array this makes an element that
  names no product, and every later save of the cart fails on it (`:570` promises
  that a concurrent add is untouched). On a longer array the same write lands on
  another line, and a save of the whole array brings the removed line back;
  `SavesAreAtomic` therefore holds only of saves that no direct update overtook.
* A shopper whose access token ran out while the form was open orders as a guest:
  the client renews a token on a 401 only (`client.ts:215`), and the endpoint
  answers none, since `optionalAuthenticate` lets a bad token pass
  (`authenticate.js:66-82`). `order.routes.js:24-25` says that a signed-in order is
  linked to its account automatically.
* A price typed while the rows of variants are being generated is lost: the answer
  writes back the list as it was when the button was pressed
  (`variations-builder.tsx:191`), under a text that says "Syncing keeps everything you
  have already filled in" (`:260`, also `:15-16`).
* When the API is down for a page request that needs new tokens, `proxy.ts:105`
  takes the missing answer for a dead token and deletes both cookies; `:180-181` says
  that the caller leaves cookies alone.

### A disagreement that no run shows

`media.service.js:177-179` and `media.docs.js:264-267` say of a removal that a
failure at Cloudinary leaves both sides intact and that the call can be repeated.
`destroyAsset` throws when Cloudinary cannot be reached, and then they are right; an
answer that is neither "ok" nor "not found" it only logs (`cloudinary.js:94-98`), and
`remove` goes on and deletes the row. The asset is then stranded, and the call, its
row gone, cannot be repeated. `DestroyRefused` does this, `NoStrayAsset` names the
asset (`refused`) and does not claim the promise.

### Behaviour that no property judges

The models do what the code does in these cases, and nothing in the repository says
it should be otherwise:

* deleting a delivered order restocks goods that are with the customer, since
  `softDelete` looks at `stockReleased` and not at the status;
* a drop in the category panel sends every row it shows, so one made from an
  outdated list is refused or puts back what a colleague has moved since, or what
  this panel's own last call has; an arrow on an outdated list may come out elsewhere
  than it was shown; positions are counted among the rows a search has left, so the
  others keep numbers that may now coincide (they fall back on their names); a drag
  that is only sideways does nothing; drafts are not in the list;
* a sign-out that a page's renewal overtakes ends the session it was sent with, which
  the renewal has already replaced; the new session lives on at the API, and an answer
  of the page server that lands after the cookies were deleted brings it back
  (`auth.service.js:615-623`, `proxy.ts:49-84`);
* overlapping edits of one pair of fields, of one pending registration, or of one
  branch of the category tree do break the rules that each of them tested
  (`contested`, `overlaid`, `crossed`);
* the guest cart's promise is released by whichever move settles
  (`guest-cart-merge.tsx`, the `finally` of `GuestCartMerge`), so a move from before
  a sign-out that fails late releases the promise of the move that followed, and the
  next page makes that one again; `mayDouble` names the case;
* the checkout page quotes the delivery fee from a table of its own
  (`lib/checkout/bangladesh.ts`) that does not know the threshold above which the API
  waives it (`order.service.js:84-88`). It is arithmetic in two places, and no
  interleaving has a part in it.

## Proofs

The proofs hold for every value of the constants under the named assumption of each
module: finitely many requests, natural bounds, inputs the validators admit. One
kind of argument recurs. A property is seldom inductive: most decisions are made on
a copy that was read earlier, so the invariant that is has to say what a copy, or a
call under way, still knows about the present state.

* `StockLedgerProofs`: types, conservation and no-oversell of the abstract ledger.
  Conservation counts units as the elements of a finite set, so that `Take` and
  `PutBack` become the union with, and the difference from, one claim's units.
* `OrdersProofs`, about `Spec`: `TypeInv` strengthens `TypeOK` with the cursors (a
  call that is reserving points at one of its own lines). `PlacedIsDone` (a call
  with an order has ended) makes `OneOrderPerKey` inductive, since the insert tests
  the index in the same step; with `DuplicateIsOwn` it is `KeysAreHonoured`, which does
  not say that a retry is answered as one.
  `PolicyOK` and `SeenOK` (a SKU outside `Backorderable` is never sold, nor was
  read, as a backorder) give `NoOversell`: the guard in the update and the decrement
  are one step, so the policy read earlier cannot hurt. `OrdersEndedHoldsNothing`
  survives overlapping and failing handlers: an order is ended by the save of a
  handler that, by then, has nothing left to put back, and that handler either put
  back every line itself or read `stockReleased` as true. `EndedInv` carries this: a
  set flag, an ended order and a handler that found nothing to release each imply
  that all lines are back, and a handler with increments still to land has put back
  all the others. `SettlesInv` is the same for a call that undoes: a line that is
  neither back nor pending was never taken, so a call that has ended without an
  order holds nothing (`OrdersFailedHoldsNothing`).
* `OrdersProofs` again, about `SerialSpec`: `SerialInv` says where every unit of
  every line is. While a call undoes, a line is back exactly when it is no longer
  pending; a call that has an order or is about to insert one has put nothing back;
  a handler that decided to release an order is the only one at work on it and has
  put back exactly the lines it no longer has pending; and the flag is set only when
  everything is back. From it follow that the flag is truthful, that each step is a
  step of the ledger or leaves it alone (`SerialImplementsLedger`, through the
  refinement mapping of `Orders`), and from that and the ledger's own theorem that
  units are conserved (`SerialConserves`).
* `CartProofs`: `LinesDistinct` and `CartWithinLimit` are not inductive, since a
  push is computed on a copy and lands on the present array. `CopyCurrent` bridges
  the two: while the version a call read still stands, no save has landed since, and
  direct updates only take lines out, so the present array has no SKU the copy lacks
  and is no longer than the copy; and if none overtook the call it is the copy.
  `CopySound` says that the copy had room for what the call adds, `CeilingSound`
  that `addItems` goes on only with SKUs that are to be had, and `AttemptsCounted`
  that every lost attempt was lost to a version of its own. Lemmas say what each
  kind of write makes of an array. `CartSavesAreAtomic` shows that the three updates
  Mongoose derives are, on the array the copy was taken from, the same function of
  it. The lemmas about filtering by positions (`SubsequencesProofs`) use the least
  counterexample (`WFMin` on the naturals) in place of induction.
* `AccountsProofs`, *Sessions*: `DraftCurrent` says that while the version a request
  read still stands, no save has touched the list, so what it kept is still stored
  and so is the session it presented; `ChainInv` adds that a token whose session is stored has
  not been exchanged, and the three properties themselves (`ExchangedOnce`,
  `LogoutIsFinal`, `RotationReplaces`), which need each other. `EpochInv` is about
  revocations that did not race: every token and every draft of the present
  `tokenVersion` was read after the last of them and knows the stored password.
  `PushInv` counts a sign-in that has yet to append as if it had: each found room when
  it read, and there are at most as many of them as requests (`ListStaysBounded`).
  `SessionsAreKept` follows from the two: a versioned save writes a list that lacks
  only the session it replaces, signs out or evicts, since no save came between; an
  append lacks nothing; and what any other save drops it revokes. `LinkInv` says that
  a link is made once and stored at most once, and that a reset of the present epoch
  presents a link which was not spent: what spends one revokes, so a second reset
  with it missed that revocation (`LinksWorkOnce`).
* `AccountsProofs`, *Registration*: an account is inserted in the step that tests the unique
  index, and the claim that follows is one update of every order of the address, so
  `AddressHasOneAccount` and `ClaimsLeaveNothing` need little beside types.
  `SignupsStayOpen` needs `Knows`: a request that is about to hand out a token which
  is still the row's hands it out for a proven address without a password, unless
  requests saved over each other, and one that changes the row had read it so.
  The two sides of `MCAccounts` are shown to be behaviours of `Sessions` and of
  `Registration` (`AccountsAreTheirSides`), from which the types of both follow.
* `PartsProofs`. *Categories*: `TreeInv` says that what a walk has read so far stays
  closed under `parent` and free of the category that moves, unless a save went by,
  and that a sort's moves were tested on the tree that still stands; a save then
  keeps the tree acyclic and complete (`TreeStaysWhole`). *Media*: `FileSound` says
  what each call knows of its file (nobody but the upload has heard of one before
  its row is written; what is taken back has no row), `StraysKnown` that uploads,
  the log, refusals and calls that died or were not heard account for every asset
  without a row. *Wishlist*: `Load`, what is on the
  list or let through to it, keeps within the room, where the batches let through
  are bounded by an injection of their union into `Client \X 1..MaxBatch`.
  *Catalog*: a save merges a sound copy into a document; where it wrote only fields
  that nobody else had changed, or all the fields a rule is about, the result is
  sound. *ProductForm*: a list that a call will write back agrees with the rows on
  everything that has not changed since.
  The six parts of `MCParts`, the category panel among them, are shown to be
  behaviours of their components (`PartsAreThemselves`).
* `CategoryPanelProofs`: `DropsLandAsShown` compares lists, so the proof is mostly
  about lists. `ListsAll` says, without recursion, what it is for a list of rows to
  be that of a tree: every category once, each below its parent and one level
  deeper, siblings in their order. There is one such list (`ListIsTree`) and
  `flattenTree` makes it (`ListedIsRows`, from `RowsList` and `TreeHasList`), by the
  least counterexample in place of induction. A block dropped where `projection`
  lets it be is again such a list (`DropIsMove`, `DropFits`), and so is a list of
  which two sibling blocks are swapped (`SwappedNested`). Writing the positions of
  the whole list (`SortListsAll`), or of the family an arrow is about
  (`FamilySorted`), makes its tree. `CategoryPanelInv` is that the documents are a
  tree, that every panel shows a list of the tree it has read, which is what is
  stored while nothing was written since (`PanelsList`), that calls which create
  bring names of their own (`NewNames`), and what each call would make of the tree
  (`CallsLand`). `ListsSeen` adds that an up-to-date list has a row for all that matches its
  search, and that a sort carries a well-nested list, the list of what it sends if it
  sends every row. A part
  of a tree that is closed under parents has the rows of the whole, less the others
  (`PartListed`), and `Included` is such a part (`IncludedClosed`), so the rows that
  the panel reads after the call are those of the list it sent, less what the search
  no longer reaches; with categories that have come since, they are so among the ones
  it had shown (`ReadAsShown`, `LandsAsShown`). The proof assumes a panel
  (`Panel # {}`), without which there is nobody to make a call.
* `StorefrontProofs`. *Browser*: `Orderly` holds while no cause has arisen: the
  refresh token in the browser is stored at the API, void already, being deleted by
  the answer to a sign-out, or being replaced by the one refresh that every request
  with it waits for, and what replaces it is stored. *CachedViews*: the newest state
  has been heard or will be (`Due`): a write is on its way, or a fetch that was asked for or was answered after it; in the cart
  the page then shows the newest answer it heard, and the hearts are fetched after
  the last write. *GuestCart*: an entry that is still kept and is being moved is in
  the one move that its tab waits for (`KeptIsAwaited`), so no other is made of it
  (`MovedByOne`); what the account has came by a move (`ArrivedByMove`); and the copy
  that the answer to a move empties held nothing but what was moved (`CopyIsMoved`).
  *Checkout*: while the form is open, what may have been ordered was asked for with
  the key and as the caller that the next attempt will have (`SameAgain`), and what
  was ordered and heard of is in no cart that could be asked for (`OrderedIsOut`);
  hence requests that may bring the same line are the same order (`OneOrder`). That
  one submission at a time waits under a key (`OneForm`) makes the answer to the last
  that to all of them. Each of these holds of lines outside `retold` only.
  The five parts of `MCStorefront` are shown to be behaviours of their components
  (`StorefrontIsItsParts`).

Only model-checked is liveness (`EveryHoldResolves`, `SignupsEvaporate`,
`WalksEnd`), which with fairness and `ENABLED` is out of the prover's reach. Where
staff handlers overlap `StockIsConserved` is neither proved nor checked: it is false,
as the violations show.

## Not modelled

Most of the repository is the frontend's rendering: React components, forms, tables,
filters kept in the address bar, styling and wording. Those files hold no state that
two actors share, and a model of them would restate the source. What the models
cover is the protocol code, which is a small share of the lines.

* Swagger documents, e-mail texts, seeds and scripts, image conversion, deployment:
  text and I/O with no protocol of their own.
* Read-only aggregation pipelines (shop, dashboard, listings): evaluated by the
  database; they change nothing.
* Brands and attributes: single-document operations behind unique indexes.
* Prices, totals and fees of a cart or an order: computed by one request from what
  it read, and never compared with another.
* `clearOrderedLines` after an order (`order.service.js:486-490`) is a step of its own
  in `Cart`; in `Checkout`, where only the two carts' lines are followed, it is one with
  the insert (`WriteOrder`), so an order whose cart was not emptied does not occur there.
* Two calls that create a shopper's first cart at once: `withCartWrite` retries the
  loser (`cart.service.js:318`), and module `Cart` starts with the cart there.
* Orders that staff soft-deleted before their guest signed up: the claim leaves them
  alone, and module `Registration` has no deleted orders.
* An order insert that succeeded although its acknowledgement was lost: it takes two
  losses in a row, as MongoDB's driver retries the write by itself.
* Identity providers, Cloudinary, Redis and the mail server are external; a model
  mentions one only where the API reacts to its failure.
* `assertNotLastOwner` of `user.service.js`: a target must rank below the actor, so
  it is never an owner and the guard is never reached.

`PROJECT.json` gives for every component what is left out of it, and for every
hazard without a property the reason.
