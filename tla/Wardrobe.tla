------------------------------ MODULE Wardrobe ------------------------------
(***************************************************************************)
(* The cosmetics of one category (cosmetics): items with their pictures,   *)
(* a bundle of items, and what one user owns, wears and is seen in.  An    *)
(* upload locks the row of its item; a bundle is rewritten link by link    *)
(* without a transaction; and what a user wears is read again before it    *)
(* is announced.                                                           *)
(***************************************************************************)
EXTENDS Naturals, FiniteSets

CONSTANTS
  Requests, Items, Pictures, None,
  Lost,          \* an asset id without a row
  MaxHandlers    \* bound of the model: handlers that start

Slots  == {"primary", "compact"}         \* asset slots of the category
Places == {"avatar_frame", "nameplate"}  \* where a user wears an item

VARIABLES
  category,    \* [slot, required]: its place, and whether primary is required
  status,      \* item -> draft, published, archived, or None
  assets,      \* item -> asset slot -> picture, Lost or None
  preview,     \* item -> picture, Lost or None
  refs,        \* picture -> ref_count, or None
  links,       \* items of the bundle
  active,      \* items the user owns, not expired
  worn,        \* the loadout: place -> item, or None
  seen,        \* what the others were last sent of it
  request,     \* request -> [step, of, at, was], or None
  begun,
  \* history:
  twins,       \* two uploads brought the same new picture
  tightened,   \* primary became required after it was not
  offers,      \* choices of items written for the bundle
  choice,      \* the last of them
  mixed,       \* it was written while another was
  broken,      \* the writing of a choice ended early since the last one began
  sold, torn,  \* what a purchase granted; the links it met were not whole
  overlap,     \* a change of the loadout began before another was announced
  unsaid       \* an item that is worn was gained or lost since the announcement

catalog == <<category, status, assets, preview, refs, twins, tightened>>
bundle  == <<links, offers, choice, sold, torn, mixed, broken>>
closet  == <<active, worn, seen, overlap, unsaid>>
vars    == <<catalog, bundle, closet, request, begun>>

Init ==
  /\ category = [slot |-> "avatar_frame", required |-> TRUE]
  /\ status \in [Items -> {None, "draft"}] /\ \E i \in Items : status[i] # None
  /\ assets = [i \in Items |-> [s \in Slots |-> None]]
  /\ preview = [i \in Items |-> None]
  /\ refs = [p \in Pictures |-> None]
  /\ links = {} /\ offers = {{}} /\ choice = {} /\ sold = {} /\ torn = FALSE
  /\ active \in SUBSET {i \in Items : status[i] # None}
  /\ worn = [p \in Places |-> None] /\ seen = worn
  /\ request = [r \in Requests |-> None] /\ begun = 0
  /\ twins = FALSE /\ tightened = FALSE
  /\ mixed = FALSE /\ broken = FALSE /\ overlap = FALSE /\ unsaid = FALSE

Doing(r, step) == request[r] # None /\ request[r].step = step
Busy(steps) == \E r \in Requests, s \in steps : Doing(r, s)
Slot(step, of, at, was) == [step |-> step, of |-> of, at |-> at, was |-> was]
Begins(r, step, of, at, was) ==
  /\ request[r] = None /\ begun < MaxHandlers /\ begun' = begun + 1
  /\ request' = [request EXCEPT ![r] = Slot(step, of, at, was)]
Goes(r, step, of, at, was) ==
  request' = [request EXCEPT ![r] = Slot(step, of, at, was)] /\ UNCHANGED begun
Ends(r) == request' = [request EXCEPT ![r] = None] /\ UNCHANGED begun

-----------------------------------------------------------------------------
(* Items and their pictures. *)

\* What must be there before an item is published.
ValidateItem(held) == category.required => held["primary"] # None

CreateItem(r, i) ==
  /\ status[i] = None
  /\ \E s \in {"draft", "published", "archived"} :
       /\ s = "published" => ValidateItem([t \in Slots |-> None])
       /\ Begins(r, "create", i, s, None)
  /\ UNCHANGED <<catalog, bundle, closet>>

PatchItem(r, i) ==
  /\ status[i] # None
  /\ \E s \in {"draft", "published", "archived"} :
       /\ s = "published" => ValidateItem(assets[i])
       /\ Begins(r, "patch", i, s, None)
  /\ UNCHANGED <<catalog, bundle, closet>>

StatusWritten(r) ==
  /\ Doing(r, "create") \/ Doing(r, "patch")
  /\ status' = [status EXCEPT ![request[r].of] = request[r].at]
  /\ Ends(r)
  /\ UNCHANGED <<category, assets, preview, refs, twins, tightened, bundle, closet>>

\* An administrator changes the place of the category or what it requires.
PatchCategory ==
  /\ \E p \in Places, q \in BOOLEAN :
       /\ category' = [slot |-> p, required |-> q]
       /\ tightened' = (tightened \/ (q /\ ~ category.required))
  /\ begun < MaxHandlers /\ begun' = begun + 1
  /\ UNCHANGED <<status, assets, preview, refs, twins, bundle, closet, request>>

\* The transaction holds the row of the item and has looked for the picture.
UploadItemAsset(r, i, s, p) ==
  /\ status[i] # None
  /\ \A q \in Requests : Doing(q, "upload") => request[q].of # i
  /\ Begins(r, "upload", i, s, [picture |-> p, row |-> refs[p] # None])
  /\ UNCHANGED <<catalog, bundle, closet>>

\* A row that was not there when the transaction looked is inserted, or
\* counted once more under an id that was never written.
StoreAssetBytes(was) ==
  LET p == was.picture IN
  [id |-> IF ~ was.row /\ refs[p] # None THEN Lost ELSE p,
   counts |-> [refs EXCEPT ![p] = IF @ = None THEN 1 ELSE @ + 1]]

\* Mutant: the replaced picture keeps its use.
KeepsUse(counts, p) == counts

\* Down to zero; no row and no file is deleted.
ReleaseAsset(counts, p) ==
  IF p \notin Pictures THEN counts
  ELSE [counts EXCEPT ![p] = IF @ <= 1 THEN 0 ELSE @ - 1]

PreviewAfter(was, old, new, held) ==
  IF was = None \/ (was = old /\ \A t \in Slots : held[t] # old) THEN new ELSE was

AssetSaved(r) ==
  LET i == request[r].of
      s == request[r].at
      stored == StoreAssetBytes(request[r].was)
      old == assets[i][s]
      held == [assets[i] EXCEPT ![s] = stored.id] IN
  /\ Doing(r, "upload")
  /\ refs' = ReleaseAsset(stored.counts, old)
  /\ assets' = [assets EXCEPT ![i] = held]
  /\ preview' = [preview EXCEPT ![i] = PreviewAfter(@, old, stored.id, held)]
  /\ twins' = (twins \/ stored.id = Lost)
  /\ Ends(r)
  /\ UNCHANGED <<category, status, tightened, bundle, closet>>

-----------------------------------------------------------------------------
(* The bundle. *)

Editing == Busy({"edit", "fill"})

\* createBundle and patchBundle have written the row and set the items, which
\* nobody has looked for yet.
SetBundleItems(r, chosen) ==
  /\ Begins(r, "edit", chosen, None, None)
  /\ offers' = offers \cup {chosen} /\ choice' = chosen
  /\ mixed' = Editing /\ broken' = FALSE
  /\ UNCHANGED <<catalog, links, sold, torn, closet>>

LinksDeleted(r) ==
  /\ Doing(r, "edit") /\ links' = {}
  /\ Goes(r, "fill", request[r].of, None, None)
  /\ UNCHANGED <<catalog, offers, choice, sold, torn, mixed, broken, closet>>

LinkInserted(r) ==
  /\ Doing(r, "fill")
  /\ \E i \in request[r].of :
       /\ status[i] # None /\ i \notin links
       /\ links' = links \cup {i}
       /\ Goes(r, "fill", request[r].of \ {i}, None, None)
  /\ UNCHANGED <<catalog, offers, choice, sold, torn, mixed, broken, closet>>

BundleFilled(r) ==
  /\ Doing(r, "fill") /\ request[r].of = {} /\ Ends(r)
  /\ UNCHANGED <<catalog, bundle, closet>>

\* There is no such item, or it was named before, or another handler has
\* inserted the link: the links made so far stay, and the old ones are gone.
LinkFails(r) ==
  /\ Doing(r, "fill") /\ Ends(r) /\ broken' = TRUE
  /\ UNCHANGED <<catalog, links, offers, choice, sold, torn, mixed, closet>>

OwnedAll == links # {} /\ links \subseteq active

Unsaid(items) == unsaid' = (unsaid \/ \E p \in Places : worn[p] \in items)
Gains(items) == active' = active \cup items /\ Unsaid(items \ active)

\* The items of a bundle are sold whatever their own status.
AcquireBundle(r) ==
  /\ links # {} /\ ~ OwnedAll
  /\ Begins(r, "buy", links, None, Editing \/ mixed \/ broken)
  /\ UNCHANGED <<catalog, bundle, closet>>

Granted(r) ==
  /\ Doing(r, "buy") /\ Ends(r)
  /\ Gains(request[r].of)
  /\ sold' = request[r].of /\ torn' = request[r].was
  /\ UNCHANGED <<catalog, links, offers, choice, mixed, broken, worn, seen, overlap>>

-----------------------------------------------------------------------------
(* What the user owns and wears. *)

\* The items listed for sale.
ListShop == {i \in Items : status[i] = "published"}

Owns(i) ==
  /\ Gains({i})
  /\ UNCHANGED <<catalog, bundle, worn, seen, overlap, request, begun>>

AcquireItem(i) == i \in ListShop \ active /\ Owns(i)
AdminGrant(i)  == status[i] # None /\ i \notin active /\ Owns(i)

\* Nobody is told.
Expires(i) ==
  /\ i \in active /\ active' = active \ {i} /\ Unsaid({i})
  /\ UNCHANGED <<catalog, bundle, worn, seen, overlap, request, begun>>

ResolveEquipped == [p \in Places |-> IF worn[p] \in active THEN worn[p] ELSE None]

Telling == {"wear", "wrote", "built"}

UserOwnsItem(i) == i \in active

EquipSlot(r, i) ==
  /\ UserOwnsItem(i) /\ status[i] # None
  /\ overlap' = Busy(Telling)
  /\ Begins(r, "wear", i, category.slot, None)
  /\ UNCHANGED <<catalog, bundle, active, worn, seen, unsaid>>

UnequipSlot(r, p) ==
  /\ overlap' = Busy(Telling)
  /\ Begins(r, "wear", None, p, None)
  /\ UNCHANGED <<catalog, bundle, active, worn, seen, unsaid>>

LoadoutWritten(r) ==
  /\ Doing(r, "wear")
  /\ worn' = [worn EXCEPT ![request[r].at] = request[r].of]
  /\ Goes(r, "wrote", None, None, None)
  /\ UNCHANGED <<catalog, bundle, active, seen, overlap, unsaid>>

BuildLoadoutPayload(r) ==
  /\ Doing(r, "wrote")
  /\ Goes(r, "built", ResolveEquipped, None, None)
  /\ unsaid' = FALSE
  /\ UNCHANGED <<catalog, bundle, active, worn, seen, overlap>>

PublishLoadout(r) ==
  /\ Doing(r, "built") /\ Ends(r)
  /\ seen' = request[r].of
  /\ UNCHANGED <<catalog, bundle, active, worn, overlap, unsaid>>

Next ==
  \/ PatchCategory
  \/ \E i \in Items : AcquireItem(i) \/ AdminGrant(i) \/ Expires(i)
  \/ \E r \in Requests :
       \/ \E i \in Items :
            \/ CreateItem(r, i) \/ PatchItem(r, i) \/ EquipSlot(r, i)
            \/ \E s \in Slots, p \in Pictures : UploadItemAsset(r, i, s, p)
       \/ StatusWritten(r) \/ AssetSaved(r)
       \/ \E chosen \in SUBSET Items : SetBundleItems(r, chosen)
       \/ LinksDeleted(r) \/ LinkInserted(r) \/ BundleFilled(r) \/ LinkFails(r)
       \/ AcquireBundle(r) \/ Granted(r)
       \/ \E p \in Places : UnequipSlot(r, p)
       \/ LoadoutWritten(r) \/ BuildLoadoutPayload(r) \/ PublishLoadout(r)

Spec == Init /\ [][Next]_vars

-----------------------------------------------------------------------------
Uses(p) == Cardinality({u \in Items \X Slots : assets[u[1]][u[2]] = p})

(* A picture in use has a row that counts its uses, exactly unless two     *)
(* uploads brought it at once; a preview is one of the item's pictures;    *)
(* what is for sale has the picture its category requires; unless choices  *)
(* were written for it at once, a bundle holds nothing but the last one,   *)
(* and all of it when its writing did not fail; a purchase grants a choice *)
(* as a whole, unless it met a bundle that was being written or was not    *)
(* whole; and the others see what is worn, unless two changes overlapped   *)
(* or an item ran out.                                                     *)
CosmeticsAreTrue ==
  /\ \A p \in Pictures :
       IF refs[p] = None THEN Uses(p) = 0
       ELSE refs[p] >= Uses(p) /\ (twins \/ refs[p] = Uses(p))
  /\ \A i \in Items : preview[i] # None => \E s \in Slots : assets[i][s] = preview[i]
  /\ ~ tightened => \A i \in ListShop : ValidateItem(assets[i])
  /\ Editing \/ mixed \/ (links \subseteq choice /\ (broken \/ links = choice))
  /\ torn \/ sold \in offers
  /\ Busy(Telling) \/ overlap \/ unsaid \/ seen = ResolveEquipped
=============================================================================
