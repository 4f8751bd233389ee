---------------------------- MODULE StickerAssets ----------------------------
(***************************************************************************)
(* The items of a sticker pack, its cover and the pictures they share      *)
(* (sticker).  A picture is kept once, by its hash, and counts its users;  *)
(* the count is locked for each change, but which item or cover gives a    *)
(* picture up was read before.                                             *)
(***************************************************************************)
EXTENDS Naturals, FiniteSets

CONSTANTS
  Requests, None,
  Items,       \* ids that may be given out
  Pictures,    \* contents
  MaxItems,    \* of a pack
  MaxRefs      \* bound of the model: uses of a picture

VARIABLES
  item,        \* item -> [asset, purged], or None
  cover,       \* cover_asset_id
  gone,        \* the pack is purged
  refs,        \* picture -> ref_count
  request,     \* request -> [step, of, was], or None
  crossed,     \* history: what was given up had changed hands since it was read
  again        \* history: the cover was replaced by the same picture

vars == <<item, cover, gone, refs, request, crossed, again>>

Init ==
  /\ item = [i \in Items |-> None]
  /\ cover = None /\ gone = FALSE
  /\ refs = [p \in Pictures |-> 0]
  /\ request = [r \in Requests |-> None]
  /\ crossed = FALSE /\ again = FALSE

Active == {i \in Items : item[i] # None /\ ~ item[i].purged}

Doing(r, step) == request[r] # None /\ request[r].step = step

\* A handler that has read the cover, and means the picture or the item of.
Begins(r, step, of) ==
  /\ request[r] = None
  /\ request' = [request EXCEPT ![r] = [step |-> step, of |-> of, was |-> cover]]
  /\ UNCHANGED <<item, cover, gone, refs, crossed, again>>

Done(r) == request' = [request EXCEPT ![r] = None]

EnsureAsset(p) == [refs EXCEPT ![p] = @ + 1]

\* Mutant: the last user keeps it.
KeepsLast(counts, p) == [counts EXCEPT ![p] = IF @ <= 1 THEN @ ELSE @ - 1]

\* Down to zero at most; nothing deletes a picture.
Less(counts, p) == [counts EXCEPT ![p] = IF @ <= 1 THEN 0 ELSE @ - 1]

ReleaseAsset(counts, p) == IF p = None THEN counts ELSE Less(counts, p)

-----------------------------------------------------------------------------
(* Items. *)

HasRoom == ~ gone /\ Cardinality(Active) < MaxItems

UploadItem(r, p) == HasRoom /\ refs[p] < MaxRefs /\ Begins(r, "add", p)

CopyItem(r, i) ==
  HasRoom /\ i \in Active /\ refs[item[i].asset] < MaxRefs /\ Begins(r, "add", item[i].asset)

\* The picture and the item in one transaction.
AddsItem(r, i) ==
  /\ Doing(r, "add") /\ item[i] = None /\ Done(r)
  /\ item' = [item EXCEPT ![i] = [asset |-> request[r].of, purged |-> FALSE]]
  /\ refs' = EnsureAsset(request[r].of)
  /\ UNCHANGED <<cover, gone, crossed, again>>

DeleteItem(r, i) == ~ gone /\ i \in Active /\ Begins(r, "drop", i)

AdminPurgeItem(r, i) == i \in Active /\ Begins(r, "drop", i)

\* By id, whether it is still active or not.
DropsItem(r) ==
  /\ Doing(r, "drop") /\ Done(r)
  /\ LET i == request[r].of IN
       /\ item' = [item EXCEPT ![i].purged = TRUE]
       /\ refs' = ReleaseAsset(refs, item[i].asset)
       /\ crossed' = (crossed \/ i \notin Active)
  /\ UNCHANGED <<cover, gone, again>>

-----------------------------------------------------------------------------
(* The cover, and the pack. *)

UploadPackCover(r, p) == ~ gone /\ refs[p] < MaxRefs /\ Begins(r, "cover", p)

\* The old one is given up unless it is the same.
CoverWrites(r) ==
  /\ Doing(r, "cover") /\ Done(r)
  /\ LET new == request[r].of
         old == request[r].was IN
       /\ cover' = new
       /\ refs' = IF old = new THEN EnsureAsset(new) ELSE ReleaseAsset(EnsureAsset(new), old)
       /\ again' = (again \/ old = new)
       /\ crossed' = (crossed \/ cover # old)
  /\ UNCHANGED <<item, gone>>

DeletePackCover(r) == ~ gone /\ cover # None /\ Begins(r, "clear", None)

\* An item is chosen for the cover, or none.
PatchPack(r) == ~ gone /\ Begins(r, "clear", None)

ClearsCover(r) ==
  /\ Doing(r, "clear") /\ Done(r)
  /\ cover' = None
  /\ refs' = ReleaseAsset(refs, request[r].was)
  /\ crossed' = (crossed \/ cover # request[r].was)
  /\ UNCHANGED <<item, gone, again>>

AdminPurgePack(r) == ~ gone /\ Begins(r, "purge", None)

\* The items as they are in the transaction, the cover as it was read.
PurgesPack(r) ==
  /\ Doing(r, "purge") /\ Done(r)
  /\ LET Left(p) == LET n == Cardinality({i \in Active : item[i].asset = p}) IN
                    IF refs[p] <= n THEN 0 ELSE refs[p] - n IN
       refs' = ReleaseAsset([p \in Pictures |-> Left(p)], request[r].was)
  /\ item' = [i \in Items |-> IF i \in Active THEN [item[i] EXCEPT !.purged = TRUE] ELSE item[i]]
  /\ cover' = None /\ gone' = TRUE
  /\ crossed' = (crossed \/ cover # request[r].was)
  /\ UNCHANGED again

Next ==
  \E r \in Requests :
    \/ \E p \in Pictures : UploadItem(r, p) \/ UploadPackCover(r, p)
    \/ \E i \in Items :
         CopyItem(r, i) \/ AddsItem(r, i) \/ DeleteItem(r, i) \/ AdminPurgeItem(r, i)
    \/ DropsItem(r) \/ CoverWrites(r) \/ DeletePackCover(r) \/ PatchPack(r)
    \/ ClearsCover(r) \/ AdminPurgePack(r) \/ PurgesPack(r)

Spec == Init /\ [][Next]_vars

-----------------------------------------------------------------------------
Uses(p) == Cardinality({i \in Active : item[i].asset = p}) + (IF cover = p THEN 1 ELSE 0)

(* The count of a picture is never below the items and covers that use it, *)
(* and is exact unless a cover was replaced by itself; two handlers that   *)
(* give up the same item or cover are excepted.  Handlers that counted the *)
(* items before can exceed the limit of a pack by one each, and no more.   *)
AssetsCounted ==
  /\ crossed \/ \A p \in Pictures : refs[p] >= Uses(p) /\ (again \/ refs[p] = Uses(p))
  /\ Cardinality(Active) <= MaxItems + Cardinality(Requests) - 1
=============================================================================
