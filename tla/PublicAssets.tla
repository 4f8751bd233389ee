---------------------------- MODULE PublicAssets ----------------------------
(***************************************************************************)
(* Pictures that anybody may fetch: the avatar and banner of a user, the   *)
(* icon, banner and list of banners of a guild, the icon and background of *)
(* a role's badge (userapi, guildapi, customization).  An upload gets a    *)
(* file of its own, the owner's row names it, and then the file that the   *)
(* row named when the request began is removed.  Of a user and a guild     *)
(* each picture is a column; of a role both are in one text, "style",      *)
(* which is read at the beginning and written back as a whole.  A role is  *)
(* followed until it is deleted; undoRoleDelete makes another, with the    *)
(* style this one had.                                                     *)
(***************************************************************************)
EXTENDS Naturals, FiniteSets, FiniteSetsExt, Functions

CONSTANTS
  Requests, Files, None,
  Owners,        \* the owners that are looked at, of "user", "guild", "role"
  BannerLimit,
  MaxHandlers    \* bound of the model: handlers that start

Kinds == {"icon", "banner"}   \* of a role: the icon and the background

VARIABLES
  owner, there,  \* what the pictures are of; it exists
  column,        \* kind -> the file its URL names, or None
  shown,         \* what the others were last sent of it
  rows,          \* banner list: file -> position, or None
  disk, used,    \* files there are, and that there ever were
  request,       \* request -> [step, kind, file, was, list], or None
  begun,
  \* history:
  lost,          \* files whose name was overwritten unread, or went with the owner
  back,          \* files a whole style or row, or a clearing that failed, left named
  unsaid,        \* two handlers of the columns overlapped, or one did not announce
  crossed        \* the banner list was written by what was read before a change

store   == <<column, disk, lost, back>>
banners == <<rows, crossed>>
vars    == <<owner, there, store, shown, banners, used, request, begun, unsaid>>

Init ==
  /\ owner \in Owners /\ there = TRUE
  /\ column = [k \in Kinds |-> None] /\ shown = column
  /\ rows = [f \in Files |-> None] /\ disk = {} /\ used = {}
  /\ request = [r \in Requests |-> None] /\ begun = 0
  /\ lost = {} /\ back = {} /\ unsaid = FALSE /\ crossed = FALSE

Doing(r, step) == request[r] # None /\ request[r].step = step
At(step) == {r \in Requests : Doing(r, step)}
Begins(r, step, kind, file, list) ==
  /\ there /\ request[r] = None /\ begun < MaxHandlers /\ begun' = begun + 1
  /\ request' = [request EXCEPT ![r] = [step |-> step, kind |-> kind,
                   file |-> file, was |-> column, list |-> list]]
Goes(r, step) == request' = [request EXCEPT ![r].step = step] /\ UNCHANGED begun
Ends(r) == request' = [request EXCEPT ![r] = None] /\ UNCHANGED begun

Old(r) == request[r].was[request[r].kind]
BannerSteps == {"add", "place", "create", "unlist", "load", "number", "order", "collected"}
OfColumns(r) == request[r] # None /\ request[r].step \notin BannerSteps
Unsaid(r) == unsaid' = (unsaid \/ \E q \in Requests \ {r} : OfColumns(q))

-----------------------------------------------------------------------------
(* The columns.                                                            *)

Starts(r, step, k) ==
  /\ Begins(r, step, k, None, <<>>) /\ Unsaid(r)
  /\ UNCHANGED <<owner, there, store, shown, banners, used>>

UploadAvatar(r) == owner = "user" /\ Starts(r, "upload", "icon")
UploadBanner(r) == owner = "user" /\ Starts(r, "upload", "banner")
UploadGuildAsset(r) == owner = "guild" /\ \E k \in Kinds : Starts(r, "upload", k)
UploadRoleBadgeAsset(r) == owner = "role" /\ \E k \in Kinds : Starts(r, "upload", k)

DeleteAvatar(r) == owner = "user" /\ Starts(r, "write", "icon")
DeleteBanner(r) == owner = "user" /\ Starts(r, "write", "banner")
DeleteGuildAsset(r) == owner = "guild" /\ \E k \in Kinds : Starts(r, "write", k)
DeleteRoleBadgeAsset(r) ==
  owner = "role" /\ \E k \in Kinds : column[k] # None /\ Starts(r, "write", k)

(* PATCH of the profile removes the file first.  Other columns of a guild  *)
(* are changed, and the event carries the pictures as they were read.      *)
PatchProfile(r) == owner = "user" /\ \E k \in Kinds : Starts(r, "clear", k)
UpdateGuild(r) == owner = "guild" /\ Starts(r, "tell", None)

(* The undoing of a change of the guild reads its row and saves all of it. *)
UndoGuildUpdate(r) == owner = "guild" /\ Starts(r, "undo", None)

(* A style from the client, who sends the pictures he was shown or none,   *)
(* or the row saved by the change of a role, or by its undoing, with the   *)
(* style it had.                                                           *)
UpdateRoleStyle(r) == owner = "role" /\ Starts(r, "style", None)

Saved(r, step, next) ==
  /\ Doing(r, step)
  /\ \E f \in Files \ used :
       /\ used' = used \cup {f} /\ disk' = disk \cup {f}
       /\ request' = [request EXCEPT ![r].step = next, ![r].file = f]
  /\ UNCHANGED <<owner, there, column, lost, back, shown, banners, begun, unsaid>>

FileSaved(r) == Saved(r, "upload", "write")

(* The content is empty, too large or cannot be written: the file is gone  *)
(* again before the answer.                                                *)
UploadFails(r) ==
  /\ Doing(r, "upload") \/ Doing(r, "add")
  /\ Ends(r) /\ UNCHANGED <<owner, there, store, shown, banners, used, unsaid>>

(* What the row says after the handler has put "file" in.                  *)
With(r, file) ==
  IF owner = "role" THEN [request[r].was EXCEPT ![request[r].kind] = file]
                    ELSE [column EXCEPT ![request[r].kind] = file]

(* The update finds no row when the owner is gone, and that is no error.   *)
Writes(r, new) ==
  LET unread == {k \in Kinds : column[k] # new[k] /\ column[k] # request[r].was[k]}
      again  == {k \in Kinds : column[k] # new[k] /\ new[k] # request[r].file}
  IN IF there
     THEN /\ column' = new
          /\ lost' = lost \cup {column[k] : k \in unread}
          /\ back' = back \cup {new[k] : k \in again}
     ELSE lost' = lost \cup {request[r].file} /\ UNCHANGED <<column, back>>

ColumnWritten(r) ==
  /\ Doing(r, "write") /\ Writes(r, With(r, request[r].file)) /\ Goes(r, "clean")
  /\ UNCHANGED <<owner, there, disk, shown, banners, used, unsaid>>

WriteFails(r) ==
  /\ Doing(r, "write") \/ Doing(r, "create")
  /\ disk' = disk \ {request[r].file} /\ Ends(r)
  /\ UNCHANGED <<owner, there, column, lost, back, shown, banners, used, unsaid>>

\* Mutant: the file that the row names by then is removed.
SupersededNow(r) == column[request[r].kind]
Superseded(r) == Old(r)

OldRemoved(r) ==
  /\ Doing(r, "clean") /\ disk' = disk \ {Superseded(r)}
  /\ Goes(r, IF owner = "user" THEN "read" ELSE "tell")
  /\ UNCHANGED <<owner, there, column, lost, back, shown, banners, used, unsaid>>

(* A user is read again for the event; a guild and a role are sent as they *)
(* were read, with the new picture.                                        *)
ReadAgain(r) ==
  /\ Doing(r, "read")
  /\ request' = [request EXCEPT ![r].step = "tell", ![r].was = column]
  /\ UNCHANGED <<owner, there, store, shown, banners, used, begun, unsaid>>
ReadFails(r) ==
  /\ Doing(r, "read") /\ Ends(r) /\ unsaid' = TRUE
  /\ UNCHANGED <<owner, there, store, shown, banners, used>>

Published(r) ==
  /\ Doing(r, "tell")
  /\ shown' = IF owner = "user" \/ request[r].kind = None THEN request[r].was
              ELSE [request[r].was EXCEPT ![request[r].kind] = request[r].file]
  /\ Ends(r) /\ UNCHANGED <<owner, there, store, banners, used, unsaid>>

ProfileFileRemoved(r) ==
  /\ Doing(r, "clear") /\ disk' = disk \ {Old(r)} /\ Goes(r, "cleared")
  /\ UNCHANGED <<owner, there, column, lost, back, shown, banners, used, unsaid>>
ProfileCleared(r) ==
  /\ Doing(r, "cleared") /\ Writes(r, With(r, None)) /\ Goes(r, "read")
  /\ UNCHANGED <<owner, there, disk, shown, banners, used, unsaid>>
ProfileFails(r) ==
  /\ Doing(r, "cleared") /\ back' = back \cup {Old(r)} /\ Ends(r)
  /\ UNCHANGED <<owner, there, column, disk, lost, shown, banners, used, unsaid>>

Overwrites(new) ==
  /\ column' = new
  /\ lost' = lost \cup ({column[k] : k \in Kinds} \ ({new[k] : k \in Kinds} \cup {None}))
  /\ back' = back \cup {new[k] : k \in {j \in Kinds : column[j] # new[j]}}

StyleWritten(r) ==
  /\ Doing(r, "style")
  /\ \E new \in {shown, request[r].was, [k \in Kinds |-> None]} :
       /\ Overwrites(new)
       /\ request' = [request EXCEPT ![r].step = "tell", ![r].was = new]
  /\ UNCHANGED <<owner, there, disk, shown, banners, used, begun, unsaid>>

(* The row as it was read, with its pictures; a guild deleted meanwhile is *)
(* inserted again.  The event carries the name and the description only.   *)
GuildSaved(r) ==
  /\ Doing(r, "undo") /\ Overwrites(request[r].was) /\ Ends(r)
  /\ there' = TRUE /\ unsaid' = (unsaid \/ ~ there)
  /\ UNCHANGED <<owner, disk, shown, banners, used>>

-----------------------------------------------------------------------------
(* The banner list of a guild.                                             *)

Listed(list) == {f \in Files : list[f] # None}
Next1(list) == Max({list[f] + 1 : f \in Listed(list)} \cup {0})
Ordered(list, order) ==   \* positions by an order that respects those in the list
  \A f, g \in Listed(list) : list[f] < list[g] => order[f] < order[g]
Orders(list) ==
  {o \in [Listed(list) -> 0..(Cardinality(Listed(list)) - 1)] : IsInjective(o)}
Placed(order) ==          \* rows deleted meanwhile stay so
  rows' = [f \in Files |-> IF rows[f] # None /\ f \in DOMAIN order THEN order[f] ELSE rows[f]]
Crosses(r) == crossed' = (crossed \/ rows # request[r].list)

HasRoom == Cardinality(Listed(rows)) < BannerLimit

AddGuildBanner(r) ==
  /\ owner = "guild" /\ HasRoom /\ Begins(r, "add", None, None, rows)
  /\ UNCHANGED <<owner, there, store, shown, banners, used, unsaid>>
BannerSaved(r) == Saved(r, "add", "place")
PositionRead(r) ==
  /\ Doing(r, "place")
  /\ request' = [request EXCEPT ![r].step = "create", ![r].list = rows]
  /\ UNCHANGED <<owner, there, store, shown, banners, used, begun, unsaid>>
BannerCreated(r) ==
  /\ Doing(r, "create") /\ Crosses(r)
  /\ rows' = [rows EXCEPT ![request[r].file] = Next1(request[r].list)] /\ Ends(r)
  /\ UNCHANGED <<owner, there, store, shown, used, unsaid>>

RemoveGuildBanner(r) ==
  /\ owner = "guild" /\ \E f \in Listed(rows) : Begins(r, "unlist", None, f, rows)
  /\ UNCHANGED <<owner, there, store, shown, banners, used, unsaid>>
BannerDeleted(r) ==
  /\ Doing(r, "unlist") /\ rows' = [rows EXCEPT ![request[r].file] = None]
  /\ disk' = disk \ {request[r].file} /\ Goes(r, "load")
  /\ UNCHANGED <<owner, there, column, lost, back, shown, used, unsaid, crossed>>
RowsLoaded(r) ==
  /\ Doing(r, "load")
  /\ request' = [request EXCEPT ![r].step = "number", ![r].list = rows]
  /\ UNCHANGED <<owner, there, store, shown, banners, used, begun, unsaid>>
Renumbered(r) ==
  /\ Doing(r, "number") /\ Crosses(r) /\ Ends(r)
  /\ \E o \in Orders(request[r].list) : Ordered(request[r].list, o) /\ Placed(o)
  /\ UNCHANGED <<owner, there, store, shown, used, unsaid>>

(* The ids must be those of the list, each once.                           *)
ReorderGuildBanners(r) ==
  /\ owner = "guild" /\ Listed(rows) # {} /\ Begins(r, "order", None, None, rows)
  /\ UNCHANGED <<owner, there, store, shown, banners, used, unsaid>>
OrderWritten(r) ==
  /\ Doing(r, "order") /\ Crosses(r) /\ Ends(r)
  /\ \E o \in Orders(request[r].list) : Placed(o)
  /\ UNCHANGED <<owner, there, store, shown, used, unsaid>>

(* The files of the banners are removed when the guild is gone; those of   *)
(* the columns stay.                                                       *)
DeleteGuild(r) ==
  /\ owner = "guild" /\ Begins(r, "collected", None, None, rows)
  /\ UNCHANGED <<owner, there, store, shown, banners, used, unsaid>>
GuildDeleted(r) ==
  /\ Doing(r, "collected") /\ there' = FALSE /\ Goes(r, "files")
  /\ lost' = lost \cup ({column[k] : k \in Kinds})
                  \cup (Listed(rows) \ Listed(request[r].list))
  /\ column' = [k \in Kinds |-> None] /\ rows' = [f \in Files |-> None]
  /\ UNCHANGED <<owner, disk, back, shown, crossed, used, unsaid>>
BannerFilesRemoved(r) ==
  /\ Doing(r, "files") /\ disk' = disk \ Listed(request[r].list) /\ Ends(r)
  /\ UNCHANGED <<owner, there, column, lost, back, shown, banners, used, unsaid>>

-----------------------------------------------------------------------------
Next ==
  \E r \in Requests :
    \/ UploadAvatar(r) \/ UploadBanner(r) \/ UploadGuildAsset(r)
    \/ UploadRoleBadgeAsset(r) \/ DeleteAvatar(r) \/ DeleteBanner(r)
    \/ DeleteGuildAsset(r) \/ DeleteRoleBadgeAsset(r)
    \/ PatchProfile(r) \/ UpdateGuild(r) \/ UndoGuildUpdate(r) \/ UpdateRoleStyle(r)
    \/ FileSaved(r) \/ UploadFails(r)
    \/ ColumnWritten(r) \/ WriteFails(r) \/ OldRemoved(r)
    \/ ReadAgain(r) \/ ReadFails(r) \/ Published(r)
    \/ ProfileFileRemoved(r) \/ ProfileCleared(r) \/ ProfileFails(r)
    \/ StyleWritten(r) \/ GuildSaved(r)
    \/ AddGuildBanner(r) \/ BannerSaved(r) \/ PositionRead(r) \/ BannerCreated(r)
    \/ RemoveGuildBanner(r) \/ BannerDeleted(r) \/ RowsLoaded(r) \/ Renumbered(r)
    \/ ReorderGuildBanners(r) \/ OrderWritten(r)
    \/ DeleteGuild(r) \/ GuildDeleted(r) \/ BannerFilesRemoved(r)

Spec == Init /\ [][Next]_vars

-----------------------------------------------------------------------------
Named == {column[k] : k \in Kinds} \cup Listed(rows)

(* A URL that anybody is given leads to a file, however uploads, removals  *)
(* and changes of the same pictures interleave.  Excepted are a clearing   *)
(* under way or failed, and a picture that was written back with a whole   *)
(* style, or with the whole row of a guild, after another took its place.  *)
Fetchable ==
  Named \subseteq {None} \cup disk \cup back \cup {Old(r) : r \in At("cleared")}

(* A file without a name is about to be removed, or its name was           *)
(* overwritten by a handler that had not read it, or went with the owner.  *)
NothingLeft ==
  disk \subseteq Named \cup lost
    \cup {request[r].file : r \in At("write") \cup At("place") \cup At("create")}
    \cup {Old(r) : r \in At("clean") \cup At("clear")}
    \cup UNION {Listed(request[r].list) : r \in At("files")}

(* Unless two handlers overlapped, the others have been sent the pictures  *)
(* there are.                                                              *)
Announced ==
  there /\ ~ unsaid /\ (\A r \in Requests : ~ OfColumns(r)) => shown = column

(* The banners are numbered without gap when no removal is under way,      *)
(* unless the list changed between a look and its writing; and handlers    *)
(* that look at once exceed the limit by no more than their number.        *)
ListHolds ==
  /\ Cardinality(Listed(rows)) < BannerLimit + Cardinality(Requests)
  /\ ~ crossed /\ At("load") \cup At("number") = {} =>
       {rows[f] : f \in Listed(rows)} = 0..(Cardinality(Listed(rows)) - 1)

AssetsAreTrue == Fetchable /\ NothingLeft /\ Announced /\ ListHolds
=============================================================================
