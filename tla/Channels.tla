------------------------------ MODULE Channels ------------------------------
(***************************************************************************)
(* One channel of a guild, the category it may belong to, and what one     *)
(* viewer is shown of it (guildapi): creation, update, reordering,         *)
(* deletion, the overwrite that hides it from him, the password that locks *)
(* it and his unlocking; and the undoing of these changes (auditundo).  A  *)
(* handler reads and validates, writes, and publishes what it wrote.  No   *)
(* row refers to another by a foreign key.                                 *)
(***************************************************************************)
EXTENDS Naturals, FiniteSets

CONSTANTS
  Requests,
  MaxPasswords,   \* bound of the model: passwords the channel may be given
  None

VARIABLES
  category,     \* the category exists
  row,          \* [parent] of the channel ("" or "category"), or None
  hidden,       \* the overwrite denies the viewer VIEW_CHANNEL
  password,     \* number of the password, 0: none
  unlocked,     \* password by which the viewer unlocked the channel, 0: not
  entry,        \* what the last entry of the audit log is about that can be
                \* undone: "update", "overwrite", "removal", or None
  request,      \* request -> [step, parent, seen, key], or None
  refetch,      \* the client is about to read its channels again
  shown,        \* what the client shows of the channel: its parent, or None
  untrue,       \* history: the channel was published otherwise than it was or
                \* to a viewer it is hidden from, or a deletion overlooked it
  dangling,     \* history: the category went while the channel was moved, or
                \* brought back, into it
  relocked      \* history: the password changed between check and unlocking

vars == <<category, row, hidden, password, unlocked, entry, request, refetch, shown,
          untrue, dangling, relocked>>

Init ==
  /\ category = TRUE /\ row = None /\ hidden = FALSE
  /\ password = 0 /\ unlocked = 0 /\ entry = None
  /\ request = [r \in Requests |-> None]
  /\ refetch = FALSE /\ shown = None
  /\ untrue = FALSE /\ dangling = FALSE /\ relocked = FALSE

Doing(r, step) == request[r] # None /\ request[r].step = step
Slot(step, p, seen, key) == [step |-> step, parent |-> p, seen |-> seen, key |-> key]
Begins(r, step, p, seen) ==
  request[r] = None /\ request' = [request EXCEPT ![r] = Slot(step, p, seen, 0)]
Goes(r, step) == request' = [request EXCEPT ![r].step = step]
Ends(r)       == request' = [request EXCEPT ![r] = None]

Visible == row # None /\ ~ hidden
Truth   == IF Visible THEN row ELSE None

Unshown  == UNCHANGED <<refetch, shown, untrue>>
Unlocked == UNCHANGED <<password, unlocked, relocked>>

\* A row that is published to those who may see it now, to those of a list
\* made before, or not at all to this viewer.
Publishes(view) == shown' = view /\ untrue' = (view # Truth)

-----------------------------------------------------------------------------
(* The row and its place. *)

Parents == IF category THEN {"", "category"} ELSE {""}

CreateChannel(r) ==
  /\ row = None /\ shown = None /\ \A q \in Requests : request[q] = None
  /\ \E p \in Parents : Begins(r, "create", p, FALSE)
  /\ UNCHANGED <<category, row, hidden, entry, dangling>> /\ Unlocked /\ Unshown

CreateWrites(r) ==
  /\ Doing(r, "create") /\ row' = request[r].parent
  /\ hidden' \in BOOLEAN
  /\ dangling' = (request[r].parent = "category" /\ ~ category)
  /\ Goes(r, "publish")
  /\ UNCHANGED <<category, entry>> /\ Unlocked /\ Unshown

\* Update and reorder alike: the parent is validated, then written by id.
UpdateChannel(r) ==
  /\ row # None
  /\ \E p \in Parents : Begins(r, "update", p, FALSE)
  /\ UNCHANGED <<category, row, hidden, entry, dangling>> /\ Unlocked /\ Unshown

UpdateWrites(r) ==
  /\ Doing(r, "update")
  /\ IF row = None THEN UNCHANGED <<row, dangling>>
     ELSE /\ row' = request[r].parent
          /\ dangling' = (request[r].parent = "category" /\ ~ category)
  /\ entry' = "update" /\ Goes(r, "publish")
  /\ UNCHANGED <<category, hidden>> /\ Unlocked /\ Unshown

\* CHANNEL_CREATE and CHANNEL_UPDATE reach who may see the channel by now.
PublishChannel(r) ==
  /\ Doing(r, "publish") /\ Ends(r)
  /\ IF Visible THEN Publishes(request[r].parent) ELSE UNCHANGED <<shown, untrue>>
  /\ UNCHANGED <<category, row, hidden, entry, refetch, dangling>> /\ Unlocked

\* Reads who sees the channel; they are told once it is gone.
DeleteChannel(r) ==
  /\ row # None /\ Begins(r, "delete", "", Visible)
  /\ UNCHANGED <<category, row, hidden, entry, dangling>> /\ Unlocked /\ Unshown

DeleteWrites(r) ==
  /\ Doing(r, "delete") /\ row' = None
  /\ untrue' = (untrue \/ (shown # None /\ ~ request[r].seen))
  /\ unlocked' = 0 /\ Goes(r, "deleted")
  /\ UNCHANGED <<category, hidden, password, entry, refetch, shown, dangling, relocked>>

PublishDelete(r) ==
  /\ Doing(r, "deleted") /\ Ends(r)
  /\ IF request[r].seen THEN Publishes(None) ELSE UNCHANGED <<shown, untrue>>
  /\ UNCHANGED <<category, row, hidden, entry, refetch, dangling>> /\ Unlocked

\* The channels of a category rise; those listed before are published.
DeleteCategory(r) ==
  /\ category /\ Begins(r, "category", "", row = "category")
  /\ UNCHANGED <<category, row, hidden, entry, dangling>> /\ Unlocked /\ Unshown

Risen(p) == IF p = "category" THEN "" ELSE p

CategoryWrites(r) ==
  /\ Doing(r, "category") /\ category' = FALSE
  /\ row' = IF row = None THEN None ELSE Risen(row)
  /\ untrue' = (untrue \/ (row = "category" /\ ~ request[r].seen))
  /\ IF request[r].seen THEN Goes(r, "publish") ELSE Ends(r)
  /\ UNCHANGED <<hidden, entry, refetch, shown, dangling>> /\ Unlocked

-----------------------------------------------------------------------------
(* Visibility. *)

\* viewersBefore, the write, PERMISSIONS_UPDATE, viewersAfter.
ChangeOverwrite(r) ==
  /\ row # None /\ Begins(r, "overwrite", row, Visible)
  /\ UNCHANGED <<category, row, hidden, entry, dangling>> /\ Unlocked /\ Unshown

Overwritten(r, kind) ==
  /\ Doing(r, "overwrite") /\ hidden' \in BOOLEAN /\ entry' = kind
  /\ refetch' = TRUE /\ Goes(r, "viewers")
  /\ UNCHANGED <<category, row, shown, untrue, dangling>> /\ Unlocked

ApplyOverwrite(r) == Overwritten(r, "overwrite")

\* What the viewer may do without it, and that it was there, is not kept.
RemoveOverwrite(r) == Overwritten(r, "removal")

ViewersAfter(r) ==
  /\ Doing(r, "viewers")
  /\ IF Visible = request[r].seen THEN Ends(r)
     ELSE Goes(r, IF Visible THEN "gained" ELSE "lost")
  /\ UNCHANGED <<category, row, hidden, entry, dangling>> /\ Unlocked /\ Unshown

PublishOverwriteEvents(r) ==
  /\ \/ Doing(r, "gained") /\ Publishes(request[r].parent)
     \/ Doing(r, "lost") /\ Publishes(None)
  /\ Ends(r)
  /\ UNCHANGED <<category, row, hidden, entry, refetch, dangling>> /\ Unlocked

Refetch ==
  /\ refetch /\ refetch' = FALSE
  /\ shown' = Truth /\ untrue' = FALSE
  /\ UNCHANGED <<category, row, hidden, entry, request, dangling>> /\ Unlocked

-----------------------------------------------------------------------------
(* The lock. *)

\* Mutant: a new password leaves the unlocking by the old one.
KeepUnlocks == unlocked

RevokeChannelUnlocks == 0

\* Set, changed or taken off, and the unlocking of everybody with it.
ChangePassword(r) ==
  /\ row # None /\ Begins(r, "revoke", row, FALSE)
  /\ \E p \in 0 .. MaxPasswords : (p = 0 => password # 0) /\ password' = p
  /\ relocked' = (relocked \/ \E q \in Requests : Doing(q, "unlock"))
  /\ UNCHANGED <<category, row, hidden, unlocked, entry, dangling>> /\ Unshown

RevokeUnlocks(r) ==
  /\ Doing(r, "revoke") /\ unlocked' = RevokeChannelUnlocks
  /\ entry' = "update" /\ Goes(r, "publish")
  /\ UNCHANGED <<category, row, hidden, password, dangling, relocked>> /\ Unshown

UnlockChannel(r) ==
  /\ Visible /\ password > 0 /\ unlocked = 0
  /\ request[r] = None
  /\ request' = [request EXCEPT ![r] = Slot("unlock", "", FALSE, password)]
  /\ UNCHANGED <<category, row, hidden, entry, dangling>> /\ Unlocked /\ Unshown

UnlockWrites(r) ==
  /\ Doing(r, "unlock") /\ unlocked' = request[r].key /\ Ends(r)
  /\ relocked' = (relocked \/ row = None)
  /\ UNCHANGED <<category, row, hidden, password, entry, dangling>> /\ Unshown

-----------------------------------------------------------------------------
(* Undoing what the audit log says.  Nothing of this computes viewers: a   *)
(* notice goes to the whole guild, those included whom the channel is      *)
(* hidden from, or none does.                                              *)

UndoChannelUpdate(r) ==
  /\ entry = "update" /\ row # None /\ request[r] = None
  /\ request' = [request EXCEPT ![r] = Slot("restore", row, FALSE, password)]
  /\ UNCHANGED <<category, row, hidden, entry, dangling>> /\ Unlocked /\ Unshown

\* The row is saved as it was read, whatever has become of it: a channel
\* that was deleted is there again, with the password of then.
SavesChannel(r) ==
  /\ Doing(r, "restore") /\ Goes(r, "notice")
  /\ row' = request[r].parent /\ password' = request[r].key
  /\ dangling' = (request[r].parent = "category" /\ ~ category)
  /\ relocked' = (relocked \/ password # request[r].key)
  /\ untrue' = (untrue \/ row # row') /\ entry' = None
  /\ UNCHANGED <<category, hidden, unlocked, refetch, shown>>

\* The overwrite is as it was before, or none; of who sees the channel by it
\* nobody is told.
UndoOverwrite(kind) ==
  /\ entry = kind /\ entry' = None /\ row # None
  /\ hidden' \in BOOLEAN /\ untrue' = (untrue \/ hidden' # hidden)
  /\ UNCHANGED <<category, row, refetch, shown, dangling>> /\ Unlocked

UndoOverwriteUpdate(r) == UndoOverwrite("overwrite") /\ Begins(r, "notice", "", FALSE)

UndoOverwriteDelete == UndoOverwrite("removal") /\ UNCHANGED request

\* A CHANNEL_UPDATE without a parent, for every member: who lists the channel
\* lists it where it was, and who does not may do so from now on.
NoticeUndone(r) ==
  /\ Doing(r, "notice") /\ Ends(r)
  /\ \/ UNCHANGED <<shown, untrue>>
     \/ shown = None /\ Publishes("")
  /\ UNCHANGED <<category, row, hidden, entry, refetch, dangling>> /\ Unlocked

Next ==
  \/ \E r \in Requests :
       \/ CreateChannel(r) \/ CreateWrites(r) \/ UpdateChannel(r) \/ UpdateWrites(r)
       \/ PublishChannel(r) \/ DeleteChannel(r) \/ DeleteWrites(r) \/ PublishDelete(r)
       \/ DeleteCategory(r) \/ CategoryWrites(r)
       \/ ChangeOverwrite(r) \/ ApplyOverwrite(r) \/ RemoveOverwrite(r) \/ ViewersAfter(r)
       \/ PublishOverwriteEvents(r)
       \/ ChangePassword(r) \/ RevokeUnlocks(r) \/ UnlockChannel(r) \/ UnlockWrites(r)
       \/ UndoChannelUpdate(r) \/ SavesChannel(r) \/ UndoOverwriteUpdate(r) \/ NoticeUndone(r)
  \/ Refetch \/ UndoOverwriteDelete

Spec == Init /\ [][Next]_vars

-----------------------------------------------------------------------------
Quiet == ~ refetch /\ \A r \in Requests : request[r] = None

(* Once handlers and clients are done, the channel is shown where and only *)
(* where it may be seen, under the parent it has; its parent exists; and   *)
(* who has unlocked it did so by the password it has.  Excepted are a row  *)
(* that had changed when it was published, a channel that moved while its  *)
(* category was deleted, an unlocking that crossed a change, and what was  *)
(* undone: a row that had changed since, who sees the channel, and the     *)
(* notice of it, which shows the channel to those it is hidden from.       *)
ChannelsAreTrue ==
  Quiet =>
    /\ untrue \/ shown = Truth
    /\ dangling \/ row # "category" \/ category
    /\ relocked \/ unlocked \in {0, password}
=============================================================================
