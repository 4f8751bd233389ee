---------------------------- MODULE StickerPacks ----------------------------
(***************************************************************************)
(* One sticker pack and the libraries it is installed in (sticker).  Its   *)
(* author creates it, withdraws and restores it, administrators ban, unban *)
(* and purge it, a guild bans it for itself, users of the guild install it *)
(* and send its items.  A handler reads the row of the pack, decides, and  *)
(* writes it by id in a transaction: what it decided by may have changed.  *)
(***************************************************************************)
EXTENDS Naturals, FiniteSets

CONSTANTS
  Requests, None,
  Author,      \* owner_user_id
  Users,       \* the others
  MaxPacks     \* of an author

VARIABLES
  pack,        \* [status, soft]: soft_deleted_at is set; "none" before it is created
  scope,       \* "account", or "guild": only there
  others,      \* how many packs its author has beside it
  over,        \* the deadline to restore it has passed
  browse,      \* allow_browse_full
  guildBan,    \* the guild of the users has banned it
  library,     \* user -> status of the pack in his library, or None
  request,     \* request -> [step, user, seen, over], or None
  withdrawn,   \* history: its author has deleted it and not restored it
  crossed,     \* history: a handler wrote over what it had not seen
  late         \* history: users who installed it when it was withdrawn

vars == <<pack, scope, others, over, browse, guildBan, library, request, withdrawn, crossed, late>>

Init ==
  /\ pack = [status |-> "none", soft |-> FALSE]
  /\ scope \in {"account", "guild"} /\ others = 0
  /\ over = FALSE /\ browse = TRUE /\ guildBan = FALSE
  /\ library = [u \in Users |-> None]
  /\ request = [r \in Requests |-> None]
  /\ withdrawn = FALSE /\ crossed = FALSE /\ late = {}

\* A handler of u that has read the pack, and goes on to step.
Begins(r, step, u) ==
  /\ request[r] = None
  /\ request' = [request EXCEPT ![r] =
                   [step |-> step, user |-> u, seen |-> pack, over |-> over]]
  /\ UNCHANGED <<pack, scope, others, over, browse, guildBan, library, withdrawn, crossed, late>>

\* The handler writes the status.
Ends(r, step, status, soft) ==
  /\ request[r] # None /\ request[r].step = step
  /\ request' = [request EXCEPT ![r] = None]
  /\ pack' = [status |-> status, soft |-> soft]
  /\ crossed' = (crossed \/ pack # request[r].seen)
  /\ UNCHANGED <<scope, others, browse, guildBan, late>>

Become(from, to) == library' = [u \in Users |-> IF library[u] = from THEN to ELSE library[u]]

-----------------------------------------------------------------------------
(* The author. *)

\* Those he has deleted count, those that are purged do not.
Owned == others + (IF pack.status \in {"none", "purged"} THEN 0 ELSE 1)

CreatePack(r) == Owned < MaxPacks /\ Begins(r, "create", Author)

\* This one, if it is the first, or another of his.
CreateWrites(r) ==
  /\ request[r] # None /\ request[r].step = "create"
  /\ request' = [request EXCEPT ![r] = None]
  /\ IF pack.status = "none"
     THEN pack' = [pack EXCEPT !.status = "active"] /\ UNCHANGED others
     ELSE others' = others + 1 /\ UNCHANGED pack
  /\ UNCHANGED <<scope, over, browse, guildBan, library, withdrawn, crossed, late>>

PatchPack ==
  /\ pack.status = "active" /\ browse' = ~ browse
  /\ UNCHANGED <<pack, scope, others, over, guildBan, library, request, withdrawn, crossed, late>>

SoftDeletePack(r) == pack.status = "active" /\ Begins(r, "soft", Author)

SoftDeleteWrites(r) ==
  /\ Ends(r, "soft", "soft", TRUE) /\ Become("active", "hidden")
  /\ over' = FALSE /\ withdrawn' = TRUE

DeadlinePasses ==
  /\ pack.soft /\ ~ over /\ over' = TRUE
  /\ UNCHANGED <<pack, scope, others, browse, guildBan, library, request, withdrawn, crossed, late>>

\* Whoever reads the pack after its deadline writes it down.
RefreshSoftDeleteStatus ==
  /\ pack.status = "soft" /\ over
  /\ pack' = [pack EXCEPT !.status = "expired"]
  /\ UNCHANGED <<scope, others, over, browse, guildBan, library, request, withdrawn, crossed, late>>

RestorePack(r) == pack.status = "soft" /\ ~ over /\ Begins(r, "restore", Author)

Unhide == Become("hidden", "active")

RestoreWrites(r) ==
  /\ Ends(r, "restore", "active", FALSE) /\ Unhide
  /\ over' = FALSE /\ withdrawn' = FALSE

-----------------------------------------------------------------------------
(* Administrators, and managers of the guild. *)

AdminGlobalBan(r) == pack.status \notin {"none", "purged"} /\ Begins(r, "ban", None)

BanWrites(r) ==
  /\ Ends(r, "ban", "banned", pack.soft)
  /\ library' = [u \in Users |-> IF library[u] = None THEN None ELSE "hidden"]
  /\ UNCHANGED <<over, withdrawn>>

AdminGlobalUnban(r) == pack.status = "banned" /\ Begins(r, "unban", None)

\* Back to what its author has made of it, as it was read.
StatusAfter(seen, wasOver) ==
  IF ~ seen.soft THEN "active" ELSE IF wasOver THEN "expired" ELSE "soft"

UnbanWrites(r) ==
  /\ request[r] # None
  /\ LET next == StatusAfter(request[r].seen, request[r].over) IN
       /\ Ends(r, "unban", next, pack.soft)
       /\ IF next = "active" THEN Unhide ELSE UNCHANGED library
  /\ UNCHANGED <<over, withdrawn>>

AdminPurgePack(r) == pack.status \notin {"none", "purged"} /\ Begins(r, "purge", None)

PurgeWrites(r) ==
  /\ Ends(r, "purge", "purged", pack.soft)
  /\ library' = [u \in Users |-> None]
  /\ UNCHANGED <<over, withdrawn>>

BanGuildPack ==
  /\ pack.status # "none" /\ guildBan' = ~ guildBan
  /\ UNCHANGED <<pack, scope, others, over, browse, library, request, withdrawn, crossed, late>>

-----------------------------------------------------------------------------
(* Users. *)

\* Where a user is: in the guild, in another one, or in no guild.
Contexts == {"guild", "elsewhere", "nowhere"}

GuildBanned(ctx) == ctx = "guild" /\ guildBan

ScopeAllowsContext(ctx) == scope = "guild" => ctx = "guild"

\* Mutant: a pack that is banned in the guild is only left out of the lists.
AvailableAnyway(u, ctx) ==
  pack.status = "active" /\ (u = Author \/ library[u] = "active") /\ ScopeAllowsContext(ctx)

\* What u may send in a message.
ItemAvailableForSend(u, ctx) ==
  /\ pack.status = "active"
  /\ u = Author \/ library[u] = "active"
  /\ ScopeAllowsContext(ctx) /\ ~ GuildBanned(ctx)

\* What the picker of u lists: his own packs and those in his library.
ListAvailablePackIDs(u, ctx) ==
  LET found == IF u = Author \/ library[u] = "active" THEN {pack} ELSE {} IN
  {p \in found : p.status = "active" /\ ScopeAllowsContext(ctx) /\ ~ GuildBanned(ctx)}

\* A pack of the guild is seen, and installed, as in the guild.
Where(ctx) == IF scope = "guild" THEN "guild" ELSE ctx

CanInstall(ctx) == pack.status = "active" /\ browse /\ ~ GuildBanned(Where(ctx))

\* What u sees of it: all its items, and whether he may install it.
GetPack(u, ctx) ==
  [items   |-> u = Author \/ (pack.status = "active" /\ browse /\ ~ GuildBanned(Where(ctx))),
   install |-> u # Author /\ library[u] # "active" /\ CanInstall(ctx)]

InstallPack(r, u) == \E ctx \in Contexts : CanInstall(ctx) /\ Begins(r, "install", u)

InstallWrites(r) ==
  /\ request[r] # None /\ request[r].step = "install"
  /\ LET u == request[r].user IN
       /\ library' = [library EXCEPT ![u] = "active"]
       /\ late' = IF pack.status = "active" THEN late \ {u} ELSE late \cup {u}
  /\ request' = [request EXCEPT ![r] = None]
  /\ UNCHANGED <<pack, scope, others, over, browse, guildBan, withdrawn, crossed>>

UninstallPack(u) ==
  /\ library[u] # None /\ library' = [library EXCEPT ![u] = None]
  /\ UNCHANGED <<pack, scope, others, over, browse, guildBan, request, withdrawn, crossed, late>>

Next ==
  \/ \E r \in Requests :
       \/ CreatePack(r) \/ CreateWrites(r)
       \/ SoftDeletePack(r) \/ SoftDeleteWrites(r) \/ RestorePack(r) \/ RestoreWrites(r)
       \/ AdminGlobalBan(r) \/ BanWrites(r) \/ AdminGlobalUnban(r) \/ UnbanWrites(r)
       \/ AdminPurgePack(r) \/ PurgeWrites(r)
       \/ InstallWrites(r) \/ \E u \in Users : InstallPack(r, u)
  \/ \E u \in Users : UninstallPack(u)
  \/ PatchPack \/ BanGuildPack \/ DeadlinePasses \/ RefreshSoftDeleteStatus

Spec == Init /\ [][Next]_vars

-----------------------------------------------------------------------------
(* Whoever installed a pack has it whenever it is in use, and has it not   *)
(* when it is withdrawn or banned, unless the installation or a handler    *)
(* wrote over what it had not seen; and lifting a ban does not bring back  *)
(* what the author has deleted.                                            *)
InstalledWhileInUse ==
  /\ pack.status = "active" => \A u \in Users : library[u] # "hidden"
  /\ pack.status # "active" /\ ~ crossed => {u \in Users : library[u] = "active"} \subseteq late
  /\ withdrawn /\ ~ crossed => pack.status # "active"

(* What the picker lists, and only that, may be sent; who is offered a     *)
(* pack sees all of it, and could send it there once he has installed it.  *)
ListedIsSent ==
  \A ctx \in Contexts :
    /\ \A u \in Users \cup {Author} :
         ItemAvailableForSend(u, ctx) <=> ListAvailablePackIDs(u, ctx) # {}
    /\ \A u \in Users : GetPack(u, ctx).install =>
         GetPack(u, ctx).items /\ ItemAvailableForSend(Author, Where(ctx))

(* Overlapping creations exceed the packs an author may have by one each   *)
(* at most.                                                                *)
PacksLimited == Owned <= MaxPacks + Cardinality(Requests) - 1

PacksAreTrue == InstalledWhileInUse /\ ListedIsSent /\ PacksLimited
=============================================================================
