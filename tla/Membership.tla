----------------------------- MODULE Membership -----------------------------
(***************************************************************************)
(* Who belongs to a guild (moderation, clientapi, botapi, userapi) and who *)
(* owns it (guildapi): one invitation with a limit of uses, the member     *)
(* rows, which carry an id of their own, of people and of bots, the bans,  *)
(* which the audit log can undo, and the member list clients build from    *)
(* GUILD_MEMBER_ADD and GUILD_MEMBER_REMOVE.  A handler checks first and   *)
(* writes later: a join spends the invitation and creates the row in one   *)
(* transaction, a ban writes the ban and then removes the row it read.     *)
(***************************************************************************)
EXTENDS Naturals, FiniteSets

CONSTANTS
  Requests,     \* handlers under way
  Users,
  MaxUses,      \* of the invitation; more than the model can spend: unlimited
  MaxIds,       \* bounds of the model: member rows ever created,
  MaxHandlers,  \* handlers that start
  None

VARIABLES
  kind,         \* user -> "person", "bot", or "gone": a deleted account or bot
  invite,       \* "none", "live", "expired" or "deleted"
  uses,         \* uses the row counts
  ids,          \* member rows created
  installed,    \* those of them that bots were installed by
  member,       \* user -> id of his row, or 0
  banned,       \* users with a guild_bans row
  log,          \* <<"ban" or "unban", user>>: entries that can be undone
  owner,        \* owner_user_id; None: the founder, who stays a member
  request,      \* request -> [step, user, id], or None
  begun,
  shown,        \* member ids in the list of clients
  crossed,      \* history: members whose join and ban crossed, whom a ban
                \* failed to remove, or whose ban came back by an undo
  met,          \* history: users whose removal and whose becoming the owner
                \* were under way together, bots that were removed though they
                \* owned the guild, and owners an undo wrote back
  reordered     \* history: ids whose REMOVE was published before an ADD, and
                \* those of rows that were deleted without a REMOVE

people == <<kind, installed>>
listed == <<shown, reordered>>
vars == <<people, invite, uses, ids, member, banned, log, owner, request, begun, crossed,
          met, listed>>

Init ==
  /\ kind \in [Users -> {"person", "bot"}] /\ installed = 0
  /\ invite = "none" /\ uses = 0 /\ ids = 0
  /\ member = [u \in Users |-> 0] /\ banned = {}
  /\ log = {} /\ owner = None /\ met = {}
  /\ request = [r \in Requests |-> None] /\ begun = 0
  /\ shown = {} /\ crossed = {} /\ reordered = {}

Doing(r, step) == request[r] # None /\ request[r].step = step
Begins(r, step, u, id) ==
  /\ request[r] = None /\ begun < MaxHandlers /\ begun' = begun + 1
  /\ request' = [request EXCEPT ![r] = [step |-> step, user |-> u, id |-> id]]
Goes(r, step) == request' = [request EXCEPT ![r].step = step] /\ UNCHANGED begun
Ends(r)       == request' = [request EXCEPT ![r] = None] /\ UNCHANGED begun

Unlisted == UNCHANGED <<people, listed, crossed>>
SameHead == UNCHANGED <<log, owner, met>>

-----------------------------------------------------------------------------
(* The invitation. *)

CreateInvite ==
  /\ invite = "none" /\ invite' = "live"
  /\ UNCHANGED <<uses, ids, member, banned, request, begun>> /\ Unlisted /\ SameHead

InviteExpires ==
  /\ invite = "live" /\ invite' = "expired"
  /\ UNCHANGED <<uses, ids, member, banned, request, begun>> /\ Unlisted /\ SameHead

\* By guild or by code; the row is gone for a join that resolved it before.
DeleteInvite ==
  /\ invite \in {"live", "expired"} /\ invite' = "deleted"
  /\ UNCHANGED <<uses, ids, member, banned, request, begun>> /\ Unlisted /\ SameHead

ResolveActiveInvite == invite = "live" /\ uses < MaxUses

\* Expiry is not looked at again.
ConsumeInviteUse == invite # "deleted" /\ uses < MaxUses

JoinByInvite(r, u) ==
  /\ kind[u] = "person" /\ ResolveActiveInvite /\ u \notin banned /\ member[u] = 0
  /\ Begins(r, "join", u, 0)
  /\ UNCHANGED <<invite, uses, ids, member, banned>> /\ Unlisted /\ SameHead

Under(u, steps) == \E r \in Requests :
  request[r] # None /\ request[r].user = u /\ request[r].step \in steps

(* A new row of the user, and its ADD to publish.                          *)
Joins(r, u) ==
  /\ ids < MaxIds /\ ids' = ids + 1
  /\ member' = [member EXCEPT ![u] = ids']
  /\ request' = [request EXCEPT ![r] = [step |-> "add", user |-> u, id |-> ids']]
  /\ UNCHANGED begun
  /\ crossed' = IF u \in banned \/ Under(u, {"ban", "ban removes"})
                THEN crossed \cup {u} ELSE crossed

\* Use and row in one transaction: a second row of the user, or a spent
\* invitation, rolls both back.
JoinCommits(r) ==
  /\ Doing(r, "join")
  /\ IF ConsumeInviteUse /\ member[request[r].user] = 0
     THEN Joins(r, request[r].user) /\ uses' = uses + 1
     ELSE Ends(r) /\ UNCHANGED <<uses, ids, member, crossed>>
  /\ UNCHANGED <<people, invite, banned, listed>> /\ SameHead

PublishGuildJoined(r) ==
  /\ Doing(r, "add")
  /\ shown' = shown \cup {request[r].id} /\ Ends(r)
  /\ UNCHANGED <<people, invite, uses, ids, member, banned, crossed, reordered>> /\ SameHead

\* A bot is installed; neither bans nor the limits of an invitation count.
InstallBot(r, u) ==
  /\ kind[u] = "bot" /\ Begins(r, "install", u, 0)
  /\ UNCHANGED <<invite, uses, ids, member, banned>> /\ Unlisted /\ SameHead

\* The row there is is taken, and announced again.
BotInstalled(r) ==
  /\ Doing(r, "install")
  /\ LET u == request[r].user
     IN IF member[u] = 0
        THEN Joins(r, u) /\ installed' = installed + 1
        ELSE /\ request' = [request EXCEPT ![r] = [step |-> "add", user |-> u,
                                                   id |-> member[u]]]
             /\ UNCHANGED <<ids, installed, member, crossed, begun>>
  /\ UNCHANGED <<kind, invite, uses, banned, listed>> /\ SameHead

-----------------------------------------------------------------------------
(* Removal, of the row a handler has read: kick, leave, ban and bots.      *)

Meets(u, steps) == met' = IF Under(u, steps) THEN met \cup {u} ELSE met

Kick(r, u) ==
  /\ member[u] # 0 /\ u # owner
  /\ Begins(r, "remove", u, member[u]) /\ Meets(u, {"transfer"})
  /\ UNCHANGED <<invite, uses, ids, member, banned, log, owner>> /\ Unlisted

\* Nobody looks whether a bot is the owner.
MeetsBot(u) == met' = IF u = owner \/ Under(u, {"transfer"}) THEN met \cup {u} ELSE met

\* A bot of the platform leaves the guild; one of the guild is deleted, too.
UninstallBot(r, u) ==
  /\ kind[u] = "bot" /\ member[u] # 0
  /\ \E step \in {"remove", "delete"} : Begins(r, step, u, member[u])
  /\ MeetsBot(u)
  /\ UNCHANGED <<invite, uses, ids, member, banned, log, owner>> /\ Unlisted

\* Mutant: a removal goes by user, and may hit a row created since.
DeletedByUser(r, u) == request[r].user = u

DeletedBy(r, u) == request[r].user = u /\ request[r].id = member[u]

Leaves(out) ==
  /\ member' = [u \in Users |-> IF u \in out THEN 0 ELSE member[u]]
  /\ crossed' = {u \in crossed : member'[u] # 0}

RemoveMember(r) ==
  /\ request[r] # None /\ request[r].step \in {"remove", "delete", "ban removes"}
  /\ Leaves({u \in Users : DeletedBy(r, u)})
  /\ kind' = [kind EXCEPT ![request[r].user] = IF Doing(r, "delete") THEN "gone" ELSE @]
  /\ Goes(r, IF Doing(r, "ban removes") THEN "ban removed" ELSE "removed")
  /\ UNCHANGED <<installed, invite, uses, ids, banned, listed>> /\ SameHead

PublishRemove(r) ==
  /\ request[r] # None /\ request[r].step \in {"removed", "ban removed"}
  /\ shown' = shown \ {request[r].id}
  /\ reordered' = reordered \cup {i \in {request[r].id} :
                     \E q \in Requests : Doing(q, "add") /\ request[q].id = i}
  /\ log' = IF request[r].step = "removed" THEN log ELSE log \cup {<<"ban", request[r].user>>}
  /\ Ends(r)
  /\ UNCHANGED <<people, invite, uses, ids, member, banned, owner, crossed, met>>

\* The platform deletes a bot: whatever row it has goes, without an event.
DeleteBot(u) ==
  /\ kind[u] = "bot" /\ kind' = [kind EXCEPT ![u] = "gone"]
  /\ Leaves({u}) /\ MeetsBot(u)
  /\ reordered' = reordered \cup ({member[u]} \ {0})
  /\ UNCHANGED <<installed, invite, uses, ids, banned, log, owner, request, begun, shown>>

\* Who deletes his account owns no guild; the rows he had are read, those he
\* has are deleted, and those that were read are announced.
DeleteAccount(r, u) ==
  /\ kind[u] = "person" /\ u # owner
  /\ Begins(r, "erase", u, member[u]) /\ Meets(u, {"transfer"})
  /\ UNCHANGED <<invite, uses, ids, member, banned, log, owner>> /\ Unlisted

AccountDeleted(r) ==
  /\ Doing(r, "erase")
  /\ LET u == request[r].user
     IN /\ kind' = [kind EXCEPT ![u] = "gone"] /\ Leaves({u})
        /\ reordered' = reordered \cup ({member[u]} \ {0, request[r].id})
  /\ IF request[r].id # 0 THEN Goes(r, "removed") ELSE Ends(r)
  /\ UNCHANGED <<installed, invite, uses, ids, banned, shown>> /\ SameHead

\* Reads whether the target is a member; a stranger may be banned too.
BanUser(r, u) ==
  /\ u \notin banned /\ u # owner
  /\ Begins(r, "ban", u, member[u]) /\ Meets(u, {"transfer"})
  /\ UNCHANGED <<invite, uses, ids, member, banned, log, owner>> /\ Unlisted

BanWrites(r) ==
  /\ Doing(r, "ban")
  /\ banned' = banned \cup {request[r].user}
  /\ IF request[r].id # 0 THEN Goes(r, "ban removes") /\ UNCHANGED log
     ELSE Ends(r) /\ log' = log \cup {<<"ban", request[r].user>>}
  /\ UNCHANGED <<invite, uses, ids, member, owner, met>> /\ Unlisted

RemoveFails(r) ==
  /\ Doing(r, "ban removes") /\ Ends(r)
  /\ crossed' = crossed \cup {request[r].user}
  /\ UNCHANGED <<people, invite, uses, ids, member, banned, listed>> /\ SameHead

UnbanUser(u) ==
  /\ u \in banned /\ banned' = banned \ {u} /\ log' = log \cup {<<"unban", u>>}
  /\ UNCHANGED <<invite, uses, ids, member, owner, request, begun, met>> /\ Unlisted

\* The ban goes, and nobody comes back by it.
UndoBan(u) ==
  /\ <<"ban", u>> \in log /\ u \in banned
  /\ banned' = banned \ {u} /\ log' = log \ {<<"ban", u>>}
  /\ UNCHANGED <<invite, uses, ids, member, owner, request, begun, met>> /\ Unlisted

\* The ban comes back, and who has joined since stays a member.
UndoUnban(u) ==
  /\ <<"unban", u>> \in log
  /\ banned' = banned \cup {u} /\ log' = log \ {<<"unban", u>>}
  /\ crossed' = IF member[u] # 0 THEN crossed \cup {u} ELSE crossed
  /\ UNCHANGED <<people, invite, uses, ids, member, owner, request, begun, listed, met>>

-----------------------------------------------------------------------------
(* The owner, who can neither leave nor be kicked or banned.               *)

Removing == {"remove", "delete", "ban", "ban removes", "erase"}

\* To any other member, a bot as well.
TransferOwnership(r, u) ==
  /\ u # owner /\ member[u] # 0
  /\ Begins(r, "transfer", u, 0) /\ Meets(u, Removing)
  /\ UNCHANGED <<invite, uses, ids, member, banned, log, owner>> /\ Unlisted

TransferWrites(r) ==
  /\ Doing(r, "transfer") /\ owner' = request[r].user /\ Ends(r)
  /\ UNCHANGED <<invite, uses, ids, member, banned, log, met>> /\ Unlisted

\* The undoing of a change of the guild saves the whole row it read.
UndoGuildUpdate(r) ==
  /\ Begins(r, "undo", owner, 0)
  /\ UNCHANGED <<invite, uses, ids, member, banned>> /\ Unlisted /\ SameHead

GuildSaved(r) ==
  /\ Doing(r, "undo") /\ owner' = request[r].user /\ Ends(r)
  /\ met' = met \cup ({request[r].user} \ {owner})
  /\ UNCHANGED <<invite, uses, ids, member, banned, log>> /\ Unlisted

Next ==
  \/ CreateInvite \/ InviteExpires \/ DeleteInvite
  \/ \E r \in Requests, u \in Users :
       \/ JoinByInvite(r, u) \/ InstallBot(r, u) \/ Kick(r, u) \/ UninstallBot(r, u)
       \/ BanUser(r, u) \/ DeleteAccount(r, u) \/ TransferOwnership(r, u)
  \/ \E r \in Requests :
       \/ JoinCommits(r) \/ BotInstalled(r) \/ PublishGuildJoined(r)
       \/ RemoveMember(r) \/ PublishRemove(r) \/ AccountDeleted(r)
       \/ BanWrites(r) \/ RemoveFails(r)
       \/ TransferWrites(r) \/ UndoGuildUpdate(r) \/ GuildSaved(r)
  \/ \E u \in Users : UnbanUser(u) \/ UndoBan(u) \/ UndoUnban(u) \/ DeleteBot(u)

Spec == Init /\ [][Next]_vars

-----------------------------------------------------------------------------
Quiet == \A r \in Requests : request[r] = None

(* Every use of the invitation stands for a row that came in by it, and    *)
(* there are never more than it allows; once the handlers are done, the    *)
(* list of clients holds the members and none else, and nobody is banned   *)
(* and a member; unless an ADD of a row came after its REMOVE, the row     *)
(* went without one, a join or an installation and a ban of one user       *)
(* crossed, or a ban came back by an undo.  The owner is a member, unless  *)
(* he was made it while he was being removed, an undo made him it again    *)
(* after the guild had changed hands, or he is a bot that was removed.     *)
MembersAreTrue ==
  /\ uses + installed = ids /\ uses <= MaxUses
  /\ Quiet =>
       /\ shown \ reordered = {member[u] : u \in Users} \ ({0} \cup reordered)
       /\ \A u \in banned : member[u] # 0 => u \in crossed
  /\ \A u \in Users : owner = u => member[u] # 0 \/ u \in met
=============================================================================
