------------------------------- MODULE Social -------------------------------
(***************************************************************************)
(* Two users, the row each keeps about the other, and the conversation     *)
(* between them (social, message/dm_rules).  A pair of users has at most   *)
(* one row each way, by a unique index; a handler reads rows, decides, and *)
(* writes: a request, a friendship, a block, a nickname, a conversation.   *)
(* What is published of it is left out.                                    *)
(***************************************************************************)
EXTENDS Naturals, FiniteSets

CONSTANTS Requests, Users, None

VARIABLES
  rows,       \* user -> what he has about the other: None, "pending", "friend", "blocked"
  request,    \* request -> [step, user, row, kept, flag], or None
  dms,        \* conversations of the two
  hidden,     \* user -> he closed it
  asked,      \* user -> it lies among his message requests
  wrote,      \* user -> history: he has written in it
  revived     \* history: a nickname brought back a row that was gone

vars == <<rows, request, dms, hidden, asked, wrote, revived>>
dm   == <<dms, hidden, asked, wrote>>

Other(u) == CHOOSE v \in Users : v # u

Init ==
  /\ rows = [u \in Users |-> None]
  /\ request = [r \in Requests |-> None]
  /\ dms = 0
  /\ hidden = [u \in Users |-> FALSE] /\ asked = [u \in Users |-> FALSE]
  /\ wrote = [u \in Users |-> FALSE]
  /\ revived = FALSE

\* A request of u that decided by the row of w; kept: that row is still there.
Doing(r, step) == request[r] # None /\ request[r].step = step
Begins(r, step, u, w, flag) ==
  /\ request[r] = None
  /\ request' = [request EXCEPT ![r] =
                   [step |-> step, user |-> u, row |-> w, kept |-> TRUE, flag |-> flag]]
Done(r) == [request EXCEPT ![r] = None]

\* The rows become new; whoever read one that went holds a row no more.
Rows(new, requests) ==
  /\ rows' = new
  /\ request' = [q \in Requests |->
       IF requests[q] # None /\ new[requests[q].row] # rows[requests[q].row]
       THEN [requests[q] EXCEPT !.kept = FALSE] ELSE requests[q]]

Both(type)    == [u \in Users |-> type]
Without(types) == [u \in Users |-> IF rows[u] \in types THEN None ELSE rows[u]]

IsBlocked == \E u \in Users : rows[u] = "blocked"

-----------------------------------------------------------------------------
(* Friends. *)

\* A request, or at once friends when the other has asked.
PostRelationship(r, u) ==
  /\ ~ IsBlocked /\ rows[u] = None
  /\ Begins(r, IF rows[Other(u)] = "pending" THEN "promote" ELSE "ask", u, u, FALSE)
  /\ UNCHANGED <<rows, dm, revived>>

AskWrites(r) ==
  /\ Doing(r, "ask")
  /\ LET u == request[r].user IN
       Rows(IF rows[u] = None THEN [rows EXCEPT ![u] = "pending"] ELSE rows, Done(r))
  /\ UNCHANGED <<dm, revived>>

AcceptFriend(r, u) ==
  /\ rows[Other(u)] = "pending"
  /\ Begins(r, "promote", u, Other(u), FALSE)
  /\ UNCHANGED <<rows, dm, revived>>

\* Requests both ways go, two rows come; one that is left makes it fail.
Befriended(left) == IF left = Both(None) THEN Both("friend") ELSE rows

PromoteToFriends(r) ==
  /\ Doing(r, "promote") /\ Rows(Befriended(Without({"pending"})), Done(r))
  /\ UNCHANGED <<dm, revived>>

Blocked(u) == [Without({"friend", "pending"}) EXCEPT ![u] = "blocked"]

BlockUser(u) == Rows(Blocked(u), request) /\ UNCHANGED <<dm, revived>>

\* Reads the own row, or the request of the other.
DeleteRelationship(r, u) ==
  /\ \/ rows[u] # None /\ Begins(r, rows[u], u, u, FALSE)
     \/ /\ rows[u] = None /\ rows[Other(u)] = "pending"
        /\ Begins(r, "pending", u, Other(u), FALSE)
  /\ UNCHANGED <<rows, dm, revived>>

Unfriend(r) ==
  /\ Doing(r, "friend") /\ Rows(Without({"friend"}), Done(r))
  /\ UNCHANGED <<dm, revived>>

\* Takes a request back or ignores one: that row, if it is still there.
DropsRequest(r) ==
  /\ Doing(r, "pending")
  /\ Rows(IF request[r].kept THEN [rows EXCEPT ![request[r].row] = None] ELSE rows,
          Done(r))
  /\ UNCHANGED <<dm, revived>>

\* The block goes and both are friends; a block of the other makes it fail.
UnblockAndRestoreFriend(r) ==
  /\ Doing(r, "blocked")
  /\ LET u    == request[r].user
         left == Without({"friend", "pending"}) IN
       Rows(Befriended(IF request[r].kept THEN [left EXCEPT ![u] = None] ELSE left),
            Done(r))
  /\ UNCHANGED <<dm, revived>>

\* Reads the row of a friend and saves it whole: as a new one if it is gone.
PatchRelationship(r, u) ==
  /\ rows[u] = "friend" /\ Begins(r, "nickname", u, u, FALSE)
  /\ UNCHANGED <<rows, dm, revived>>

SavesNickname(r) ==
  /\ Doing(r, "nickname")
  /\ LET u == request[r].user IN
       /\ Rows(IF rows[u] = None THEN [rows EXCEPT ![u] = "friend"] ELSE rows, Done(r))
       /\ revived' = (revived \/ rows[u] = None)
  /\ UNCHANGED dm

-----------------------------------------------------------------------------
(* The conversation. *)

\* A stranger is refused, lies among the requests or not, as the settings of
\* the other and the guilds of both have it; a friend is not asked.
DMPrivacyCheck(u) == IF rows[u] = "friend" THEN {FALSE} ELSE BOOLEAN

\* Shown again to who opens it, with what other conversations there were.
ReopenDMChannel(u) == dms' = 1 /\ hidden' = [hidden EXCEPT ![u] = FALSE]

OpenPrivateChannel(r, u) ==
  /\ \/ dms > 0 /\ ReopenDMChannel(u) /\ UNCHANGED request
     \/ /\ dms = 0 /\ ~ IsBlocked
        /\ \E flag \in DMPrivacyCheck(u) : Begins(r, "open", u, u, flag)
        /\ UNCHANGED <<dms, hidden>>
  /\ UNCHANGED <<rows, asked, wrote, revived>>

\* Mutant: not looked for again under the lock of the pair.
FoundBefore == FALSE

FindDMChannel == dms > 0

CreateDMChannel(r) ==
  /\ Doing(r, "open") /\ request' = Done(r)
  /\ LET u == request[r].user IN
       IF FindDMChannel
       THEN hidden' = [hidden EXCEPT ![u] = FALSE] /\ UNCHANGED <<dms, asked>>
       ELSE /\ dms' = dms + 1 /\ hidden' = [v \in Users |-> FALSE]
            /\ asked' = [asked EXCEPT ![Other(u)] = request[r].flag]
  /\ UNCHANGED <<rows, wrote, revived>>

\* Writing accepts what lay among the requests and opens it for both.
EnforcePrivateSend(r, u) ==
  /\ dms > 0 /\ ~ IsBlocked
  /\ Begins(r, "send", u, u, FALSE)
  /\ hidden' = [v \in Users |-> FALSE] /\ asked' = [asked EXCEPT ![u] = FALSE]
  /\ UNCHANGED <<rows, dms, wrote, revived>>

SendsPrivate(r) ==
  /\ Doing(r, "send") /\ request' = Done(r)
  /\ wrote' = [wrote EXCEPT ![request[r].user] = TRUE]
  /\ UNCHANGED <<rows, dms, hidden, asked, revived>>

PatchRecipientMe(u) ==
  /\ dms > 0
  /\ \/ hidden' = [hidden EXCEPT ![u] = ~ @] /\ UNCHANGED asked
     \/ asked' = [asked EXCEPT ![u] = FALSE] /\ UNCHANGED hidden
  /\ UNCHANGED <<rows, request, dms, wrote, revived>>

Next ==
  \/ \E r \in Requests, u \in Users :
       \/ PostRelationship(r, u) \/ AcceptFriend(r, u) \/ DeleteRelationship(r, u)
       \/ PatchRelationship(r, u) \/ OpenPrivateChannel(r, u) \/ EnforcePrivateSend(r, u)
  \/ \E r \in Requests :
       \/ AskWrites(r) \/ PromoteToFriends(r) \/ Unfriend(r) \/ DropsRequest(r)
       \/ UnblockAndRestoreFriend(r) \/ SavesNickname(r)
       \/ CreateDMChannel(r) \/ SendsPrivate(r)
  \/ \E u \in Users : BlockUser(u) \/ PatchRecipientMe(u)

Spec == Init /\ [][Next]_vars

-----------------------------------------------------------------------------
(* Friendship is mutual, unless a nickname was saved over a row that had   *)
(* gone; two users have one conversation, however they open it; and who    *)
(* has written in it has accepted it.                                      *)
SocialIsTrue ==
  /\ revived \/ (\A u \in Users : rows[u] = "friend") \/ (\A u \in Users : rows[u] # "friend")
  /\ dms <= 1
  /\ \A u \in Users : wrote[u] => ~ asked[u]

(* The design of friends and privacy (16, line 51) says that taking back a *)
(* block leaves nothing and restores no friendship.  The handler makes the *)
(* two friends, whether they ever were or not.                             *)
UnblockRestoresNothing ==
  [][IsBlocked => \A u \in Users : rows'[u] # "friend"]_rows
=============================================================================
