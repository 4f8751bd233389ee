------------------------------- MODULE Audience ------------------------------
(***************************************************************************)
(* Who sees one message (message/visibility.go, fanout.go and the handlers *)
(* of messages.go): its author may restrict it to the holders of a role    *)
(* and to some users, a bot may address it to a few users for good, and    *)
(* the channel may allow no restriction or force its own.  A handler reads *)
(* the row, writes it, works out the audience and publishes; clients keep  *)
(* what they are sent.                                                     *)
(***************************************************************************)
EXTENDS Naturals

CONSTANTS
  Users, Author,
  Managers,     \* owner, administrators and who has MANAGE_MESSAGES
  Reactor,      \* the user who reacts, with one emoji
  Requests,     \* handlers under way
  MaxEdits,     \* bound of the model: texts after the first
  None

VARIABLES
  policy,       \* of the channel: "open", "closed" to restrictions, "forced"
  holders,      \* users who have the role
  state,        \* of the row: "none", "live", "deleted"
  to,           \* VisibleTo, empty unless the message is ephemeral
  visible,      \* [roles, users]: VisibleRoleIDs lists the role, VisibleUserIDs
  text,         \* content: the edits so far, plus one
  request,      \* handler -> what it read and does next, or None
  mark,         \* the row of the reaction is there
  copy,         \* user -> the text his client shows, 0 for no message
  marks,        \* users whose client shows the reaction
  crossed,      \* history: two handlers, or one and a change of roles, crossed
  moved,        \* history: users whose role changed after the message was sent
  overlooked    \* history: users who lost sight of a message that was public

row  == <<policy, to, state, visible, text, mark>>
seen == <<copy, marks, overlooked>>
vars == <<row, holders, request, seen, crossed, moved>>

\* Those whose sight of the message depends on how it is restricted.
Others == Users \ ({Author} \cup Managers)

Public == [roles |-> FALSE, users |-> {}]
ByRole == [roles |-> TRUE, users |-> {}]
Visibilities == [roles : BOOLEAN, users : SUBSET Others]

IsMessageRestricted(v) == v # Public

CanViewMessage(u, v) ==
  \/ ~IsMessageRestricted(v)
  \/ u = Author \/ u \in Managers
  \/ u \in v.users
  \/ v.roles /\ u \in holders

EphemeralVisibleTo(u) == to = {} \/ u = Author \/ u \in to

EphemeralTargets == {Author} \cup to

\* publishMessageScopedEvent and the members of the channel otherwise
ResolveAudience(v) == {u \in Users : CanViewMessage(u, v)}

Recipients(v) == IF to # {} THEN EphemeralTargets ELSE ResolveAudience(v)

\* What the channel makes of the visibility that was asked for.
Effective(wanted) ==
  IF policy = "forced" THEN ByRole ELSE wanted

Allowed(wanted) ==
  policy = "closed" => wanted = Public

Init ==
  /\ policy \in {"open", "closed", "forced"}
  /\ holders \in SUBSET Others
  /\ state = "none" /\ to = {} /\ visible = Public /\ text = 0 /\ mark = FALSE
  /\ request = [r \in Requests |-> None]
  /\ copy = [u \in Users |-> 0] /\ marks = {}
  /\ crossed = FALSE /\ moved = {} /\ overlooked = {}

Doing(r, step) == request[r] # None /\ request[r].step = step
Goes(r, record) == request' = [request EXCEPT ![r] = record]
Ends(r)        == request' = [request EXCEPT ![r] = None]

\* A write crosses whatever another handler has read.
Crosses(r) ==
  crossed' = (crossed \/ \E q \in Requests \ {r} : request[q] # None)

\* Bound of the model: no handler starts once two have crossed, for nothing
\* is claimed from then on.
Watched == ~crossed

\* Clients: a copy is replaced, and an update of an unknown message ignored.
\* The view they are sent carries the reactions as they are.
Shown(create, update, delete, t) ==
  LET sent == (create \cup {u \in update : copy[u] # 0}) \ delete
  IN /\ copy' = [u \in Users |->
                  IF u \in delete THEN 0 ELSE IF u \in sent THEN t ELSE copy[u]]
     /\ marks' = IF mark THEN (marks \cup sent) \ delete ELSE marks \ (sent \cup delete)

-----------------------------------------------------------------------------
CreateMessage(r) ==
  /\ state = "none" /\ request[r] = None
  /\ \E wanted \in Visibilities, few \in SUBSET Others :
       /\ Allowed(wanted) /\ (few # {} => wanted = Public)
       /\ to' = few
       /\ visible' = IF few # {} THEN Public ELSE Effective(wanted)
  /\ state' = "live" /\ text' = 1
  /\ Goes(r, [step |-> "create", visible |-> visible'])
  /\ UNCHANGED <<policy, mark, holders, seen, crossed, moved>>

PublishCreate(r) ==
  /\ Doing(r, "create") /\ Ends(r)
  /\ Shown(Recipients(request[r].visible), {}, {}, 1)
  /\ UNCHANGED <<row, holders, overlooked, crossed, moved>>

\* The author's request: a text, a visibility, or both.
EditMessage(r) ==
  /\ Watched /\ request[r] = None /\ state = "live" /\ text <= MaxEdits
  /\ \E new \in Visibilities, content \in BOOLEAN :
       /\ content \/ new # visible
       /\ new # visible => to = {} /\ policy # "forced" /\ Allowed(new)
       /\ Goes(r, [step |-> "edit", read |-> visible, visible |-> new,
                   old |-> ResolveAudience(visible), content |-> content,
                   text |-> text])
  /\ UNCHANGED <<row, holders, seen, crossed, moved>>

\* The transaction; its version must still be free (see Messages).
SaveEdit(r) ==
  /\ Doing(r, "edit")
  /\ request[r].content => text = request[r].text
  /\ text' = IF request[r].content THEN text + 1 ELSE text
  /\ visible' = IF request[r].visible # request[r].read
                  THEN request[r].visible ELSE visible
  /\ Goes(r, [request[r] EXCEPT !.step = "update"]) /\ Crosses(r)
  /\ UNCHANGED <<policy, mark, to, state, holders, seen, moved>>

SaveEditFails(r) ==
  /\ Doing(r, "edit") /\ request[r].content /\ text # request[r].text
  /\ Ends(r)
  /\ UNCHANGED <<row, holders, seen, crossed, moved>>

\* Mutant: who gains sight of the message is sent an update.
GainedNone(old, new) == {}

Gained(old, new) == new \ old

\* An update of the text goes to the audience; a new visibility is told by
\* what it changes.  Who sees a message that was public is "kept", and who
\* does not see it any more is told nothing.
PublishEdit(r) ==
  /\ Doing(r, "update") /\ Ends(r)
  /\ LET q   == request[r]
         t   == IF q.content THEN q.text + 1 ELSE q.text
         new == ResolveAudience(q.visible)
     IN CASE q.visible = q.read ->
               /\ Shown({}, Recipients(q.visible), {}, t)
               /\ UNCHANGED overlooked
          [] q.visible # q.read /\ ~IsMessageRestricted(q.visible) ->
               /\ Shown(Users, {}, {}, t) /\ UNCHANGED overlooked
          [] q.visible # q.read /\ IsMessageRestricted(q.visible)
             /\ IsMessageRestricted(q.read) ->
               /\ Shown(Gained(q.old, new), q.old \cap new, q.old \ new, t)
               /\ UNCHANGED overlooked
          [] OTHER ->
               /\ Shown({}, new, {}, t)
               /\ overlooked' = overlooked \cup (Users \ new)
  /\ UNCHANGED <<row, holders, crossed, moved>>

\* By the author or a manager.
DeleteMessage(r) ==
  /\ Watched /\ request[r] = None /\ state = "live"
  /\ state' = "deleted" /\ Crosses(r)
  /\ Goes(r, [step |-> "delete", visible |-> visible])
  /\ UNCHANGED <<policy, mark, to, visible, text, holders, seen, moved>>

PublishDelete(r) ==
  /\ Doing(r, "delete") /\ Ends(r)
  /\ Shown({}, {}, Recipients(request[r].visible), 0)
  /\ UNCHANGED <<row, holders, overlooked, crossed, moved>>

\* What search, reactions and mentions ask of a user: the quick answers
\* first, his rights in the channel last.
UserCanViewMessage(u, v) ==
  \/ ~IsMessageRestricted(v) \/ u = Author \/ u \in v.users
  \/ v.roles /\ u \in holders
  \/ u \in Managers

MessageViews(u) ==
  /\ copy' = [copy EXCEPT ![u] = text]
  /\ marks' = IF mark THEN marks \cup {u} ELSE marks \ {u}

\* listMessages and getMessage
ListMessages(u) ==
  /\ state = "live" /\ EphemeralVisibleTo(u) /\ CanViewMessage(u, visible)
  /\ MessageViews(u)
  /\ UNCHANGED <<row, holders, request, overlooked, crossed, moved>>

\* The hits are rows, looked through once more for what the user may see.
SearchMessages(u) ==
  /\ state = "live" /\ EphemeralVisibleTo(u) /\ UserCanViewMessage(u, visible)
  /\ MessageViews(u)
  /\ UNCHANGED <<row, holders, request, overlooked, crossed, moved>>

\* An ephemeral message takes none; who may not see the message is told that
\* there is none.
Reacts(r, on) ==
  /\ Watched /\ request[r] = None /\ state = "live" /\ to = {}
  /\ UserCanViewMessage(Reactor, visible)
  /\ Goes(r, [step |-> "react", visible |-> visible, on |-> on])
  /\ UNCHANGED <<row, holders, seen, crossed, moved>>

PutReaction(r)    == Reacts(r, TRUE)
DeleteReaction(r) == Reacts(r, FALSE)

\* What changes nothing is not told.
ReactionWritten(r) ==
  /\ Doing(r, "react") /\ mark' = request[r].on
  /\ IF mark = request[r].on THEN Ends(r) /\ UNCHANGED crossed
     ELSE Goes(r, [request[r] EXCEPT !.step = "reaction"]) /\ Crosses(r)
  /\ UNCHANGED <<policy, to, state, visible, text, holders, seen, moved>>

PublishReactionEvent(r) ==
  /\ Doing(r, "reaction") /\ Ends(r)
  /\ LET told == {u \in Recipients(request[r].visible) : copy[u] # 0}
     IN marks' = IF request[r].on THEN marks \cup told ELSE marks \ told
  /\ UNCHANGED <<row, holders, copy, overlooked, crossed, moved>>

\* The list of who reacted, for who may see the message.
ListReactionUsers(u) ==
  /\ state = "live" /\ EphemeralVisibleTo(u) /\ UserCanViewMessage(u, visible) /\ copy[u] # 0
  /\ marks' = IF mark THEN marks \cup {u} ELSE marks \ {u}
  /\ UNCHANGED <<row, copy, holders, request, overlooked, crossed, moved>>

\* Roles are given and taken elsewhere: nothing is said of messages then.
\* Once for each user: he is left out of what is claimed from then on.
RoleChanges(u) ==
  /\ Watched /\ u \in Others \ moved /\ state # "none"
  /\ holders' = IF u \in holders THEN holders \ {u} ELSE holders \cup {u}
  /\ moved' = moved \cup {u}
  /\ crossed' = (crossed \/ \E r \in Requests : request[r] # None)
  /\ UNCHANGED <<row, request, seen>>

Next ==
  \/ \E r \in Requests :
       \/ CreateMessage(r) \/ PublishCreate(r)
       \/ EditMessage(r) \/ SaveEdit(r) \/ SaveEditFails(r) \/ PublishEdit(r)
       \/ DeleteMessage(r) \/ PublishDelete(r)
       \/ PutReaction(r) \/ DeleteReaction(r) \/ ReactionWritten(r)
       \/ PublishReactionEvent(r)
  \/ \E u \in Users : \/ ListMessages(u) \/ SearchMessages(u)
                     \/ ListReactionUsers(u) \/ RoleChanges(u)

Spec == Init /\ [][Next]_vars

-----------------------------------------------------------------------------
Quiet == ~crossed /\ \A r \in Requests : request[r] = None

(* When no handler is under way, and none has crossed another, the clients *)
(* show the text as it is to whoever may see it and to nobody else; a user *)
(* who was given or lost the role since then, or lost sight of a message   *)
(* that was public, is not told.                                           *)
ReachesAudience ==
  Quiet => \A u \in Users \ (moved \cup overlooked) :
    copy[u] = IF state = "live" /\ EphemeralVisibleTo(u) /\ CanViewMessage(u, visible)
                THEN text ELSE 0

(* Who shows the message shows the reaction that is there, and no other,   *)
(* with the same exceptions; and it is shown nowhere without the message.  *)
ReactionsAgree ==
  /\ \A u \in marks : copy[u] # 0
  /\ Quiet => \A u \in Users \ (moved \cup overlooked) :
       copy[u] # 0 => (u \in marks) = mark

(* publishVisibilityChange says: who loses sight of the message is sent a  *)
(* MESSAGE_DELETE.  So whoever shows it, when it was the author who        *)
(* restricted it and not his role that changed, may see it.                *)
LosersAreTold ==
  Quiet => \A u \in Users \ moved : copy[u] # 0 => CanViewMessage(u, visible)
=============================================================================
