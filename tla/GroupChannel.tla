---------------------------- MODULE GroupChannel -----------------------------
(* One private group: who is in it, what it is called, and what each of the  *)
(* users was last shown of it.  A handler looks, writes, and then builds and *)
(* sends one event after the other.                                          *)
EXTENDS Naturals, FiniteSets

CONSTANTS
  Users,
  Requests,       \* handlers that run at a time
  MaxMembers,     \* maxGroupDMMembers
  MaxHandlers,    \* bound on the handlers that are begun
  None

VARIABLES
  channel,        \* its row: "none", "live" or "gone"
  rows,           \* channel_recipients
  friends,        \* pairs of friends
  name,           \* how often it was renamed
  shown,          \* by user, the view he was last sent, or None
  job,            \* by request, what it has still to do, or None
  overlapped,     \* kinds of handlers that ran at the same time
  begun           \* how many were begun

vars == <<channel, rows, friends, name, shown, job, overlapped, begun>>

View(u) == [with |-> rows \ {u}, name |-> name]

Init ==
  /\ channel = "none"
  /\ friends = {p \in SUBSET Users : Cardinality(p) = 2}
  /\ rows = {} /\ name = 0
  /\ shown = [u \in Users |-> None]
  /\ job = [q \in Requests |-> None]
  /\ overlapped = {} /\ begun = 0

-----------------------------------------------------------------------------

Idle(q) == job[q] = None

Runs(q, what, to) == [does |-> what, on |-> None, to |-> to, built |-> None]

Others(q) == {p \in Requests \ {q} : job[p] # None}

Begins(q, what) ==
  /\ begun < MaxHandlers /\ begun' = begun + 1
  /\ overlapped' = overlapped \cup {{what, job[p].does} : p \in Others(q)}

Settled(j) == IF j.to = {} /\ j.built = None THEN None ELSE j

CreateGroupDM(q, me, ids) ==
  /\ Idle(q) /\ channel = "none"
  /\ ids # {} /\ me \notin ids
  /\ Cardinality(ids) + 1 <= MaxMembers
  /\ \A u \in ids : {me, u} \in friends
  /\ channel' = "live" /\ rows' = ids \cup {me}
  /\ job' = [job EXCEPT ![q] = Runs(q, "create", ids \cup {me})]
  /\ Begins(q, "create")
  /\ UNCHANGED <<friends, name, shown>>

(* A plausible mistake: the new one is told, the others are not.            *)
ToldOfInvite(u) == {u}

Told(u) == rows \cup {u}

InviteGroupDM(q, me, u) ==                 \* a friend, no member, and room
  /\ Idle(q) /\ channel = "live"
  /\ me \in rows /\ {me, u} \in friends
  /\ u \notin rows
  /\ Cardinality(rows) < MaxMembers
  /\ job' = [job EXCEPT ![q] = [Runs(q, "invite", {}) EXCEPT !.on = u]]
  /\ Begins(q, "invite")
  /\ UNCHANGED <<friends, channel, rows, name, shown>>

InviteWrites(q) ==
  /\ ~Idle(q) /\ job[q].does = "invite" /\ job[q].on # None
  /\ IF job[q].on \in rows
       THEN /\ job' = [job EXCEPT ![q] = None]
            /\ UNCHANGED rows
       ELSE /\ rows' = rows \cup {job[q].on}
            /\ job' = [job EXCEPT ![q].on = None, ![q].to = Told(job[q].on)]
  /\ UNCHANGED <<friends, channel, name, shown, overlapped, begun>>

LeaveGroupDM(q, me) ==                     \* and its own event
  /\ Idle(q) /\ channel = "live"
  /\ me \in rows
  /\ rows' = rows \ {me}
  /\ shown' = [shown EXCEPT ![me] = None]
  /\ job' = [job EXCEPT ![q] = Runs(q, "leave", {})]
  /\ Begins(q, "leave")
  /\ UNCHANGED <<friends, channel, name>>

LastLeft ==
  IF rows = {} THEN "close" ELSE "tell"

LeaveLooks(q) ==                           \* who is left?
  /\ ~Idle(q) /\ job[q].does = "leave"
  /\ job' = [job EXCEPT ![q] = [@ EXCEPT !.does = LastLeft, !.to = rows]]
  /\ UNCHANGED <<friends, channel, rows, name, shown, overlapped, begun>>

CloseChannel(q) ==
  /\ ~Idle(q) /\ job[q].does = "close"
  /\ channel' = "gone"
  /\ job' = [job EXCEPT ![q] = None]
  /\ UNCHANGED <<friends, rows, name, shown, overlapped, begun>>

PatchPrivateChannel(q, me) ==
  /\ Idle(q) /\ channel = "live"
  /\ me \in rows
  /\ name' = name + 1
  /\ job' = [job EXCEPT ![q] = Runs(q, "rename", rows)]
  /\ Begins(q, "rename")
  /\ UNCHANGED <<friends, channel, rows, shown>>

Built(j, u) ==                             \* none of a channel that is gone
  [j EXCEPT !.to = @ \ {u},
            !.built = IF channel = "live" THEN <<u, View(u)>> ELSE None]

BuildPrivateChannelView(q, u) ==
  /\ ~Idle(q) /\ u \in job[q].to /\ job[q].built = None
  /\ job' = [job EXCEPT ![q] = Settled(Built(@, u))]
  /\ UNCHANGED <<friends, channel, rows, name, shown, overlapped, begun>>

SendView(q) ==
  /\ ~Idle(q) /\ job[q].built # None
  /\ shown' = [shown EXCEPT ![job[q].built[1]] = job[q].built[2]]
  /\ job' = [job EXCEPT ![q] = Settled([@ EXCEPT !.built = None])]
  /\ UNCHANGED <<friends, channel, rows, name, overlapped, begun>>

Unfriend(p) ==                             \* who is in stays in
  /\ p \in friends /\ friends' = friends \ {p}
  /\ UNCHANGED <<channel, rows, name, shown, job, overlapped, begun>>

-----------------------------------------------------------------------------

Next ==
  \/ \E q \in Requests :
       \/ InviteWrites(q) \/ LeaveLooks(q) \/ CloseChannel(q) \/ SendView(q)
       \/ \E u \in Users :
            \/ LeaveGroupDM(q, u) \/ PatchPrivateChannel(q, u)
            \/ BuildPrivateChannelView(q, u)
            \/ \E ids \in SUBSET Users : CreateGroupDM(q, u, ids)
            \/ \E v \in Users : InviteGroupDM(q, u, v)
  \/ \E p \in friends : Unfriend(p)

Spec == Init /\ [][Next]_vars

(* More than fit are in it only when two invitations ran at a time; someone  *)
(* is in a group that is gone only when he was invited while the last one    *)
(* left.  Whoever is in it sees, when nothing is under way, who else is, and *)
(* whoever left sees nothing, unless two handlers ran at a time: each sends  *)
(* what it built, and the older view may arrive last.                        *)
GroupIsTrue ==
  LET Quiet == \A q \in Requests : Idle(q)
  IN  /\ {"invite"} \notin overlapped => Cardinality(rows) <= MaxMembers
      /\ channel = "gone" /\ rows # {} =>
           overlapped \cap {{"invite", "leave"}, {"invite", "close"}} # {}
      /\ Quiet /\ overlapped = {} =>
           /\ channel = "live" => rows # {}
           /\ \A u \in Users :
                shown[u] = IF channel = "live" /\ u \in rows THEN View(u)
                             ELSE None
=============================================================================
