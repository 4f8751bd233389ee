----------------------------- MODULE Placement ------------------------------
(* Choosing a node for a session.  The load of a node is what its last      *)
(* heartbeat said plus the reservations made since, which live for a fixed  *)
(* time whatever becomes of the session.  A join tries the candidates in    *)
(* the order of their score and gives back the reservation of each one that *)
(* fails; a share of every node is kept for migrations.  Scores (RTT,       *)
(* region, stickiness, place in the tree) are abstracted to any order.      *)
EXTENDS Naturals, FiniteSets, SequencesExt

CONSTANTS
  Nodes,
  MaxUsers,      \* capacity of a node, a function of the node
  Share,         \* places of a node kept for migrations
  Life,          \* of a reservation
  Slots          \* bound: reservations that may live at a time

VARIABLES
  eligible,      \* nodes in the pool that are ONLINE, enabled, not draining
  seen,          \* by node, users at its last heartbeat
  items,         \* reservations: by slot, [node, left], or the empty record
  made,          \* by slot, the session placed with its reservation (history)
  refused        \* by node, whether the last join was refused for want of room

vars == <<eligible, seen, items, made, refused>>

Free  == [node |-> {}, left |-> 0]
Items == {Free} \cup [node : {{n} : n \in Nodes}, left : 1 .. Life]

Init ==
  /\ eligible = Nodes
  /\ seen = [n \in Nodes |-> 0]
  /\ items = [s \in Slots |-> Free]
  /\ made = [s \in Slots |-> Free]
  /\ refused = FALSE

-----------------------------------------------------------------------------
ActiveByNode(n) == Cardinality({s \in Slots : items[s].node = {n}})

Used(n) == seen[n] + ActiveByNode(n)

PassHardFilter(n, mode, from) ==
  /\ n \in eligible
  /\ n \notin from
  /\ Used(n) + 1 <= MaxUsers[n] - (IF mode = "JOIN" THEN Share ELSE 0)

(* schedule: the candidates that pass, in some order                        *)
Schedules(mode, from) ==
  SetToSeqs({n \in Nodes : PassHardFilter(n, mode, from)})

Reserved(n) == [node |-> {n}, left |-> Life]

(* Nodes before the i-th fail and their reservations go; the i-th succeeds, *)
(* or, beyond the end, none does.                                           *)
Attempt(order, i, s) ==
  IF i \in DOMAIN order
    THEN /\ items' = [items EXCEPT ![s] = Reserved(order[i])]
         /\ made' = [made EXCEPT ![s] = Reserved(order[i])]
    ELSE UNCHANGED <<items, made>>

HandleJoin(i, s) ==
  /\ items[s] = Free
  /\ \E order \in Schedules("JOIN", {}) :
       /\ i \in 1 .. Len(order) + 1
       /\ refused' = (order = <<>>)
       /\ Attempt(order, i, s)
  /\ UNCHANGED <<eligible, seen>>

(* Prepare of a migration reserves the one target it picked, and gives it   *)
(* back when any later step fails.                                          *)
Prepare(from, ok, s) ==
  /\ items[s] = Free
  /\ \E order \in Schedules("MIGRATE", {from}) :
       /\ order # <<>>
       /\ Attempt(<<Head(order)>>, IF ok THEN 1 ELSE 2, s)
  /\ UNCHANGED <<eligible, seen, refused>>

Heartbeat(n, users) ==
  /\ seen' = [seen EXCEPT ![n] = users]
  /\ refused' = FALSE
  /\ UNCHANGED <<eligible, items, made>>

PoolOrNodeChanges(n) ==
  /\ eligible' = IF n \in eligible THEN eligible \ {n} ELSE eligible \cup {n}
  /\ refused' = FALSE
  /\ UNCHANGED <<seen, items, made>>

Older(table) == [s \in Slots |-> IF table[s].left <= 1 THEN Free
                                 ELSE [table[s] EXCEPT !.left = @ - 1]]

TimePasses ==
  /\ items' = Older(items)
  /\ made' = Older(made)
  /\ refused' = FALSE
  /\ UNCHANGED <<eligible, seen>>

Next ==
  \/ \E s \in Slots :
       \/ \E i \in 1 .. Cardinality(Nodes) + 1 : HandleJoin(i, s)
       \/ \E from \in Nodes, ok \in BOOLEAN : Prepare(from, ok, s)
  \/ \E n \in Nodes :
       \/ \E users \in 0 .. MaxUsers[n] : Heartbeat(n, users)
       \/ PoolOrNodeChanges(n)
  \/ TimePasses

Spec == Init /\ [][Next]_vars

-----------------------------------------------------------------------------
(* A join is refused only when every node it could use is really taken: by  *)
(* users its heartbeat reported and sessions placed within the life of a    *)
(* reservation, never by places reserved for attempts that failed.          *)
Placed(n) == Cardinality({s \in Slots : made[s].node = {n}})

RefusedOnlyWhenFull ==
  refused => \A n \in eligible :
               seen[n] + Placed(n) >= MaxUsers[n] - Share
=============================================================================
