------------------------------- MODULE Cascade -------------------------------
(***************************************************************************)
(* The cascade graph of one voice room (voice/cascade.go): the lease names *)
(* its anchor and epoch, the edges hang every other node that serves the   *)
(* room below the anchor. Joins and prepared migrations add to the graph   *)
(* (ensureCascade), leaves and finished migrations take from it            *)
(* (cascadeAfterLeave), the loss of a node rebuilds it (migrateNode,       *)
(* reRoot).                                                                *)
(*                                                                         *)
(* All of it runs under Service.mu, the wait for an edge included, so that *)
(* each handler is one action, whose calls to nodes may fail. What the     *)
(* nodes make of the graph is theirs, and left out: that a node is let in  *)
(* stands for an edge that came up in time. The guild keeps its nodes in   *)
(* its pool, and a node that is gone (dead, or draining) does not return.  *)
(***************************************************************************)
EXTENDS Naturals, FiniteSets

CONSTANTS
  Users,
  Nodes,
  None,
  MaxEpoch       \* bound of the model

Lease == [anchor : Nodes, epoch : 1 .. MaxEpoch]
Edge  == [parent : Nodes, child : Nodes, epoch : 1 .. MaxEpoch]

VARIABLES
  at,       \* user -> VoiceState.node_id, None outside the room
  moved,    \* users whom a migration brought to their node
  target,   \* user -> to_node_id of the migration that passed PREPARE
  lease,    \* VoiceAnchorLease of the room, or None
  edges,    \* VoiceCascadeEdge rows of the room
  gone      \* nodes that migrateNode evacuated

vars == <<at, moved, target, lease, edges, gone>>

Init ==
  /\ at = [u \in Users |-> None] /\ moved = {}
  /\ target = [u \in Users |-> None]
  /\ lease = None /\ edges = {} /\ gone = {}

\* roomUsersByNode, for the voice states a.
UsersOn(a, n) == {u \in Users : a[u] = n}
Serving(a) == {n \in Nodes : UsersOn(a, n) # {}}

-----------------------------------------------------------------------------
(* ensureCascade: n reaches the anchor when it returns without error.      *)

HasEdge(n) == \E e \in edges : e.child = n

Hang(n) == edges \cup {[parent |-> lease.anchor, child |-> n, epoch |-> lease.epoch]}

\* The first on the scene becomes the anchor ...
FirstAnchor(n) ==
  /\ lease = None
  /\ lease' = [anchor |-> n, epoch |-> 1]
  /\ UNCHANGED edges

\* ... a node of the graph has what it needs ...
AlreadyReaches(n) ==
  /\ lease # None
  /\ n = lease.anchor \/ HasEdge(n)
  /\ UNCHANGED <<lease, edges>>

\* ... and any other gets an edge.
HangEdge(n) ==
  /\ lease # None
  /\ n # lease.anchor /\ ~HasEdge(n)
  /\ edges' = Hang(n)
  /\ UNCHANGED lease

EnsureCascade(n) == FirstAnchor(n) \/ AlreadyReaches(n) \/ HangEdge(n)

\* It fails: the edge that did not come up is taken back, the lease is not.
EnsureFailed(n) == FirstAnchor(n) \/ (lease # None /\ UNCHANGED <<lease, edges>>)

\* It succeeds and a later step fails, or the server stops in the wait: what
\* it made stays.
LeftBehind(n) == EnsureFailed(n) \/ EnsureCascade(n)

-----------------------------------------------------------------------------
(* reRoot, and cascadeAfterLeave when n has lost a user.                   *)

\* electAnchor: most users first; load, region and id break ties.
Elected(a, candidates) ==
  {n \in candidates : \A m \in candidates :
     Cardinality(UsersOn(a, m)) <= Cardinality(UsersOn(a, n))}

StarBesideOld(root, nodes, epoch) ==    \* mutant: the old edges stay
  edges \cup {[parent |-> root, child |-> n, epoch |-> epoch] : n \in nodes \ {root}}
Star(root, nodes, epoch) ==
  {[parent |-> root, child |-> n, epoch |-> epoch] : n \in nodes \ {root}}

ReRoot(a, excluded) ==
  LET candidates == Serving(a) \ excluded
  IN  /\ lease.epoch < MaxEpoch
      /\ \E root \in Elected(a, candidates) :
           /\ lease' = [anchor |-> root, epoch |-> lease.epoch + 1]
           /\ edges' = Star(root, candidates, lease.epoch + 1)

ReleaseEdges ==                         \* mutant: the lease stays
  /\ edges' = {}
  /\ UNCHANGED lease
Release ==
  /\ lease' = None
  /\ edges' = {}

StillServingNobody(a, n) == FALSE       \* mutant: it is not asked
StillServing(a, n) == n \in Serving(a)

CascadeAfterLeave(a, n) ==
  \/ Serving(a) = {} /\ Release
  \/ /\ Serving(a) # {}
     /\ StillServing(a, n) \/ lease = None
     /\ UNCHANGED <<lease, edges>>
  \/ /\ Serving(a) # {} /\ ~StillServing(a, n) /\ lease # None
     /\ IF lease.anchor = n
          THEN ReRoot(a, {n})
          ELSE /\ edges' = {e \in edges : e.child # n}
               /\ UNCHANGED lease

-----------------------------------------------------------------------------
(* Joins and leaves. A join of the room the user is in replaces the node   *)
(* in his row and does not look at the old one.                            *)

Canceled(u) == [target EXCEPT ![u] = None]

Join(u, n) ==
  /\ n \notin gone
  /\ EnsureCascade(n)
  /\ at' = [at EXCEPT ![u] = n]
  /\ moved' = moved \ {u}
  /\ target' = Canceled(u)
  /\ UNCHANGED gone

JoinFailed(u, n) ==
  /\ n \notin gone
  /\ LeftBehind(n)
  /\ target' = Canceled(u)
  /\ UNCHANGED <<at, moved, gone>>

Leave(u) ==
  /\ at[u] # None
  /\ at' = [at EXCEPT ![u] = None]
  /\ moved' = moved \ {u}
  /\ target' = Canceled(u)
  /\ CascadeAfterLeave(at', at[u])
  /\ UNCHANGED gone

-----------------------------------------------------------------------------
(* Migrations (Migration has their life cycle): what PREPARE and CLEANUP   *)
(* do to the graph.                                                        *)

Prepared(u, n) ==
  /\ at[u] # None /\ n # at[u] /\ n \notin gone
  /\ EnsureCascade(n)
  /\ target' = [target EXCEPT ![u] = n]
  /\ UNCHANGED <<at, moved, gone>>

PrepareFailed(u, n) ==
  /\ at[u] # None /\ n # at[u] /\ n \notin gone
  /\ LeftBehind(n)
  /\ target' = Canceled(u)
  /\ UNCHANGED <<at, moved, gone>>

\* It is canceled or times out: the graph is not asked.
MigrationEnded(u) ==
  /\ target[u] # None
  /\ target' = Canceled(u)
  /\ UNCHANGED <<at, moved, lease, edges, gone>>

Cleanup(u) ==
  /\ target[u] # None
  /\ at' = [at EXCEPT ![u] = target[u]]
  /\ moved' = moved \cup {u}
  /\ target' = Canceled(u)
  /\ CascadeAfterLeave(at', at[u])
  /\ UNCHANGED gone

(* migrateNode: a dead or draining node gives up the root. Without another *)
(* candidate the graph is dropped, for the next node to start over. The    *)
(* migrations of its users give way to new ones, where these rank higher.  *)
GivesUpRoot(n) == UsersOn(at, n) # {} /\ lease # None /\ lease.anchor = n

MigrateNode(n) ==
  /\ n \notin gone
  /\ gone' = gone \cup {n}
  /\ \/ ~GivesUpRoot(n) /\ UNCHANGED <<lease, edges>>
     \/ GivesUpRoot(n) /\ Serving(at) = {n} /\ Release
     \/ GivesUpRoot(n) /\ Serving(at) # {n} /\ ReRoot(at, {n})
  /\ \E preempted \in SUBSET UsersOn(at, n) :
       target' = [u \in Users |-> IF u \in preempted THEN None ELSE target[u]]
  /\ UNCHANGED <<at, moved>>

Next ==
  \/ \E u \in Users, n \in Nodes :
       \/ Join(u, n) \/ JoinFailed(u, n)
       \/ Prepared(u, n) \/ PrepareFailed(u, n)
  \/ \E u \in Users : Leave(u) \/ MigrationEnded(u) \/ Cleanup(u)
  \/ \E n \in Nodes : MigrateNode(n)

Spec == Init /\ [][Next]_vars

-----------------------------------------------------------------------------
(* Properties.                                                             *)

TypeOK ==
  /\ at \in [Users -> Nodes \cup {None}] /\ target \in [Users -> Nodes \cup {None}]
  /\ moved \subseteq {u \in Users : at[u] # None}
  /\ \A u \in Users : target[u] # None => at[u] # None
  /\ lease \in Lease \cup {None}
  /\ edges \subseteq Edge
  /\ gone \subseteq Nodes

(* The graph is one star: every edge hangs a node below the anchor of the  *)
(* lease, at the epoch of the lease, and no graph is left without a lease. *)
(* Joins, leaves, migrations, failures and changes of the root keep it so. *)
OneStar ==
  /\ lease = None => edges = {}
  /\ \A e \in edges : e.parent = lease.anchor /\ e.epoch = lease.epoch /\ e.child # lease.anchor

Reaches(n) == lease # None /\ (n = lease.anchor \/ HasEdge(n))

(* Whoever joined on a node reaches the anchor from there, whatever others *)
(* do: who leaves, moves away or fails to come in, and which root falls.   *)
JoinedReachAnchor ==
  \A u \in Users : at[u] \notin gone \cup {None} /\ u \notin moved => Reaches(at[u])

(* The last to leave takes the graph along, and nothing else does but the  *)
(* loss of an anchor that served everyone: a graph that is dropped under   *)
(* the users in a room would cut all of them off.                          *)
GraphLivesWithRoom ==
  [][lease # None /\ Serving(at) # {} =>
       (lease' = None <=> \/ Serving(at') = {}
                          \/ Serving(at) = {lease.anchor} /\ lease.anchor \in gone' \ gone)]_vars

-----------------------------------------------------------------------------
(* What comments say and the code does not do.                             *)

(* ensureCascade guarantees that a node reaches the anchor, but to the end *)
(* of a migration it does not last: in between, the edge of the target is  *)
(* taken away with the last user of that node, or with the root.           *)
MovedReachAnchor ==
  \A u \in moved : at[u] \notin gone => Reaches(at[u])

(* Candidates for the root are neither dead nor draining. Only the node    *)
(* that is left is excluded: another may have been evacuated before and    *)
(* still have its users.                                                   *)
NewRootServes ==
  [][lease # None /\ lease' # None /\ lease' # lease => lease'.anchor \notin gone]_vars

(* Nothing half-made stays (docs 08 10): a graph exists for users only. A  *)
(* first join that fails leaves its lease, a rejoin or a migration that    *)
(* ends early its edge.                                                    *)
EdgesServeUsers ==
  /\ lease # None => \E u \in Users : at[u] # None
  /\ \A e \in edges : \E u \in Users : e.child \in {at[u], target[u]}
=============================================================================
