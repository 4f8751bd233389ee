------------------------------- MODULE MCVoice -------------------------------
(* The media of a voice channel: a user is moved to another node, the      *)
(* cascade of a room over nodes, the waits at the registry of nodes, the   *)
(* node pool of a guild, the choice of a node, the detectors, and the      *)
(* deployment of a node.  They share no state, and a behaviour is one of   *)
(* them; the detectors, which share only the clock, are run one at a time. *)
(* Migration is the module extended, the others are instances beside it.   *)
EXTENDS Migration, TLC

CONSTANTS
  Users, MaxEpoch,
  Two, SmallPool, Admins, Defaults, MaxWaits,
  MaxUsers, Share, Life,
  Sustain, Window, Threshold, Cooldown, Dedup, Interval, MaxTime, MaxLives

VARIABLES
  part, at, moved, target, lease, edges, gone,
  edge, want, woken, call, waiting, onWire, answer,
  candidates, selection, fallback, revoked, checked,
  eligible, seen, items, made, refused,
  now, overSince, until, events, reports, lastSeen, fired, calm, downs,
  hostsActive, cancel, canceled, record, step, nodeRow, hostsSeen, remote,
  enabled, snatched, left, hostKey, server, pinned, asked, replaced, attached,
  came, doomed

Graph   == INSTANCE Cascade
Control == INSTANCE SfuControl
             WITH Waiters <- Two, Commands <- Two, MaxEpoch <- MaxWaits,
                  pending <- waiting
Pool    == INSTANCE NodePool WITH Nodes <- SmallPool, Managers <- Two
Choice  == INSTANCE Placement WITH Nodes <- SmallPool, Slots <- Users
Watch   == INSTANCE Detectors WITH Reporters <- Users
Hosts   == INSTANCE Deploy
             WITH Deployments <- Two, active <- hostsActive, seen <- hostsSeen,
                  node <- nodeRow, order <- asked

graphVars   == <<at, moved, target, lease, edges, gone>>
controlVars == <<edge, want, woken, call, waiting, onWire, answer>>
poolVars    == <<candidates, selection, fallback, revoked, checked>>
placeVars   == <<eligible, seen, items, made, refused>>
watchVars   == <<now, overSince, until, events, reports, lastSeen, fired, calm,
                 downs>>
hostsVars   == <<hostsActive, cancel, canceled, record, step, nodeRow, hostsSeen,
                 remote, enabled, snatched, left, hostKey, server, pinned, asked,
                 replaced, attached, came, doomed>>

MCInit ==
  /\ part \in {"move", "cascade", "control", "pool", "place",
                "overload", "edge", "ice", "hosts"}
  /\ Init /\ Graph!Init
  /\ Control!Init /\ Pool!Init /\ Choice!Init /\ Watch!Init /\ Hosts!Init
  /\ part \notin {"overload", "edge", "ice"} => lastSeen = None

Detector ==
  \/ part = "overload" /\ \E over \in BOOLEAN : Watch!Evaluate(over)
  \/ part = "edge" /\ Watch!EdgeDown
  \/ part = "ice" /\ \E u \in Users : Watch!HandleICEFailure(u)
  \/ part = "ice" /\ Watch!Heartbeat
  \/ part \in {"overload", "edge", "ice"} /\ Watch!TimePasses

MCNext ==
  \/ /\ part = "move" /\ Next
     /\ UNCHANGED <<part, graphVars, controlVars, poolVars, placeVars, watchVars, hostsVars>>
  \/ /\ part = "cascade" /\ Graph!Next
     /\ UNCHANGED <<part, vars, controlVars, poolVars, placeVars, watchVars, hostsVars>>
  \/ /\ part = "control" /\ Control!Next
     /\ UNCHANGED <<part, vars, graphVars, poolVars, placeVars, watchVars, hostsVars>>
  \/ /\ part = "pool" /\ Pool!Next
     /\ UNCHANGED <<part, vars, graphVars, controlVars, placeVars, watchVars, hostsVars>>
  \/ /\ part = "place" /\ Choice!Next
     /\ UNCHANGED <<part, vars, graphVars, controlVars, poolVars, watchVars, hostsVars>>
  \/ /\ Detector
     /\ UNCHANGED <<part, vars, graphVars, controlVars, poolVars, placeVars,
                    hostsVars>>
  \/ /\ part = "hosts" /\ Hosts!Next
     /\ UNCHANGED <<part, vars, graphVars, controlVars, poolVars, placeVars,
                    watchVars>>

all == <<part, vars, graphVars, controlVars, poolVars, placeVars, watchVars,
         hostsVars>>

MCSpec == MCInit /\ [][MCNext]_all

ASSUME NoneIsNoLease == None \notin Graph!Lease

HostNames ==
  {"record", "running", "succeeded", "failed", "canceled", "pending", "enrolled",
   "online", "disabled", "revoked", "launch", "validate", "connect", "precheck",
   "prepare", "create", "configure", "started", "wait", "look", "enable", "done",
   "clean", "delete", "finish"}

ASSUME NoneIsNoHost ==
  /\ None \notin Two /\ None \notin {1, 2} /\ None \notin HostNames
  /\ None \notin [keys : SUBSET {1, 2}, saved : BOOLEAN]

ASSUME FiniteParts == IsFiniteSet(Users) /\ IsFiniteSet(SmallPool)

ASSUME BoundsAreNumbers ==
  /\ MaxEpoch \in Nat \ {0}
  /\ MaxUsers \in [SmallPool -> Nat] /\ Share \in Nat
  /\ Sustain \in Nat /\ Window \in Nat /\ Threshold \in Nat
  /\ Cooldown \in [Watch!Kinds -> Nat]

(* Jobs that race for a user clear the source and spare his session.       *)
MovesAreSafe == []SourceCleared /\ EngineSparesSession

(* The graph of a room.                                                    *)
OneStar            == Graph!OneStar
JoinedReachAnchor  == Graph!JoinedReachAnchor
GraphLivesWithRoom == Graph!GraphLivesWithRoom

DeploymentsAreTrue == Hosts!DeploymentsAreTrue

WaitsAreMet      == Control!WaitsAreMet
FiresWithGrounds == Watch!FiresWithGrounds

(* A guild uses the nodes granted to it, and a node refuses a join only    *)
(* when it is full.                                                        *)
PlacedByRule == [](Choice!RefusedOnlyWhenFull) /\ Pool!GrantedOnly

MCMaxUsers == [n \in SmallPool |-> 3]
MCCooldown == [k \in {"overload", "edge", "ice"} |-> 3]

Symmetry == Permutations(Nodes) \cup Permutations(Users)
=============================================================================
