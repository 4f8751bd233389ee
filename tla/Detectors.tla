----------------------------- MODULE Detectors ------------------------------
(* What moves the sessions off a node nobody asked to drain: the overload   *)
(* detector, the count of EdgeDown on the edge to a leaf, and the clients'  *)
(* reports of failed ICE.  Each watches one node with clocks and tables     *)
(* that only memory holds; they share the wall clock alone.  What is done   *)
(* with the sessions once moved is Migration's subject.                     *)
EXTENDS Integers, FiniteSets

CONSTANTS
  Reporters,     \* users with a session on the node
  Sustain,       \* overload must last this long
  Window,        \* EdgeDown and reports older than this do not count
  Threshold,     \* EdgeDown needed in the window
  Cooldown,      \* by detector, how long it then rests
  Dedup,         \* a second report of a user within this is not recorded
  Interval,      \* of heartbeats
  MaxTime,       \* bound of the model
  None

Kinds == {"overload", "edge", "ice"}
Times == 0 .. MaxTime

VARIABLES
  now,
  overSince,     \* overload.go: since when every evaluation was over, or None
  until,         \* by detector, end of its rest, or None: cooldownUntil, declaredAt
  events,        \* partition.go: times of EdgeDown that are kept
  reports,       \* icefailure.go: by user, when the last report counted
  lastSeen,      \* last heartbeat of the node, or None
  fired,         \* by detector, when it moved the sessions (history)
  calm,          \* last time the node was not seen overloaded (history)
  downs          \* times of all EdgeDown since the last one acted on (history)

vars == <<now, overSince, until, events, reports, lastSeen, fired, calm, downs>>

Init ==
  /\ now = 0
  /\ overSince = None
  /\ until = [k \in Kinds |-> None]
  /\ events = {} /\ reports = [u \in Reporters |-> None]
  /\ lastSeen \in {None, 0}
  /\ fired = [k \in Kinds |-> {}]
  /\ calm = 0 /\ downs = {}

-----------------------------------------------------------------------------
Resting(k) == until[k] # None /\ now < until[k]

Fire(k) ==
  /\ until' = [until EXCEPT ![k] = now + Cooldown[k]]
  /\ fired' = [fired EXCEPT ![k] = @ \cup {now}]

Hold == UNCHANGED <<until, fired>>

CalmWakes == /\ overSince' = None
             /\ calm' = now
             /\ until' = [until EXCEPT !["overload"] = None]
             /\ UNCHANGED fired

(* overloadTick: a node that is not over any more starts from the beginning *)
Calm == /\ overSince' = None
        /\ calm' = now
        /\ Hold

Overloaded ==
  /\ UNCHANGED calm
  /\ IF overSince = None
       THEN overSince' = now /\ Hold
       ELSE /\ UNCHANGED overSince
            /\ IF now - overSince >= Sustain /\ ~Resting("overload")
                 THEN Fire("overload") ELSE Hold

Evaluate(over) ==
  /\ IF over THEN Overloaded ELSE Calm
  /\ UNCHANGED <<now, events, reports, lastSeen, downs>>

(* handleEdgeDown, once the sender is believed.  Two EdgeDown of one instant*)
(* are two entries in the code; here they are of two instants.              *)
Kept == {t \in events : now - t <= Window} \cup {now}

EdgeDown ==
  /\ now \notin downs
  /\ IF Resting("edge") \/ Cardinality(Kept) < Threshold
       THEN events' = Kept /\ downs' = downs \cup {now} /\ Hold
       ELSE events' = {} /\ downs' = {} /\ Fire("edge")
  /\ UNCHANGED <<now, overSince, reports, lastSeen, calm>>

(* A user on the node reports.  The sessions move when two users have, and  *)
(* the heartbeat is late; a node that never beat is left alone.             *)
Dropped(table) == [u \in Reporters |->
  IF table[u] # None /\ now - table[u] > Window THEN None ELSE table[u]]

Recorded(u) == Dropped([reports EXCEPT ![u] = now])

Silent == lastSeen # None /\ now - lastSeen > Interval

MaybeDeclareNodeDown(table) ==
  IF /\ Cardinality({u \in Reporters : table[u] # None}) >= 2
     /\ Silent
     /\ ~Resting("ice")
    THEN Fire("ice") ELSE Hold

HandleICEFailure(u) ==
  /\ IF reports[u] # None /\ now - reports[u] < Dedup
       THEN reports' = Dropped(reports) /\ Hold
       ELSE reports' = Recorded(u) /\ MaybeDeclareNodeDown(Recorded(u))
  /\ UNCHANGED <<now, overSince, events, lastSeen, calm, downs>>

Heartbeat ==
  /\ lastSeen' = now
  /\ UNCHANGED <<now, overSince, until, events, reports, fired, calm, downs>>

TimePasses ==
  /\ now < MaxTime
  /\ now' = now + 1
  /\ UNCHANGED <<overSince, until, events, reports, lastSeen, fired, calm, downs>>

Next ==
  \/ \E over \in BOOLEAN : Evaluate(over)
  \/ EdgeDown
  \/ \E u \in Reporters : HandleICEFailure(u)
  \/ Heartbeat
  \/ TimePasses

Spec == Init /\ [][Next]_vars

-----------------------------------------------------------------------------
(* Sessions are moved only with grounds, and a detector then rests, however *)
(* often the load rises and falls, the edge flaps or the users report: the  *)
(* node was not seen calm for as long as the detector says; EdgeDown came   *)
(* often enough in the window since they were last acted on; two users      *)
(* failed and the heartbeat is late.                                        *)
Grounds(k) ==
  CASE k = "overload" -> now - calm >= Sustain
    [] k = "edge" -> Cardinality({t \in downs \cup {now} : now - t <= Window})
                       >= Threshold
    [] k = "ice"  -> /\ Silent
                     /\ Cardinality({u \in Reporters :
                          reports'[u] # None /\ now - reports'[u] <= Window}) >= 2

FiresWithGrounds ==
  [][\A k \in Kinds : \A t \in fired'[k] \ fired[k] :
       Grounds(k) /\ \A s \in fired[k] : t - s >= Cooldown[k]]_vars
=============================================================================
