------------------------------- MODULE SfuNode -------------------------------
(***************************************************************************)
(* One SFU node: its row in sfu_nodes, which administrators, upgrades and  *)
(* the control service all write (httpapi/sfu_admin.go, sfunode/service.go,*)
(* voice/rolling_upgrade.go, sfucontrol/service.go), and its entry in the  *)
(* registry of control streams (sfucontrol/registry.go, earlydeath.go).    *)
(*                                                                         *)
(* Some handlers lock the row for the change they make; the others read    *)
(* it, decide what to write, and write that by id. Between the two the     *)
(* decision is pending, in "decided", and any other handler may run.       *)
(***************************************************************************)
EXTENDS Naturals, TLAPS

CONSTANTS
  Streams,      \* control streams; one that is over may stand for a new one
  Misses,       \* silent intervals after which a node is dead: 3 in the code
  None, Keep    \* no decision; a decision that leaves the status alone

Statuses == {"PENDING", "ENROLLED", "ONLINE", "DRAINING", "DISABLED", "REVOKED"}

\* Bound of the model: of the requests of administrators, a step of an upgrade
\* among them, one at a time is between its read and its write.
Writers == Streams \cup {"request"}

ASSUME SfuNodeAssumption ==
  /\ "request" \notin Streams /\ None \notin Streams
  /\ Misses \in Nat \ {0}
  /\ {None, Keep} \cap (Statuses \cup {"GONE"}) = {} /\ None # Keep

VARIABLES
  status,     \* SfuNode.status; "GONE" when there is no row
  token,      \* the row has an enrollment token that has not expired
  cert,       \* the row has the fingerprint of the node's certificate
  restoring,  \* a goroutine restores the node after an upgrade of its binary
  decided,    \* writer -> the status it is about to write
  current,    \* registry.conns: the node's control stream
  state,      \* registry.states: "none", or whether online
  attached,   \* nodeState.attached
  silent,     \* heartbeat intervals since nodeState.lastSeen, up to Misses
  phase,      \* stream -> where its Channel call is
  shut,       \* streams whose call goes on though their done channel is closed
  dying,      \* the monitor marked the node and has yet to declare it down
  down        \* declared down, and not attached since

row      == <<status, token, cert>>
registry == <<current, state, attached, silent>>
streams  == <<phase, shut>>
monitor  == <<dying, down>>
vars     == <<row, restoring, decided, registry, streams, monitor>>

NoDecision == [w \in Writers |-> None]

TypeOK ==
  /\ status \in Statuses \cup {"GONE"}
  /\ token \in BOOLEAN /\ cert \in BOOLEAN
  /\ restoring \in BOOLEAN
  /\ decided \in [Writers -> Statuses \cup {"GONE", None, Keep}]
  /\ current \in Streams \cup {None}
  /\ state \in {"none", "online", "dead"}
  /\ attached \in BOOLEAN /\ silent \in 0 .. Misses
  /\ phase \in [Streams -> {"over", "authed", "open", "registered", "ending"}]
  /\ shut \subseteq Streams
  /\ dying \in BOOLEAN /\ down \in BOOLEAN

Init ==
  /\ status = "GONE" /\ token = FALSE /\ cert = FALSE
  /\ restoring = FALSE /\ decided = NoDecision
  /\ current = None /\ state = "none" /\ attached = FALSE
  /\ silent = 0
  /\ phase = [s \in Streams |-> "over"] /\ shut = {}
  /\ dying = FALSE /\ down = FALSE

-----------------------------------------------------------------------------
(* The row.                                                                *)

\* Mutant: only a disabled node is turned away.
BarredButRevoked == {"GONE", "PENDING", "DISABLED"}

Barred == {"GONE", "PENDING", "DISABLED", "REVOKED"}

Decide(w, st) == decided[w] = None /\ decided' = [decided EXCEPT ![w] = st]

\* UPDATE ... WHERE id = ?: of the status that was decided on, whatever the
\* row says by now.
Carry(w) ==
  /\ decided[w] # None
  /\ status' = IF status = "GONE" \/ decided[w] = Keep THEN status ELSE decided[w]
  /\ decided' = [decided EXCEPT ![w] = None]

\* UPDATE ... WHERE status = ONLINE.
FallOffline == status' = IF status = "ONLINE" THEN "ENROLLED" ELSE status

CreateNode ==
  /\ status = "GONE"
  /\ status' = "PENDING" /\ token' = TRUE /\ cert' = FALSE
  /\ UNCHANGED <<restoring, decided, registry, streams, monitor>>

TokenExpires ==
  /\ token
  /\ token' = FALSE
  /\ UNCHANGED <<status, cert, restoring, decided, registry, streams, monitor>>

\* The row is updated only where it is still PENDING: a token counts once.
Enroll ==
  /\ status = "PENDING" /\ token
  /\ status' = "ENROLLED" /\ token' = FALSE /\ cert' = TRUE
  /\ UNCHANGED <<restoring, decided, registry, streams, monitor>>

-----------------------------------------------------------------------------
(* Administrators.                                                         *)

\* Registry.Disconnect: the stream itself stays until its Channel call ends.
Disconnect == shut' = shut \cup ({current} \ {None})

Patch ==
  /\ status \notin {"GONE", "REVOKED"}
  /\ \E to \in {"ENROLLED", "DISABLED", "REVOKED"} :
       /\ to = "ENROLLED" => cert /\ status \in {"DISABLED", "DRAINING"}
       /\ Decide("request", to)
  /\ UNCHANGED <<row, restoring, registry, streams, monitor>>

\* The write of PATCH, DELETE and the restorer.
RequestWrites ==
  /\ decided["request"] # "DRAINING" /\ Carry("request")
  /\ token' = (token /\ decided["request"] # "REVOKED")
  /\ IF decided["request"] \in {"DISABLED", "REVOKED"} THEN Disconnect ELSE UNCHANGED shut
  /\ UNCHANGED <<cert, restoring, registry, phase, monitor>>

Revoke ==
  /\ status # "GONE"
  /\ status' = "REVOKED" /\ token' = FALSE
  /\ Disconnect
  /\ UNCHANGED <<cert, restoring, decided, registry, phase, monitor>>

Delete ==
  /\ status = "PENDING"
  /\ Decide("request", "GONE")
  /\ UNCHANGED <<row, restoring, registry, streams, monitor>>

\* transitionStatus, under a lock of the row.
Drain ==
  /\ status = "ONLINE"
  /\ status' = "DRAINING"
  /\ UNCHANGED <<token, cert, restoring, decided, registry, streams, monitor>>

IsOnline == attached /\ state = "online"

\* Whether the node is online is asked before the row is locked.
Undrain ==
  /\ \/ status = "DRAINING" /\ status' \in {"ONLINE", "ENROLLED"}
     \/ status = "ENROLLED" /\ IsOnline /\ status' = "ONLINE"
     \/ status = "DISABLED" /\ ~IsOnline /\ status' = "ENROLLED"
     \/ status = "ONLINE" /\ ~IsOnline /\ status' = "ENROLLED"
  /\ UNCHANGED <<token, cert, restoring, decided, registry, streams, monitor>>

Enable ==
  /\ status \notin {"GONE", "REVOKED", "PENDING"}
  /\ status' = IF status \in {"DISABLED", "ENROLLED"}
                 THEN IF IsOnline THEN "ONLINE" ELSE "ENROLLED"
                 ELSE status
  /\ UNCHANGED <<token, cert, restoring, decided, registry, streams, monitor>>

-----------------------------------------------------------------------------
(* updateSfuBinary: drain, send the command, restore when it is accepted.  *)

UpgradeReads ==
  /\ status \notin {"GONE", "DRAINING", "DISABLED", "REVOKED"}
  /\ Decide("request", "DRAINING")
  /\ UNCHANGED <<row, restoring, registry, streams, monitor>>

\* UpdateBinary is accepted and the restorer starts; or it is refused, the
\* node is offline, the wait too long: then nobody takes the drain back.
UpgradeDrains ==
  /\ decided["request"] = "DRAINING" /\ Carry("request")
  /\ \/ current # None /\ current \notin shut /\ restoring' = TRUE
     \/ UNCHANGED restoring
  /\ UNCHANGED <<token, cert, registry, streams, monitor>>

\* RestoreSchedulingAfterUpgrade, every two seconds for three minutes.
RestoreReads ==
  /\ restoring /\ status \in {"DRAINING", "ENROLLED"}
  /\ Decide("request", IF IsOnline THEN "ONLINE" ELSE "ENROLLED")
  /\ UNCHANGED <<row, restoring, registry, streams, monitor>>

RestoreEnds ==
  /\ restoring
  /\ restoring' = FALSE
  /\ UNCHANGED <<row, decided, registry, streams, monitor>>

-----------------------------------------------------------------------------
(* A control stream: Service.Channel.                                      *)

Live(s) == phase[s] \in {"open", "registered"}

\* nodeFromPeer finds the node by its certificate and looks at its status.
Authenticate(s) ==
  /\ phase[s] = "over" /\ s # current
  /\ cert /\ status \notin Barred
  /\ phase' = [phase EXCEPT ![s] = "authed"]
  /\ UNCHANGED <<row, restoring, decided, registry, shut, monitor>>

\* Registry.Attach: a new entry; the stream it replaces is shut.
Attach(s) ==
  /\ phase[s] = "authed"
  /\ phase' = [phase EXCEPT ![s] = "open"]
  /\ current' = s /\ state' = "online" /\ attached' = TRUE
  /\ silent' = 0
  /\ shut' = shut \cup ({current} \ {None})
  /\ down' = FALSE
  /\ UNCHANGED <<row, restoring, decided, dying>>

\* handleRegister reads the status ...
RegisterReads(s) ==
  /\ Live(s) /\ status \notin Barred
  /\ Decide(s, IF status = "DRAINING" THEN Keep ELSE "ONLINE")
  /\ UNCHANGED <<row, restoring, registry, streams, monitor>>

\* Registry.UpdateCapacity: also of a node that was given up.
UpdateCapacity ==
  /\ state' = IF state = "none" THEN "none" ELSE "online"
  /\ silent' = IF state = "none" THEN silent ELSE 0
  /\ UNCHANGED <<current, attached>>

\* ... and writes ONLINE, or leaves DRAINING as it was.
RegisterWrites(s) ==
  /\ Live(s) /\ Carry(s)
  /\ phase' = [phase EXCEPT ![s] = "registered"]
  /\ UpdateCapacity
  /\ UNCHANGED <<token, cert, restoring, shut, monitor>>

\* Most heartbeats refresh the entry only, one in 30 s the row too.
Heartbeat(s) ==
  /\ Live(s) /\ decided[s] = None
  /\ UpdateCapacity
  /\ UNCHANGED <<row, restoring, decided, streams, monitor>>

\* Mutant: the heartbeat refreshes rows that say ONLINE only.
BeatableOnline == {"ONLINE"}

Beatable == {"ONLINE", "ENROLLED"}

HeartbeatSaved(s) ==
  /\ Live(s) /\ decided[s] = None
  /\ UpdateCapacity
  /\ status' = IF status \in Beatable THEN "ONLINE" ELSE status
  /\ UNCHANGED <<token, cert, restoring, decided, streams, monitor>>

\* The stream breaks, is shut, or Register is refused. Registry.Detach takes
\* out this stream and no other; the entry stays, for the monitor to find.
Detach(s) ==
  /\ current' = IF current = s THEN None ELSE current
  /\ attached' = IF current = s THEN FALSE ELSE attached
  /\ UNCHANGED <<state, silent>>

StreamEnds(s) ==
  /\ Live(s)
  /\ phase' = [phase EXCEPT ![s] = "ending"]
  /\ decided' = [decided EXCEPT ![s] = None]
  /\ shut' = shut \ {s}
  /\ Detach(s)
  /\ UNCHANGED <<row, restoring, monitor>>

\* Then the row falls offline, even when another stream is attached by now.
RowOffline(s) ==
  /\ phase[s] = "ending"
  /\ phase' = [phase EXCEPT ![s] = "over"]
  /\ FallOffline
  /\ UNCHANGED <<token, cert, restoring, decided, registry, shut, monitor>>

-----------------------------------------------------------------------------
(* The heartbeat monitor and early death.                                  *)

TimePasses ==
  /\ state # "none" /\ silent < Misses
  /\ silent' = silent + 1
  /\ UNCHANGED <<row, restoring, decided, current, state, attached, streams, monitor>>

Mark ==
  /\ state = "online" /\ ~dying
  /\ state' = "dead" /\ dying' = TRUE
  /\ UNCHANGED <<row, restoring, decided, current, attached, silent, streams, down>>

MarkStale == silent = Misses /\ Mark

\* After one silent interval, once two origins have accused the node within
\* the time a suspicion counts; who and when is left open.
MarkEarlyDead == silent >= 1 /\ Mark

\* declareNodeDown, after the registry's lock is gone.
DeclareDown ==
  /\ dying
  /\ dying' = FALSE /\ down' = TRUE
  /\ FallOffline
  /\ UNCHANGED <<token, cert, restoring, decided, registry, streams>>

\* The server stops; it starts with an empty registry (Serve) and the rows
\* that said ONLINE set back. What upgrades had in mind is forgotten.
Restart ==
  /\ FallOffline
  /\ restoring' = FALSE /\ decided' = NoDecision
  /\ current' = None /\ state' = "none" /\ attached' = FALSE
  /\ silent' = 0
  /\ phase' = [s \in Streams |-> "over"] /\ shut' = {}
  /\ dying' = FALSE /\ down' = FALSE
  /\ UNCHANGED <<token, cert>>

-----------------------------------------------------------------------------
Administration ==
  \/ CreateNode \/ TokenExpires \/ Enroll
  \/ Patch \/ Revoke \/ Delete \/ RequestWrites
  \/ Drain \/ Undrain \/ Enable
  \/ UpgradeReads \/ UpgradeDrains \/ RestoreReads \/ RestoreEnds

Stream(s) ==
  \/ Authenticate(s) \/ Attach(s) \/ RegisterReads(s) \/ RegisterWrites(s)
  \/ Heartbeat(s) \/ HeartbeatSaved(s) \/ StreamEnds(s) \/ RowOffline(s)

Monitor == TimePasses \/ MarkStale \/ MarkEarlyDead \/ DeclareDown

Next == Administration \/ (\E s \in Streams : Stream(s)) \/ Monitor \/ Restart

\* A node whose stream lives sends its heartbeats; the monitor ticks, and a
\* stream that is shut comes to its end.
Fairness ==
  /\ \A s \in Streams :
       /\ WF_vars(HeartbeatSaved(s)) /\ WF_vars(RegisterWrites(s))
       /\ WF_vars(s \in shut /\ StreamEnds(s)) /\ WF_vars(RowOffline(s))
  /\ WF_vars(TimePasses) /\ WF_vars(MarkStale) /\ WF_vars(DeclareDown)

Spec == Init /\ [][Next]_vars /\ Fairness

-----------------------------------------------------------------------------
(* Streams of a node come, replace one another and end in any order: the   *)
(* one that is open and not shut is the node's, so that commands reach it, *)
(* and the entry says attached exactly when the node has a stream whose    *)
(* call has not ended.                                                     *)
OpenIsCurrent ==
  /\ \A s \in Streams : Live(s) /\ s \notin shut => current = s
  /\ attached = (current # None)
  /\ current # None => Live(current) /\ state # "none"

(* A revoked node is back in service only through a handler that had read  *)
(* the row before it was revoked: no handler that starts after that        *)
(* decides on another status, whether stream, upgrade or administrator.    *)
RevokedStays ==
  [][ status = "REVOKED" =>
        /\ \A w \in Writers : decided[w] = None => decided'[w] \in {None, Keep}
        /\ status' # "REVOKED" => \E w \in Writers : decided[w] # None
    ]_vars

(* The registry and the row both follow the node that is entitled to them.  *)
NodeIsEntitled == []OpenIsCurrent /\ RevokedStays

(* The row of a node that is up is set ENROLLED when an older stream or    *)
(* the monitor is late; its heartbeats bring it back.                      *)
OnlineRegained ==
  \A s \in Streams :
    (phase[s] = "registered" /\ status = "ENROLLED")
      ~> (status # "ENROLLED" \/ phase[s] # "registered")

(* A node whose stream is gone and does not come back is declared down,    *)
(* which is what moves its users away; only a restart of the server can    *)
(* forget it.                                                              *)
LostIsDeclared ==
  (state # "none" /\ current = None) ~> (down \/ current # None \/ state = "none")

(* A node is put back into service or given up: never left in between.     *)
NodeSettles == OnlineRegained /\ LostIsDeclared

-----------------------------------------------------------------------------
(* Proofs, for any streams and any number of missed intervals, of the      *)
(* safety of the node.                                                     *)
(*                                                                         *)
(* OpenIsCurrent is inductive with the types: a stream becomes current     *)
(* when it opens and shuts the one before, and it was not that one, which  *)
(* has a phase of its own; a stream that ends takes out none but itself.   *)
(* RevokedStays asks of each action what it does to a revoked row: those   *)
(* that decide look at the status first, and those that write by a         *)
(* condition have one that a revoked row does not meet.                    *)

USE SfuNodeAssumption

StatusChoices == Statuses \cup {"GONE", None, Keep}

LEMMA Bounds == "request" \in Writers /\ Streams \subseteq Writers /\ 0 \in 0 .. Misses
BY DEF Writers

LEMMA TypesInit == Init => TypeOK
<1> SUFFICES ASSUME Init PROVE TypeOK
  OBVIOUS
<1>1. decided \in [Writers -> StatusChoices]
  BY DEF Init, NoDecision, StatusChoices
<1>2. phase \in [Streams -> {"over", "authed", "open", "registered", "ending"}]
  BY DEF Init
<1>3. QED
  BY <1>1, <1>2, Bounds DEF Init, TypeOK, StatusChoices, Statuses

(* What is decided is a status, or to leave it alone; and so is what is    *)
(* written.                                                                *)
LEMMA DecideTypes ==
  ASSUME TypeOK, NEW w \in Writers, NEW st \in StatusChoices, Decide(w, st)
  PROVE  decided' \in [Writers -> StatusChoices]
BY DEF TypeOK, StatusChoices, Decide

LEMMA CarryTypes ==
  ASSUME TypeOK, NEW w \in Writers, Carry(w)
  PROVE  decided' \in [Writers -> StatusChoices] /\ status' \in Statuses \cup {"GONE"}
<1>1. decided[w] \in StatusChoices \ {None}
  BY DEF TypeOK, StatusChoices, Carry
<1>2. QED
  BY <1>1 DEF TypeOK, StatusChoices, Carry

(* Every action keeps the types.                                           *)
LEMMA TypesNext == TypeOK /\ [Next]_vars => TypeOK'
<1> SUFFICES ASSUME TypeOK, [Next]_vars PROVE TypeOK'
  OBVIOUS
<1> USE Bounds
<1> USE DEF row, registry, streams, monitor
<1>1. CASE Administration
  <2>1. CASE CreateNode \/ TokenExpires \/ Enroll
    BY <2>1 DEF CreateNode, TokenExpires, Enroll, TypeOK, Statuses
  <2>2. CASE Patch
    BY <2>2, DecideTypes DEF Patch, TypeOK, StatusChoices, Statuses
  <2>3. CASE Revoke
    BY <2>3 DEF Revoke, Disconnect, TypeOK, Statuses
  <2>4. CASE Delete
    BY <2>4, DecideTypes DEF Delete, TypeOK, StatusChoices
  <2>5. CASE RequestWrites
    <3>1. decided' \in [Writers -> StatusChoices] /\ status' \in Statuses \cup {"GONE"}
      BY <2>5, CarryTypes DEF RequestWrites
    <3>2. token' \in BOOLEAN
      BY <2>5, Zenon DEF RequestWrites, TypeOK
    <3>3. shut' \subseteq Streams
      BY <2>5 DEF RequestWrites, Disconnect, TypeOK
    <3>4. QED
      BY <2>5, <3>1, <3>2, <3>3 DEF RequestWrites, TypeOK, StatusChoices
  <2>6. CASE Drain \/ Undrain \/ Enable
    BY <2>6 DEF Drain, Undrain, Enable, TypeOK, Statuses
  <2>7. CASE UpgradeReads
    BY <2>7, DecideTypes DEF UpgradeReads, TypeOK, StatusChoices, Statuses
  <2>8. CASE UpgradeDrains
    <3>1. decided' \in [Writers -> StatusChoices] /\ status' \in Statuses \cup {"GONE"}
      BY <2>8, CarryTypes DEF UpgradeDrains
    <3>2. QED
      BY <2>8, <3>1 DEF UpgradeDrains, TypeOK, StatusChoices
  <2>9. CASE RestoreReads
    BY <2>9, DecideTypes DEF RestoreReads, TypeOK, StatusChoices, Statuses
  <2>10. CASE RestoreEnds
    BY <2>10 DEF RestoreEnds, TypeOK
  <2>11. QED
    BY <1>1, <2>1, <2>2, <2>3, <2>4, <2>5, <2>6, <2>7, <2>8, <2>9, <2>10 DEF Administration
<1>2. ASSUME NEW s \in Streams, Stream(s) PROVE TypeOK'
  <2>1. CASE Authenticate(s)
    BY <2>1 DEF Authenticate, TypeOK
  <2>2. CASE Attach(s)
    BY <2>2 DEF Attach, TypeOK
  <2>3. CASE RegisterReads(s)
    BY <2>3, DecideTypes DEF RegisterReads, TypeOK, StatusChoices, Statuses
  <2>4. CASE RegisterWrites(s)
    <3>1. decided' \in [Writers -> StatusChoices] /\ status' \in Statuses \cup {"GONE"}
      BY <2>4, CarryTypes DEF RegisterWrites
    <3>2. QED
      BY <2>4, <3>1 DEF RegisterWrites, UpdateCapacity, TypeOK, StatusChoices
  <2>5. CASE Heartbeat(s)
    BY <2>5 DEF Heartbeat, UpdateCapacity, TypeOK
  <2>6. CASE HeartbeatSaved(s)
    BY <2>6 DEF HeartbeatSaved, UpdateCapacity, Beatable, TypeOK, Statuses
  <2>7. CASE StreamEnds(s)
    BY <2>7 DEF StreamEnds, Detach, TypeOK
  <2>8. CASE RowOffline(s)
    BY <2>8 DEF RowOffline, FallOffline, TypeOK, Statuses
  <2>9. QED
    BY <1>2, <2>1, <2>2, <2>3, <2>4, <2>5, <2>6, <2>7, <2>8 DEF Stream
<1>3. CASE Monitor
  <2>1. CASE TimePasses
    BY <2>1 DEF TimePasses, TypeOK
  <2>2. CASE Mark
    BY <2>2 DEF Mark, TypeOK
  <2>3. CASE DeclareDown
    BY <2>3 DEF DeclareDown, FallOffline, TypeOK, Statuses
  <2>4. QED
    BY <1>3, <2>1, <2>2, <2>3 DEF Monitor, MarkStale, MarkEarlyDead
<1>4. CASE Restart
  <2>1. decided' \in [Writers -> StatusChoices]
    BY <1>4 DEF Restart, NoDecision, StatusChoices
  <2>2. phase' \in [Streams -> {"over", "authed", "open", "registered", "ending"}]
    BY <1>4 DEF Restart
  <2>3. QED
    BY <1>4, <2>1, <2>2 DEF Restart, FallOffline, TypeOK, StatusChoices, Statuses
<1>5. CASE UNCHANGED vars
  BY <1>5 DEF vars, TypeOK
<1>6. QED
  BY <1>1, <1>2, <1>3, <1>4, <1>5 DEF Next

(* Every variable of the node keeps its type.                              *)
THEOREM TypeCorrect == Spec => []TypeOK
BY TypesInit, TypesNext, PTL DEF Spec

-----------------------------------------------------------------------------
(* The registry.                                                           *)

(* A step that leaves streams and registry alone, or shuts more streams.   *)
LEMMA RegistryKept ==
  ASSUME OpenIsCurrent, UNCHANGED <<current, attached, phase>>, shut \subseteq shut',
         state # "none" => state' # "none"
  PROVE  OpenIsCurrent'
BY DEF OpenIsCurrent, Live

LEMMA OpenNext == TypeOK /\ OpenIsCurrent /\ [Next]_vars => OpenIsCurrent'
<1> SUFFICES ASSUME TypeOK, OpenIsCurrent, [Next]_vars PROVE OpenIsCurrent'
  OBVIOUS
<1> USE DEF row, registry, streams, monitor
<1>1. CASE Administration
  <2>1. UNCHANGED <<current, attached, phase, state>> /\ shut \subseteq shut'
    BY <1>1 DEF Administration, CreateNode, TokenExpires, Enroll, Patch, Revoke, Delete,
                RequestWrites, Drain, Undrain, Enable, UpgradeReads, UpgradeDrains,
                RestoreReads, RestoreEnds, Disconnect
  <2>2. QED
    BY <2>1, RegistryKept
<1>2. ASSUME NEW s \in Streams, Stream(s) PROVE OpenIsCurrent'
  <2>1. CASE Authenticate(s)
    BY <2>1 DEF Authenticate, OpenIsCurrent, Live, TypeOK
  <2>2. CASE Attach(s)
    BY <2>2 DEF Attach, OpenIsCurrent, Live, TypeOK
  <2>3. CASE RegisterReads(s)
    BY <2>3, RegistryKept DEF RegisterReads
  <2>4. CASE RegisterWrites(s)
    BY <2>4 DEF RegisterWrites, UpdateCapacity, OpenIsCurrent, Live, TypeOK
  <2>5. CASE Heartbeat(s) \/ HeartbeatSaved(s)
    BY <2>5, RegistryKept DEF Heartbeat, HeartbeatSaved, UpdateCapacity
  <2>6. CASE StreamEnds(s)
    BY <2>6 DEF StreamEnds, Detach, OpenIsCurrent, Live, TypeOK
  <2>7. CASE RowOffline(s)
    BY <2>7 DEF RowOffline, OpenIsCurrent, Live, TypeOK
  <2>8. QED
    BY <1>2, <2>1, <2>2, <2>3, <2>4, <2>5, <2>6, <2>7 DEF Stream
<1>3. CASE Monitor
  BY <1>3, RegistryKept DEF Monitor, TimePasses, MarkStale, MarkEarlyDead, Mark, DeclareDown
<1>4. CASE Restart
  BY <1>4 DEF Restart, OpenIsCurrent, Live
<1>5. CASE UNCHANGED vars
  BY <1>5, RegistryKept DEF vars
<1>6. QED
  BY <1>1, <1>2, <1>3, <1>4, <1>5 DEF Next

LEMMA OpenAlways == Spec => []OpenIsCurrent
<1>1. Init => OpenIsCurrent
  BY DEF Init, OpenIsCurrent, Live
<1>2. QED
  BY <1>1, TypeCorrect, OpenNext, PTL DEF Spec

-----------------------------------------------------------------------------
(* The row of a revoked node.                                              *)

\* The action of RevokedStays.
HoldsRevoked ==
  status = "REVOKED" =>
    /\ \A w \in Writers : decided[w] = None => decided'[w] \in {None, Keep}
    /\ status' # "REVOKED" => \E w \in Writers : decided[w] # None

LEMMA RevokedNext == TypeOK /\ [Next]_vars => HoldsRevoked
<1> SUFFICES ASSUME TypeOK, [Next]_vars, status = "REVOKED" PROVE HoldsRevoked
  BY DEF HoldsRevoked
<1> USE Bounds
<1> USE DEF row, registry, streams, monitor
<1>1. ASSUME UNCHANGED <<status, decided>> PROVE HoldsRevoked
  BY <1>1 DEF HoldsRevoked
<1>2. ASSUME NEW w \in Writers, Carry(w) PROVE HoldsRevoked
  BY <1>2 DEF Carry, HoldsRevoked, TypeOK
<1>3. CASE Administration
  <2>1. CASE RequestWrites \/ UpgradeDrains
    BY <2>1, <1>2 DEF RequestWrites, UpgradeDrains
  <2>2. CASE CreateNode \/ TokenExpires \/ Enroll \/ Revoke \/ Drain \/ Undrain \/ Enable \/ RestoreEnds
    BY <2>2, <1>1 DEF CreateNode, TokenExpires, Enroll, Revoke, Drain, Undrain, Enable, RestoreEnds
  <2>3. ~ (Patch \/ Delete \/ UpgradeReads \/ RestoreReads)
    BY DEF Patch, Delete, UpgradeReads, RestoreReads
  <2>4. QED
    BY <1>3, <2>1, <2>2, <2>3 DEF Administration
<1>4. ASSUME NEW s \in Streams, Stream(s) PROVE HoldsRevoked
  <2>1. CASE RegisterWrites(s)
    BY <2>1, <1>2 DEF RegisterWrites
  <2>2. CASE StreamEnds(s)
    BY <2>2 DEF StreamEnds, HoldsRevoked, TypeOK
  <2>3. CASE Attach(s) \/ Heartbeat(s) \/ HeartbeatSaved(s) \/ RowOffline(s)
    BY <2>3, <1>1 DEF Attach, Heartbeat, HeartbeatSaved, RowOffline, FallOffline, Beatable
  <2>4. ~ (Authenticate(s) \/ RegisterReads(s))
    BY DEF Authenticate, RegisterReads, Barred
  <2>5. QED
    BY <1>4, <2>1, <2>2, <2>3, <2>4 DEF Stream
<1>5. CASE Monitor
  BY <1>5, <1>1 DEF Monitor, TimePasses, MarkStale, MarkEarlyDead, Mark, DeclareDown, FallOffline
<1>6. CASE Restart
  BY <1>6 DEF Restart, NoDecision, FallOffline, HoldsRevoked
<1>7. CASE UNCHANGED vars
  BY <1>7, <1>1 DEF vars
<1>8. QED
  BY <1>3, <1>4, <1>5, <1>6, <1>7 DEF Next

(* Whatever streams, administrators, upgrades, the monitor and restarts do *)
(* at the same time: commands reach the stream that is open, the entry     *)
(* says attached when there is one, and a revoked row stays revoked but    *)
(* for a handler that had read it before.                                  *)
THEOREM NodeStaysEntitled == Spec => NodeIsEntitled
<1>1. TypeOK /\ [Next]_vars => [HoldsRevoked]_vars
  BY RevokedNext
<1>2. Spec => [][HoldsRevoked]_vars
  BY <1>1, TypeCorrect, PTL DEF Spec
<1>3. Spec => RevokedStays
  BY <1>2 DEF HoldsRevoked, RevokedStays
<1>4. QED
  BY <1>3, OpenAlways, PTL DEF NodeIsEntitled
=============================================================================
