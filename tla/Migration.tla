----------------------------- MODULE Migration ------------------------------
(***************************************************************************)
(* Live migration of one user of one guild between SFU nodes               *)
(* (voice/migration.go), with the joins and leaves that race with it       *)
(* (voice/handlers.go, voice/orchestration.go).                            *)
(*                                                                         *)
(* The voice state and the jobs are rows of the database. Joins, leaves,   *)
(* job creation, PREPARE and CLEANUP hold Service.mu. The engine's tick    *)
(* loads all jobs without it and then steps through its copies; the ack    *)
(* handler reads and writes its job without it too. A media session is the *)
(* number of its sid. Cascade and capacity are abstracted to a placement   *)
(* that may fail; time, to deadlines that may have passed at any step.     *)
(***************************************************************************)
EXTENDS Integers, FiniteSets, SequencesExt

CONSTANTS
  Nodes, Rooms, Jobs, None,
  Priorities,   \* priorities of the reasons for which jobs are created
  MaxJoins,     \* bound of the model: joins after the first
  MaxFaults     \* bound of the model: restarts and failed updates

ASSUME MigrationAssumption ==
  /\ None \notin Nodes \cup Rooms \cup Jobs \cup Nat
  /\ IsFiniteSet(Jobs) /\ Priorities \subseteq Nat
  /\ MaxJoins \in Nat /\ MaxFaults \in Nat

VARIABLES
  room,      \* VoiceState.channel_id
  node,      \* VoiceState.node_id
  sid,       \* VoiceState.voice_session_id
  issued,    \* what each sid was issued for, by number
  held,      \* sids whose session is open on its node
  job,       \* the rows of voice_migration_jobs
  due,       \* copies that the tick has still to step through, in order
  acking,    \* jobs whose ack was read as CONNECT and not written yet
  joins, faults

voice == <<room, node, sid, issued>>
vars == <<voice, held, job, due, acking, joins, faults>>

NoJob == [st |-> "none"]
Active == {j \in Jobs : job[j].st \notin {"none", "DONE", "CANCELED"}}

\* The user is in a voice channel, connected to its node.
Init ==
  /\ room \in Rooms /\ node \in Nodes
  /\ sid = 1 /\ issued = <<[node |-> node, room |-> room]>> /\ held = {1}
  /\ job = [j \in Jobs |-> NoJob]
  /\ due = <<>> /\ acking = {} /\ joins = 0 /\ faults = 0

-----------------------------------------------------------------------------
(* Jobs.                                                                   *)

Set(j, st) == [job EXCEPT ![j].st = st]

\* applyEvent(evCancel): CLEANUP cannot be canceled any more.
Cancelable == {"QUEUED", "PREPARE", "CONNECT", "CUTOVER", "FAILED"}
Canceled(j) == IF job[j].st \in Cancelable THEN Set(j, "CANCELED") ELSE job

\* cancelActive: the first active job that the query returns.
CancelActive ==
  \/ Active = {} /\ UNCHANGED job
  \/ \E j \in Active : job' = Canceled(j)

NewJob(p, t) ==
  [id |-> None, st |-> "QUEUED", pri |-> p, from |-> node, to |-> t, room |-> room,
   tried |-> {}, fromSid |-> None]

(* createJob: an active job of the same or a higher priority absorbs the   *)
(* request; one of a lower priority is preempted.                          *)
Preempted(e, p) == job[e].pri < p

Create(j, p, t) ==
  /\ job[j] = NoJob /\ node # None /\ t # node
  /\ \/ /\ Active = {}
        /\ job' = [job EXCEPT ![j] = NewJob(p, t)]
     \/ \E e \in Active :
          /\ Preempted(e, p)
          /\ job' = [Canceled(e) EXCEPT ![j] = NewJob(p, t)]
  /\ UNCHANGED <<voice, held, due, acking, joins, faults>>

-----------------------------------------------------------------------------
(* Joins and leaves.                                                       *)

\* What DisconnectUser finds on the user's node.
Here == {i \in DOMAIN issued : issued[i] = [node |-> node, room |-> room]}

NextSid == Len(issued) + 1

\* placeOnNode: a new sid, bound to n.
Place(r, n) ==
  /\ room' = r /\ node' = n /\ sid' = NextSid
  /\ issued' = Append(issued, [node |-> n, room |-> r])

GoneFromVoice ==
  /\ room' = None /\ node' = None /\ sid' = None
  /\ UNCHANGED issued

\* A join of a channel the user is not in; out of another one the user
\* leaves first, and stays out if no node can take the user.
Join(r, n) ==
  /\ r # room /\ joins < MaxJoins
  /\ \/ room = None /\ Place(r, n) /\ UNCHANGED <<held, job>>
     \/ /\ room # None
        /\ CancelActive /\ held' = held \ Here
        /\ Place(r, n) \/ GoneFromVoice
  /\ joins' = joins + 1
  /\ UNCHANGED <<due, acking, faults>>

\* internalLeave.
Leave ==
  /\ room # None
  /\ CancelActive
  /\ held' = held \ Here
  /\ GoneFromVoice
  /\ UNCHANGED <<due, acking, joins, faults>>

\* A join of the channel the user is in. If no node can take the user, the
\* row keeps the session that was cut.
Rejoin(n) ==
  /\ room # None /\ joins < MaxJoins
  /\ CancelActive
  /\ held' = held \ Here
  /\ Place(room, n) \/ UNCHANGED voice
  /\ joins' = joins + 1
  /\ UNCHANGED <<due, acking, faults>>

\* The client opens the session it was last sent a token for.
Open ==
  /\ sid # None /\ sid \notin held
  /\ held' = held \cup {sid}
  /\ UNCHANGED <<voice, job, due, acking, joins, faults>>

-----------------------------------------------------------------------------
(* The engine. A step works on its copy c of the row of job c.id and       *)
(* writes the row without looking at it again.                             *)

Copy(j) == [job[j] EXCEPT !.id = j]

\* tick: priority descending; jobs of one priority in any order.
Tick ==
  /\ due = <<>> /\ Active # {}
  /\ \E s \in [1 .. Cardinality(Active) -> Active] :
       /\ \A a, b \in DOMAIN s : a < b => s[a] # s[b] /\ job[s[a]].pri >= job[s[b]].pri
       /\ due' = [i \in DOMAIN s |-> Copy(s[i])]
  /\ UNCHANGED <<voice, held, job, acking, joins, faults>>

Stepping(st) ==
  /\ due # <<>> /\ Head(due).st = st /\ due' = Tail(due)
  /\ UNCHANGED <<acking, joins>>

NoFault == UNCHANGED faults
Fault == faults < MaxFaults /\ faults' = faults + 1

\* retry_at or the deadline of CONNECT is not reached.
StepLater ==
  /\ Stepping("QUEUED") \/ Stepping("CONNECT") \/ Stepping("FAILED")
  /\ UNCHANGED <<voice, held, job>> /\ NoFault

SnapshotFirst(c) == IF c.fromSid = None THEN sid ELSE c.fromSid

Failed(j, f) ==
  [job EXCEPT ![j].st = "FAILED", ![j].to = None, ![j].fromSid = f]

\* The user is where the job is to take it from.
StillThere(c) == room = c.room /\ node = c.from

PrepareCanceled ==
  /\ Stepping("QUEUED") /\ ~StillThere(Head(due))
  /\ job' = Canceled(Head(due).id)
  /\ UNCHANGED <<voice, held>> /\ NoFault

PrepareFailed ==
  /\ Stepping("QUEUED") /\ StillThere(Head(due))
  /\ job' = Failed(Head(due).id, SnapshotFirst(Head(due)))
  /\ UNCHANGED <<voice, held>> /\ NoFault

\* pickTarget: no target twice. Which nodes have room for the user is left
\* open, and with it whether the preset target is taken.
Targets(c) == Nodes \ (c.tried \cup {c.from})

\* runPrepare comes through: the client is sent a token for the target.
Prepared ==
  /\ Stepping("QUEUED") /\ StillThere(Head(due))
  /\ LET c == Head(due) IN
     \E t \in Targets(c) :
       /\ issued' = Append(issued, [node |-> t, room |-> room])
       /\ job' = [job EXCEPT ![c.id].st = "CONNECT", ![c.id].to = t,
                             ![c.id].tried = c.tried \cup {t},
                             ![c.id].fromSid = SnapshotFirst(c)]
  /\ sid' = NextSid
  /\ UNCHANGED <<room, node, held>> /\ NoFault

\* The client did not answer in time: it will follow the voice state.
TimeoutIgnored(c) == UNCHANGED job   \* mutant: the job waits for the client
TimedOut(c) == job' = Set(c.id, "CUTOVER")

ConnectTimeout ==
  /\ Stepping("CONNECT")
  /\ TimedOut(Head(due))
  /\ UNCHANGED <<voice, held>> /\ NoFault

Cutover ==
  /\ Stepping("CUTOVER")
  /\ job' = Set(Head(due).id, "CLEANUP")
  /\ UNCHANGED <<voice, held>> /\ NoFault

(* runCleanup: the source drops the old sid, the voice state moves; the    *)
(* update of the voice state may fail.                                     *)
CleanupNoTarget ==
  /\ Stepping("CLEANUP") /\ Head(due).to = None
  /\ job' = Failed(Head(due).id, Head(due).fromSid)
  /\ UNCHANGED <<voice, held>> /\ NoFault

CleanupGone ==
  /\ Stepping("CLEANUP") /\ Head(due).to # None /\ room # Head(due).room
  /\ job' = Canceled(Head(due).id)
  /\ UNCHANGED <<voice, held>> /\ NoFault

\* MigrateParticipants EXECUTE: by the old sid, on the source.
ExecuteByUser(c) ==                   \* mutant: by user, on the target too
  held \ {i \in DOMAIN issued : issued[i].node \in {c.from, c.to}}
Executed(c) ==
  held \ {i \in DOMAIN issued : i = c.fromSid /\ issued[i].node = c.from}

Cleanup ==
  /\ Stepping("CLEANUP") /\ Head(due).to # None /\ room = Head(due).room
  /\ held' = Executed(Head(due))
  /\ UNCHANGED <<room, sid, issued>>
  /\ \/ /\ node' = Head(due).to
        /\ job' = Set(Head(due).id, "DONE") /\ NoFault
     \/ /\ UNCHANGED node
        /\ job' = Failed(Head(due).id, Head(due).fromSid) /\ Fault

Retry ==
  /\ Stepping("FAILED")
  /\ job' = Set(Head(due).id, "QUEUED")
  /\ UNCHANGED <<voice, held>> /\ NoFault

Step ==
  \/ StepLater \/ PrepareCanceled \/ PrepareFailed \/ Prepared
  \/ ConnectTimeout \/ Cutover
  \/ CleanupNoTarget \/ CleanupGone \/ Cleanup \/ Retry

-----------------------------------------------------------------------------
\* ack of the client: the row is read ...
AckRead(j) ==
  /\ job[j].st = "CONNECT" /\ j \notin acking
  /\ acking' = acking \cup {j}
  /\ UNCHANGED <<voice, held, job, due, joins, faults>>

\* ... and advanced.
AckWrite(j) ==
  /\ j \in acking
  /\ job' = Set(j, "CUTOVER")
  /\ acking' = acking \ {j}
  /\ UNCHANGED <<voice, held, due, joins, faults>>

(* A crash, also in the middle of PREPARE, and start on the rows it left.  *)
Interrupted == {"PREPARE", "CONNECT", "CUTOVER", "CLEANUP"}

Requeued(rows) ==
  [j \in Jobs |->
     IF rows[j].st \in Interrupted THEN [rows[j] EXCEPT !.st = "QUEUED"] ELSE rows[j]]

\* The row of a PREPARE that was not finished.
InPrepare(c) == [job EXCEPT ![c.id].st = "PREPARE", ![c.id].fromSid = SnapshotFirst(c)]

Restart ==
  /\ Fault
  /\ due' = <<>> /\ acking' = {}
  /\ \/ job' = Requeued(job)
     \/ /\ due # <<>> /\ Head(due).st = "QUEUED" /\ StillThere(Head(due))
        /\ job' = Requeued(InPrepare(Head(due)))
  /\ UNCHANGED <<voice, held, joins>>

-----------------------------------------------------------------------------
Next ==
  \/ \E j \in Jobs, p \in Priorities, t \in Nodes \cup {None} : Create(j, p, t)
  \/ \E r \in Rooms, n \in Nodes : Join(r, n)
  \/ \E n \in Nodes : Rejoin(n)
  \/ Leave \/ Open
  \/ Tick \/ Step
  \/ \E j \in Jobs : AckRead(j) \/ AckWrite(j)
  \/ Restart

Spec == Init /\ [][Next]_vars

(* The engine ticks every 300 ms and gets through each tick; a deadline    *)
(* that is missed again and again passes; and a job that can be placed     *)
(* again and again is. The client owes nothing.                            *)
Fairness ==
  /\ WF_vars(Tick) /\ WF_vars(Step)
  /\ SF_vars(ConnectTimeout) /\ SF_vars(Retry)
  /\ SF_vars(Prepared) /\ SF_vars(PrepareCanceled)

FairSpec == Spec /\ Fairness

-----------------------------------------------------------------------------
States == {"QUEUED", "PREPARE", "CONNECT", "CUTOVER", "CLEANUP",
           "FAILED", "CANCELED", "DONE"}

\* A row when n sids were issued.
JobRow(n) ==
  [id : {None} \cup Jobs, st : States, pri : Priorities, from : Nodes,
   to : Nodes \cup {None}, room : Rooms, tried : SUBSET Nodes,
   fromSid : (1 .. n) \cup {None}]

Sids == DOMAIN issued

TypeOK ==
  /\ room \in Rooms \cup {None} /\ node \in Nodes \cup {None}
  /\ (room = None) = (node = None) /\ (room = None) = (sid = None)
  /\ issued \in Seq([node : Nodes, room : Rooms])
  /\ sid \in Sids \cup {None} /\ held \subseteq Sids
  /\ job \in [Jobs -> JobRow(Len(issued)) \cup {NoJob}]
  /\ due \in Seq(JobRow(Len(issued))) /\ acking \subseteq Jobs
  /\ joins \in 0 .. MaxJoins /\ faults \in 0 .. MaxFaults

(* runCleanup: the source is cleared by the old sid, so that the engine    *)
(* never cuts the session the voice state names.                           *)
EngineSparesSession ==
  [][Step /\ sid \in held => sid' # sid \/ sid \in held']_vars

(* runPrepare: the old sid is the one of the first attempt, so that after  *)
(* CLEANUP the source holds no session of the user but the current one,    *)
(* however often the job was retried.                                      *)
SourceClear(j) ==
  job[j].st = "DONE" /\ Active = {} /\ room # None =>
    held \cap {i \in Sids : issued[i].node = job[j].from} \subseteq {sid}

SourceCleared ==
  \A j \in Jobs :
    joins = 0 /\ (\A k \in Jobs \ {j} : job[k] = NoJob) => SourceClear(j)

(* pickTarget: a node on which a job has failed does not get the user from *)
(* that job, whatever acks and restarts came between its attempts.         *)
FreshTarget ==
  [][\A j \in Jobs :
       Step /\ job[j] # NoJob /\ job'[j].to \notin {None, job[j].to}
         => job'[j].to \notin job[j].tried \cup {job[j].from}]_vars

(* nextMigrationState: the client cannot block a migration, CONNECT ends   *)
(* without its answer.                                                     *)
ClientCannotBlock ==
  \A j \in Jobs : job[j].st = "CONNECT" ~> job[j].st # "CONNECT"

(* tick: a job ends, done or canceled, unless the user leaves while it is  *)
(* in CLEANUP.                                                             *)
MigrationEnds ==
  \A j \in Jobs : job[j].st = "QUEUED" ~>
    \/ job[j].st \in {"DONE", "CANCELED"}
    \/ job[j].st = "CLEANUP" /\ room # job[j].room

-----------------------------------------------------------------------------
(* What the documents and comments say and the code does not keep.         *)

(* createJob: at most one job of a user is active.                         *)
OneActive == Cardinality(Active) <= 1

(* createJob: a job that preempts another clears the source as well.       *)
SourceClearedAnyway == \A j \in Jobs : SourceClear(j)

(* isTerminalMigrationState: a job that is done or canceled stays so.      *)
TerminalIsFinal ==
  [][\A j \in Jobs : job[j].st \in {"DONE", "CANCELED"} => job'[j] = job[j]]_vars

(* internalLeave: a leave during a migration clears both sides.            *)
LeaveClearsBothSides == room = None => held = {}

(* cancelActive: the migration of a user who leaves is canceled.           *)
LeaverIsReleased ==
  \A j \in Jobs : job[j].st = "CLEANUP" /\ room # job[j].room
    ~> job[j].st \in {"DONE", "CANCELED"}

(* refreshTokenBinding: a refreshed token names the node that the sid of   *)
(* the voice state was issued for.                                         *)
RefreshNode ==
  IF Active = {} THEN {node}
  ELSE {job[j].to : j \in {k \in Active : job[k].st \in {"CONNECT", "CUTOVER", "CLEANUP"}}}

RefreshMatchesSid == sid # None => RefreshNode \subseteq {issued[sid].node, None}
=============================================================================
