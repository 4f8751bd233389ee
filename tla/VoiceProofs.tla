---------------------------- MODULE VoiceProofs ----------------------------
(***************************************************************************)
(* Proofs about MCVoice, for any users, nodes, rooms, jobs, priorities and *)
(* bounds: every property that its run checks. Each part has an invariant  *)
(* of its own, proved of the specification of that part; that a behaviour  *)
(* of MCVoice is one of each part is the lemma OneOfEach at the end.       *)
(*                                                                         *)
(*   Inv          what the copy of a job still knows of its row when it is *)
(*                stepped, however late; with ClearInv, that while a job   *)
(*                is alone its source is the node of the first session;    *)
(*   GraphInv     types, star and reach: an edge counts for a user only    *)
(*                when it hangs below the present anchor, which keeps its  *)
(*                star only because no edge of another epoch is left;      *)
(*   ControlInv   what is pending was not answered;                        *)
(*   ChoiceInv    every reservation is that of a session that was placed;  *)
(*   WatchInv     what a detector remembers is no more than what was seen, *)
(*                and one that fired rests from then on;                   *)
(*   HostsInv     which row a deployment that runs still has, and how far  *)
(*                its node has come by the step it is at, whoever else has *)
(*                taken it offline, barred it or deleted it.               *)
(***************************************************************************)
EXTENDS MCVoice, SequenceTheorems, FiniteSetTheorems, TLAPS

USE MigrationAssumption

-----------------------------------------------------------------------------
(* Migration: the inductive invariant.                                     *)

Engaged == {"CONNECT", "CUTOVER", "CLEANUP", "DONE"}

\* A job that was ever prepared knows a sid older than the user's.
RowOK(r, n, s) ==
  /\ r \in JobRow(n)
  /\ r.st \in Engaged => r.tried # {}
  /\ r.tried # {} => r.fromSid # None /\ (s = None \/ r.fromSid < s)

\* A copy may be stale in its state, not in what only the engine writes.
Agrees(c, r) ==
  /\ r # NoJob
  /\ r.tried = c.tried /\ r.fromSid = c.fromSid /\ r.from = c.from

CopyOK(c, jobs, n) ==
  /\ c \in JobRow(n) /\ c.id \in Jobs
  /\ c.st \in Engaged => c.tried # {}
  /\ Agrees(c, jobs[c.id])

CopiesOK(q, jobs, n) ==
  /\ q \in Seq(JobRow(n))
  /\ \A i \in 1 .. Len(q) : CopyOK(q[i], jobs, n)
  /\ \A a, b \in 1 .. Len(q) : a # b => q[a].id # q[b].id

VoiceOK ==
  /\ room \in Rooms \cup {None} /\ node \in Nodes \cup {None}
  /\ (room = None) = (node = None) /\ (room = None) = (sid = None)
  /\ issued \in Seq([node : Nodes, room : Rooms])
  /\ sid \in (1 .. Len(issued)) \cup {None} /\ held \subseteq 1 .. Len(issued)
  /\ joins \in 0 .. MaxJoins /\ faults \in 0 .. MaxFaults

RowsOK(jobs, n, s) ==
  /\ jobs \in [Jobs -> JobRow(n) \cup {NoJob}]
  /\ \A j \in Jobs : jobs[j] # NoJob => RowOK(jobs[j], n, s)

AcksOK(a, jobs) == a \subseteq Jobs /\ \A j \in a : jobs[j] # NoJob /\ jobs[j].tried # {}

Inv ==
  /\ VoiceOK
  /\ RowsOK(job, Len(issued), sid)
  /\ CopiesOK(due, job, Len(issued))
  /\ AcksOK(acking, job)

-----------------------------------------------------------------------------
(* Rows and queues.                                                        *)

(* A row is good for more sids and for a newer session.                    *)
LEMMA RowGrows ==
  ASSUME NEW n \in Nat, NEW m \in Nat, n <= m, NEW s, NEW t \in {s, None, n + 1},
         NEW r, RowOK(r, n, s)
  PROVE  RowOK(r, m, t)
<1>1. JobRow(n) \subseteq JobRow(m)
  BY DEF JobRow
<1>2. r.fromSid \in (1 .. n) \cup {None}
  BY DEF RowOK, JobRow
<1> QED BY <1>1, <1>2 DEF RowOK

LEMMA CopiesGrow ==
  ASSUME NEW n \in Nat, NEW m \in Nat, n <= m, NEW q, NEW jobs, NEW new,
         CopiesOK(q, jobs, n),
         \A j \in Jobs : \A i \in 1 .. Len(q) :
           q[i].id = j => (Agrees(q[i], jobs[j]) => Agrees(q[i], new[j]))
  PROVE  CopiesOK(q, new, m)
<1>1. JobRow(n) \subseteq JobRow(m)
  BY DEF JobRow
<1>2. q \in Seq(JobRow(m))
  BY <1>1 DEF CopiesOK
<1>3. \A i \in 1 .. Len(q) : CopyOK(q[i], new, m)
  BY <1>1 DEF CopiesOK, CopyOK
<1> QED BY <1>2, <1>3 DEF CopiesOK

(* What is left of the copies when the first was stepped.                  *)
LEMMA CopiesStepped ==
  ASSUME NEW n \in Nat, NEW q, NEW jobs, CopiesOK(q, jobs, n), q # <<>>
  PROVE  /\ CopyOK(Head(q), jobs, n) /\ CopiesOK(Tail(q), jobs, n)
         /\ \A i \in 1 .. Len(Tail(q)) : Tail(q)[i].id # Head(q).id
<1>1. /\ Head(q) = q[1] /\ Tail(q) \in Seq(JobRow(n))
      /\ Len(q) \in Nat \ {0} /\ Len(Tail(q)) = Len(q) - 1
      /\ \A i \in 1 .. Len(q) - 1 : Tail(q)[i] = q[i + 1]
  BY HeadTailProperties, EmptySeq DEF CopiesOK
<1>2. CopyOK(Head(q), jobs, n)
  BY <1>1 DEF CopiesOK
<1>3. \A i \in 1 .. Len(Tail(q)) : CopyOK(Tail(q)[i], jobs, n)
  <2> TAKE i \in 1 .. Len(Tail(q))
  <2>1. i + 1 \in 1 .. Len(q) /\ Tail(q)[i] = q[i + 1]
    BY <1>1
  <2> QED BY <2>1 DEF CopiesOK
<1>4. \A a, b \in 1 .. Len(Tail(q)) : a # b => Tail(q)[a].id # Tail(q)[b].id
  <2> TAKE a, b \in 1 .. Len(Tail(q))
  <2>1. /\ a + 1 \in 1 .. Len(q) /\ b + 1 \in 1 .. Len(q) /\ (a # b => a + 1 # b + 1)
        /\ Tail(q)[a] = q[a + 1] /\ Tail(q)[b] = q[b + 1]
    BY <1>1
  <2> QED BY <2>1 DEF CopiesOK
<1>5. \A i \in 1 .. Len(Tail(q)) : Tail(q)[i].id # Head(q).id
  <2> TAKE i \in 1 .. Len(Tail(q))
  <2>1. i + 1 \in 1 .. Len(q) /\ i + 1 # 1 /\ 1 \in 1 .. Len(q) /\ Tail(q)[i] = q[i + 1]
    BY <1>1
  <2> QED BY <1>1, <2>1 DEF CopiesOK
<1> QED BY <1>1, <1>2, <1>3, <1>4, <1>5 DEF CopiesOK

(* One row is written: what the write must respect.                        *)
LEMMA RowWritten ==
  ASSUME NEW n \in Nat, NEW m \in Nat, n <= m, NEW s, NEW t \in {s, None, n + 1},
         NEW jobs, RowsOK(jobs, n, s), NEW j \in Jobs, NEW r, RowOK(r, m, t)
  PROVE  RowsOK([jobs EXCEPT ![j] = r], m, t)
<1>1. JobRow(n) \subseteq JobRow(m)
  BY DEF JobRow
<1>2. [jobs EXCEPT ![j] = r] \in [Jobs -> JobRow(m) \cup {NoJob}]
  BY <1>1 DEF RowsOK, RowOK
<1>3. \A k \in Jobs : jobs[k] # NoJob => RowOK(jobs[k], m, t)
  BY RowGrows DEF RowsOK
<1>4. \A k \in Jobs : [jobs EXCEPT ![j] = r][k] = IF k = j THEN r ELSE jobs[k]
  BY DEF RowsOK
<1> QED BY <1>2, <1>3, <1>4 DEF RowsOK

LEMMA RowsGrow ==
  ASSUME NEW n \in Nat, NEW m \in Nat, n <= m, NEW s, NEW t \in {s, None, n + 1},
         NEW jobs, RowsOK(jobs, n, s)
  PROVE  RowsOK(jobs, m, t)
<1>1. JobRow(n) \subseteq JobRow(m)
  BY DEF JobRow
<1>2. \A k \in Jobs : jobs[k] # NoJob => RowOK(jobs[k], m, t)
  BY RowGrows DEF RowsOK
<1> QED BY <1>1, <1>2 DEF RowsOK

(* The state of a row is written, and nothing else of it.                  *)
LEMMA StateWritten ==
  ASSUME NEW n \in Nat, NEW s, NEW jobs, RowsOK(jobs, n, s),
         NEW j \in Jobs, jobs[j] # NoJob,
         NEW st \in States, st \in Engaged => jobs[j].tried # {},
         NEW new, new = [jobs EXCEPT ![j].st = st]
  PROVE  /\ RowsOK(new, n, s)
         /\ \A k \in Jobs : \A c : Agrees(c, jobs[k]) => Agrees(c, new[k])
         /\ \A a : AcksOK(a, jobs) => AcksOK(a, new)
<1> DEFINE r == [jobs[j] EXCEPT !.st = st]
<1>1. jobs[j] \in JobRow(n) /\ RowOK(jobs[j], n, s)
  BY DEF RowsOK, RowOK
<1>2. /\ r \in JobRow(n) /\ r.st = st /\ r.tried = jobs[j].tried /\ r.fromSid = jobs[j].fromSid
      /\ r.from = jobs[j].from
  BY <1>1 DEF JobRow
<1>3. r # NoJob
  BY <1>2 DEF NoJob, States
<1>4. RowOK(r, n, s)
  BY <1>1, <1>2 DEF RowOK
<1>5. new = [jobs EXCEPT ![j] = r]
  BY DEF RowsOK
<1> HIDE DEF r
<1>6. RowsOK(new, n, s)
  <2>1. n <= n /\ s \in {s, None, n + 1}
    OBVIOUS
  <2> QED BY ONLY <1>4, <1>5, <2>1, RowWritten, RowsOK(jobs, n, s), n \in Nat, j \in Jobs
<1>7. \A k \in Jobs : new[k] = IF k = j THEN r ELSE jobs[k]
  BY <1>5 DEF RowsOK
<1>8. \A k \in Jobs : \A c : Agrees(c, jobs[k]) => Agrees(c, new[k])
  BY <1>2, <1>3, <1>7 DEF Agrees
<1>9. \A a : AcksOK(a, jobs) => AcksOK(a, new)
  BY <1>2, <1>3, <1>7 DEF AcksOK
<1> QED BY <1>6, <1>8, <1>9
-----------------------------------------------------------------------------
(* The actions.                                                            *)

LEMMA InitInv == Init => Inv
<1> SUFFICES ASSUME Init PROVE Inv
  OBVIOUS
<1> DEFINE e == [node |-> node, room |-> room]
<1>1. e \in [node : Nodes, room : Rooms]
  BY DEF Init
<1>2. issued = <<e>> /\ issued \in Seq([node : Nodes, room : Rooms]) /\ Len(issued) = 1
  BY <1>1 DEF Init
<1>3. VoiceOK
  BY <1>2 DEF Init, VoiceOK
<1>4. RowsOK(job, Len(issued), sid)
  BY DEF Init, RowsOK
<1>5. due = <<>> /\ Len(due) = 0 /\ CopiesOK(due, job, Len(issued))
  BY DEF Init, CopiesOK
<1>6. AcksOK(acking, job)
  BY DEF Init, AcksOK
<1> QED BY <1>3, <1>4, <1>5, <1>6 DEF Inv

(* The facts about numbers that every step starts from.                    *)
LEMMA SidsNat ==
  ASSUME VoiceOK
  PROVE  Len(issued) \in Nat /\ (sid # None => sid \in Nat)
BY LenProperties DEF VoiceOK

(* A cancel, which may come too late.                                      *)
LEMMA CancelWritten ==
  ASSUME NEW n \in Nat, NEW s, RowsOK(job, n, s), NEW j \in Jobs, job[j] # NoJob
  PROVE  /\ RowsOK(Canceled(j), n, s)
         /\ \A k \in Jobs : \A c : Agrees(c, job[k]) => Agrees(c, Canceled(j)[k])
         /\ \A a : AcksOK(a, job) => AcksOK(a, Canceled(j))
<1>1. CASE job[j].st \in Cancelable
  <2>1. "CANCELED" \in States /\ "CANCELED" \notin Engaged
    BY DEF States, Engaged
  <2>2. Canceled(j) = [job EXCEPT ![j].st = "CANCELED"]
    BY <1>1 DEF Canceled, Set
  <2> QED BY <2>1, <2>2, StateWritten
<1>2. CASE job[j].st \notin Cancelable
  <2>1. Canceled(j) = job
    BY <1>2 DEF Canceled
  <2> QED BY <2>1
<1> QED BY <1>1, <1>2

LEMMA CancelActiveWritten ==
  ASSUME NEW n \in Nat, NEW s, RowsOK(job, n, s), CancelActive
  PROVE  /\ RowsOK(job', n, s)
         /\ \A k \in Jobs : \A c : Agrees(c, job[k]) => Agrees(c, job'[k])
         /\ \A a : AcksOK(a, job) => AcksOK(a, job')
<1>1. CASE UNCHANGED job
  BY <1>1
<1>2. CASE \E j \in Active : job' = Canceled(j)
  <2>1. PICK j \in Active : job' = Canceled(j)
    BY <1>2
  <2>2. j \in Jobs /\ job[j] # NoJob
    BY DEF Active, NoJob
  <2> QED BY <2>1, <2>2, CancelWritten
<1> QED BY <1>1, <1>2 DEF CancelActive

(* A step that changes the rows only in state.                             *)
LEMMA CopiesFollow ==
  ASSUME NEW n \in Nat, NEW m \in Nat, n <= m, NEW q, NEW jobs, NEW new,
         CopiesOK(q, jobs, n),
         \A k \in Jobs : \A c : Agrees(c, jobs[k]) => Agrees(c, new[k])
  PROVE  CopiesOK(q, new, m)
BY CopiesGrow

LEMMA PlaceVoice ==
  ASSUME VoiceOK, NEW r \in Rooms, NEW n \in Nodes, Place(r, n),
         held' \subseteq held, joins' \in 0 .. MaxJoins, UNCHANGED faults
  PROVE  VoiceOK' /\ Len(issued') = Len(issued) + 1 /\ sid' = Len(issued) + 1
<1> DEFINE e == [node |-> n, room |-> r]
<1>1. e \in [node : Nodes, room : Rooms]
  OBVIOUS
<1>2. /\ issued' \in Seq([node : Nodes, room : Rooms])
      /\ Len(issued) \in Nat /\ Len(issued') = Len(issued) + 1
  BY <1>1, AppendProperties, LenProperties DEF VoiceOK, Place
<1>3. room' = r /\ node' = n /\ sid' = Len(issued) + 1
  BY DEF Place, NextSid
<1>4. held' \subseteq 1 .. Len(issued')
  <2>1. 1 .. Len(issued) \subseteq 1 .. Len(issued')
    BY <1>2
  <2> QED
    BY <2>1 DEF VoiceOK
<1>5. r # None /\ n # None /\ sid' # None /\ sid' \in 1 .. Len(issued')
  BY <1>2, <1>3
<1> QED BY <1>2, <1>3, <1>4, <1>5 DEF VoiceOK

LEMMA GoneVoice ==
  ASSUME VoiceOK, GoneFromVoice,
         held' \subseteq held, joins' \in 0 .. MaxJoins, UNCHANGED faults
  PROVE  VoiceOK' /\ issued' = issued /\ sid' = None
BY DEF VoiceOK, GoneFromVoice

(* What users do: rows change in state only, the sid is renewed or gone.   *)
LEMMA UserStep ==
  ASSUME Inv, VoiceOK', UNCHANGED <<due, acking>>,
         \/ issued' = issued /\ sid' \in {sid, None}
         \/ Len(issued') = Len(issued) + 1 /\ sid' = Len(issued) + 1,
         CancelActive \/ UNCHANGED job
  PROVE  Inv'
<1> DEFINE n == Len(issued)
           m == Len(issued')
<1>1. n \in Nat /\ m \in Nat /\ n <= m /\ sid' \in {sid, None, n + 1}
  BY LenProperties DEF Inv, VoiceOK
<1>2. RowsOK(job, n, sid) /\ CopiesOK(due, job, n) /\ AcksOK(acking, job)
  BY DEF Inv
<1> HIDE DEF n, m
<1>3. /\ RowsOK(job', n, sid)
      /\ \A k \in Jobs : \A c : Agrees(c, job[k]) => Agrees(c, job'[k])
      /\ \A a : AcksOK(a, job) => AcksOK(a, job')
  BY <1>1, <1>2, CancelActiveWritten
<1>4. RowsOK(job', m, sid')
  BY <1>1, <1>3, RowsGrow
<1>5. CopiesOK(due', job', m)
  BY <1>1, <1>2, <1>3, CopiesFollow
<1>6. AcksOK(acking', job')
  BY <1>2, <1>3
<1> QED BY <1>4, <1>5, <1>6 DEF Inv, n, m

LEMMA JoinInv ==
  ASSUME Inv, NEW r \in Rooms, NEW n \in Nodes, Join(r, n)
  PROVE  Inv'
<1>1. /\ UNCHANGED <<due, acking, faults>> /\ joins' \in 0 .. MaxJoins
      /\ held' \subseteq held /\ (CancelActive \/ UNCHANGED job)
      /\ Place(r, n) \/ GoneFromVoice
  BY DEF Join, Inv, VoiceOK
<1>2. VoiceOK
  BY DEF Inv
<1>3. CASE Place(r, n)
  BY <1>1, <1>2, <1>3, PlaceVoice, UserStep
<1>4. CASE GoneFromVoice
  BY <1>1, <1>2, <1>4, GoneVoice, UserStep
<1> QED BY <1>1, <1>3, <1>4

LEMMA LeaveInv == Inv /\ Leave => Inv'
<1> SUFFICES ASSUME Inv, Leave PROVE Inv'
  OBVIOUS
<1>1. /\ UNCHANGED <<due, acking, joins, faults>> /\ joins' \in 0 .. MaxJoins
      /\ held' \subseteq held /\ CancelActive /\ GoneFromVoice /\ VoiceOK
  BY DEF Leave, Inv, VoiceOK
<1> QED BY <1>1, GoneVoice, UserStep

LEMMA RejoinInv ==
  ASSUME Inv, NEW n \in Nodes, Rejoin(n)
  PROVE  Inv'
<1>1. /\ UNCHANGED <<due, acking, faults>> /\ joins' \in 0 .. MaxJoins
      /\ held' \subseteq held /\ CancelActive /\ VoiceOK /\ room \in Rooms
      /\ Place(room, n) \/ UNCHANGED voice
  BY DEF Rejoin, Inv, VoiceOK
<1>2. CASE Place(room, n)
  BY <1>1, <1>2, PlaceVoice, UserStep
<1>3. CASE UNCHANGED voice
  <2>1. VoiceOK' /\ issued' = issued /\ sid' = sid
    BY <1>1, <1>3 DEF VoiceOK, voice
  <2> QED BY <1>1, <2>1, UserStep
<1> QED BY <1>1, <1>2, <1>3

LEMMA OpenInv == Inv /\ Open => Inv'
<1> SUFFICES ASSUME Inv, Open PROVE Inv'
  OBVIOUS
<1>1. VoiceOK /\ UNCHANGED <<voice, job, due, acking, joins, faults>>
      /\ sid # None /\ held' = held \cup {sid}
  BY DEF Inv, Open
<1>2. VoiceOK' /\ issued' = issued /\ sid' = sid
  BY <1>1 DEF VoiceOK, voice
<1> QED BY <1>1, <1>2, UserStep

LEMMA CreateInv ==
  ASSUME Inv, NEW j \in Jobs, NEW p \in Priorities, NEW t \in Nodes \cup {None},
         Create(j, p, t)
  PROVE  Inv'
<1> DEFINE n == Len(issued)
<1>1. VoiceOK /\ n \in Nat /\ RowsOK(job, n, sid) /\ CopiesOK(due, job, n) /\ AcksOK(acking, job)
  BY LenProperties DEF Inv, VoiceOK
<1>2. /\ job[j] = NoJob /\ node # None
      /\ UNCHANGED <<room, node, sid, issued, held, due, acking, joins, faults>>
  BY DEF Create, voice
<1>3. RowOK(NewJob(p, t), n, sid)
  <2>1. node \in Nodes /\ room \in Rooms /\ "QUEUED" \in States
    BY <1>1, <1>2 DEF VoiceOK, States
  <2> QED BY <2>1 DEF RowOK, NewJob, JobRow, Engaged
<1> DEFINE Written(old) ==
             /\ job' = [old EXCEPT ![j] = NewJob(p, t)]
             /\ RowsOK(old, n, sid)
             /\ \A k \in Jobs : \A c : Agrees(c, job[k]) => Agrees(c, old[k])
             /\ \A a : AcksOK(a, job) => AcksOK(a, old)
<1>4. \E old : Written(old)
  <2>1. CASE Active = {} /\ job' = [job EXCEPT ![j] = NewJob(p, t)]
    BY <1>1, <2>1
  <2>2. ASSUME NEW e \in Active, job' = [Canceled(e) EXCEPT ![j] = NewJob(p, t)]
        PROVE  \E old : Written(old)
    <3>1. e \in Jobs /\ job[e] # NoJob
      BY DEF Active, NoJob
    <3> HIDE DEF n
    <3> QED BY <1>1, <2>2, <3>1, CancelWritten
  <2> QED BY <2>1, <2>2 DEF Create
<1> HIDE DEF n
<1>5. PICK old : Written(old)
  BY <1>4
<1>6. RowsOK(job', n, sid)
  <2>1. n <= n /\ sid \in {sid, None, n + 1}
    BY <1>1
  <2> QED BY <1>1, <1>3, <1>5, <2>1, RowWritten
<1>7. \A k \in Jobs : job'[k] = IF k = j THEN NewJob(p, t) ELSE old[k]
  BY <1>5 DEF RowsOK
<1>8. \A k \in Jobs : \A c : Agrees(c, job[k]) => Agrees(c, job'[k])
  BY <1>2, <1>5, <1>7 DEF Agrees
<1>9. CopiesOK(due', job', n)
  <2>1. n <= n
    BY <1>1
  <2> QED BY <1>1, <1>2, <1>8, <2>1, CopiesFollow
<1>10. AcksOK(acking', job')
  <2>1. AcksOK(acking, old) /\ j \notin acking
    BY <1>1, <1>2, <1>5 DEF AcksOK
  <2> QED BY <1>2, <1>7, <2>1 DEF AcksOK
<1>11. VoiceOK' /\ Len(issued') = n /\ sid' = sid
  BY <1>1, <1>2 DEF VoiceOK, n
<1> QED BY <1>6, <1>9, <1>10, <1>11 DEF Inv

LEMMA AckReadInv ==
  ASSUME Inv, NEW j \in Jobs, AckRead(j)
  PROVE  Inv'
<1>1. UNCHANGED <<room, node, sid, issued, held, job, due, joins, faults>> /\ acking' = acking \cup {j}
  BY DEF AckRead, voice
<1>2. job[j] # NoJob /\ job[j].tried # {}
  <2>1. job[j].st = "CONNECT" /\ job[j] # NoJob
    BY DEF AckRead, NoJob
  <2> QED BY <2>1 DEF Inv, RowsOK, RowOK, Engaged
<1> QED BY <1>1, <1>2 DEF Inv, VoiceOK, AcksOK

(* A step of the engine or an ack that writes a state: it knows that the   *)
(* row was prepared before, if it writes a state past PREPARE.             *)
LEMMA StateStep ==
  ASSUME Inv, VoiceOK', UNCHANGED <<issued, sid>>, acking' \subseteq acking,
         due' = due \/ (due # <<>> /\ due' = Tail(due)),
         NEW j \in Jobs, job[j] # NoJob,
         \/ UNCHANGED job
         \/ job' = Canceled(j)
         \/ \E st \in States : job' = Set(j, st) /\ (st \in Engaged => job[j].tried # {})
  PROVE  Inv'
<1> DEFINE n == Len(issued)
<1>1. n \in Nat /\ RowsOK(job, n, sid) /\ CopiesOK(due, job, n) /\ AcksOK(acking, job)
  BY LenProperties DEF Inv, VoiceOK
<1> HIDE DEF n
<1>2. /\ RowsOK(job', n, sid)
      /\ \A k \in Jobs : \A c : Agrees(c, job[k]) => Agrees(c, job'[k])
      /\ \A a : AcksOK(a, job) => AcksOK(a, job')
  <2>1. CASE UNCHANGED job
    BY <1>1, <2>1
  <2>2. CASE job' = Canceled(j)
    BY <1>1, <2>2, CancelWritten
  <2>3. CASE \E st \in States : job' = Set(j, st) /\ (st \in Engaged => job[j].tried # {})
    BY <1>1, <2>3, StateWritten DEF Set
  <2> QED BY <2>1, <2>2, <2>3
<1>3. CopiesOK(due', job, n)
  BY <1>1, CopiesStepped
<1>4. CopiesOK(due', job', n)
  <2>1. n <= n
    BY <1>1
  <2> QED BY <1>1, <1>2, <1>3, <2>1, CopiesFollow
<1>5. AcksOK(acking', job')
  BY <1>1, <1>2 DEF AcksOK
<1> QED BY <1>2, <1>4, <1>5 DEF Inv, n

LEMMA AckWriteInv ==
  ASSUME Inv, NEW j \in Jobs, AckWrite(j)
  PROVE  Inv'
<1>1. /\ UNCHANGED <<room, node, sid, issued, held, due, joins, faults>> /\ acking' \subseteq acking
      /\ job' = Set(j, "CUTOVER") /\ "CUTOVER" \in States
      /\ job[j] # NoJob /\ job[j].tried # {}
  BY DEF AckWrite, voice, States, Inv, AcksOK
<1>2. VoiceOK'
  BY <1>1 DEF Inv, VoiceOK
<1> QED BY <1>1, <1>2, StateStep

LEMMA TickInv == Inv /\ Tick => Inv'
<1> SUFFICES ASSUME Inv, Tick PROVE Inv'
  OBVIOUS
<1> DEFINE n == Len(issued)
           k == Cardinality(Active)
<1>1. n \in Nat /\ RowsOK(job, n, sid)
  BY LenProperties DEF Inv, VoiceOK
<1> HIDE DEF n
<1>2. k \in Nat
  BY FS_Subset, FS_CardinalityType DEF Active
<1> HIDE DEF k
<1>3. UNCHANGED <<room, node, sid, issued, held, job, acking, joins, faults>>
  BY DEF Tick, voice
<1>4. PICK s \in [1 .. k -> Active] :
        /\ \A a, b \in 1 .. k : a < b => s[a] # s[b]
        /\ due' = [i \in 1 .. k |-> Copy(s[i])]
  BY DEF Tick, k
<1>5. \A i \in 1 .. k : CopyOK(Copy(s[i]), job, n) /\ Copy(s[i]).id = s[i]
  <2> TAKE i \in 1 .. k
  <2>1. s[i] \in Jobs /\ job[s[i]] # NoJob
    BY DEF Active, NoJob
  <2>2. job[s[i]] \in JobRow(n) /\ RowOK(job[s[i]], n, sid)
    BY <1>1, <2>1 DEF RowsOK, RowOK
  <2>3. /\ Copy(s[i]) \in JobRow(n) /\ Copy(s[i]).id = s[i]
        /\ Copy(s[i]).st = job[s[i]].st /\ Copy(s[i]).tried = job[s[i]].tried
        /\ Copy(s[i]).fromSid = job[s[i]].fromSid /\ Copy(s[i]).from = job[s[i]].from
    BY <2>1, <2>2 DEF Copy, JobRow
  <2> QED BY <2>1, <2>2, <2>3 DEF CopyOK, Agrees, RowOK
<1>6. due' \in Seq(JobRow(n)) /\ Len(due') = k /\ \A i \in 1 .. k : due'[i] = Copy(s[i])
  BY <1>2, <1>4, <1>5 DEF CopyOK
<1>7. \A a, b \in 1 .. k : a # b => s[a] # s[b]
  BY <1>2, <1>4
<1>8. CopiesOK(due', job', n)
  BY <1>3, <1>5, <1>6, <1>7 DEF CopiesOK
<1> QED BY <1>3, <1>8 DEF Inv, VoiceOK, n

(* What a step finds at the head of the queue.                             *)
LEMMA HeadOK ==
  ASSUME Inv, due # <<>>
  PROVE  LET c == Head(due) IN
         /\ c \in JobRow(Len(issued)) /\ c.id \in Jobs /\ job[c.id] # NoJob
         /\ job[c.id].tried = c.tried /\ job[c.id].fromSid = c.fromSid
         /\ job[c.id].from = c.from
         /\ c.st \in Engaged => c.tried # {}
         /\ RowOK(job[c.id], Len(issued), sid)
<1>1. Len(issued) \in Nat
  BY LenProperties DEF Inv, VoiceOK
<1>2. CopyOK(Head(due), job, Len(issued))
  BY <1>1, CopiesStepped DEF Inv
<1> QED BY <1>2 DEF Inv, RowsOK, CopyOK, Agrees

(* The row of the job is written by a step of it, or by a crash in one.    *)
LEMMA RowStep ==
  ASSUME Inv, VoiceOK', UNCHANGED acking, due # <<>>, due' = Tail(due),
         NEW m \in Nat, m = Len(issued'), Len(issued) <= m,
         sid' \in {sid, None, Len(issued) + 1},
         NEW r, RowOK(r, m, sid'),
         r.tried # {} \/ job[Head(due).id].tried = {},
         job' = [job EXCEPT ![Head(due).id] = r]
  PROVE  Inv'
<1> DEFINE n == Len(issued)
           j == Head(due).id
           q == Tail(due)
<1>1. n \in Nat /\ RowsOK(job, n, sid) /\ CopiesOK(due, job, n) /\ AcksOK(acking, job)
  BY LenProperties DEF Inv, VoiceOK
<1>2. j \in Jobs /\ r # NoJob
  BY HeadOK DEF RowOK, JobRow, NoJob, States
<1>3. CopiesOK(q, job, n) /\ \A i \in 1 .. Len(q) : q[i].id # j
  BY <1>1, CopiesStepped
<1> HIDE DEF n, j, q
<1>4. job' = [job EXCEPT ![j] = r] /\ n <= m /\ sid' \in {sid, None, n + 1} /\ due' = q
  BY DEF n, j, q
<1>5. RowsOK(job', m, sid')
  <2>1. RowsOK([job EXCEPT ![j] = r], m, sid')
    <3>1. n \in Nat /\ n <= m /\ sid' \in {sid, None, n + 1} /\ RowsOK(job, n, sid) /\ j \in Jobs
      BY <1>1, <1>2, <1>4
    <3>2. \A x \in Nat : \A t \in {sid, None, n + 1} : \A y :
             n <= x /\ RowOK(y, x, t) => RowsOK([job EXCEPT ![j] = y], x, t)
      BY ONLY <3>1, RowWritten
    <3> QED BY ONLY <3>1, <3>2, RowOK(r, m, sid'), m \in Nat
  <2> QED BY ONLY <2>1, <1>4
<1>6. \A k \in Jobs : job'[k] = IF k = j THEN r ELSE job[k]
  BY <1>1, <1>4 DEF RowsOK
<1>7. CopiesOK(due', job', m)
  <2>1. CopiesOK(q, job', m)
    <3>1. n \in Nat /\ n <= m /\ CopiesOK(q, job, n)
      BY <1>1, <1>3, <1>4
    <3>2. \A k \in Jobs : \A i \in 1 .. Len(q) :
             q[i].id = k => (Agrees(q[i], job[k]) => Agrees(q[i], job'[k]))
      BY <1>3, <1>6
    <3> QED BY ONLY <3>1, <3>2, m \in Nat, CopiesGrow, ZenonT(30)
  <2> QED BY ONLY <1>4, <2>1
<1>8. AcksOK(acking', job')
  <2>1. r.tried # {} \/ job[j].tried = {}
    BY DEF j
  <2> QED BY <1>1, <1>2, <1>6, <2>1 DEF AcksOK
<1> QED BY <1>5, <1>7, <1>8 DEF Inv

(* The sid a job snapshots, when the user is in a channel.                 *)
LEMMA Snapshot ==
  ASSUME Inv, due # <<>>, StillThere(Head(due))
  PROVE  LET c == Head(due) f == SnapshotFirst(c) IN
         /\ room \in Rooms /\ sid \in 1 .. Len(issued)
         /\ f \in 1 .. Len(issued)
         /\ c.tried # {} => f = c.fromSid /\ f < sid
<1>1. /\ Head(due) \in JobRow(Len(issued)) /\ job[Head(due).id].tried = Head(due).tried
      /\ job[Head(due).id].fromSid = Head(due).fromSid
      /\ RowOK(job[Head(due).id], Len(issued), sid)
  BY HeadOK
<1>2. room \in Rooms /\ sid \in 1 .. Len(issued)
  BY <1>1 DEF StillThere, JobRow, Inv, VoiceOK
<1>3. Head(due).fromSid \in (1 .. Len(issued)) \cup {None} /\ sid # None
  BY <1>1, <1>2 DEF JobRow
<1> QED BY <1>1, <1>2, <1>3 DEF SnapshotFirst, RowOK

(* A job that fails keeps what it snapshot.                                *)
LEMMA FailStep ==
  ASSUME Inv, VoiceOK', UNCHANGED <<acking, issued, sid>>, due # <<>>, due' = Tail(due),
         NEW f \in (1 .. Len(issued)) \cup {None},
         Head(due).tried # {} => f = Head(due).fromSid,
         job' = Failed(Head(due).id, f)
  PROVE  Inv'
<1> DEFINE n == Len(issued)
           j == Head(due).id
           r == [job[j] EXCEPT !.st = "FAILED", !.to = None, !.fromSid = f]
<1>1. /\ n \in Nat /\ j \in Jobs /\ RowOK(job[j], n, sid)
      /\ job[j].tried = Head(due).tried /\ job[j].fromSid = Head(due).fromSid
      /\ RowsOK(job, n, sid)
  BY HeadOK, LenProperties DEF Inv, VoiceOK
<1>2. /\ r \in JobRow(n) /\ r.st = "FAILED" /\ r.tried = job[j].tried /\ r.fromSid = f
  BY <1>1 DEF RowOK, JobRow, States
<1>3. RowOK(r, n, sid) /\ (r.tried # {} \/ job[j].tried = {})
  BY <1>1, <1>2 DEF RowOK, Engaged
<1>4. job' = [job EXCEPT ![j] = r]
  BY <1>1 DEF Failed, RowsOK
<1>5. n = Len(issued') /\ Len(issued) <= n /\ sid' \in {sid, None, Len(issued) + 1} /\ RowOK(r, n, sid')
  BY <1>1, <1>3
<1> HIDE DEF r
<1> QED BY <1>1, <1>3, <1>4, <1>5, RowStep

LEMMA PreparedInv == Inv /\ Prepared => Inv'
<1> SUFFICES ASSUME Inv, Prepared PROVE Inv'
  OBVIOUS
<1> DEFINE n == Len(issued)
           c == Head(due)
           f == SnapshotFirst(c)
<1>1. /\ due # <<>> /\ due' = Tail(due) /\ StillThere(c) /\ sid' = n + 1
      /\ UNCHANGED <<room, node, held, acking, joins, faults>>
  BY DEF Prepared, Stepping, NoFault, NextSid
<1>2. /\ n \in Nat /\ c.id \in Jobs /\ RowOK(job[c.id], n, sid) /\ RowsOK(job, n, sid)
      /\ c \in JobRow(n) /\ VoiceOK
  BY <1>1, HeadOK, LenProperties DEF Inv, VoiceOK
<1>3. room \in Rooms /\ f \in 1 .. n
  BY <1>1, Snapshot
<1>4. PICK t \in Targets(c) :
        /\ issued' = Append(issued, [node |-> t, room |-> room])
        /\ job' = [job EXCEPT ![c.id].st = "CONNECT", ![c.id].to = t,
                              ![c.id].tried = c.tried \cup {t},
                              ![c.id].fromSid = SnapshotFirst(c)]
  BY DEF Prepared
<1> DEFINE r == [job[c.id] EXCEPT !.st = "CONNECT", !.to = t,
                                  !.tried = c.tried \cup {t}, !.fromSid = f]
<1>5. t \in Nodes
  BY <1>4 DEF Targets
<1>6. [node |-> t, room |-> room] \in [node : Nodes, room : Rooms]
  BY <1>3, <1>5
<1>7. issued' \in Seq([node : Nodes, room : Rooms]) /\ Len(issued') = n + 1
  BY <1>2, <1>4, <1>6, AppendProperties DEF VoiceOK
<1>8. VoiceOK'
  <2>1. room # None /\ sid # None /\ sid' # None
    BY <1>1, <1>2, <1>3 DEF VoiceOK
  <2> QED BY <1>1, <1>2, <1>7, <2>1 DEF VoiceOK
<1>9. /\ r \in JobRow(n + 1) /\ r.st = "CONNECT" /\ r.tried = c.tried \cup {t} /\ r.fromSid = f
  <2>1. job[c.id] \in JobRow(n + 1)
    BY <1>2 DEF RowOK, JobRow
  <2>2. c.tried \cup {t} \in SUBSET Nodes /\ f \in (1 .. n + 1) \cup {None} /\ "CONNECT" \in States
    BY <1>2, <1>3, <1>5 DEF JobRow, States
  <2> HIDE DEF f, n, c
  <2> QED BY <1>5, <2>1, <2>2 DEF JobRow
<1>10. job' = [job EXCEPT ![c.id] = r]
  BY <1>2, <1>4 DEF RowsOK
<1>11. RowOK(r, n + 1, sid') /\ r.tried # {}
  BY <1>1, <1>2, <1>3, <1>9 DEF RowOK
<1>12. n + 1 \in Nat /\ n + 1 = Len(issued') /\ Len(issued) <= n + 1
       /\ sid' \in {sid, None, Len(issued) + 1}
  BY <1>1, <1>2, <1>7
<1> HIDE DEF r
<1> QED BY <1>1, <1>8, <1>10, <1>11, <1>12, RowStep

LEMMA CleanupInv == Inv /\ Cleanup => Inv'
<1> SUFFICES ASSUME Inv, Cleanup PROVE Inv'
  OBVIOUS
<1> DEFINE c == Head(due)
<1>1. /\ due # <<>> /\ due' = Tail(due) /\ c.st = "CLEANUP" /\ c.to # None /\ room = c.room
      /\ held' \subseteq held
      /\ UNCHANGED <<room, sid, issued, acking, joins>>
  BY DEF Cleanup, Stepping, Executed
<1>2. /\ c \in JobRow(Len(issued)) /\ c.id \in Jobs /\ job[c.id] # NoJob
      /\ job[c.id].tried = c.tried /\ c.tried # {} /\ VoiceOK
      /\ c.to \in Nodes /\ room \in Rooms
  BY <1>1, HeadOK DEF Inv, Engaged, JobRow
<1>3. CASE node' = c.to /\ job' = Set(c.id, "DONE") /\ NoFault
  <2>1. VoiceOK'
    BY <1>1, <1>2, <1>3 DEF VoiceOK, NoFault
  <2>2. "DONE" \in States
    BY DEF States
  <2> QED BY <1>1, <1>2, <1>3, <2>1, <2>2, StateStep
<1>4. CASE UNCHANGED node /\ job' = Failed(c.id, c.fromSid) /\ Fault
  <2>1. VoiceOK'
    BY <1>1, <1>2, <1>4 DEF VoiceOK, Fault
  <2>2. c.fromSid \in (1 .. Len(issued)) \cup {None}
    BY <1>2 DEF JobRow
  <2> QED BY <1>1, <1>4, <2>1, <2>2, FailStep
<1> QED BY <1>3, <1>4 DEF Cleanup

LEMMA StepInv == Inv /\ Step => Inv'
<1> SUFFICES ASSUME Inv, Step PROVE Inv'
  OBVIOUS
<1> DEFINE c == Head(due)
<1>1. due # <<>> /\ due' = Tail(due) /\ UNCHANGED acking
  BY DEF Step, StepLater, PrepareCanceled, PrepareFailed, Prepared, ConnectTimeout, Cutover,
         CleanupNoTarget, CleanupGone, Cleanup, Retry, Stepping
<1>2. /\ c \in JobRow(Len(issued)) /\ c.id \in Jobs /\ job[c.id] # NoJob
      /\ job[c.id].tried = c.tried /\ (c.st \in Engaged => c.tried # {})
      /\ VoiceOK /\ {"CUTOVER", "CLEANUP", "QUEUED"} \subseteq States
  BY <1>1, HeadOK DEF Inv, States
<1>3. ASSUME UNCHANGED <<voice, held>>, NoFault, UNCHANGED joins
      PROVE  VoiceOK' /\ UNCHANGED <<issued, sid>>
  BY <1>2, <1>3 DEF VoiceOK, voice, NoFault
<1>4. CASE StepLater
  <2>1. UNCHANGED job /\ VoiceOK' /\ UNCHANGED <<issued, sid>>
    BY <1>3, <1>4 DEF StepLater, Stepping
  <2> QED BY <1>1, <1>2, <2>1, StateStep
<1>5. CASE PrepareCanceled
  <2>1. job' = Canceled(c.id) /\ VoiceOK' /\ UNCHANGED <<issued, sid>>
    BY <1>3, <1>5 DEF PrepareCanceled, Stepping
  <2> QED BY <1>1, <1>2, <2>1, StateStep
<1>6. CASE PrepareFailed
  <2>1. /\ job' = Failed(c.id, SnapshotFirst(c)) /\ VoiceOK' /\ UNCHANGED <<issued, sid>>
        /\ StillThere(c)
    BY <1>3, <1>6 DEF PrepareFailed, Stepping
  <2>2. /\ SnapshotFirst(c) \in (1 .. Len(issued)) \cup {None}
        /\ c.tried # {} => SnapshotFirst(c) = c.fromSid
    BY <1>1, <2>1, Snapshot
  <2> QED BY <1>1, <2>1, <2>2, FailStep
<1>7. CASE Prepared
  BY <1>7, PreparedInv
<1>8. CASE ConnectTimeout
  <2>1. /\ job' = Set(c.id, "CUTOVER") /\ VoiceOK' /\ UNCHANGED <<issued, sid>>
        /\ c.st = "CONNECT"
    BY <1>3, <1>8 DEF ConnectTimeout, Stepping, TimedOut
  <2> QED BY <1>1, <1>2, <2>1, StateStep DEF Engaged
<1>9. CASE Cutover
  <2>1. /\ job' = Set(c.id, "CLEANUP") /\ VoiceOK' /\ UNCHANGED <<issued, sid>>
        /\ c.st = "CUTOVER"
    BY <1>3, <1>9 DEF Cutover, Stepping
  <2> QED BY <1>1, <1>2, <2>1, StateStep DEF Engaged
<1>10. CASE CleanupNoTarget
  <2>1. job' = Failed(c.id, c.fromSid) /\ VoiceOK' /\ UNCHANGED <<issued, sid>>
    BY <1>3, <1>10 DEF CleanupNoTarget, Stepping
  <2>2. c.fromSid \in (1 .. Len(issued)) \cup {None}
    BY <1>2 DEF JobRow
  <2> QED BY <1>1, <2>1, <2>2, FailStep
<1>11. CASE CleanupGone
  <2>1. job' = Canceled(c.id) /\ VoiceOK' /\ UNCHANGED <<issued, sid>>
    BY <1>3, <1>11 DEF CleanupGone, Stepping
  <2> QED BY <1>1, <1>2, <2>1, StateStep
<1>12. CASE Cleanup
  BY <1>12, CleanupInv
<1>13. CASE Retry
  <2>1. /\ job' = Set(c.id, "QUEUED") /\ VoiceOK' /\ UNCHANGED <<issued, sid>>
    BY <1>3, <1>13 DEF Retry, Stepping
  <2>2. "QUEUED" \notin Engaged
    BY DEF Engaged
  <2> QED BY <1>1, <1>2, <2>1, <2>2, StateStep
<1> QED BY <1>4, <1>5, <1>6, <1>7, <1>8, <1>9, <1>10, <1>11, <1>12, <1>13 DEF Step
-----------------------------------------------------------------------------
(* A crash.                                                                *)

LEMMA RequeuedRows ==
  ASSUME NEW n \in Nat, NEW s, NEW rows, RowsOK(rows, n, s)
  PROVE  RowsOK(Requeued(rows), n, s)
<1> DEFINE q(j) == [rows[j] EXCEPT !.st = "QUEUED"]
<1>1. ASSUME NEW j \in Jobs, rows[j].st \in Interrupted
      PROVE  q(j) \in JobRow(n) /\ RowOK(q(j), n, s)
  <2>1. rows[j] # NoJob /\ RowOK(rows[j], n, s)
    BY <1>1 DEF NoJob, Interrupted, RowsOK
  <2>2. /\ q(j) \in JobRow(n) /\ q(j).st = "QUEUED"
        /\ q(j).tried = rows[j].tried /\ q(j).fromSid = rows[j].fromSid
    BY <2>1 DEF RowOK, JobRow, States
  <2> QED BY <2>1, <2>2 DEF RowOK, Engaged
<1>2. \A j \in Jobs : Requeued(rows)[j] = IF rows[j].st \in Interrupted THEN q(j) ELSE rows[j]
  BY DEF Requeued
<1> HIDE DEF q
<1>3. Requeued(rows) \in [Jobs -> JobRow(n) \cup {NoJob}]
  <2>1. \A j \in Jobs : Requeued(rows)[j] \in JobRow(n) \cup {NoJob}
    BY <1>1, <1>2 DEF RowsOK
  <2>2. Requeued(rows) = [j \in Jobs |-> Requeued(rows)[j]]
    BY DEF Requeued
  <2> QED BY <2>1, <2>2
<1> QED BY <1>1, <1>2, <1>3 DEF RowsOK

LEMMA RestartInv == Inv /\ Restart => Inv'
<1> SUFFICES ASSUME Inv, Restart PROVE Inv'
  OBVIOUS
<1> DEFINE n == Len(issued)
           c == Head(due)
<1>1. /\ due' = <<>> /\ acking' = {} /\ Fault
      /\ UNCHANGED <<room, node, sid, issued, held, joins>>
  BY DEF Restart, voice
<1>2. n \in Nat /\ RowsOK(job, n, sid)
  BY LenProperties DEF Inv, VoiceOK
<1>3. RowsOK(job', n, sid)
  <2>1. CASE job' = Requeued(job)
    BY <1>2, <2>1, RequeuedRows
  <2>2. CASE due # <<>> /\ StillThere(c) /\ job' = Requeued(InPrepare(c))
    <3> DEFINE f == SnapshotFirst(c)
               r == [job[c.id] EXCEPT !.st = "PREPARE", !.fromSid = f]
    <3>1. /\ c.id \in Jobs /\ RowOK(job[c.id], n, sid)
          /\ job[c.id].tried = c.tried /\ job[c.id].fromSid = c.fromSid
      BY <2>2, HeadOK
    <3>2. f \in 1 .. n /\ (c.tried # {} => f = c.fromSid)
      BY <2>2, Snapshot
    <3> HIDE DEF f
    <3>3. r \in JobRow(n) /\ r.st = "PREPARE" /\ r.tried = c.tried /\ r.fromSid = f
      BY <1>2, <3>1, <3>2 DEF RowOK, JobRow, States
    <3>4. RowOK(r, n, sid)
      BY <3>1, <3>2, <3>3 DEF RowOK, Engaged
    <3>5. InPrepare(c) = [job EXCEPT ![c.id] = r]
      BY <1>2, <3>1 DEF InPrepare, RowsOK, f
    <3> HIDE DEF r, n
    <3>6. n <= n /\ sid \in {sid, None, n + 1}
      BY <1>2
    <3>7. RowsOK(InPrepare(c), n, sid)
      BY <1>2, <3>1, <3>4, <3>5, <3>6, RowWritten
    <3> QED BY <1>2, <2>2, <3>7, RequeuedRows
  <2> QED BY <2>1, <2>2 DEF Restart
<1>4. VoiceOK'
  BY <1>1 DEF Inv, VoiceOK, Fault
<1>5. CopiesOK(due', job', n) /\ AcksOK(acking', job')
  BY <1>1 DEF CopiesOK, AcksOK
<1> QED BY <1>1, <1>3, <1>4, <1>5 DEF Inv

-----------------------------------------------------------------------------
LEMMA NextInv == Inv /\ [Next]_vars => Inv'
<1> SUFFICES ASSUME Inv, [Next]_vars PROVE Inv'
  OBVIOUS
<1>1. ASSUME NEW j \in Jobs, NEW p \in Priorities, NEW t \in Nodes \cup {None}, Create(j, p, t)
      PROVE  Inv'
  BY <1>1, CreateInv
<1>2. ASSUME NEW r \in Rooms, NEW n \in Nodes, Join(r, n) PROVE Inv'
  BY <1>2, JoinInv
<1>3. ASSUME NEW n \in Nodes, Rejoin(n) PROVE Inv'
  BY <1>3, RejoinInv
<1>4. CASE Leave
  BY <1>4, LeaveInv
<1>5. CASE Open
  BY <1>5, OpenInv
<1>6. CASE Tick
  BY <1>6, TickInv
<1>7. CASE Step
  BY <1>7, StepInv
<1>8. ASSUME NEW j \in Jobs, AckRead(j) PROVE Inv'
  BY <1>8, AckReadInv
<1>9. ASSUME NEW j \in Jobs, AckWrite(j) PROVE Inv'
  BY <1>9, AckWriteInv
<1>10. CASE Restart
  BY <1>10, RestartInv
<1>11. CASE UNCHANGED vars
  BY <1>11 DEF Inv, VoiceOK, vars, voice
<1> QED
  BY <1>1, <1>2, <1>3, <1>4, <1>5, <1>6, <1>7, <1>8, <1>9, <1>10, <1>11 DEF Next

LEMMA Invariance == Spec => []Inv
<1>1. Inv /\ [Next]_vars => Inv'
  BY NextInv
<1> QED BY InitInv, <1>1, PTL DEF Spec

(* The variables have their types.                                         *)
THEOREM TypeCorrect == Spec => []TypeOK
<1>1. Inv => TypeOK
  <2> SUFFICES ASSUME Inv PROVE TypeOK
    OBVIOUS
  <2>1. Sids = 1 .. Len(issued)
    BY DEF Sids, Inv, VoiceOK
  <2> QED BY <2>1 DEF Inv, VoiceOK, RowsOK, CopiesOK, AcksOK, TypeOK
<1> QED BY Invariance, <1>1, PTL

(* runCleanup: the engine never cuts the session that the voice state      *)
(* names, whatever joins, preemptions, acks and restarts came between.     *)
THEOREM SessionSpared == Spec => EngineSparesSession
<1>1. Inv /\ [Next]_vars => [Step /\ sid \in held => sid' # sid \/ sid \in held']_vars
  <2> SUFFICES ASSUME Inv, Step, sid \in held, sid' = sid PROVE sid \in held'
    OBVIOUS
  <2>1. CASE Cleanup
    <3>1. /\ due # <<>> /\ Head(due).st = "CLEANUP" /\ held' = Executed(Head(due))
      BY <2>1 DEF Cleanup, Stepping
    <3>2. /\ Head(due).tried # {} /\ job[Head(due).id].tried = Head(due).tried
          /\ job[Head(due).id].fromSid = Head(due).fromSid
          /\ RowOK(job[Head(due).id], Len(issued), sid)
      BY <3>1, HeadOK DEF Engaged
    <3>3. sid # None /\ sid \in Nat /\ Len(issued) \in Nat
      BY SidsNat DEF Inv, VoiceOK
    <3>4. Head(due).fromSid \in Nat /\ Head(due).fromSid < sid
      BY <3>2, <3>3 DEF RowOK, JobRow
    <3>5. Head(due).fromSid # sid
      BY <3>3, <3>4
    <3> QED BY <3>1, <3>5 DEF Executed
  <2>2. CASE UNCHANGED held
    BY <2>2
  <2> QED BY <2>1, <2>2 DEF Step, StepLater, PrepareCanceled, PrepareFailed, Prepared,
       ConnectTimeout, Cutover, CleanupNoTarget, CleanupGone, Retry
<1> QED BY Invariance, <1>1, PTL DEF Spec, EngineSparesSession

(* A step that writes only the state of a row, or takes its target away.   *)
LEMMA TargetKept ==
  ASSUME NEW n, NEW s, RowsOK(job, n, s), NEW i \in Jobs, NEW j \in Jobs,
         \/ UNCHANGED job
         \/ job' = Canceled(i)
         \/ \E st \in States : job' = Set(i, st)
         \/ \E f : job' = Failed(i, f)
  PROVE  job'[j].to \in {None, job[j].to} \/ job[j] = NoJob
<1> SUFFICES ASSUME job[j] # NoJob PROVE job'[j].to \in {None, job[j].to}
  OBVIOUS
<1>1. job[j] \in JobRow(n)
  BY DEF RowsOK
<1>2. CASE UNCHANGED job
  BY <1>2
<1>3. CASE \E st \in States : job' = Set(i, st)
  <2>1. PICK st \in States : job' = [job EXCEPT ![i].st = st]
    BY <1>3 DEF Set
  <2>2. job'[j] = IF j = i THEN [job[j] EXCEPT !.st = st] ELSE job[j]
    BY <2>1 DEF RowsOK
  <2> QED BY <1>1, <2>2 DEF JobRow
<1>4. CASE \E f : job' = Failed(i, f)
  <2>1. PICK f : job' = Failed(i, f)
    BY <1>4
  <2>2. job'[j] = IF j = i THEN [job[j] EXCEPT !.st = "FAILED", !.to = None, !.fromSid = f]
                  ELSE job[j]
    BY <2>1 DEF RowsOK, Failed
  <2> QED BY <1>1, <2>2 DEF JobRow
<1>5. CASE job' = Canceled(i)
  <2>1. UNCHANGED job \/ job' = Set(i, "CANCELED")
    BY <1>5 DEF Canceled
  <2> QED BY <1>2, <1>3, <2>1 DEF States
<1> QED BY <1>2, <1>3, <1>4, <1>5

(* pickTarget: no job gets to a node that it tried before, nor back to its *)
(* source, whatever acks and restarts came between its attempts.           *)
THEOREM TargetsAreFresh == Spec => FreshTarget
<1>1. Inv /\ [Next]_vars =>
        [\A j \in Jobs :
           Step /\ job[j] # NoJob /\ job'[j].to \notin {None, job[j].to}
             => job'[j].to \notin job[j].tried \cup {job[j].from}]_vars
  <2> SUFFICES ASSUME Inv, Step, NEW j \in Jobs, job[j] # NoJob,
                      job'[j].to \notin {None, job[j].to}
               PROVE  job'[j].to \notin job[j].tried \cup {job[j].from}
    OBVIOUS
  <2> DEFINE c == Head(due)
  <2>1. due # <<>>
    BY DEF Step, StepLater, PrepareCanceled, PrepareFailed, Prepared, ConnectTimeout, Cutover,
           CleanupNoTarget, CleanupGone, Cleanup, Retry, Stepping
  <2>2. /\ RowsOK(job, Len(issued), sid) /\ c.id \in Jobs
        /\ job[c.id] \in JobRow(Len(issued))
        /\ job[c.id].tried = c.tried /\ job[c.id].from = c.from
    BY <2>1, HeadOK DEF Inv, RowOK
  <2>3. CASE Prepared
    <3>1. PICK t \in Targets(c) :
            job' = [job EXCEPT ![c.id].st = "CONNECT", ![c.id].to = t,
                               ![c.id].tried = c.tried \cup {t},
                               ![c.id].fromSid = SnapshotFirst(c)]
      BY <2>3 DEF Prepared
    <3>2. job'[j] = IF j = c.id
                    THEN [job[j] EXCEPT !.st = "CONNECT", !.to = t,
                                        !.tried = c.tried \cup {t}, !.fromSid = SnapshotFirst(c)]
                    ELSE job[j]
      BY <2>2, <3>1 DEF RowsOK
    <3>3. j = c.id /\ job'[j].to = t
      BY <2>2, <3>2 DEF JobRow
    <3> QED BY <2>2, <3>1, <3>3 DEF Targets
  <2>4. CASE ~Prepared
    <3>1. {"CUTOVER", "CLEANUP", "DONE", "QUEUED"} \subseteq States
      BY DEF States
    <3>2. \/ UNCHANGED job
          \/ job' = Canceled(c.id)
          \/ \E st \in States : job' = Set(c.id, st)
          \/ \E f : job' = Failed(c.id, f)
      BY <2>4, <3>1 DEF Step, StepLater, PrepareCanceled, PrepareFailed, ConnectTimeout, TimedOut,
         Cutover, CleanupNoTarget, CleanupGone, Cleanup, Retry
    <3> QED BY <2>2, <3>2, TargetKept
  <2> QED BY <2>3, <2>4
<1> QED BY Invariance, <1>1, PTL DEF Spec, FreshTarget
-----------------------------------------------------------------------------
(* The source is cleared. While a job is alone and nobody joined again, the *)
(* source is the node of the first session and of no other, and what the    *)
(* job snapshots is that session.                                           *)

Alone(j) == joins = 0 /\ \A k \in Jobs \ {j} : job[k] = NoJob

SourceKnown(j) ==
  /\ 1 <= Len(issued)
  /\ \A i \in 2 .. Len(issued) : job[j] # NoJob /\ issued[i].node # job[j].from
  /\ job[j] = NoJob => sid \in {1, None} /\ (node = None \/ issued[1].node = node)
  /\ job[j] # NoJob =>
       /\ issued[1].node = job[j].from
       /\ job[j].fromSid = 1 \/ (job[j].fromSid = None /\ sid \in {1, None})
       /\ job[j].st = "DONE" => 1 \notin held

ClearInv == \A j \in Jobs : Alone(j) => SourceKnown(j)

(* The rows of a step: what is written is a row again.                     *)
LEMMA RowsStay ==
  ASSUME Inv, Next
  PROVE  joins' \in Nat /\ joins <= joins' /\ \A k \in Jobs : job[k] # NoJob => job'[k] # NoJob
<1> DEFINE Was(k) == job'[k].st \in States \cup {job[k].st}
<1>1. /\ job \in [Jobs -> JobRow(Len(issued)) \cup {NoJob}]
      /\ joins \in Nat /\ MaxJoins \in Nat
  BY DEF Inv, RowsOK, VoiceOK
<1>2. \A k \in Jobs : job[k] # NoJob => job[k].st \in States
  BY <1>1 DEF JobRow
<1>3. ASSUME NEW k \in Jobs, job[k] # NoJob, Was(k) PROVE job'[k] # NoJob
  BY <1>2, <1>3 DEF NoJob, States
<1>4. \A i, k \in Jobs : \A st \in States : Set(i, st)[k].st \in States \cup {job[k].st}
  BY <1>1 DEF Set
<1>5. \A i, k \in Jobs : Canceled(i)[k].st \in States \cup {job[k].st}
  BY <1>4 DEF Canceled, States
<1>6. \A i, k \in Jobs : \A f : Failed(i, f)[k].st \in States \cup {job[k].st}
  BY <1>1 DEF Failed, States
<1>7. CancelActive => \A k \in Jobs : Was(k)
  BY <1>5 DEF CancelActive, Active
<1>8. due # <<>> => Head(due).id \in Jobs
  BY HeadOK
<1>9. ASSUME NEW j \in Jobs, NEW p \in Priorities, NEW t \in Nodes \cup {None}, Create(j, p, t)
      PROVE  joins' = joins /\ \A k \in Jobs : job[k] # NoJob => Was(k)
  <2>1. joins' = joins /\ job[j] = NoJob
    BY <1>9 DEF Create
  <2>2. PICK e \in Jobs : job' = [job EXCEPT ![j] = NewJob(p, t)]
                          \/ job' = [Canceled(e) EXCEPT ![j] = NewJob(p, t)]
    BY <1>9 DEF Create, Active
  <2>3. \A k \in Jobs \ {j} : job'[k] = job[k] \/ job'[k] = Canceled(e)[k]
    BY <1>1, <2>2 DEF Canceled, Set
  <2> QED BY <1>5, <2>1, <2>3
<1>10. ASSUME NEW r \in Rooms, NEW n \in Nodes, Join(r, n) \/ Rejoin(n)
       PROVE  joins' = joins + 1 /\ \A k \in Jobs : Was(k)
  BY <1>7, <1>10 DEF Join, Rejoin
<1>11. Leave \/ Open \/ Tick => \A k \in Jobs : Was(k)
  BY <1>7 DEF Leave, Open, Tick
<1>12. ASSUME Step PROVE joins' = joins /\ \A k \in Jobs : Was(k)
  <2>1. joins' = joins /\ Head(due).id \in Jobs
    BY <1>8, <1>12 DEF Step, StepLater, PrepareCanceled, PrepareFailed, Prepared, ConnectTimeout,
       Cutover, CleanupNoTarget, CleanupGone, Cleanup, Retry, Stepping
  <2>2. ASSUME Prepared, NEW k \in Jobs PROVE Was(k)
    <3>1. PICK t, new : job' = [job EXCEPT ![Head(due).id].st = "CONNECT", ![Head(due).id].to = t,
                             ![Head(due).id].tried = new,
                             ![Head(due).id].fromSid = SnapshotFirst(Head(due))]
      BY <2>2 DEF Prepared
    <3>2. job'[k].st = IF k = Head(due).id THEN "CONNECT" ELSE job[k].st
      BY <1>1, <2>1, <3>1
    <3> QED BY <3>2 DEF States
  <2>3. CASE ~Prepared
    <3>1. {"CUTOVER", "CLEANUP", "DONE", "QUEUED"} \subseteq States
      BY DEF States
    <3>2. \/ UNCHANGED job
          \/ job' = Canceled(Head(due).id)
          \/ \E st \in States : job' = Set(Head(due).id, st)
          \/ \E f : job' = Failed(Head(due).id, f)
      BY <1>12, <2>3, <3>1 DEF Step, StepLater, PrepareCanceled, PrepareFailed, ConnectTimeout,
         TimedOut, Cutover, CleanupNoTarget, CleanupGone, Cleanup, Retry
    <3> QED BY <1>4, <1>5, <1>6, <2>1, <3>2
  <2> QED BY <2>1, <2>2, <2>3
<1>13. ASSUME NEW j \in Jobs, AckRead(j) \/ AckWrite(j)
       PROVE  joins' = joins /\ \A k \in Jobs : Was(k)
  BY <1>4, <1>13 DEF AckRead, AckWrite, States
<1>14. ASSUME Restart PROVE joins' = joins /\ \A k \in Jobs : Was(k)
  <2>1. ASSUME NEW rows, NEW k \in Jobs PROVE Requeued(rows)[k].st \in States \cup {rows[k].st}
    BY DEF Requeued, States
  <2>2. ASSUME due # <<>>, NEW k \in Jobs
        PROVE  InPrepare(Head(due))[k].st \in States \cup {job[k].st}
    BY <1>1, <1>8, <2>2 DEF InPrepare, States
  <2> QED BY <1>14, <2>1, <2>2 DEF Restart
<1>15. joins' \in Nat /\ joins <= joins' /\ \A k \in Jobs : job[k] # NoJob => Was(k) \/ job'[k] # NoJob
  <2>1. ASSUME joins' = joins \/ joins' = joins + 1 PROVE joins' \in Nat /\ joins <= joins'
    BY <1>1, <2>1
  <2>2. CASE \E j \in Jobs, p \in Priorities, t \in Nodes \cup {None} : Create(j, p, t)
    BY <1>9, <2>1, <2>2
  <2>3. CASE \E r \in Rooms, n \in Nodes : Join(r, n)
    BY <1>10, <2>1, <2>3
  <2>4. CASE \E n \in Nodes : Rejoin(n)
    <3>1. PICK r \in Rooms : TRUE
      BY <2>4 DEF Rejoin, Inv, VoiceOK
    <3> QED BY <1>10, <2>1, <2>4, <3>1
  <2>5. CASE Leave \/ Open \/ Tick
    <3>1. joins' = joins
      BY <2>5 DEF Leave, Open, Tick
    <3> QED BY <1>11, <2>1, <2>5, <3>1
  <2>6. CASE Step
    BY <1>12, <2>1, <2>6
  <2>7. CASE \E j \in Jobs : AckRead(j) \/ AckWrite(j)
    BY <1>13, <2>1, <2>7
  <2>8. CASE Restart
    BY <1>14, <2>1, <2>8
  <2> QED
    BY <2>2, <2>3, <2>4, <2>5, <2>6, <2>7, <2>8 DEF Next
<1> HIDE DEF Was
<1> QED
  BY <1>3, <1>15

(* A step that issues no session, and writes no row but the state and the  *)
(* snapshot of the job.                                                    *)
LEMMA QuietStep ==
  ASSUME NEW j \in Jobs, SourceKnown(j), issued' = issued,
         sid' \in {sid, None}, node' \in {node, None} \/ job[j] # NoJob,
         job[j] = NoJob => job'[j] = NoJob,
         job[j] # NoJob =>
           /\ job'[j] # NoJob /\ job'[j].from = job[j].from
           /\ job'[j].fromSid = job[j].fromSid \/ job'[j].fromSid = 1
           /\ job'[j].st = "DONE" => 1 \notin held'
  PROVE  SourceKnown(j)'
BY DEF SourceKnown

(* What the writes of the engine and of acks leave of a row.               *)
LEMMA Writes ==
  ASSUME Inv, NEW j \in Jobs, job[j] # NoJob
  PROVE  /\ Canceled(j)[j].from = job[j].from /\ Canceled(j)[j].fromSid = job[j].fromSid
         /\ Canceled(j)[j].st \in {"CANCELED", job[j].st}
         /\ \A st : /\ Set(j, st)[j].from = job[j].from
                    /\ Set(j, st)[j].fromSid = job[j].fromSid /\ Set(j, st)[j].st = st
         /\ \A f : /\ Failed(j, f)[j].from = job[j].from
                   /\ Failed(j, f)[j].fromSid = f /\ Failed(j, f)[j].st = "FAILED"
<1>1. job \in [Jobs -> JobRow(Len(issued)) \cup {NoJob}] /\ job[j] \in JobRow(Len(issued))
  BY DEF Inv, RowsOK
<1>2. \A st : /\ Set(j, st)[j].from = job[j].from
              /\ Set(j, st)[j].fromSid = job[j].fromSid /\ Set(j, st)[j].st = st
  BY <1>1 DEF Set, JobRow
<1>3. \A f : /\ Failed(j, f)[j].from = job[j].from
             /\ Failed(j, f)[j].fromSid = f /\ Failed(j, f)[j].st = "FAILED"
  BY <1>1 DEF Failed, JobRow
<1> QED
  BY <1>2, <1>3 DEF Canceled

(* The step of a job that is alone.                                        *)
LEMMA AloneStep ==
  ASSUME Inv, Step, NEW j \in Jobs, Alone(j), SourceKnown(j), job'[j] # NoJob
  PROVE  SourceKnown(j)'
<1> DEFINE c == Head(due)
<1>1. due # <<>>
  BY DEF Step, StepLater, PrepareCanceled, PrepareFailed, Prepared, ConnectTimeout, Cutover,
         CleanupNoTarget, CleanupGone, Cleanup, Retry, Stepping
<1>2. /\ c.id = j /\ job[j] # NoJob /\ job[j].fromSid = c.fromSid /\ job[j].from = c.from
      /\ c.st = "CLEANUP" => c.tried # {}
      /\ RowOK(job[j], Len(issued), sid) /\ job[j].tried = c.tried
  BY <1>1, HeadOK DEF Alone, Engaged
<1>3. StillThere(c) => SnapshotFirst(c) = 1 /\ sid \in 1 .. Len(issued)
  BY <1>1, <1>2, Snapshot DEF SnapshotFirst, SourceKnown
<1>4. c.fromSid = 1 \/ c.fromSid = None
  BY <1>2 DEF SourceKnown
<1>5. CASE StepLater
  BY <1>2, <1>5, QuietStep DEF StepLater, voice, SourceKnown
<1>6. CASE PrepareCanceled \/ CleanupGone
  <2>1. job' = Canceled(j) /\ issued' = issued /\ sid' = sid /\ node' = node /\ held' = held
    BY <1>2, <1>6 DEF PrepareCanceled, CleanupGone, voice
  <2> QED BY <1>2, <2>1, QuietStep, Writes DEF SourceKnown
<1>7. CASE PrepareFailed
  <2>1. /\ job' = Failed(j, 1) /\ issued' = issued /\ sid' = sid /\ node' = node
    BY <1>2, <1>3, <1>7 DEF PrepareFailed, voice
  <2> QED BY <1>2, <2>1, QuietStep, Writes
<1>8. CASE ConnectTimeout \/ Cutover \/ Retry
  <2>1. PICK st \in {"CUTOVER", "CLEANUP", "QUEUED"} : job' = Set(j, st)
    BY <1>2, <1>8 DEF ConnectTimeout, TimedOut, Cutover, Retry
  <2>2. issued' = issued /\ sid' = sid /\ node' = node
    BY <1>8 DEF ConnectTimeout, Cutover, Retry, voice
  <2> QED BY <1>2, <2>1, <2>2, QuietStep, Writes
<1>9. CASE CleanupNoTarget
  <2>1. job' = Failed(j, c.fromSid) /\ issued' = issued /\ sid' = sid /\ node' = node
    BY <1>2, <1>9 DEF CleanupNoTarget, voice
  <2> QED BY <1>2, <2>1, QuietStep, Writes
<1>10. CASE Cleanup
  <2>1. /\ held' = Executed(c) /\ issued' = issued /\ sid' = sid
        /\ job' = Set(j, "DONE") \/ job' = Failed(j, c.fromSid)
        /\ c.st = "CLEANUP"
    BY <1>2, <1>10 DEF Cleanup, Stepping
  <2>2. 1 \notin held'
    <3>1. c.fromSid = 1
      BY <1>2, <1>4, <2>1 DEF RowOK
    <3>2. 1 \in DOMAIN issued /\ issued[1].node = c.from
      BY <1>2, LenProperties DEF SourceKnown, Inv, VoiceOK
    <3> QED BY <2>1, <3>1, <3>2 DEF Executed
  <2> QED BY <1>2, <2>1, <2>2, QuietStep, Writes
<1>11. CASE Prepared
  <2>1. PICK t \in Targets(c) :
          /\ issued' = Append(issued, [node |-> t, room |-> room])
          /\ job' = [job EXCEPT ![j].st = "CONNECT", ![j].to = t,
                                ![j].tried = c.tried \cup {t}, ![j].fromSid = SnapshotFirst(c)]
    BY <1>2, <1>11 DEF Prepared
  <2>2. StillThere(c) /\ node' = node /\ held' = held
    BY <1>11 DEF Prepared
  <2>3. room \in Rooms /\ t \in Nodes /\ t # job[j].from
    BY <1>1, <1>2, <2>1, <2>2, Snapshot DEF Targets
  <2>4. [node |-> t, room |-> room] \in [node : Nodes, room : Rooms]
    BY <2>3
  <2>5. /\ Len(issued) \in Nat /\ Len(issued') = Len(issued) + 1
        /\ \A i \in 1 .. Len(issued) : issued'[i] = issued[i]
        /\ issued'[Len(issued) + 1].node = t
    BY <2>1, <2>4, AppendProperties, LenProperties DEF Inv, VoiceOK
  <2>6. job'[j].from = job[j].from /\ job'[j].fromSid = 1 /\ job'[j].st = "CONNECT"
    <3>1. job \in [Jobs -> JobRow(Len(issued)) \cup {NoJob}] /\ job[j] \in JobRow(Len(issued))
      BY <1>2 DEF Inv, RowsOK
    <3>2. job'[j] = [job[j] EXCEPT !.st = "CONNECT", !.to = t, !.tried = c.tried \cup {t},
                                   !.fromSid = SnapshotFirst(c)]
      BY <2>1, <3>1
    <3> QED BY <1>3, <2>2, <3>1, <3>2 DEF JobRow
  <2>7. \A i \in 2 .. Len(issued') : issued'[i].node # job[j].from
    BY <2>3, <2>5 DEF SourceKnown
  <2>8. 1 <= Len(issued') /\ issued'[1].node = job[j].from
    BY <1>2, <2>5 DEF SourceKnown
  <2> QED BY <2>6, <2>7, <2>8 DEF SourceKnown
<1> QED
  BY <1>5, <1>6, <1>7, <1>8, <1>9, <1>10, <1>11 DEF Step

LEMMA ClearNext == Inv /\ ClearInv /\ [Next]_vars => ClearInv'
<1> SUFFICES ASSUME Inv, ClearInv, [Next]_vars, NEW j \in Jobs, Alone(j)'
             PROVE  SourceKnown(j)'
  BY DEF ClearInv
<1>0. CASE UNCHANGED vars
  <2>1. Alone(j) /\ SourceKnown(j)
    BY <1>0 DEF ClearInv, Alone, vars
  <2> QED BY <1>0, <2>1 DEF SourceKnown, vars, voice
<1> SUFFICES ASSUME Next PROVE SourceKnown(j)'
  BY <1>0
<1>1. Alone(j) /\ SourceKnown(j) /\ joins' = joins /\ joins = 0
  <2>1. joins \in Nat
    BY DEF Inv, VoiceOK
  <2>2. joins = 0 /\ joins' = 0
    BY <2>1, RowsStay DEF Alone
  <2> QED BY <2>2, RowsStay DEF Alone, ClearInv
<1>2. /\ job \in [Jobs -> JobRow(Len(issued)) \cup {NoJob}]
      /\ \A k \in Jobs \ {j} : job[k] = NoJob /\ job'[k] = NoJob
      /\ job[j] # NoJob => job'[j] # NoJob
      /\ job[j] # NoJob => RowOK(job[j], Len(issued), sid)
  BY <1>1, RowsStay DEF Alone, Inv, RowsOK
<1>3. ASSUME NEW k \in Jobs, NEW p \in Priorities, NEW t \in Nodes \cup {None}, Create(k, p, t)
      PROVE  SourceKnown(j)'
  <2>1. PICK e \in Jobs : job' = [job EXCEPT ![k] = NewJob(p, t)]
                          \/ job' = [Canceled(e) EXCEPT ![k] = NewJob(p, t)]
    BY <1>3 DEF Create, Active
  <2>2. Canceled(e) \in [Jobs -> {Canceled(e)[i] : i \in Jobs}]
    BY <1>2 DEF Canceled, Set
  <2>3. job'[k] = NewJob(p, t)
    BY <1>2, <2>1, <2>2
  <2>4. NewJob(p, t) # NoJob /\ NewJob(p, t).st = "QUEUED" /\ NewJob(p, t).from = node
        /\ NewJob(p, t).fromSid = None
    BY DEF NewJob, NoJob
  <2>5. k = j /\ job[j] = NoJob /\ node # None /\ UNCHANGED voice
    BY <1>2, <1>3, <2>3, <2>4 DEF Create
  <2> QED BY <1>1, <2>3, <2>4, <2>5 DEF SourceKnown, voice
<1>4. ASSUME NEW r, NEW n, Join(r, n) \/ Rejoin(n)
      PROVE  FALSE
  BY <1>1, <1>4 DEF Join, Rejoin
<1>5. CASE Leave
  <2>1. issued' = issued /\ sid' = None /\ node' = None /\ held' \subseteq held
    BY <1>5 DEF Leave, GoneFromVoice
  <2>2. \/ job' = job
        \/ job[j] # NoJob /\ job' = Canceled(j)
    BY <1>2, <1>5 DEF Leave, CancelActive, Active, NoJob
  <2> QED BY <1>1, <1>2, <2>1, <2>2, QuietStep, Writes DEF SourceKnown
<1>6. CASE Open
  <2>1. UNCHANGED <<room, node, sid, issued, job>> /\ held' = held \cup {sid}
    BY <1>6 DEF Open, voice
  <2>2. ASSUME job[j] # NoJob, job[j].st = "DONE" PROVE sid # 1
    <3>1. job[j].tried # {} /\ job[j].fromSid # None /\ (sid = None \/ job[j].fromSid < sid)
      BY <1>2, <2>2 DEF RowOK, Engaged
    <3>2. job[j].fromSid = 1 /\ None # 1
      BY <1>1, <2>2, <3>1 DEF SourceKnown
    <3> QED BY <3>1, <3>2
  <2> QED BY <1>1, <1>2, <2>1, <2>2, QuietStep DEF SourceKnown
<1>7. CASE Tick
  BY <1>1, <1>2, <1>7, QuietStep DEF Tick, voice, SourceKnown
<1>8. CASE Step
  <2>1. job[j] # NoJob
    <3>1. due # <<>>
      BY <1>8 DEF Step, StepLater, PrepareCanceled, PrepareFailed, Prepared, ConnectTimeout,
         Cutover, CleanupNoTarget, CleanupGone, Cleanup, Retry, Stepping
    <3> QED BY <1>2, <3>1, HeadOK
  <2> QED BY <1>1, <1>2, <1>8, <2>1, AloneStep
<1>9. ASSUME NEW k \in Jobs, AckRead(k)
      PROVE  SourceKnown(j)'
  BY <1>1, <1>2, <1>9, QuietStep DEF AckRead, voice, SourceKnown
<1>10. ASSUME NEW k \in Jobs, AckWrite(k)
       PROVE  SourceKnown(j)'
  <2>1. k = j /\ job[j] # NoJob /\ job' = Set(j, "CUTOVER")
    BY <1>2, <1>10 DEF AckWrite, Inv, AcksOK
  <2>2. issued' = issued /\ sid' = sid /\ node' = node
    BY <1>10 DEF AckWrite, voice
  <2> QED BY <1>1, <1>2, <2>1, <2>2, QuietStep, Writes
<1>11. CASE Restart
  <2>1. UNCHANGED <<issued, sid, node, held>>
    BY <1>11 DEF Restart, voice
  <2>2. ASSUME NEW rows, rows[j] \in JobRow(Len(issued))
        PROVE  /\ Requeued(rows)[j].from = rows[j].from
               /\ Requeued(rows)[j].fromSid = rows[j].fromSid
               /\ Requeued(rows)[j].st \in {"QUEUED", rows[j].st}
    BY <2>2 DEF Requeued, JobRow
  <2>3. CASE job' = Requeued(job)
    <3>1. job[j] = NoJob => job'[j] = NoJob
      BY <2>3 DEF Requeued, NoJob, Interrupted
    <3>2. job[j] # NoJob => job[j] \in JobRow(Len(issued))
      BY <1>2
    <3> QED BY <1>1, <1>2, <2>1, <2>2, <2>3, <3>1, <3>2, QuietStep DEF SourceKnown
  <2>4. CASE due # <<>> /\ StillThere(Head(due)) /\ job' = Requeued(InPrepare(Head(due)))
    <3> DEFINE c == Head(due)
               rows == InPrepare(c)
    <3>1. /\ c.id = j /\ job[j] # NoJob /\ job[j].fromSid = c.fromSid
          /\ job[j] \in JobRow(Len(issued))
      BY <1>2, <2>4, HeadOK
    <3>2. SnapshotFirst(c) = 1
      BY <1>1, <2>4, <3>1, Snapshot DEF SnapshotFirst, SourceKnown
    <3>3. rows[j] = [job[j] EXCEPT !.st = "PREPARE", !.fromSid = 1]
      BY <1>2, <3>1, <3>2 DEF InPrepare
    <3>4. 1 \in 1 .. Len(issued) /\ "PREPARE" \in States
      BY <1>1, LenProperties DEF SourceKnown, States, Inv, VoiceOK
    <3>5. /\ rows[j] \in JobRow(Len(issued)) /\ rows[j].from = job[j].from
          /\ rows[j].fromSid = 1 /\ rows[j].st = "PREPARE"
      BY <3>1, <3>3, <3>4 DEF JobRow
    <3> HIDE DEF rows
    <3>6. /\ job'[j].from = job[j].from /\ job'[j].fromSid = 1 /\ job'[j].st # "DONE"
      BY <2>2, <2>4, <3>5 DEF rows
    <3> QED BY <1>1, <1>2, <2>1, <3>1, <3>6, QuietStep
  <2> QED BY <1>11, <2>3, <2>4 DEF Restart
<1> QED
  BY <1>3, <1>4, <1>5, <1>6, <1>7, <1>8, <1>9, <1>10, <1>11 DEF Next

LEMMA ClearInit == Init => ClearInv
<1> SUFFICES ASSUME Init, NEW j \in Jobs PROVE SourceKnown(j)
  BY DEF ClearInv
<1>1. Len(issued) = 1 /\ issued[1].node = node /\ sid = 1 /\ job[j] = NoJob
  BY DEF Init
<1> QED BY <1>1 DEF SourceKnown

(* runCleanup: the source of a job that is alone holds no other session of *)
(* the user when the job is done, however often it was retried.            *)
THEOREM SourceIsCleared == Spec => []SourceCleared
<1>1. Inv /\ ClearInv => SourceCleared
  <2> SUFFICES ASSUME Inv, ClearInv, NEW j \in Jobs, Alone(j), job[j].st = "DONE",
                      NEW i \in held, i \in DOMAIN issued, issued[i].node = job[j].from
               PROVE  FALSE
    BY DEF SourceCleared, SourceClear, Alone, Sids
  <2>1. SourceKnown(j) /\ job[j] # NoJob
    BY DEF ClearInv, NoJob
  <2>2. i \in 1 .. Len(issued) /\ Len(issued) \in Nat
    BY LenProperties DEF Inv, VoiceOK
  <2>3. i = 1 \/ i \in 2 .. Len(issued)
    BY <2>2
  <2> QED BY <2>1, <2>3 DEF SourceKnown
<1>2. Inv /\ ClearInv /\ [Next]_vars => ClearInv'
  BY ClearNext
<1> QED BY Invariance, ClearInit, <1>1, <1>2, PTL DEF Spec

-----------------------------------------------------------------------------
(* The graph of a room. What every step keeps of it:                       *)

GraphWell == lease \in Graph!Lease \cup {None} /\ edges \subseteq Graph!Edge /\ Graph!OneStar

GraphInv == Graph!TypeOK /\ Graph!OneStar /\ Graph!JoinedReachAnchor

\* What a step that only adds to the graph keeps.
LEMMA AddedKeeps ==
  ASSUME Graph!TypeOK, Graph!OneStar, NEW n \in Nodes, Graph!LeftBehind(n)
  PROVE  GraphWell' /\ \A m \in Nodes : Graph!Reaches(m) => Graph!Reaches(m)'
<1> USE NoneIsNoLease, BoundsAreNumbers
<1>1. CASE Graph!FirstAnchor(n)
  BY <1>1 DEF Graph!FirstAnchor, Graph!TypeOK, Graph!OneStar, GraphWell, Graph!Lease, Graph!Reaches
<1>2. CASE lease # None /\ UNCHANGED <<lease, edges>>
  BY <1>2 DEF Graph!TypeOK, Graph!OneStar, GraphWell, Graph!Reaches, Graph!HasEdge
<1>3. CASE Graph!HangEdge(n)
  <2>1. [parent |-> lease.anchor, child |-> n, epoch |-> lease.epoch] \in Graph!Edge
    BY <1>3 DEF Graph!HangEdge, Graph!TypeOK, Graph!Lease, Graph!Edge
  <2>2. GraphWell'
    BY <1>3, <2>1 DEF Graph!HangEdge, Graph!Hang, Graph!TypeOK, Graph!OneStar, GraphWell
  <2>3. \A m \in Nodes : Graph!Reaches(m) => Graph!Reaches(m)'
    BY <1>3 DEF Graph!HangEdge, Graph!Hang, Graph!Reaches, Graph!HasEdge
  <2> QED BY <2>2, <2>3
<1> QED
  BY <1>1, <1>2, <1>3 DEF Graph!LeftBehind, Graph!EnsureFailed, Graph!EnsureCascade, Graph!AlreadyReaches

LEMMA EnsuredReaches ==
  ASSUME Graph!TypeOK, Graph!OneStar, NEW n \in Nodes, Graph!EnsureCascade(n)
  PROVE  Graph!Reaches(n)'
<1> USE NoneIsNoLease, BoundsAreNumbers
<1>1. CASE Graph!FirstAnchor(n)
  <2>1. lease' \in Graph!Lease
    BY <1>1 DEF Graph!FirstAnchor, Graph!Lease
  <2> QED BY <1>1, <2>1 DEF Graph!FirstAnchor, Graph!Reaches
<1>2. CASE Graph!AlreadyReaches(n)
  BY <1>2 DEF Graph!AlreadyReaches, Graph!Reaches, Graph!HasEdge
<1>3. CASE Graph!HangEdge(n)
  <2> DEFINE new == [parent |-> lease.anchor, child |-> n, epoch |-> lease.epoch]
  <2>1. new \in edges' /\ new.child = n
    BY <1>3 DEF Graph!HangEdge, Graph!Hang
  <2>2. Graph!HasEdge(n)'
    BY <2>1 DEF Graph!HasEdge
  <2> QED BY <1>3, <2>2 DEF Graph!HangEdge, Graph!Reaches
<1> QED BY <1>1, <1>2, <1>3 DEF Graph!EnsureCascade

LEMMA RerootedReach ==
  ASSUME Graph!TypeOK, lease # None, NEW a, NEW excluded, Graph!ReRoot(a, excluded)
  PROVE  GraphWell' /\ \A m \in Graph!Serving(a) \ excluded : Graph!Reaches(m)'
<1> USE NoneIsNoLease, BoundsAreNumbers
<1> DEFINE serving == Graph!Serving(a) \ excluded
           next == lease.epoch + 1
<1>1. PICK root \in serving :
        /\ lease' = [anchor |-> root, epoch |-> next]
        /\ edges' = Graph!Star(root, serving, next)
  BY DEF Graph!ReRoot, Graph!Elected
<1>2. next \in 1 .. MaxEpoch
  BY DEF Graph!ReRoot, Graph!TypeOK, Graph!Lease
<1>3. serving \subseteq Nodes
  BY DEF Graph!Serving
<1>4. lease' \in Graph!Lease
  BY <1>1, <1>2, <1>3 DEF Graph!Lease
<1>5. GraphWell'
  <2>1. \A e \in edges' : /\ e \in Graph!Edge /\ e.parent = root
                         /\ e.epoch = next /\ e.child # root
    BY <1>1, <1>2, <1>3 DEF Graph!Star, Graph!Edge
  <2> QED BY <1>1, <1>4, <2>1 DEF GraphWell, Graph!OneStar
<1>6. \A m \in serving : Graph!Reaches(m)'
  <2> SUFFICES ASSUME NEW m \in serving, m # root
               PROVE  Graph!HasEdge(m)'
    BY <1>1, <1>4 DEF Graph!Reaches
  <2> DEFINE new == [parent |-> root, child |-> m, epoch |-> next]
  <2>1. new \in edges' /\ new.child = m
    BY <1>1 DEF Graph!Star
  <2> QED BY <2>1 DEF Graph!HasEdge
<1> QED BY <1>5, <1>6

LEMMA LeftReach ==
  ASSUME Graph!TypeOK, Graph!OneStar, NEW a, NEW n \in Nodes, Graph!CascadeAfterLeave(a, n)
  PROVE  GraphWell' /\ \A m \in Graph!Serving(a) : Graph!Reaches(m) => Graph!Reaches(m)'
<1> USE NoneIsNoLease, BoundsAreNumbers
<1>1. CASE Graph!Serving(a) = {} /\ Graph!Release
  BY <1>1 DEF Graph!Release, GraphWell, Graph!OneStar
<1>2. CASE UNCHANGED <<lease, edges>>
  BY <1>2 DEF Graph!TypeOK, Graph!OneStar, GraphWell, Graph!Reaches, Graph!HasEdge
<1>3. CASE n \notin Graph!Serving(a) /\ lease # None /\ Graph!ReRoot(a, {n})
  BY <1>3, RerootedReach
<1>4. CASE /\ n \notin Graph!Serving(a) /\ lease # None
           /\ edges' = {e \in edges : e.child # n} /\ UNCHANGED lease
  <2>1. GraphWell'
    BY <1>4 DEF Graph!TypeOK, Graph!OneStar, GraphWell
  <2>2. ASSUME NEW m \in Graph!Serving(a), Graph!Reaches(m) PROVE Graph!Reaches(m)'
    BY <1>4, <2>2 DEF Graph!Reaches, Graph!HasEdge
  <2> QED BY <2>1, <2>2
<1> QED
  BY <1>1, <1>2, <1>3, <1>4 DEF Graph!CascadeAfterLeave, Graph!StillServing

-----------------------------------------------------------------------------

LEMMA GraphInit == Graph!Init => GraphInv
  BY NoneIsNoLease, BoundsAreNumbers DEF Graph!Init, GraphInv, Graph!TypeOK, Graph!OneStar, Graph!JoinedReachAnchor

LEMMA GraphNext == GraphInv /\ [Graph!Next]_(Graph!vars) => GraphInv'
<1> SUFFICES ASSUME GraphInv, [Graph!Next]_(Graph!vars) PROVE GraphInv'
  OBVIOUS
<1> USE NoneIsNoLease, BoundsAreNumbers
<1>0. Graph!TypeOK /\ Graph!OneStar /\ Graph!JoinedReachAnchor
  BY DEF GraphInv
<1>1. ASSUME NEW u \in Users, NEW n \in Nodes, Graph!Join(u, n)
      PROVE  GraphInv'
  <2>1. GraphWell' /\ Graph!Reaches(n)' /\ \A m \in Nodes : Graph!Reaches(m) => Graph!Reaches(m)'
    BY <1>0, <1>1, AddedKeeps, EnsuredReaches DEF Graph!Join, Graph!LeftBehind
  <2>2. Graph!TypeOK'
    BY <1>0, <1>1, <2>1 DEF Graph!Join, Graph!Canceled, Graph!TypeOK, GraphWell
  <2>3. Graph!JoinedReachAnchor'
    BY <1>0, <1>1, <2>1 DEF Graph!Join, Graph!TypeOK, Graph!JoinedReachAnchor
  <2> QED BY <2>1, <2>2, <2>3 DEF GraphInv, GraphWell
<1>2. ASSUME NEW u \in Users, NEW n \in Nodes,
             Graph!JoinFailed(u, n) \/ Graph!Prepared(u, n) \/ Graph!PrepareFailed(u, n)
      PROVE  GraphInv'
  <2>1. GraphWell' /\ \A m \in Nodes : Graph!Reaches(m) => Graph!Reaches(m)'
    BY <1>0, <1>2, AddedKeeps DEF Graph!JoinFailed, Graph!Prepared, Graph!PrepareFailed, Graph!LeftBehind
  <2>2. Graph!TypeOK'
    BY <1>0, <1>2, <2>1 DEF Graph!JoinFailed, Graph!Prepared, Graph!PrepareFailed, Graph!Canceled, Graph!TypeOK, GraphWell
  <2>3. Graph!JoinedReachAnchor'
    BY <1>0, <1>2, <2>1 DEF Graph!JoinFailed, Graph!Prepared, Graph!PrepareFailed, Graph!TypeOK, Graph!JoinedReachAnchor
  <2> QED BY <2>1, <2>2, <2>3 DEF GraphInv, GraphWell
<1>3. ASSUME NEW u \in Users, Graph!Leave(u) \/ Graph!Cleanup(u)
      PROVE  GraphInv'
  <2>1. at[u] \in Nodes
    BY <1>0, <1>3 DEF Graph!Leave, Graph!Cleanup, Graph!TypeOK
  <2>2. GraphWell' /\ \A m \in Graph!Serving(at') : Graph!Reaches(m) => Graph!Reaches(m)'
    BY <1>0, <1>3, <2>1, LeftReach DEF Graph!Leave, Graph!Cleanup
  <2>3. Graph!TypeOK'
    BY <1>0, <1>3, <2>2 DEF Graph!Leave, Graph!Cleanup, Graph!Canceled, Graph!TypeOK, GraphWell
  <2>4. ASSUME NEW v \in Users, at'[v] \notin gone' \cup {None}, v \notin moved'
        PROVE  Graph!Reaches(at[v])'
    <3>1. v # u /\ at'[v] = at[v] /\ v \notin moved /\ gone' = gone
      BY <1>0, <1>3, <2>4 DEF Graph!Leave, Graph!Cleanup, Graph!TypeOK
    <3>2. Graph!Reaches(at[v])
      BY <1>0, <2>4, <3>1 DEF Graph!JoinedReachAnchor
    <3>3. at[v] \in Graph!Serving(at')
      BY <1>0, <2>4, <3>1 DEF Graph!Serving, Graph!UsersOn, Graph!TypeOK
    <3> QED BY <2>2, <3>1, <3>2, <3>3
  <2> QED BY <2>2, <2>3, <2>4 DEF GraphInv, GraphWell, Graph!JoinedReachAnchor
<1>4. ASSUME NEW u \in Users, Graph!MigrationEnded(u)
      PROVE  GraphInv'
  BY <1>0, <1>4 DEF Graph!MigrationEnded, Graph!Canceled, GraphInv, Graph!TypeOK, Graph!OneStar,
                    Graph!JoinedReachAnchor, Graph!Reaches, Graph!HasEdge
<1>5. ASSUME NEW n \in Nodes, Graph!MigrateNode(n)
      PROVE  GraphInv'
  <2>1. /\ GraphWell'
        /\ \A m \in Graph!Serving(at) \ {n} : Graph!Reaches(m) => Graph!Reaches(m)'
    <3>1. CASE UNCHANGED <<lease, edges>>
      BY <1>0, <3>1 DEF Graph!TypeOK, Graph!OneStar, GraphWell, Graph!Reaches, Graph!HasEdge
    <3>2. CASE Graph!Serving(at) = {n} /\ Graph!Release
      BY <3>2 DEF Graph!Release, GraphWell, Graph!OneStar
    <3>3. CASE lease # None /\ Graph!ReRoot(at, {n})
      BY <1>0, <3>3, RerootedReach
    <3> QED BY <1>5, <3>1, <3>2, <3>3 DEF Graph!MigrateNode, Graph!GivesUpRoot
  <2>2. Graph!TypeOK'
    BY <1>0, <1>5, <2>1 DEF Graph!MigrateNode, Graph!TypeOK, GraphWell
  <2>3. ASSUME NEW v \in Users, at[v] \notin gone' \cup {None}, v \notin moved
        PROVE  Graph!Reaches(at[v])'
    BY <1>0, <1>5, <2>1, <2>3 DEF Graph!MigrateNode, Graph!Serving, Graph!UsersOn, Graph!TypeOK, Graph!JoinedReachAnchor
  <2> QED BY <1>5, <2>1, <2>2, <2>3 DEF Graph!MigrateNode, GraphInv, GraphWell, Graph!JoinedReachAnchor
<1>6. ASSUME UNCHANGED Graph!vars
      PROVE  GraphInv'
  BY <1>0, <1>6 DEF Graph!vars, GraphInv, Graph!TypeOK, Graph!OneStar, Graph!JoinedReachAnchor, Graph!Reaches, Graph!HasEdge
<1> QED
  BY <1>1, <1>2, <1>3, <1>4, <1>5, <1>6 DEF Graph!Next

LEMMA GraphInvariance == Graph!Spec => []GraphInv
  BY GraphInit, GraphNext, PTL DEF Graph!Spec

(* The rows have their types in every execution: a user is moved, and has  *)
(* a migration, only while he is in the room.                              *)
THEOREM GraphTypeCorrect == Graph!Spec => []Graph!TypeOK
<1>1. GraphInv => Graph!TypeOK
  BY DEF GraphInv
<1> QED BY GraphInvariance, <1>1, PTL

(* The graph of the room is one star below the anchor of the lease, at its *)
(* epoch, whatever joins, leaves, fails and falls.                         *)
THEOREM GraphStaysOneStar == Graph!Spec => []Graph!OneStar
<1>1. GraphInv => Graph!OneStar
  BY DEF GraphInv
<1> QED BY GraphInvariance, <1>1, PTL

(* Whoever joined on a node reaches the anchor from there until he leaves, *)
(* is moved, or the node itself is given up.                               *)
THEOREM GraphUsersReach == Graph!Spec => []Graph!JoinedReachAnchor
<1>1. GraphInv => Graph!JoinedReachAnchor
  BY DEF GraphInv
<1> QED BY GraphInvariance, <1>1, PTL

(* A root that was elected leaves a lease.                                 *)
LEMMA Rerooted ==
  ASSUME Graph!TypeOK, lease # None, NEW a, NEW excluded, Graph!ReRoot(a, excluded)
  PROVE  lease' # None
<1>1. PICK root \in Graph!Serving(a) \ excluded : TRUE
  BY DEF Graph!ReRoot, Graph!Elected
<1>2. Graph!Reaches(root)'
  BY <1>1, RerootedReach
<1> QED
  BY <1>2 DEF Graph!Reaches
-----------------------------------------------------------------------------
(* The graph and its room.                                                 *)

(* An action property of the graph: it is dropped with the last user, or   *)
(* with an anchor that served all of them, and then only.                  *)
THEOREM GraphStays == Graph!Spec => Graph!GraphLivesWithRoom
<1> DEFINE Users0 == Graph!Serving(at)
           Lost(n) == Users0 = {n} /\ n \in gone' \ gone
           Goal == lease # None /\ Users0 # {} =>
                     (lease' = None <=> Graph!Serving(at') = {} \/ Lost(lease.anchor))
<1>1. GraphInv /\ GraphInv' /\ [Graph!Next]_(Graph!vars) => [Goal]_(Graph!vars)
  <2> SUFFICES ASSUME GraphInv, GraphInv', Graph!Next, lease # None, Users0 # {}
               PROVE  lease' = None <=> Graph!Serving(at') = {} \/ Lost(lease.anchor)
    OBVIOUS
  <2>0. Graph!TypeOK
    BY DEF GraphInv
  \* What the lease becomes, and with it the room, when no node is given up.
  <2>1. ASSUME NEW u \in Users, NEW n \in Nodes, Graph!Join(u, n)
        PROVE  lease' = lease /\ n \in Graph!Serving(at') /\ gone' = gone
    BY <2>0, <2>1 DEF Graph!Join, Graph!EnsureCascade, Graph!FirstAnchor, Graph!AlreadyReaches,
       Graph!HangEdge, Graph!Serving, Graph!UsersOn, Graph!TypeOK
  <2>2. ASSUME NEW u \in Users, NEW n \in Nodes,
               Graph!JoinFailed(u, n) \/ Graph!Prepared(u, n) \/ Graph!PrepareFailed(u, n)
        PROVE  lease' = lease /\ at' = at /\ gone' = gone
    BY <2>2 DEF Graph!JoinFailed, Graph!Prepared, Graph!PrepareFailed, Graph!LeftBehind,
       Graph!EnsureFailed, Graph!EnsureCascade, Graph!FirstAnchor, Graph!AlreadyReaches,
       Graph!HangEdge
  <2>3. ASSUME NEW u \in Users, Graph!MigrationEnded(u)
        PROVE  lease' = lease /\ at' = at /\ gone' = gone
    BY <2>3 DEF Graph!MigrationEnded
  <2>4. ASSUME NEW u \in Users, Graph!Leave(u) \/ Graph!Cleanup(u)
        PROVE  gone' = gone /\ (lease' = None <=> Graph!Serving(at') = {})
    <3>1. gone' = gone /\ Graph!CascadeAfterLeave(at', at[u])
      BY <2>4 DEF Graph!Leave, Graph!Cleanup
    <3>2. ASSUME Graph!ReRoot(at', {at[u]}) PROVE lease' # None
      BY <2>0, <3>2, Rerooted
    <3> QED
      BY <3>1, <3>2 DEF Graph!CascadeAfterLeave, Graph!Release
  <2>5. ASSUME NEW n \in Nodes, Graph!MigrateNode(n)
        PROVE  lease' = None <=> Graph!Serving(at') = {} \/ Lost(lease.anchor)
    <3>1. at' = at /\ gone' = gone \cup {n} /\ n \notin gone
      BY <2>5 DEF Graph!MigrateNode
    <3>2. Graph!Serving(at') = Users0
      BY <3>1 DEF Graph!Serving, Graph!UsersOn
    <3>3. ASSUME Graph!ReRoot(at, {n}) PROVE lease' # None
      BY <2>0, <3>3, Rerooted
    <3>4. n \in Users0 <=> Graph!UsersOn(at, n) # {}
      BY DEF Graph!Serving
    <3>5. lease' = None <=> Graph!GivesUpRoot(n) /\ Users0 = {n}
      BY <2>5, <3>3 DEF Graph!MigrateNode, Graph!Release
    <3>6. Graph!GivesUpRoot(n) /\ Users0 = {n} <=> lease.anchor = n /\ Users0 = {n}
      BY <3>4 DEF Graph!GivesUpRoot
    <3> QED
      BY <3>1, <3>2, <3>5, <3>6
  <2> QED
    BY <2>1, <2>2, <2>3, <2>4, <2>5 DEF Graph!Next, Graph!Serving, Graph!UsersOn
<1> QED
  BY <1>1, GraphInvariance, PTL DEF Graph!Spec, Graph!GraphLivesWithRoom
-----------------------------------------------------------------------------
(* Who waits at the registry.                                              *)

\* A command that was not registered is not known to the node, and one that
\* is pending was not answered.
ControlInv ==
  /\ want \in [Two -> Control!Epochs \cup {None}]
  /\ call \in [Two -> Control!Calls] /\ answer \in [Two -> Nat]
  /\ waiting \subseteq Two /\ onWire \subseteq Two
  /\ \A c \in Two : call[c] = "new" => c \notin onWire /\ answer[c] = 0
  /\ \A c \in waiting : answer[c] = 0
  /\ Control!NoneStranded

LEMMA ControlInit == Control!Init => ControlInv
<1> SUFFICES ASSUME Control!Init PROVE ControlInv
  OBVIOUS
<1> USE DEF Control!Init
<1>1. call \in [Two -> Control!Calls]
  BY DEF Control!Calls
<1>2. Control!NoneStranded
  BY DEF Control!NoneStranded
<1> QED
  BY <1>1, <1>2 DEF ControlInv

(* What happens to edges leaves the commands alone, and the other way round *)
LEMMA EdgeNext ==
  ASSUME ControlInv, UNCHANGED <<call, waiting, onWire, answer>>,
         \/ \E epoch \in Control!Epochs, up \in BOOLEAN : Control!Report(epoch, up)
         \/ Control!Expire
         \/ \E w \in Two : \/ Control!Woken(w) \/ Control!GivesUp(w)
                           \/ \E epoch \in Control!Epochs : Control!WaitEdgeUp(w, epoch)
  PROVE  ControlInv'
<1> USE DEF ControlInv, Control!NoneStranded
<1>1. ASSUME NEW epoch \in Control!Epochs, NEW up \in BOOLEAN, Control!Report(epoch, up)
      PROVE  ControlInv'
  <2>1. PICK wake \in SUBSET Two :
          /\ wake = {w \in Two : want[w] # None /\ Control!Satisfied(edge', want[w])}
          /\ want' = [w \in Two |-> IF w \in wake THEN None ELSE want[w]]
    BY <1>1 DEF Control!Report
  <2>2. want' \in [Two -> Control!Epochs \cup {None}]
    BY <2>1
  <2>3. Control!NoneStranded'
    BY <2>1 DEF Control!Satisfied
  <2> QED BY <2>2, <2>3
<1>2. CASE Control!Expire
  BY <1>2 DEF Control!Expire
<1>3. ASSUME NEW w \in Two, Control!Woken(w) \/ Control!GivesUp(w)
      PROVE  ControlInv'
  BY <1>3 DEF Control!Woken, Control!GivesUp
<1>4. ASSUME NEW w \in Two, NEW epoch \in Control!Epochs, Control!WaitEdgeUp(w, epoch)
      PROVE  ControlInv'
  BY <1>4 DEF Control!WaitEdgeUp, Control!Satisfied
<1> QED
  BY <1>1, <1>2, <1>3, <1>4

LEMMA ControlNext == ControlInv /\ [Control!Next]_(Control!vars) => ControlInv'
<1> SUFFICES ASSUME ControlInv, [Control!Next]_(Control!vars) PROVE ControlInv'
  OBVIOUS
<1> USE DEF Control!edgeVars, Control!commandVars
<1>0. ASSUME UNCHANGED <<edge, want>> PROVE Control!NoneStranded'
  BY <1>0 DEF ControlInv, Control!NoneStranded
<1>1. CASE UNCHANGED Control!vars
  BY <1>1 DEF Control!vars, ControlInv, Control!NoneStranded
<1>2. ASSUME NEW epoch \in Control!Epochs, NEW up \in BOOLEAN, Control!Report(epoch, up)
      PROVE  ControlInv'
  BY <1>2, EdgeNext DEF Control!Report
<1>3. CASE Control!Expire
  BY <1>3, EdgeNext DEF Control!Expire
<1>4. ASSUME NEW w \in Two, \/ Control!Woken(w) \/ Control!GivesUp(w)
                            \/ \E epoch \in Control!Epochs : Control!WaitEdgeUp(w, epoch)
      PROVE  ControlInv'
  <2>1. UNCHANGED <<call, waiting, onWire, answer>>
    BY <1>4 DEF Control!Woken, Control!GivesUp, Control!WaitEdgeUp
  <2> QED BY <1>4, <2>1, EdgeNext
<1>5. ASSUME NEW c \in Two,
             Control!Register(c) \/ Control!Send(c) \/ Control!Fail(c) \/ Control!Return(c)
      PROVE  ControlInv'
  <2>1. UNCHANGED <<edge, want, answer>> /\ waiting' \subseteq Two /\ onWire' \subseteq Two
    BY <1>5 DEF Control!Register, Control!Send, Control!Fail, Control!Return, ControlInv
  <2>2. call' \in [Two -> Control!Calls]
    BY <1>5 DEF Control!Register, Control!Send, Control!Fail, Control!Return, ControlInv,
       Control!Calls
  <2>3. \A d \in Two : call'[d] = "new" => d \notin onWire'
    BY <1>5 DEF Control!Register, Control!Send, Control!Fail, Control!Return, ControlInv
  <2>4. \A d \in Two : call'[d] = "new" => call[d] = "new"
    BY <1>5 DEF Control!Register, Control!Send, Control!Fail, Control!Return, ControlInv
  <2>5. \A d \in waiting' : answer'[d] = 0
    BY <1>5, <2>1 DEF Control!Register, Control!Send, Control!Fail, Control!Return, ControlInv
  <2> QED BY <1>0, <2>1, <2>2, <2>3, <2>4, <2>5 DEF ControlInv
<1>6. ASSUME NEW c \in Two, Control!Resolve(c)
      PROVE  ControlInv'
  BY <1>0, <1>6 DEF Control!Resolve, Control!Claim, ControlInv
<1>7. ASSUME NEW c \in Two, Control!Receive(c)
      PROVE  ControlInv'
  <2>1. UNCHANGED <<edge, want, waiting, onWire>> /\ answer[c] \in Nat /\ answer[c] > 0
        /\ answer' = [answer EXCEPT ![c] = answer[c] - 1]
        /\ call' = [call EXCEPT ![c] = "answered"]
    BY <1>7 DEF Control!Receive, ControlInv
  <2>2. answer' \in [Two -> Nat] /\ call' \in [Two -> Control!Calls]
    BY <2>1 DEF ControlInv, Control!Calls
  <2>3. c \notin waiting
    BY <2>1 DEF ControlInv
  <2> QED BY <1>0, <2>1, <2>2, <2>3 DEF ControlInv
<1> QED
  BY <1>1, <1>2, <1>3, <1>4, <1>5, <1>6, <1>7 DEF Control!Next

(* No report leaves a waiter behind that it should have woken, and no      *)
(* answer of a node finds the place of an earlier one taken.               *)
THEOREM WaitsMeet == Control!Spec => []Control!WaitsAreMet
<1>1. ControlInv => Control!WaitsAreMet
  BY DEF ControlInv, Control!WaitsAreMet, Control!ResolveNeverBlocks
<1> QED
  BY ControlInit, ControlNext, <1>1, PTL DEF Control!Spec
-----------------------------------------------------------------------------
(* The node pool and the choice of a node.                                 *)

(* An action property of the pool: a guild comes to use no node that it    *)
(* was not granted, whatever checks and writes come between.               *)
THEOREM PoolGranted == Pool!Spec => Pool!GrantedOnly
<1>1. [Pool!Next]_(Pool!vars) =>
        [ \A n \in Pool!PoolNodes' \ Defaults :
            n \notin candidates' =>
              \/ n \in Pool!PoolNodes /\ n \notin candidates
              \/ \E r \in Two : checked[r] # None /\ n \in checked[r] ]_(Pool!vars)
  <2> SUFFICES ASSUME Pool!Next, NEW n, n \in Pool!PoolNodes', n \notin Defaults,
                      n \notin candidates'
               PROVE  \/ n \in Pool!PoolNodes /\ n \notin candidates
                      \/ \E r \in Two : checked[r] # None /\ n \in checked[r]
    OBVIOUS
  <2>1. n \in selection'
    BY DEF Pool!PoolNodes
  <2>2. ASSUME UNCHANGED <<candidates, selection>> PROVE n \in Pool!PoolNodes /\ n \notin candidates
    BY <2>1, <2>2 DEF Pool!PoolNodes
  <2>3. ASSUME NEW r \in Admins, Pool!SetAdminPool(r) PROVE FALSE
    BY <2>1, <2>3 DEF Pool!SetAdminPool, Pool!Shrunk
  <2>4. ASSUME NEW r \in Two, Pool!SetGuildPool(r)
        PROVE  checked[r] # None /\ n \in checked[r]
    BY <2>1, <2>4 DEF Pool!SetGuildPool
  <2> QED
    BY <2>2, <2>3, <2>4 DEF Pool!Next, Pool!AdminChecks, Pool!ManagerChecks, Pool!Check,
       Pool!Revoke
<1> QED
  BY <1>1, PTL DEF Pool!Spec, Pool!GrantedOnly

\* Every reservation that lives is that of a session that was placed.
ChoiceInv ==
  /\ eligible \subseteq SmallPool /\ seen \in [SmallPool -> Nat]
  /\ items = made /\ DOMAIN made = Users
  /\ Choice!RefusedOnlyWhenFull

LEMMA ChoiceCardinality ==
  ASSUME NEW S PROVE Choice!Cardinality(S) = Cardinality(S)
  BY DEF Choice!Cardinality, Cardinality

(* Nothing can be put in order only where there is nothing.                *)
LEMMA NothingInOrder ==
  ASSUME NEW S, IsFiniteSet(S), <<>> \in Choice!SetToSeqs(S)
  PROVE  S = {}
<1>1. <<>> \in [1 .. Cardinality(S) -> S]
  BY ChoiceCardinality DEF Choice!SetToSeqs
<1>2. Cardinality(S) \in Nat
  BY FS_CardinalityType
<1>3. 1 .. Cardinality(S) = {}
  BY <1>1
<1> QED
  BY <1>2, <1>3, FS_EmptySet

LEMMA AttemptKeepsMade ==
  ASSUME items = made, DOMAIN made = Users, NEW order, NEW i, NEW s \in Users,
         items[s] = Choice!Free, Choice!Attempt(order, i, s)
  PROVE  /\ items' = made' /\ DOMAIN made' = Users
         /\ \A q \in Users : made[q] # Choice!Free => made'[q] = made[q]
BY DEF Choice!Attempt

LEMMA ChoiceNext == ChoiceInv /\ [Choice!Next]_(Choice!vars) => ChoiceInv'
<1> SUFFICES ASSUME ChoiceInv, [Choice!Next]_(Choice!vars) PROVE ChoiceInv'
  OBVIOUS
<1>0. IsFiniteSet(Users) /\ IsFiniteSet(SmallPool)
  BY FiniteParts
<1>1. CASE UNCHANGED Choice!vars
  <2>1. UNCHANGED <<eligible, seen, items, made, refused>>
    BY <1>1 DEF Choice!vars
  <2>2. ASSUME NEW n PROVE Choice!Placed(n)' = Choice!Placed(n)
    BY <2>1 DEF Choice!Placed
  <2> QED BY <2>1, <2>2 DEF ChoiceInv, Choice!RefusedOnlyWhenFull
<1>2. ASSUME NEW s \in Users, NEW i, Choice!HandleJoin(i, s)
      PROVE  ChoiceInv'
  <2> DEFINE room0(n) == MaxUsers[n] - Share
             fits == {n \in SmallPool : Choice!PassHardFilter(n, "JOIN", {})}
  <2>1. PICK order \in Choice!SetToSeqs(fits) :
          refused' = (order = <<>>) /\ Choice!Attempt(order, i, s)
    BY <1>2 DEF Choice!HandleJoin, Choice!Schedules
  <2>2. UNCHANGED <<eligible, seen>> /\ items[s] = Choice!Free
    BY <1>2 DEF Choice!HandleJoin
  <2>3. items' = made' /\ DOMAIN made' = Users
    BY <2>1, <2>2, AttemptKeepsMade DEF ChoiceInv
  <2>4. ASSUME order = <<>>, NEW n \in eligible
        PROVE  seen'[n] + Choice!Placed(n)' >= MaxUsers[n] - Share
    <3>1. fits = {}
      <4>1. IsFiniteSet(fits)
        BY <1>0, FS_Subset
      <4> QED BY <2>1, <2>4, <4>1, NothingInOrder
    <3>2. made' = made
      BY <2>1, <2>4 DEF Choice!Attempt
    <3>3. n \in SmallPool /\ ~ Choice!PassHardFilter(n, "JOIN", {})
      BY <3>1 DEF ChoiceInv
    <3>4. PICK on \in SUBSET Users : on = {q \in Users : made[q].node = {n}}
      OBVIOUS
    <3>5. Cardinality(on) \in Nat
      BY <1>0, FS_Subset, FS_CardinalityType
    <3>6. Choice!Placed(n)' = Cardinality(on) /\ Choice!Used(n) = seen[n] + Cardinality(on)
      BY <3>2, <3>4, ChoiceCardinality DEF Choice!Placed, Choice!Used, Choice!ActiveByNode,
         ChoiceInv
    <3>7. ~ (seen[n] + Cardinality(on) + 1 <= MaxUsers[n] - Share)
      BY <3>3, <3>6, <2>4 DEF Choice!PassHardFilter
    <3>8. seen[n] \in Nat /\ MaxUsers[n] \in Nat /\ Share \in Nat
      BY <3>3, BoundsAreNumbers DEF ChoiceInv
    <3>9. seen'[n] = seen[n]
      BY <2>2
    <3> QED BY <3>5, <3>6, <3>7, <3>8, <3>9
  <2>5. Choice!RefusedOnlyWhenFull'
    BY <2>1, <2>2, <2>4 DEF Choice!RefusedOnlyWhenFull
  <2> QED BY <2>2, <2>3, <2>5 DEF ChoiceInv
<1>3. ASSUME NEW s \in Users, NEW from, NEW ok, Choice!Prepare(from, ok, s)
      PROVE  ChoiceInv'
  <2>1. PICK order, i : Choice!Attempt(order, i, s)
    BY <1>3 DEF Choice!Prepare
  <2>2. UNCHANGED <<eligible, seen, refused>> /\ items[s] = Choice!Free
    BY <1>3 DEF Choice!Prepare
  <2>3. /\ items' = made' /\ DOMAIN made' = Users
        /\ \A q \in Users : made[q] # Choice!Free => made'[q] = made[q]
    BY <2>1, <2>2, AttemptKeepsMade DEF ChoiceInv
  <2>4. ASSUME refused, NEW n \in eligible
        PROVE  seen[n] + Choice!Placed(n)' >= MaxUsers[n] - Share
    <3>1. PICK on \in SUBSET Users : on = {q \in Users : made[q].node = {n}}
      OBVIOUS
    <3>2. PICK now0 \in SUBSET Users : now0 = {q \in Users : made'[q].node = {n}}
      OBVIOUS
    <3>3. on \subseteq now0
      BY <2>3, <3>1, <3>2 DEF Choice!Free
    <3>4. Cardinality(on) \in Nat /\ Cardinality(now0) \in Nat /\ Cardinality(on) <= Cardinality(now0)
      BY <1>0, <3>3, FS_Subset, FS_CardinalityType
    <3>5. Choice!Placed(n) = Cardinality(on) /\ Choice!Placed(n)' = Cardinality(now0)
      BY <3>1, <3>2, ChoiceCardinality DEF Choice!Placed
    <3>6. seen[n] + Cardinality(on) >= MaxUsers[n] - Share
      BY <2>4, <3>5 DEF ChoiceInv, Choice!RefusedOnlyWhenFull
    <3>7. seen[n] \in Nat /\ MaxUsers[n] \in Nat /\ Share \in Nat
      BY BoundsAreNumbers DEF ChoiceInv
    <3> QED BY <3>4, <3>5, <3>6, <3>7
  <2> QED BY <2>2, <2>3, <2>4 DEF ChoiceInv, Choice!RefusedOnlyWhenFull
<1>4. ASSUME NEW n \in SmallPool, NEW users \in 0 .. MaxUsers[n], Choice!Heartbeat(n, users)
      PROVE  ChoiceInv'
  <2>1. users \in Nat
    BY BoundsAreNumbers
  <2> QED BY <1>4, <2>1 DEF Choice!Heartbeat, ChoiceInv, Choice!RefusedOnlyWhenFull
<1>5. ASSUME NEW n \in SmallPool, Choice!PoolOrNodeChanges(n)
      PROVE  ChoiceInv'
  BY <1>5 DEF Choice!PoolOrNodeChanges, ChoiceInv, Choice!RefusedOnlyWhenFull
<1>6. CASE Choice!TimePasses
  BY <1>6 DEF Choice!TimePasses, Choice!Older, ChoiceInv, Choice!RefusedOnlyWhenFull
<1> QED
  BY <1>1, <1>2, <1>3, <1>4, <1>5, <1>6 DEF Choice!Next

(* A join is refused only where users and placed sessions leave no room.   *)
THEOREM RefusedWhenFull == Choice!Spec => []Choice!RefusedOnlyWhenFull
<1>1. Choice!Init => ChoiceInv
  BY DEF Choice!Init, ChoiceInv, Choice!RefusedOnlyWhenFull
<1>2. ChoiceInv => Choice!RefusedOnlyWhenFull
  BY DEF ChoiceInv
<1> QED
  BY <1>1, <1>2, ChoiceNext, PTL DEF Choice!Spec
-----------------------------------------------------------------------------
(* The detectors.                                                          *)

Time == Nat \cup {None}

\* A detector that has fired rests from then on for as long as it must; what
\* the overload detector and the count of EdgeDown keep is no more than what
\* was seen.
WatchInv ==
  /\ now \in Nat /\ calm \in Nat /\ calm <= now
  /\ overSince \in Time /\ (overSince # None => calm <= overSince)
  /\ until \in [Watch!Kinds -> Time] /\ fired \in [Watch!Kinds -> SUBSET Nat]
  /\ \A k \in Watch!Kinds : \A t \in fired[k] :
       until[k] # None /\ t + Cooldown[k] <= until[k]
  /\ events \subseteq downs /\ downs \subseteq Nat /\ IsFiniteSet(downs)
  /\ reports \in [Users -> Time]

LEMMA WatchCardinality ==
  ASSUME NEW S PROVE Watch!Cardinality(S) = Cardinality(S)
  BY DEF Watch!Cardinality, Cardinality

LEMMA WatchInit == Watch!Init => WatchInv
<1> SUFFICES ASSUME Watch!Init PROVE WatchInv
  OBVIOUS
<1>1. IsFiniteSet({}) /\ None \notin Nat
  BY FS_EmptySet, MigrationAssumption
<1> QED
  BY <1>1 DEF Watch!Init, WatchInv, Time

(* A detector fires when it does not rest, and rests from now on.          *)
LEMMA FiredRests ==
  ASSUME WatchInv, NEW k \in Watch!Kinds, ~ Watch!Resting(k), Watch!Fire(k)
  PROVE  /\ until' \in [Watch!Kinds -> Time] /\ fired' \in [Watch!Kinds -> SUBSET Nat]
         /\ \A i \in Watch!Kinds : \A t \in fired'[i] :
              until'[i] # None /\ t + Cooldown[i] <= until'[i]
         /\ \A i \in Watch!Kinds : fired'[i] \ fired[i] # {} => i = k
         /\ \A t \in fired'[k] \ fired[k] : \A s \in fired[k] :
              t = now /\ t - s >= Cooldown[k]
<1>1. now \in Nat /\ Cooldown[k] \in Nat /\ None \notin Nat /\ until[k] \in Time
  BY BoundsAreNumbers, MigrationAssumption DEF WatchInv
<1>2. /\ until' = [until EXCEPT ![k] = now + Cooldown[k]]
      /\ fired' = [fired EXCEPT ![k] = fired[k] \cup {now}]
  BY DEF Watch!Fire
<1>3. \A s \in fired[k] : s \in Nat /\ until[k] \in Nat /\ s + Cooldown[k] <= until[k] /\ until[k] <= now
  <2>1. until[k] = None \/ ~ (now < until[k])
    BY DEF Watch!Resting
  <2> QED
    BY <1>1, <2>1 DEF WatchInv, Time
<1>4. \A s \in fired[k] : s + Cooldown[k] <= now /\ now - s >= Cooldown[k]
  BY <1>1, <1>3
<1>5. now + Cooldown[k] \in Nat /\ now <= now + Cooldown[k]
  BY <1>1
<1>6. until' \in [Watch!Kinds -> Time] /\ fired' \in [Watch!Kinds -> SUBSET Nat]
  BY <1>1, <1>2, <1>5 DEF WatchInv, Time
<1>7. \A i \in Watch!Kinds \ {k} : until'[i] = until[i] /\ fired'[i] = fired[i]
  BY <1>2 DEF WatchInv
<1>8. until'[k] = now + Cooldown[k] /\ fired'[k] = fired[k] \cup {now}
  BY <1>2 DEF WatchInv
<1>9. \A t \in fired'[k] : until'[k] # None /\ t + Cooldown[k] <= until'[k]
  <2>1. ASSUME NEW t \in fired[k] PROVE t + Cooldown[k] <= now + Cooldown[k]
    BY <1>1, <1>3, <1>4
  <2>2. now + Cooldown[k] # None
    BY <1>1, <1>5
  <2> QED BY <1>1, <1>8, <2>1, <2>2
<1> QED
  BY <1>4, <1>6, <1>7, <1>8, <1>9 DEF WatchInv

\* What the step of a detector has to show: its grounds, and that it rested.
FiresRight ==
  \A k \in Watch!Kinds : \A t \in fired'[k] \ fired[k] :
    Watch!Grounds(k) /\ \A s \in fired[k] : t - s >= Cooldown[k]

LEMMA EvaluateStep ==
  ASSUME WatchInv, NEW over \in BOOLEAN, Watch!Evaluate(over)
  PROVE  WatchInv' /\ FiresRight
<1>1. UNCHANGED <<now, events, reports, lastSeen, downs>> /\ None \notin Nat
  BY MigrationAssumption DEF Watch!Evaluate
<1>2. "overload" \in Watch!Kinds /\ now \in Nat /\ calm \in Nat
  BY DEF Watch!Kinds, WatchInv
<1>3. CASE Watch!Hold
  <2>1. \/ overSince' = None /\ calm' = now
        \/ overSince' = now /\ calm' = calm
        \/ overSince' = overSince /\ calm' = calm
    BY <1>2, <1>3, FiredRests DEF Watch!Evaluate, Watch!Overloaded, Watch!Calm
  <2>2. UNCHANGED <<until, fired>>
    BY <1>3 DEF Watch!Hold
  <2> QED BY <1>1, <1>2, <2>1, <2>2 DEF WatchInv, Time, FiresRight
<1>4. CASE /\ overSince # None /\ UNCHANGED <<calm, overSince>>
           /\ now - overSince >= Sustain /\ ~ Watch!Resting("overload")
           /\ Watch!Fire("overload")
  <2>1. now - calm >= Sustain
    <3>1. overSince \in Nat /\ calm <= overSince /\ Sustain \in Nat
      BY <1>4, BoundsAreNumbers DEF WatchInv, Time
    <3> QED BY <1>2, <1>4, <3>1
  <2>2. Watch!Grounds("overload")
    BY <2>1 DEF Watch!Grounds
  <2>3. WatchInv'
    BY <1>1, <1>2, <1>4, FiredRests DEF WatchInv
  <2> QED BY <1>2, <1>4, <2>2, <2>3, FiredRests DEF FiresRight
<1> QED
  BY <1>3, <1>4 DEF Watch!Evaluate, Watch!Overloaded, Watch!Calm

LEMMA EdgeDownStep ==
  ASSUME WatchInv, Watch!EdgeDown
  PROVE  WatchInv' /\ FiresRight
<1>1. UNCHANGED <<now, overSince, reports, lastSeen, calm>>
  BY DEF Watch!EdgeDown
<1>2. /\ "edge" \in Watch!Kinds /\ now \in Nat /\ Window \in Nat
  BY BoundsAreNumbers DEF Watch!Kinds, WatchInv
<1>3. IsFiniteSet(downs \cup {now}) /\ IsFiniteSet({})
  BY FS_AddElement, FS_EmptySet DEF WatchInv
<1>4. Watch!Kept \subseteq downs \cup {now}
  BY DEF Watch!Kept, WatchInv
<1>5. CASE events' = Watch!Kept /\ downs' = downs \cup {now} /\ Watch!Hold
  BY <1>1, <1>2, <1>3, <1>4, <1>5 DEF WatchInv, Watch!Hold, FiresRight
<1>6. CASE /\ events' = {} /\ downs' = {} /\ Watch!Fire("edge")
           /\ ~ Watch!Resting("edge") /\ ~ (Watch!Cardinality(Watch!Kept) < Threshold)
  <2> DEFINE counted == {t \in downs \cup {now} : now - t <= Window}
  <2>1. Watch!Kept \subseteq counted
    <3>1. now - now <= Window
      BY <1>2
    <3>2. \A t \in Watch!Kept : t = now \/ now - t <= Window
      BY DEF Watch!Kept
    <3> QED BY <1>4, <3>1, <3>2
  <2>2. IsFiniteSet(counted)
    BY <1>3, FS_Subset
  <2>3. /\ Cardinality(Watch!Kept) <= Cardinality(counted)
        /\ Cardinality(Watch!Kept) \in Nat /\ Cardinality(counted) \in Nat
    BY <2>1, <2>2, FS_Subset, FS_CardinalityType
  <2>4. Watch!Cardinality(counted) >= Threshold
    BY <1>6, <2>3, BoundsAreNumbers, WatchCardinality
  <2>5. Watch!Grounds("edge")
    BY <2>4 DEF Watch!Grounds
  <2>6. WatchInv'
    BY <1>1, <1>2, <1>3, <1>6, FiredRests DEF WatchInv
  <2> QED BY <1>2, <1>6, <2>5, <2>6, FiredRests DEF FiresRight
<1> QED
  BY <1>5, <1>6 DEF Watch!EdgeDown

LEMMA ICEStep ==
  ASSUME WatchInv, NEW u \in Users, Watch!HandleICEFailure(u)
  PROVE  WatchInv' /\ FiresRight
<1>1. UNCHANGED <<now, overSince, events, lastSeen, calm, downs>>
  BY DEF Watch!HandleICEFailure
<1>2. /\ "ice" \in Watch!Kinds /\ now \in Nat /\ None \notin Nat
  BY MigrationAssumption DEF Watch!Kinds, WatchInv
<1>3. reports' \in [Users -> Time]
  <2>1. ASSUME NEW table \in [Users -> Time] PROVE Watch!Dropped(table) \in [Users -> Time]
    BY DEF Watch!Dropped, Time
  <2>2. [reports EXCEPT ![u] = now] \in [Users -> Time]
    BY <1>2 DEF WatchInv, Time
  <2> QED BY <2>1, <2>2 DEF Watch!HandleICEFailure, Watch!Recorded, WatchInv
<1>4. CASE Watch!Hold
  BY <1>1, <1>2, <1>3, <1>4 DEF WatchInv, Watch!Hold, FiresRight
<1>5. CASE /\ reports' = Watch!Recorded(u) /\ Watch!Silent /\ ~ Watch!Resting("ice")
           /\ Watch!Cardinality({v \in Users : Watch!Recorded(u)[v] # None}) >= 2
           /\ Watch!Fire("ice")
  <2>1. \A v \in Users : Watch!Recorded(u)[v] # None => now - Watch!Recorded(u)[v] <= Window
    <3>1. ASSUME NEW table \in [Users -> Time], NEW v \in Users, Watch!Dropped(table)[v] # None
          PROVE  now - Watch!Dropped(table)[v] <= Window
      <4>1. Watch!Dropped(table)[v] = table[v] /\ table[v] \in Nat /\ ~ (now - table[v] > Window)
        BY <3>1 DEF Watch!Dropped, Time
      <4> QED BY <1>2, <4>1, BoundsAreNumbers
    <3>2. [reports EXCEPT ![u] = now] \in [Users -> Time]
      BY <1>2 DEF WatchInv, Time
    <3> QED BY <3>1, <3>2 DEF Watch!Recorded
  <2>2. {v \in Users : reports'[v] # None /\ now - reports'[v] <= Window}
          = {v \in Users : Watch!Recorded(u)[v] # None}
    BY <1>5, <2>1
  <2>3. Watch!Grounds("ice")
    BY <1>5, <2>2 DEF Watch!Grounds
  <2>4. WatchInv'
    BY <1>1, <1>2, <1>3, <1>5, FiredRests DEF WatchInv
  <2> QED BY <1>2, <1>5, <2>3, <2>4, FiredRests DEF FiresRight
<1> QED
  BY <1>4, <1>5 DEF Watch!HandleICEFailure, Watch!MaybeDeclareNodeDown

LEMMA WatchNext == WatchInv /\ [Watch!Next]_(Watch!vars) => WatchInv' /\ [FiresRight]_(Watch!vars)
<1> SUFFICES ASSUME WatchInv, [Watch!Next]_(Watch!vars)
             PROVE  WatchInv' /\ [FiresRight]_(Watch!vars)
  OBVIOUS
<1>1. CASE UNCHANGED Watch!vars
  BY <1>1 DEF Watch!vars, WatchInv
<1>2. CASE Watch!Heartbeat
  BY <1>2 DEF Watch!Heartbeat, WatchInv, FiresRight
<1>3. CASE Watch!TimePasses
  BY <1>3 DEF Watch!TimePasses, WatchInv, FiresRight
<1> QED
  BY <1>1, <1>2, <1>3, EvaluateStep, EdgeDownStep, ICEStep DEF Watch!Next

(* No detector moves the sessions without its grounds, or before it has    *)
(* rested from the last time.                                              *)
THEOREM DetectorsFireRight == Watch!Spec => Watch!FiresWithGrounds
<1>1. WatchInv /\ [Watch!Next]_(Watch!vars) =>
        [ \A k \in Watch!Kinds : \A t \in fired'[k] \ fired[k] :
            Watch!Grounds(k) /\ \A s \in fired[k] : t - s >= Cooldown[k] ]_(Watch!vars)
  BY WatchNext DEF FiresRight
<1>2. WatchInv /\ [Watch!Next]_(Watch!vars) => WatchInv'
  BY WatchNext
<1> QED
  BY WatchInit, <1>1, <1>2, PTL DEF Watch!Spec, Watch!FiresWithGrounds
-----------------------------------------------------------------------------
(* The deployments to a host. *)

Before   == {"record", "launch", "validate", "connect", "precheck", "prepare", "create"}
Running  == (Before \ {"record"})
              \cup {"configure", "started", "wait", "look", "enable", "done", "canceled",
                    "clean", "delete", "failed"}
Stopped  == {"succeeded", "failed", "canceled"}
Request  == [keys : SUBSET {1, 2}, saved : BOOLEAN]

HostsTyped ==
  /\ hostsActive \in Two \cup {None} /\ cancel \subseteq Two /\ canceled \subseteq Two
  /\ hostsSeen \subseteq Two /\ enabled \subseteq Two /\ remote \subseteq Two
  /\ snatched \subseteq Two /\ attached \subseteq Two /\ came \subseteq Two /\ doomed \subseteq Two
  /\ record \in [Two -> {None, "running"} \cup Stopped]
  /\ step \in [Two -> {None, "record", "finish"} \cup Running]
  /\ nodeRow \in [Two -> {None, "pending", "enrolled", "online", "disabled", "revoked"}]
  /\ asked \in [Two -> Request \cup {None}]
  /\ hostKey \in {1, 2} /\ pinned \in {None, 1, 2} /\ replaced \in BOOLEAN

\* What the row of a deployment says at each of its steps.
RowFollows(d) ==
  /\ step[d] = "record" => record[d] = None
  /\ step[d] = "finish" => record[d] \in Stopped
  /\ step[d] = None => record[d] # "running"
  /\ step[d] \in Running => record[d] = "running"
  /\ step[d] \in {"record", "launch", "validate", "connect"} => asked[d] # None

\* Its node may have been created.
Placed(d) == step[d] \notin Before /\ (step[d] = None => record[d] # None)

\* It has left PENDING, and its row is still there, or was taken by who found it pending.
Rooted(d) == nodeRow[d] # "pending" /\ (nodeRow[d] = None => d \in snatched)

\* What its node has come to.
NodeFollows(d) ==
  /\ ~ Placed(d) =>
       nodeRow[d] = None /\ d \notin hostsSeen \cup enabled \cup came \cup doomed \cup snatched
  /\ d \in attached \/ nodeRow[d] = "online" => d \in came
  /\ d \in came \cup hostsSeen => Rooted(d)
  /\ d \in doomed /\ nodeRow[d] \notin {None, "pending"} => d \in snatched
  /\ d \in hostsSeen => step[d] \notin {"configure", "started", "delete"}
  /\ d \in enabled => d \in came
  /\ step[d] \in {"enable", "done"} \/ record[d] = "succeeded" => d \in came
  /\ step[d] = "delete" /\ d \notin snatched => nodeRow[d] \in {"pending", None}
  /\ step[d] = "failed" => nodeRow[d] # "pending"
  /\ record[d] = "failed" /\ d \notin left => nodeRow[d] # "pending"

\* The second key is expected, or pinned, only when the host has it.
KeysFollow ==
  /\ ~ replaced
  /\ pinned = 2 => hostKey = 2
  /\ \A d \in Two : asked[d] # None /\ asked[d].keys # 1 .. 2 =>
       \/ asked[d].keys = {1}
       \/ asked[d].keys = {2} /\ hostKey = 2 /\ pinned # 1

HostsInv ==
  /\ HostsTyped /\ KeysFollow
  /\ \A d \in Two : step[d] # None <=> hostsActive = d
  /\ \A d \in Two : RowFollows(d) /\ NodeFollows(d)

LEMMA HostsInit == Hosts!Init => HostsInv
  BY NoneIsNoHost
     DEF HostNames, Stopped, Request, Hosts!Init, HostsInv, HostsTyped, KeysFollow, RowFollows,
         NodeFollows, Placed, Rooted, Before, Running

LEMMA HostsNext == HostsInv /\ [Hosts!Next]_(Hosts!vars) => HostsInv'
<1> SUFFICES ASSUME HostsInv, Hosts!Next PROVE HostsInv'
  <2>1. CASE Hosts!Next
    BY <2>1
  <2>2. CASE UNCHANGED Hosts!vars
    BY <2>2 DEF Hosts!vars, HostsInv, HostsTyped, KeysFollow, RowFollows, NodeFollows, Placed, Rooted
  <2> QED BY <2>1, <2>2
<1> USE NoneIsNoHost
    DEF HostNames, HostsInv, HostsTyped, KeysFollow, RowFollows, NodeFollows, Placed, Rooted, Before,
        Running, Stopped, Request, Hosts!At, Hosts!Goes, Hosts!host, Hosts!life, Hosts!Others
<1>1. ASSUME NEW d \in Two, Hosts!CreateDeployment(d) PROVE HostsInv'
  <2>1. PICK t \in BOOLEAN, s \in BOOLEAN :
          asked' = [asked EXCEPT ![d] =
                      [keys |-> IF pinned = None \/ t THEN 1 .. 2 ELSE {pinned}, saved |-> s]]
    BY <1>1 DEF Hosts!CreateDeployment
  <2>2. PICK k \in SUBSET {1, 2} : /\ k = IF pinned = None \/ t THEN 1 .. 2 ELSE {pinned}
                                   /\ asked' = [asked EXCEPT ![d] = [keys |-> k, saved |-> s]]
    <3>1. (IF pinned = None \/ t THEN 1 .. 2 ELSE {pinned}) \in SUBSET {1, 2}
      OBVIOUS
    <3> QED BY <2>1, <3>1
  <2> QED BY <1>1, <2>2 DEF Hosts!CreateDeployment
<1>2. ASSUME NEW d \in Two, Hosts!Connects(d) PROVE HostsInv'
  <2>1. CASE asked[d].saved /\ server = "saved"
    <3>1. asked[d] # None /\ asked[d] \in Request
      BY <1>2 DEF Hosts!Connects
    <3>2. pinned \in {None, hostKey} \/ asked[d].keys = 1 .. 2
      BY <1>2, <3>1 DEF Hosts!Connects, Hosts!Dial
    <3>3. replaced' = FALSE /\ pinned' = hostKey
      BY <1>2, <2>1, <3>2 DEF Hosts!Connects
    <3>4. KeysFollow'
      BY <1>2, <3>3 DEF Hosts!Connects
    <3> QED BY <1>2, <3>3, <3>4 DEF Hosts!Connects
  <2>2. CASE ~ (asked[d].saved /\ server = "saved")
    BY <1>2, <2>2 DEF Hosts!Connects
  <2> QED BY <2>1, <2>2
<1>3. ASSUME NEW d \in Two, Hosts!Refused(d) PROVE HostsInv'
  BY <1>3 DEF Hosts!Refused, Hosts!Drops
<1>4. ASSUME NEW d \in Two, Hosts!NormalizeSpec(d) PROVE HostsInv'
  BY <1>4 DEF Hosts!NormalizeSpec
<1>5. ASSUME NEW d \in Two, Hosts!Precheck(d) PROVE HostsInv'
  BY <1>5 DEF Hosts!Precheck
<1>6. ASSUME NEW d \in Two, Hosts!StartTakesHost(d) PROVE HostsInv'
  BY <1>6 DEF Hosts!StartTakesHost, Hosts!Busy
<1>7. ASSUME NEW d \in Two, Hosts!StartRecords(d) PROVE HostsInv'
  BY <1>7 DEF Hosts!StartRecords
<1>8. ASSUME NEW d \in Two, Hosts!StartFails(d) PROVE HostsInv'
  BY <1>8 DEF Hosts!StartFails
<1>9. ASSUME NEW d \in Two, Hosts!StartLaunches(d) PROVE HostsInv'
  BY <1>9 DEF Hosts!StartLaunches
<1>10. ASSUME NEW d \in Two, Hosts!Cancel(d) PROVE HostsInv'
  BY <1>10 DEF Hosts!Cancel
<1>11. ASSUME NEW d \in Two, Hosts!Prepared(d) PROVE HostsInv'
  BY <1>11 DEF Hosts!Prepared
<1>12. ASSUME NEW d \in Two, Hosts!CreatesNode(d) PROVE HostsInv'
  BY <1>12 DEF Hosts!CreatesNode
<1>13. ASSUME NEW d \in Two, Hosts!Configures(d) PROVE HostsInv'
  BY <1>13 DEF Hosts!Configures
<1>14. ASSUME NEW d \in Two, Hosts!Started(d) PROVE HostsInv'
  BY <1>14 DEF Hosts!Started
<1>15. ASSUME NEW d \in Two, Hosts!WaitOnline(d) PROVE HostsInv'
  BY <1>15 DEF Hosts!WaitOnline, Hosts!Approached
<1>16. ASSUME NEW d \in Two, Hosts!EnablesScheduling(d) PROVE HostsInv'
  BY <1>16 DEF Hosts!EnablesScheduling
<1>17. ASSUME NEW d \in Two, Hosts!Fails(d) PROVE HostsInv'
  BY <1>17 DEF Hosts!Fails, Hosts!Drops
<1>18. ASSUME NEW d \in Two, Hosts!StartScriptFails(d) PROVE HostsInv'
  BY <1>18 DEF Hosts!StartScriptFails
<1>19. ASSUME NEW d \in Two, Hosts!CleansUp(d) PROVE HostsInv'
  BY <1>19 DEF Hosts!CleansUp, Hosts!PendingPlace
<1>20. ASSUME NEW d \in Two, Hosts!DeletesNode(d) PROVE HostsInv'
  BY <1>20 DEF Hosts!DeletesNode
<1>21. ASSUME NEW d \in Two, Hosts!Completes(d) PROVE HostsInv'
  BY <1>21 DEF Hosts!Completes
<1>22. ASSUME NEW d \in Two, Hosts!Finish(d) PROVE HostsInv'
  BY <1>22 DEF Hosts!Finish
<1>23. ASSUME NEW d \in Two, Hosts!LooksUp(d) PROVE HostsInv'
  BY <1>23 DEF Hosts!LooksUp, Hosts!Online
<1>24. ASSUME NEW d \in Two, NEW st \in {"enrolled", "online", "disabled", "revoked"},
              Hosts!Becomes(d, st), nodeRow[d] # None, st = "online" => d \in came
       PROVE HostsInv'
  BY <1>24 DEF Hosts!Becomes, Hosts!Doomed
<1>25. ASSUME NEW d \in Two,
              \/ Hosts!NodeEnrolls(d) \/ Hosts!NodeComesOnline(d) \/ Hosts!NodeFallsOffline(d)
              \/ Hosts!NodeBarred(d) \/ Hosts!NodeReinstated(d)
       PROVE HostsInv'
  <2>1. nodeRow[d] # None /\ (Hosts!NodeComesOnline(d) => d \in came)
    BY <1>25 DEF Hosts!NodeEnrolls, Hosts!NodeComesOnline, Hosts!NodeFallsOffline,
                 Hosts!NodeBarred, Hosts!NodeReinstated
  <2>2. \/ Hosts!Becomes(d, "enrolled") \/ Hosts!Becomes(d, "disabled")
        \/ Hosts!Becomes(d, "revoked") \/ (Hosts!Becomes(d, "online") /\ d \in came)
    BY <1>25, <2>1 DEF Hosts!NodeEnrolls, Hosts!NodeComesOnline, Hosts!NodeFallsOffline,
                       Hosts!NodeBarred, Hosts!NodeReinstated
  <2> QED BY <2>1, <2>2, <1>24
<1>26. ASSUME NEW d \in Two, Hosts!NodeAttaches(d) PROVE HostsInv'
  BY <1>26 DEF Hosts!NodeAttaches
<1>27. ASSUME NEW d \in Two, Hosts!StreamEnds(d) PROVE HostsInv'
  BY <1>27 DEF Hosts!StreamEnds
<1>28. ASSUME NEW d \in Two, Hosts!DeleteSfuNode(d) PROVE HostsInv'
  BY <1>28 DEF Hosts!DeleteSfuNode
<1>29. ASSUME NEW d \in Two, Hosts!DeletesPending(d) PROVE HostsInv'
  BY <1>29 DEF Hosts!DeletesPending
<1>30. ASSUME Hosts!Restart PROVE HostsInv'
  BY <1>30 DEF Hosts!Restart
<1>31. ASSUME Hosts!CreateSfuDeployServer PROVE HostsInv'
  BY <1>31 DEF Hosts!CreateSfuDeployServer, Hosts!SaveDeployServer
<1>32. ASSUME Hosts!DeleteSfuDeployServer PROVE HostsInv'
  BY <1>32 DEF Hosts!DeleteSfuDeployServer
<1>33. ASSUME Hosts!HostReinstalled PROVE HostsInv'
  BY <1>33 DEF Hosts!HostReinstalled
<1> QED BY <1>1, <1>2, <1>3, <1>4, <1>5, <1>6, <1>7, <1>8, <1>9, <1>10, <1>11, <1>12, <1>13, <1>14,
           <1>15, <1>16, <1>17, <1>18, <1>19, <1>20, <1>21, <1>22, <1>23, <1>25, <1>26, <1>27,
           <1>28, <1>29, <1>30, <1>31, <1>32, <1>33
   DEF Hosts!Next, Hosts!TimesOut

(* One deployment at a time, whose row and node are what its steps made of *)
(* them, and no pinned key is replaced unseen.                             *)
THEOREM HostsTrue == Hosts!Spec => []Hosts!DeploymentsAreTrue
<1>1. HostsInv => Hosts!DeploymentsAreTrue
  BY NoneIsNoHost
     DEF HostNames, HostsInv, HostsTyped, RowFollows, NodeFollows, KeysFollow, Placed, Rooted,
         Before, Running, Stopped, Hosts!DeploymentsAreTrue, Hosts!At
<1> QED BY <1>1, HostsInit, HostsNext, PTL DEF Hosts!Spec

-----------------------------------------------------------------------------
(* A behaviour of MCVoice is one of every part: the steps of one leave the *)
(* others alone.                                                           *)

LEMMA OneOfEach ==
  MCSpec => Spec /\ Graph!Spec /\ Control!Spec /\ Pool!Spec /\ Choice!Spec /\ Watch!Spec
            /\ Hosts!Spec
<1> USE DEF all, graphVars, controlVars, poolVars, placeVars, watchVars, hostsVars
<1>1. MCInit => Init /\ Graph!Init /\ Control!Init /\ Pool!Init /\ Choice!Init /\ Watch!Init
            /\ Hosts!Init
  BY DEF MCInit
<1>2. [MCNext]_all => [Next]_vars
  BY DEF MCNext
<1>3. [MCNext]_all => [Graph!Next]_(Graph!vars)
  BY DEF MCNext, Graph!vars
<1>4. [MCNext]_all => [Control!Next]_(Control!vars)
  BY DEF MCNext, Control!vars, Control!edgeVars, Control!commandVars
<1>5. [MCNext]_all => [Pool!Next]_(Pool!vars)
  BY DEF MCNext, Pool!vars
<1>6. [MCNext]_all => [Choice!Next]_(Choice!vars)
  BY DEF MCNext, Choice!vars
<1>7. [MCNext]_all => [Watch!Next]_(Watch!vars)
  BY DEF MCNext, Watch!vars, Detector, Watch!Next
<1>8. [MCNext]_all => [Hosts!Next]_(Hosts!vars)
  BY DEF MCNext, Hosts!vars
<1> QED
  BY <1>1, <1>2, <1>3, <1>4, <1>5, <1>6, <1>7, <1>8, PTL
     DEF MCSpec, Spec, Graph!Spec, Control!Spec, Pool!Spec, Choice!Spec, Watch!Spec, Hosts!Spec

(* Jobs that race for a user clear the source and spare his session.       *)
THEOREM MovesSafe == MCSpec => MovesAreSafe
  BY OneOfEach, SourceIsCleared, SessionSpared DEF MovesAreSafe

(* The graph of the room is one star below the anchor of the lease, at its *)
(* epoch, whatever joins, leaves, fails and falls.                         *)
THEOREM StaysOneStar == MCSpec => []OneStar
  BY OneOfEach, GraphStaysOneStar, PTL DEF OneStar

(* Whoever joined on a node reaches the anchor from there until he leaves, *)
(* is moved, or the node itself is given up.                               *)
THEOREM JoinedUsersReach == MCSpec => []JoinedReachAnchor
  BY OneOfEach, GraphUsersReach, PTL DEF JoinedReachAnchor

(* The graph lives as long as the room has users that its anchor can serve.*)
THEOREM GraphLives == MCSpec => GraphLivesWithRoom
  BY OneOfEach, GraphStays DEF GraphLivesWithRoom

(* Reports and answers meet those who wait for them, and never wait.       *)
THEOREM WaitsHold == MCSpec => []WaitsAreMet
  BY OneOfEach, WaitsMeet, PTL DEF WaitsAreMet

(* A guild uses the nodes granted to it, and a node refuses a join only    *)
(* when it is full.                                                        *)
THEOREM PlacedRight == MCSpec => PlacedByRule
  BY OneOfEach, PoolGranted, RefusedWhenFull DEF PlacedByRule

(* The detectors move sessions with grounds, and rest between.             *)
THEOREM FiresRightly == MCSpec => FiresWithGrounds
  BY OneOfEach, DetectorsFireRight DEF FiresWithGrounds

(* One deployment at a time holds the host; one that succeeded saw its node*)
(* connected; who fails leaves no place behind; no key is replaced unseen. *)
THEOREM DeploymentsHold == MCSpec => []DeploymentsAreTrue
  BY OneOfEach, HostsTrue, PTL DEF DeploymentsAreTrue
=============================================================================
