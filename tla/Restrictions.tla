---------------------------- MODULE Restrictions -----------------------------
(* The restrictions of one member of a guild: who moderates creates, moves  *)
(* and lifts them, the sweep tells of those that ran out, an undo of the    *)
(* audit log takes any of it back, and a cache that lives for a moment      *)
(* answers what is in force.  A handler is cut between what it reads, what  *)
(* it writes and what it publishes.                                         *)
EXTENDS Integers, FiniteSets

CONSTANTS
  Requests,     \* handlers, and the sweep, that run at a time
  Records,      \* restrictions that can be created
  CacheTTL,     \* an answer of the cache is used for less than this
  MinDuration,  \* a restriction runs at least this long
  MaxTime,      \* bound on the clock
  MaxWrites,    \* bound on changes and undos
  None

VARIABLES
  now,          \* the clock
  row,          \* by record, [lifted, expires, notified], or None
  cache,        \* [rows, at]: what is in force, read at that time, or None
  loading,      \* the same, read and not stored yet, or None
  job,          \* by request, what it has still to do, or None
  told,         \* by record, the last event the member got, or None
  changed,      \* by record, when its row last changed
  crossed,      \* records two jobs held at a time, or a crash left untold
  undoable,     \* entries of the audit log nobody has undone
  writes        \* changes and undos so far

vars == <<now, row, cache, loading, job, told, changed, crossed, undoable,
          writes>>

Never == MaxTime + 1                        \* expires_at is NULL

Row == [lifted : BOOLEAN, expires : 0 .. Never, notified : BOOLEAN]

Init ==
  /\ now = 0
  /\ row = [r \in Records |-> None]
  /\ cache = None /\ loading = None
  /\ job = [q \in Requests |-> None]
  /\ told = [r \in Records |-> None]
  /\ changed = [r \in Records |-> 0]
  /\ crossed = {} /\ undoable = {}
  /\ writes = 0

-----------------------------------------------------------------------------
(* What is in force                                                         *)

Runs(rec)   == ~rec.lifted /\ rec.expires > now
ActiveAt(r) == row[r] # None /\ Runs(row[r])

InForce == {r \in Records : ActiveAt(r)}

Fresh == cache # None /\ now - cache.at < CacheTTL

LoadRows ==
  /\ ~Fresh /\ loading = None
  /\ loading' = [rows |-> [r \in InForce |-> row[r]], at |-> now]
  /\ UNCHANGED <<now, row, cache, job, told, changed, crossed, undoable,
                 writes>>

(* A plausible mistake: the rows are stamped when they are stored.          *)
StampedLate == [loading EXCEPT !.at = now]

Stamped == loading

StoreRows ==
  /\ loading # None
  /\ cache' = Stamped
  /\ loading' = None
  /\ UNCHANGED <<now, row, job, told, changed, crossed, undoable, writes>>

(* Mask and Denies: the rows of the cache, those that ran out since left out *)
Denying == {r \in DOMAIN cache.rows : Runs(cache.rows[r])}

TimePasses ==
  /\ now < MaxTime
  /\ now' = now + 1
  /\ UNCHANGED <<row, cache, loading, job, told, changed, crossed, undoable,
                 writes>>

-----------------------------------------------------------------------------
(* Jobs                                                                     *)

Idle(q) == job[q] = None

DoesAll(what, rs) == [does |-> what, on |-> rs, tells |-> None, was |-> None]
Does(what, r)     == [DoesAll(what, {r}) EXCEPT !.was = row[r]]
Without(j, r)     == [j EXCEPT !.on = @ \ {r}]
Tells(j, r, event) == [Without(j, r) EXCEPT !.tells = <<r, event>>]
Ends(j) == IF j.on = {} THEN None ELSE [j EXCEPT !.tells = None]

Holds(q) ==
  IF Idle(q) THEN {}
    ELSE job[q].on \cup {r \in Records : /\ job[q].tells # None
                                         /\ job[q].tells[1] = r}

Takes(q, rs) ==                 \* who else has one of them in his hands?
  crossed' = crossed \cup
               {r \in rs : \E p \in Requests \ {q} : r \in Holds(p)}

Writes(r, rec) ==
  /\ row' = [row EXCEPT ![r] = rec]
  /\ changed' = [changed EXCEPT ![r] = now]

Counts == writes < MaxWrites /\ writes' = writes + 1

Durations == {e \in now .. Never : e = Never \/ e - now >= MinDuration}

Create(q, r, e) ==
  /\ Idle(q) /\ row[r] = None
  /\ e \in Durations
  /\ Writes(r, [lifted |-> FALSE, expires |-> e, notified |-> FALSE])
  /\ job' = [job EXCEPT ![q] = Tells(DoesAll("create", {r}), r, "create")]
  /\ undoable' = undoable \cup {<<"create", r, None>>}
  /\ UNCHANGED <<now, cache, loading, told, crossed, writes>>

ManageableRecord(q, r, what) ==
  /\ Idle(q)
  /\ ActiveAt(r)
  /\ job' = [job EXCEPT ![q] = Does(what, r)]
  /\ Takes(q, {r})
  /\ UNCHANGED <<now, row, cache, loading, told, changed, undoable, writes>>

PatchWrites(q, r, e) ==                  \* by id, lifted meanwhile or not
  /\ ~Idle(q) /\ job[q].does = "patch" /\ r \in job[q].on
  /\ Counts
  /\ e \in Durations
  /\ Writes(r, [row[r] EXCEPT !.expires = e])
  /\ job' = [job EXCEPT ![q] = Tells(@, r, "update")]
  /\ undoable' = undoable \cup {<<"update", r, job[q].was.expires>>}
  /\ UNCHANGED <<now, cache, loading, told, crossed>>

LiftAllForUser(q) ==                     \* a ban
  /\ Idle(q) /\ InForce # {}
  /\ job' = [job EXCEPT ![q] = DoesAll("ban", InForce)]
  /\ Takes(q, InForce)
  /\ UNCHANGED <<now, row, cache, loading, told, changed, undoable, writes>>

Lifts(q, r) ==
  /\ ~Idle(q) /\ job[q].does \in {"lift", "ban"}
  /\ r \in job[q].on /\ job[q].tells = None
  /\ IF row[r].lifted
       THEN /\ job' = [job EXCEPT ![q] = Ends(Without(@, r))]
            /\ UNCHANGED <<row, changed, undoable>>
       ELSE /\ Writes(r, [row[r] EXCEPT !.lifted = TRUE])
            /\ job' = [job EXCEPT ![q] = Tells(@, r, "lift")]
            /\ undoable' = IF job[q].does = "lift"
                             THEN undoable \cup {<<"lift", r, job[q].was.expires>>} ELSE undoable
  /\ UNCHANGED <<now, cache, loading, told, crossed, writes>>

RanOut ==
  {r \in Records : /\ row[r] # None
                   /\ ~row[r].lifted /\ ~row[r].notified
                   /\ row[r].expires <= now}

SweepExpired(q) ==                       \* finds them, one scan at a time
  /\ Idle(q) /\ RanOut # {}
  /\ {p \in Requests : ~Idle(p) /\ job[p].does = "sweep"} = {}
  /\ job' = [job EXCEPT ![q] = DoesAll("sweep", RanOut)]
  /\ Takes(q, RanOut)
  /\ UNCHANGED <<now, row, cache, loading, told, changed, undoable, writes>>

SweepMarks(q, r) ==
  /\ ~Idle(q) /\ job[q].does = "sweep"
  /\ r \in job[q].on /\ job[q].tells = None
  /\ IF row[r].notified
       THEN /\ job' = [job EXCEPT ![q] = Ends(Without(@, r))]
            /\ UNCHANGED <<row, changed>>
       ELSE /\ Writes(r, [row[r] EXCEPT !.notified = TRUE])
            /\ job' = [job EXCEPT ![q] = Tells(@, r, "lift")]
  /\ UNCHANGED <<now, cache, loading, told, crossed, undoable, writes>>

PublishChange(q) ==                      \* the events, then the cache
  /\ ~Idle(q) /\ job[q].tells # None
  /\ told' = [told EXCEPT ![job[q].tells[1]] = job[q].tells[2]]
  /\ cache' = None
  /\ job' = [job EXCEPT ![q] = Ends(@)]
  /\ UNCHANGED <<now, row, loading, changed, crossed, undoable, writes>>

-----------------------------------------------------------------------------
(* Undo: one write, then the event; the cache is not told                   *)

UndoRestriction(q, entry, event, rec) ==
  /\ Idle(q) /\ entry \in undoable
  /\ Counts
  /\ undoable' = undoable \ {entry}
  /\ Writes(entry[2], rec)
  /\ told' = [told EXCEPT ![entry[2]] = event]
  /\ Takes(q, {entry[2]})
  /\ UNCHANGED <<now, cache, loading, job>>

UndoRestrictionCreate(q, r) ==
  /\ ActiveAt(r)
  /\ UndoRestriction(q, <<"create", r, None>>, "lift",
                     [row[r] EXCEPT !.lifted = TRUE])

\* The record that the entry of a lift kept: neither lifted nor told of.
RestrictionFromSnapshot(e) == [lifted |-> FALSE, expires |-> e, notified |-> FALSE]

UndoRestrictionLift(q, r, e) ==
  UndoRestriction(q, <<"lift", r, e>>, "create", RestrictionFromSnapshot(e))

UndoRestrictionUpdate(q, r, e) ==        \* back to what it was
  /\ ActiveAt(r)
  /\ UndoRestriction(q, <<"update", r, e>>, "update",
                     [row[r] EXCEPT !.expires = e])

Restart ==                               \* what was not published is lost
  /\ crossed' = crossed \cup UNION {Holds(q) : q \in Requests}
  /\ job' = [q \in Requests |-> None]
  /\ cache' = None /\ loading' = None
  /\ UNCHANGED <<now, row, told, changed, undoable, writes>>

-----------------------------------------------------------------------------

Next ==
  \/ LoadRows \/ StoreRows \/ TimePasses
  \/ \E q \in Requests :
       \/ PublishChange(q) \/ LiftAllForUser(q) \/ SweepExpired(q)
       \/ \E r \in Records :
            \/ ManageableRecord(q, r, "patch") \/ ManageableRecord(q, r, "lift")
            \/ Lifts(q, r) \/ SweepMarks(q, r)
            \/ UndoRestrictionCreate(q, r)
            \/ \E e \in 0 .. Never :
                 \/ Create(q, r, e) \/ PatchWrites(q, r, e)
                 \/ UndoRestrictionLift(q, r, e)
                 \/ UndoRestrictionUpdate(q, r, e)
  \/ Restart

Spec == Init /\ [][Next]_vars

(* The bounded staleness of the cache, whose rows may be stored after the   *)
(* record was changed and the cache emptied, and whom an undo does not      *)
(* empty: while an answer is used, what differs from the rows changed after *)
(* it was read, so that the answer is at most CacheTTL behind.              *)
AnswersAreYoung ==
  Fresh => \A r \in Records :
             (r \in Denying <=> ActiveAt(r)) \/ changed[r] >= cache.at

(* What the member was told against what holds: unless two jobs crossed on  *)
(* the record or a crash fell between the row and the event, who is done    *)
(* has told that it ended exactly when it was lifted or ran out, and a      *)
(* record that still runs is never marked as told of.                       *)
ToldOfTheEnd ==
  \A r \in Records \ crossed :
    row[r] # None /\ (\A q \in Requests : r \notin Holds(q)) =>
      /\ (told[r] = "lift") = (row[r].lifted \/ row[r].notified)
      /\ row[r].notified => ~Runs(row[r])

RestrictionsAreTrue == AnswersAreYoung /\ ToldOfTheEnd
=============================================================================
