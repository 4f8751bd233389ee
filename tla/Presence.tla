------------------------------ MODULE Presence -------------------------------
(* The presence of one user: what each of his sessions wants to be and does, *)
(* the custom status of the account, and what a watcher - he himself, or a   *)
(* member of a guild he is in - was last told.  The registry changes under   *)
(* its lock; whom to tell is found and told after the lock is released.      *)
EXTENDS Naturals, FiniteSets

CONSTANTS
  Sessions,       \* Gateway sessions of the user
  Requests,       \* callers of the registry at a time
  Statuses,       \* what a session may ask to be shown as
  Activities,     \* what he may be doing, by how they rank
  MaxActivities,  \* so many of them are shown
  MaxUpdates,     \* bound on the calls
  None

VARIABLES
  sessions,       \* by session, [status, acts], or None
  custom,         \* the custom status: "brief", or None
  late,           \* the time of the brief one is over
  showTo,         \* show_activity_to
  friend,         \* the watcher is a friend
  job,            \* by caller, what he has to publish, or None
  watcher,        \* who is told: "self" or "other"
  told,           \* what he was last told
  crossed,        \* and another caller was publishing at the time
  skipped,        \* members were not found: nobody else was told
  hid,            \* who may see the activities changed since he was told
  updates         \* calls so far

vars == <<sessions, custom, late, showTo, friend, job, watcher, told, crossed,
          skipped, hid, updates>>

StatusRank == [dnd |-> 4, online |-> 3, idle |-> 2, invisible |-> 1]

Nothing == [status |-> "offline", custom |-> None, acts |-> {}]

Audiences == {"everyone", "friends"}   \* "nobody": friends, and not one

Init ==
  /\ sessions = [s \in Sessions |-> None]
  /\ custom = None /\ late = FALSE
  /\ showTo = "friends" /\ friend = TRUE
  /\ job = [q \in Requests |-> None]
  /\ watcher \in {"self", "other"}
  /\ told = Nothing
  /\ crossed = FALSE /\ skipped = FALSE /\ hid = FALSE
  /\ updates = 0

-----------------------------------------------------------------------------
(* What the sessions come to                                                *)

Live(ss) == {s \in Sessions : ss[s] # None}

Merged(ss) ==
  IF Live(ss) = {} THEN "offline"
    ELSE LET wanted == {ss[s].status : s \in Live(ss)}
         IN  CHOOSE w \in wanted :
               \A x \in wanted : StatusRank[w] >= StatusRank[x]

MergeActivities(ss) ==
  LET all == UNION {ss[s].acts : s \in Live(ss)}
  IN  {a \in all : Cardinality({b \in all : b > a})
                     < MaxActivities}

EffectiveCustom(c) == IF late /\ c = "brief" THEN None ELSE c

Real(ss, c) ==
  IF Live(ss) = {} THEN Nothing
    ELSE [status |-> Merged(ss), custom |-> EffectiveCustom(c),
          acts |-> MergeActivities(ss)]

Mask(info) ==
  IF info.status \in {"invisible", "offline"} THEN Nothing ELSE info

Shown(info) == IF watcher = "self" THEN info ELSE Mask(info)

CanViewerSeeActivity ==
  \/ watcher = "self"
  \/ showTo = "everyone"
  \/ showTo = "friends" /\ friend

Stripped(info) ==
  IF CanViewerSeeActivity THEN info ELSE [info EXCEPT !.acts = {}]

Displayed == Stripped(Shown(Real(sessions, custom)))

-----------------------------------------------------------------------------

(* A plausible mistake: only the status decides whether to tell.            *)
StatusDiffers(before, after) == before.status # after.status

Differs(before, after) == before # after

Others(q) == {p \in Requests \ {q} : job[p] # None}

Mutate(q, ss, c) ==                                      \* under the lock
  LET before == Shown(Real(sessions, custom))
      after  == Shown(Real(ss, c))
  IN  /\ job[q] = None
      /\ updates < MaxUpdates /\ updates' = updates + 1
      /\ sessions' = ss
      /\ custom' = IF Live(ss) = {} THEN None ELSE c
      /\ job' = IF Differs(before, after)
                  THEN [p \in Requests |->
                          IF p = q THEN [shows |-> after, alone |-> Others(q) = {}]
                            ELSE IF job[p] = None THEN None
                            ELSE [job[p] EXCEPT !.alone = FALSE]]
                  ELSE job
      /\ UNCHANGED <<late, showTo, friend, watcher, told, crossed, skipped, hid>>

Connect(q, s, status) ==                  \* a known session keeps its own
  Mutate(q, IF sessions[s] # None THEN sessions
              ELSE [sessions EXCEPT ![s] = [status |-> status, acts |-> {}]],
         custom)

Disconnect(q, s) == Mutate(q, [sessions EXCEPT ![s] = None], custom)

SetStatus(q, s, status, c) ==             \* the activities stay
  LET acts == IF sessions[s] = None THEN {} ELSE sessions[s].acts
  IN  Mutate(q, [sessions EXCEPT ![s] = [status |-> status, acts |-> acts]], c)

SetStatusFull(q, s, status, c, acts) ==
  Mutate(q, [sessions EXCEPT ![s] = [status |-> status, acts |-> acts]], c)

Publish(q) ==                             \* the audience is read here
  /\ job[q] # None
  /\ told' = Stripped(job[q].shows)
  /\ crossed' = ~job[q].alone
  /\ hid' = FALSE /\ skipped' = FALSE
  /\ job' = [job EXCEPT ![q] = None]
  /\ UNCHANGED <<sessions, custom, late, showTo, friend, watcher, updates>>

SharedMembersFail(q) ==                   \* the broadcast is skipped
  /\ job[q] # None /\ watcher = "other"
  /\ skipped' = TRUE
  /\ job' = [job EXCEPT ![q] = None]
  /\ UNCHANGED <<sessions, custom, late, showTo, friend, watcher, told,
                 crossed, hid, updates>>

Ready ==                                  \* the watcher connects and asks
  /\ told' = Displayed
  /\ crossed' = FALSE /\ hid' = FALSE /\ skipped' = FALSE
  /\ UNCHANGED <<sessions, custom, late, showTo, friend, job, watcher, updates>>

CustomExpires ==                          \* he was told when it would
  /\ ~late
  /\ late' = TRUE
  /\ UNCHANGED <<sessions, custom, showTo, friend, job, watcher, told, crossed,
                 skipped, hid, updates>>

\* No event, for those who watch.  The settings are saved as a whole, so that
\* a change of another one may write this one too, as it was read.
PatchPrivacy(to) ==
  /\ ~hid /\ showTo # to                    \* one such change: a bound
  /\ showTo' = to /\ hid' = TRUE
  /\ UNCHANGED <<sessions, custom, late, friend, job, watcher, told, crossed,
                 skipped, updates>>

FriendshipChanges ==                      \* nor when a friend comes or goes
  /\ ~hid
  /\ friend' = ~friend /\ hid' = TRUE
  /\ UNCHANGED <<sessions, custom, late, showTo, job, watcher, told, crossed,
                 skipped, updates>>

-----------------------------------------------------------------------------

Next ==
  \/ \E q \in Requests :
       \/ Publish(q) \/ SharedMembersFail(q)
       \/ \E s \in Sessions :
            \/ Disconnect(q, s)
            \/ \E status \in Statuses :
                 \/ Connect(q, s, status)
                 \/ \E c \in {None, "brief"} :
                      \/ SetStatus(q, s, status, c)
                      \/ \E a \in Activities \cup {None} :
                           SetStatusFull(q, s, status, c, {a} \ {None})
  \/ Ready \/ CustomExpires
  \/ FriendshipChanges \/ \E to \in Audiences : PatchPrivacy(to)

Spec == Init /\ [][Next]_vars

(* Registry against watcher: once nobody is publishing, what he was last     *)
(* told is what a fresh look would show him, unless two callers published at *)
(* a time, the members could not be found, or - for the activities - the     *)
(* audience changed, of which nobody is told.  Who is hidden gives nothing   *)
(* else away either.                                                         *)
PresenceIsTrue ==
  LET Seen     == [told EXCEPT !.custom = EffectiveCustom(@)]
      NoActs(i) == [i EXCEPT !.acts = {}]
  IN  /\ (\A q \in Requests : job[q] = None) /\ ~crossed /\ ~skipped =>
           IF hid THEN NoActs(Seen) = NoActs(Displayed) ELSE Seen = Displayed
      /\ watcher = "other" => /\ told.status # "invisible"
                              /\ told.status = "offline" => told = Nothing
=============================================================================
