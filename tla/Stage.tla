-------------------------------- MODULE Stage --------------------------------
(***************************************************************************)
(* The stage of one voice channel (stage/service.go, api.go, background.go) *)
(* : mode, seats, request queue, capacity mutes and screen shares.         *)
(*                                                                         *)
(* Every handler, every reconcileChannel and every row that the background *)
(* loop handles runs under the lock of the channel, and is one action.     *)
(* Three things happen outside the lock: the voice module changes the      *)
(* voice states and reconciles afterwards; the background loop loads the   *)
(* rows it will handle; and patchVoiceStage keeps the lock while it reads  *)
(* the voice states a second time. A reconcile reads the voice states      *)
(* once, so a change after that read is one after the whole reconcile.     *)
(*                                                                         *)
(* Times are kept as orders (of the room, the seats and the queue); that a *)
(* row is old enough for a scan is a choice of the scan. Handlers that do  *)
(* the same to the rows are one action, and what a refused request would   *)
(* have read (request_to_speak_enabled, permissions) is left out: to be    *)
(* refused is not to act. The quota of shares, which spans channels, is    *)
(* ScreenQuota.                                                            *)
(***************************************************************************)
EXTENDS Naturals, Sequences, FiniteSets, SequencesExt

CONSTANTS
  Users,
  Restricted,        \* users whom a Restriction forbids to speak
  CapacityWindow,    \* 50 in the code
  HardMaxSpeakers,   \* 50 in the code
  MaxQueueLength     \* 100 in the code

VARIABLES
  room,         \* users with a voice state of the channel, by joined_at
  online,       \* those whose voice state is connected
  dirty,        \* the room changed and its reconcile has not run yet
  mode,         \* StageChannelConfig.mode
  maxSpeakers,  \* StageChannelConfig.max_speakers
  seats,        \* StageSpeaker rows, by granted_at
  queue,        \* StageQueueEntry rows, by requested_at
  muted,        \* StageCapacityMute rows
  sharing,      \* users with a ScreenSlot
  marked,       \* users whose seat has a disconnected_at
  scan,         \* background loop: the seats it loaded and will release
  patching      \* patchVoiceStage has the lock and will reconcile

voiceVars  == <<room, online, dirty>>
configVars == <<mode, maxSpeakers>>
rowVars    == <<seats, queue, muted, sharing, marked>>
vars == <<voiceVars, configVars, rowVars, scan, patching>>

\* A channel nobody configured: channelConfig's default.
Init ==
  /\ room = <<>> /\ online = {} /\ dirty = FALSE
  /\ mode = "FREE" /\ maxSpeakers \in 1 .. HardMaxSpeakers
  /\ seats = <<>> /\ queue = <<>> /\ muted = {} /\ sharing = {}
  /\ marked = {} /\ scan = {} /\ patching = FALSE

\* The rows of s whose users are in S, or are not, in their order.
Kept(s, S) ==
  LET kept[n \in 0 .. Len(s)] ==
        IF n = 0 THEN <<>>
        ELSE IF s[n] \in S THEN Append(kept[n - 1], s[n]) ELSE kept[n - 1]
  IN  kept[Len(s)]

Without(s, S) == Kept(s, Range(s) \ S)

FirstOf(s, n) == SubSeq(s, 1, IF Len(s) <= n THEN Len(s) ELSE n)

-----------------------------------------------------------------------------
(* The voice states (owned by the voice module).                           *)

Join(u) ==
  /\ u \notin Range(room)
  /\ room' = Append(room, u)
  /\ dirty' = TRUE
  /\ UNCHANGED <<online, configVars, rowVars, scan, patching>>

\* A join of the channel the user is in: joined_at is set again.
Rejoin(u) ==
  /\ u \in Range(room)
  /\ room' = Append(Without(room, {u}), u)
  /\ online' = online \ {u}
  /\ dirty' = TRUE
  /\ UNCHANGED <<configVars, rowVars, scan, patching>>

Leave(u) ==
  /\ u \in Range(room)
  /\ room' = Without(room, {u})
  /\ online' = online \ {u}
  /\ dirty' = TRUE
  /\ UNCHANGED <<configVars, rowVars, scan, patching>>

\* The SFU reports that the user connected or dropped. The reconcile it asks
\* for comes over the event bus, which drops events when it is full.
ConnectedChange(u) ==
  /\ u \in Range(room)
  /\ online' = IF u \in online THEN online \ {u} ELSE online \cup {u}
  /\ dirty' \in {dirty, TRUE}
  /\ UNCHANGED <<room, configVars, rowVars, scan, patching>>

-----------------------------------------------------------------------------
(* reconcileChannel.                                                       *)

(* FREE -> STAGE: who has been in the room longest gets a seat. Reconcile  *)
(* calls it before the mutes are recomputed.                               *)
Retained(max) ==
  LET eligible == FirstOf(Without(room, muted \cup Restricted), max)
  IN  seats \o Without(eligible, Range(seats))

Forced == Len(room) > CapacityWindow /\ mode # "STAGE"

\* syncPresence: users without a voice state lose their rows.
SyncedNobody(s) == s               \* mutant: nobody's rows are looked at
Synced(s) == Kept(s, Range(room))

Exempt(i, speakers) == i <= CapacityWindow \/ room[i] \in speakers

QueuedFirst(rows, late) == late \o rows   \* mutant: they jump the queue
Queued(rows, late) == rows \o late

\* The order of the entries made by one reconcile: requested_at is the same
\* for all, and the rest of the order is that of random ids.
Orders(s) == {[i \in DOMAIN s |-> s[p[i]]] : p \in SetToSeqs(DOMAIN s)}

Reconcile ==
  LET seats1  == Synced(IF Forced THEN Retained(maxSpeakers) ELSE seats)
      queue1  == Synced(queue)
      exempt  == {room[i] : i \in {j \in DOMAIN room : Exempt(j, Range(seats1))}}
      toMute  == Without(room, exempt \cup muted)
      toQueue == IF Forced \/ mode = "STAGE"
                   THEN FirstOf(Without(toMute, Range(queue1)), MaxQueueLength - Len(queue1))
                   ELSE <<>>
  IN  /\ dirty \/ patching
      /\ mode' = IF Forced THEN "STAGE" ELSE mode
      /\ seats' = seats1
      /\ \E late \in Orders(toQueue) : queue' = Queued(queue1, late)
      /\ muted' = Range(room) \ exempt
      /\ sharing' = sharing \cap Range(room)
      /\ marked' = Range(seats1) \ online
      /\ dirty' = FALSE
      /\ patching' = FALSE
      /\ UNCHANGED <<room, online, maxSpeakers, scan>>

-----------------------------------------------------------------------------
(* removeSpeaker, which also ends the share.                               *)

RemoveSpeakers(S) ==
  /\ seats' = Without(seats, S)
  /\ marked' = marked \ S
  /\ sharing' = sharing \ S

-----------------------------------------------------------------------------
(* The handlers.                                                           *)

Unlocked == ~patching

(* patchVoiceStage: STAGE -> FREE drops seats and queue, FREE -> STAGE     *)
(* retains seats, a lower max_speakers trims them.                         *)
Demoted(max) == {seats[i] : i \in {j \in DOMAIN seats : j > max}}

PatchToFree ==
  /\ mode' = "FREE"
  /\ mode = "STAGE" => Len(room) <= CapacityWindow
  /\ IF mode = "STAGE"
       THEN seats' = <<>> /\ queue' = <<>> /\ marked' = {}
       ELSE UNCHANGED <<seats, queue, marked>>
  /\ UNCHANGED sharing

PatchToStage(max) ==
  /\ mode' = "STAGE"
  /\ IF mode = "FREE"
       THEN seats' = Retained(max) /\ UNCHANGED <<sharing, marked>>
       ELSE RemoveSpeakers(Demoted(max))
  /\ UNCHANGED queue

PatchVoiceStage ==
  /\ Unlocked
  /\ \E max \in 1 .. HardMaxSpeakers :
       /\ maxSpeakers' = max
       /\ PatchToFree \/ PatchToStage(max)
  /\ patching' = TRUE
  /\ UNCHANGED <<voiceVars, muted, scan>>

\* DecideApply, where an entry is made (it is not when the user is queued).
MayApply(u) ==
  /\ mode = "STAGE"
  /\ u \in Range(room) \ (Range(seats) \cup Restricted \cup Range(queue))
  /\ Len(queue) < MaxQueueLength

Apply(u) ==
  /\ Unlocked /\ MayApply(u)
  /\ queue' = Append(queue, u)
  /\ UNCHANGED <<voiceVars, configVars, seats, muted, sharing, marked, scan, patching>>

\* cancelApply, removeFromQueue, and the scans of the queue: they load rows
\* without the lock, but delete by the id of the row.
Unqueue(u) ==
  /\ Unlocked /\ u \in Range(queue)
  /\ queue' = Without(queue, {u})
  /\ UNCHANGED <<voiceVars, configVars, seats, muted, sharing, marked, scan, patching>>

\* DecideBringUp.
MayBringUp(u) ==
  /\ mode = "STAGE"
  /\ u \in Range(room) \ (Range(seats) \cup Restricted)
  /\ Len(seats) < maxSpeakers

Dequeued(u) == queue' = Without(queue, {u})

BringUp(u) ==
  /\ Unlocked /\ MayBringUp(u)
  /\ seats' = Append(seats, u)
  /\ Dequeued(u)
  /\ muted' = muted \ {u}
  /\ UNCHANGED <<voiceVars, configVars, sharing, marked, scan, patching>>

\* bringDown and selfLeave.
BringDown(u) ==
  /\ Unlocked /\ u \in Range(seats)
  /\ RemoveSpeakers({u})
  /\ UNCHANGED <<voiceVars, configVars, queue, muted, scan, patching>>

\* screenStart, where quota and permissions allow it.
ScreenStart(u) ==
  /\ Unlocked
  /\ u \in Range(room) \ (Restricted \cup sharing)
  /\ mode = "STAGE" => u \in Range(seats)
  /\ sharing' = sharing \cup {u}
  /\ UNCHANGED <<voiceVars, configVars, seats, queue, muted, marked, scan, patching>>

\* screenStop, screenStopUser, the scans of the slots and the quota.
ScreenStop(u) ==
  /\ Unlocked /\ u \in sharing
  /\ sharing' = sharing \ {u}
  /\ UNCHANGED <<voiceVars, configVars, seats, queue, muted, marked, scan, patching>>

-----------------------------------------------------------------------------
(* scanDisconnectGrace on the seats: it loads the rows that are marked for *)
(* long enough, and releases them one by one, by user.                     *)

LoadSeats ==
  /\ scan = {}
  /\ scan' \in SUBSET marked \ {{}}
  /\ UNCHANGED <<voiceVars, configVars, rowVars, patching>>

ReleaseSeat(u) ==
  /\ Unlocked /\ u \in scan
  /\ RemoveSpeakers({u})
  /\ scan' = scan \ {u}
  /\ UNCHANGED <<voiceVars, configVars, queue, muted, patching>>

Next ==
  \/ \E u \in Users : Join(u) \/ Rejoin(u) \/ Leave(u) \/ ConnectedChange(u)
  \/ Reconcile
  \/ PatchVoiceStage
  \/ \E u \in Users : Apply(u) \/ Unqueue(u) \/ BringUp(u) \/ BringDown(u)
  \/ \E u \in Users : ScreenStart(u) \/ ScreenStop(u)
  \/ LoadSeats
  \/ \E u \in Users : ReleaseSeat(u)

Spec == Init /\ [][Next]_vars

-----------------------------------------------------------------------------
(* Properties.                                                             *)

TypeOK ==
  /\ room \in Seq(Users) /\ IsInjective(room)
  /\ online \subseteq Range(room)
  /\ mode \in {"FREE", "STAGE"} /\ maxSpeakers \in 1 .. HardMaxSpeakers
  /\ dirty \in BOOLEAN /\ patching \in BOOLEAN
  /\ seats \in Seq(Users) /\ IsInjective(seats)
  /\ queue \in Seq(Users) /\ IsInjective(queue)
  /\ muted \subseteq Users /\ sharing \subseteq Users /\ scan \subseteq Users
  /\ marked \subseteq Range(seats)

(* A user is speaker, queued or audience, never two of them; there are     *)
(* never more speakers than max_speakers, nor more requests than the queue *)
(* takes; without a stage there are neither seats nor requests. Retained   *)
(* seats, captures by capacity, bring-ups and trims all change these rows. *)
StageRoles ==
  /\ Range(seats) \cap Range(queue) = {}
  /\ Len(seats) <= maxSpeakers /\ Len(queue) <= MaxQueueLength
  /\ mode = "FREE" => seats = <<>> /\ queue = <<>>

Settled == ~dirty /\ ~patching

\* CanPublishAudio.
CanPublishAudio(u) ==
  IF mode = "STAGE" THEN u \in Range(seats) ELSE u \notin muted

(* However joins, leaves, mode changes and scans interleave, when no       *)
(* reconcile is owed a row belongs to a user in the room, never more users *)
(* may speak than a stage or an open room takes, and a user is muted for   *)
(* capacity only when neither place in the room nor a seat exempts him.    *)
SettledRoom ==
  Settled =>
    /\ Range(seats) \cup Range(queue) \cup muted \cup sharing \subseteq Range(room)
    /\ Cardinality({u \in Range(room) : CanPublishAudio(u)})
         <= IF mode = "STAGE" THEN HardMaxSpeakers ELSE CapacityWindow
    /\ \A i \in DOMAIN room : room[i] \in muted => ~Exempt(i, Range(seats))

Before(s, u, v) ==
  \E i, j \in DOMAIN s : i < j /\ s[i] = u /\ s[j] = v

(* The queue is first come first served: whoever is queued stays before    *)
(* those who came after, and before those who are queued now.              *)
NobodyOvertakes ==
  [][\A u \in Range(queue) \cap Range(queue'), v \in Range(queue') :
       u # v /\ (v \in Range(queue) => Before(queue, u, v)) => Before(queue', u, v)]_queue

(* Mutes are lifted in the order of the room: who is let into the window   *)
(* came before all who stay muted.                                         *)
EarliestUnmutedFirst ==
  [][\A u \in muted \ muted', v \in muted \cap muted' :
       u \in Range(room) \ Range(seats') => Before(room, u, v)]_muted

(* A speaker who is brought down, trimmed or timed out stops sharing.      *)
UnseatedStopsSharing ==
  [][\A u \in Range(seats) \ Range(seats') :
       mode' = "STAGE" => u \notin sharing']_vars

-----------------------------------------------------------------------------
(* What the documents say and the code does not do.                        *)

(* On a stage only speakers share (AX.1), and whoever is no speaker stops  *)
(* (BB.1). A share that was started before the channel became a stage goes *)
(* on, and counts against the quota, when its owner gets no seat.          *)
SharersAreSpeakers ==
  Settled /\ mode = "STAGE" => sharing \subseteq Range(seats)

(* From the user after the window on, a seat is taken by bring-up only     *)
(* (Z.3). The forced switch retains before it recomputes the mutes.        *)
ForcedStageSparesWindow ==
  [][mode = "FREE" /\ mode' = "STAGE" =>
       \A i \in DOMAIN room : room[i] \in Range(seats') => i <= CapacityWindow]_vars

(* The scan takes a seat only while its holder is still marked. It deletes *)
(* by user, and the mark may have gone since it was loaded.                *)
TimeoutTakesMarkedSeat ==
  [][\A u \in Users : ReleaseSeat(u) /\ u \in Range(seats) => u \in marked]_vars
=============================================================================
