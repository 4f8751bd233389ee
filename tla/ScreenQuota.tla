----------------------------- MODULE ScreenQuota -----------------------------
(***************************************************************************)
(* The screen shares of one guild against their quotas (stage/api.go       *)
(* screenStart, background.go): a share takes a slot when it is requested, *)
(* becomes active when the SFU reports its track, and gives the slot back  *)
(* when it ends, is not confirmed in time, or is the oldest of too many.   *)
(*                                                                         *)
(* The lock is per channel and the quota per guild: screenStart counts the *)
(* slots of all channels under the lock of its own. The background loop    *)
(* loads rows without any lock and handles them one by one; it ends what   *)
(* is too much only while two settings of the platform allow it.           *)
(***************************************************************************)
EXTENDS Integers, Sequences, FiniteSets, FiniteSetTheorems, TLAPS

CONSTANTS
  Channels,
  Shares,         \* bound of the model: slot ids, each used once
  None,
  ChannelCap,     \* max_concurrent_screens of every channel
  Base            \* max_concurrent_screens of the guild

ASSUME QuotaAssumption ==
  /\ Channels # {} /\ None \notin Channels /\ IsFiniteSet(Channels) /\ IsFiniteSet(Shares)
  /\ ChannelCap \in Nat \ {0} /\ Base \in Nat \ {0}

VARIABLES
  state,      \* share -> ScreenSlot.state, or "none" before it and "ended" after
  channel,    \* share -> ScreenSlot.channel_id, kept when it has ended
  order,      \* slots by COALESCE(started_at, created_at)
  admitted,   \* channels whose screenStart passed the quota, and has the lock
  setting,    \* of the platform: "off", "dynamic" (the load of the nodes lowers
              \* the limit), or "gentle" (and the oldest shares end by it)
  effective,  \* effective limit of the guild, at most Base
  reason,     \* background loop: what it releases the rows for
  rows        \* rows it loaded and has still to release

settings == <<setting, effective>>
vars == <<state, channel, order, admitted, settings, reason, rows>>

Init ==
  /\ state = [x \in Shares |-> "none"]
  /\ channel = [x \in Shares |-> None]
  /\ order = <<>> /\ admitted = {}
  /\ setting = "gentle" /\ effective = Base
  /\ reason = "none" /\ rows = <<>>

Slots == {x \in Shares : state[x] \in {"reserved", "active"}}
SlotsOf(c) == {x \in Slots : channel[x] = c}
Used(c) == Cardinality(SlotsOf(c))
Fresh == {x \in Shares : state[x] = "none"}
Unlocked(c) == c \notin admitted
Without(s, x) == SelectSeq(s, LAMBDA y : y # x)

-----------------------------------------------------------------------------
(* The handlers, under the lock of the channel.                            *)

\* RemainingScreens(...) > 0.
RemainingByActive(c) ==        \* mutant: reserved slots are not counted
  LET active == {x \in Slots : state[x] = "active"}
  IN  /\ Cardinality({x \in active : channel[x] = c}) < ChannelCap
      /\ Cardinality(active) < effective
Remaining(c) == Used(c) < ChannelCap /\ Cardinality(Slots) < effective

\* screenStart takes the lock and finds a slot left ...
Admissible(c) == Unlocked(c) /\ Remaining(c)

ScreenStart(c) ==
  /\ Admissible(c)
  /\ Cardinality(admitted) < Cardinality(Fresh)
  /\ admitted' = admitted \cup {c}
  /\ UNCHANGED <<state, channel, order, settings, reason, rows>>

\* ... and takes it.
Create(c) ==
  /\ c \in admitted
  /\ LET x == CHOOSE y \in Fresh : TRUE
     IN  /\ state' = [state EXCEPT ![x] = "reserved"]
         /\ channel' = [channel EXCEPT ![x] = c]
         /\ order' = Append(order, x)
  /\ admitted' = admitted \ {c}
  /\ UNCHANGED <<settings, reason, rows>>

\* confirmScreenActive: started_at is set, so it is the latest of all.
ConfirmScreenActive(x) ==
  /\ Unlocked(channel[x]) /\ state[x] = "reserved"
  /\ state' = [state EXCEPT ![x] = "active"]
  /\ order' = Append(Without(order, x), x)
  /\ UNCHANGED <<channel, admitted, settings, reason, rows>>

\* endScreenSlot, which deletes by id: without a row nothing happens.
EndScreenSlot(x) ==
  /\ state' = [state EXCEPT ![x] = IF x \in Slots THEN "ended" ELSE @]
  /\ order' = Without(order, x)

\* screenStop, screenStopUser, and every way to lose seat or room (Stage).
ScreenStop(x) ==
  /\ Unlocked(channel[x]) /\ x \in Slots
  /\ EndScreenSlot(x)
  /\ UNCHANGED <<channel, admitted, settings, reason, rows>>

-----------------------------------------------------------------------------
(* The background loop, one scan after another.                            *)

\* DynamicScreenCap follows the load of the nodes, between 1 and Base.
DynamicScreenCap ==
  /\ setting # "off" /\ effective' \in 1 .. Base
  /\ UNCHANGED <<state, channel, order, admitted, setting, reason, rows>>

\* PATCH of the settings of the platform.
AdminSettings ==
  /\ setting' \in {"off", "dynamic", "gentle"}
  /\ effective' \in IF setting' = "off" THEN {Base} ELSE 1 .. Base
  /\ UNCHANGED <<state, channel, order, admitted, reason, rows>>

\* Between two scans.
Idle == rows = <<>> /\ reason # "look"

\* scanReservationExpiry: x is one of the reservations that are overdue.
ExpiredReservation(x) == state[x] = "reserved"
ScanReservations(x) ==
  /\ Idle /\ ExpiredReservation(x)
  /\ \E old \in SUBSET {y \in Shares : ExpiredReservation(y)} :
       /\ x \in old
       /\ rows' = SelectSeq(order, LAMBDA y : y \in old)
  /\ reason' = "timeout"
  /\ UNCHANGED <<state, channel, order, admitted, settings>>

\* enforceDynamicQuota reads the settings once, and skips every guild ...
LoadSetting ==
  /\ Idle /\ setting = "gentle" /\ reason' = "look"
  /\ UNCHANGED <<state, channel, order, admitted, settings, rows>>

\* ... or takes the oldest shares above the limit of now.
ExcessAboveBase == Cardinality(Slots) - Base   \* mutant: the base is enforced
Excess == Cardinality(Slots) - effective

EnforceDynamicQuota ==
  /\ reason = "look"
  /\ IF Excess > 0 THEN rows' = SubSeq(order, 1, Excess) /\ reason' = "quota"
                   ELSE rows' = <<>> /\ reason' = "none"
  /\ UNCHANGED <<state, channel, order, admitted, settings>>

Release ==
  /\ rows # <<>> /\ Unlocked(channel[Head(rows)])
  /\ EndScreenSlot(Head(rows))
  /\ rows' = Tail(rows)
  /\ UNCHANGED <<channel, admitted, settings, reason>>

-----------------------------------------------------------------------------

Next ==
  \/ \E c \in Channels : ScreenStart(c) \/ Create(c)
  \/ \E x \in Shares : ConfirmScreenActive(x) \/ ScreenStop(x)
  \/ DynamicScreenCap \/ AdminSettings
  \/ \E x \in Shares : ScanReservations(x)
  \/ LoadSetting \/ EnforceDynamicQuota \/ Release

Spec == Init /\ [][Next]_vars

(* A handler that has the lock finishes, and the loop scans again and      *)
(* again: a reservation is overdue some day. Users owe nothing.            *)
Fairness ==
  /\ \A c \in Channels : WF_vars(Create(c))
  /\ \A x \in Shares : SF_vars(ScanReservations(x))
  /\ SF_vars(LoadSetting) /\ WF_vars(EnforceDynamicQuota) /\ SF_vars(Release)

FairSpec == Spec /\ Fairness

-----------------------------------------------------------------------------
(* Properties.                                                             *)

TypeOK ==
  /\ state \in [Shares -> {"none", "reserved", "active", "ended"}]
  /\ channel \in [Shares -> Channels \cup {None}]
  /\ order \in Seq(Shares) /\ Len(order) = Cardinality(Slots)
  /\ {order[i] : i \in DOMAIN order} = Slots
  /\ admitted \subseteq Channels
  /\ setting \in {"off", "dynamic", "gentle"}
  /\ effective \in (IF setting = "off" THEN {Base} ELSE 1 .. Base)
  /\ rows \in Seq(Shares) /\ reason \in {"none", "timeout", "look", "quota"}

(* The lock of the channel keeps its own quota exact, from the count to    *)
(* the slot, and the race between channels cannot go further than one slot *)
(* of each other channel above the quota of the guild.                     *)
QuotaHolds ==
  /\ \A c \in Channels : Used(c) <= ChannelCap
  /\ Cardinality(Slots) <= Base + Cardinality(Channels) - 1

(* No reservation blocks a slot for ever: its track is confirmed, or the   *)
(* loop takes it back.                                                     *)
ReservationResolves ==
  \A x \in Shares : state[x] = "reserved" ~> state[x] # "reserved"

(* However the load varies and shares come and go, once both settings stay *)
(* on, the loop brings the guild back within its effective limit, again    *)
(* and again.  With one of them off, what is too much may stay.            *)
QuotaRecovers == <>[](setting = "gentle") => []<>(Cardinality(Slots) <= effective)

(* The background loop settles both: reservations and excess.              *)
LoopSettles == ReservationResolves /\ QuotaRecovers

-----------------------------------------------------------------------------
(* What comments say and the code does not do.                             *)

(* "RESERVED 也计入占用，防超卖": reserved slots count, so that the guild    *)
(* is never oversold. Two channels count before either creates its slot.   *)
NotOversold == Cardinality(Slots) <= Base

(* "防止 60s 预留超时把在播共享误回收": the timeout never ends a share that *)
(* plays. It ends what it loaded, which may have been confirmed since.     *)
TimeoutSparesActive ==
  [][\A x \in Shares : state[x] = "active" /\ Release /\ state'[x] = "ended"
       => reason # "timeout"]_vars
-----------------------------------------------------------------------------
(***************************************************************************)
(* The proof that the quotas hold, for any channels, quotas and number of  *)
(* shares.  A channel whose screenStart passed the quota owes a slot. The  *)
(* invariant counts the slots that are owed with those that exist: with    *)
(* them, each channel is within its quota, and the guild within its base   *)
(* and one slot for each channel but one, which is what QuotaHolds says    *)
(* once they are left out again.                                           *)
(***************************************************************************)

Typed ==
  /\ state \in [Shares -> {"none", "reserved", "active", "ended"}]
  /\ channel \in [Shares -> Channels \cup {None}]
  /\ admitted \subseteq Channels
  /\ effective \in 1 .. Base

Owed(c) == IF c \in admitted THEN 1 ELSE 0

ChannelsKept == \A c \in Channels : Used(c) + Owed(c) <= ChannelCap
GuildKept ==
  Cardinality(Slots) + Cardinality(admitted) <= Base + Cardinality(Channels) - 1
\* A bound of the model, which keeps Create able to choose a share.
EnoughFresh == Cardinality(admitted) <= Cardinality(Fresh)

Invariant == Typed /\ ChannelsKept /\ GuildKept /\ EnoughFresh

-----------------------------------------------------------------------------
\* All the sets that are counted are finite.
LEMMA Finite ==
  ASSUME Typed
  PROVE  /\ IsFiniteSet(Slots) /\ Cardinality(Slots) \in Nat
         /\ IsFiniteSet(Fresh) /\ Cardinality(Fresh) \in Nat
         /\ IsFiniteSet(admitted) /\ Cardinality(admitted) \in Nat
         /\ IsFiniteSet(Channels) /\ Cardinality(Channels) \in Nat
         /\ \A c \in Channels : IsFiniteSet(SlotsOf(c)) /\ Used(c) \in Nat
<1>1. IsFiniteSet(Channels) /\ IsFiniteSet(Shares)
  BY QuotaAssumption
<1>2. /\ Slots \in SUBSET Shares /\ Fresh \in SUBSET Shares
      /\ admitted \in SUBSET Channels
  BY DEF Slots, Fresh, Typed
<1>3. IsFiniteSet(Slots) /\ IsFiniteSet(Fresh) /\ IsFiniteSet(admitted)
  BY <1>1, <1>2, FS_Subset
<1>4. ASSUME NEW c \in Channels PROVE IsFiniteSet(SlotsOf(c)) /\ Used(c) \in Nat
  <2>1. SlotsOf(c) \in SUBSET Slots
    BY DEF SlotsOf
  <2>2. IsFiniteSet(SlotsOf(c))
    BY <1>3, <2>1, FS_Subset
  <2> QED BY <2>2, FS_CardinalityType DEF Used
<1> QED BY <1>1, <1>3, <1>4, FS_CardinalityType

\* Fewer slots, and nothing else that is counted, keep the invariant.
LEMMA FewerSlots ==
  ASSUME Invariant, Typed', Slots' \subseteq Slots, Fresh' = Fresh,
         UNCHANGED <<channel, admitted>>
  PROVE  Invariant'
<1>1. Cardinality(Slots') <= Cardinality(Slots) /\ Cardinality(Slots') \in Nat
  <2>1. Slots' \in SUBSET Slots
    OBVIOUS
  <2>2. IsFiniteSet(Slots) /\ Typed
    BY Finite DEF Invariant
  <2> QED BY <2>1, <2>2, FS_Subset, FS_CardinalityType
<1>2. GuildKept' /\ EnoughFresh'
  BY <1>1, Finite, QuotaAssumption DEF Invariant, GuildKept, EnoughFresh
<1>3. ASSUME NEW c \in Channels PROVE Used(c)' + Owed(c)' <= ChannelCap
  <2>1. SlotsOf(c)' \in SUBSET SlotsOf(c)
    BY DEF SlotsOf
  <2>2. IsFiniteSet(SlotsOf(c)) /\ Used(c) \in Nat
    BY Finite DEF Invariant
  <2>3. IsFiniteSet(SlotsOf(c)') /\ Cardinality(SlotsOf(c)') <= Cardinality(SlotsOf(c))
    BY <2>1, <2>2, FS_Subset
  <2>4. Used(c)' \in Nat /\ Used(c)' <= Used(c)
    BY <2>3, FS_CardinalityType DEF Used
  <2>5. Owed(c)' = Owed(c) /\ Owed(c) \in Nat
    BY DEF Owed
  <2>6. Used(c) + Owed(c) <= ChannelCap
    BY DEF Invariant, ChannelsKept
  <2> QED BY <2>2, <2>4, <2>5, <2>6, QuotaAssumption
<1> QED BY <1>2, <1>3 DEF Invariant, ChannelsKept

LEMMA EndKeeps ==
  ASSUME Invariant, NEW x, EndScreenSlot(x), UNCHANGED <<channel, admitted, effective>>
  PROVE  Invariant'
<1>1. Typed'
  BY DEF EndScreenSlot, Invariant, Typed
<1>2. Slots' \subseteq Slots /\ Fresh' = Fresh
  BY DEF EndScreenSlot, Invariant, Typed, Slots, Fresh
<1> QED BY <1>1, <1>2, FewerSlots

-----------------------------------------------------------------------------

LEMMA InvariantInit == Init => Invariant
<1> SUFFICES ASSUME Init PROVE Invariant
  OBVIOUS
<1> USE QuotaAssumption
<1>1. Typed
  BY DEF Init, Typed
<1>2. Slots = {} /\ admitted = {}
  BY DEF Init, Slots
<1>3. Cardinality(Slots) = 0 /\ Cardinality(admitted) = 0
  BY <1>2, FS_EmptySet
<1>4. Cardinality(Channels) \in Nat \ {0}
  BY FS_CardinalityType, FS_EmptySet
<1>5. \A c \in Channels : Used(c) = 0 /\ Owed(c) = 0
  <2>1. \A c \in Channels : SlotsOf(c) = {}
    BY <1>2 DEF SlotsOf
  <2> QED BY <1>2, <2>1, FS_EmptySet DEF Used, Owed
<1> QED BY <1>1, <1>3, <1>4, <1>5, Finite DEF Invariant, ChannelsKept, GuildKept, EnoughFresh

LEMMA StartKeeps ==
  ASSUME Invariant, NEW c \in Channels, ScreenStart(c)
  PROVE  Invariant'
<1> USE QuotaAssumption
<1>1. /\ c \notin admitted /\ admitted' = admitted \cup {c}
      /\ Used(c) < ChannelCap /\ Cardinality(Slots) < effective
      /\ Cardinality(admitted) < Cardinality(Fresh)
      /\ UNCHANGED <<state, channel, effective>>
  BY DEF ScreenStart, Admissible, Unlocked, Remaining, settings
<1>2. Typed'
  BY <1>1 DEF Invariant, Typed
<1>3. Slots' = Slots /\ Fresh' = Fresh /\ \A d \in Channels : Used(d)' = Used(d)
  BY <1>1 DEF Slots, Fresh, Used, SlotsOf
<1>4. /\ Cardinality(admitted') = Cardinality(admitted) + 1
      /\ Cardinality(admitted) \in Nat
  BY <1>1, Finite, FS_AddElement DEF Invariant
<1>5. Cardinality(admitted') <= Cardinality(Channels)
  <2>1. admitted' \in SUBSET Channels
    BY <1>2 DEF Typed
  <2> QED BY <2>1, FS_Subset
<1>6. GuildKept' /\ EnoughFresh'
  <2>1. /\ Cardinality(Slots) \in Nat /\ Cardinality(Channels) \in Nat
        /\ Cardinality(Fresh) \in Nat /\ effective \in 1 .. Base
    BY Finite DEF Invariant, Typed
  <2> QED BY <1>1, <1>3, <1>4, <1>5, <2>1 DEF GuildKept, EnoughFresh
<1>7. ASSUME NEW d \in Channels PROVE Used(d)' + Owed(d)' <= ChannelCap
  <2>1. Used(d) \in Nat /\ Used(d) + Owed(d) <= ChannelCap
    BY Finite DEF Invariant, ChannelsKept
  <2>2. CASE d = c
    BY <1>1, <1>3, <2>1, <2>2 DEF Owed
  <2>3. CASE d # c
    BY <1>1, <1>3, <2>1, <2>3 DEF Owed
  <2> QED BY <2>2, <2>3
<1> QED BY <1>2, <1>6, <1>7 DEF Invariant, ChannelsKept

LEMMA CreateKeeps ==
  ASSUME Invariant, NEW c \in Channels, Create(c)
  PROVE  Invariant'
<1> USE QuotaAssumption
<1> DEFINE x == CHOOSE y \in Fresh : TRUE
<1>1. /\ c \in admitted /\ admitted' = admitted \ {c}
      /\ state' = [state EXCEPT ![x] = "reserved"]
      /\ channel' = [channel EXCEPT ![x] = c]
      /\ UNCHANGED effective
  BY DEF Create, settings
<1>2. Typed
  BY DEF Invariant
<1>3. /\ Cardinality(admitted') = Cardinality(admitted) - 1
      /\ Cardinality(admitted) \in Nat \ {0}
  <2>1. IsFiniteSet(admitted) /\ admitted # {}
    BY <1>1, <1>2, Finite
  <2> QED BY <1>1, <2>1, FS_RemoveElement, FS_CardinalityType, FS_EmptySet
<1>4. x \in Fresh
  <2>1. Fresh # {}
    BY <1>2, <1>3, Finite, FS_EmptySet DEF Invariant, EnoughFresh
  <2> QED BY <2>1
<1> HIDE DEF x
<1>5. x \in Shares /\ x \notin Slots
  BY <1>4 DEF Fresh, Slots
<1>6. Typed'
  BY <1>1, <1>2, <1>5 DEF Typed
<1>7. Slots' = Slots \cup {x} /\ Fresh' = Fresh \ {x}
  BY <1>1, <1>2, <1>5 DEF Slots, Fresh, Typed
<1>8. /\ Cardinality(Slots') = Cardinality(Slots) + 1
      /\ Cardinality(Fresh') = Cardinality(Fresh) - 1
  BY <1>2, <1>4, <1>5, <1>7, Finite, FS_AddElement, FS_RemoveElement
<1>9. GuildKept' /\ EnoughFresh'
  BY <1>2, <1>3, <1>8, Finite DEF Invariant, GuildKept, EnoughFresh
<1>10. ASSUME NEW d \in Channels PROVE Used(d)' + Owed(d)' <= ChannelCap
  <2>1. Used(d) \in Nat /\ Used(d) + Owed(d) <= ChannelCap
    BY <1>2, Finite DEF Invariant, ChannelsKept
  <2>2. CASE d = c
    <3>1. SlotsOf(c)' = SlotsOf(c) \cup {x} /\ x \notin SlotsOf(c)
      BY <1>1, <1>2, <1>5, <1>7 DEF SlotsOf, Slots, Typed
    <3>2. Used(c)' = Used(c) + 1
      BY <1>2, <3>1, Finite, FS_AddElement DEF Used
    <3> QED BY <1>1, <2>1, <2>2, <3>2 DEF Owed
  <2>3. CASE d # c
    <3>1. SlotsOf(d)' = SlotsOf(d)
      BY <1>1, <1>2, <1>5, <1>7, <2>3 DEF SlotsOf, Slots, Typed
    <3>2. Used(d)' = Used(d) /\ Owed(d)' = Owed(d)
      BY <1>1, <2>3, <3>1 DEF Used, Owed
    <3> QED BY <2>1, <3>2
  <2> QED BY <2>2, <2>3
<1> QED BY <1>6, <1>9, <1>10 DEF Invariant, ChannelsKept

LEMMA InvariantNext == Invariant /\ [Next]_vars => Invariant'
<1> SUFFICES ASSUME Invariant, [Next]_vars PROVE Invariant'
  OBVIOUS
<1> USE QuotaAssumption
<1>1. ASSUME NEW c \in Channels, ScreenStart(c) \/ Create(c) PROVE Invariant'
  BY <1>1, StartKeeps, CreateKeeps
<1>2. ASSUME NEW x \in Shares, ConfirmScreenActive(x) PROVE Invariant'
  <2>1. Typed' /\ UNCHANGED <<channel, admitted>>
    BY <1>2 DEF ConfirmScreenActive, Invariant, Typed, settings
  <2>2. Slots' \subseteq Slots /\ Fresh' = Fresh
    BY <1>2 DEF ConfirmScreenActive, Invariant, Typed, Slots, Fresh
  <2> QED BY <2>1, <2>2, FewerSlots
<1>3. ASSUME NEW x \in Shares, ScreenStop(x) PROVE Invariant'
  BY <1>3, EndKeeps DEF ScreenStop, settings
<1>4. CASE Release
  BY <1>4, EndKeeps DEF Release, settings
<1>5. ASSUME UNCHANGED <<state, channel, admitted>>, effective' \in 1 .. Base
      PROVE  Invariant'
  <2>1. Typed' /\ Slots' \subseteq Slots /\ Fresh' = Fresh
    BY <1>5 DEF Invariant, Typed, Slots, Fresh
  <2> QED BY <1>5, <2>1, FewerSlots
<1>6. effective \in 1 .. Base
  BY DEF Invariant, Typed
<1>7. CASE DynamicScreenCap
  BY <1>5, <1>7 DEF DynamicScreenCap
<1>8. ASSUME NEW x \in Shares, ScanReservations(x) PROVE Invariant'
  BY <1>5, <1>6, <1>8 DEF ScanReservations, settings
<1>9. CASE AdminSettings \/ LoadSetting \/ EnforceDynamicQuota
  BY <1>5, <1>6, <1>9 DEF AdminSettings, LoadSetting, EnforceDynamicQuota, settings
<1>10. CASE UNCHANGED vars
  BY <1>5, <1>6, <1>10 DEF vars, settings
<1> QED
  BY <1>1, <1>2, <1>3, <1>4, <1>7, <1>8, <1>9, <1>10 DEF Next

(* Each channel keeps to its quota, and the race between channels takes    *)
(* the guild no further than one slot of each other channel above its own. *)
THEOREM QuotasHold == Spec => []QuotaHolds
<1>1. Invariant => QuotaHolds
  <2> SUFFICES ASSUME Invariant PROVE QuotaHolds
    OBVIOUS
  <2>1. ASSUME NEW c \in Channels PROVE Used(c) <= ChannelCap
    BY Finite, QuotaAssumption DEF Invariant, ChannelsKept, Owed
  <2>2. Cardinality(Slots) <= Base + Cardinality(Channels) - 1
    BY Finite, QuotaAssumption DEF Invariant, GuildKept
  <2> QED BY <2>1, <2>2 DEF QuotaHolds
<1> QED BY <1>1, InvariantInit, InvariantNext, PTL DEF Spec
=============================================================================
