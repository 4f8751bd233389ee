---------------------------- MODULE VoiceMember -----------------------------
(* One member of a guild and its voice: the row of voice_states, the right  *)
(* to be in a room, the token the client holds and the sessions it has on   *)
(* the SFU.  Every handler that touches the row runs under Service.mu and   *)
(* is one step; the permission check of a join, the moderators' writes and  *)
(* the events that follow them are not, and interleave with it.  The SFU is *)
(* outside the repository: it admits whoever shows a token that has not     *)
(* expired, and ends a session whose token has (docs 05, section 4).        *)
(* What the other members do shows only as a join that is refused.          *)
EXTENDS Naturals

CONSTANTS
  Channels,     \* voice channels of the guild
  Life,         \* a token lives for this many passings of time
  MaxWrites,    \* bound on what moderators do
  None

ASSUME BoundsAssumption == Life \in Nat \ {0} /\ MaxWrites \in Nat

VARIABLES
  member,       \* the member may connect, as far as roles and bans go
  deny,         \* a restriction on listening is in force
  cached,       \* what the cache says of deny, or None
  reading,      \* restriction rows read and not yet in the cache, or None
  muted,        \* server_mute
  room,         \* channel_id of the row, or None
  token,        \* the client's latest token, or None
  media,        \* by channel, the session on the SFU, or None
  joining,      \* the channel a join was allowed, before Service.mu
  clearing,     \* the channel DisconnectChannelUsers read in the row
  dirty,        \* channels of the CAPS_DIRTY events under way
  moderation,   \* what a moderator's handler has still to do
  writes        \* what moderators did so far

vars == <<member, deny, cached, reading, muted, room, token, media,
          joining, clearing, dirty, moderation, writes>>

Session == [heard : BOOLEAN, left : 1 .. Life]
Token   == [channel : Channels, heard : BOOLEAN, left : 1 .. Life]

TypeOK ==
  /\ {member, deny, muted} \subseteq BOOLEAN
  /\ {cached, reading} \subseteq BOOLEAN \cup {None}
  /\ {room, joining, clearing} \subseteq Channels \cup {None}
  /\ token \in Token \cup {None}
  /\ media \in [Channels -> Session \cup {None}]
  /\ dirty \subseteq Channels
  /\ moderation \in {"none", "publish", "publish, invalidate", "invalidate"}
  /\ writes \in 0 .. MaxWrites

Init ==
  /\ member = TRUE /\ deny = FALSE /\ muted = FALSE
  /\ cached = None /\ reading = None
  /\ room = None /\ token = None /\ media = [c \in Channels |-> None]
  /\ joining = None /\ clearing = None
  /\ dirty = {} /\ moderation = "none"
  /\ writes = 0

Moderates == writes < MaxWrites /\ writes' = writes + 1

-----------------------------------------------------------------------------
(* The restriction cache: every permission check reads it, and fills it     *)
(* when it is empty, in two steps that a moderator's write can come between *)

Denied == IF cached = None THEN deny ELSE cached
Filled == cached' = Denied

ReadRows ==
  /\ cached = None
  /\ reading' = deny
  /\ UNCHANGED <<member, deny, cached, muted, room, token, media, joining,
                 clearing, dirty, moderation, writes>>

StoreRows ==
  /\ reading # None
  /\ cached' = reading
  /\ reading' = None
  /\ UNCHANGED <<member, deny, muted, room, token, media, joining, clearing,
                 dirty, moderation, writes>>

CacheExpires ==
  /\ cached # None
  /\ cached' = None
  /\ UNCHANGED <<member, deny, reading, muted, room, token, media, joining,
                 clearing, dirty, moderation, writes>>

(* capsFor: is the member still allowed to be where it is?                  *)
CapsFor == member /\ ~Denied

-----------------------------------------------------------------------------
(* What the handlers do to the row and to the SFU.  A command to the SFU    *)
(* may be lost, and its error is dropped.                                   *)

SignedUnmuted(c) == [channel |-> c, heard |-> TRUE, left |-> Life]

Signed(c) == [channel |-> c, heard |-> ~muted, left |-> Life]

Cut(c) == media' \in {media, [media EXCEPT ![c] = None]}

InternalLeave(c) == room' = None /\ Cut(c)

PushCaps(c, speaks) ==
  media' \in {media} \cup
    {[media EXCEPT ![c].heard = speaks] : ok \in {TRUE} \cap {media[c] # None}}

HandleJoinChecks(c) ==
  /\ joining = None
  /\ CapsFor
  /\ joining' = c
  /\ Filled
  /\ UNCHANGED <<member, deny, reading, muted, room, token, media, clearing,
                 dirty, moderation, writes>>

HandleJoinRefused ==                               \* the channel is full
  /\ joining # None
  /\ joining' = None
  /\ UNCHANGED <<member, deny, cached, reading, muted, room, token, media,
                 clearing, dirty, moderation, writes>>

(* The old session goes first.  When no node then takes the member, the row *)
(* of another channel is empty and that of the same channel unchanged.      *)
HandleJoinPlaces(placed) ==
  /\ joining # None
  /\ joining' = None
  /\ IF room = None THEN media' = media ELSE Cut(room)
  /\ room'  = IF placed \/ room = joining THEN joining ELSE None
  /\ token' = IF placed THEN Signed(joining) ELSE token
  /\ UNCHANGED <<member, deny, cached, reading, muted, clearing, dirty,
                 moderation, writes>>

HandleLeave ==
  /\ room # None
  /\ InternalLeave(room)
  /\ UNCHANGED <<member, deny, cached, reading, muted, token, joining,
                 clearing, dirty, moderation, writes>>

(* A forced disconnect ends the session; so does a move, which only tells   *)
(* the client where to join next.                                           *)
HandleAdminDisconnect == HandleLeave
HandleAdminMove(c)    == room # c /\ CapsFor /\ HandleLeave

RefreshHeld ==         \* renewed for the room of the token, not of the row
  /\ token # None
  /\ CapsFor
  /\ Filled
  /\ token' = Signed(token.channel)
  /\ UNCHANGED <<member, deny, reading, muted, room, media, joining,
                 clearing, dirty, moderation, writes>>

(* The client renews: the server looks at the rights anew, and renews for   *)
(* the room of the row or puts the member out.                              *)
HandleRefreshToken ==
  /\ room # None
  /\ Filled
  /\ IF CapsFor
       THEN token' = Signed(room) /\ UNCHANGED <<room, media>>
       ELSE InternalLeave(room) /\ UNCHANGED token
  /\ UNCHANGED <<member, deny, reading, muted, joining, clearing, dirty,
                 moderation, writes>>

HandleServerState(mute) ==
  /\ Moderates
  /\ room # None
  /\ muted' = mute
  /\ Filled
  /\ IF CapsFor THEN PushCaps(room, ~mute) ELSE UNCHANGED media
  /\ UNCHANGED <<member, deny, reading, room, token, joining, clearing,
                 dirty, moderation>>

(* The voice service handles CAPS_DIRTY for one channel; a member who is in *)
(* another one by now is not looked at.                                     *)
RecomputeCapsDirty(c) ==
  /\ c \in dirty
  /\ dirty' = dirty \ {c}
  /\ IF room # c THEN UNCHANGED <<room, media, cached>>
     ELSE /\ Filled
          /\ IF CapsFor THEN PushCaps(c, ~muted) /\ UNCHANGED room
                        ELSE InternalLeave(c)
  /\ UNCHANGED <<member, deny, reading, muted, token, joining, clearing,
                 moderation, writes>>

(* A channel is deleted: the rows are read first, and each is emptied by    *)
(* its id once Service.mu is held, wherever its member is by then.          *)
DisconnectReads ==
  /\ Moderates
  /\ clearing = None /\ room # None
  /\ clearing' = room
  /\ UNCHANGED <<member, deny, cached, reading, muted, room, token, media,
                 joining, dirty, moderation>>

DisconnectWhere ==
  /\ clearing # None
  /\ clearing' = None
  /\ InternalLeave(clearing)
  /\ UNCHANGED <<member, deny, cached, reading, muted, token, joining, dirty,
                 moderation, writes>>

-----------------------------------------------------------------------------
(* Moderators write first, publish CAPS_DIRTY for the room the row is in at *)
(* that moment, and for a restriction empty the cache after that.           *)

RemoveMember ==
  /\ Moderates
  /\ moderation = "none" /\ member
  /\ member' = FALSE
  /\ moderation' = "publish"
  /\ UNCHANGED <<deny, cached, reading, muted, room, token, media, joining,
                 clearing, dirty>>

MemberReturns ==
  /\ Moderates
  /\ ~member
  /\ member' = TRUE
  /\ UNCHANGED <<deny, cached, reading, muted, room, token, media, joining,
                 clearing, dirty, moderation>>

WriteRestriction ==                            \* created, lifted or expired
  /\ Moderates
  /\ moderation = "none"
  /\ deny' = ~deny
  /\ moderation' = "publish, invalidate"
  /\ UNCHANGED <<member, cached, reading, muted, room, token, media, joining,
                 clearing, dirty>>

(* The bus drops the event when the voice service is 1024 events behind.    *)
PublishCapsDirty ==
  /\ moderation \in {"publish", "publish, invalidate"}
  /\ moderation' = IF moderation = "publish" THEN "none" ELSE "invalidate"
  /\ dirty' \in {dirty, dirty \cup ({room} \ {None})}
  /\ UNCHANGED <<member, deny, cached, reading, muted, room, token, media,
                 joining, clearing, writes>>

Invalidate ==
  /\ moderation = "invalidate"
  /\ moderation' = "none"
  /\ cached' = None
  /\ UNCHANGED <<member, deny, reading, muted, room, token, media, joining,
                 clearing, dirty, writes>>

-----------------------------------------------------------------------------
(* Client, SFU and time.                                                    *)

ClientShowsToken ==
  /\ token # None
  /\ media' = [media EXCEPT ![token.channel] =
                 [heard |-> token.heard, left |-> token.left]]
  /\ UNCHANGED <<member, deny, cached, reading, muted, room, token, joining,
                 clearing, dirty, moderation, writes>>

Older(t) == IF t = None \/ t.left = 1 THEN None
            ELSE [t EXCEPT !.left = t.left - 1]

TimePasses ==
  /\ token # None \/ \E c \in Channels : media[c] # None
  /\ token' = IF token = None THEN None ELSE Older(token)
  /\ media' = [c \in Channels |-> IF media[c] = None THEN None
                                  ELSE Older(media[c])]
  /\ UNCHANGED <<member, deny, cached, reading, muted, room, joining,
                 clearing, dirty, moderation, writes>>

(* The server restarts: rows and tokens survive, what was under way is lost.*)
Restart ==
  /\ cached' = None /\ reading' = None /\ joining' = None /\ clearing' = None
  /\ dirty' = {} /\ moderation' = "none"
  /\ UNCHANGED <<member, deny, muted, room, token, media, writes>>

-----------------------------------------------------------------------------
Next ==
  \/ ReadRows \/ StoreRows \/ CacheExpires
  \/ HandleJoinRefused \/ HandleLeave \/ HandleAdminDisconnect
  \/ HandleRefreshToken
  \/ \E c \in Channels :
       HandleJoinChecks(c) \/ HandleAdminMove(c) \/ RecomputeCapsDirty(c)
  \/ \E b \in BOOLEAN : HandleJoinPlaces(b) \/ HandleServerState(b)
  \/ DisconnectReads \/ DisconnectWhere
  \/ RemoveMember \/ MemberReturns \/ WriteRestriction
  \/ PublishCapsDirty \/ Invalidate
  \/ ClientShowsToken \/ TimePasses \/ Restart

(* Time passes, for tokens and for the cache, and a goroutine that has read *)
(* its rows stores them.  Nothing is asked of the client or of the bus.     *)
Fairness == WF_vars(TimePasses) /\ WF_vars(CacheExpires) /\ WF_vars(StoreRows)

Spec == Init /\ [][Next]_vars /\ Fairness

-----------------------------------------------------------------------------
(* A session the member is not entitled to, or that is not where the row    *)
(* says, ends or becomes rightful: although the event that should put the   *)
(* member out may be lost, name a room left since, or be handled before a   *)
(* join that was checked earlier; although the cache may hold the old       *)
(* answer, a deletion empty a row read earlier, a command be lost.          *)
Entitled(c) == room = c /\ member /\ ~deny

OustedInTheEnd ==
  \A c \in Channels :
    (media[c] # None /\ ~Entitled(c)) ~> (media[c] = None \/ Entitled(c))

(* A member muted by a moderator is not heard for ever, although the caps   *)
(* may be pushed before the client has connected, or the push be lost.      *)
Heard(c) == media[c] # None /\ media[c].heard

SilencedInTheEnd ==
  \A c \in Channels : (muted /\ Heard(c)) ~> (~muted \/ ~Heard(c))

RulingsPrevail == OustedInTheEnd /\ SilencedInTheEnd
=============================================================================
