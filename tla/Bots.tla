-------------------------------- MODULE Bots --------------------------------
(***************************************************************************)
(* A bot (botapi): its tokens, the guilds it is installed in, the voice    *)
(* channel it sits in, and the calls it makes.  A handler looks the bot up *)
(* first and writes later; the voice module learns of a lost membership by *)
(* CAPS_DIRTY and looks for itself. Nobody else takes a bot out of a guild *)
(* here and a removal goes by guild; that the code deletes by the row it   *)
(* read, which a second install has replaced, is in Membership.            *)
(***************************************************************************)
EXTENDS Naturals

CONSTANTS
  Requests, Guilds, Tokens, None,
  Rate, Burst,   \* calls a tick and at once
  MaxTime,       \* bound of the model: ticks
  MaxHandlers    \* bound of the model: handlers and calls that start

VARIABLES
  bot, home,     \* new, there, or deleted; its guild, None for all
  token,         \* token -> None, live, revoked, expired
  member,        \* guilds it is a member of
  voice,         \* guild of the channel it sits in, or None
  dirty,         \* guilds with CAPS_DIRTY on the bus
  bucket, filled, now,  \* the limiter: what is left, when it was filled; the clock
  served,        \* history: tick -> calls let through at that tick or later
  request,       \* request -> [step, of, late], or None
  begun,
  \* history:
  ghost,         \* it was installed by a handler that saw it before its deletion
  unseen,        \* it lost a guild while it entered, or after voice had looked
  wrongly        \* a call of a bot that was deleted before was let through

data  == <<bot, home, token, member>>
room  == <<voice, dirty, unseen>>
calls == <<bucket, filled, now, served, wrongly>>
vars  == <<data, room, calls, request, begun, ghost>>

Init ==
  /\ bot = "new" /\ home = None /\ token = [t \in Tokens |-> None] /\ member = {}
  /\ voice = None /\ dirty = {} /\ unseen = FALSE
  /\ bucket = Burst /\ filled = 0 /\ now = 0 /\ served = [t \in 0..MaxTime |-> 0] /\ wrongly = FALSE
  /\ request = [r \in Requests |-> None] /\ begun = 0 /\ ghost = FALSE

Exists == bot = "there"
Doing(r, step) == request[r] # None /\ request[r].step = step
Slot(step, of, late) == [step |-> step, of |-> of, late |-> late]
Begins(r, step, of, late) ==
  /\ request[r] = None /\ begun < MaxHandlers /\ begun' = begun + 1
  /\ request' = [request EXCEPT ![r] = Slot(step, of, late)]
Goes(r, step) == request' = [request EXCEPT ![r].step = step] /\ UNCHANGED begun
Ends(r) == request' = [request EXCEPT ![r] = None] /\ UNCHANGED begun

-----------------------------------------------------------------------------
(* The bot and its tokens. *)

Created(g, guilds) ==
  /\ bot = "new" /\ bot' = "there" /\ home' = g /\ member' = guilds
  /\ UNCHANGED <<token, room, calls, request, begun, ghost>>

CreateBot         == Created(None, {})
CreateGuildBot(g) == Created(g, {g})

CreateToken(r, t) ==
  /\ Exists /\ token[t] = None /\ Begins(r, "token", t, FALSE)
  /\ UNCHANGED <<data, room, calls, ghost>>

\* Whether or not the bot is still there.
TokenWritten(r) ==
  /\ Doing(r, "token") /\ Ends(r)
  /\ token' = [token EXCEPT ![request[r].of] = "live"]
  /\ UNCHANGED <<bot, home, member, room, calls, ghost>>

RevokeToken(t) ==
  /\ Exists /\ token[t] \in {"live", "expired"}
  /\ token' = [token EXCEPT ![t] = "revoked"]
  /\ UNCHANGED <<bot, home, member, room, calls, request, begun, ghost>>

\* By a manager of a guild that has it, whichever its own guild is.
RevokeGuildBotToken(g, t) == g \in member /\ RevokeToken(t)

Expires(t) ==
  /\ token[t] = "live" /\ token' = [token EXCEPT ![t] = "expired"]
  /\ UNCHANGED <<bot, home, member, room, calls, request, begun, ghost>>

-----------------------------------------------------------------------------
(* Guilds. *)

MayInstall(g) == Exists /\ (home = None \/ home = g)

InstallBot(r, g) ==
  /\ MayInstall(g) /\ Begins(r, "install", g, FALSE)
  /\ UNCHANGED <<data, room, calls, ghost>>

Installed(r) ==
  /\ Doing(r, "install") /\ Ends(r)
  /\ member' = member \cup {request[r].of}
  /\ ghost' = (ghost \/ ~ Exists)
  /\ UNCHANGED <<bot, home, token, room, calls>>

KickBotVoiceSessions ==
  /\ dirty' = IF voice = None THEN dirty ELSE dirty \cup {voice}
  /\ UNCHANGED <<data, voice, calls, ghost>>

UninstallBot(r, g) ==
  /\ Exists /\ g \in member /\ home # g /\ Begins(r, "uninstall", g, FALSE)
  /\ UNCHANGED <<data, room, calls, ghost>>

\* A bot of this guild alone; any other is uninstalled.
DeleteGuildBot(r, g) ==
  /\ Exists /\ g \in member /\ home = g /\ Begins(r, "kick", g, FALSE)
  /\ UNCHANGED <<data, room, calls, ghost>>

Entering(gs) == \E r \in Requests : Doing(r, "join") /\ request[r].of \in gs

Uninstalled(r) ==
  /\ Doing(r, "uninstall") /\ Goes(r, "kicks")
  /\ member' = member \ {request[r].of}
  /\ unseen' = (unseen \/ Entering({request[r].of}))
  /\ UNCHANGED <<bot, home, token, voice, dirty, calls, ghost>>

Kicked(r) ==
  /\ Doing(r, "kicks") /\ Ends(r)
  /\ KickBotVoiceSessions /\ UNCHANGED unseen

DeleteBot(r) ==
  /\ Exists /\ Begins(r, "kick", None, FALSE)
  /\ UNCHANGED <<data, room, calls, ghost>>

\* Before the transaction, so that voice may still find the membership.
KickedBefore(r) ==
  /\ Doing(r, "kick") /\ Goes(r, "delete")
  /\ KickBotVoiceSessions /\ UNCHANGED unseen

Deleted(r) ==
  LET lost == IF request[r].of = None THEN member ELSE {request[r].of} IN
  /\ Doing(r, "delete") /\ Ends(r)
  /\ token' = [t \in Tokens |-> IF token[t] = None THEN None ELSE "revoked"]
  /\ member' = member \ lost
  /\ bot' = "deleted"
  /\ unseen' = (unseen \/ Entering(lost) \/ voice \in lost \ dirty)
  /\ UNCHANGED <<home, voice, dirty, calls, ghost>>

-----------------------------------------------------------------------------
(* Calls of the bot. *)

\* The limiter adds what the time since the last call has earned.
Refilled == IF bucket + (now - filled) * Rate > Burst THEN Burst
            ELSE bucket + (now - filled) * Rate

Usable(t) == token[t] = "live"

\* The call comes in with a live token; late tells whether the bot is gone.
ResolveToken(r, t) ==
  /\ Usable(t) /\ Begins(r, "resolve", t, bot = "deleted")
  /\ UNCHANGED <<data, room, calls, ghost>>

\* Mutant: the bot of the token is not looked up.
TokenIsEnough == TRUE

BotFound == Exists

Allow(r) ==
  /\ Doing(r, "resolve")
  /\ IF ~ BotFound THEN Ends(r) /\ UNCHANGED <<bucket, filled, served, wrongly>>
     ELSE /\ filled' = now
          /\ IF Refilled < 1
             THEN Ends(r) /\ bucket' = Refilled /\ UNCHANGED <<served, wrongly>>
             ELSE /\ bucket' = Refilled - 1
                  /\ served' = [t \in 0..MaxTime |-> IF t <= now THEN served[t] + 1 ELSE served[t]]
                  /\ wrongly' = (wrongly \/ request[r].late)
                  /\ Goes(r, "call")
  /\ UNCHANGED <<data, room, now, ghost>>

Tick ==
  /\ now < MaxTime /\ now' = now + 1
  /\ UNCHANGED <<data, room, bucket, filled, served, wrongly, request, begun, ghost>>

\* One call asks to join a channel of a guild, another does something else.
JoinVoice(r, g) ==
  /\ Doing(r, "call") /\ g \in member /\ voice = None
  /\ request' = [request EXCEPT ![r] = Slot("join", g, FALSE)]
  /\ UNCHANGED <<data, room, calls, begun, ghost>>

Joined(r) ==
  /\ Doing(r, "join") /\ Ends(r)
  /\ voice' = request[r].of
  /\ UNCHANGED <<data, dirty, unseen, calls, ghost>>

Answered(r) == Doing(r, "call") /\ Ends(r) /\ UNCHANGED <<data, room, calls, ghost>>

\* recomputeCapsDirty: out, unless it is still a member.
Recompute(g) ==
  /\ g \in dirty /\ dirty' = dirty \ {g}
  /\ voice' = IF voice = g /\ g \notin member THEN None ELSE voice
  /\ UNCHANGED <<data, unseen, calls, request, begun, ghost>>

LeaveVoice ==
  /\ voice # None /\ voice' = None
  /\ UNCHANGED <<data, dirty, unseen, calls, request, begun, ghost>>

Next ==
  \/ CreateBot \/ (\E g \in Guilds : CreateGuildBot(g)) \/ Tick \/ LeaveVoice
  \/ \E t \in Tokens : RevokeToken(t) \/ Expires(t)
  \/ \E g \in Guilds : Recompute(g) \/ \E t \in Tokens : RevokeGuildBotToken(g, t)
  \/ \E r \in Requests :
       \/ \E t \in Tokens : CreateToken(r, t) \/ ResolveToken(r, t)
       \/ \E g \in Guilds : 
            \/ InstallBot(r, g) \/ UninstallBot(r, g) \/ DeleteGuildBot(r, g) \/ JoinVoice(r, g)
       \/ TokenWritten(r) \/ Installed(r) \/ Uninstalled(r) \/ Kicked(r)
       \/ DeleteBot(r) \/ KickedBefore(r) \/ Deleted(r)
       \/ Allow(r) \/ Joined(r) \/ Answered(r)

Spec == Init /\ [][Next]_vars

-----------------------------------------------------------------------------
Kicking == \E r \in Requests : Doing(r, "kicks")

(* A deleted bot has no guild and no call of its own comes through,        *)
(* whatever tokens are left, unless an installation was under way; a bot   *)
(* of one guild is in no other; one that lost its guild is out of the      *)
(* channel, or about to be, unless it was entering or voice had looked too *)
(* early; and since any moment no more calls have come through than the    *)
(* limiter grants for the time that has passed.                            *)
BotsAreTrue ==
  /\ bot = "deleted" => ghost \/ member = {}
  /\ ~ wrongly
  /\ Exists => home = None \/ member \subseteq {home}
  /\ voice = None \/ voice \in member \cup dirty \/ Kicking \/ unseen
  /\ \A t \in 0..now : served[t] <= Burst + Rate * (now - t)
=============================================================================
