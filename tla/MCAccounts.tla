----------------------------- MODULE MCAccounts -----------------------------
(* Who may come in, and what he has: the members of a guild, tokens and    *)
(* passwords, registration and administrators, the grants of agents, the   *)
(* points, two users among themselves, and a bot.  They share no state,    *)
(* and a behaviour is one of them.                                         *)
EXTENDS Integers, FiniteSets, TLC

CONSTANTS
  Requests, Users, MaxUses, MaxIds, GuildHandlers, None, MaxTokens, MaxPasswords,
  Registrants, RegistrationUses, Scopes, AdminScopes, MaxAgentTokens,
  MaxLedger, MaxCount, Cap, Two, Rate, Burst, MaxTime, MaxHandlers

\* What a handler under way remembers, part by part, and an authorization code.
GuildSlot ==
  [step : {"join", "install", "add", "remove", "delete", "removed", "ban",
           "ban removes", "ban removed", "erase", "transfer", "undo"},
   user : Users \cup {None}, id : Nat]
AccessSlot ==
  [step : {"issue", "rotate", "user", "sweep"}, token : Nat, chain : Nat,
   pw : Nat, swept : BOOLEAN]
PlatformSlot ==
  [step : {"create", "disable", "demote", "promote"}, user : Registrants,
   stale : BOOLEAN]
AgentSlot ==
  [step : {"approve", "consume", "device", "code", "rotate", "refresh"},
   user : Users, scope : SUBSET Scopes, token : Nat]
CodeSlot == [user : Users, scope : SUBSET Scopes, used : BOOLEAN]
RobotSlot ==
  [step : {"token", "install", "uninstall", "kicks", "kick", "delete", "resolve",
           "call", "join"},
   of : Two \cup {None}, late : BOOLEAN]
ShopSlot ==
  [step : {"settle", "settling", "admin", "granting", "buy", "buying", "give"},
   delta : Int, seen : Int, had : {None, "expired", "limited", "forever"}]
FriendSlot ==
  [step : {"ask", "promote", "pending", "friend", "blocked", "nickname", "open", "send"},
   user : Two, row : Two, kept : BOOLEAN, flag : BOOLEAN]

\* No value is None: in the code it is a missing row, a null or a free slot.
ASSUME NoneIsNoValue ==
  /\ None \notin Requests /\ None \notin Users /\ None \notin Two
  /\ None \notin {"pending", "friend", "blocked"}
  /\ None \notin {"expired", "limited", "forever"}
  /\ None \notin {"live", "revoked"}
  /\ None \notin GuildSlot /\ None \notin AccessSlot /\ None \notin PlatformSlot
  /\ None \notin AgentSlot /\ None \notin CodeSlot /\ None \notin RobotSlot
  /\ None \notin ShopSlot /\ None \notin FriendSlot

\* A conversation is one of two users.
ASSUME TwoAreTwo == \E u, v \in Two : u # v /\ Two = {u, v}

ASSUME BoundsAreNumbers ==
  /\ MaxUses \in Nat /\ RegistrationUses \in Nat /\ MaxTokens \in Nat
  /\ Rate \in Nat /\ Burst \in Nat /\ MaxTime \in Nat /\ Cap \in Nat

VARIABLES
  part,
  guildInvite, guildUses, ids, guildMember, banned, log, owner, guildRequest,
  shown, guildCrossed, met, reordered, guildKind, installed,
  guildBegun,
  password, tokensDisabled, issued, chain, tokensLive, tokensRequest, knows,
  dead, tokensLate, twins,
  users, platformAdmins, platformDisabled, platformInvite, platformUses,
  platformRequest, invited, founded, platformCrossed,
  device, expired, code, agentsAdmins, tokens, agentsLive, agentsRequest,
  approvals, denied, overwritten,
  shopBucket, pending, row, over, granted, total, balance, ledger, owned,
  paid, lock, shopRequest, shopLate, shopCrossed,
  rows, friendsRequest, dms, hidden, asked, wrote, revived,
  bot, home, token, robotsMember, voice, dirty, robotsBucket, filled, now,
  served, robotsRequest, begun, ghost, unseen, wrongly

Guild == INSTANCE Membership
       WITH invite <- guildInvite, uses <- guildUses, member <- guildMember,
            request <- guildRequest, crossed <- guildCrossed, kind <- guildKind,
            begun <- guildBegun, MaxHandlers <- GuildHandlers
Access == INSTANCE Accounts
       WITH disabled <- tokensDisabled, live <- tokensLive,
            request <- tokensRequest, late <- tokensLate
Platform == INSTANCE Registration
       WITH Users <- Registrants, MaxUses <- RegistrationUses,
            admins <- platformAdmins, disabled <- platformDisabled,
            invite <- platformInvite, uses <- platformUses,
            request <- platformRequest, crossed <- platformCrossed
Agents == INSTANCE OAuth
       WITH MaxTokens <- MaxAgentTokens, admins <- agentsAdmins,
            live <- agentsLive, request <- agentsRequest
Shop == INSTANCE Points
       WITH bucket <- shopBucket, request <- shopRequest, late <- shopLate,
            crossed <- shopCrossed
Friends == INSTANCE Social
       WITH Users <- Two, request <- friendsRequest
Robots == INSTANCE Bots
       WITH Guilds <- Two, Tokens <- Two, member <- robotsMember,
            bucket <- robotsBucket, request <- robotsRequest

guildVars == <<guildInvite, guildUses, ids, guildMember, banned, log, owner,
               guildRequest, shown, guildCrossed, met, reordered,
               guildKind, installed, guildBegun>>
tokensVars == <<password, tokensDisabled, issued, chain, tokensLive,
                tokensRequest, knows, dead, tokensLate, twins>>
platformVars == <<users, platformAdmins, platformDisabled, platformInvite,
                  platformUses, platformRequest, invited, founded,
                  platformCrossed>>
agentsVars == <<device, expired, code, agentsAdmins, tokens, agentsLive,
                agentsRequest, approvals, denied, overwritten>>
shopVars == <<shopBucket, pending, row, over, granted, total, balance, ledger,
              owned, paid, lock, shopRequest, shopLate, shopCrossed>>
friendsVars == <<rows, friendsRequest, dms, hidden, asked, wrote, revived>>
robotsVars == <<bot, home, token, robotsMember, voice, dirty, robotsBucket,
                filled, now, served, robotsRequest, begun, ghost, unseen,
                wrongly>>

Init ==
  /\ part \in {"guild", "tokens", "platform", "agents", "shop", "friends",
     "robots"}
  /\ Guild!Init /\ Access!Init /\ Platform!Init /\ Agents!Init /\ Shop!Init /\
     Friends!Init /\ Robots!Init
  /\ (part # "agents" => agentsAdmins = {})
  /\ (part # "guild" => guildKind = [u \in Users |-> "person"])

Next ==
  \/ /\ part = "guild" /\ Guild!Next
     /\ UNCHANGED <<part, tokensVars, platformVars, agentsVars, shopVars,
                  friendsVars, robotsVars>>
  \/ /\ part = "tokens" /\ Access!Next
     /\ UNCHANGED <<part, guildVars, platformVars, agentsVars, shopVars,
                  friendsVars, robotsVars>>
  \/ /\ part = "platform" /\ Platform!Next
     /\ UNCHANGED <<part, guildVars, tokensVars, agentsVars, shopVars,
                  friendsVars, robotsVars>>
  \/ /\ part = "agents" /\ Agents!Next
     /\ UNCHANGED <<part, guildVars, tokensVars, platformVars, shopVars,
                  friendsVars, robotsVars>>
  \/ /\ part = "shop" /\ Shop!Next
     /\ UNCHANGED <<part, guildVars, tokensVars, platformVars, agentsVars,
                  friendsVars, robotsVars>>
  \/ /\ part = "friends" /\ Friends!Next
     /\ UNCHANGED <<part, guildVars, tokensVars, platformVars, agentsVars,
                  shopVars, robotsVars>>
  \/ /\ part = "robots" /\ Robots!Next
     /\ UNCHANGED <<part, guildVars, tokensVars, platformVars, agentsVars,
                  shopVars, friendsVars>>

vars == <<part, guildVars, tokensVars, platformVars, agentsVars, shopVars,
     friendsVars, robotsVars>>

Spec == Init /\ [][Next]_vars

MembersAreTrue == Guild!MembersAreTrue
RevokedStaysOut == Access!RevokedStaysOut
PlatformIsHeld == Platform!PlatformIsHeld
MachinesAreHeld == Agents!AgreedOnly /\ Robots!BotsAreTrue
PointsAddUp == Shop!PointsAddUp
SocialIsTrue == Friends!SocialIsTrue

Symmetry ==
  Permutations(Requests)
  \cup Permutations(Users)
==============================================================================
