------------------------------- MODULE MCGuild -------------------------------
(* What a guild and its users have beside their messages: sticker packs    *)
(* and their pictures, roles and the undoing of their changes,             *)
(* restrictions, presence, a private group, cosmetics, and public          *)
(* pictures.  They share no state, and a behaviour is one of them.  Two    *)
(* and Three are names without a meaning: handlers, items, pictures,       *)
(* files, entries, members and users.                                      *)
EXTENDS Naturals, FiniteSets, TLC

CONSTANTS
  Two, None, Users, MaxPacks, Three, MaxItems, MaxRefs, MaxPerms, Records,
  CacheTTL, MinDuration, MaxTime, MaxWrites, Sessions, Statuses, Activities,
  MaxActivities, MaxUpdates, MaxMembers, MaxHandlers, Lost, Owners,
  BannerLimit

Names == {"active", "hidden", "draft", "published", "archived"}

VARIABLES
  part,
  pack, scope, others, over, browse, guildBan, library, packsRequest,
  withdrawn, packsCrossed, packsLate,
  item, cover, gone, picturesRefs, picturesRequest, picturesCrossed, again,
  role, has, entry, ranksRequest, ranksTold, deleted, ranksCrossed, stale,
  now, row, cache, loading, denialsJob, denialsTold, changed, denialsCrossed,
  undoable, writes,
  sessions, custom, statusLate, showTo, friend, statusJob, watcher,
  statusTold, statusCrossed, skipped, hid, updates,
  channel, groupRows, friends, name, groupShown, groupJob, overlapped,
  groupBegun,
  category, status, assets, preview, closetRefs, links, closetActive, worn,
  closetSeen, closetRequest, closetBegun, twins, tightened, offers, choice,
  mixed, broken, sold, torn, overlap, closetUnsaid,
  owner, there, column, publicShown, publicRows, disk, used, publicRequest,
  publicBegun, lost, back, publicUnsaid, publicCrossed

Packs == INSTANCE StickerPacks
       WITH Requests <- Two, Author <- None, request <- packsRequest,
            crossed <- packsCrossed, late <- packsLate
Pictured == INSTANCE StickerAssets
       WITH Requests <- Two, Items <- Three, Pictures <- Two,
            refs <- picturesRefs, request <- picturesRequest,
            crossed <- picturesCrossed
Ranks == INSTANCE Roles
       WITH Requests <- Two, Members <- Users, Entries <- Three,
            request <- ranksRequest, told <- ranksTold,
            crossed <- ranksCrossed
Denials == INSTANCE Restrictions
       WITH Requests <- Two, job <- denialsJob, told <- denialsTold,
            crossed <- denialsCrossed
Status == INSTANCE Presence
       WITH Requests <- Two, late <- statusLate, job <- statusJob,
            told <- statusTold, crossed <- statusCrossed
Group == INSTANCE GroupChannel
       WITH Users <- Three, Requests <- Two, rows <- groupRows,
            shown <- groupShown, job <- groupJob, begun <- groupBegun
Closet == INSTANCE Wardrobe
       WITH Requests <- Two, Items <- Two, Pictures <- Two, MaxHandlers <- 3,
            refs <- closetRefs, active <- closetActive, seen <- closetSeen,
            request <- closetRequest, begun <- closetBegun,
            unsaid <- closetUnsaid
Public == INSTANCE PublicAssets
       WITH Requests <- Two, Files <- Three, shown <- publicShown,
            rows <- publicRows, request <- publicRequest,
            begun <- publicBegun, unsaid <- publicUnsaid,
            crossed <- publicCrossed

packsVars == <<pack, scope, others, over, browse, guildBan, library,
               packsRequest, withdrawn, packsCrossed, packsLate>>
picturesVars == <<item, cover, gone, picturesRefs, picturesRequest,
                  picturesCrossed, again>>
ranksVars == <<role, has, entry, ranksRequest, ranksTold, deleted,
               ranksCrossed, stale>>
denialsVars == <<now, row, cache, loading, denialsJob, denialsTold, changed,
                 denialsCrossed, undoable, writes>>
statusVars == <<sessions, custom, statusLate, showTo, friend, statusJob,
                watcher, statusTold, statusCrossed, skipped, hid, updates>>
groupVars == <<channel, groupRows, friends, name, groupShown, groupJob,
               overlapped, groupBegun>>
closetVars == <<category, status, assets, preview, closetRefs, links,
                closetActive, worn, closetSeen, closetRequest, closetBegun,
                twins, tightened, offers, choice, mixed, broken, sold, torn, overlap,
                closetUnsaid>>
publicVars == <<owner, there, column, publicShown, publicRows, disk, used,
                publicRequest, publicBegun, lost, back, publicUnsaid,
                publicCrossed>>

Init ==
  /\ part \in {"packs", "pictures", "ranks", "denials", "status", "group",
     "closet", "public"}
  /\ Packs!Init /\ Pictured!Init /\ Ranks!Init /\ Denials!Init /\ Status!Init
     /\ Group!Init /\ Closet!Init /\ Public!Init
  /\ (part # "closet" =>
       status = [i \in Two |-> "draft"] /\ closetActive = {})
  /\ (part # "public" => owner = "user")
  /\ (part # "packs" => scope = "account")
  /\ (part # "status" => watcher = "self")

Next ==
  \/ /\ part = "packs" /\ Packs!Next
     /\ UNCHANGED <<part, picturesVars, ranksVars, denialsVars, statusVars,
                  groupVars, closetVars, publicVars>>
  \/ /\ part = "pictures" /\ Pictured!Next
     /\ UNCHANGED <<part, packsVars, ranksVars, denialsVars, statusVars,
                  groupVars, closetVars, publicVars>>
  \/ /\ part = "ranks" /\ Ranks!Next
     /\ UNCHANGED <<part, packsVars, picturesVars, denialsVars, statusVars,
                  groupVars, closetVars, publicVars>>
  \/ /\ part = "denials" /\ Denials!Next
     /\ UNCHANGED <<part, packsVars, picturesVars, ranksVars, statusVars,
                  groupVars, closetVars, publicVars>>
  \/ /\ part = "status" /\ Status!Next
     /\ UNCHANGED <<part, packsVars, picturesVars, ranksVars, denialsVars,
                  groupVars, closetVars, publicVars>>
  \/ /\ part = "group" /\ Group!Next
     /\ UNCHANGED <<part, packsVars, picturesVars, ranksVars, denialsVars,
                  statusVars, closetVars, publicVars>>
  \/ /\ part = "closet" /\ Closet!Next
     /\ UNCHANGED <<part, packsVars, picturesVars, ranksVars, denialsVars,
                  statusVars, groupVars, publicVars>>
  \/ /\ part = "public" /\ Public!Next
     /\ UNCHANGED <<part, packsVars, picturesVars, ranksVars, denialsVars,
                  statusVars, groupVars, closetVars>>

vars == <<part, packsVars, picturesVars, ranksVars, denialsVars, statusVars,
     groupVars, closetVars, publicVars>>

Spec == Init /\ [][Next]_vars

PublicLists == [Three -> Nat \cup {None}]
PublicSteps ==
  Public!BannerSteps \cup
  {"files", "upload", "write", "clean", "read", "tell", "clear", "cleared", "style",
   "undo"}
PublicSlot ==
  [step : PublicSteps, kind : Public!Kinds \cup {None}, file : Three \cup {None},
   was : [Public!Kinds -> Three \cup {None}], list : PublicLists \cup {<<>>}]

DenialsJobs ==
  [does : {"create", "patch", "lift", "ban", "sweep"}, on : SUBSET Records,
   tells : Records \X {"create", "update", "lift"} \cup {None},
   was : Denials!Row \cup {None}]

RankRows  == Ranks!Values \X Ranks!Values
RankView  == [row : RankRows \cup {None}, has : SUBSET {"role", "nick", "style"}]
RankKinds == Ranks!OfMember \cup {"create", "update", "reorder", "delete"}
RankSlot ==
  [step : {"write", "look", "tell", "undo", "record"}, entry : Three \cup {None},
   kind : RankKinds, was : RankView, what : SUBSET Users, copy : RankView]
RankEntry ==
  [kind : RankKinds, was : RankView, what : SUBSET Users, undos : Nat]

StatusSession == [status : Statuses, acts : SUBSET Activities]
StatusInfo ==
  [status : Statuses \cup {"offline"}, custom : {None, "brief"}, acts : SUBSET Activities]
StatusJob  == [shows : StatusInfo, alone : BOOLEAN]

PackRow  == [status : {"none", "active", "soft", "expired", "banned", "purged"}, soft : BOOLEAN]
PackSlot ==
  [step : {"create", "soft", "restore", "ban", "unban", "purge", "install"},
   user : Users \cup {None}, seen : PackRow, over : BOOLEAN]

PictureItem == [asset : Two, purged : BOOLEAN]
PictureSlot ==
  [step : {"add", "drop", "cover", "clear", "purge"}, of : Two \cup Three \cup {None},
   was : Two \cup {None}]

StatusSlot == [step : {"create", "patch"}, of : Two, at : {"draft", "published", "archived"},
               was : {None}]
UploadSlot == [step : {"upload"}, of : Two, at : Closet!Slots,
               was : [picture : Two, row : BOOLEAN]]
EditSlot   == [step : {"edit", "fill"}, of : SUBSET Two, at : {None}, was : {None}]
BuySlot    == [step : {"buy"}, of : SUBSET Two, at : {None}, was : BOOLEAN]
WearSlot   == [step : {"wear"}, of : Two \cup {None}, at : Closet!Places, was : {None}]
TellSlot   == [step : {"wrote"}, of : {None}, at : {None}, was : {None}]
BuiltSlot  == [step : {"built"}, of : [Closet!Places -> Two \cup {None}], at : {None},
               was : {None}]

GroupKinds == {"create", "invite", "leave", "close", "tell", "rename"}
GroupView  == [with : SUBSET Three, name : Nat]
GroupJob   ==
  [does : GroupKinds, on : Three \cup {None}, to : SUBSET Three,
   built : Three \X GroupView \cup {None}]

ASSUME NoneIsNoValue ==
  /\ None \notin Two /\ None \notin {1, 2} /\ None \notin Names
  /\ None \notin Three /\ None \notin Nat
  /\ None \notin {"icon", "banner", "list"} /\ None \notin PublicSlot
  /\ None \notin RankRows /\ None \notin RankSlot /\ None \notin RankEntry
  /\ None \notin Denials!Row /\ None \notin DenialsJobs /\ None \notin StatusJob
  /\ None \notin Three \X GroupView /\ None \notin GroupJob
  /\ None \notin PackSlot /\ None \notin PictureItem /\ None \notin PictureSlot
  /\ None \notin StatusSlot /\ None \notin UploadSlot /\ None \notin EditSlot
  /\ None \notin BuySlot /\ None \notin WearSlot /\ None \notin TellSlot /\ None \notin BuiltSlot
  /\ None \notin Records \X {"create", "update", "lift"}

ASSUME BoundsAreNumbers ==
  /\ BannerLimit \in Nat \ {0} /\ MaxPacks \in Nat \ {0} /\ MaxItems \in Nat \ {0}
  /\ MaxTime \in Nat /\ MaxPerms \in Nat /\ MaxMembers \in Nat

ASSUME LostIsNoPicture == Lost \notin Two /\ Lost # None

ASSUME StatusesAreRanked == Statuses \subseteq DOMAIN Status!StatusRank

ASSUME FiniteNames == IsFiniteSet(Two) /\ IsFiniteSet(Three)

StickersAreTrue == Packs!PacksAreTrue /\ Pictured!AssetsCounted
AssetsAreTrue == Public!AssetsAreTrue
RightsAreTrue == Ranks!RolesAreTrue /\ Denials!RestrictionsAreTrue
ShownTruly == Status!PresenceIsTrue /\ Group!GroupIsTrue
CosmeticsAreTrue == Closet!CosmeticsAreTrue

Symmetry ==
  Permutations(Two)
  \cup Permutations(Three)
==============================================================================
