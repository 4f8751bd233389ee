------------------------------ MODULE MCContent ------------------------------
(* What a channel holds and who is shown it: messages with their texts and *)
(* index, attachments, the audience of a restricted message, what a user   *)
(* has read, the channels themselves, and the stage of a voice channel.    *)
(* They share no state, and a behaviour is one of them.                    *)
EXTENDS Naturals, Sequences, FiniteSets, TLC

CONSTANTS
  Requests, Workers, Backfill, QueueSize, MaxTexts, None, Uploads, Users,
  Author, Managers, Reactor, MaxEdits, MaxMessages, MaxPasswords, Listeners,
  Restricted, CapacityWindow, HardMaxSpeakers, MaxQueueLength, MaxHandlers

VARIABLES
  part,
  textsState, bot, streaming, textsText, edits, texts, textsRequest,
  textsQueue, reading, indexed, textsUntrue,
  attachment, message, object, upload, old, listed, filesCrossed,
  policy, holders, sightState, to, visible, sightText, sightRequest, mark,
  copy, marks, sightCrossed, moved, overlooked,
  ids, messages, published, own, mentions, readsRequest, last, count,
  readsUntrue,
  category, row, hidden, password, unlocked, entry, roomsRequest, refetch,
  roomsShown, roomsUntrue, dangling, relocked,
  room, online, dirty, mode, maxSpeakers, seats, stageQueue, muted, sharing,
  marked, scan, patching,
  pack, made, gone, disk, used, member, role, chosen, config, allowed, cool,
  soundsShown, told, playing, soundsRequest, begun, back, lost, revived,
  unsaid, unheard

Texts == INSTANCE Messages
       WITH state <- textsState, text <- textsText, request <- textsRequest,
            queue <- textsQueue, untrue <- textsUntrue
Attached == INSTANCE Attachments
       WITH crossed <- filesCrossed
Sight == INSTANCE Audience
       WITH state <- sightState, text <- sightText, request <- sightRequest,
            crossed <- sightCrossed
Reads == INSTANCE ReadStates
       WITH request <- readsRequest, untrue <- readsUntrue
Rooms == INSTANCE Channels
       WITH request <- roomsRequest, shown <- roomsShown,
            untrue <- roomsUntrue
OnStage == INSTANCE Stage
       WITH Users <- Listeners, queue <- stageQueue
Sounds == INSTANCE VoicePacks
       WITH Files <- Uploads, shown <- soundsShown, request <- soundsRequest

textsVars == <<textsState, bot, streaming, textsText, edits, texts,
               textsRequest, textsQueue, reading, indexed, textsUntrue>>
filesVars == <<attachment, message, object, upload, old, listed, filesCrossed>>
sightVars == <<policy, holders, sightState, to, visible, sightText,
               sightRequest, mark, copy, marks, sightCrossed, moved,
               overlooked>>
readsVars == <<ids, messages, published, own, mentions, readsRequest, last,
               count, readsUntrue>>
roomsVars == <<category, row, hidden, password, unlocked, entry, roomsRequest,
               refetch, roomsShown, roomsUntrue, dangling, relocked>>
stageVars == <<room, online, dirty, mode, maxSpeakers, seats, stageQueue,
               muted, sharing, marked, scan, patching>>
soundsVars == <<pack, made, gone, disk, used, member, role, chosen, config,
                allowed, cool, soundsShown, told, playing, soundsRequest,
                begun, back, lost, revived, unsaid, unheard>>

Init ==
  /\ part \in {"texts", "files", "sight", "reads", "rooms", "stage", "sounds"}
  /\ Texts!Init /\ Attached!Init /\ Sight!Init /\ Reads!Init /\ Rooms!Init /\
     OnStage!Init /\ Sounds!Init
  /\ (part # "texts" => ~ bot)
  /\ (part # "sight" => policy = "open" /\ holders = {})
  /\ (part # "stage" => maxSpeakers = 1)

Next ==
  \/ /\ part = "texts" /\ Texts!Next
     /\ UNCHANGED <<part, filesVars, sightVars, readsVars, roomsVars,
                  stageVars, soundsVars>>
  \/ /\ part = "files" /\ Attached!Next
     /\ UNCHANGED <<part, textsVars, sightVars, readsVars, roomsVars,
                  stageVars, soundsVars>>
  \/ /\ part = "sight" /\ Sight!Next
     /\ UNCHANGED <<part, textsVars, filesVars, readsVars, roomsVars,
                  stageVars, soundsVars>>
  \/ /\ part = "reads" /\ Reads!Next
     /\ UNCHANGED <<part, textsVars, filesVars, sightVars, roomsVars,
                  stageVars, soundsVars>>
  \/ /\ part = "rooms" /\ Rooms!Next
     /\ UNCHANGED <<part, textsVars, filesVars, sightVars, readsVars,
                  stageVars, soundsVars>>
  \/ /\ part = "stage" /\ OnStage!Next
     /\ UNCHANGED <<part, textsVars, filesVars, sightVars, readsVars,
                  roomsVars, soundsVars>>
  \/ /\ part = "sounds" /\ Sounds!Next
     /\ UNCHANGED <<part, textsVars, filesVars, sightVars, readsVars,
                  roomsVars, stageVars>>

vars == <<part, textsVars, filesVars, sightVars, readsVars, roomsVars,
     stageVars, soundsVars>>

Spec == Init /\ [][Next]_vars

TextsAreTrue == Texts!TextsKept /\ Texts!IndexFollowsText
FilesServed == Attached!FilesServed /\ Sounds!PacksHold
ReachesAudience == Sight!ReachesAudience /\ Sight!ReactionsAgree
ReadsAreTrue == Reads!ReadsAreTrue
ChannelsAreTrue == Rooms!ChannelsAreTrue
SettledRoom == OnStage!SettledRoom
SeatsAreFair == OnStage!NobodyOvertakes /\ OnStage!UnseatedStopsSharing

TextSlot == [step : {"append", "end", "edit", "update", "index", "remove"}, text : Nat, edits : Seq(Nat)]
Reading  == [text : Nat, crossed : BOOLEAN]

EditSlot == [step : {"edit", "update"}, read : Sight!Visibilities, visible : Sight!Visibilities,
             old : SUBSET Users, content : BOOLEAN, text : Nat \ {0}]
ToldSlot == [step : {"create", "delete"}, visible : Sight!Visibilities]
MarkSlot == [step : {"react", "reaction"}, visible : Sight!Visibilities, on : BOOLEAN]
SightSlot == EditSlot \cup ToldSlot \cup MarkSlot

ReadSlot  == [step : {"save", "publish", "count", "ack"}, id : Nat]

RoomSteps == {"create", "publish", "update", "delete", "deleted", "category", "overwrite",
              "viewers", "gained", "lost", "revoke", "unlock", "restore", "notice"}
RoomSlot  == [step : RoomSteps, parent : {"", "category"}, seen : BOOLEAN, key : Nat]

SoundSteps == {"disable", "save", "file", "url", "old", "read", "send", "delete", "removed",
               "choose", "chose", "cleared", "config", "allow", "enter", "resolve"}
Packs     == [rare : BOOLEAN, on : BOOLEAN, audio : Uploads \cup {None}]
Configs   == [on : BOOLEAN, each : BOOLEAN, url : BOOLEAN]
SoundArgs == {None} \cup BOOLEAN \cup Packs \cup Configs
SoundSlot == [step : SoundSteps, was : Packs \cup {None}, file : Uploads \cup {None},
              arg : SoundArgs]

ASSUME NoneIsNoValue ==
  /\ None \notin {"live", "deleted", "expiring", "writing", "written"}
  /\ None \notin ReadSlot /\ None \notin RoomSlot
  /\ None \notin TextSlot /\ None \notin Reading
  /\ None \notin SightSlot
  /\ None \notin SoundSlot /\ None \notin Packs /\ None \notin Uploads
  /\ None \notin {"", "category"} /\ None \notin {"update", "overwrite", "removal"}

ASSUME AuthorIsAUser == Author \in Users

ASSUME BackfillIsAWorker == Backfill \in Workers

ASSUME BoundsAreNumbers ==
  /\ MaxPasswords \in Nat
  /\ CapacityWindow \in Nat /\ HardMaxSpeakers \in Nat /\ MaxQueueLength \in Nat

Symmetry ==
  Permutations(Requests)
  \cup Permutations(Workers \ {Backfill})
  \cup Permutations(Listeners \ Restricted)
==============================================================================
