----------------------------- MODULE VoicePacks -----------------------------
(***************************************************************************)
(* The sound played when a user enters a voice channel (message): a pack   *)
(* of the guild with its audio file, the choice of the user, the guild's   *)
(* and the channel's settings, and the decision to play.  A manager's      *)
(* change reads the row and saves it as a whole; a row that is gone by     *)
(* then is inserted again.                                                 *)
(***************************************************************************)
EXTENDS Naturals, FiniteSets

CONSTANTS
  Requests, Files, None,
  MaxHandlers   \* bound of the model: handlers that start

VARIABLES
  pack,         \* [rare, on, audio], or None; audio is a file, or None
  made, gone,   \* it was created; it was deleted
  disk, used,   \* audio files there are, and that there ever were
  member, role, \* the user is in the guild, and has a role of the pack
  chosen,       \* the selection of the user names the pack
  config,       \* [on, each, url]: guild settings; url stands for the guild's own sound
  allowed,      \* the setting of the channel, or None
  cool,         \* the user entered within the cooldown
  shown,        \* what the members were last sent of the pack
  told,         \* what the user was last sent of his choice
  playing,      \* the file that was played last; None for the guild's own sound
  request,      \* request -> [step, was, file, arg], or None
  begun,
  \* history:
  back,         \* files that a row saved as it was read names again
  lost,         \* files whose name was overwritten by who had not read it
  revived,      \* the pack was saved when it was gone
  unsaid,       \* two handlers of the pack overlapped, or one did not announce
  unheard       \* two handlers of the choice overlapped

row    == <<pack, made, gone, back, lost, revived>>
files  == <<disk, used>>
user   == <<member, role>>
choice == <<chosen, told, unheard>>
guild  == <<config, allowed>>
sound  == <<cool, playing>>
vars   == <<row, files, user, choice, guild, sound, shown, request, begun, unsaid>>

Init ==
  /\ pack = None /\ made = FALSE /\ gone = FALSE /\ disk = {} /\ used = {}
  /\ member = TRUE /\ role = TRUE
  /\ chosen = FALSE /\ told = FALSE /\ unheard = FALSE
  /\ config = [on |-> TRUE, each |-> TRUE, url |-> FALSE] /\ allowed = None
  /\ cool = FALSE /\ playing = None /\ shown = None
  /\ request = [r \in Requests |-> None] /\ begun = 0
  /\ back = {} /\ lost = {} /\ revived = FALSE /\ unsaid = FALSE

Doing(r, step) == request[r] # None /\ request[r].step = step
At(step) == {r \in Requests : Doing(r, step)}
OfPack == {r \in Requests : request[r] # None /\ request[r].step \in
            {"disable", "save", "file", "url", "old", "read", "send", "delete"}}
OfChoice == {r \in Requests : request[r] # None /\ request[r].step \in
              {"choose", "chose", "cleared", "delete", "removed"}}

Slot(step, arg) == [step |-> step, was |-> pack, file |-> None, arg |-> arg]
BeginsAs(r, slot) ==
  /\ request[r] = None /\ begun < MaxHandlers /\ begun' = begun + 1
  /\ request' = [request EXCEPT ![r] = slot]
Begins(r, step, arg) == BeginsAs(r, Slot(step, arg))
Goes(r, step) == request' = [request EXCEPT ![r].step = step] /\ UNCHANGED begun
Ends(r) == request' = [request EXCEPT ![r] = None] /\ UNCHANGED begun
Overlaps(r) == unsaid' = (unsaid \/ OfPack \ {r} # {})
Meets(r) == unheard' = (unheard \/ OfChoice \ {r} # {})

-----------------------------------------------------------------------------
(* The pack.                                                               *)

(* The column is true by default, so "off" takes a second write.  The pack *)
(* is sent as it was asked for.                                            *)
CreateVoicePack(r) ==
  /\ ~ made /\ made' = TRUE
  /\ \E rare, on \in BOOLEAN :
       /\ pack' = [rare |-> rare, on |-> TRUE, audio |-> None]
       /\ BeginsAs(r, [Slot(IF on THEN "send" ELSE "disable", None) EXCEPT
                          !.was = [pack' EXCEPT !.on = on]])
  /\ Overlaps(r)
  /\ UNCHANGED <<gone, back, lost, revived, files, user, choice, guild, sound, shown>>
PackDisabled(r) ==
  /\ Doing(r, "disable") /\ Goes(r, "send")
  /\ pack' = IF pack = None THEN None ELSE [pack EXCEPT !.on = FALSE]
  /\ UNCHANGED <<made, gone, back, lost, revived, files, user, choice, guild, sound, shown, unsaid>>

PatchVoicePack(r) ==
  /\ pack # None
  /\ \E rare, on \in BOOLEAN : Begins(r, "save", [pack EXCEPT !.rare = rare, !.on = on])
  /\ Overlaps(r)
  /\ UNCHANGED <<row, files, user, choice, guild, sound, shown>>

(* The row is saved with all its columns, and inserted when it is gone.    *)
PackSaved(r) ==
  /\ Doing(r, "save")
  /\ pack' = request[r].arg /\ revived' = (revived \/ pack = None)
  /\ back' = back \cup (IF pack = None \/ pack.audio # pack'.audio THEN {pack'.audio} ELSE {})
  /\ lost' = lost \cup (IF pack # None /\ pack.audio # pack'.audio THEN {pack.audio} ELSE {})
  /\ request' = [request EXCEPT ![r].step = "send", ![r].was = pack']
  /\ UNCHANGED <<made, gone, files, user, choice, guild, sound, shown, begun, unsaid>>

UploadVoicePackAudio(r) ==
  /\ pack # None /\ Begins(r, "file", None) /\ Overlaps(r)
  /\ UNCHANGED <<row, files, user, choice, guild, sound, shown>>
AudioSaved(r) ==
  /\ Doing(r, "file")
  /\ \E f \in Files \ used :
       /\ used' = used \cup {f} /\ disk' = disk \cup {f}
       /\ request' = [request EXCEPT ![r].step = "url", ![r].file = f]
  /\ UNCHANGED <<row, user, choice, guild, sound, shown, begun, unsaid>>
UrlWritten(r) ==
  /\ Doing(r, "url") /\ Goes(r, "old")
  /\ pack' = IF pack = None THEN None ELSE [pack EXCEPT !.audio = request[r].file]
  /\ lost' = lost \cup (IF pack = None THEN {request[r].file}
                        ELSE IF pack.audio # request[r].was.audio THEN {pack.audio} ELSE {})
  /\ UNCHANGED <<made, gone, back, revived, files, user, choice, guild, sound, shown, unsaid>>
UrlFails(r) ==
  /\ Doing(r, "url") /\ disk' = disk \ {request[r].file} /\ Ends(r)
  /\ UNCHANGED <<row, used, user, choice, guild, sound, shown, unsaid>>
OldAudioRemoved(r) ==
  /\ Doing(r, "old") /\ disk' = disk \ {request[r].was.audio} /\ Goes(r, "read")
  /\ UNCHANGED <<row, used, user, choice, guild, sound, shown, unsaid>>
ReadAgain(r) ==
  /\ Doing(r, "read")
  /\ IF pack = None THEN Ends(r)
     ELSE request' = [request EXCEPT ![r].step = "send", ![r].was = pack] /\ UNCHANGED begun
  /\ UNCHANGED <<row, files, user, choice, guild, sound, shown, unsaid>>

\* Mutant: the users are looked for when their choice is gone.
Nobody == FALSE
Affected == chosen

DeleteVoicePack(r) ==
  /\ pack # None /\ Begins(r, "delete", Affected) /\ Overlaps(r) /\ Meets(r)
  /\ UNCHANGED <<row, files, user, chosen, told, guild, sound, shown>>
PackDeleted(r) ==
  /\ Doing(r, "delete")
  /\ pack' = None /\ gone' = TRUE /\ chosen' = FALSE
  /\ lost' = lost \cup (IF pack # None /\ pack.audio # request[r].was.audio THEN {pack.audio} ELSE {})
  /\ request' = [request EXCEPT ![r].step = "removed"]
  /\ UNCHANGED <<made, back, revived, files, user, told, unheard, guild, sound, shown, begun, unsaid>>
(* The users who had chosen it before are told.                            *)
DeletionSent(r) ==
  /\ Doing(r, "removed") /\ disk' = disk \ {request[r].was.audio}
  /\ shown' = None /\ told' = (told /\ ~ request[r].arg) /\ Ends(r)
  /\ UNCHANGED <<row, used, user, chosen, unheard, guild, sound, unsaid>>

PublishVoicePackUpdate(r) ==
  /\ Doing(r, "send") /\ shown' = request[r].was /\ Ends(r)
  /\ UNCHANGED <<row, files, user, choice, guild, sound, unsaid>>

-----------------------------------------------------------------------------
(* The choice.                                                             *)

PackAuthorized(p) == member /\ (p.rare => role)

SelectVoicePack(r) ==
  /\ pack # None /\ pack.on /\ PackAuthorized(pack) /\ Begins(r, "choose", None) /\ Meets(r)
  /\ UNCHANGED <<row, files, user, chosen, told, guild, sound, shown, unsaid>>
Chosen(r) ==
  /\ Doing(r, "choose") /\ chosen' = TRUE /\ Goes(r, "chose")
  /\ UNCHANGED <<row, files, user, told, unheard, guild, sound, shown, unsaid>>
ClearMyVoicePackSelection(r) ==
  /\ chosen' = FALSE /\ Begins(r, "cleared", None) /\ Meets(r)
  /\ UNCHANGED <<row, files, user, told, guild, sound, shown, unsaid>>
ChoiceSent(r) ==
  /\ Doing(r, "chose") \/ Doing(r, "cleared")
  /\ told' = Doing(r, "chose") /\ Ends(r)
  /\ UNCHANGED <<row, files, user, chosen, unheard, guild, sound, shown, unsaid>>

-----------------------------------------------------------------------------
(* The settings, and playing.                                              *)

(* Read, changed and upserted with all columns.                            *)
PatchGuildVoicePack(r) ==
  /\ \E c \in {[config EXCEPT !.on = ~ @], [config EXCEPT !.each = ~ @],
               [config EXCEPT !.url = ~ @]} : Begins(r, "config", c)
  /\ UNCHANGED <<row, files, user, choice, guild, sound, shown, unsaid>>
ConfigSaved(r) ==
  /\ Doing(r, "config") /\ config' = request[r].arg /\ Ends(r)
  /\ UNCHANGED <<row, files, user, choice, allowed, sound, shown, unsaid>>

(* A row that allows is inserted if there is none, and then written.       *)
PutChannelVoicePack(r) ==
  /\ \E a \in BOOLEAN : Begins(r, "allow", a)
  /\ allowed' = IF allowed = None THEN TRUE ELSE allowed
  /\ UNCHANGED <<row, files, user, choice, config, sound, shown, unsaid>>
ChannelWritten(r) ==
  /\ Doing(r, "allow") /\ allowed' = request[r].arg /\ Ends(r)
  /\ UNCHANGED <<row, files, user, choice, config, sound, shown, unsaid>>

(* The user enters, for the first time or not.                             *)
PlayVoicePack(r) ==
  /\ config.on /\ Begins(r, "enter", config.url)
  /\ \E first \in BOOLEAN : config.each \/ first
  /\ UNCHANGED <<row, files, user, choice, guild, sound, shown, unsaid>>
Allow(r) ==
  /\ Doing(r, "enter")
  /\ IF allowed = FALSE \/ cool THEN Ends(r) /\ UNCHANGED cool
     ELSE Goes(r, "resolve") /\ cool' = TRUE
  /\ UNCHANGED <<row, files, user, choice, guild, playing, shown, unsaid>>
ResolveVoicePackAudio(r) ==
  /\ Doing(r, "resolve")
  /\ LET usable == chosen /\ pack # None /\ pack.on /\ pack.audio # None /\ PackAuthorized(pack)
     IN playing' = IF usable THEN pack.audio ELSE IF request[r].arg THEN None ELSE playing
  /\ Ends(r)
  /\ UNCHANGED <<row, files, user, choice, guild, cool, shown, unsaid>>
CoolsDown ==
  /\ cool /\ cool' = FALSE
  /\ UNCHANGED <<row, files, user, choice, guild, playing, shown, request, begun, unsaid>>

(* Membership and roles change meanwhile.                                  *)
MemberChanges ==
  /\ begun < MaxHandlers
  /\ \/ member' = ~ member /\ UNCHANGED role
     \/ role' = ~ role /\ UNCHANGED member
  /\ begun' = begun + 1
  /\ UNCHANGED <<row, files, choice, guild, sound, shown, request, unsaid>>

-----------------------------------------------------------------------------
Next ==
  \/ \E r \in Requests :
       \/ CreateVoicePack(r) \/ PackDisabled(r) \/ PatchVoicePack(r) \/ PackSaved(r)
       \/ UploadVoicePackAudio(r) \/ AudioSaved(r) \/ UrlWritten(r) \/ UrlFails(r)
       \/ OldAudioRemoved(r) \/ ReadAgain(r) \/ PublishVoicePackUpdate(r)
       \/ DeleteVoicePack(r) \/ PackDeleted(r) \/ DeletionSent(r)
       \/ SelectVoicePack(r) \/ Chosen(r) \/ ClearMyVoicePackSelection(r) \/ ChoiceSent(r)
       \/ PatchGuildVoicePack(r) \/ ConfigSaved(r) \/ PutChannelVoicePack(r)
       \/ ChannelWritten(r) \/ PlayVoicePack(r) \/ Allow(r) \/ ResolveVoicePackAudio(r)
  \/ CoolsDown \/ MemberChanges

Spec == Init /\ [][Next]_vars

-----------------------------------------------------------------------------
(* The audio a pack names is there, and so is the file that was played     *)
(* until the pack got another; excepted is a row that was saved as it was  *)
(* read before another audio was uploaded or the pack was deleted.         *)
Audible ==
  /\ pack # None => pack.audio \in disk \cup back \cup {None}
  /\ pack # None /\ pack.audio = playing => playing \in disk \cup back \cup {None}

(* A file that no pack names is about to be written or removed, or its     *)
(* name was overwritten by who had not read it.                            *)
NothingLeft ==
  disk \subseteq lost \cup (IF pack = None THEN {} ELSE {pack.audio})
    \cup {request[r].file : r \in At("url")}
    \cup {request[r].was.audio : r \in At("old") \cup At("removed")}

(* A pack that was deleted stays so, unless a change was saved after it;   *)
(* and it is not chosen unless the choice overlapped the deletion.         *)
StaysDeleted ==
  /\ gone /\ ~ revived => pack = None
  /\ gone /\ pack = None /\ chosen => unheard

(* Unless handlers of it overlapped, the members have been sent the pack   *)
(* as it is, and the user his choice, when nobody is at work.              *)
Announced ==
  /\ ~ unsaid /\ OfPack \cup At("removed") = {} => shown = pack
  /\ ~ unheard /\ OfChoice = {} => told = chosen

PacksHold == Audible /\ NothingLeft /\ StaysDeleted /\ Announced
=============================================================================
