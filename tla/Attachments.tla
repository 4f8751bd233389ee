------------------------------ MODULE Attachments ----------------------------
(***************************************************************************)
(* One attachment (message/attachments.go, storage.go): announced,         *)
(* uploaded, bound to a message that is sent, and collected (gc.go) when   *)
(* it never was bound or its message is gone.  The row and the object in   *)
(* the store are changed by different steps, and an upload that the client *)
(* sends again runs beside the first.                                      *)
(***************************************************************************)

CONSTANTS Uploads, None

VARIABLES
  attachment,  \* row: "none", "presigned", "uploaded", "gone"
  message,     \* the message it is bound to: None, "live", "deleted", or
               \* "expiring" once the retention of the server found it
  object,      \* the file: "absent", "partial", "whole"
  upload,      \* request -> how far it is, or None
  old,         \* unboundAttachmentTTL is over; the token expired before that
  listed,      \* the collector: "no", "listed", or "removed" the file
  crossed      \* history: an upload began before another had ended, or the
               \* message was sent when the collector had listed the row

vars == <<attachment, message, object, upload, old, listed, crossed>>

Init ==
  /\ attachment = "none" /\ message = None /\ object = "absent"
  /\ upload = [u \in Uploads |-> None]
  /\ old = FALSE /\ listed = "no" /\ crossed = FALSE

Goes(u, step) == upload' = [upload EXCEPT ![u] = step]

PresignAttachment ==
  /\ attachment = "none"
  /\ attachment' = "presigned"
  /\ UNCHANGED <<message, object, upload, old, listed, crossed>>

\* The token was looked at, and the file is truncated.
UploadAttachmentContent(u) ==
  /\ attachment = "presigned" /\ ~old /\ upload[u] = None
  /\ object' = "partial" /\ Goes(u, "writing")
  /\ crossed' = (crossed \/ \E v \in Uploads : upload[v] # None)
  /\ UNCHANGED <<attachment, message, old, listed>>

Save(u) ==
  /\ upload[u] = "writing"
  /\ object' = "whole" /\ Goes(u, "written")
  /\ UNCHANGED <<attachment, message, old, listed, crossed>>

\* Too long, too short or cut off: the file is taken away.
SaveFails(u) ==
  /\ upload[u] = "writing"
  /\ object' = "absent" /\ Goes(u, None)
  /\ UNCHANGED <<attachment, message, old, listed, crossed>>

\* Mutant: the row says so before the file is whole.
WrittenSoon == {"writing", "written"}

Written == {"written"}

\* UPDATE ... WHERE uploaded = false, and the token is void.
MarkUploaded(u) ==
  /\ upload[u] \in Written
  /\ attachment' = IF attachment = "presigned" THEN "uploaded" ELSE attachment
  /\ Goes(u, None)
  /\ UNCHANGED <<message, object, old, listed, crossed>>

\* In the transaction that creates the message.
CreateMessage ==
  /\ attachment = "uploaded" /\ message = None
  /\ message' = "live"
  /\ crossed' = (crossed \/ listed # "no")
  /\ UNCHANGED <<attachment, object, upload, old, listed>>

DeleteMessage ==
  /\ message = "live"
  /\ message' = "deleted"
  /\ UNCHANGED <<attachment, object, upload, old, listed, crossed>>

-----------------------------------------------------------------------------
Ages ==
  /\ attachment # "none" /\ ~old
  /\ old' = TRUE
  /\ UNCHANGED <<attachment, message, object, upload, listed, crossed>>

\* The collector reads what it will remove.
Lists ==
  /\ listed = "no" /\ attachment \in {"presigned", "uploaded"}
  /\ listed' = "listed"
  /\ UNCHANGED <<attachment, object, upload, old, crossed>>

GcUnboundAttachments ==
  old /\ message = None /\ Lists /\ UNCHANGED message

GcDeletedMessageAttachments ==
  message = "deleted" /\ Lists /\ UNCHANGED message

ApplyRetention ==
  message \in {"live", "deleted"} /\ Lists /\ message' = "expiring"

\* deleteAttachments: first the file, then the row, by id.
DeleteObject ==
  /\ listed = "listed"
  /\ object' = "absent" /\ listed' = "removed"
  /\ UNCHANGED <<attachment, message, upload, old, crossed>>

DeleteRow ==
  /\ listed = "removed"
  /\ attachment' = "gone" /\ listed' = "no"
  /\ UNCHANGED <<message, object, upload, old, crossed>>

Next ==
  \/ PresignAttachment \/ CreateMessage \/ DeleteMessage
  \/ \E u \in Uploads :
       UploadAttachmentContent(u) \/ Save(u) \/ SaveFails(u) \/ MarkUploaded(u)
  \/ Ages
  \/ GcUnboundAttachments \/ GcDeletedMessageAttachments \/ ApplyRetention
  \/ DeleteObject \/ DeleteRow

Spec == Init /\ [][Next]_vars

-----------------------------------------------------------------------------
(* What a live message shows can be downloaded: its attachment has its row *)
(* and the whole file, unless two uploads of it crossed, or the message *)
(* was sent between the collector's look at the row and the removal.       *)
FilesServed ==
  message = "live" /\ ~crossed => attachment = "uploaded" /\ object = "whole"
=============================================================================
