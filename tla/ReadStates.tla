------------------------------ MODULE ReadStates -----------------------------
(***************************************************************************)
(* The read state of one user in one channel (message/readstate.go): how   *)
(* far he has read and how many mentions of him he has not.  Messages take *)
(* their ids first and are committed, published and counted one step after *)
(* the other; the devices of the user acknowledge what they show, or the   *)
(* whole guild, in any order.                                              *)
(***************************************************************************)
EXTENDS Naturals, FiniteSets, FiniteSetsExt

CONSTANTS
  Requests,       \* handlers of messages and acks under way
  MaxMessages,    \* bound of the model: messages of the channel
  None

VARIABLES
  ids,          \* the last snowflake id taken
  messages,     \* ids in the table
  published,    \* ids the devices have been told
  own,          \* ids of messages of the user himself
  mentions,     \* ids of messages that mention him
  request,      \* request -> [step, id], or None
  last, count,  \* last_read_message_id and mention_count
  untrue        \* history: an ack came between a message and its count, or
                \* acknowledged less than there was

vars == <<ids, messages, published, own, mentions, request, last, count, untrue>>

Init ==
  /\ ids = 0 /\ messages = {} /\ published = {} /\ own = {} /\ mentions = {}
  /\ request = [r \in Requests |-> None]
  /\ last = 0 /\ count = 0 /\ untrue = FALSE

Doing(r, step) == request[r] # None /\ request[r].step = step
Goes(r, step, id) == request' = [request EXCEPT ![r] = [step |-> step, id |-> id]]
Ends(r)        == request' = [request EXCEPT ![r] = None]

\* A message of the user, one that mentions him, or neither.
TakeId(r) ==
  /\ request[r] = None /\ ids < MaxMessages
  /\ ids' = ids + 1 /\ Goes(r, "save", ids + 1)
  /\ \/ own' = own \cup {ids'} /\ UNCHANGED mentions
     \/ mentions' = mentions \cup {ids'} /\ UNCHANGED own
     \/ UNCHANGED <<own, mentions>>
  /\ UNCHANGED <<messages, published, last, count, untrue>>

CreateMessage(r) ==
  /\ Doing(r, "save")
  /\ messages' = messages \cup {request[r].id} /\ Goes(r, "publish", request[r].id)
  /\ UNCHANGED <<ids, published, own, mentions, last, count, untrue>>

PublishMessageEvent(r) ==
  /\ Doing(r, "publish")
  /\ published' = published \cup {request[r].id} /\ Goes(r, "count", request[r].id)
  /\ UNCHANGED <<ids, messages, own, mentions, last, count, untrue>>

\* Mutant: the last ack wins.
Overwritten(id) == id

\* ON CONFLICT ... GREATEST
Greatest(id) == Max({last, id})

\* Mentions the ack forgets or that are counted after it.
Missed(id) ==
  \E m \in mentions :
    \/ m > Greatest(id) /\ m <= ids
    \/ m <= Greatest(id) /\ \E r \in Requests :
         request[r] # None /\ request[r].id = m /\ request[r].step \in {"save", "publish", "count"}

AdvanceReadState(id) ==
  /\ last' = Greatest(id) /\ count' = 0
  /\ untrue' = (untrue \/ Missed(id))

MarkAuthorReadOnSend(r) ==
  /\ Doing(r, "count") /\ request[r].id \in own
  /\ AdvanceReadState(request[r].id) /\ Ends(r)
  /\ UNCHANGED <<ids, messages, published, own, mentions>>

\* The author is not counted; an upsert, so that no count is lost.
BumpMentionCounts(r) ==
  /\ Doing(r, "count") /\ request[r].id \notin own
  /\ count' = IF request[r].id \in mentions THEN count + 1 ELSE count
  /\ Ends(r)
  /\ UNCHANGED <<ids, messages, published, own, mentions, last, untrue>>

AckMessage ==
  /\ \E id \in published : AdvanceReadState(id)
  /\ UNCHANGED <<ids, messages, published, own, mentions, request>>

\* The latest messages of the channels are read, then all are written.
AckGuild(r) ==
  /\ request[r] = None /\ messages # {}
  /\ Goes(r, "ack", Max(messages))
  /\ UNCHANGED <<ids, messages, published, own, mentions, last, count, untrue>>

AckGuildSaves(r) ==
  /\ Doing(r, "ack")
  /\ AdvanceReadState(request[r].id) /\ Ends(r)
  /\ UNCHANGED <<ids, messages, published, own, mentions>>

Next ==
  \/ \E r \in Requests :
       \/ TakeId(r) \/ CreateMessage(r) \/ PublishMessageEvent(r)
       \/ MarkAuthorReadOnSend(r) \/ BumpMentionCounts(r)
       \/ AckGuild(r) \/ AckGuildSaves(r)
  \/ AckMessage

Spec == Init /\ [][Next]_vars

-----------------------------------------------------------------------------
Quiet == \A r \in Requests : request[r] = None

(* When no handler is under way, a user has read what he wrote himself,    *)
(* though another device acknowledged an older message after that, and the *)
(* count is that of the mentions he has not read; unless an ack came       *)
(* before a mention it covers was counted, or covered less than there was. *)
ReadsAreTrue ==
  Quiet =>
    /\ \A id \in own : id <= last
    /\ untrue \/ count = Cardinality({m \in mentions : m > last})
=============================================================================
