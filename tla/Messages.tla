------------------------------- MODULE Messages ------------------------------
(***************************************************************************)
(* One message of a channel (message/messages.go, stream.go, gc.go and     *)
(* interactions.go): its text, the texts its edits replaced, and what the  *)
(* search index holds of it (search.go).  Handlers read the row, decide,   *)
(* write it by id and then queue the message for the index; a worker per   *)
(* plane and the backfill of a start read the row again and write the      *)
(* index.  A text is a number: it tells one writing from another.          *)
(***************************************************************************)
EXTENDS Naturals, Sequences

CONSTANTS
  Requests,     \* handlers under way
  Workers,      \* the workers of the planes, and the backfill
  Backfill,     \* the one of them that has no queue
  QueueSize,    \* indexQueueSize
  MaxTexts,     \* bound of the model: texts written
  None

VARIABLES
  state,      \* of the row: "none", "live", "deleted", "gone"
  bot,        \* the author is a bot
  streaming,  \* stream_status
  text,       \* content
  edits,      \* message_edits by version, the texts that were replaced
  texts,      \* history: every content the row has had
  request,    \* handler -> what it does next and with what copy of the row
  queue,      \* worker -> messages to index, TRUE for removal
  reading,    \* worker -> the text it read and will write, or None
  indexed,    \* the text the search index holds, 0 for none
  untrue      \* history: an operation was never queued, dropped, written late or crossed

row   == <<state, bot, streaming, text, edits, texts>>
index == <<queue, reading, indexed>>
vars  == <<row, request, index, untrue>>

Init ==
  /\ state = "none" /\ bot \in BOOLEAN /\ streaming = FALSE
  /\ text = 0 /\ edits = <<>> /\ texts = <<>>
  /\ request = [r \in Requests |-> None]
  /\ queue = [w \in Workers |-> <<>>]
  /\ reading = [w \in Workers |-> None]
  /\ indexed = 0 /\ untrue = FALSE

Doing(r, step) == request[r] # None /\ request[r].step = step
Goes(r, step)  ==
  request' = [request EXCEPT ![r] = [step |-> step, text |-> text, edits |-> edits]]
Ends(r)        == request' = [request EXCEPT ![r] = None]

\* UPDATE ... WHERE id = ?: nothing, when retention took the row.
Writes ==
  IF state = "gone" THEN UNCHANGED <<text, texts>>
  ELSE /\ Len(texts) < MaxTexts
       /\ text' = Len(texts) + 1 /\ texts' = Append(texts, Len(texts) + 1)

-----------------------------------------------------------------------------
CreateMessage(r) ==
  /\ state = "none" /\ request[r] = None
  /\ state' = "live" /\ Writes
  /\ Goes(r, "index")
  /\ UNCHANGED <<bot, streaming, edits, index, untrue>>

\* An administrator's: one whose view cannot be built is not queued.
PostAsUser(r) ==
  \/ ~ bot /\ CreateMessage(r)
  \/ /\ ~ bot /\ state = "none" /\ state' = "live" /\ Writes /\ untrue' = TRUE
     /\ UNCHANGED <<bot, streaming, edits, request, index>>

\* Of a group, who came, went or renamed it; never queued.
PostPrivateSystem ==
  /\ ~ bot /\ state = "none"
  /\ state' = "live" /\ Writes /\ untrue' = TRUE
  /\ UNCHANGED <<bot, streaming, edits, request, index>>

\* A stream is not indexed before it ends.
StartStream ==
  /\ state = "none" /\ bot
  /\ state' = "live" /\ streaming' = TRUE /\ Writes
  /\ UNCHANGED <<bot, edits, request, index, untrue>>

StreamingMessageAccess(r) ==
  /\ request[r] = None /\ state = "live" /\ streaming
  /\ \E step \in {"append", "end"} : Goes(r, step)
  /\ UNCHANGED <<row, index, untrue>>

\* The row may have left the stream since the handler looked.
AppendStream(r) ==
  /\ Doing(r, "append") /\ Writes /\ Ends(r)
  /\ untrue' = (untrue \/ ~streaming)
  /\ UNCHANGED <<state, bot, streaming, edits, index>>

EndStream(r) ==
  /\ Doing(r, "end")
  /\ streaming' = FALSE
  /\ Writes \/ UNCHANGED <<text, texts>>      \* with a content or without
  /\ Goes(r, "index")
  /\ UNCHANGED <<state, bot, edits, index, untrue>>

GcStaleStreams(r) ==
  /\ request[r] = None /\ state = "live" /\ streaming
  /\ streaming' = FALSE /\ Goes(r, "index")
  /\ UNCHANGED <<state, bot, text, edits, texts, index, untrue>>

EditMessage(r) ==
  /\ request[r] = None /\ state = "live"
  /\ Goes(r, "edit")
  /\ UNCHANGED <<row, index, untrue>>

\* Mutant: no unique index on message and version.
AnyVersion(r) == TRUE

\* The version is the number of edits the handler read, plus one; message
\* and version are unique.
FreshVersion(r) == Len(edits) = Len(request[r].edits)

\* One transaction: the text the handler read goes to the history, where it
\* stays behind when retention took the row.
SaveEdit(r) ==
  /\ Doing(r, "edit") /\ (state = "gone" \/ FreshVersion(r))
  /\ edits' = Append(edits, request[r].text) /\ Writes
  /\ Goes(r, "index")
  /\ UNCHANGED <<state, bot, streaming, index, untrue>>

SaveEditFails(r) ==
  /\ Doing(r, "edit") /\ ~FreshVersion(r)
  /\ Ends(r)
  /\ UNCHANGED <<row, index, untrue>>

\* A bot rewrites its message when a button is pressed: no edit is kept.
InteractionUpdateMessage(r) ==
  /\ bot
  /\ \/ request[r] = None /\ state = "live" /\ Goes(r, "update")
        /\ UNCHANGED <<text, texts>>
     \/ Doing(r, "update") /\ Writes /\ Goes(r, "index")
  /\ UNCHANGED <<state, bot, streaming, edits, index, untrue>>

DeleteMessage(r) ==
  /\ request[r] = None /\ state = "live"
  /\ state' = "deleted" /\ Goes(r, "remove")
  /\ UNCHANGED <<bot, streaming, text, edits, texts, index, untrue>>

ApplyRetention ==
  /\ state \in {"live", "deleted"}
  /\ state' = "gone" /\ edits' = <<>>
  /\ UNCHANGED <<bot, streaming, text, texts, request, index, untrue>>

-----------------------------------------------------------------------------
(* The search index.                                                       *)

\* Mutant: only what is removed is queued.
QueuesRemovals(r) == Doing(r, "remove")

Queues(r) == Doing(r, "index") \/ Doing(r, "remove")

Enqueue(r) ==
  /\ Doing(r, "index") \/ Doing(r, "remove")
  /\ Ends(r)
  /\ \E w \in Workers \ {Backfill} :
       LET full == Len(queue[w]) = QueueSize
           op   == request[r].step = "remove"
       IN  /\ queue' = IF full \/ ~Queues(r) THEN queue
                        ELSE [queue EXCEPT ![w] = Append(@, op)]
           /\ untrue' = (untrue \/ full)
  /\ UNCHANGED <<row, reading, indexed>>

\* What a worker writes crosses what another read before.
Put(w, t) ==
  /\ indexed' = t
  /\ reading' = [v \in Workers |->
       IF v = w \/ reading[v] = None THEN IF v = w THEN None ELSE reading[v]
       ELSE [reading[v] EXCEPT !.crossed = TRUE]]

IndexOne(w) ==
  /\ queue[w] # <<>> /\ reading[w] = None
  /\ queue' = [queue EXCEPT ![w] = Tail(@)]
  /\ IF Head(queue[w]) THEN Put(w, 0)
     ELSE /\ reading' = [reading EXCEPT
                ![w] = IF state = "live" THEN [text |-> text, crossed |-> FALSE] ELSE None]
          /\ UNCHANGED indexed
  /\ UNCHANGED <<row, request, untrue>>

RebuildSearchBigrams ==
  /\ reading[Backfill] = None /\ state = "live" /\ indexed = 0
  /\ reading' = [reading EXCEPT ![Backfill] = [text |-> text, crossed |-> FALSE]]
  /\ UNCHANGED <<row, request, queue, indexed, untrue>>

Worker(w) ==
  /\ reading[w] # None
  /\ Put(w, IF state = "live" THEN reading[w].text ELSE indexed)
  /\ untrue' = (untrue \/ reading[w].crossed)
  /\ UNCHANGED <<row, request, queue>>

Next ==
  \/ PostPrivateSystem \/ StartStream \/ ApplyRetention \/ RebuildSearchBigrams
  \/ \E r \in Requests :
       \/ CreateMessage(r) \/ PostAsUser(r)
       \/ StreamingMessageAccess(r) \/ AppendStream(r) \/ EndStream(r)
       \/ GcStaleStreams(r)
       \/ EditMessage(r) \/ SaveEdit(r) \/ SaveEditFails(r)
       \/ InteractionUpdateMessage(r) \/ DeleteMessage(r) \/ Enqueue(r)
  \/ \E w \in Workers : IndexOne(w) \/ Worker(w)

Spec == Init /\ [][Next]_vars

-----------------------------------------------------------------------------
(* Two edits of a message by its author, from two devices say: the texts   *)
(* of its history, followed by the one it has, are all it has ever had, in *)
(* order.  A bot's message is also rewritten without a trace.              *)
TextsKept ==
  ~bot /\ state \in {"live", "deleted"} => texts = Append(edits, text)

(* When nothing is under way, the index holds the text of a live message:  *)
(* unless it was never queued or its queue was full, a stream was appended *)
(* to after its end, or two workers wrote in the opposite order of their   *)
(* reads.  (The code has all four: the planes have a worker each.)         *)
IndexFollowsText ==
  /\ state = "live" /\ ~streaming /\ ~untrue
  /\ \A r \in Requests : request[r] = None
  /\ \A w \in Workers : queue[w] = <<>> /\ reading[w] = None
  => indexed = text
=============================================================================
