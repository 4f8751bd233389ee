----------------------------- MODULE Interactions ----------------------------
(***************************************************************************)
(* A user presses a button of a bot's message (message/interactions.go).   *)
(* A press that finds none pending just before becomes an interaction; the *)
(* bot answers with its token, at once or after an ack; what is not        *)
(* answered in time is collected.  Every step is told to the user, whose   *)
(* button waits for it.                                                    *)
(***************************************************************************)
EXTENDS FiniteSets

CONSTANTS
  Presses,      \* presses of the button, each an interaction at most
  Callbacks,    \* calls of the bot under way
  None

VARIABLES
  status,     \* MessageInteraction.status, None without a row
  press,      \* press -> "new", "checked" that none is pending, "done"
  expired,    \* interactions whose expires_at is over
  callback,   \* call -> [on, read, type, step], or None
  listed,     \* interactions the collector will expire
  told,       \* interaction -> what the user was told of it so far
  failed      \* history: interactions whose answer was saved and then not
              \* told, as the handler failed on

vars == <<status, press, expired, callback, listed, told, failed>>

Open == {"PENDING", "ACKED"}

Init ==
  /\ status = [i \in Presses |-> None]
  /\ press = [i \in Presses |-> "new"]
  /\ expired = {} /\ listed = {} /\ failed = {}
  /\ callback = [c \in Callbacks |-> None]
  /\ told = [i \in Presses |-> {}]

Tell(i, what) == told' = [told EXCEPT ![i] = @ \cup {what}]
IsPending(i)  == status[i] = "PENDING"

\* The dedupe window of 3 s: a press right after another one that is still
\* pending is the same press; a later one is a press of its own.
CreateInteraction(i) ==
  /\ press[i] = "new"
  /\ \E near \in SUBSET (Presses \ expired) :
       press' = [press EXCEPT ![i] =
                   IF \E j \in near : IsPending(j) THEN "done" ELSE "checked"]
  /\ UNCHANGED <<status, expired, callback, listed, told, failed>>

SaveInteraction(i) ==
  /\ press[i] = "checked"
  /\ press' = [press EXCEPT ![i] = "done"]
  /\ status' = [status EXCEPT ![i] = "PENDING"]
  /\ UNCHANGED <<expired, callback, listed, told, failed>>

Expires(i) ==
  /\ status[i] # None /\ i \notin expired
  /\ expired' = expired \cup {i}
  /\ UNCHANGED <<status, press, callback, listed, told, failed>>

\* The bot's token and the row are looked at; expired or answered: refused.
InteractionCallback(c, i) ==
  /\ callback[c] = None
  /\ status[i] \in Open /\ i \notin expired
  /\ \E type \in {"ack", "answer"} :
       callback' = [callback EXCEPT
         ![c] = [on |-> i, type |-> type, read |-> status[i], step |-> "save"]]
  /\ UNCHANGED <<status, press, expired, listed, told, failed>>

Doing(c, type, step) ==
  callback[c] # None /\ callback[c].type = type /\ callback[c].step = step
Ends(c) == callback' = [callback EXCEPT ![c] = None]

\* UPDATE ... WHERE status = PENDING; told whether or not the row changed.
Ack(c) ==
  /\ Doing(c, "ack", "save") /\ Ends(c)
  /\ LET i == callback[c].on
     IN IF callback[c].read = "PENDING"
          THEN /\ status' = [status EXCEPT ![i] = IF IsPending(i) THEN "ACKED" ELSE @]
               /\ Tell(i, "ACKED")
          ELSE UNCHANGED <<status, told>>
  /\ UNCHANGED <<press, expired, listed, failed>>

Answerable == Open

\* The message is sent or rewritten first, then the row is marked.
MarkInteractionResponded(c) ==
  /\ Doing(c, "answer", "save")
  /\ LET i == callback[c].on
     IN status' = [status EXCEPT ![i] = IF @ \in Answerable THEN "RESPONDED" ELSE @]
  /\ callback' = [callback EXCEPT ![c].step = "tell"]
  /\ UNCHANGED <<press, expired, listed, told, failed>>

PublishInteractionAck(c) ==
  /\ Doing(c, "answer", "tell") /\ Ends(c)
  /\ Tell(callback[c].on, "RESPONDED")
  /\ UNCHANGED <<status, press, expired, listed, failed>>

\* The view of the message cannot be read.
CallbackFails(c) ==
  /\ Doing(c, "answer", "tell") /\ Ends(c)
  /\ failed' = failed \cup {callback[c].on}
  /\ UNCHANGED <<status, press, expired, listed, told>>

\* Mutant: the collector looks for what nobody has reacted to.
DuePending == {i \in expired : IsPending(i)}

Due == {i \in expired : status[i] \in Open}

GcExpiredInteractions ==
  /\ listed = {} /\ Due # {}
  /\ listed' = Due
  /\ UNCHANGED <<status, press, expired, callback, told, failed>>

\* By id, whatever the row says by now.
Collect(i) ==
  /\ i \in listed
  /\ listed' = listed \ {i}
  /\ status' = [status EXCEPT ![i] = "EXPIRED"]
  /\ Tell(i, "EXPIRED")
  /\ UNCHANGED <<press, expired, callback, failed>>

Next ==
  \/ \E i \in Presses :
       \/ CreateInteraction(i) \/ SaveInteraction(i) \/ Expires(i) \/ Collect(i)
       \/ \E c \in Callbacks : InteractionCallback(c, i)
  \/ \E c \in Callbacks :
       \/ Ack(c) \/ MarkInteractionResponded(c) \/ PublishInteractionAck(c)
       \/ CallbackFails(c)
  \/ GcExpiredInteractions

\* Time passes, the collector runs every hour, and a handler comes to an end.
Fairness ==
  /\ WF_vars(GcExpiredInteractions)
  /\ \A i \in Presses : WF_vars(Expires(i)) /\ WF_vars(Collect(i))
  /\ \A c \in Callbacks :
       WF_vars(Ack(c) \/ MarkInteractionResponded(c) \/ PublishInteractionAck(c))

Spec == Init /\ [][Next]_vars /\ Fairness

-----------------------------------------------------------------------------
(* Whatever the bot does, the user whose button waits is told in the end   *)
(* that the interaction was answered or has expired, unless the handler    *)
(* failed after it had saved the answer.                                   *)
UserIsTold ==
  \A i \in Presses :
    IsPending(i) ~> (told[i] \cap {"RESPONDED", "EXPIRED"} # {} \/ i \in failed)

(* An interaction that was told as expired is not answered any more, and   *)
(* one that was answered is not acknowledged, though calls that read the   *)
(* row before go on: the row goes one way.                                 *)
OneWay ==
  [][\A i \in Presses :
       /\ status[i] = "EXPIRED" => status'[i] = "EXPIRED"
       /\ status[i] = "RESPONDED" => status'[i] \in {"RESPONDED", "EXPIRED"}]_vars

(* An interaction ends once, and the user hears of it.                     *)
EndsOnce == UserIsTold /\ OneWay
=============================================================================
