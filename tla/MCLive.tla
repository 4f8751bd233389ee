------------------------------- MODULE MCLive --------------------------------
(* What ends though nobody answers: a migration whose client is silent,    *)
(* and an interaction whose bot is.  They share no state, and a behaviour  *)
(* is one of them.  Migration is the module extended, the interactions an  *)
(* instance beside it; each keeps the fairness it has.                     *)
EXTENDS Migration

CONSTANTS Presses, Callbacks

VARIABLES part, status, press, expired, callback, listed, told, failed

Buttons == INSTANCE Interactions

buttonVars == <<status, press, expired, callback, listed, told, failed>>

MCInit ==
  /\ part \in {"move", "button"}
  /\ Init /\ Buttons!Init
  /\ part = "button" => room = CHOOSE r \in Rooms : TRUE
  /\ part = "button" => node = CHOOSE n \in Nodes : TRUE

MCNext ==
  \/ part = "move"   /\ Next         /\ UNCHANGED <<part, buttonVars>>
  \/ part = "button" /\ Buttons!Next /\ UNCHANGED <<part, vars>>

all == <<part, vars, buttonVars>>

MoveFairness ==
  LET Of(A) == part = "move" /\ A /\ UNCHANGED <<part, buttonVars>>
  IN  /\ WF_all(Of(Tick)) /\ WF_all(Of(Step))
      /\ SF_all(Of(ConnectTimeout)) /\ SF_all(Of(Retry))
      /\ SF_all(Of(Prepared)) /\ SF_all(Of(PrepareCanceled))

ButtonFairness ==
  LET Of(A) == part = "button" /\ A /\ UNCHANGED <<part, vars>>
  IN  /\ WF_all(Of(Buttons!GcExpiredInteractions))
      /\ \A i \in Presses :
           WF_all(Of(Buttons!Expires(i))) /\ WF_all(Of(Buttons!Collect(i)))
      /\ \A c \in Callbacks :
           WF_all(Of(\/ Buttons!Ack(c) \/ Buttons!MarkInteractionResponded(c)
                     \/ Buttons!PublishInteractionAck(c)))

MCSpec == MCInit /\ [][MCNext]_all /\ MoveFairness /\ ButtonFairness

(* A migration ends whatever the client does, CONNECT without its answer.  *)
EndsUnaided == ClientCannotBlock /\ MigrationEnds

EndsOnce == Buttons!EndsOnce
=============================================================================
