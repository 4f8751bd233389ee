---------------------------- MODULE Registration ----------------------------
(***************************************************************************)
(* How accounts come about and who administers the platform: the first     *)
(* registration, sign-up by a registration invitation or without one       *)
(* (clientapi, registrationinvite), and the handlers of platformadmin,     *)
(* which count the other active administrators before they write.          *)
(***************************************************************************)
EXTENDS Naturals, FiniteSets

CONSTANTS
  Requests,
  Users,
  MaxUses,     \* of the registration invitation
  None

VARIABLES
  users, admins, disabled,   \* rows, and their columns
  invite,      \* "active", "expired" or "revoked"
  uses,
  request,     \* request -> [step, user, stale], or None
  invited,     \* history: users created by the invitation
  founded,     \* history: an administrator registered before anybody else
  crossed      \* history: a handler wrote on a count that no longer held

vars == <<users, admins, disabled, invite, uses, request, invited, founded, crossed>>

Init ==
  /\ users = {} /\ admins = {} /\ disabled = {}
  /\ invite = "active" /\ uses = 0
  /\ request = [r \in Requests |-> None]
  /\ invited = {} /\ founded = FALSE /\ crossed = FALSE

Doing(r, step) == request[r] # None /\ request[r].step = step
Begins(r, step, u) ==
  /\ request[r] = None
  /\ request' = [request EXCEPT ![r] = [step |-> step, user |-> u, stale |-> FALSE]]
Ends(r) == request' = [request EXCEPT ![r] = None]

-----------------------------------------------------------------------------
(* Accounts. *)

\* Under an advisory lock: count and insert are one step.
Register(u) ==
  /\ users = {} /\ users' = {u} /\ admins' = {u} /\ founded' = TRUE
  /\ UNCHANGED <<disabled, invite, uses, request, invited, crossed>>

InviteExpires ==
  /\ invite = "active" /\ invite' = "expired"
  /\ UNCHANGED <<users, admins, disabled, uses, request, invited, founded, crossed>>

RevokeInvite ==
  /\ invite # "revoked" /\ invite' = "revoked"
  /\ UNCHANGED <<users, admins, disabled, uses, request, invited, founded, crossed>>

Resolve == invite = "active" /\ uses < MaxUses

\* Expiry is not looked at again.
ConsumeUse == invite # "revoked" /\ uses < MaxUses

Signup(r, u) ==
  /\ Resolve /\ Begins(r, "create", u)
  /\ UNCHANGED <<users, admins, disabled, invite, uses, invited, founded, crossed>>

\* Use and user in one transaction; a name that is taken rolls it back.
SignupCommits(r) ==
  /\ Doing(r, "create") /\ Ends(r)
  /\ IF ConsumeUse /\ request[r].user \notin users
     THEN /\ uses' = uses + 1 /\ users' = users \cup {request[r].user}
          /\ invited' = invited \cup {request[r].user}
     ELSE UNCHANGED <<uses, users, invited>>
  /\ UNCHANGED <<admins, disabled, invite, founded, crossed>>

\* While sign-up is open to all, or by the invitation of a guild.
SignupOpen(u) ==
  /\ u \notin users /\ users' = users \cup {u}
  /\ UNCHANGED <<admins, disabled, invite, uses, request, invited, founded, crossed>>

-----------------------------------------------------------------------------
(* Administrators. *)

Active == admins \ disabled

OtherActiveAdmins(u) == Active \ {u}

\* What other handlers under way have counted may no longer hold.
Outdates(r) ==
  request' = [q \in Requests |->
    IF q = r \/ request[q] = None THEN None ELSE [request[q] EXCEPT !.stale = TRUE]]

\* No administrator may name himself.
DisableUser(r, u) ==
  /\ \E by \in Active : by # u
  /\ u \in users \ disabled
  /\ u \in admins => OtherActiveAdmins(u) # {}
  /\ Begins(r, "disable", u)
  /\ UNCHANGED <<users, admins, disabled, invite, uses, invited, founded, crossed>>

RevokeSystemAdmin(r, u) ==
  /\ \E by \in Active : by # u
  /\ u \in admins /\ OtherActiveAdmins(u) # {}
  /\ Begins(r, "demote", u)
  /\ UNCHANGED <<users, admins, disabled, invite, uses, invited, founded, crossed>>

GrantSystemAdmin(r, u) ==
  /\ \E by \in Active : by # u
  /\ u \in users \ admins /\ Begins(r, "promote", u)
  /\ UNCHANGED <<users, admins, disabled, invite, uses, invited, founded, crossed>>

\* Mutant: administrators may go as well.
AnyoneGoes(u) == u \in users \ disabled

\* Nobody who was an administrator when his request was authenticated.
MayGo(u) == u \in users \ (admins \cup disabled)

DeleteAccount(r, u) ==
  /\ MayGo(u)
  /\ Begins(r, "disable", u)
  /\ UNCHANGED <<users, admins, disabled, invite, uses, invited, founded, crossed>>

Writes(r) ==
  /\ request[r] # None
  /\ LET u == request[r].user
     IN \/ /\ Doing(r, "disable") /\ disabled' = disabled \cup {u}
           /\ UNCHANGED admins
        \/ /\ Doing(r, "demote") /\ admins' = admins \ {u}
           /\ UNCHANGED disabled
        \/ /\ Doing(r, "promote") /\ admins' = admins \cup {u}
           /\ UNCHANGED disabled
  /\ Outdates(r)
  /\ crossed' = (crossed \/ request[r].stale)
  /\ UNCHANGED <<users, invite, uses, invited, founded>>

EnableUser(u) ==
  /\ \E by \in Active : TRUE
  /\ u \in disabled /\ disabled' = disabled \ {u}
  /\ UNCHANGED <<users, admins, invite, uses, request, invited, founded, crossed>>

Next ==
  \/ \E u \in Users : Register(u) \/ SignupOpen(u) \/ EnableUser(u)
  \/ InviteExpires \/ RevokeInvite
  \/ \E r \in Requests, u \in Users :
       \/ Signup(r, u) \/ DisableUser(r, u) \/ RevokeSystemAdmin(r, u)
       \/ GrantSystemAdmin(r, u) \/ DeleteAccount(r, u)
  \/ \E r \in Requests : SignupCommits(r) \/ Writes(r)

Spec == Init /\ [][Next]_vars

-----------------------------------------------------------------------------
(* Every use of the registration invitation stands for a user it brought,  *)
(* and there are never more than it allows; and once an administrator has  *)
(* registered there is always one who can act, unless a handler wrote      *)
(* after another had changed what it had counted.                          *)
PlatformIsHeld ==
  /\ uses = Cardinality(invited) /\ uses <= MaxUses
  /\ founded /\ ~ crossed => Active # {}
=============================================================================
