-------------------------------- MODULE OAuth --------------------------------
(***************************************************************************)
(* The grants of oauth: a device code from the request of a client to the *)
(* tokens it is exchanged for, or an authorization code, and the refresh   *)
(* tokens of agents with the scopes they carry.  A client asks for all     *)
(* scopes, offline_access among them, and the user of a device code picks  *)
(* from them.  The approval of a device code reads its row with FOR UPDATE *)
(* outside of a transaction: the lock is gone when the answer is written.  *)
(* The two kinds of codes share nothing, and a behaviour has one of them.  *)
(***************************************************************************)
EXTENDS Naturals, FiniteSets, Sequences

CONSTANTS
  Requests,
  Users,
  Scopes, AdminScopes,
  MaxTokens,    \* bound of the model: refresh tokens of agents
  None

VARIABLES
  device,       \* [status, user, scope] of the device code
  expired,      \* its time is over
  code,         \* [user, scope, used] of the authorization code, or None
  admins,       \* users who are system administrators
  tokens,       \* refresh tokens issued, in order: [user, scope, by]
  live,         \* indices of those not revoked
  request,      \* request -> [step, user, scope, token], or None
  approvals,    \* history: [user, scope] a user agreed to
  denied,       \* history: a user denied the device code
  overwritten   \* history: an approval was written over another answer

vars == <<device, expired, code, admins, tokens, live, request,
          approvals, denied, overwritten>>

Init ==
  /\ device = [status |-> "none", user |-> None, scope |-> {}]
  /\ expired = FALSE /\ code = None
  /\ admins \in SUBSET Users
  /\ tokens = <<>> /\ live = {}
  /\ request = [r \in Requests |-> None]
  /\ approvals = {} /\ denied = FALSE /\ overwritten = FALSE

Doing(r, step) == request[r] # None /\ request[r].step = step
Goes(r, step)  == request' = [request EXCEPT ![r].step = step]
Ends(r)        == request' = [request EXCEPT ![r] = None]
Begins(r, step, u, s, t) ==
  /\ request[r] = None
  /\ request' = [request EXCEPT ![r] = [step |-> step, user |-> u, scope |-> s, token |-> t]]

\* FilterScopesForUser, at the moment it is called.
Filter(s, u) == IF u \in admins THEN s ELSE s \ AdminScopes

-----------------------------------------------------------------------------
(* The device code. *)

PostDeviceCode ==
  /\ device.status = "none" /\ code = None
  /\ device' = [device EXCEPT !.status = "pending"]
  /\ UNCHANGED <<expired, code, admins, tokens, live, request, approvals, denied, overwritten>>

TimeOver ==
  /\ ~ expired /\ device.status # "none" /\ expired' = TRUE
  /\ UNCHANGED <<device, code, admins, tokens, live, request, approvals, denied, overwritten>>

PostDeviceApprove(r, u) ==
  /\ device.status = "pending" /\ ~ expired
  /\ \E s \in SUBSET Scopes :
       Filter(s, u) # {} /\ Begins(r, "approve", u, Filter(s, u), 0)
  /\ UNCHANGED <<device, expired, code, admins, tokens, live, approvals, denied, overwritten>>

\* By id, whatever the status is by now.
ApproveWrites(r) ==
  /\ Doing(r, "approve") /\ Ends(r)
  /\ LET q == request[r]
     IN /\ device' = [device EXCEPT !.status = "approved", !.user = q.user, !.scope = q.scope]
        /\ approvals' = approvals \cup {[user |-> q.user, scope |-> q.scope]}
  /\ overwritten' = (overwritten \/ device.status # "pending")
  /\ UNCHANGED <<expired, code, admins, tokens, live, denied>>

PostDeviceDeny ==
  /\ device.status = "pending" /\ device' = [device EXCEPT !.status = "denied"]
  /\ denied' = TRUE
  /\ UNCHANGED <<expired, code, admins, tokens, live, request, approvals, overwritten>>

\* Whoever finds the code too late says so; the preview only of a pending one.
ExpiredFound ==
  /\ expired /\ device.status \notin {"none", "expired"}
  /\ device' = [device EXCEPT !.status = "expired"]
  /\ UNCHANGED <<expired, code, admins, tokens, live, request, approvals, denied, overwritten>>

TokenDeviceCode(r) ==
  /\ device.status = "approved" /\ ~ expired
  /\ Begins(r, "consume", device.user, device.scope, 0)
  /\ UNCHANGED <<device, expired, code, admins, tokens, live, approvals, denied, overwritten>>

DeviceCodeConsumed(r) ==
  /\ Doing(r, "consume")
  /\ IF device.status = "approved"
     THEN Goes(r, "device") /\ device' = [device EXCEPT !.status = "consumed"]
     ELSE Ends(r) /\ UNCHANGED device
  /\ UNCHANGED <<expired, code, admins, tokens, live, approvals, denied, overwritten>>

-----------------------------------------------------------------------------
(* The authorization code, with PKCE. *)

PostAuthorizeApprove(u) ==
  /\ code = None /\ device.status = "none"
  /\ Filter(Scopes, u) # {}
  /\ code' = [user |-> u, scope |-> Filter(Scopes, u), used |-> FALSE]
  /\ approvals' = approvals \cup {[user |-> u, scope |-> Filter(Scopes, u)]}
  /\ UNCHANGED <<device, expired, admins, tokens, live, request, denied, overwritten>>

\* The check of used_at and its update are one statement; scopes are filtered
\* once more.
TokenAuthorizationCode(r) ==
  /\ code # None /\ ~ code.used
  /\ code' = [code EXCEPT !.used = TRUE]
  /\ Begins(r, "code", code.user, Filter(code.scope, code.user), 0)
  /\ UNCHANGED <<device, expired, admins, tokens, live, approvals, denied, overwritten>>

-----------------------------------------------------------------------------
(* Refresh tokens. *)

IssueAgentTokens(r) ==
  /\ request[r] # None /\ request[r].step \in {"device", "code", "refresh"}
  /\ Len(tokens) < MaxTokens
  /\ tokens' = Append(tokens, [user |-> request[r].user, scope |-> request[r].scope,
                               by |-> request[r].step])
  /\ live' = live \cup {Len(tokens')} /\ Ends(r)
  /\ UNCHANGED <<device, expired, code, admins, approvals, denied, overwritten>>

\* Mutant: the client names the scopes.
AnyScope(t) == SUBSET Scopes

\* A refresh may narrow the scopes.
Narrower(t) == SUBSET tokens[t].scope

TokenRefresh(r, t) ==
  /\ t \in live
  /\ \E s \in Narrower(t) :
       Begins(r, "rotate", tokens[t].user, Filter(s, tokens[t].user), t)
  /\ UNCHANGED <<device, expired, code, admins, tokens, live, approvals, denied, overwritten>>

RefreshRevokes(r) ==
  /\ Doing(r, "rotate") /\ live' = live \ {request[r].token} /\ Goes(r, "refresh")
  /\ UNCHANGED <<device, expired, code, admins, tokens, approvals, denied, overwritten>>

Revoke(t) ==
  /\ live' = live \ {t}
  /\ UNCHANGED <<device, expired, code, admins, tokens, request, approvals, denied, overwritten>>

RevokeGrants(u) ==
  /\ \E t \in live : tokens[t].user = u
  /\ live' = {t \in live : tokens[t].user # u}
  /\ UNCHANGED <<device, expired, code, admins, tokens, request, approvals, denied, overwritten>>

RevokeSystemAdmin(u) ==
  /\ u \in admins /\ admins' = admins \ {u}
  /\ UNCHANGED <<device, expired, code, tokens, live, request, approvals, denied, overwritten>>

Next ==
  \/ PostDeviceCode \/ TimeOver \/ PostDeviceDeny \/ ExpiredFound
  \/ \E u \in Users :
       \/ PostAuthorizeApprove(u) \/ RevokeGrants(u) \/ RevokeSystemAdmin(u)
       \/ \E r \in Requests : PostDeviceApprove(r, u)
  \/ \E t \in live : Revoke(t) \/ \E r \in Requests : TokenRefresh(r, t)
  \/ \E r \in Requests :
       \/ ApproveWrites(r) \/ TokenDeviceCode(r) \/ DeviceCodeConsumed(r)
       \/ TokenAuthorizationCode(r) \/ IssueAgentTokens(r) \/ RefreshRevokes(r)

Spec == Init /\ [][Next]_vars

-----------------------------------------------------------------------------
From(by) == {t \in DOMAIN tokens : tokens[t].by = by}

(* A token an agent holds carries no more than its user once agreed to,    *)
(* over any number of refreshes; each code is exchanged at most once, and  *)
(* a denied device code never, unless an approval was written over another *)
(* answer.                                                                 *)
AgreedOnly ==
  /\ \A t \in DOMAIN tokens : \E a \in approvals :
       a.user = tokens[t].user /\ tokens[t].scope \subseteq a.scope
  /\ Cardinality(From("code")) <= 1
  /\ overwritten \/ Cardinality(From("device")) <= (IF denied THEN 0 ELSE 1)

(* handlers.go:435 says of the exchange of a device code that it is        *)
(* consumed once: one code never yields tokens twice.                      *)
ConsumedOnce == Cardinality(From("device")) <= 1
=============================================================================
