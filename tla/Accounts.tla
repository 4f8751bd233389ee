------------------------------ MODULE Accounts ------------------------------
(***************************************************************************)
(* The sessions of one account (clientapi and httpapi auth, userapi,       *)
(* platformadmin): a login opens a chain, a refresh revokes the token it   *)
(* was shown and issues the next one of the chain, and a change of         *)
(* password, a reset, a disabling or a log-out revokes what is live at     *)
(* that moment.  Each statement is a step of its own.  Both planes do the  *)
(* same with tokens of their audience; how long a token lives is left out. *)
(***************************************************************************)
EXTENDS Naturals, FiniteSets

CONSTANTS
  Requests,
  MaxTokens,      \* bound of the model: refresh tokens ever issued
  MaxPasswords,   \* bound of the model: changes of the password
  None

VARIABLES
  password,       \* changes of the password so far
  disabled,
  issued,         \* refresh tokens issued: ids 1 .. issued
  chain,          \* token -> session chain, the id of its first token
  live,           \* tokens whose row is not revoked
  request,        \* request -> [step, token, chain, pw, swept], or None
  knows,          \* history: chain -> password it proved
  dead,           \* history: chains somebody revoked
  late,           \* history: chains with a token whose issue crossed a
                  \* revocation, until the next one
  twins           \* history: chains of a token refreshed twice at once

vars == <<password, disabled, issued, chain, live, request, knows, dead, late, twins>>

Tokens == 1 .. MaxTokens

Init ==
  /\ password = 0 /\ disabled = FALSE /\ issued = 0
  /\ chain = [t \in Tokens |-> 0] /\ live = {}
  /\ request = [r \in Requests |-> None]
  /\ knows = [t \in Tokens |-> 0]
  /\ dead = {} /\ late = {} /\ twins = {}

Doing(r, step) == request[r] # None /\ request[r].step = step
Goes(r, step)  == request' = [request EXCEPT ![r].step = step]
Ends(r)        == request' = [request EXCEPT ![r] = None]

Begins(r, step, t, c, pw) ==
  /\ request[r] = None
  /\ request' = [request EXCEPT ![r] =
       [step |-> step, token |-> t, chain |-> c, pw |-> pw, swept |-> FALSE]]

-----------------------------------------------------------------------------
(* Login and refresh. *)

Login(r) ==
  /\ ~ disabled /\ Begins(r, "issue", 0, 0, password)
  /\ UNCHANGED <<password, disabled, issued, chain, live, knows, dead, late, twins>>

Refresh(r, t) ==
  /\ t \in live /\ Begins(r, "rotate", t, chain[t], 0)
  /\ twins' = IF \E q \in Requests : request[q] # None /\ request[q].token = t
              THEN twins \cup {chain[t]} ELSE twins
  /\ UNCHANGED <<password, disabled, issued, chain, live, knows, dead, late>>

\* By id, whether or not it has been revoked since it was read.
RefreshRevokes(r) ==
  /\ Doing(r, "rotate")
  /\ live' = live \ {request[r].token} /\ Goes(r, "user")
  /\ UNCHANGED <<password, disabled, issued, chain, knows, dead, late, twins>>

RefreshLoadsUser(r) ==
  /\ Doing(r, "user")
  /\ IF disabled THEN Ends(r) ELSE Goes(r, "issue")
  /\ UNCHANGED <<password, disabled, issued, chain, live, knows, dead, late, twins>>

IssueTokens(r) ==
  /\ Doing(r, "issue") /\ issued < MaxTokens
  /\ issued' = issued + 1 /\ live' = live \cup {issued'}
  /\ chain' = [chain EXCEPT ![issued'] = IF request[r].chain = 0 THEN issued' ELSE request[r].chain]
  /\ knows' = IF request[r].chain = 0 THEN [knows EXCEPT ![issued'] = request[r].pw] ELSE knows
  /\ late' = IF request[r].swept THEN late \cup {chain'[issued']} ELSE late
  /\ Ends(r)
  /\ UNCHANGED <<password, disabled, dead, twins>>

IssueFails(r) ==
  /\ Doing(r, "issue") /\ Ends(r)
  /\ UNCHANGED <<password, disabled, issued, chain, live, knows, dead, late, twins>>

Logout(t) ==
  /\ live' = live \ {t}
  /\ UNCHANGED <<password, disabled, issued, chain, request, knows, dead, late, twins>>

-----------------------------------------------------------------------------
(* Revocations: of every chain but one (0: of every chain), or of one. *)

Chains == {chain[t] : t \in 1 .. issued}

\* Mutant: only tokens a login issued.
CoveredAtLogin(cs) == {t \in live : chain[t] \in cs /\ t = chain[t]}

Covered(cs) == {t \in live : chain[t] \in cs}

\* A request under way whose token will be issued after the revocation.
Crosses(q, cs) ==
  request[q] # None /\ request[q].step # "sweep" /\ request[q].chain \in cs \cup {0}

Sweep(cs, after) ==
  /\ live' = live \ Covered(cs) /\ dead' = dead \cup cs /\ late' = late \ cs
  /\ request' = [q \in Requests |->
       IF Crosses(q, cs) THEN [after[q] EXCEPT !.swept = TRUE] ELSE after[q]]

Done(r) == [request EXCEPT ![r] = None]

ChangePassword(r, c) ==
  /\ ~ disabled /\ password < MaxPasswords /\ password' = password + 1
  /\ Begins(r, "sweep", 0, c, 0)
  /\ UNCHANGED <<disabled, issued, chain, live, knows, dead, late, twins>>

ResetPassword(r) ==
  /\ password < MaxPasswords /\ password' = password + 1
  /\ Begins(r, "sweep", 0, 0, 0)
  /\ UNCHANGED <<disabled, issued, chain, live, knows, dead, late, twins>>

DisableUser(r) ==
  /\ ~ disabled /\ disabled' = TRUE /\ Begins(r, "sweep", 0, 0, 0)
  /\ UNCHANGED <<password, issued, chain, live, knows, dead, late, twins>>

RevokeAllSessions(r) ==
  /\ Doing(r, "sweep")
  /\ LET c == request[r].chain
     IN /\ Sweep(Chains \ {c}, Done(r))
        /\ knows' = IF c = 0 THEN knows ELSE [knows EXCEPT ![c] = password]
  /\ UNCHANGED <<password, disabled, issued, chain, twins>>

RevokeOtherSessions(c) ==
  /\ Sweep(Chains \ {c}, request)
  /\ UNCHANGED <<password, disabled, issued, chain, knows, twins>>

RevokeSession(c) ==
  /\ Covered({c}) # {} /\ Sweep({c}, request)
  /\ UNCHANGED <<password, disabled, issued, chain, knows, twins>>

\* One transaction.
DeleteAccount ==
  /\ ~ disabled /\ password < MaxPasswords
  /\ disabled' = TRUE /\ password' = password + 1
  /\ Sweep(Chains, request)
  /\ UNCHANGED <<issued, chain, knows, twins>>

EnableUser ==
  /\ disabled /\ disabled' = FALSE
  /\ UNCHANGED <<password, issued, chain, live, request, knows, dead, late, twins>>

Next ==
  \/ \E r \in Requests :
       \/ Login(r) \/ RefreshRevokes(r) \/ RefreshLoadsUser(r)
       \/ IssueTokens(r) \/ IssueFails(r)
       \/ ResetPassword(r) \/ DisableUser(r) \/ RevokeAllSessions(r)
       \/ \E t \in live : Refresh(r, t)
       \/ \E c \in Chains : ChangePassword(r, c)
  \/ \E t \in live : Logout(t)
  \/ \E c \in Chains : RevokeOtherSessions(c) \/ RevokeSession(c)
  \/ DeleteAccount \/ EnableUser

Spec == Init /\ [][Next]_vars

-----------------------------------------------------------------------------
Quiet == \A r \in Requests : request[r] = None

(* When nothing is under way, a live token belongs to a chain nobody has   *)
(* revoked, that proved the password of now, of an account that is not     *)
(* disabled, and it is the only one of its chain; unless it was issued     *)
(* while the revocation ran, or one token was refreshed twice at once.     *)
RevokedStaysOut ==
  Quiet =>
    \A t \in live :
      \/ chain[t] \in late
      \/ /\ chain[t] \notin dead /\ knows[chain[t]] = password /\ ~ disabled
         /\ \A s \in live : chain[s] = chain[t] => s = t \/ chain[t] \in twins
=============================================================================
