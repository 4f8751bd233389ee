------------------------------- MODULE Deploy --------------------------------
(* Deployments of an SFU node to one remote host: a goroutine walks through  *)
(* the steps, creates a place for the node, starts it over SSH and waits     *)
(* until it is online; somebody may cancel, any step may fail, the server    *)
(* may restart, the node enrolls, connects and is lost when it will, and     *)
(* administrators delete, disable and revoke it (SfuNode has the steps of    *)
(* each).  The host may be saved, and its key with it when a deployment      *)
(* first connects to it (httpapi).                                           *)
EXTENDS Naturals, FiniteSets

CONSTANTS
  Deployments,  \* requests to deploy to that host
  MaxLives,     \* bound: nodes that connect, are barred or are deleted by others
  None

VARIABLES
  active,       \* the deployment that holds the host, or None
  cancel,       \* deployments that can be canceled
  canceled,     \* those whose context is over
  record,       \* by deployment, the status in its row, or None
  step,         \* by deployment, where its goroutine is, or None
  node,         \* by deployment, what the row of its node says, or None; a node
                \* that is drained stays "enrolled", and a node is "revoked" too
                \* when it was disabled before it had a certificate
  attached,     \* nodes whose control stream is in the registry
  came,         \* history: nodes that were attached
  doomed,       \* nodes an administrator found pending, and is about to delete
  seen,         \* deployments that saw their node no longer pending
  remote,       \* by deployment, the service runs on the host
  enabled,      \* deployments that enabled their node for scheduling; the flag
                \* of the row administrators change as they like
  snatched,     \* nodes no longer pending when somebody went on to delete them
  left,         \* deployments that end without looking after their node
  hostKey,      \* of the host: 1, or 2 when it was installed again
  server,       \* "none", "saved" or "deleted": the row of the saved host
  pinned,       \* its host_key_fingerprint, or None
  order,        \* by deployment, what was asked for until it connects: [keys, saved]:
                \* the keys it takes, and whether it names the row; or None
  replaced      \* history: another key was put for a pinned one by a deployment that
                \* knew the pinned one

vars == <<active, cancel, canceled, record, step, node, seen, remote, enabled,
          snatched, left, hostKey, server, pinned, order, replaced,
          attached, came, doomed>>
life == <<attached, came, doomed>>
host == <<hostKey, server, pinned, order, replaced>>

Init ==
  /\ active = None
  /\ cancel = {} /\ canceled = {}
  /\ record = [d \in Deployments |-> None]
  /\ step = [d \in Deployments |-> None]
  /\ node = [d \in Deployments |-> None]
  /\ seen = {} /\ remote = {} /\ enabled = {}
  /\ snatched = {} /\ left = {}
  /\ attached = {} /\ came = {} /\ doomed = {}
  /\ hostKey = 1 /\ server = "none" /\ pinned = None
  /\ order = [d \in Deployments |-> None] /\ replaced = FALSE

At(d, s)   == step[d] = s
Goes(d, s) == step' = [step EXCEPT ![d] = s]

-----------------------------------------------------------------------------
(* Start                                                                    *)

Busy == active # None

(* Bounds of the model: the host is saved, deleted and installed again once, *)
(* and before there is a node.                                              *)
Early == node = [d \in Deployments |-> None]

(* Saved again it keeps its key.                                            *)
SaveDeployServer ==
  server' = "saved" /\ pinned' = IF server = "saved" THEN pinned ELSE None

Others == <<active, cancel, canceled, record, step, node, seen, remote,
            enabled, snatched, left, life>>

CreateSfuDeployServer ==
  /\ Early /\ server = "none" /\ SaveDeployServer
  /\ UNCHANGED <<hostKey, order, replaced>> /\ UNCHANGED Others

DeleteSfuDeployServer ==
  /\ Early /\ server = "saved" /\ server' = "deleted" /\ pinned' = None
  /\ UNCHANGED <<hostKey, order, replaced>> /\ UNCHANGED Others

(* By the saved host, or by an address, which finds the key of a host that  *)
(* is saved.  Without a key to expect, or told to trust a new one, it takes *)
(* any.                                                                     *)
CreateDeployment(d) ==
  /\ order[d] = None /\ record[d] = None
  /\ \E trust \in BOOLEAN, saved \in {server = "saved"} \cup {FALSE} :
       order' = [order EXCEPT ![d] =
         [keys |-> IF pinned = None \/ trust THEN 1 .. 2 ELSE {pinned}, saved |-> saved]]
  /\ UNCHANGED <<hostKey, server, pinned, replaced>> /\ UNCHANGED Others

Refused(d) ==                      \* busy, or the preflight finds something
  /\ order[d] # None /\ record[d] = None /\ At(d, None)
  /\ order' = [order EXCEPT ![d] = None]
  /\ UNCHANGED <<hostKey, server, pinned, replaced>> /\ UNCHANGED Others

StartTakesHost(d) ==
  /\ order[d] # None
  /\ record[d] = None /\ At(d, None)
  /\ ~Busy
  /\ active' = d
  /\ Goes(d, "record")
  /\ UNCHANGED <<cancel, canceled, record, node, seen, remote, enabled,
                 snatched, left, host, life>>

StartRecords(d) ==
  /\ At(d, "record")
  /\ record' = [record EXCEPT ![d] = "running"]
  /\ Goes(d, "launch")
  /\ UNCHANGED <<active, cancel, canceled, node, seen, remote, enabled,
                 snatched, left, host, life>>

StartFails(d) ==
  /\ At(d, "record")
  /\ active' = None
  /\ Goes(d, None)
  /\ UNCHANGED <<cancel, canceled, record, node, seen, remote, enabled,
                 snatched, left, host, life>>

StartLaunches(d) ==
  /\ At(d, "launch")
  /\ cancel' = cancel \cup {d}
  /\ Goes(d, "validate")
  /\ UNCHANGED <<active, canceled, record, node, seen, remote, enabled,
                 snatched, left, host, life>>

Cancel(d) ==                       \* known only once it was launched
  /\ d \in cancel
  /\ canceled' = canceled \cup {d}
  /\ UNCHANGED <<active, cancel, record, step, node, seen, remote, enabled,
                 snatched, left, host, life>>

TimesOut(d) == Cancel(d)           \* thirty minutes: the same context

-----------------------------------------------------------------------------
(* The steps; each may fail, and a context that is over fails the next      *)

NormalizeSpec(d) ==                \* values are checked before any is used
  /\ At(d, "validate")
  /\ Goes(d, "connect")
  /\ UNCHANGED <<active, cancel, canceled, record, node, seen, remote,
                 enabled, snatched, left, host, life>>

Dial(d) == hostKey \in order[d].keys

Connects(d) ==                     \* the key is pinned, by the id of the row
  /\ At(d, "connect") /\ d \notin canceled /\ Dial(d)
  /\ IF order[d].saved /\ server = "saved"
     THEN /\ pinned' = hostKey
          /\ replaced' = (replaced \/ (pinned \notin {None, hostKey} /\ order[d].keys # 1 .. 2))
     ELSE UNCHANGED <<pinned, replaced>>
  /\ order' = [order EXCEPT ![d] = None]
  /\ Goes(d, "precheck")
  /\ UNCHANGED <<active, cancel, canceled, record, node, seen, remote,
                 enabled, snatched, left, hostKey, server, life>>

Precheck(d) ==                     \* root, or sudo with or without a password
  /\ At(d, "precheck") /\ d \notin canceled
  /\ Goes(d, "prepare")
  /\ UNCHANGED <<active, cancel, canceled, record, node, seen, remote,
                 enabled, snatched, left, host, life>>

HostReinstalled ==
  /\ Early /\ hostKey = 1 /\ hostKey' = 2
  /\ UNCHANGED <<server, pinned, order, replaced>> /\ UNCHANGED Others

Prepared(d) ==                     \* installed
  /\ At(d, "prepare") /\ d \notin canceled
  /\ Goes(d, "create")
  /\ UNCHANGED <<active, cancel, canceled, record, node, seen, remote,
                 enabled, snatched, left, host, life>>

CreatesNode(d) ==                  \* no step looks at the context here
  /\ At(d, "create")
  /\ node' = [node EXCEPT ![d] = "pending"]
  /\ Goes(d, "configure")
  /\ UNCHANGED <<active, cancel, canceled, record, seen, remote, enabled,
                 snatched, left, host, life>>

Configures(d) ==                   \* the service runs before PHASE2_OK
  /\ At(d, "configure") /\ d \notin canceled
  /\ remote' = remote \cup {d}
  /\ Goes(d, "started")
  /\ UNCHANGED <<active, cancel, canceled, record, node, seen, enabled,
                 snatched, left, host, life>>

Started(d) ==
  /\ At(d, "started")
  /\ Goes(d, "wait")
  /\ UNCHANGED <<active, cancel, canceled, record, node, seen, remote,
                 enabled, snatched, left, host, life>>

Approached == {d \in Deployments : node[d] # "pending"}

WaitOnline(d) ==                   \* one look at the row; none fails
  /\ At(d, "wait") /\ d \notin canceled /\ node[d] # None
  /\ seen' = seen \cup (Approached \cap {d})
  /\ Goes(d, IF node[d] = "online" THEN "enable" ELSE "look")
  /\ UNCHANGED <<active, cancel, canceled, record, node, remote, enabled,
                 snatched, left, host, life>>

(* A plausible mistake: a node that has enrolled is taken for connected.    *)
OnlineEnrolled(d) == node[d] # "pending"

Online(d) == d \in attached        \* the snapshot of the registry

LooksUp(d) ==                      \* and then one at the registry
  /\ At(d, "look")
  /\ Goes(d, IF Online(d) THEN "enable" ELSE "wait")
  /\ UNCHANGED <<active, cancel, canceled, record, node, seen, remote, enabled,
                 snatched, left, host, life>>

EnablesScheduling(d) ==            \* by id; or was not asked to
  /\ At(d, "enable")
  /\ enabled' \in {enabled, enabled \cup {d}}
  /\ Goes(d, "done")
  /\ UNCHANGED <<active, cancel, canceled, record, node, seen, remote,
                 snatched, left, host, life>>

(* What was asked for is of no use any more.                                *)
Drops(d) ==
  /\ order' = [order EXCEPT ![d] = None]
  /\ UNCHANGED <<hostKey, server, pinned, replaced>>

Fails(d) ==
  /\ step[d] \in {"validate", "connect", "precheck", "prepare", "create",
                 "configure", "wait", "enable"}
  /\ Drops(d)
  /\ IF d \in canceled
       THEN Goes(d, "canceled") /\ left' = left \cup {d}
       ELSE Goes(d, "clean") /\ UNCHANGED left
  /\ UNCHANGED <<active, cancel, canceled, record, node, seen, remote,
                 enabled, snatched, life>>

StartScriptFails(d) ==             \* the service is disabled if it can be
  /\ At(d, "started")
  /\ remote' \in {remote, remote \ {d}}
  /\ IF d \in canceled
       THEN Goes(d, "canceled") /\ left' = left \cup {d}
       ELSE Goes(d, "clean") /\ UNCHANGED left
  /\ UNCHANGED <<active, cancel, canceled, record, node, seen, enabled,
                 snatched, host, life>>

PendingPlace(d) == d \notin seen /\ node[d] = "pending"

CleansUp(d) ==                     \* reads the row before it deletes it
  /\ At(d, "clean")
  /\ Goes(d, IF PendingPlace(d) THEN "delete" ELSE "failed")
  /\ UNCHANGED <<active, cancel, canceled, record, node, seen, remote,
                 enabled, snatched, left, host, life>>

DeletesNode(d) ==
  /\ At(d, "delete")
  /\ node' = [node EXCEPT ![d] = None]
  /\ Goes(d, "failed")
  /\ UNCHANGED <<active, cancel, canceled, record, seen, remote, enabled,
                 snatched, left, host, life>>

Completes(d) ==
  /\ step[d] \in {"done", "canceled", "failed"}
  /\ record' = [record EXCEPT ![d] = IF At(d, "done") THEN "succeeded" ELSE step[d]]
  /\ Goes(d, "finish")
  /\ UNCHANGED <<active, cancel, canceled, node, seen, remote, enabled,
                 snatched, left, host, life>>

Finish(d) ==
  /\ At(d, "finish")
  /\ cancel' = cancel \ {d} /\ canceled' = canceled \ {d}
  /\ active' = IF active = d THEN None ELSE active
  /\ Goes(d, None)
  /\ UNCHANGED <<record, node, seen, remote, enabled, snatched, left, host, life>>

-----------------------------------------------------------------------------

(* Of who deletes the row, neither looks again.                             *)
Doomed(d) == At(d, "delete") \/ d \in doomed

Becomes(d, st) ==
  /\ node' = [node EXCEPT ![d] = st]
  /\ snatched' = IF Doomed(d) THEN snatched \cup {d} ELSE snatched
  /\ UNCHANGED <<active, cancel, canceled, record, step, seen, remote, enabled,
                 left, host, life>>

NodeEnrolls(d) ==
  /\ d \in remote /\ node[d] = "pending"
  /\ Becomes(d, "enrolled")

(* The bound, and of a host that is not saved: its key plays no part here.  *)
Lived == came \cup doomed \cup snatched
           \cup {d \in Deployments : node[d] \in {"disabled", "revoked"}}
Lives(d) == server = "none" /\ Cardinality(Lived \cup {d}) <= MaxLives

(* It has a certificate, and may have been let in before it was barred.     *)
NodeAttaches(d) ==
  /\ d \in remote \ attached /\ node[d] \notin {None, "pending"} /\ Lives(d)
  /\ attached' = attached \cup {d} /\ came' = came \cup {d}
  /\ UNCHANGED <<active, cancel, canceled, record, step, node, seen, remote,
                 enabled, snatched, left, host, doomed>>

(* A registration or a heartbeat, which read the row before it was barred.  *)
NodeComesOnline(d) ==
  /\ d \in attached /\ node[d] \in {"enrolled", "disabled", "revoked"}
  /\ Becomes(d, "online")

(* The stream ends, or is silent for too long ...                           *)
StreamEnds(d) ==
  /\ d \in attached
  /\ attached' = attached \ {d}
  /\ UNCHANGED <<active, cancel, canceled, record, step, node, seen, remote,
                 enabled, snatched, left, host, came, doomed>>

(* ... and it, or an older one, takes the row back.                         *)
NodeFallsOffline(d) ==
  /\ node[d] = "online"
  /\ Becomes(d, "enrolled")

(* PATCH and DELETE of administrators.                                      *)
NodeBarred(d) ==
  /\ node[d] \notin {None, "revoked"} /\ Lives(d)
  /\ \E st \in {"disabled", "revoked"} :
       /\ node[d] = "pending" => st = "revoked"
       /\ Becomes(d, st)

NodeReinstated(d) ==
  /\ node[d] = "disabled"
  /\ Becomes(d, "enrolled")

DeleteSfuNode(d) ==
  /\ node[d] = "pending" /\ Lives(d)
  /\ doomed' = doomed \cup {d}
  /\ UNCHANGED <<active, cancel, canceled, record, step, node, seen, remote,
                 enabled, snatched, left, host, attached, came>>

DeletesPending(d) ==
  /\ d \in doomed
  /\ doomed' = doomed \ {d}
  /\ node' = [node EXCEPT ![d] = None]
  /\ UNCHANGED <<active, cancel, canceled, record, step, seen, remote, enabled,
                 snatched, left, host, attached, came>>

Restart ==                         \* failStaleDeployments, and Serve
  /\ step # [d \in Deployments |-> None]
  /\ left' = left \cup {d \in Deployments : record[d] = "running"}
  /\ record' = [d \in Deployments |->
                  IF record[d] = "running" THEN "failed" ELSE record[d]]
  /\ step' = [d \in Deployments |-> None]
  /\ active' = None /\ cancel' = {} /\ canceled' = {} /\ seen' = {}
  /\ order' = [d \in Deployments |-> None]
  /\ node' = [d \in Deployments |-> IF node[d] = "online" THEN "enrolled" ELSE node[d]]
  /\ attached' = {} /\ doomed' = {}
  /\ UNCHANGED <<came, remote, enabled, snatched, hostKey, server, pinned, replaced>>

Next ==
  \/ \E d \in Deployments :
       \/ CreateDeployment(d) \/ Refused(d)
       \/ NormalizeSpec(d) \/ Connects(d) \/ Precheck(d)
       \/ StartTakesHost(d) \/ StartRecords(d) \/ StartFails(d)
       \/ StartLaunches(d) \/ Cancel(d) \/ TimesOut(d)
       \/ Prepared(d) \/ CreatesNode(d) \/ Configures(d) \/ Started(d)
       \/ WaitOnline(d) \/ LooksUp(d) \/ EnablesScheduling(d) \/ Fails(d)
       \/ StartScriptFails(d) \/ CleansUp(d) \/ DeletesNode(d)
       \/ Completes(d) \/ Finish(d)
       \/ NodeEnrolls(d) \/ NodeAttaches(d) \/ NodeComesOnline(d)
       \/ StreamEnds(d) \/ NodeFallsOffline(d)
       \/ NodeBarred(d) \/ NodeReinstated(d)
       \/ DeleteSfuNode(d) \/ DeletesPending(d)
  \/ Restart \/ CreateSfuDeployServer \/ DeleteSfuDeployServer \/ HostReinstalled

Spec == Init /\ [][Next]_vars

(* One deployment at a time on the host, and never a host held by nobody.   *)
(* A row that says RUNNING has its goroutine.  One that says SUCCEEDED, and  *)
(* a node enabled for scheduling by its deployment, had a control stream,    *)
(* and the node still has its row, offline or barred as it may be by now.    *)
(* Who fails leaves no place that nobody will fill, and takes no node that   *)
(* it saw enroll, unless it was canceled, lost its goroutine in a restart,   *)
(* or the node enrolled or was barred between the look and the deletion.     *)
(* The key pinned for the host is replaced by none but a deployment that     *)
(* was to trust a new one, or was asked for before there was a key.          *)
DeploymentsAreTrue ==
  /\ ~ replaced
  /\ \A d \in Deployments : step[d] # None <=> active = d
  /\ \A d \in Deployments :
       /\ record[d] = "running" => step[d] # None
       /\ record[d] = "succeeded" \/ d \in enabled =>
            /\ d \in came
            /\ node[d] # "pending"
            /\ node[d] = None => d \in snatched
       /\ record[d] = "failed" /\ d \notin left =>
            /\ node[d] # "pending"
            /\ d \in seen \ snatched => node[d] # None
       /\ At(d, "delete") /\ d \notin snatched => node[d] \in {"pending", None}
=============================================================================
