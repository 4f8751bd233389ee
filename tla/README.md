# A verification project for Newt-Server

Newt-Server is the server of a voice and text chat platform: a Go process that serves HTTP and a
WebSocket gateway, keeps its data in PostgreSQL, and drives a fleet of SFU nodes that carry the media.
This directory holds TLA+ models of the parts of it that are concurrent or stateful, the TLC
configurations that check them, and TLAPS proofs about them. Paths below are relative to
`src/backend/internal/` unless they start with `src/`.

1. [Inventory](#1-inventory): the parts of the system, their state, how they interact, what must hold
2. [Modules](#2-modules): which module models what, and how it corresponds to the code
3. [Runs](#3-runs): what TLC checks, with which bounds and which fairness
4. [Proofs](#4-proofs): what TLAPS proves, along which argument
5. [Disagreements](#5-disagreements): where code and documents differ
6. [Races that the properties except](#6-races-that-the-properties-except)
7. [Limits](#7-limits): what is only model-checked and what is not modelled
8. [Plan](#8-plan)

## 1. Inventory

The server is one process. Its packages call each other directly or over an in-memory event bus
(`eventbus`), share the database, and mostly do without database transactions: what keeps two
requests apart is a mutex here and there. That is where the hard behaviour is. The SFU nodes are
another program, which this repository does not contain; they connect to the server with a control
stream and report what their clients do.

### Gateway sessions (`gateway/session.go`, `gateway/conn.go`)

*State*: per session a counter `seq`, a replay buffer, the connection that carries it and the time
it was disconnected; per connection a bounded send queue and a `done` channel.
*Operations*: `dispatch` numbers an event, retains it and queues it; `resumeAttach` collects what a
client missed and rebinds the session; `detach` unbinds it; `writePump` writes the queue;
`shutdown` closes.
*Interaction*: the bus worker dispatches, one handler goroutine per connection attaches and detaches,
`writePump` and the sweeper run on their own.
*Hard*: a RESUME that races with events, with the old connection's cleanup and with the sweeper; a
queue that is full; a buffer that is one frame too short.
*Correct when*: the client sees every number once and in order across any number of connections, or
is told that it cannot.

### Gateway hub and presence (`gateway/hub.go`, `gateway/handler.go`, `gateway/store.go`, `presence`)

*State*: the registry of sessions; per user what each session wants to be and does, and a custom status.
*Operations*: IDENTIFY, RESUME, `closeUserSessions` (revocation), `sweep`, `push`; status and activity
updates.
*Interaction*: handlers, the bus worker and the sweeper meet under `hub.mu`, but each leaves it between
the steps of one operation: the session that was found is attached later, the presence of a session
that was removed is cleared later, and whom to tell of a change is found after the lock is released.
*Hard*: a revocation between the steps of a RESUME; late presence updates.
*Correct when*: no connection is served without a session that gets events; a revocation closes what
was open; a session nobody came back for goes away; a watcher was last told what he would see.

### Voice: migration, cascade, placement, members (`voice`, `mediatoken`)

*State*: the voice state of each user, migration jobs (`QUEUED` to `DONE`, `FAILED`, `CANCELED`), per
room a lease (anchor node and epoch) and edges, reservations of capacity, tokens.
*Operations*: join, leave, mute, disconnect; the engine's `tick` with PREPARE, CONNECT, CUTOVER,
CLEANUP; `ensureCascade`, `cascadeAfterLeave`, `reRoot`; `PickNode`; the detectors that move users away.
*Interaction*: joins, leaves, PREPARE and CLEANUP hold `Service.mu`; the tick works on copies of rows
it loaded without it, the client's ack writes without it, and permissions are checked before it is taken.
*Hard*: stale copies, retries of a job half done, a crash in any phase, several nodes lost in a row, a
step that fails half way, a removal of a member while his join is under way, events that get lost.
*Correct when*: the engine never cuts the session the user is on; a migration ends without the client's
help; the graph is one star under the present anchor and users reach it; who is removed or muted is out
or silent in the end; a join is refused only when the nodes are full.

### Stage and screen shares (`stage`)

*State*: per channel the mode, seats, request queue, capacity mutes, screen slots, all rows.
*Operations*: the handlers of `api.go`, `reconcileChannel` after each change of the room, and the scans
of `background.go` (grace after a disconnection, reservations, quota).
*Interaction*: a lock per channel; the voice module changes the voice states outside it and reconciles
afterwards; the quota of shares is per guild, and so above the lock.
*Hard*: the room outgrows its window while seats and queue change; scans act on rows they loaded
before; two channels count the same quota.
*Correct when*: the rows of a settled room fit the room, speakers never exceed their bound, the queue
is fair, quotas hold, and what is above them goes away while the platform says so.

### SFU nodes (`sfucontrol`, `sfunode`, `sfubridge`, `sfudeploy`, `httpapi/sfu_*.go`)

*State*: per node a row (status, scheduling, certificate) and an entry in the registry of control
streams; edges and who waits for them; the nodes a guild may use; deployments and saved hosts.
*Operations*: enrollment, heartbeat, stream end, stale and death detection, PATCH and deletion,
upgrades; `WaitEdgeUp`, `SendCommand`, `Resolve`; grant and selection of nodes; a deployment over SSH.
*Interaction*: streams, the monitor, administrators and the upgrade write one row by its id after
they have read it; reports of nodes meet their waiters in the registry.
*Hard*: a stream that ends after its successor began; a revocation between a read and a write; a
deployment that is canceled, fails or loses its server.
*Correct when*: a node out of service stays out, a node that is up is in service again, a node that is gone
is declared down; nobody waits for what has come; a host has one deployment at a time.

### Messages (`message`)

*State*: message rows with version and history, the search index and its queue, attachments and
objects, audiences and reactions, read states, interactions, voice packs.
*Operations*: send, edit, stream, delete, restrict, react, acknowledge, upload, collect, index.
*Interaction*: handlers read the row, write by its id, work out who may see it and publish; index
workers, the collector and the expiry of interactions run on their own.
*Hard*: two edits of one version; events that leave in another order than the writes; a collector that
decides by a row it read before.
*Correct when*: no text is lost and the index follows; a restricted message reaches its audience and no one
else; files that are shown exist; a user has read what he read.

### Guilds (`guildapi`, `moderation`, `perms`, `auditundo`, `audit`, `customization`, `publicinvite`, `restriction`)

*State*: members, bans, invites, owner; channels, categories, overwrites, passwords and unlocks; roles and
who has them; restrictions and their cache; the audit log; the pictures of guilds, users and roles.
*Operations*: one handler each, and the inverse of many of them by the audit log.
*Hard*: a handler checks first and writes later, often the row as a whole; an undo restores a row that
has changed; a cached answer outlives what it says; the file of a picture and the row that names it are
changed by two steps.
*Correct when*: nobody is banned and a member; an invite brings no more than it allows; a channel is shown
to whoever may see it; a deleted role stays away; an answer is at most as old as the cache allows; a picture
that a row names can be fetched.

### Accounts, agents, bots, social, cosmetics, stickers (`clientapi`, `userapi`, `platformadmin`, `registrationinvite`, `oauth`, `botapi`, `social`, `activity`, `cosmetics`, `sticker`)

*State*: tokens and passwords; administrators; grants; bots with their guilds; relations, conversations and
private groups; points and purchases; what a user wears; sticker packs in libraries with counted pictures.
*Hard*: a revocation while a token is refreshed or issued; the last administrator; a code that is
approved and denied at once; a purchase that is retried; a block while a conversation is opened; a count
that several uploads change.
*Correct when*: a revoked token is of no use; somebody administers; a grant never widens; the ledger explains
the balance; friendship is mutual; a picture in use has a row that counts its uses.

### Other parts

`PROJECT.json` lists every package with its status. What is not modelled is pure input and output,
queries, cryptography or wiring; `eventbus` appears as the queues of its subscribers.

## 2. Modules

The rule for what is one action: a critical section is one action when everything it reads and writes
is protected by its lock, a transaction that locks the rows it reads is one action, and an operation that
leaves its lock in between is one action per part. Where the code has no lock at all, each access of a
row is an action of its own.

A module of handlers without a lock has a variable `request` (or `job`): what each handler in progress
has read and has still to write. `Begins` starts one, and the actions named after the functions of the
code take it through its writes and publications. History variables (`crossed`, `met`, `late`, ...)
record that two handlers overlapped in the way a race of section 6 needs, so that a property can say
what holds otherwise.

| module | models | composed in | properties |
|---|---|---|---|
| `SessionStream` | what a session promises its client (abstract) | refined by `GatewaySession` | |
| `GatewaySession` | one session and the connections that carry it | | `StreamInv`, `ImplementsStream`, `DetachSparesSuccessor`, `Progress` |
| `GatewayHub` | registry, IDENTIFY, RESUME, revocation, sweep, presence of one user's sessions | | `NoZombie`, `CleanedUp` |
| `Migration` | the migration jobs of one user, and the joins and leaves that race with them | `MCVoice`, `MCLive` | `MovesAreSafe`, `EndsUnaided` |
| `Cascade` | the cascade graph of one room | `MCVoice` | `OneStar`, `JoinedReachAnchor`, `GraphLivesWithRoom` |
| `VoiceMember` | one member's voice state, right, token and media sessions | | `RulingsPrevail` |
| `Placement` | the choice of a node with its reservations | `MCVoice` | `PlacedByRule` |
| `Detectors` | overload, broken edges and failed ICE as sources of migrations | `MCVoice` | `FiresWithGrounds` |
| `SfuNode` | the row of a node, its streams, monitor, administrators, upgrade | | `NodeIsEntitled`, `NodeSettles` |
| `SfuControl` | waiters for an edge and for answers of a node | `MCVoice` | `WaitsAreMet` |
| `NodePool` | candidates and selection of nodes of a guild | `MCVoice` | `PlacedByRule` |
| `Deploy` | deployments to one host, the saved host and its key, and what becomes of their nodes | `MCVoice` | `DeploymentsAreTrue` |
| `Stage` | seats, queue, mutes and shares of one channel | `MCContent` | `SettledRoom`, `SeatsAreFair` |
| `ScreenQuota` | the shares of one guild against their quotas | | `QuotaHolds`, `LoopSettles` |
| `Messages` | the text of one message, its history and its index | `MCContent` | `TextsAreTrue` |
| `Attachments` | one attachment: row, object, collector | `MCContent` | `FilesServed` |
| `VoicePacks` | a pack of sounds, who chose it, what is played | `MCContent` | `FilesServed` |
| `Audience` | who is shown a restricted message and its reactions | `MCContent` | `ReachesAudience` |
| `ReadStates` | one reader of one channel | `MCContent` | `ReadsAreTrue` |
| `Interactions` | buttons of a bot's message and its answers | `MCLive` | `EndsOnce` |
| `Channels` | one channel, its category, an overwrite, a password, their undoing and its notice | `MCContent` | `ChannelsAreTrue` |
| `Membership` | members, people and bots, an invite, bans, the owner of one guild | `MCAccounts` | `MembersAreTrue` |
| `Accounts` | the tokens of one account | `MCAccounts` | `RevokedStaysOut` |
| `Registration` | sign-up and the administrators | `MCAccounts` | `PlatformIsHeld` |
| `OAuth` | codes and tokens of agents | `MCAccounts` | `MachinesAreHeld` |
| `Bots` | one bot: tokens, guilds, voice seat, call limit | `MCAccounts` | `MachinesAreHeld` |
| `Points` | activity, ledger and purchases of one user | `MCAccounts` | `PointsAddUp` |
| `Social` | two users: relation and conversation | `MCAccounts` | `SocialIsTrue` |
| `GroupChannel` | one private group and its views | `MCGuild` | `ShownTruly` |
| `Presence` | one user's presence and one watcher | `MCGuild` | `ShownTruly` |
| `Restrictions` | a member's restrictions, cache and events | `MCGuild` | `RightsAreTrue` |
| `Roles` | one role, its holders, the nickname and name style of members, what clients were told of them, and undoing by the audit log | `MCGuild` | `RightsAreTrue` |
| `StickerPacks` | one pack: quota, bans, libraries, availability | `MCGuild` | `StickersAreTrue` |
| `StickerAssets` | items, covers and counted pictures | `MCGuild` | `StickersAreTrue` |
| `Wardrobe` | catalogue, bundle and worn cosmetics of one user | `MCGuild` | `CosmeticsAreTrue` |
| `PublicAssets` | pictures of a user, a guild, a role | `MCGuild` | `AssetsAreTrue` |

`GatewaySessionProofs` holds the theorems about `GatewaySession`; `VoiceProofs`, `AccountsProofs`, `GuildProofs` and
`ContentProofs` those about `MCVoice`, `MCAccounts`, `MCGuild` and `MCContent` with their parts. The theorems about
`GatewayHub`, `SfuNode` and `ScreenQuota` are at the end of these modules. `MC` modules compose parts
that share no state: the variable `part` says of which one a behaviour is. They are composed for
economy, not because they interact: one run of TLC checks them with one start, and each part has as many
states as it would have by itself. (A variable that has several initial values is pinned while another part
runs, so that it does not multiply its states.) A property of an `MC` module that names several parts is
the conjunction of their properties, which are defined and commented in the modules.

**GatewaySession.** A frame is its number. `Dispatch` is `session.dispatch` under `session.mu`; when it
finds the queue of the connection full, `SlowShutdown` and `SlowDetach` are the two calls of
`hub.push` that follow outside the lock. `Lookup`, `Attach`, `Register`, `WriteReplay`, `GoLive`,
`Leave`, `Detach` are the handler of a connection from `resume` to the deferred cleanup of `serve`.
`Pump`, `PumpFail`, `CloseSocket` are `writePump` and the socket; `Reconnect` and `Receive` are a
client that reads in order and resumes with the last number it took. Ages are not counted: a record may be
too old at any append, a detached session at any sweep. The client keeps one connection at a time and what
is written on a dropped one is lost. `SessionStream` is the promise: events are numbered 1, 2, 3, ..., the
client takes the next number or is told that the session is lost. `GatewaySession` refines it with
`sent <- seq, seen <- last`.

**GatewayHub.** A session is reduced to whether it is registered, what it is bound to, whether its
`disconnectedAt` is set, and whether presence counts it. The steps of `closeUserSessions` and `sweep`
on both sides of `hub.mu`, those of a RESUME, and the two halves of a PRESENCE_UPDATE are actions.
Two abstractions: `push`'s shutdown and detach are one step here (they are two in `GatewaySession`),
and the replay is left out.

**Migration.** The rows are variables, and so is what the engine does not look at again: `due` is the
list of copies that a tick steps through, `acking` the jobs whose ack was read. A media session is the
number of its sid, `issued` says for which node and room; `held` are those open on their node. Capacity
and cascade are a placement that may fail. Deadlines may have passed at any step.

**Cascade.** One room. `EnsureCascade`, `CascadeAfterLeave` and `ReRoot` are the functions of the same
names; `Join`, `Leave`, `Prepared`, `Cleanup` and `MigrateNode` are their callers, each of which holds
`Service.mu` throughout. `EnsureFailed` and `LeftBehind` are what a failing call leaves in the rows.
The election keeps the first criterion (most users) and leaves the tie-breaks open.

**VoiceMember.** One member, two rooms. What runs under `Service.mu` is one action; the permission check
of a join, the writes of moderators and the events that follow them are not. Events may be lost, the
caps cache may hold an old answer for its life, a token works until it expires, whoever shows it is admitted.

**SfuNode.** `decided` holds what a handler that read the row has decided to write and has not yet. A
stream has a phase from the hello to the deferred cleanup; the monitor's clock counts missed beats.
The server may restart, which forgets the registry. **SfuControl** has one edge of one room and one
node; **NodePool** an administrator who grants and managers who select; **Placement** counts places,
the ranking by distance and load is any order; **Detectors** keep the clocks of the three detectors.

**Stage.** `Reconcile` is `reconcileChannelLocked` with `syncPresence` and `retainSpeakersOnSwitch`.
Joins, leaves and reports of the SFU change the voice states and leave the room `dirty` until a
reconcile ran; `patchVoiceStage` and the reconcile it ends with are two actions because the voice
states are read a second time in between. Handlers that change the rows in the same way are one action
(`Unqueue`, `ScreenStop`, `BringDown` name theirs). Times are kept as orders. **ScreenQuota**:
`ScreenStart` and `Create` are the two halves of `screenStart` under the lock of the channel: counting
all slots of the guild, and taking one. `ScanReservations`, `LoadSetting`, `EnforceDynamicQuota` and `Release`
are the background loop, which loads rows and then handles them one by one; `enforceDynamicQuota` reads the
settings of the platform once and ends shares only if `DynamicEnabled` and `GentleEndOldest` are both on
(`stage/background.go:107`), which `AdminSettings` changes at any time. Its count of the slots and the load of the
rows it ends are one step.

**Messages** numbers texts; `edits` is the history table. A worker per plane and the backfill read a row
and write the index in two steps; the queue drops what it cannot hold. **Audience** keeps what each client
shows; visibility is recomputed by the code's rules from roles, users named, policy and managers.
**Channels** has one viewer for whom an overwrite of the channel may hide it; what he is shown and what the
row says are compared. The undoing of an update writes back the row it read, of a ban inserts the ban, of a
role writes some of its columns, as in the code. `NoticeUndone` is the CHANNEL_UPDATE that the undoing of an update
or of an overwrite publishes to the whole guild: who does not list the channel may list it from then on.

**Membership.** A row has an id of its own, so that a handler that deletes the row it read misses one that was
created since. `InstallBot` and `BotInstalled`, `UninstallBot` and `DeleteBot` are the ways of a bot in and out,
of which none asks whether the bot owns the guild; `DeleteAccount` refuses an owner, and deletes later.
`UndoGuildUpdate` and `GuildSaved` are the undoing of a change of the guild, which reads the row and saves all of
it, owner included. In **PublicAssets** the same pair saves the icon and the banner it has read.

**Points** uses days as numbers, one user and one item; **Accounts** and **OAuth** number tokens in the
order of issue; **Deploy** names the places its goroutine can be at, and the host key is one of
two: the host may be installed again. Its node has a row and a control stream of its own: it enrolls,
attaches, comes online and falls back (`StreamEnds`, `NodeFallsOffline`), is disabled, revoked, reinstated or
deleted by administrators, and loses stream and ONLINE in a restart. `waitOnline` looks at the row (`WaitOnline`)
and then at the registry (`LooksUp`), which knows of the stream before the row says ONLINE. In **Wardrobe** the
rewriting of a bundle deletes all links first and inserts them one by one; it may fail at any of them (`LinkFails`)
and leaves what it has inserted. **Wardrobe**, **StickerAssets** and **PublicAssets** model a picture as
its name, a file as a member of a set, and the limit of a pack or of a banner list as a small number.

Definitions whose comment begins with "Mutant" or "A plausible mistake" are deliberate errors next to the
definition they would replace (a dropped guard, a stale value, a missing reset). They are not part of any
specification; `PROJECT.json` says which property each of them breaks.

## 3. Runs

All passing runs are exhaustive for their bounds. States are distinct states.

| run | module | what may happen in it | states | result |
|---|---|---|---|---|
| `session_stream` | `GatewaySession` | 2 connections, send queue 1, replay buffer 1, 3 events | 119,100 states | holds |
| `hub_registry` | `GatewayHub` | 2 connections, 2 sessions, 2 revocations | 105,494 states | holds |
| `voice` | `MCVoice` | 2 jobs, 3 nodes, 1 fault; 3 users, 3 epochs; 2 waiters, 2 commands; 2 small nodes, 3 reservations; 2 managers; 3 detectors, 8 instants; 2 deployments, the node of one lives on | 1.24 M states | holds |
| `live` | `MCLive` | 1 job, 2 nodes, 2 rooms, 1 join; 2 presses, 2 calls | 39,048 states | holds |
| `voice_member` | `VoiceMember` | 2 rooms, tokens of life 2, 3 writes of moderators | 575,879 states | holds |
| `sfu_node` | `SfuNode` | 2 streams, 2 missed beats | 728,684 states | holds |
| `screen_quota` | `ScreenQuota` | 2 channels, 4 shares, quota of a channel 2, of the guild 2, 3 settings | 120,210 states | holds |
| `content` | `MCContent` | 2 handlers at a time in each part; 3 texts, queue 1, 3 indexers; 2 uploads; 3 users on stage | 3.37 M states | holds |
| `accounts` | `MCAccounts` | 2 handlers at a time in each part; 2 users, 3 ids, 3 tokens, 3 registrants, 2 scopes | 4.41 M states | holds |
| `guild` | `MCGuild` | 2 handlers at a time in each part; see the comment of `Guild.cfg` | 2.37 M states | holds |
| `screen_oversold` | `ScreenQuota` | as `screen_quota` | | violated |
| `unblock` | `Social` | 2 users, 2 handlers | | violated |

**session_stream** (`StreamInv`, `ImplementsStream`, `DetachSparesSuccessor`, `Progress`). The session refines
`SessionStream`; no event falls between the replay list and the queue of a RESUME; the late
cleanup of an old connection spares its successor; a bound connection delivers; a connection that was
shut does not stay bound. Two connections are one RESUME that overlaps the old connection; capacity 1
makes the queue overflow at the second frame and the replay buffer miss a frame at the second event;
with the third event, a gap has an end on both sides.

**hub_registry** (`NoZombie`, `CleanedUp`). A served connection has a session that gets events or is about
to be shut by a RESUME; a connection that a revocation found is shut in the end, and a detached session that
no revocation touched is swept. Two connections meet in one session or have one each; the second
revocation finds what the first left.

**voice**. *Migration* (`MovesAreSafe`): two jobs of different priority are the least at which one preempts
the other; three nodes leave a retry a node that was not tried; the fault is a restart in any phase or a
voice state that cannot be written. The engine never cuts the session the voice state names, and a job
that is alone clears its source. *Cascade* (`OneStar`, `JoinedReachAnchor`, `GraphLivesWithRoom`): three
nodes are a root, a leaf and a node to move to; with three users a node can be shared while two nodes
differ in size; three epochs let the root be lost twice. *Waits* (`WaitsAreMet`): no waiter is left on the
list by a report that should have woken it, whichever came first, and the receiver of a node's answers never
blocks. *Choice* (`PlacedByRule`): a join is refused only when every node is really taken, never by places
reserved for its own failed attempts; a guild gets only nodes it was granted. *Detectors*
(`FiresWithGrounds`): sessions are moved with grounds only, and a detector then rests; eight instants hold
two windows and a cooldown. *Deployments* (`DeploymentsAreTrue`): one deployment at a time; one that
succeeded, or enabled its node, had a control stream of it, whatever the node has come to since; one that failed leaves
no place that nobody will fill and takes no node that it saw enroll; a pinned key is not replaced unseen. Two
deployments are one after the other or one against the busy host; the node of one of them (`MaxLives`) connects, is
barred and is deleted by others, for what becomes of a node does not touch the other deployment's.

**live** (`EndsUnaided`, `EndsOnce`). A client that never answers cannot keep a
migration in CONNECT, and a job ends, through joins, leaves, late acks and failed placements. A user whose
button waits is told once of an answer or an expiry, with two presses and two calls of the bot that race.

**voice_member** (`RulingsPrevail`). Who was removed, banned, disconnected or moved is not on the old
session in the end, and who was muted is not heard for ever, though events get lost, name a room left
since, or arrive before a join that was checked earlier, and though the cache holds an old answer. Three
writes are a ruling, its opposite, and the ruling again.

**sfu_node** (`NodeIsEntitled`, `NodeSettles`). Registry and row follow the node that is entitled to them: the
end of an old stream does not take out its successor, and a revoked node is back only through a handler that had
read the row before. A node that is up is in service again or given up, a node that is gone is declared
down. Two streams overlap; two missed beats separate late from dead.

**screen_quota** (`QuotaHolds`, `LoopSettles`). Two channels race for the quota of the guild, which either
could fill; four shares are two above it. The quota of a channel is exact, that of the guild can be exceeded
by one slot for each other channel and no more, reservations resolve, and the loop brings the guild back
within its limit again and again once both settings of the platform stay on.

**content**. `TextsAreTrue`: the history of a message and its text are all it ever had, in order, and the
index holds the text of a live message when nothing is under way. `FilesServed`: what a live message shows
can be downloaded; a deleted pack of sounds stays deleted, has no file and is chosen by nobody.
`ReachesAudience`: the clients show a restricted message to whoever may see it and nobody else, and agree on
its reactions. `ReadsAreTrue`: who wrote or acknowledged has read, and the count of mentions is right.
`ChannelsAreTrue`: a channel is shown where and only where it may be seen, under a parent that exists, and
unlocked by the password it has. `SettledRoom`, `SeatsAreFair`: with a window of 1 the second user makes the
room outgrow it and the third shows the order; two seats can be trimmed to one; the queue of 2 is full while
a third asks. The restricted user is the one the retained seats skip.

**accounts**. `MembersAreTrue`: uses of an invite stand for members, the list of the clients holds the
members, nobody is banned and a member, and the owner is one, among people, of whom one may delete his account,
and bots that are installed, uninstalled and deleted. `RevokedStaysOut`: a live token belongs to
a chain nobody has revoked and proved the password of now. `PlatformIsHeld`: an administrator is left.
`MachinesAreHeld`: a token carries no more than was agreed to, a code is exchanged once, a deleted bot
cannot act. `PointsAddUp`: the ledger explains the balance, a day is paid once. `SocialIsTrue`: friendship is
mutual and two users have one conversation. Two handlers are what every race here needs, three tokens a
refresh of a refresh, three registrants two administrators and one more.

**guild**. `StickersAreTrue`: what the picker lists may be sent, quotas are exceeded by races only, and the
count of a picture is never below its uses. `AssetsAreTrue`: a picture that a row names can be fetched, and no
file is left that nobody names. `RightsAreTrue`: a deleted role stays away, an entry is undone once, and clients
know the role and its members as their rows are; what is
in force is answered with a staleness of at most the life of the cache, and the end of a restriction is told.
`ShownTruly`: a watcher of a user's presence and the members of a group were last told what is.
`CosmeticsAreTrue`: a picture in use is counted, what is for sale has its pictures, a bundle holds nothing but
the last choice and all of it if its writing did not fail, a purchase grants a choice as a whole, others see what
is worn.
One object of each kind with two handlers shows every pair of its steps; a third item, file or entry is
there where one is replaced while another is undone.

The two violations are in section 5. Every property of a passing run has a mutant in `PROJECT.json` that
breaks it under the same configuration; a property that joins parts has some more, so that no part is
there for nothing.

### Fairness

Liveness is checked under what the Go scheduler and the code's own loops guarantee, and nothing of
clients, users or the network:

- *GatewaySession*: the bus worker finishes its push, handlers and writers run, a closed socket ends
  reads and writes, and the client, while it is connected, reads. Nobody has to reconnect, and the
  sweeper does not have to find a session old.
- *GatewayHub*: worker and handlers run, a shut connection ends its handler. The sweep is strongly fair
  for each session: `sweepLoop` repeats and a session that stays detached gets older than the window.
- *Migration*: the engine ticks every 300 ms and steps through each tick (weak). A deadline that is
  checked again and again has passed at some check, and placement succeeds at some attempt (strong
  fairness of `ConnectTimeout`, `Retry`, `Prepared`, `PrepareCanceled`). The last is an assumption about
  the pool of nodes: without a node to take the user a migration does not end, nor should it.
- *Interactions*: the collector runs again and finishes its list, and a call in progress finishes. No bot
  has to call.
- *SfuNode*: a stream in progress saves its heartbeat, a shut one ends and its deferred update runs; time
  passes, and the two scans of the monitor run. Nodes need not come back and administrators need not act.
- *VoiceMember*: time passes, so that tokens and cached answers expire, and an answer that was read is stored.
  Events may all be lost: what puts a member out in the end is the expiry of his token.
- *ScreenQuota*: a handler with the lock finishes; the loop repeats, a reservation is overdue some day
  (strong, since other steps disable a scan for a while), and a Go mutex starves nobody. Administrators owe nothing:
  `QuotaRecovers` is about the time when the settings stay on.

`CHECK_DEADLOCK FALSE` is set where the bounds stop the model (connections, events, jobs or handlers run out).

## 4. Proofs

The proofs hold for every value of the constants that the assumption of the module admits; these say
only that `None` is a value of its own, that bounds are numbers and capacities positive, that sets which
are counted are finite, that `Two` has two elements, that the author of a message is a user and the backfill one of
the index workers. Each component has an inductive invariant, of which the
properties are consequences. TLC has checked each of them on the run of its module before it was proved.

**GatewaySession** (`TypeCorrect`, `PipelineFollowsOn`, `EachFrameIsNew`, `SuccessorSpared`,
`StreamImplemented`). `NothingStranded` says nothing while the connection is not bound or is being cut
off, so it is not inductive. `StreamInv` is: the buffer holds the last numbers (`BufferIsTail`); a
connection carries nothing before it is attached (`HandshakeOrder`); what a RESUME asks for is what the
client took (`LastIsAsked`); who leaves is shut (`ShutFirst`); and wire, replay list and queue of the
client's connection follow on from what it took, up to `seq` while it is bound and not cut off
(`FollowsOn`). The refinement of `SessionStream` follows step by step: the only step that changes `last` is
`Receive`, whose frame is the next number by `FollowsOn`.

**GatewayHub** (`TypeCorrect`, `NoZombies`). `NoZombie` speaks of served connections. The invariant
follows a connection from the attach on: until it is shut, its session is bound to it or a RESUME owes
its shutdown (`BoundOrOusted`); from the registration on, a bound session is registered or about to be
closed (`BoundIsRegistered`). That a debt is not overwritten needs `OwesNothing`: a handler that has not
attached owes no shutdown. Lemmas `CutKeeps` and `HandlerKeeps` cover the steps of others and of a handler
that changes no binding.

**VoiceProofs** is about all of `MCVoice`. The parts share no state; `OneOfEach` says that a step of the
composition is a step of every part or leaves it alone, so that what is proved of a part holds of the whole:
`MovesSafe`, `StaysOneStar`, `JoinedUsersReach`, `GraphLives`, `WaitsHold`, `PlacedRight`, `FiresRightly`,
`DeploymentsHold` state the eight properties of the run `voice`.

*Migration* (`TypeCorrect`, `SessionSpared`, `TargetsAreFresh`, `SourceIsCleared`). The steps work on stale copies, so
the invariant `Inv` says what a copy still knows of its row (`CopyOK`): its state may be stale, what only the
engine writes is not, that is the nodes tried, the sid of the source, and the source. Of the rows
(`RowOK`): a job that was ever prepared has tried a node and knows a sid that is older than that of the
voice state. From this, the sid that CLEANUP removes is never the one of the voice state, and a target
is never one of the nodes tried. `SourceCleared` is about a job that is alone and a user who joined once:
`ClearInv` says then that the session on the source is the first one, that the job knows it from the time
it was prepared, and that every other session was opened for another node.

*Cascade* (`GraphTypeCorrect`, `GraphStaysOneStar`, `GraphUsersReach`, `GraphStays`). The conjunction `GraphInv` of the
types, the star and the reachability is inductive; reachability is not without the others: that a graph is dropped
with its lease, and that a lease is there for every edge, is the star. What `cascadeAfterLeave` removes is not what a
remaining user needs; `ensureCascade` only adds; a new star reaches every node that serves and is not
excluded. That the graph goes with the last user, or with the loss of an anchor that served everyone, follows action
by action.

*Waits, pool, choice, detectors* (`WaitsMeet`, `PoolGranted`, `RefusedWhenFull`, `DetectorsFireRight`). A command has one
answer to come only while it is on the wire and pending (`ControlInv`). A node that comes back to a selection comes
from a request that was checked before. The reservations of failed attempts are gone when a join is refused:
every live reservation is of a session that was placed (`ChoiceInv`). What a detector keeps is at least as
recent as what it acts on: `overSince` is not before the last calm look, the list of broken edges holds
instants that were seen since the last firing, and the rest lasts its cooldown (`WatchInv`).

*Deployments* (`HostsInv`). A deployment at a step has the row of that step (`RowFollows`). Of its node (`NodeFollows`):
whoever was attached, or seen enrolled, has its row still, or somebody who found it pending went on to delete it; who
waits no longer and did not fail has seen the stream; nobody deletes but a pending row, unless it changed under his
eyes. The keys an order still to run will accept are any, the first, or the second when that is the host's and the
first was not pinned (`KeysFollow`).

**AccountsProofs** is about `MCAccounts`; its six theorems state the six invariants of the run `accounts`. Two
handlers at a time are enough for TLC to find a race; the theorems hold for any number of them. In each part the
invariant has to say what a handler between its steps still knows of the rows it read.

- `PlatformHolds` (`PlatformInv`): a handler that is to disable or demote an administrator has counted another who is
  still there, or is recorded as one that others have crossed.
- `RevokedStayOut` (`AccessInv`): each live token is of a chain that is good, that is alive, of the password of
  now and of an enabled account, or a sweep that will revoke it is under way; the same is said of the token a handler
  has still to issue; and a chain has one live token or one handler that will issue it.
- `MembersHold` (`GuildInv`): a row has one user all its life; what the list of the clients shows too much has its
  REMOVE to come and what it lacks its ADD, or went without one; a banned member has the ban's own removal to come; who
  is or becomes the owner is a member whom nobody removes, or is recorded: a removal met him, he is a bot that was
  removed, or an undo wrote him back (`HeadStays`).
- `MachinesHold` (`AgentsInv`, `RobotsInv`): what is approved, claimed or issued was agreed to, and a code that is in a
  token or in a handler is marked as used; a bot that is deleted is in no guild and its voice seat is covered. The limiter
  is about every instant at once: the calls since an instant and what is left in the bucket stay within the burst
  and the rate since.
- `PointsHold` (`ShopInv`): who is about to change the balance holds the row's lock and has read what it still is, so
  that the entry follows on from the last one (`EntryAdded`).
- `SocialHolds` (`FriendsInv`): the rows of two friends change together; a request that a handler will drop is still
  a request when it is there at all; who is about to write was accepted.

**GuildProofs** is about `MCGuild`; its five theorems state the five invariants of the run `guild`, in the same way. The
sets of slots that `MCGuild` declares (`PublicSlot`, `RankSlot` and so on) say what a handler may carry; TLC has
checked the types that are made of them, as it has the invariants.

- `AssetsHold` (`PublicInv`): every file is of one kind all its life (`Sorted`); nobody knows the file of an upload
  before it is written to the row (`UploadsAreNew`); a file that will be removed has no name, but one that came back
  (`RemovedAreFree`); what is on the disk has a name, or a handler that will name or remove it (`KeptAreKnown`);
  and a handler that is alone will tell what there is (`Telling`). A creation that passed the limit counts as
  a banner (`BannersFit`).
- `RightsHold` (`DenialsInv`, `RanksInv`): an answer is right about every record that has not changed since it was read
  (`Loaded`); a record nobody crossed is in one hand, and what it has not told it will (`InOneHand`). Whoever carries
  the row of a role or an attribute of a member to tell it carries what is, and what clients do not know somebody will
  tell (`RowKnown`, `HasKnown`), except of what was written while others carried it (`stale`).
- `ViewsHold` (`StatusInv`, `GroupInv`): who publishes alone has what there is to see (`AloneKnows`), and nothing is
  given away of who is hidden (`AllDiscreet`); when nothing overlapped, a member who is not shown the group as it is
  will still be told by the one handler (`AloneViews`), and rows and invitations under way fit the limit (`Room`).
- `StickersHold` (`PacksInv`, `PicturesInv`): what would bring back a purged pack, and every creation under way, counts
  against the quota (`PacksCount`), as an addition under way does against the limit of items (`RoomLeft`); a picture is
  counted at least as often as it is used, and exactly unless a cover was replaced by itself (`Counted`).
- `CosmeticsHold` (`ClosetInv`): the same of cosmetics, with `Hung` the slots a picture hangs in, before and after one
  is exchanged (`HungMoves`); what is about to be published has what its category requires (`ForSale`); one
  who edits a bundle alone has still to insert what is missing, unless he has failed (`OneEditor`); one who announces alone has
  built what is worn (`OneTeller`).

**ContentProofs** is about `MCContent`; its seven theorems state the seven properties of the run `content`, for any
number of handlers, workers, users and listeners. As in `MCGuild`, sets of slots (`EditSlot`, `SightSlot`, ...) say what
a handler may carry.

- `TextsHold` (`TextsInv`): the text an edit has read is still the text when the history has not grown since
  (`EditsFollow`); only a deleted message is on its way out of the index (`RemovedWhenDeleted`). The text is in the
  index, and every worker with another one is known to be crossed; or it is on its way there, with the handler that
  will queue it, in a queue, or read by a worker (`IndexFollows`).
- `FilesHold` (`FilesInv`, `SoundsInv`): until two steps cross there is one upload at a time, what it has written is whole
  until the collector removes it, and what is sent is not on the collector's list (`OneUpload`, `WholeFile`).
  Who uploads a sound alone knows its file (`NewFile`); the file a pack names is there and nobody will remove it
  (`NamedIsThere`); until handlers overlap, what the members and the user were not sent, the one handler at work
  will send (`OneOfPack`, `OneOfChoice`).
- `AudienceHolds` (`SightInv`): until handlers cross, one of them at most has written and not yet published
  (`OneWrites`); what the others have read is still so (`EditsAgree`, `SlotsAgree`); and a client shows what is due to it,
  or what was due before the write that is still to be published (`CopiesFollow`, and `MarksFollow` for the reaction).
- `ReadsHold` (`ReadsInv`): the user's own message is read, or its handler has still to save that (`OwnAreRead`); the count
  is that of the unread mentions, less those a handler has still to count (`MentionsCounted`). Both need that
  an id is of one message and one handler.
- `ChannelsHold` (`RoomsInv`): where the client does not show what the row says, a handler has still to tell it
  (`WillBeShown`); who unlocks has the password of now, or a handler will take the unlocking back (`LockHolds`).
- `RoomSettles`, `SeatsHold` (`StageInv`): the seats are no more than `max_speakers` and none in an open channel
  (`SeatsFit`); rows are of users in the room when nothing is owed, and only those beyond the window are muted
  (`RowsInRoom`). Both theorems rest on what `Kept` returns: the sequence without those who go, in its order
  (`KeptFacts`, `WithoutFacts`). `Kept` is a function of the length, so each of these facts is proved from the smallest
  index at which it would fail.

Two things came out of these proofs. `Announced` of `VoicePacks` left out the last handler that may still announce: the
one whose deletion has removed the file and has yet to send the notice, which can reach the user after a new choice.
Five handlers are the least that show it; the run has four, and now the property speaks of that handler as well.
`Kept` of `Stage` was written with `SelectSeq`, of which no installed prover can prove anything; it is a recursive
function now.

**SfuNode** (`NodeStaysEntitled`). `OpenIsCurrent` is inductive with the types: a stream shuts the one before when
it opens, and one that ends takes out none but itself. That a revoked row stays so but for a handler that had read it
before is what each action does to it (`HoldsRevoked`): those that decide look at the status first, and those
that write by a condition have one that a revoked row does not meet.

**ScreenQuota** (`QuotasHold`). The quota is passed before the slot is taken, so the invariant counts a
channel that holds the lock as a slot owed. Per channel the sum stays within the quota. For the guild,
slots and debts together stay within its base plus one for each channel but one: when a start passes,
the slots are below the limit, and each other channel owes at most one.

Proof modules EXTEND the component and `TLAPS`; the sequence and finite-set facts come from
`SequenceTheorems` and `FiniteSetTheorems`.

## 5. Disagreements

What follows was found while modelling: a comment, a document or a rule of the code's own says one thing,
the code does another. Each is stated as a property in its module. Those with a run are checked to be
violated by the run; TLC violates the others as well, when they are put in place of the properties of the
passing run of their module.

| property | run | what happens |
|---|---|---|
| `NotOversold` (ScreenQuota) | `screen_oversold` | Two channels of a guild find the last slot free, each under its own lock (`stage/api.go:564`). |
| `UnblockRestoresNothing` (Social) | `unblock` | Taking back a block makes the two friends, whether they ever were or not (`social/relationships.go:392`); the design document says that it restores nothing. |
| `RevokedStaysOut` (GatewayHub) | | A RESUME looks its session up, the revocation unregisters it, the RESUME registers it again. `gateway/hub.go:158` says that it cannot be resumed any more. |
| `ResumedMissedNothing` (GatewaySession) | | The sweeper removes the session after a RESUME found it; an event before the registration gets no number, and the client is told RESUMED. The window is the steps between lookup and registration (`gateway/handler.go:242-272`). |
| `EveryDetachedIsSwept` (GatewayHub) | | A RESUME attaches between the revocation's two steps, is cut off by it, and registers: the session has no connection and a zero `disconnectedAt`, which the sweeper takes for connected. It stays in memory. |
| `DisabledIsRefused` (GatewayHub) | | `Authenticate` does not look at `disabled_at`; an access token stays good until it expires. |
| `LiveIsPresent` (GatewayHub) | | The sweeper's late `presence.Disconnect` undoes the `Connect` of a RESUME (`gateway/hub.go:153`): a served user shows as offline. |
| `RevokedIsAbsent` (GatewayHub) | | A PRESENCE_UPDATE that was read before the revocation enters the session again: a user who is gone shows as online. |
| `OneActive`, `TerminalIsFinal` (Migration) | | A job that was preempted, canceled or done is still among the copies of the tick, whose step writes it back to an active state; or its ack does. |
| `SourceClearedAnyway` (Migration) | | A job that preempts another one takes the sid of the first one's target for the source's, and the source keeps the old session. |
| `LeaveClearsBothSides` (Migration) | | A leave during CONNECT disconnects the user from the node of the voice state only; the session on the target stays until the node drops it. |
| `RefreshMatchesSid` (Migration) | | A rejoin that finds no node keeps the row with the session that was cut (`voice/handlers.go:167-214`), and a token refreshed during a migration can name a node the sid was not issued for. |
| `LeaverIsReleased` (Migration) | | The job of a user who leaves during CLEANUP cannot be canceled (`voice/migration.go:442`): it stays active until a restart and absorbs later migrations of the user. |
| `MovedReachAnchor` (Cascade) | | The other user of the target leaves between PREPARE and CLEANUP, the edge of the target is removed, and CLEANUP does not ask for it again (`voice/migration.go:460`). |
| `NewRootServes` (Cascade) | | Node A is lost, its users have not moved yet, node B with the root is lost: the root moves to A, as only B is excluded (`voice/cascade.go:305`). Nothing takes it from A again, and edges to it do not come up. |
| `EdgesServeUsers` (Cascade) | | A first join that fails leaves its lease, a migration that ends early or a rejoin elsewhere leaves an edge without users. `voice/cascade.go:212-213` says that nothing half-made stays. |
| `SharersAreSpeakers` (Stage) | | From FREE to STAGE, who gets no seat goes on sharing (`stage/api.go:189`). |
| `ForcedStageSparesWindow` (Stage) | | The forced stage gives a seat to a user beyond the window, who joined just before and is not muted yet. |
| `TimeoutTakesMarkedSeat` (Stage) | | The grace scan releases the seat of a user who came back after the rows were loaded (`stage/background.go:50`). |
| `TimeoutSparesActive` (ScreenQuota) | | The reservation scan ends a share that was confirmed after the rows were loaded; `src/backend/cmd/server/main.go:113` says that the confirmation prevents just that. |
| `LosersAreTold` (Audience) | | A user who loses sight of a message that was public is told nothing, and his client goes on showing it. |
| `PermanentStays` (Points) | | An administrator's grant that is under way can make a limited item of one that was bought for good meanwhile. |

## 6. Races that the properties except

The properties of the handlers without a lock say what holds unless two of them overlapped in a certain way,
and a history variable records that they did. These are the ways; in each the code does what is told here.

*Messages*: the collector loses a file that is bound between its list and the removal (`message/gc.go:45`), and
two uploads to one file truncate each other; the index keeps an old text when its queue drops, when two
workers write in the opposite order of their reads, or when a stream is appended to after its end; an edit does
not look at the version again; two replies to one interaction can both be saved, EXPIRED can replace RESPONDED
when a handler fails after its answer was saved; nobody is told that a role
gave or took sight of a message; a mention is counted after the message was read; slow mode and nonces
are looked up before the insertion; a message of `PostPrivateSystem`, and one of `PostAsUser` whose view could
not be built, is saved and never queued for the index. Of a pack of sounds: a change saved after the deletion inserts it again
(`message/voicepacks.go:269`) or brings back the URL of audio that was replaced; a choice made during the
deletion stays; a pack made disabled and a channel set to "off" are on between two writes; settings of the
guild lose one of two concurrent changes.

*Channels*: two changes of overwrites compare the viewers with each other in between; the deletion of a
category overlooks a child that moved there meanwhile. The undo of an update saves the whole row: it brings back
a deleted channel and the old password, and is published to the whole guild with a `locked` that it did not
restore; undoing a change of an overwrite is published to the whole guild as well, undoing its removal to nobody, and
neither tells who sees the channel now. Both notices reach members from whom the channel is hidden
(`auditundo/handlers_rbac.go:250`, `:311`), whose clients may list it.

*Members and roles*: REMOVE can overtake ADD; a ban reads membership before it writes, and a join crosses it;
the undo of an unban bans a member who has rejoined and leaves him in; the new owner can be removed while he is
made the owner; a bot can be made the owner (`guildapi/guild.go:229`), and uninstalling or deleting it does not ask
(`botapi/admin.go:171`, `:336`); the undoing of a change of the guild saves the row as it was read
(`auditundo/handlers_rbac.go:379`), and with it an owner who has handed the guild on and left; the platform deletes a bot
from all its guilds without a REMOVE; the audit entry of a kick or ban reads the roles after they were deleted. A change of a role
that was read before the deletion saves it again; a role can be given after it went; two undos of one entry are
both applied, though one is recorded, and only that one is told; a failed record leaves an applied undo available;
the undo of a deletion restores neither overwrites nor the flags the snapshot has, and of who had the role it
tells nothing (it publishes ROLE_CREATE only). The undo of a nickname or of a given role publishes less than the
handler does. Of two requests that write the same row, the one that published last may publish what it had read
before the other wrote: a role as `updateRole` saved it, the nickname of a member whose roles are changed. The
property excepts exactly these (`stale`), and the run starts no request after one of them other than that of who
has the role, nor after a write over a deleted row (`crossed`).

*Accounts*: a login or refresh in flight outlives a revocation; two administrators can lock each other out, as
the last one is counted before the write; a sign-up before the first administrator closes the registration;
of two answers to a device code the later is kept; an administrator's change that was read before stays.
Bots: deleting one publishes CAPS_DIRTY before the membership is gone; an installation after the deletion
leaves a member without a bot; tokens made after it are useless.

*Social*: a nickname saved over a row that went brings it back; crossing requests leave two; two blocks can
never both be undone; two invitations exceed the limit of a group, one invited while the last leaves is in
a group that is gone, and an older view can arrive last.

*Nodes*: a handler that read a row before the revocation writes its status over it; a node is deleted by who found
it pending, though it has enrolled since; the certificate is renewed
before the answer is sent; an upgrade enables nodes that were disabled meanwhile; a restart forgets the nodes
that were lost. A canceled or restarted deployment leaves its node in PENDING, as only a failure cleans up; a
node that enrolls between the look and the deletion is deleted; the thirty minutes count as canceled; and a
deployment that was asked for before the first key was pinned replaces the pinned key unseen, for it looked for the
expected key before it took the host (`httpapi/sfu_deploy.go:307`).

*Shares*: with `DynamicEnabled` or `GentleEndOldest` off, the loop ends no share when the limit falls
(`stage/background.go:107`): what is too much stays until its users stop.

*Restrictions, presence*: a change writes by the id of a record lifted since; a crash between row and event
loses the event; an undo neither empties the cache nor publishes. Two sessions that change at once can be told in
the wrong order; a failed look for the members skips the broadcast; a change of privacy or friendship is told
nobody; a status set after the end of its session creates it again.

*Points, cosmetics, stickers, pictures*: two purchases of one item at once can both find it missing and
are both charged; signals flushed after the settlement are never counted. Two first uploads of one picture leave the
second item with an id that was not written (`cosmetics/assets.go:246`); a purchase while a bundle is rewritten
gets some of it; a rewriting that finds an unknown or repeated item stops there, and the bundle stays empty or
partial (`cosmetics/bundles.go:136`); two changes of what is worn can announce the older last, and an item that runs out announces
nothing. Limits of packs, stickers and banners are counted before the insertion; a cover replaced by itself
leaks a count; a late soft deletion undoes a ban. Two uploads leave a file; the style of a role is written back as a
whole, so that one upload undoes another and names a removed file, and so is the row of the guild when a change of
it is undone (`auditundo/handlers_rbac.go:379`); a profile removes the file before the row
is written; pictures of a deleted guild stay.

## 7. Limits

*Only model-checked*: liveness (`Progress`, `CleanedUp`, `EndsUnaided`, `NodeSettles`, `LoopSettles`, `RulingsPrevail`, and
`EndsOnce`, of which the half `OneWay` is about steps), which is out of the prover's reach. Every invariant of a
passing run, and every action property but `OneWay`, is a theorem.

*Abstracted*: contents of events and payloads; clocks, which become choices or small counters; load, regions and
scores; the calculation of permissions, which becomes "may be refused" or who holds a role; the database, whose
single-row operations succeed unless an action says otherwise, and whose transactions are READ COMMITTED.

*Left out of the modelled parts*: the READY snapshot and the visibility filter of the gateway; the ranking of
migration targets; the renewal of leases and the repetition of edges after `EdgeDown`; what nodes make of leases
and edges; nodes that return to a room; stage co-moderators, quality tiers and changes of the base limits; pins, polls and the lists of
messages; timeouts, templates and lists of moderation; notifications and settings of users; what the scripts of
a deployment do on the host; blocks and system messages of private groups, whose recipients are read when the
change is written; the schemas of cosmetic categories. The part that a node or a client plays is in the model
only as far as the server sees it.

*Coarser than the code*: the bus drops what finds a queue of 1024 full (`eventbus/eventbus.go:59`): the gateway
modules and `VoiceMember` have the loss, `Presence`, `GroupChannel` and `Roles` assume that a published event arrives.
The inverses in `Roles`, which write a role, then its members, and those of `Restrictions`, which check, write,
mark and publish, are one step each; what may come in between is counted as `crossed`. `Bots` takes a bot out of
a guild by the guild; that the code deletes by the id of the row it read is in `Membership`. The deletion of a guild is
in `PublicAssets` only, and an undone deletion of a role, which makes a new row, is not followed there.
`GatewaySession` leaves `closeUserSessions` to `GatewayHub`. The third clause of `GroupChannel` is about changes
that follow each other: two at a time are excepted. The run `guild` has no more stickers than a pack takes, so that
the bound on active ones cannot fail in it; `StickersHold` covers any number. The base limit of a guild's shares
is a constant.

*Not modelled*: the facades of the stage for bots, seed data, launchers, key storage, cryptography, statistics,
configuration, views and wiring (`PROJECT.json` gives the reason for each).

## 8. Plan

1. The proof of `OneWay` (`Interactions`).
2. Compositions of parts that do interact: hub and session of the gateway, in which the sweep between
   lookup and registration is one of both; migration and cascade of one room, with an abstract
   `MediaPath` (a user who stays in the room is served by some node, after every step but the loss of a
   node) that both implement; membership, roles and channels, for what a viewer sees.
3. Modules for pins and polls, timeouts of moderation, notifications.
