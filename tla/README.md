# AlterChat: TLA+ models and proofs

AlterChat is a serverless chat program: a Rust core (`alterchat-core`), a Tauri
desktop application whose event loop owns the network and the database
(`alterchat-ui/src-tauri`), and a React user interface. This directory holds
TLA+ modules translated from the source, the TLC configurations that check
them, and proofs checked by TLAPS. Paths below are relative to `src/`; `lib.rs`
and `db.rs` are those of `alterchat-ui/src-tauri/src`, other Rust files those of
`alterchat-core/src`. `PROJECT.json` gives, for every definition, the lines it
models.

## 1. The system

One process runs one event loop (`lib.rs`, `run`), a `tokio::select!` over the
commands of the user interface, the events of libp2p, and four timers. A branch
runs to its end before the next is chosen, so a handler is one atomic step as
far as the loop's own state goes. Tauri commands run beside it on other threads,
share `AppState` behind mutexes, and reach the loop through a channel. Two
processes interact only through libp2p: request/response, Gossipsub topics, and
records of the Kademlia DHT.

| Component | State it keeps | Operations | Interacts with | Correct when |
|---|---|---|---|---|
| Double ratchet, `double_ratchet.rs` | `DrState`: key pair, root key, two chain keys, three counters, skipped keys | `init_alice`, `init_bob`, `encrypt`, `decrypt` | called by the event loop on a copy of a database row | every message in the window opens exactly once, no key is used twice or kept, both sides derive the same keys |
| Direct messages, `lib.rs`, `db.rs` | tables `friends`, `ratchet_states`, `private_messages`; the mailbox records in the DHT | `SendPrivateMessage`, `X3dhDm`, the 30 s poll, `AddFriend`, `RemoveFriend` | ratchet, DHT, onion | only what was written is shown, nothing leaves unencrypted, what is in the mailbox is shown, once |
| Rooms, `crdt.rs`, `lib.rs` | an Automerge document per open room, table `rooms` | `StartSession`, `JoinChannel`, `JoinAnonymousChannel`, `SendMessage`, gossip | Gossipsub, roles | documents merge without losing messages, what is stored is what was shown, rooms and passwords stay apart |
| Governance, `governance.rs` | tables `room_invites`, `revoked_invites`, `room_roles`, `permission_grants`, `trust_edges` | create, accept and revoke an invite; roles, grants, edges | rooms, request gate | a permission needs a valid grant; a revoked or used-up invite admits nobody; a room has an owner |
| Request gate, `lib.rs`, `pow.rs`, `spam.rs`, `traffic.rs` | sliding windows per peer, ban counters, peer settings | `peer_can_contact`, `rate_limit_allows`, proof of work | every inbound request | a blocked or too frequent peer is answered with a rejection of the right type |
| Chunk storage, `storage.rs`, `sharding.rs`, `file_transfer.rs`, `lib.rs` | table `stored_chunks`, files on disk | store, list, expire, send a file in chunks | request gate | the quota holds, the table and the files agree |
| Application state, `lib.rs`, `commands/*.rs` | four mutexes of `AppState`, the loop's `conn_opt`, `swarm`, keys | login, session start, all commands | everything | commands do not wait for each other for ever; a session uses its own profile |
| Settings and vault, `commands/settings.rs` | table `app_settings` | load, save, export, import | gate, network | what is exported and imported is what was set |
| Database, `db.rs` | schema version, one-time prekeys | migrations, `mark_opk_used` | all tables | a migration runs once; a prekey is used once |
| X3DH, `x3dh.rs` | prekey bundle | bundle, initiate, receive | the DHT; not used for sessions | both sides derive one secret |
| Legacy ratchet, `crypto.rs` | `RatchetState` | encrypt, decrypt with a counter | `RatchetPrivateMessage`, which nothing sends any more | counters only grow, keys are used once |
| Traffic shaping, `traffic.rs` | none | pad, unpad, chaff, delays | rooms | unpad undoes pad |
| Onion routing, `onion.rs`, `lib.rs` | none | wrap, peel, forward | direct messages | a packet reaches the last hop of its route |
| Network, `network.rs`, `lib.rs` | the swarm, gossipsub's explicit peers, `known_peers` as a file and as a table | `create_swarm`, dialling, mDNS, identify | settings, sessions | a session dials whom the settings and the tables name; explicit peers are those announced |
| Identity, `identity.rs`, `secure_storage.rs` | the encrypted keypair, the keyring | load or generate | login, sessions | an identity is never replaced |
| Pluggable transports, `pluggable.rs` | none | obfuscate, deobfuscate | nothing calls them | what is read back is what was written |
| Plugins, FFI, push, media, command line node, bootstrap node, Tor transport, user interface | see `PROJECT.json` | | | - |

Hard behaviours, each with its line under `hazards` in `PROJECT.json`: a network
that reorders, loses and repeats (ratchet envelopes, gossip, the mailbox record
that every poll finds again); state written after it was used (the envelope
leaves before the ratchet row is saved); two independently computed roles that
must fit; documents created apart and merged later; bounds (`MAX_SKIP`, quotas,
rate limits, the command channel); errors of database writes that are ignored
everywhere; files and rows written without a transaction, so that a crash falls
between them; two loaders of one keypair file, in the command and in the loop;
locks taken in two orders by concurrent commands, and held across awaits.

One fact about the program shapes most modules. `AppState.db_key` is initialised
to `None` (`lib.rs:794`) and assigned nowhere, so every command that asks for it
answers "Not logged in": friends' settings, blocking, invites, roles, grants,
trust edges, the vault, file preparation and expiry cannot be reached from the
user interface. Their bodies have no behaviour to model; where the event loop
reads what they would have written, a module takes the value that is there.

## 2. Modules

The modules are independent components unless said otherwise. An action is a
whole handler, with every database write in it, except where a crash or another
task can fall between its steps; then the steps are actions.

### DoubleRatchet
The functions of `double_ratchet.rs` as operators on a record with the fields of
`DrState`. Keys are symbolic: a key pair is a number, a DH output the set of the
two pairs it joins, a root key the sequence of DH outputs mixed in, a chain key
a root key and a step, a message key the chain key it came from. Symbolic keys
are equal exactly when the inputs of the HKDF are, so authenticated decryption
succeeds exactly when the message keys are equal. `Refused` lists the error
returns of `decrypt` before the AEAD; `Decrypts` says whether it returns a
plaintext, `AfterDecrypt` the state it leaves.

### DrSession, DrChannel
`DrSession` is two peers with correctly paired states (`init_alice`, `init_bob`),
used the way `lib.rs` uses them: load the row, run the operation on the copy,
store after every encryption and after a successful decryption only. `wire`
keeps every envelope ever sent, and `Receive` may take any of them at any time,
which covers reordering, repetition and loss (an envelope nobody takes). `DrChannel`
is the promise: a lossy, unordered, at-most-once channel.
`ImplementsChannel` is the refinement, with `outbox` mapped to the envelopes of
a sender.

### DirectMessages, MailRegister
Composes the ratchet with the event loop's handlers around it, for two peers
`low` and `high` (their peer ids compare that way). `AddFriend` and `RemoveFriend`
act on the friends table; `SendPrivateMessage` is the whole handler: save the sent
row, look up friend and key, envelope and row if the state can encrypt, then the
mailbox record in either case. `ReceiveX3dhDm` and `PollMailbox` are the two ways in.
`LoadOrInit` takes the role the code computes, so this module shows what
`DrSession` assumes away: the two handlers never produce an Alice and a Bob for
the same conversation. `MailRegister` is what a conversation comes to for the two
people: a register each, holding the last message written to them, which reading
shows and leaves in place. `ImplementsRegister` is the refinement: `outbox` is the
sent history, `slot` the mailbox record, `Once` the texts that happen to begin with
their nonce; the ratchet, the envelopes and the friends are hidden. That envelopes
are hidden is the point: no accepted envelope may add to what is shown, and
none does.

### RoomSync
`Room` as a set of list objects and a set of messages, each in one list. An
Automerge map key assigned concurrently resolves to the operation with the
greatest id, so the list a reader sees is the greatest one; this rule is the
only thing taken from the library. A blob is a document with the name and
password its key was derived from. Actions are the five handlers that touch the
current room. A process starts, and starts again, through `StartSession`, which
always passes the password `None`.

### Profiles
The files of a profile (keypair, database, chunk directory), `login_profile`, the
loop's `StartSession` and `panic_wipe`, each at the steps between which the
process can die: the command loads or generates the keypair and queues a
`StartSession`; the loop takes it, loads or generates the keypair again, opens
the database, seeds the roles of a room write by write, dials saved peers,
publishes a bundle, and only then replaces `conn_opt`. A keypair file may be
`Torn`, a connection's file `Gone`. Identities are numbers in the order of
generation.

### RequestGate
What stands between a request and its handler: friendship, the policy for
unknown peers, `rate_limit_allows` with its bucket pruned as the code prunes it,
trust thresholds, proof of work with the ban list, for the four kinds of request;
and the mailbox, which passes all of it. Every database read on the way can fail, and
the code has a default for each: `unread` names the reads that fail in a request, and
the gate and the handler read the peer's row separately, as the code does. A failed
read of the friends counts as no friend, of the limit as the limit of `runtime_config`, of
the trust or the threshold as no check at all. `passed` and `under` are ghosts: the
times at which requests were let through, and the limit each was compared with. The
count of failed proofs of work has no bound in the code; the module tells counts apart
up to the ban threshold.

### Network
What a session asks of libp2p: the transport `create_swarm` builds for a privacy
mode, what it dials itself, what `StartSession` dials afterwards, which saved
peers it remembers, the file `known_peers.json`, which is saved as it was loaded, the table
`known_peers` written by identify, and mDNS with gossipsub's explicit peers. An event of
mDNS is a set of pairs of a peer and an address, and each pair adds or removes its peer, as
in the loop over `(peer_id, _)`. `announced` and `lapsed` are ghosts: the pairs that are
announced, and the announced peers an address of which expired since their last report.

### Settings
`save_full_config_to_db` statement by statement (a statement can fail and end the
save; the process can end between two), `load_full_config_from_db` with its
defaults and its address derived from the older `bootstrap_ip`, `UpdateConfig`,
and the session that starts with what is loaded. `since` is a ghost: the
configurations saved since, and including, the last complete save.

### ChunkStore
The file-chunk handler: the quota check against the rows, the write of the file,
the replacement of the row, either of which can fail, with a crash between the
two; the sharing of a content between transfers. The reads before them can fail, too:
without the storage settings nothing is stored, and a sum that is not read counts as
nothing (`unwrap_or(0)`). `blind` is a ghost: the contents admitted on such a sum, until
a chunk is admitted on one that was read.

### OnionMessages
Relaying a direct message through a friend: wrapping for a route, peeling,
forwarding, and the innermost handler, which accepts only the deprecated format.
The deprecated format's `RatchetState` (`crypto.rs`) is modelled with its counters,
`save_ratchet_state` included, and a ghost that says when a save was lost.

### CommandLocks
The Tauri commands as concurrent tasks, one of each kind of lock use, at every
lock, assignment and send; the two mutexes that are ever held together; the
bounded channel; the loop that drains it.

### Revocations
`revoked_invites` at each node, the announcement topic, subscription by room
change, and the list in the DHT. A topic name may be the name of a room. Announcements are
unsigned and a receiver enters the revoker they name, so an announcement may also come
from no node of the model and name anyone (`ForeignAnnouncement`); a node's own mark, a
receiver's mark and the reading of the list can fail, and the code goes on.

### Migrations
`init_db` and `run_migrations` with several processes on one database that fail
or end between the transactions, and versions of newer programs.

### X3dh, Framing
Pure operators, with theorems in `Wire_proofs`. `X3dh`: the bundle, both sides of the handshake,
`mark_opk_used`. `Framing`: padding and unpadding of gossip, the frames of the two
pluggable transports, the sizes of onion layers, the chunks of a file; a byte is
any value, a length field holds its number modulo its width.

### MC and proof modules, mutants
`MCDrSession`, `MCRoomSync`, `MCSettings` and `MCChunkStore` define the values a `.cfg`
cannot write; the other modules are checked directly. Theorems are in modules of
their own:

| Module | Proves about |
|---|---|
| `DrSession_proofs` | `DrSession`, `DoubleRatchet`, the refinement of `DrChannel` |
| `DirectMessages_proofs` | `DirectMessages`, the refinement of `MailRegister` |
| `RoomSync_proofs`, `Profiles_proofs`, `CommandLocks_proofs` | the module they are named after |
| `Admission_proofs` | who is admitted: `RequestGate`, `Revocations` |
| `Database_proofs` | what the database keeps: `ChunkStore`, `Migrations`, `Settings` |
| `Wire_proofs` | what goes over the wire: `Framing`, `X3dh`, `Network`, `OnionMessages` |

Modules that share a proof module name their behaviour `SettingsInit`,
`SettingsSpec` and so on where two of them would otherwise both have an `Init`.

An operator `XMutant` before a definition `X` is a plausible slip in the code of
`X`. Nothing uses it; `PROJECT.json` names the property that notices it when it
replaces `X`, which shows that the property depends on the code.

## 3. Runs

`tlc -config <cfg>.cfg <module>` in this directory repeats each of them.

| Run | Module, cfg | Bounds | Properties besides `TypeOK` |
|---|---|---|---|
| `drsession` | MCDrSession | 6 texts, `MAX_SKIP` 2 | `AtMostOnce`, `MessageKeysUnique`, `ForwardSecrecy`, `SkippedAreTheMissing`, `AcceptsExactly`, `IInv` (which contains `TypeOK`), `ImplementsChannel` |
| `directmessages` | DirectMessages | 3 texts, `MAX_SKIP` 2, 2 copies of a message | `ShownWasWritten`, `MessageKeysUnique`, `LeavesOnlyUnderKey`, `ImplementsRegister`, `MailIsShown` |
| `roomsync` | MCRoomSync | 2 nodes, 3 rooms (one anonymous), 2 passwords, 3 texts, 4 lists | `CausallyClosed`, `RoomsApart` |
| `profiles` | Profiles | 1 profile and memory, 2 rooms, 4 identities, `message_db_only` | `SessionOfOneProfile`, `OwnerIsIdentity`, `LoginReturnsSessionId`, `IdentityKept`, `LoginTakesEffect` |
| `requestgate` | RequestGate | 1 peer, limit 2 (1 if unread), 4 sets of failing reads, window 1, clock to 3 | `RateBound`, `WaitedThenServed`, `PolicyKept` (no `TypeOK`; proved) |
| `network` | Network | 2 peers at 2 addresses, 3 proxy modes, week 0, dial limit 1, clock to 1 | `ExplicitAreAnnounced`, `RememberedAreRecent` |
| `settings` | MCSettings | 4 configurations, 3 saves | `OldOrNew`, `NextSessionSame` (no `TypeOK`) |
| `chunkstore` | MCChunkStore | 2 contents, 2 transfers, 1 index, quotas 1 to 3, clock to 1 | `RowsWithinQuota`, `RowsHaveFiles` |
| `onionmessages` | OnionMessages | 3 nodes, 1 of them older, 3 messages | `ShownInOrder`, `LegacyAccounted` (no `TypeOK`; `OnionTypeOK` is proved) |
| `commandlocks` | CommandLocks | 2 tasks, 2 profiles and memory, capacity 2 | `PathsOfOneLogin`, `LocksInOrder`, `CommandsReturn` (no `TypeOK`; proved) |
| `dmfirstcontact`, `dmreplay` | DirectMessages | as above | counterexamples, section 4 |

What the properties say:

- `ForwardSecrecy`: a stored state cannot derive the key of a message its owner
  sent or received. `SkippedAreTheMissing`: the skipped keys are those of the
  messages passed over and not received, no more and no fewer. `AcceptsExactly`:
  which envelopes `decrypt` accepts.
- `MessageKeysUnique` of direct messages holds although friends come and go.
  `LeavesOnlyUnderKey` is an action property; `ImplementsRegister` the refinement of
  `MailRegister`; `MailIsShown` is liveness: a record that stays is shown.
- `CausallyClosed`: wherever a room message is, in memory, in a database or on the
  network, everything its writer had is too. `RoomsApart`: a message stays under
  the name and password it was written under.
- `SessionOfOneProfile`: between two handlers the connection, the key and
  `AppState` belong to one profile. `OwnerIsIdentity`: nobody owns a room whose key
  is not there, over crashes and restarts. `LoginReturnsSessionId`: the peer id a
  login returns is the one the session uses, although each loads the key for
  itself. `IdentityKept`: a whole keypair is never written again. `LoginTakesEffect`:
  liveness of a queued session.
- `RateBound`, `WaitedThenServed`: the bucket refuses neither too few nor too many,
  whichever limit a request was compared with. `PolicyKept`: what a handler acted on was a
  friend's or allowed by the policy at that moment, with work where it is asked for,
  whichever reads failed; a threshold is passed only when the trust or the threshold
  could not be read.
- `ExplicitAreAnnounced`: gossip's explicit peers are those announced at some address,
  but for one that lost an address and was not reported since (`AnnouncedAreExplicit`
  leaves the exception out and is false, section 4). `RememberedAreRecent`: which rows
  of `known_peers` are dialled.
- `OldOrNew`: after any partial failure, each setting that is read was saved
  completely or tried since. `NextSessionSame`: an undisturbed session's settings
  are those of the next.
- `RowsWithinQuota`, `RowsHaveFiles`: table and files, under failures and crashes. A sum
  that could not be read is all that lets the rows exceed the quota, and each content
  admitted on it is no larger than the quota.
- `ShownInOrder`, `LegacyAccounted`: relayed legacy messages are shown in order, and
  none disappears without a loss, a refusal or an overtaking.
- `PathsOfOneLogin`: no command sees one login's database with another's keypair
  while it may hold `db_path`. `LocksInOrder`: a command asks for `db_path` while it
  holds `key_path` only if its session is in memory; all others take the two in one
  order. `CommandsReturn`: liveness, without amnesic logins, which is what
  `LocksInOrder` leaves.

**Bounds.** Six texts let one side send four messages in a chain while the other
answers, so a chain outgrows `MAX_SKIP` 2, a ratchet step has skipped messages
on both sides of it, and a session takes several steps in both directions; the
proofs remove the bound. In `DirectMessages` two copies of a message are enough to see
a repetition, and one text of three begins with the digits of its nonce, which
is what makes the duplicate check succeed by accident. In `RoomSync` every
node needs one list, so four lists let two rooms be created besides; three
texts suffice for a message, one written after seeing it, and one written apart.
In `Profiles` a profile, its amnesic alternative and four identities allow a
torn file, a replacement and two amnesic sessions; sessions of two profiles
differ in the same way as those of a profile and memory. Buckets, failures and
tokens of different peers are independent in `RequestGate`, so one peer is
enough; a clock of three windows lets requests straddle, fill and leave a window. The
four sets of failing reads are none, those that loosen the gate, those that tighten it,
and the second read of the peer's row alone; the proofs allow any. In `Network` two peers
and a limit of one make the cut-off matter, and two addresses let one expire while the
peer stays; three proxy modes are the two the code tells apart and one it does not
(`socks5` is treated like `i2p`). Three saves let a save fail after one that failed. In
`ChunkStore` a quota can be lowered below what is stored, contents are shared between
transfers, and two contents suffice for one admitted on a sum that was not read and one
after it; the index is a part of the path like the transfer, so one is enough. Three messages over
three nodes are overtaken, lost and relayed. With two tasks every pair of lock
orders meets, and a capacity of two lets a login's send and another's both wait.

**Fairness.** `DirectMessages`: weak fairness of `PollMailbox`, because
`dht_check_interval` ticks every 30 s as long as the process runs and a record
that is in the DHT is found by such a query sooner or later. `Profiles`: weak
fairness of a command in progress and of the event loop, which go on unless the
process dies. `CommandLocks`: weak fairness of the loop's `recv`, strong fairness of
each command's step, because tokio's mutexes and its bounded channel serve
waiters in the order they came. Nothing is assumed of sending, of users, of
crashes or of delivery.

**Deadlock.** `roomsync`, `profiles`, `onionmessages` and `commandlocks` run with
`CHECK_DEADLOCK FALSE`: the bounded system stops once all texts, lists,
identities or messages are used up, and `commandlocks` once the process has
exited after a wipe; what must not wait for ever there is `CommandsReturn`. The
other passing runs check it.

## 4. Where code and documents disagree

A counterexample is a run that checks what a document or a comment says. The
first two are runs of the project's list; the others are kept as `.cfg` files to
be run by hand, each ends with the violation named here. Six have no file of their
own. For two of `CommandLocks` take `CommandLocksWipe.cfg` with `Task = {t, u}`,
`Logins = {a, b}` and the property as `INVARIANT`; for `OwnMessagesStored` take
`MCRoomSyncMerge.cfg` with `INVARIANT OwnMessagesStored` as its last line; for
`RevokerAnnounced` and `RevokerKnows` `Revocations.cfg`, for `AnnouncedAreExplicit`
`Network.cfg`, with the name in place of `RevocationInv` or `ExplicitAreAnnounced`. Of
`RevokerKnows` and `AnnouncedAreExplicit` no document speaks: they say what a reader of the
code would expect.

| Cfg (module) | Property | Said | The code |
|---|---|---|---|
| DirectMessagesFirstContact (DirectMessages) | `FirstContactOpens` | comment, `lib.rs:1715` | the receiver's role mirrors the sender's: `low` is Alice when it sends and `high` is Alice too when it receives, so no first envelope opens; messages arrive through the mailbox only |
| DirectMessagesReplay (DirectMessages) | `MailShownOnce` | comment, `lib.rs:1394` | the duplicate check compares the text with a nonce that is never stored; a record is saved and shown on every poll |
| MCSkippedBound (MCDrSession) | `SkippedBounded` | `THREAT_MODEL.md:283` | `MAX_SKIP` bounds what one call adds; losses in successive chains accumulate |
| MCRoomSyncMerge (MCRoomSync) | `MergeKeepsHistory` | `README.md:354`, `ARCHITECTURE.md:172` | rooms created apart have different list objects; after a merge `get_messages` shows one of them |
| (MCRoomSync) | `OwnMessagesStored` | `README.md:354` | the gossip handler stores the payload it received, not the merged document |
| MCRoomSyncAnon (MCRoomSync) | `AnonymousNotStored` | comment, `lib.rs:1220` | writing in an anonymous room stores it |
| ProfilesSeeding (Profiles) | `DefaultGovernanceSeeded` | `ARCHITECTURE.md:186-188` | roles and the owner's grant are separate writes and seeding is skipped once there are roles; a crash between leaves a room without an owner for ever |
| ProfilesPeers (Profiles) | `SavedPeersDialled` | comment, `lib.rs:1877` | `StartSession` loads the peers through the connection of the session before it, so the first session of a process dials none |
| ProfilesWipe (Profiles) | `WipedStaysGone` | `THREAT_MODEL.md:201-202` | the event loop works on while paths are removed one by one, so a session being started creates the database again |
| ProfilesAmnesic (Profiles) | `AmnesicLeavesNothing` | `LoginScreen.tsx:50` | a file chunk received in an amnesic session is written to a directory on disk |
| RequestGateTrust (RequestGate) | `ThresholdForMessages` | `README.md:120` | only the handler of the deprecated format compares the sender's trust with the threshold; the double ratchet's handler and the mailbox do not |
| RequestGateBan (RequestGate) | `BannedStaysOut` | comment, `lib.rs:841` | a ban takes the peer out of Kademlia's routing table until it identifies again; no handler of requests asks for it |
| NetworkEnv (Network) | `EnvAddrsDialled` | `README.md:339` | `create_swarm` dials over plain TCP only, and what `StartSession` dials besides are the user's addresses, not those of `ALTERCHAT_BOOTSTRAP` |
| NetworkFile (Network) | `FileRemembersPeers` | `CHANGELOG.md:21` | `create_swarm` saves what it has just loaded; a peer that identifies itself goes to the table only |
| MCChunkStoreDisk (MCChunkStore) | `DiskWithinQuota` | `THREAT_MODEL.md:171` | even with every sum read, the quota counts rows; the file of a row that was replaced, or whose row was not written, stays on disk uncounted |
| OnionMessagesDropped (OnionMessages) | `OnionMessagesAccounted` | `ARCHITECTURE.md:344` | the last hop accepts only the deprecated format, which this version does not send |
| CommandLocksWipe (CommandLocks) | `PanicWipeEnds` | `THREAT_MODEL.md:201-202` | in an amnesic session `create_trust_edge` keeps `key_path` while it asks for `db_path`, `login_profile` takes them in the other order; once they wait for each other a wipe waits for ever, too |
| (CommandLocks) | `WipeOfOneProfile` | `README.md:234` | the wipe takes the two paths one after the other; a login between them gives it paths of two profiles |
| (CommandLocks) | `ProfileFound` | `README.md:121` | `db_key` is never set, so the command answers "Not logged in" after a login |
| (Network) | `AnnouncedAreExplicit` | - | each expired pair of a peer and an address calls `remove_explicit_peer` (`lib.rs:1863-1872`), so a peer announced at two addresses is out when one expires |
| (Revocations) | `RevokerAnnounced` | `THREAT_MODEL.md:112-113` | the announcement is sent with an empty signature (`lib.rs:1185`) and entered without a check of it (`lib.rs:1455`), in the name it gives |
| (Revocations) | `RevokerKnows` | - | the error of `mark_invite_revoked` is dropped and the announcement sent (`lib.rs:1179`) |
| RevocationsListen (Revocations) | `AlwaysListens` | comment, `lib.rs:1011` | leaving a room named like the revocation topic unsubscribes from it |

Two more follow from theorems. No padded message has the size of a chaff payload
(`PaddedFillsBlocks`), although `traffic.rs:34-35` says an observer cannot tell them
apart. `onion.rs:34` calls 16 KiB a fixed packet size: a layer is padded to 16376
bytes, a larger one is not padded, and for seven lengths the subtraction
underflows (`OnionLayerSizes`).

## 5. Proofs

Every invariant, every safety action property and both refinements of the passing
runs are theorems for all values of the constants (three of `Profiles` under a hypothesis,
see below), so the bounds of section 3 limit what is known about liveness only. `...Holds` stands
for the name of the property and `Holds`; the inductive invariant is what a theorem
`...Correct` (`SessionInvariant` for `IInv`) states.

| Property | Theorem | Module | Inductive invariant |
|---|---|---|---|
| `DrSession`'s seven, and `TypeOK` | `Session...` | `DrSession_proofs` | `IInv` |
| `ShownWasWritten`, `MessageKeysUnique`, `TypeOK` | `ShownWasWrittenHolds`, `DmMessageKeys`, `DmTypeCorrect` | `DirectMessages_proofs` | `DmInv` |
| `ImplementsRegister` (refinement) | `DmImplementsRegister` | `DirectMessages_proofs` | `DmInv` |
| `LeavesOnlyUnderKey` (action) | `LeavesOnlyUnderKeyHolds` | `DirectMessages_proofs` | `DmInv` |
| `CausallyClosed`, `RoomsApart`, `TypeOK` | `CausallyClosedHolds`, `RoomsApartHolds`, `RoomTypeCorrect` | `RoomSync_proofs` | `RoomInv` |
| `SessionOfOneProfile`, `OwnerIsIdentity`, `LoginReturnsSessionId`, `TypeOK` | `...Holds`, `ProfilesTypeCorrect` | `Profiles_proofs` | `ProfilesInv` |
| `IdentityKept` (action) | `IdentityKeptHolds` | `Profiles_proofs` | `ProfilesInv` |
| two more, for every scope of `panic_wipe` | `SessionOutsideWipe`, `OnlyWipeTakesKeys` | `Profiles_proofs` | `ProfilesInv` |
| `RateBound`, `WaitedThenServed` | `...Holds` | `Admission_proofs` | `GateInv` |
| `PolicyKept`, and the types of the gate | `PolicyKeptHolds`, `GateTypeCorrect` | `Admission_proofs` | inductive together |
| `RowsWithinQuota` | `RowsWithinQuotaHolds` | `Database_proofs` | `QuotaInv` |
| `RowsHaveFiles`, `TypeOK` of chunks | `RowsHaveFilesHolds`, `ChunkTypeCorrect` | `Database_proofs` | inductive together |
| `OldOrNew`, `NextSessionSame` | `...Holds` | `Database_proofs` | `SettingsInv` |
| `ExplicitAreAnnounced`, `TypeOK` | `...Holds`, `NetworkTypeCorrect` | `Wire_proofs` | `NetworkInv` |
| `RememberedAreRecent` (action) | `RememberedAreRecentHolds` | `Wire_proofs` | `NetworkInv` |
| `ShownInOrder`, `LegacyAccounted`, `OnionTypeOK` | `...Holds`, `OnionTypeCorrect` | `Wire_proofs` | `OnionInv` |
| `PathsOfOneLogin` | `PathsOfOneLoginHolds` | `CommandLocks_proofs` | `LocksInv` |
| `LocksInOrder` | `LocksInOrderHolds` | `CommandLocks_proofs` | `LocksInv` and `KeyInv` |

### Assumptions

The assumptions on constants are in the modules that declare them, and TLC
evaluates each on a run. Besides ranges of numbers and inclusions of sets they say
that a mark for "nothing" is not one of the things: `NoKey` no key, `None` no ratchet
state, path, key or database, `NoRow` no row, `Torn` and `Gone` no key and no path.
`SettingsAssumption` says that the one ttl that is ever saved is not the empty text,
which a number never is.

Three theorems of `Profiles_proofs` have one hypothesis besides, `MessagesOnly`:
`panic_wipe` is called with the scope `message_db_only`, or not at all, as in the run
`profiles`. The other two scopes remove keypairs while a session of them is starting or a
path of them is queued, and `SessionOfOneProfile`, `OwnerIsIdentity` and `IdentityKept` are
then false: with `Scopes = {"active_profile", "all_profiles"}` in `Profiles.cfg` TLC finds a
counterexample to each within seconds. `TypeOK`, `LoginReturnsSessionId` and the invariant
itself are proved for every set of scopes, and TLC finds no error in the invariant for two
profiles and all three of them (319 784 states). What the two dangerous scopes leave of the
other properties is proved too: `SessionOutsideWipe` and `OnlyWipeTakesKeys`.

`RevocationsCorrect` assumes that `None` is no node. `NetworkAssumption` asks of the proxy
modes only that the two the code compares with are among them.

### The double ratchet

`DrSession_proofs` proves, for every `MAX_SKIP \in Nat` and every set `Text`,
all the properties of `drsession`: `SessionTypes`, `SessionAtMostOnce`,
`SessionMessageKeys`, `SessionForwardSecrecy`, `SessionSkippedKeys`,
`SessionAcceptance`, and `SessionImplementsChannel`, the refinement of `DrChannel`.

None of the properties is inductive. `AtMostOnce` needs that a message behind the
receiver's cursor is either shown or in the skipped list, which needs that the
cursor follows the sender's chain, which needs that both sides derive the same
chain. The invariant `IInv` says so in parts:

- `StateInv`: all keys of a state follow from its key pair number and counters;
  the chains of a session are numbered by the key pair that opened them and
  chain `c` has the root key `RootOf(c)`;
- `TurnInv`: one side is exactly one ratchet step ahead, and the next fresh pair
  is the next number;
- `CursorInv`, `EnvelopeInv`, `ChainInv`, `IdentityInv`: cursors do not overtake, every
  envelope carries the key of its place, chains have no holes and `pn` is the
  length of the previous one, and places and texts are unique;
- `ShownInv`, `SkippedAreTheMissing`, `AtMostOnce`.

The argument: `RootOfInjective` and `RootOfOnlyStep` separate the root keys of
different chains. `Position` says where an envelope lies relative to its receiver.
`DecryptMissing`, `DecryptSameChain`, `DecryptOldChain` and `DecryptNextChain` compute
`Decrypts` and `AfterDecrypt` in the four cases, which gives `AcceptsExactly` at once.
`SendIInv` and the lemmas on `Receive` take the invariant through a step, one
lemma per case, one step per conjunct. TLC checks `IInv` as an invariant of
`drsession`.

### Direct messages

`DmInv` says what the comment at `lib.rs:1715` gets wrong and what follows from it. The
higher peer's `load_or_init_dr_state` never leaves a session, because its only way to
one is to accept an envelope or to write a first one as Alice, and it writes as Bob. The lower peer's session is
the one it initialised when it first wrote, and only its counter moves; removing
and adding the friend keeps the row. So all envelopes are of one chain, with root key of
length two, and their numbers differ, which gives `MessageKeysUnique`. Its receiver
starts as Alice too, so it has mixed in two outputs before the envelope comes and mixes in a
third to read it: its root key is longer than the sender's, and nothing opens: `NoEnvelopeOpens` states it for every
`MAX_SKIP` and every set of texts, and makes the counterexample `dmfirstcontact` the rule. What is shown
therefore came by the mailbox, whose records hold what their writer has in its
history (`MailInv`): `ShownWasWritten`.

`DmImplementsRegister` follows from the same invariant, one lemma per kind of step: the
handler of `SendPrivateMessage` writes (`SendIsWrite`; whether a record gets into the slot
depends on friend and key, which the register leaves open), a poll shows
(`PollIsShow`), a record's age empties the slot, everything else stutters, the
handler of envelopes because of `NoEnvelopeOpens`. It is the safety part: the register
promises no showing, which is `MailIsShown` and stays with TLC, and `MaxRows`
bounds the copies in `DirectMessages`, not in `MailRegister`.

### Rooms

`RoomInv` says of every document, in memory, in a database or in an envelope of
gossip, that it holds whole histories of its own room and password only (`Good`), and
that every message in it was written. The second fact makes the first inductive:
the message written next is in no document yet, so its record can be added
without contradicting one. A merge is a union of lists, list by list, so it keeps
both. `MessagesListIn` says that a document with lists has a greatest one, from the
well-foundedness of the naturals.

### Profiles and sessions

Two actors load or generate keypairs. What keeps them apart is that a path is
queued only after the command has loaded the key or written it whole, and that a
wipe of the messages leaves keys alone: so the loop finds a whole key for every
path in its queue, never generates one on disk, and opens with the identity the
command returned. `ProfilesInv` has three parts:

- `Basic` holds always: the types, which keypair the loop has or is creating
  (`LoopKeys`), that what is open is there (`HandlesOpen`), and that a wipe removes what it
  listed (`Listed`);
- `Calm` holds while `~WipesKeys`, that is until a wipe with a dangerous scope begins:
  how far the command's file is (`UiInv`), from which step on the loop has
  the key and has published it in `AppState`, for a session that is starting and for one
  it serves (`LoopInv`), and that every queued path has its keypair (`QueueInv`);
- `OwnerIsIdentity`, under `MessagesOnly`: roles are seeded by a loop that has the key of the
  path its connection belongs to.

A wipe that removes keypairs ends with its process, and the next one starts with
an empty queue and no session, so `Calm` holds again. `SessionOutsideWipe` is what `Calm` says
of the session. `LoginReturnsSessionId` is about a command that has returned, so it needs no
condition. `OnlyWipeTakesKeys` is an action property: while a whole keypair is there neither
the command nor the loop writes it, because both look first, and after a removal only the
loop can find none and create one, which `LoopKeys` follows to the write.

### Admission

The inductive invariant `GateInv` relates a bucket to the ghost `passed`: the bucket is
in order, holds exactly the last of the times that were let through, and what was
pruned is older than a window. `PopExpiredSuffix` says what pruning leaves;
`PrunedFits` and `LetInFits` take the relation through a refused and an admitted
request, under whichever limit it was compared with. `PolicyKept` follows action by
action, from the guards each handler repeats and from what each does when a read fails,
for any sets of failing reads.
`RevocationsCorrect` holds of announcers that name whomever they like and of marks that
fail: a table names a revoker only in whose name an announcement was made, what a
room's list in the DHT names is revoked somewhere, and a node with a session hears
its room. That the one named made the announcement is what the missing signature
loses (`RevokerAnnounced`, section 4). It is not in the list of runs; `Revocations.cfg`
checks the same invariant on two nodes, 73 600 states.

### The database

`RowsWithinQuota` is about a sum over a set, which the community modules define by a fold
that takes the elements in an order `CHOOSE` picks. The provers cannot do induction
over sets with an operator, but need none here: `SumAdds`, that taking any one
element out of a set lowers its sum by that element, is proved by contradiction from
the size of the smallest set for which it fails. With it the sum before and after a row
is replaced can be compared. `QuotaInv` adds that rows count the size of their content
and that the quota never exceeds the largest there was. The contents of `blind` are left
out of the sum: a chunk admitted on a failed read joins them (`WithoutSized`), and one
admitted on a sum that was read shows that all rows fit again, so `blind` is emptied.

`SettingsInv` follows a save through its statements: rows behind the cursor are those of
the configuration being saved, every row is of a configuration in `since` or was never
written and reads as the default, the older table's row included
where `load_full_config` falls back to it, and an undisturbed session runs with what would
be loaded. A complete save resets `since` to one configuration, which is sound exactly
because all six rows are then behind the cursor.

`MigrationsCorrect` and `OpenHasSchemaHolds`: the schema always has what `user_version`
says, and a connection that `init_db` returned sees every table, for any processes,
failures and ends. `Migrations.cfg` checks the same on three processes.

### The wire

`X3dh`: both sides' secrets are equal exactly when the receiver uses all the
secrets of the bundle (`Agreement`), different ephemeral keys or encapsulations
give different secrets (`FreshSecrets`), and `mark_opk_used` admits an identifier once
(`OpkUsedOnce`). `Framing`: reading undoes writing for every length and filler within
the width of the length field, and what happens beyond it. Both are statements
about operators, from the definitions alone.

`NetworkInv` adds to its properties that mDNS is on as long as it was never off, and that a
lapsed peer is still announced at another address. `OnionInv`
adds that a packet is at its last hop or one before it (`Routed`), that a counter under
way was drawn by its sender (`Counted`), and that a receiver's counter is past
whatever it showed unless a save was lost (`Behind`), from which `ShownInOrder` follows.
`LegacyAccounted` is kept by every handler: a message leaves the network by being
shown, forwarded or recorded in `missed`.

### Locks

`CommandLocks_proofs` proves `PathsOfOneLoginHolds` and type correctness for any
tasks, profiles and capacity. Its invariant adds what makes the property inductive: a
login between its two assignments holds `db_path`'s mutex, two of them cannot be
there at once, and the paths are equal when nobody is between them.
`LocksInOrderHolds` is the order of the two mutexes: `KeyInv` says which commands hold
`key_path` at which line (`KeyHolders`) and that a trust edge which goes on to the
in-memory branch read the path of an amnesic login (`EdgeOfMemory`); everyone
else holds no `key_path` when it asks for `db_path`. `CommandLocksWipe` is the deadlock in
the one case that is left.

### Left to TLC

Liveness (`MailIsShown`, `LoginTakesEffect`, `CommandsReturn`) is out of the prover's reach like
anything about `ENABLED`. The counterexamples of section 4 are TLC's by nature, except
`FirstContactOpens`, of which `NoEnvelopeOpens` is the general form. `IdentityKept`,
`OwnerIsIdentity` and `SessionOfOneProfile` during a wipe that removes keypairs are false,
as said above.

## 6. Not modelled, and why

- Cryptographic primitives are symbolic throughout; key sizes, nonces and
  encodings do not appear, except as lengths in `Framing`.
- Commands behind `db_key` cannot be reached (section 1). `CommandLocks` has the
  locks they take; their bodies, and the functions of `governance.rs`, `sharding.rs`
  and `file_transfer.rs` that only they call, have no behaviour in this program.
  `spam.rs` is called by nothing.
- Plugins: manifest checks and a subprocess per call. Media, system and update
  commands: stateless calls to the operating system. Command line and bootstrap
  nodes: loops that print or relay. FFI and push: a wrapper and a stub. The
  vendored Tor transport, the user interface and the fuzz targets.
- libp2p, SQLite, Automerge and the keyring are taken for what they promise.
- In the modules that exist: ttl and retention, several senders to one mailbox,
  failing database writes outside `Settings`, `ChunkStore`, `OnionMessages`,
  `Revocations` and `Migrations`, failing database reads outside `RequestGate`,
  `ChunkStore` and `Revocations`, a crash between sending an envelope and saving the
  ratchet row, the permission checks of rooms, random delays.
- `wipe_path` overwrites a file with zeros before it removes it; `WipePath` does both in
  one step. A crash in between leaves a file of zeros, which holds as little as one that
  is gone, though a later login would find it and fail.
- `SendPrivateMessage` ends before it changes anything when the sender has blocked the
  recipient or trusts him less than `min_trust_dm`; in `DirectMessages` that is the action
  not being taken, so the module has these behaviours and those of a sender without
  such settings.

## 7. Plan

Done: all modules of section 2, their runs, the proofs of every safety property the runs
check, and both refinements. Next, in this order:

1. `DirectMessages`: a crash between the envelope and the saved row, ttl against the
   poll, a second sender to one mailbox.
2. `RoomSync` as replicas that only grow until a room is opened anew, as an abstract
   specification it implements; permission checks of the gossip handler with the grants
   `Profiles` seeds; retention.
3. Sharding and the combination of shards, if a reachable caller appears.
