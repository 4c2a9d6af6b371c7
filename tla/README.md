# A verification of redoubt-api

redoubt-api is the server of a chat system, in Go: HTTP handlers over services over PostgreSQL, with
Redis, an S3 object store and LiveKit beside it, and one hub that keeps the WebSocket connections in
memory. This directory holds TLA+ models of its parts, the TLC runs that check them and the proofs
TLAPS checks. File names below are relative to `src/internal` unless they start with `src`.

## 1. Inventory

### Parts, their state and operations

| Part | Code | State it keeps | Operations |
|---|---|---|---|
| Presence hub | `presence/hub.go` | `connections` (user → connection), `spaces` (space → subscribed users), `typing` (key → time), one `RWMutex`; `users.presence` in the database | register, unregister, subscribe, unsubscribe, broadcasts, typing, cleanup, Stop |
| Connection | `presence/connection.go`, `api/handlers/ws.go` | `closed` under its own mutex, the buffered channel `send`, the socket | Send, closeWithCode, ReadPump, WritePump |
| Rate limiter | `ratelimit/limiter.go`, `api/middleware/ratelimit.go` | one sorted set per scope and identifier in Redis, with a time to live | checkSlidingWindow; the middleware fails open |
| Voice | `voice/service.go`, `livekit/` | `voice_connections` (at most one row per user); rooms in LiveKit | Join, Leave, UpdateMuteState, ServerMute, lists; the webhook |
| Messages | `messages/service.go` | `messages` (thread, reply count, deletion), `message_edits` | send, edit, delete, list with a cursor, thread replies |
| Reactions | `messages/reactions.go` | `reactions`, unique by message, user and emoji | add, remove, toggle |
| Read state | `messages/readstate.go` | `memberships.last_read_*` | mark read, unread counts |
| Accounts | `auth/`, `api/handlers/auth.go`, `sessions.go` | `users`, `sessions`, `email_verifications`, `password_resets`, `login_attempts` | register, login, refresh, logout, verify, request and do a password reset, revoke |
| Admin panel | `admin/` | `admin_sessions`; users' `disabled_at` | login, disable, enable, revoke, delete a space, revoke an invite |
| Spaces | `spaces/service.go` | `spaces`, `memberships` with roles | create, update, delete, kick, change role |
| Invites | `invites/service.go` | `invites` with uses, `max_uses`, expiry, revocation; the bootstrap code | create, join, revoke, bootstrap |
| Channels | `channels/service.go` | `channels` with positions and soft deletion | create, update, delete, reorder |
| Storage | `storage/` | `media_files`, `attachments`; objects in S3, encrypted per file | upload, read, delete avatars and attachments |
| The rest | `opengraph`, `email`, `audit`, `config`, `errors`, `cache`, `telemetry`, `logging`, `db`, `api/router.go` | caches, logs, configuration | clients of external services, output, wiring |

### How the parts interact

* Every service reads and writes the database call by call. **There is no transaction anywhere in the
  services**, so each operation is a sequence of reads and writes that others' calls come between and
  that may stop half-way.
* Services publish events by calling the hub's `Publish…` functions in the request's goroutine; the
  hub looks connections up under its read lock and queues on each connection's channel. The hub itself
  calls the database (`updateUserPresence`, channel lookups).
* Each connection has a reader (the HTTP handler's goroutine) and a writer; the hub's loop, `Stop`,
  both pumps and every publisher may close a connection.
* Middleware and some services ask the rate limiter; when Redis fails, the request passes.
* LiveKit is called by voice and calls back through a webhook.

### What is hard here, and what makes a part correct

* **Hub and connections**: goroutines that overlap (a check of `closed` and the channel operation after
  it; `closeWithCode` in two halves; the unregistration of a replaced connection after its successor's
  registration; Stop beside a loop that still runs), buffers that fill, presence that outlives the
  process. Correct: one live session per user, channels closed once, nobody waits for the loop for
  ever, the presence shown agrees with the connections.
* **Typing**: stops are broadcast by goroutines of their own and may be late or lost. Correct: an
  indicator goes away after its user has stopped typing.
* **Rate limiter**: a pipeline is no transaction; key expiry, Redis failures. Correct: no more than the
  limit in a window, nobody refused without that many attempts, no key kept for ever unless a pipeline broke off.
* **Voice**: two requests of a user, two joins for one place, calls that fail half-way, deletions of
  channels. Correct: the others see a user where the table has the user; capacity.
* **Messages**: reply counts kept apart from replies, edit history written from a stale read, events
  out of order. Correct: threads stay one level deep, counts agree with replies, deleted is final.
* **Accounts**: check-then-act on user counts, invites and tokens; sessions created while they are being
  revoked. Correct: a token serves once, a revoked or disabled user's sessions are gone, and no access token stays good.
* **Spaces and invites**: check-then-act on roles and uses, multi-step creation, the first user. Correct:
  one owner, for good; uses exceed `max_uses` by what runs at once at most; admins do not remove admins;
  only who may changes a role, and a join never does; there is an administrator.
* **Channels, paging, read state, reactions**: reorderings that stop half-way, messages that commit late
  or carry the same time, toggles that overlap, events that are not sent. Correct: the order asked for, pages
  without gaps and repetitions, nothing newer than the mark counted as read, reactions shown as they are.
* **Storage**: a row and an object written apart, clean-up that may fail, one object key for all of a
  user's avatars of one type. Correct: what is listed can be read, nothing is left behind.

The complete list, with the line where each hazard bites and the properties that cover it, is
`hazards` in `PROJECT.json`.

## 2. Plan

| Order | Module | Composes / abstracts | Runs | Theorems |
|---|---|---|---|---|
| done | `SessionRegistry`, `Hub` | Hub implements SessionRegistry | `hub_*` | `HubProofs` |
| done | `Typing` | the typing part of the hub | `typing` | in `HubProofs` |
| done | `RateLimit` | the limiter and its middleware | `rate_limit` | `RateLimitProofs` |
| done | `Voice` | service, hub events, channel deletion | `voice` | `VoiceProofs` |
| done | `Messages` | service, events, one client | `messages` | `MessagesProofs` |
| done | `Accounts` | auth service, sessions, what the admin panel does to users | `accounts` | `AccountsProofs` |
| done | `Membership` | registration, verification, spaces, roles, invites | `membership` | `MembershipProofs` |
| done | `Channels`, `Timeline`, `Reactions`; `Conversation` composes them | positions, cursors and read state, reactions | `conversation` | `ConversationProofs` |
| done | `Storage` | avatars and attachments, their rows and objects | `storage` | `StorageProofs` |

What is left to model is small: the admin panel's own login and sessions. Every invariant a run checks is proved;
what is left to TLC is listed at the end of section 7.

## 3. The modules and the code

**`Hub`** (with `SessionRegistry` as what it promises). A connection `c` has a reader, `rpc[c]`, that
follows `ServeHTTP` in `api/handlers/ws.go` and then `ReadPump`; and a writer, `wpc[c]`, that follows
`WritePump`. The loop of `Run` is `hpc`; `job` is what it has taken from a channel and, while it
announces an offline user, what is left of its iteration over `h.spaces`. `Stop` is `spc`. The maps are
`connections` and `spaces`, `mu` the holder of `h.mu` where it is held across steps. `Send` and
`closeWithCode` are cut where they release `c.mu`: `target[p]` is the connection whose flag process `p`
has checked, `closer[c]` the process between setting the flag and closing the channel. A registration
is the steps `TakeRegister`, `ReplaceExisting`, `InstallConnection`, `MarkOnline`; an unregistration
`TakeUnregister`, `RemoveConnection` (or `SkipReplaced`), `MarkOffline`, one `TellSpace` for each space,
`EndTell`. Messages are counted, not distinguished: nothing the properties say depends on them.

**`Typing`** keeps of `h.typing` the age of each entry. `SetTyping` is the critical section, and the
broadcasts (`BroadcastStart` in the reader, `BroadcastTypingStop` in the goroutine `CleanupTyping`
starts) are steps of their own, because each looks its channel up first. `late` and `lost` remember
broadcasts that took longer than the expiry, or failed.

**`RateLimit`** follows one key. A check reads the clock (`Start`), then its pipeline's four commands
are four steps, since go-redis' `Pipeline` is no transaction; `Tick` moves the clock and lets the key
expire. Members of the set are stamps, which is what the code uses (nanoseconds). `RedisFails` is the
middleware's failing open, after any number of the commands; `cut` is the one of those cases that leaves a mark,
an entry added to a key without an expiry.

**`Voice`** has a row per user (`row`), requests in slots, and for one user the mutes in the row and the
channels in which another member shows the user. Who is in LiveKit's rooms is not in it: the calls to LiveKit are
points where a request may fail. `Join` is the phases *find, delete, left,
force, count, insert, joined* of `service.go:73-242`, each ending where a call may fail; `Leave` shares
the first of them. `UpdateMuteState` and `ServerMute` update the row that is there when they come to it, which may
be another one than they have looked at. `SoftDeleteChannel` is what `channels/service.go` does to the rows.

**`Messages`** has the rows (`messages`), and of the first message the text, the edit history and what
a client shows. `SendMessage`, `EditMessage`, `DeleteMessage` are the reads and checks at the start of
these functions, and each write and the final event is a step of its own that may fail. `With…`, `InsertEdit`
and `UpdateContent` are the queries.

**`Accounts`** follows one verified account: sessions, access tokens, resets and the recent failed attempts
of each address that a login may name. `Login` is the lockout's count of its address, `GetUserByEmail` the comparison with the password, then
`RecordLoginAttempt` or `CreateSession`. A password reset is `GetPasswordResetByToken`,
`UpdateUserPassword`, `MarkPasswordResetUsed`, `RevokeAllUserSessions`; disabling is
`AdminDisableUser` and the same last step. Expiry is a step that may happen at any time
(`AccessExpires`, `SessionExpires`, `ResetExpires`, `AttemptAges`).

**`Membership`** has the tables `users` (with `admins`, `verified`), `email_verifications` (`tokens`), `spaces`,
`memberships` (`role`) and `invites`, and requests that are each served once. The queries come first, each under
the name it has in `db/generated`. Then, for each handler, an action with the handler's name that begins it
(`Register`, `KickMember`, ...), the check of the service it calls (`BeginKick`, `CheckCode`), and an action for
each query that follows: a kick is `KickMember`, `ReadTargetRole`, `ReadActorRole`, `KickOut`, since the service
reads the two roles by queries of their own (`spaces/service.go:217-254`). `Refused` is a query that fails, or a
check that does, anywhere on the way; where the code only logs a failure (the use of an invite, the purge of
tokens) the action itself has that alternative. Access tokens carry `is_admin` and are not looked up, so that
`Known` users act, also deleted ones, for as long as their token lasts. `TokenExpires` takes an email token away at
any time: what is in `tokens` is what the query with `expires_at > NOW()` finds. `AdminDeleteSpace` and
`AdminRevokeInvite` are the admin panel's, which asks for no role.

**`Conversation`** composes `Channels`, `Timeline` and `Reactions` over shared requests and memberships; members
join, are kicked and change their role in between (`ChangeMembership`, the last write of what `Membership` has in
detail). `Channels` has the rows with their positions: `CreateChannel` always inserts at position 0 (section 6),
`ReorderChannels` checks and moves one channel after the other. `Timeline` has messages with `created_at`, and
the moment they are visible apart from it: a message is dated when its insertion starts and seen when it commits.
`ListMessages` and `FetchPage` are pages of one client's walk through a channel, with the cursor of the last row;
`BeginMark` and `StoreReadState` take the time and store it. `Reactions` has the rows, and what a client makes of
the events it is sent after it has loaded the reactions.

**`Storage`** has the objects in S3 by their keys, the rows of `media_files` and `message_attachments`, and the
users' URLs. A file is named after the request that uploads it, which encrypts it with a key of its own: `Decrypt`
holds of the object and the row of one name. `UploadAvatar` finds the old avatars, deletes each one's object and
row (the failures are logged), puts the object, stores the row, undoes the object if that fails, and sets the URL;
an attachment is counted, put, stored and linked, with the clean-up in the opposite order. A call to S3 that fails
may have been carried out. Reading an avatar is two steps, `GetAvatar` (the row) and `DownloadAvatar` (the object
under the key read before), with any steps of the requests between them.

Definitions that begin with the comment *Mutant* are wrong variants of the definition after them. No
action uses them; they are there to see that each property notices such a change of the code.

Variables marked *history* (`late`, `lost`, `unsure`, `missed`, `drift`, `doomed`, `shared`, `raced`, `mixed`, `kept`, `cut`, `stuck`, `overtaken`, ...) model
nothing in the code. They say when a property may not hold, as narrowly as we could: they are set by
the very step in which the code loses what the property speaks of.

## 4. The runs

| Run | Instance | Shows | Distinct states |
|---|---|---|---|
| `hub_faults` | one user connecting twice, a space, buffer of one, shutdown, kill, restart, failing presence writes | types, a lock whose holder can go on, one live session, no double close, no open connection in the map that nobody reads; the hub implements the registry | 1.57 million |
| `hub_presence` | the same without faults, two spaces, a publisher | presence in the database and connections agree whenever the loop is idle | 1.93 million |
| `hub_live` | one user, two connections, under `FairSpec` | everybody who waits for the loop is served, closed connections give up their goroutines | 142,000 |
| `typing` | two typists, three frames each, expiry of two ticks | indicators end, entries end, a shown indicator is one the hub will take back | 91,809 |
| `rate_limit` | four requests, limit of two, window of four ticks | admission bound, refusals are justified, keys expire unless a pipeline was cut | 846,734 |
| `voice` | three users, two channels of capacity one, two requests | the others' view is the table's, one channel at a time, capacity | 529,348 |
| `messages` | three messages, two requests, two texts | flat threads, counts, history, the client's view, finality of deletion | 5.18 million |
| `accounts` | two sessions, a reset, two requests, lockout at one, two addresses | revocation, single use, lockout of each address, access tokens that come to an end and only wane on the way | 1,401,834 |
| `membership` | three users, two spaces, an invite for one use, three requests, from an empty server or from one with a space in any state of its roles | one owner for good, what a half-made space admits, the invite's uses, an administrator, verification, who removes members and who changes their roles | 2,662,216 |
| `conversation` | two users, two spaces, four channels, four messages, three moments, pages of one and two, two requests | reorderings, pages without gaps, marks, reactions shown, toggles | 1,658,200 |
| `storage` | two users, a message that may have one attachment, two types of avatar, three requests, a reader of avatars | an avatar whose row was read decrypts or is not found, one avatar or none, the attachments' limit, nothing left behind | 3,102,527 |
| `hub_panic` | the hub's instance, one property | a counterexample, see section 6 | |

`accounts`, `membership` and `storage` need two to three minutes each, the others less.

*Conjunctions.* Some configurations name a conjunction; each of its conjuncts is stated on its own in the module,
where it can be checked alone or read. `TypingInv` is `TypingTypes /\ ShownIsTracked` (the names of `Typing` differ
from those of `Hub`, since `HubProofs` extends both). `Inv` is, in `Hub`, `TypeOK /\ HolderGoesOn`; in `RateLimit`, `TypeOK /\ DenialJustified /\ KeyExpires`; in `Voice`,
`TypeOK /\ CapacityBound`; in `Messages`, `TypeOK /\ FlatThreads`; in `Membership`,
`TypeOK /\ HalfMadeIsClosed /\ AdmissionBound`; in `Conversation`, `TypeOK /\ ReactionsAgree`, which is
`ReactionsShown /\ ToggleFlips`; in `Storage`, `TypeOK /\ ReadersOK /\ AttachmentBound /\ AttachmentsReadable`, where
`ReadersOK` is the types of what readers hold.
`PresenceAgrees` is `ConnectedShownOnline /\ OnlineIsConnected`, `LoopServes` is
`UnregisterReturns /\ RegisterReturns`, `TypingEnds` is `IndicatorEnds /\ EntriesEnd`, `TokensEnd` is
`EndedLosesTokens /\ ClosedLosesTokens`, `TokensWane` is `EndedWanes /\ ClosedWanes`, and `RolesByRight` is
`KicksByRight /\ ChangesByOwner`.

*Why the bounds are enough.* The conflicts in this code are between two processes: two connections of a
user, two requests on a row, a request and an event. With two slots a slot is used again and again, so
that every operation meets every other one at every step and in every order they may follow, and the
state that is left behind by earlier ones. Two connections are a replaced one and its successor; a third
could only be the successor of a successor. A buffer of one fills up. The rate limiter needs more requests
than its limit, and a clock of more than two windows, so that a key can expire and be made again. Voice
has a capacity of one and two channels, so that a join can leave one, be refused by the other and compete
for it. Messages need a root, a reply and a reply to the reply. For the lockout one attempt is the
threshold, so that the second request is the one too many, and two addresses show that each is counted alone.

In `Membership`, `Conversation` and `Storage` a request is served once, so that the number of requests bounds a
behaviour. What earlier requests would have left is in the initial states instead: any roles in a space, a space
without an owner, an invite that is new or used up, channels and messages of equal and of different times, an avatar and an
attachment. Three requests in `Membership` are two that conflict and one that changes what both have read (a role,
a space, an invite); in `Storage` two for one user's avatar and one for a message, or any other mixture. Readers change nothing that
another step looks at, so that one is as good as many. In
`Conversation` two requests conflict with each other and with single steps that need none: commits, deletions,
changes of membership take one, time and the client's loading do not. Three messages before the walk starts, and
one that may be sent during it, make two pages of one or two, a page that is exactly full, and a message
that is dated like the cursor's. Symmetry is used in runs without liveness properties only, over sets whose members the modules do not tell apart.

*Deadlock* is checked where the system cannot stop; in `Hub` all connections may be done or the process
dead, in `Typing` all frames typed, in `RateLimit`, `Membership`, `Conversation` and `Storage` all requests answered.

## 5. Fairness

Safety runs assume none. `Hub!FairSpec`: goroutines that can run do run (the Go scheduler), the loop
serves what it can take, and a reader whose connection's channel is closed gets a read error in the end,
though frames may arrive before it (strong fairness of that step: the writer sends a close frame and closes
the socket, or the pong deadline passes). Nobody has to connect, subscribe or publish, and no fault has to
happen. `Typing!TypingFairSpec`: the goroutines run, the ticker fires, time passes; nobody has to type.
`Accounts!FairSpec`: handlers run to their end, and access tokens expire; no session has to expire, no
request has to come.

## 6. Where the code and what it says differ

* `hub_panic`: `Send` checks `closed`, releases the mutex and then sends on the channel; `closeWithCode`
  may close it in between, and the send panics. A handler's panic is recovered, one in the hub's loop ends
  the process.

The next ones are seen in the models, where properties exclude them or are stated so that they hold beside them:

* After `Stop` the hub's loop may still install a connection it had taken, which then stays open.
* The rate limiter's pipeline is called atomic (`ratelimit/limiter.go:66`), but the key may expire between two
  of its commands and take an entry with it, so that a request more than the limit passes. `rate_limit` shows
  that this is the only way: without those entries the limit holds.
* A pipeline that breaks off between its `ZADD` and its `EXPIRE` (`ratelimit/limiter.go:73-87`) leaves a new key
  without an expiry. It stays until a check under the same key completes, for an identifier that does not come
  back for ever; `KeyExpires` says that this is the only way to such a key.
* Nothing ties who is in a LiveKit room to `voice_connections`: `Leave` deletes the row also when `RemoveParticipant`
  has failed (`voice/service.go:217-229`), and the deletion by force (`voice/service.go:128`) does not call LiveKit.
* `src/docs/CONFIGURATION.md:83-84` speaks of an account's lockout. Failed attempts are counted by email and
  address (`auth/service.go:495-516`), and the address is the one the request names in `X-Forwarded-For`
  (`api/handlers/auth.go:441-474`): `LockoutBound` is per address, and an account's attempts from all addresses
  together have no bound.
* A WebSocket is authenticated when it is opened (`api/handlers/ws.go:43-127`). Neither the end of the session, nor
  a disabling, nor the end of the token closes it or looks at it again: `TokensEnd` is about access tokens only, and
  so about HTTP requests and new WebSockets.
* A user whose verification token has expired, or could not be stored, cannot verify the account before asking for
  another mail.
* A GET of an avatar reads the row and then the object (`storage/service.go:144` and `:162`); an upload of the same
  type between the two puts another object under the key, and the GET fails, although there is an avatar before and
  after it. So do GETs after uploads that overlapped.
* An object of an attachment that S3 has stored and reported as failed is not cleaned up
  (`storage/attachments.go:157-160`).
* LiveKit's webhook passes the name of the room where the id of the channel is needed, so that nobody is told
  that a participant has left, and the row stays.
* `src/docs/INSTALL.md:37` speaks of a one-time invite code for the first user; the bootstrap code is never
  invalidated (`auth/service.go:76-79`).
* `CreateChannel` asks for the next position (`channels/service.go:44`), but the maximum comes as an `int32`
  and is taken only if it is an `int64`: every new channel is at position 0.
* The API marks a channel as read and counts a channel's unread messages; what is stored is one time per
  membership, so that marking one channel marks all of the space. The message named in the request may be one of
  another channel, the user's own messages and replies count as unread, and a message that was dated before a
  mark and committed after it is never unread.
* An admin whose kick of another admin runs beside a change of one of their roles may remove an admin.
* Who creates a space is its owner (`spaces/service.go:229` and `:275` refuse to kick or to change the owner), but
  not before the membership is stored: in between, the creator may join the space by an invite of an instance
  administrator's and so be a plain member, and a kick or a change of role that has read that row still goes
  through after the row has become the owner's. The space has no owner then. It takes five requests, where the run
  has three: the proof of `OneOwner` failed there, and the property excludes such a kick (`raced`).
* Two first registrations at once make two administrators; the only administrator may delete the account.
* The attachments of a deleted message stay: `DeleteMessageAttachments` has no caller, as
  `GetChannelUnreadCounts` and `GetReadState` have none.
* A deleted user may upload an avatar for as long as the access token lasts, and nothing removes it.

Seen while modelling, and named in the properties' exclusions rather than as runs of their own: a reader of a
replaced connection may subscribe its user after the user's unregistration; presence rows stay *online* when
the process is killed; a late typing stop may overtake a newer start; two requests that delete one reply
subtract it twice from the thread's count; a login that has read the account creates its session after the
revocation of a reset or a disabling; a reset that two requests have read serves both; `Logout` reports
success when the database fails.

## 7. What is proved

TLAPS checks the following for every value of the constants that satisfies the modules' assumptions
(`HubAssumption`, `ProcAssumption`, `TypingAssumption`, `AccountsAssumption`, `RateAssumption`, `VoiceAssumption`,
`MessagesAssumption`, `MembershipAssumption`, `StorageAssumption`, `ChannelsAssumption`, `TimelineAssumption`,
`ReactionsAssumption`, `ConversationAssumption`): the constants that stand for nobody or nothing
are none of the others, the sets whose members are counted are finite, `Membership` and `Storage` have at
least one request, and `Conversation`'s bounds leave room for what there is at the start. Numbers of users, requests, messages, spaces and files are any; the clock is unbounded.

**`HubProofs`**, 1302 obligations:

* `TypeCorrect`: `TypeOK` is inductive.
* `Invariance`: `IInv` is an invariant. `OneLiveSession` alone is not inductive: whether the loop may put a
  connection into the map depends on what it has done before it takes the lock a second time. `IInv` adds
  who holds the lock (`LockOK`), how far the loop's job has come and in which state its connection's reader
  is (`JobOK`), which connections the map may hold (`MapOK`), that a closed channel has its flag set and is
  closed once (`CloseOK`), and that a reader that has not registered or has left sends nothing (`SenderOK`).
* `OneLiveSessionHolds`, `NoDoubleCloseHolds`: they follow from `IInv`.
* `HubRefinesRegistry`: `Spec => Registry!Spec`, each step of the hub an attachment, an end, a detachment or
  a clearing of the registry, or a stutter. Most steps end connections or do nothing there (`EndStep`);
  `InstallConnection` is an attachment because of `JobOK`, `RemoveConnection` a detachment because of `MapOK`.
* `NoSilentGhostHolds`: `GhostOK` follows the readers that leave. One that has been taken from `Unregister` is
  closed, or in the loop's hands, or out of the map and not about to enter it; one that has returned is closed,
  also by the panic in `SendAuthSuccess`, since that one is sent to the reader's own connection.
* `PresenceAgreesHolds`, with `"db"`, `"stop"` and `"restart"` not among the faults (each of the three makes the
  property false, and `PresenceAgrees` is stated for a process without them): `PresenceOK` says that presence and
  map differ for the loop's own user alone, and only between the change of the map and the write that follows.
* `ConnectedShownOnlineHolds`, with only `"db"` not among the faults: of `PresenceAgrees` the half that survives
  stops, kills and restarts. `ShownOK` says it for every user in the map but the one the loop has in hand.
* `InvHolds`: whoever holds `h.mu` across steps is closing a connection, which needs no lock any more, or is free to go
  on. `HolderOK` adds that the loop sends only while it tells of a user who left, which it does without the
  lock, that `Stop` never sends, and that the lock is gone with the process.
* `TypingInvHolds`, about `Typing`: `StartTracked` adds that a start on its way
  belongs to an entry that is not stale yet, or counts as late.

**`AccountsProofs`**, 1018 obligations:

* `TypeCorrect`: `TypeOK` with what each request needs for its next step.
* `LockoutHolds`: a login holds its place at its address from the count of the attempts until its own is recorded. So the
  invariant counts, with the failures of each address, the logins from there in both phases (`LockoutInv`); `LockoutBound` counts only the
  second. The cardinalities come from the library's `FS_` theorems.
* `OldSessionsEndHolds`: `OldSessionsEnd` is inductive given the types.
* `ResetServesOnceHolds`: `ResetInv` says that a reset that is not shared has at most one request, and that
  once it has changed the password it is used, or its only request is about to mark it.
* `TokensWaneHolds`, an action property: what a step may make of a session (`SessionGoesOn`), who comes to refresh or to
  create one (`RequestsGoOn`), and who gives a session a token (`AccessGoesOn`). That a login makes a new session and
  does not revive an ended one rests on the order of the rows (`RowsInOrder`, `NextRowIsNew`).

**`RateLimitProofs`**, 704 obligations:

* `InvHolds`: the check that counts too many has counted others' entries within its window (`DenialsOK`), since
  entries older than its stamp are gone when it counts (`EntriesOK`); and while there are entries the key has an
  expiry, or a check that has added one is about to set it, or a pipeline broke off in between and none has set it since
  (`KeyOK`, with the history variable `cut`, which the next `EXPIRE` and the key's end take back).
* `AdmitBoundHolds`, for stamps of which no two are equal (`Unique`; with equal stamps two requests are one entry,
  and the limit does not hold). Of the requests that passed within a window less the latency, take the one that
  counted last (`AdmitOK`): the entries of the others were there, so that it counted them all.

**`VoiceProofs`**, 683 obligations:

* `TypeCorrect`, `InvHolds`: `RowsOK` (a mute has a row) and `CapacityBound`: a join that has been counted keeps
  its place until it is inserted.
* `ViewMatchesHolds`, `ShownOnceHolds`: the view is the table's but for what the requests about the watched user
  are yet to announce (`ViewInv`, with one conjunct for each phase of a request, `HandledOK`).

**`MessagesProofs`**, 1728 obligations:

* `InvHolds`: `FlatThreads` needs that what a reply has read of its thread's root stays true (`Rooted`), in the
  requests and in the rows.
* `DeletedIsFinalHolds`: no step makes a deleted message live, since each rewrites rows only where they are live.
* `HistoryCompleteHolds`: while no two edits overlap, the only one has recorded what it read before it writes.
* `ViewMatchesHolds`: what the client shows of the first message is the row's, but for the one event that is
  under way (`ViewInv`).
* `ReplyCountHolds`: `ReplyCount` is inductive: a reply is counted before it is there and until after it is deleted,
  and the request that makes or deletes it makes up the difference (`Pending`).

**`MembershipProofs`**, 2157 obligations:

* `InvHolds`: `HalfMadeIsClosed` follows from `HalfInv` (a space that anybody is in, or that has an invite, has an
  owner or an invite of an instance administrator's); `AdmissionBound` from a sum: an invite's uses, the uses lost, and the
  requests that have read it cover the accounts it has let in.
* `OneOwnerHolds`: `OwnerInv` says that a space whose owner is to be stored has no owner and one request to store it, and what kicks and
  changes of role have read is true unless they are in `raced` (`KickInv`). This proof found the way to lose an owner
  that section 6 describes.
* `RolesByRightHolds`, an action property: for removals from `KickInv`, for changes of role from `ChangeInv`, which says
  that who is past the check is an instance administrator or the space's owner. They stay so, since nothing takes
  either away (`OwnerInv`: whose role is *owner* is the space's owner).
* `SomeAdministratorHolds`: who has counted users before the first is settled is to make an administrator (`AdminInv`).
* `CanVerifyHolds`: tokens, and the requests that are to store or to verify one, are those of accounts, and a token
  is taken away only after its account was verified or deleted, or because it has expired (`TokenInv`, `ExpiryStep`).

**`StorageProofs`**, 3350 obligations:

* `TypeCorrect`. The rest needs that what a request has read of a row stays true: the row is there, or no other will
  have its file (`Struct`).
* `InvHolds`: an upload that has counted keeps its place until it is through (`CountInv`); the object of a listed
  attachment is changed by its own upload, which is over, and its deletion (`ReadableInv`).
* `NoOrphansHolds`: a file has one message, whatever there is of it (`OneHome`), and a step that removes the row has
  removed the object before (`Cleaned`).
* `AvatarDecryptsHolds`: while a user's requests do not overlap (`OneBusy`) an upload puts its object only after
  the rows it found are gone (`DecryptsInv`). What a reader holds is then true until an upload puts an object under
  its key, which marks the reader (`ReadersInv`, `overtaken`).
* `AvatarWholeHolds`: the phase of a user's only request says how far row, object and URL are (`Phase`), and what
  the request before it has left is where it starts (`Rest`).

**`ConversationProofs`**, 2716 obligations:

* `TypeCorrect`: the rows' types need that a message is committed by the one request that inserted it (`CommitInv`).
* `ReorderAppliedHolds`, `MovedByItsSpaceHolds`: of a list named to a reordering, the places up to the last one moved have
  their positions (`InOrder`), unless another has moved channels of the space meanwhile; a channel that is about to
  be moved has been found in the space, and stays in it (`OrderInv`).
* `UnreadAfterMarkHolds`: the time of a mark is never later than its beginning, and a membership made anew starts
  at 0 (`ReadInv`).
* `PagesCompleteHolds`: `FirstOfIsSorted` says of the ordered query that it returns its first rows, each once and
  in order; and what was there from the start, still is and is missing comes after the cursor (`PageOK`), which stays
  so whatever is inserted, committed or deleted (`PageStays`).
* `InvHolds`: what a request that works on a reaction has seen or written of it is so, unless two work on it at
  once (`KeyOK`).

Every invariant and every action property of the passing runs is stated by one of these theorems, and so is the refinement.
Each proof also passes with a quarter of the provers' time limits, so that a slower machine should not break it.

*Only model-checked*: what holds under fairness (`hub_live`, `TypingEnds` in `typing`, and `TokensEnd` in
`accounts`), which the prover cannot reach, as it cannot reason about ENABLED. What is proved beside them is the part
that needs no fairness: the lock's holder is never stuck (`HolderGoesOn`), a shown indicator is one that will be taken back
(`ShownIsTracked`), and access tokens only wane (`TokensWane`).

## 8. What is not modelled

* Changes of a space's name and icon and of a user's name (one update of data); lists of spaces, members, invites
  and sessions, the edit history, previews of invites: reads that decide about nothing.
* `Membership` and `Storage` have one invite limit for all invites and one limit of attachments; expiry of an invite is
  its revocation, since the code asks for both in one condition.
* The clocks of the server and of the database are one: `MarkChannelAsRead` compares a time of the one with times
  of the other.
* LiveKit, Redis, PostgreSQL and the mail service appear only as calls that succeed or fail. A call that takes
  effect and is then reported as failed is not distinguished from one that succeeded and was followed by a
  failure, where the code has such a step.
* LiveKit's rooms, and its webhook, which changes no state (section 6).
* WebSockets that are open, where the account's access is concerned: `Hub` has connections, but neither tokens nor
  sessions.
* Contents: texts, names, codes, tokens and hashes are members of small sets, or absent. Validation of input is
  left out, since the inputs that fail it change nothing.
* Several processes of the server: the hub is in memory and the code runs one.
* OpenGraph previews, mail, audit log, telemetry, logging, configuration, errors and routing hold no state that an
  operation depends on.
* The admin panel's own login and sessions, which nothing else reads.
