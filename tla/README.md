# Verification of the Go-gRPC-Microservices platform

A text-to-speech platform: three Go services (auth, voice, generation) that
speak ConnectRPC, a Next.js web client, and a Python TTS endpoint on Modal.
PostgreSQL keeps users, voices and generations; Redis keeps refresh-token
families, the voice cache and the job channel; S3 keeps audio. These modules
model what the services do to that shared state, call by call, so that the
requests of several clients interleave as they do in production.

Paths below are relative to the repository (`src/`).

## 1. Inventory

| Part | State | Operations | Hard because |
|---|---|---|---|
| Refresh-token families: `services/auth/internal/{service/auth_service.go,redisstore/token_store.go}` | Redis: active record, blacklist and grace keys per family (with TTLs), a set of families per user | Login/Register, RefreshToken, Logout, LogoutAllDevices, ListUserFamilies | several round trips per operation, WATCH retries, TTL races, replayed tokens, requests that end anywhere |
| Signing keys: `pkg/token/eddsa_maker.go`, `eddsa_keystore.go` | keys in memory and in Redis, the current key id | sign, verify, rotate, load at startup, export JWKS | key id read apart from signing, memory changed before the store, rotations side by side whose ids are unix seconds |
| Remote validation: `pkg/token/validator.go` | cached public keys, time of the last fetch | validate, refresh once for many callers | stale keys, no refetch for an unknown key id |
| User accounts: `user_repo.go`, `password.go` | a row per user | create, get; hash, verify | classification of constraint errors |
| Generation: `services/generation/internal/{server,worker}` | a row per job, audio in S3, a Redis channel, a buffer per subscription | GenerateSpeech, GetGeneration, GetJobStatus, ListGenerations; worker: handleMessage | pub/sub without persistence, every replica gets each job, ignored errors, crashes |
| Voice catalog: `services/voice/internal/{service,repository}` | a row per voice, audio in S3, Redis: cached voices and lists, search documents | create, update, delete, playback, list, search | three stores without a transaction, cache-aside with invalidation, TTLs |
| Voice seeding: `services/voice/scripts/seed-system-voices.go` | the same rows and audio | seed | writes beside the service's cache |
| DPoP: `pkg/dpop` | jti replay map | verify proof, mark used | not used by a service yet |
| Interceptors, CORS, RPC handlers, logger | none | per-request checks and translation | - |
| Web session: `web/src/lib/token-store.ts`, `lib/auth-context.tsx`, `actions/auth.ts` | per tab an access token, a timer, a refresh in flight, a cached user; one refresh cookie | login, register, refresh, logout, playback URLs, load, close | tabs share the cookie, replies out of order, refresh racing logout, any error clears the cookie |
| Page guards: `web/src/lib/server-jwt.ts`, `server-auth.ts`, `proxy.ts` | public keys with the time they were seen | validate, fetch | retention, failed fetches |
| Web audio: `web/src/lib/audio-cache.ts`, `audio-fetch.ts`, `components/ui/audio-player.tsx`, `voice-audio-preview.tsx` | capped IndexedDB store, object URLs, an audio element per preview | fetch, prefetch, evict, clear, play, pause, seek | eviction from a snapshot, calls that wait for a play, handlers that outlive their card |
| Web voices: `web/src/modules/voices` | list query, mutations, dialogs, create form, recorder | create, update, delete, record | late answers, invalidation, two awaits before a recording starts |
| Web speech: `web/src/modules/text-to-speech`, dashboard | form, submission, polled generation, waveform | generate, poll, listen | forms keyed by a default that loads late, polling that must not end |
| TTS endpoint, generated code, layout, configuration | - | - | - |

How they interact: the web client logs in at auth and keeps the refresh token
in a cookie; voice and generation accept its access tokens by the public keys
they fetch from auth. GenerateSpeech inserts a row and publishes the job on a
Redis channel; the worker goroutine of every generation replica that is
subscribed takes its own copy, calls the TTS endpoint, uploads the audio and
updates the row; the client polls the row. The voice service writes Postgres
and S3 and keeps Redis in step by invalidation and TTLs.

What makes each part correct:

- *Token families*: a refresh token is accepted at most once; a session that
  was closed (logout, reuse alarm, bulk logout, expiry) never reopens; a
  consumed token raises the alarm, but not within the grace period; the alarm
  ends the session whatever runs beside it; a valid unspent token is not
  refused; a live session can be found by a bulk logout.
- *Generation*: a row promises audio only if the audio is there; the row is
  there before the job; a job runs once per replica, ends once, and the client
  sees its end.
- *Voice*: no audio without a row that leads to it; no voice under another
  owner's tag; a quiet cache agrees with the rows, and a stale one does so
  eventually.
- *Signing keys and validation*: a token verifies at its issuer until it
  expires, across rotations and restarts; whoever caches the public keys knows
  every key that has signed for a cache period.
- *Web session*: tabs that refresh at once never raise the reuse alarm; a
  logout is not undone by a refresh in flight; an access token goes on being
  renewed.
- *Web application*: the cache keeps its cap; players do what they were told
  last; what is acquired is released; what was typed is kept; the audio of a
  completed generation appears.

`PROJECT.json` lists every hazard at its line, with the property that covers
it or the reason why none does.

## 2. Modules

| Module | Models | Role |
|---|---|---|
| `TokenStore` | the Redis keyspace of `token_store.go`, the rotation script and the other atomic commands | used by `AuthSessions` |
| `AuthSessions` | the auth operations as interleaving requests over `TokenStore`; properties, and the inductive invariant `IInv` | component |
| `SessionLedger` | what the token store promises: one live token per family, passed on to fresh tokens, closed for good | abstract specification of `AuthSessions` |
| `AuthSessionsProofs` | `IInv` is inductive: effects of each step, then each conjunct | proofs |
| `AuthSessionsSafety` | the theorems of section 5 | proofs |
| `GenerationJobs` | GenerateSpeech, channel, workers, row updates, polling | component |
| `JobLifecycle` | queued, processing, then completed with audio or failed, once | abstract specification of `GenerationJobs` |
| `GenerationProofs` | the theorems about it, in general and for one replica | proofs |
| `VoiceCatalog` | the voice service's requests and the seeding script over Postgres, S3 and Redis; properties, and the inductive invariant | component |
| `VoiceCatalogProofs` | the theorems about it | proofs |
| `SigningKeys` | EDDSAMaker, its key store, and the caches of those who verify; properties, and the inductive invariant | component |
| `SigningKeysProofs` | the theorems about it | proofs |
| `WebSession` | the tabs of a browser, their cookie and server actions, over an instance of `SessionLedger`; properties, and the inductive invariant | component |
| `WebSessionProofs` | the theorems about it | proofs |
| `AudioLibrary` | audio cache, fetches, previews and their players | component of `WebApp` |
| `AudioLibraryProofs` | the theorems about the library alone, whoever uses it | proofs |
| `VoiceStudio` | voice list, mutations, dialogs, create form, recorder; extends `AudioLibrary` | component of `WebApp` |
| `SpeechStudio` | speech form, submissions, generation page, over an instance of `JobLifecycle`; extends `VoiceStudio` | component of `WebApp` |
| `WebApp` | the router, what the user does, what goes on by itself, the properties | composition |
| `WebAppProofs` | that the application uses the library and the generation service as they are specified, and the theorems about the whole | proofs |
| `MCAuthSessions`, `MCGenerationJobs`, `MCVoiceCatalog`, `MCSigningKeys`, `MCWebSession`, `MCWebApp` | symmetry sets, the owners of voices, the plans of the user | instances for TLC |

### AuthSessions

State: `active`, `blacklist`, `grace`, `userFamilies` are the four kinds of
Redis keys, with the TTL that is left; a token stands for its hash. `issued`
holds the claims of every token minted, `held` the tokens that reached a
client, `currentKid` the signing key. `pc` and `loc` place each request
between two round trips and hold its locals. `spent`, `age`, `stored` and the
local `owed` are history the code does not have: only properties read them.

Each action is one round trip together with the code around it. Login is
`BeginLogin` (sign), `StampKid` (GetCurrentKeyID, read afterwards),
`StoreActive`, `TrackFamily` (the SADD), `Reply`. RefreshToken is
`BeginRefresh` (verify), `MintSuccessor`, `StampKid`, then the script:
`RotateOK`, `RotateRefused` or `RotateReuse`; the latter goes on to
`NukeRead`, `NukeExec` or `NukeRetry` (WATCH fails when the key changed since
the read; at most `MaxRevokeTries` attempts) and `Untrack`. Bulk revocation
goes through its pipelines one command at a time, in any order within the
first pipeline and per-family order in the second. `Abort` ends a request
anywhere, which stands for a crash, a cancelled context, any error, and a
response that is lost. `Tick` lets all TTLs pass by one.

Abstractions: time is in ticks; the TTL relations (grace at most refresh) are
what the code's constants satisfy. The script's user and hash checks are all
there; the jkt check is not, because the service passes an empty jkt. Key ids
count up.
Presenting any delivered token at any time covers honest retries, concurrent
tabs and replays alike.

### GenerationJobs

State: `row` and `key` are the columns, `stored` the bucket, `req` the place of
GenerateSpeech, `inbox` the subscription's Go channel, `at` and `job` the place
of each worker in handleMessage, `results` the events published, `seen` what
the client polled last, `taken` history. `Faults` selects what may go wrong:
statements that fail having committed or not, a publish that fails or whose
reply is lost, messages lost on the way, TTS and upload errors, stopped
workers, cancelled requests. Every error branch of the code is an action of
its own, next to the success it departs from. Ignored errors
(`_ = MarkGenerationFailed`) go on whether or not the row changed. The history
links every row, so a client polls any row there is: of a job whose request is
still under way or was refused as well, until it reads an end.

### VoiceCatalog

State: `table` (a row's version, 0 for none), `audio`, and for Redis `cache`,
`list`, `docs` with `immortal` for documents that have no TTL; `at`, `op`, `got`
place each request. One action per call to a store, and `PutDoc` and
`IndexRows` for the HSET and EXPIRE of documents, which may fail one by one.
`Crash` ends a request anywhere; `Expire...` is a TTL running out. The owner of
a voice never changes, so `Owner` is a constant; an update adds one to the
version. `First` and `AfterDoc` spell out the order in which each handler makes its calls.

A run of the seeding script for one voice is a request of kind "seed", of which
one is under way at a time; it goes past the cache. A search reads the index,
and where Redis does not know the command it clears `redisSearchEnabled`, which
no lock protects: `enabled` is then "lately", and every later reader may still
see the old value. What may go wrong is drawn from `FaultSets` at the start and
kept in `faults`, so one run covers several fault models. A search only finds
voices that have a document, so one that was never listed, or whose document
expired, is missed; nothing promises otherwise.

### SigningKeys

State of the service: `service`, `currentKid` and `signing` (the current key),
`known` (the public keys in memory, one for each id), `rotation` (where each
RotateKey is; requests that find the key too old rotate side by side). A rotation
makes a key of its own, but its id, `kid[k]`, is the unix second it starts in:
`second` is the last rotation's, and the next one takes the same or a new one. So
keys may share an id, and wherever keys are kept by id the later one takes the
place of the earlier (`Put`). In Redis: `kids`, `current`, `private`, `public`,
`meta`. `left` and `signed` count the ticks until a key and the last token it
signed expire. For those who verify: `guards` (which of them are page guards; the
others are validators), `seen`, `age`, `answer`.

`Start` is NewEDDSAMakerWithRedis: it passes over ids it cannot read and, without
a usable current key, makes one before it serves. `Swap`, `Retire` and `Store` are
the steps of RotateKey; `Store` is one command of storeKey's pipeline, since the
pipelines of two rotations may interleave, so that after two rotations of one
second the key in memory, the private and the public one in Redis may be three
choices between two keys. `StoreFails` ends the pipeline at any command, done or
not; `Stop` ends the process anywhere. A validator replaces its keys by a fetch, a
guard adds to them and forgets what it has not seen for `Retention`.

`SignerVerifies` and `ConsumersKnow` are about the id of a key: its tokens find a
key of that id, and it is their own unless another rotation of the same second took
the id over. Tokens of a key that was overtaken fail; the code has no remedy, and
the properties leave out exactly those (`Twins`).

Assumed: one auth service at a time; the clock does not go back to an earlier
second; rotations and fetches end within a tick, which is long compared to a second;
a key stops signing with at least a token's life left (60 days against 7); a guard
keeps a key for at least a cache period after it saw it (8 days against an hour).
`lost` collects the keys a start did not find or could not read: the code loses
their tokens, and the properties are about all others.

### WebSession

The auth service is `SessionLedger` with grace periods and the reuse alarm;
`AuthSessions` implements that ledger. A tab keeps `access`, `timer`,
`refreshing` (inFlightRefresh), the `shown` user of the query cache, and, as
history, the sessions whose logout it saw end. `call[b][k]` is a tab's server
action: queued, sent with the cookie of that moment (`Send`), forwarded to the
auth service or made to wait for another refresh of the same token, whose answer
it shares, answered, and received (`Receive`: the browser stores Set-Cookie, then the
promise settles). Any request or reply may be lost, and replies overtake each
other. Assumed: a round trip is shorter than the 15 seconds of grace, so a
token's grace does not end while a request carries it.

### AudioLibrary, VoiceStudio, SpeechStudio, WebApp

Steps are what JavaScript runs between two awaits, an IndexedDB transaction, or
an answer. `AudioLibrary` has the cache as the order in which its objects were
last accessed (`stored`), evictions that carry their snapshot as `victims`, and for
each card the audio element, the play promise and the calls waiting for it.
`FetchFails` has what a failing read or write does: a hint or an object that is not
read counts as a miss (`StepFails`), an access or object that is not written is
delivered all the same (`WriteFails`), and an eviction that cannot read the entries,
or is aborted, ends without deleting and without a word (`EvictionFails`); `lapsed`
says that the last eviction ended so.
`VoiceStudio` has the list query with its invalidation and refetches, mutations
that may answer after their card or form is gone, and recordings (`take`) apart
from the recorders that started them. `SpeechStudio` has the keyed form, the
submit handler up to the push of the new page, the polling query, the playback
queries and the waveform, which gets ready or fails to load, under a play button
that is there either way. A job may be refused before it has a row, with a row that
stays, or with PUBLISH failing after a worker got it (`PublishFails`, `Undo`): then
its row is marked failed and the worker in `stray` may still begin and end it, so an
opened page may see it failed and, if it is opened again later, completed. `WebApp` mounts and unmounts all of it as the router
goes from page to page (`Visit`), and gives the user a budget of gestures.

Abstractions: one text stands for all fields of a form; objects have one size
per object; ties of lastAccessed are not distinguished; the catalogue of
`VoiceStudio` answers one request after another and the jobs of `SpeechStudio`
that were not refused are `JobLifecycle`, since `VoiceCatalog` and `GenerationJobs` model what those
services really do; the list of built-in voices always loads. The dashboard's
links carry a text that no page reads.

## 3. Runs

`tlc -config X.cfg M` for each. Passing runs unless said otherwise.

| Configuration | Module | Bounds | Asks |
|---|---|---|---|
| `MCAuthSessions.cfg` | `MCAuthSessions` | 1 user, 1 family, 3 tokens, 2 requests at once, 1 attempt to revoke, TTL 3, grace 2; about 1.3M states | types; `LedgerComplete`, `ActiveOutlivesToken`, `GraceProtects`, `LogoutAllClosesSeen`; refinement of `SessionLedger` |
| `MCAuthTracking.cfg` | | 2 families, listing instead of bulk logout, one key rotation | `ActiveTokenRotates`, `LiveSessionsTracked`, `KidRefusalIsOldKey` |
| `MCAuthAlarm.cfg` | | 4 tokens, logins and refreshes, fairness, no aborts | `RevokedStaysClosed`, `RevokeBlacklistsActive`, `AlarmEndsSession` (liveness) |
| `MCAuthLogoutAll.cfg` | | 2 families, 2 tokens | *violation* of `LogoutAllClosesOpen` |
| `MCGenerationReplicas.cfg` | `MCGenerationJobs` | 2 jobs, 2 workers, buffer 1, every fault; about 2.1M states | types and channel bound, `CompletedHasAudio`, `EventAfterRow`, `RowBeforeMessage`, `OncePerReplica`, `NeverReopened` |
| `MCGenerationProgress.cfg` | | 2 jobs, 1 worker, buffer 2, fairness, all faults but database and crash; about 36k states | `SeenIsFinal`, refinement of `JobLifecycle`; `HeldJobEnds`, `ClientSeesEnd` (liveness) |
| `MCVoiceCatalog.cfg` | `MCVoiceCatalog` | 2 requests of 2 users and the script, 4 voices, 3 sets of faults, fairness; about 280k states | types, `NoOrphanAudio`, `DocsCarryOwner`, `SerialInSync`; `StaleEntriesDie` (liveness) |
| `MCVoiceListCreated.cfg` | | a create and a list | *violation* of `ListsIncludeCreated` |
| `MCSigningKeys.cfg` | `MCSigningKeys` | 3 keys of up to 3 seconds, which live 3 ticks and sign for 2, 1 consumer that is a validator or a guard, one failing command; about 1.9M states | types, `SignerVerifies`, `ConsumersKnow` |
| `MCWebSession.cfg` | `MCWebSession` | 2 tabs, 2 sessions, 5 server actions, one lost message | types, `NoFalseAlarm`, `LogoutHolds`, `AccessIsRefreshed` |
| `MCWebRefusal.cfg` | | the same with 4 actions, nothing lost | *violation* of `RefusalStaysLocal` |
| `MCWebApp.cfg` | `MCWebApp` | 7 plans of gestures, 2 own voices and a built-in one, 2 objects in a cache of one, 2 fetches, takes, recorders and mutations, 1 job, one failure, fairness; about 770k states | types, `CacheWithinCap`, `PlayerObeys`, `ResourcesReleased`, `InputKept`; `AudioAppears` (liveness) |

Why the bounds are enough to be interesting. Auth: three tokens are a token, a
successor and a second successor, consumed in turn by requests that overlap;
TTL 3 and grace 2 leave a state in which grace has passed and the blacklist has
not. The alarm run has a fourth token: a replay that raises the alarm has
minted one by then, and one more is needed for a rotation between the read and
the transaction of RevokeFamily, whose retry that run has (in `MCAuthSessions` a
revocation gives up at the first conflict). Generation: two
workers are needed for two copies of one message, two jobs for a full buffer.
Voice: any two of the requests race, on one voice or on a list, a stranger and
the script among them; `MaxVersion` exceeds the number of writes, so no update
is cut off. The faults of each set occur together; Redis faults exclude what
`SerialInSync` and `StaleEntriesDie` promise, so two of the sets have none. Keys: three are an old key with tokens alive,
its successor, and a third that a restart or a second rotation makes beside it, in the
same second or another; consumers do not affect each other, so one of either kind does;
a key outlives its last signature by a token's life, and a cache period is one
tick, so caches go stale while keys sign. Web session: two tabs that sign in
take two actions, and three more are a refresh each and a logout, or an
overlap of refreshes; the second session is the one a logged-out tab opens
next. Web application: a plan gives each kind of gesture a number
(`MCBudgets`), and each plan combines the kinds that share state: pages and
listening, listening and clearing the cache, editing alone, with listening and
with speaking, creating, and speaking across pages. Objects are as large as the
cap, so two of them need an eviction. `CHECK_DEADLOCK FALSE` appears where all
one-shot requests may have ended, or a budget be spent.

`ActiveTokenRotates` and `LiveSessionsTracked` do not hold when bulk logouts run
beside a login; `MCAuthTracking` leaves them out, the theorems about them are
implications from `"logoutAll" \notin Ops`, and `MCAuthLogoutAll` shows what bulk
logouts do. `SeenIsFinal` and the lifecycle hold with one replica only: with
two, the unconditional updates of `generation.sql` let a row change from
completed to failed, which no document of the repository rules out. They are
checked without database errors and crashes, under which liveness fails, and
proved with them.

### Fairness

`FaultFreeSpec` (auth): a handler that is not aborted keeps running, which the
Go scheduler gives; clients, time and key rotation owe nothing. `FairSpec`
(generation): a running worker goroutine takes the next step, a handler that
was called goes on, the client's refetch timer keeps firing; no process need
start, and nobody need submit a job. `FairSpec` (voice): a request that was begun
is served, a key with a TTL expires. `Spec` of `WebApp`: requests are answered or
fail, timers fire and promises settle, as a browser sees to; the user owes
nothing. No strong fairness is used.

`AlarmEndsSession` is checked with fewer concurrent rotations than revocation attempts:
beyond `maxRevokeTries` RevokeFamily gives up, which the code accepts and logs.
`StaleEntriesDie` excludes Redis faults and crashes, since a failed EXPIRE leaves a
document that no TTL removes. `AudioAppears` allows that the user leaves the page
or that fetching the audio fails for good or it cannot be loaded, and is about jobs
that were not refused: the page of a refused one stops at failed, although its worker
may complete it right after.

## 4. Disagreements found

- `LogoutAllDevices` deletes the user's whole set, which it read three round
  trips earlier. A login beside it keeps its session but loses its entry, so the
  next `LogoutAllDevices` succeeds without closing that session, although
  `auth.proto` says it invalidates all families (`MCAuthLogoutAll`).
- A list read that selected before a create's insert stores its rows after
  the create's invalidation, so lists lack the new voice for up to 15 minutes,
  although the comment at the invalidation says subsequent reads include it
  (`MCVoiceListCreated`).
- The reply to a refused refresh deletes the browser's cookie, even one that
  another tab's login or refresh has stored since, although the comment says a
  refresh failure only clears local session state (`MCWebRefusal`).

## 5. Proofs

The theorems assume only the named assumptions of the modules (positive TTLs,
grace at most refresh, a channel buffer of at least one, key lifetimes ordered as
the code's are, `None` and `NoJob` distinct from data).

### AuthSessions

`AuthSessionsProofs` and `AuthSessionsSafety` hold for any number of users,
families, tokens, requests and key rotations.

The properties are not inductive alone. `IInv` adds: what was minted, stored,
delivered and spent, in this order (`HistoryInv`); the active record's token is
stored, unspent, of this family and not outlived (`ActiveInv`); an unspent stored
token is active or its family closed (`StoredInv`); a spent token stays blacklisted
as long as it verifies, and its age and grace add up (`SpentInv`); whatever a
request has read was stored (`ReadInv`), what it is minting is its own
(`MintingInv`), what it presents was delivered (`PresentingInv`); a token that
raised the alarm is spent beyond grace or unusable (`NukeInv`); what a request has
closed stays closed (`ClosingInv`).

The invariance proof does not go action by action through every conjunct. Seen
from the keys and tokens, every action is one of seven kinds of step (trim,
mint, store, rotate, reply, key rotation, tick): `StepEffects` proves this once,
and the invariants on keys and tokens are proved against the seven kinds.
Invariants on requests use that a step moves at most one request, that the others
only see the store evolve monotonically (families are born, never unborn; the
killed stay killed), and what a request that moves has just established.

Where no bulk logout runs, `QuietInv` is inductive beside `IInv`: a family has one
user (`OneUserInv`), no request is within a bulk revocation (`NoBulkInv`), the token
of an active record is not blacklisted (`CleanInv`), a listing prunes only families
that it found gone (`PruneInv`), and a family is tracked before the login that
made it answers (`TrackInv`). Every other request that blacklists an active token
deletes its record in the same transaction, and only if it is the token that it read.

| Theorem | Says |
|---|---|
| `Inductive` | `Spec => []IInv` |
| `TypeCorrect` | the type invariant |
| `NoTokenForgotten`, `NoEarlyExpiry` | `LedgerComplete`, `ActiveOutlivesToken` |
| `GraceHolds` | `GraceProtects` |
| `RevocationHolds`, `RevocationBlacklists`, `BulkRevocationHolds` | `RevokedStaysClosed`, `RevokeBlacklistsActive`, `LogoutAllClosesSeen` |
| `KidRefusals` | `KidRefusalIsOldKey` |
| `QuietInductive` | without bulk logouts, `Spec => []QuietInv` |
| `NewestRotates`, `LiveTracked` | without bulk logouts, `ActiveTokenRotates` and `LiveSessionsTracked` |
| `Refinement` | every step is a step of `SessionLedger` or a stutter, so a token is accepted at most once and a closed session never reopens |

### GenerationJobs

`GenerationProofs` holds for any number of jobs and replicas, any buffer and
any set of faults. `IInv` adds to the properties: a job's row is untouched until
its request publishes (`RequestInv`); a job is delivered at most once to each
replica, so its channel and the jobs it took are disjoint and without
repetition (`DeliveryInv`); a worker about to complete has stored the audio,
one about to announce has set the key (`ProgressInv`). Two lemmas say once what
any step may do to the rows (`RowSteps`) and to one worker's channel
(`ChannelSteps`); the parts of `IInv` follow from those.

The last two theorems are implications from `OneReplica`: with a second replica
they are false, since the second one's failure overwrites the first one's
success. `FollowInv` adds that the row of an accepted job is where its worker
is: queued while it waits in the channel, processing from then until it ends; and
`SeenInv` that no client has read an end of a job that is not published yet.
Both are about accepted jobs. Clients poll any row, and the row of a refused job may
end twice, by the handler's undo and by a worker that got the message all the same.

| Theorem | Says |
|---|---|
| `Inductive`, `TypeCorrect` | `Spec => []IInv`, and the type invariant |
| `AudioHolds`, `EventsHold`, `RowsFirst` | `CompletedHasAudio`, `EventAfterRow`, `RowBeforeMessage` |
| `TakenOnce`, `EndedStaysEnded` | the action properties `OncePerReplica`, `NeverReopened` |
| `LastSeenHolds` | `OneReplica` implies `SeenIsFinal` |
| `Refinement` | `OneReplica` implies that every step is a step of `JobLifecycle` or a stutter |

### VoiceCatalog

`VoiceCatalogProofs` holds for any number of users, voices and requests in
progress, any set of faults and any bounds, so for races of three requests and
more, which the run's instance does not have. `NoOrphanAudio` rests on what no
single request checks: an upload must never hit a voice whose row another
request is about to delete, and a delete must never take the row of a voice
that is being seeded. `IInv` adds what is asked for (`OpInv`), the calls of each
kind of request (`PlaceInv`), ids and scripts that are one at a time
(`UniqueInv`), that nothing is read, cached or deleted of a voice before its
create has tried to insert it (`BirthInv`), that a delete is past the owner
check and its audio is gone before its row (`AudioInv`), and that listed rows
are those of the owner the list names (`RowsInv`). What a call does is said once
(`Moves`, `ServeRows` to `ServeDocs`); each part follows from those.

Requests that are served one at a time leave Redis agreeing with the rows after any
number of them, of expiries and of failing S3 calls and statements. `SyncInv` says
why: at most one request is in progress, and Redis agrees with the rows but for what
that one has yet to put right, which its place tells for the voice (`StaleVoice`),
its user's list (`StaleList`) and its documents (`StaleDocs`); and what it is about
to write into Redis is what the rows say (`ReadInv`). `OwnInv` adds that the list
a request drops is the one its voice is on.

| Theorem | Says |
|---|---|
| `Inductive`, `TypeCorrect` | `Spec => []IInv`, and the type invariant |
| `NoOrphans`, `OwnersHold` | `NoOrphanAudio`, `DocsCarryOwner` |
| `SerialHolds` | `SerialInSync` |

### SigningKeys

`SigningKeysProofs` holds for any number of keys, seconds, validators and page
guards, any lifetimes and any number of failing commands, so for any number of
rotations side by side, of one second or of several, and of restarts. `IInv` adds:
no rotation outlives its process, and a key has an id once it is made
(`RotationInv`); only keys that were put to use are kept anywhere (`MadeInv`); keys
of one id expire together, and those of the second that is not past are as good as
new (`TwinInv`, `SecondInv`), which is why a key that takes over an id stands in for
the other until its last token is gone; a key outlives what it has signed
(`SignedInv`); a running process holds a key for the id of every key with life left
that no start has lost (`KnownInv`); a fetch under way brings one for every id that
had signed before the last tick (`AnswerInv`); whoever fetched after a key first
signed has seen one of its id since (`SeenInv`). `KnownInv` is stronger than
`SignerVerifies` in speaking of keys without a token alive: a key may sign again
between a fetch and its answer.

| Theorem | Says |
|---|---|
| `Inductive`, `TypeCorrect` | `Spec => []IInv`, and the type invariant |
| `SignerHolds`, `ConsumersHold` | `SignerVerifies`, `ConsumersKnow` |

### WebSession

`WebSessionProofs` holds for any number of tabs, sessions, server actions and
lost messages, so for any number of refreshes, logouts and sign-ins that cross.
`IInv` adds: what a call may hold by its kind and place (`ShapeInv`); that the
ledger knows every token in the browser or on its way (`LedgerInv`, `UsedInv`);
that nobody else has seen the session of a sign-in that is not answered
(`NewInv`); that a logout's session is closed (`ClosedInv`); that a refresh
brings its tab a new token of a session it has not logged out (`RefreshInv`); and
what losses may break (`LosslessInv`). That last part carries `NoFalseAlarm`: a
token that is brought back is current and nobody else's (`BringInv`), a cookie
that was consumed is about to be replaced by the reply of the call that consumed
it (`CookieInv`), so a request leaves with a token that is current or still has
grace (`CarryInv`). One lost reply breaks it: the cookie then keeps a consumed
token and its next use may come after its grace. Each kind of step keeps all
parts at once (`BeginKeeps` to `ForgetKeeps`).

| Theorem | Says |
|---|---|
| `Inductive`, `TypeCorrect` | `Spec => []IInv`, and the type invariant |
| `NoAlarm`, `LogoutIsFinal`, `AccessRenewed` | `NoFalseAlarm`, `LogoutHolds`, `AccessIsRefreshed` |

### AudioLibrary

`AudioLibraryProofs` is about the library alone, as `LibrarySpec` has it: any
previews mounted and unmounted, any fetches, for any number of voices, objects and
fetches, any sizes and any cap. `LibraryInv` adds: accesses are totally ordered and
the cache is finite (`OrderInv`), from which it follows that the victims of an
eviction are the objects that must go; while nobody is about to weigh the cache,
it fits or will after one of the evictions under way (`CapInv`), since whoever
weighed last saw every object, unless it failed to read or to delete, in which case
`lapsed` holds until somebody weighs again; what a player was asked last is what it does, or what
it does last of the calls that wait (`PreviewInv`); a handler is a preview's own only
while the preview is mounted (`MineInv`); and the URL a preview holds was
delivered to it and is not revoked (`UrlInv`).

| Theorem | Says |
|---|---|
| `LibraryInductive` | `LibrarySpec => []LibraryInv` |
| `CacheFits`, `PlayersObey` | `CacheWithinCap`, `PlayerObeys` |
| `NoUrlLeaks` | `UrlsReleased`, the part of `ResourcesReleased` about object URLs |

### WebApp

`WebAppProofs` holds for any number of voices, objects, jobs, mutations and takes,
any budgets and any number of failures. The types of the studios are inductive by
themselves; that of the speech form says that the form is always the one its page,
its lists and its generation call for, and every step that touches any of them has
to answer for it. With the types, every step is one of `LibraryNext` or leaves the
library alone (`UsesLibrary`), so the library's theorems hold for the application,
and, seen on the jobs that were not refused, one of `JobLifecycle` or leaves its
jobs alone (`UsesService`: a refused job counts as one that was never submitted).

Three more invariants carry the rest. `MicInv`: a take belongs to a recorder that
was made (`MadeInv`), and the stream of a take that no other start overtook is the
one its recorder stops (`AloneInv`). `JobInv`: what a page shows of a job, or has on
its way, was asked for there, and, unless the job was refused, an end it shows is the
job's. It gives `EndStaysShown`, which no run asks: a page that showed the end of a
job that was not refused never takes it back. `TouchedInv`: a touched form is one of
the speech page, or of a page whose generation is known. `InputKept` has three parts,
for the dialogs of the cards, the create form and the speech form, and each step
that is not a gesture keeps them.

| Theorem | Says |
|---|---|
| `UsesLibrary`, `UsesService` | `Spec => LibrarySpec`, `Spec => Lifecycle!Spec` |
| `StudiosTyped`, `TypeCorrect` | the types |
| `WebCacheFits`, `WebPlayersObey` | `CacheWithinCap`, `PlayerObeys`, from the library |
| `MicCounted`, `NothingLeaks` | `MicInv`, `ResourcesReleased` |
| `JobsKnown`, `EndStaysShown` | `JobInv`; an end that was shown of a job that was not refused stays |
| `InputHolds` | `InputKept` |

### Only model-checked

The five liveness properties (`AlarmEndsSession`, `HeldJobEnds`, `ClientSeesEnd`,
`StaleEntriesDie`, `AudioAppears`): the prover does not reach liveness under
fairness, nor ENABLED, nor induction over data, nor RECURSIVE operators, of which the
modules have none. Every invariant and every other action property that a
passing run checks has a theorem, and so have the two refinements.

## 6. Not modelled

The voice service without Redis (the catalog with every Redis call left out) and
list scope "all" (no handler asks for it); several auth services on one key
store; validation of request fields, password
hashing, the RPC layer, interceptors, CORS, S3 clients beyond success and
failure, ValidateToken and GetFamilyKID (reads); the DPoP library and the legacy
JWT maker (no caller); the TTS endpoint.

User accounts: registering is one INSERT under the table's unique constraints and
logging in one SELECT, so what races is decided by the database; `AuthSessions`
starts where the tokens are minted. Reading, not checking, shows one thing there:
`CreateUser` looks for the word "unique" before the constraint's name
(`user_repo.go:43`), so a taken name is reported as a taken email.

Of the web application: the home page, the layout and its sidebar, the settings
and history drawers, and the upload field's player (`use-audio-playback.ts`, whose
object URL is never revoked); generated clients.

## 7. Plan

Done: token store and sessions with ledger, generation with lifecycle, voice catalog
with search and the seeding script, signing keys and those who verify, the web
session, the web application; runs for all of them, and proofs of every safety
property that the runs check.

Left, in this order: several auth services in `SigningKeys`, and its proofs over
again; the upload field's player; small modules for the
DPoP replay store and the classification of constraint errors, once a service uses
the first.
