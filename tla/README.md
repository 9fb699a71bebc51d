# A TLA+ verification of goodies

`goodies` is a collection of Go modules and two TypeScript packages. This
directory models the parts of it that carry state across calls, checks them
with TLC on small instances and proves the properties that matter most with
TLAPS for every instance. `PROJECT.json` lists every run, mutant, theorem, the
source lines behind each definition, and the hazards the properties are for.

## The system

| Component | State | Operations | Interacts with |
|---|---|---|---|
| bloby service (`bloby/ingest.go`, `object_store.go`) | none of its own between calls; a call holds a copy of a row while it talks to storage | Begin, BeginDirect, Write, Finalize, PresignMultipartPart, Delete, DeleteUnreferenced | registry and backend, one call at a time, any number of replicas |
| bloby cleanup (`cleanup_store.go`) | a timer; the batch of the current sweep | RunCleanup: expired uploads, unreferenced objects, orphaned bytes, orphaned multipart uploads | registry and backend, beside the requests and other replicas' sweeps |
| registry (`bloby/pgxstore`) | table `storage_objects` | one SQL statement per operation | the application's foreign keys |
| S3 backend (`s3.go`) | keys, open multipart uploads, their parts, signed URLs | PUT, multipart create/part/complete/abort, delete, verify, head, list | the uploading client, directly |
| file backend (`file.go`, `http.go`, `capability.go`) | files, signed capabilities | Put by the service or through `TransferHandler`, Delete, verify, head, list | the uploading client, through the handler |
| delivery (`delivery.go`, `serve.go`) | none | Deliver, DownloadURL, Open | backend |
| browser client (`packages/bloby-client`) | parts of one upload, progress, abort signal | digest, upload | the part-signing endpoint, storage |
| pglock | a PostgreSQL session and its advisory lock | Try, With | PostgreSQL, other replicas |
| authn (`auth/authn`) | sessions (scs), SSO state and nonce, API keys, a login limiter | Login, Logout, Authenticate, SSOStart, SSOCallback, LimitPasswordLogin | the identity store, the OIDC provider |
| authz (`auth/authz`, `packages/authz`) | none | evaluation of grants against a catalogue, `can` | authn, the adapters |
| adapters (`auth/http`, `auth/huma`, `bloby/huma`) | none | guards, error mapping, schemas | authn, authz |

What is hard here is bloby first: a database row and bytes in a store are changed in
separate, failing steps by clients that hold long-lived upload URLs, by requests
that retry and race, and by sweepers of several replicas. The whole list is under
`hazards`. What makes each component correct:

- *bloby*: an available object has its declared bytes, and keeps them until it
  is deleted; deletion respects references; success is never reported for
  anything else; a retried Finalize gets through; nothing leaks for good.
- *pglock*: callbacks do not overlap; waiters get their turn.
- *browser client*: resolving means every part is stored; progress adds up;
  failure and cancellation stop everything.
- *file backend*: whatever puts, deletes and sweeps do in one directory, a key
  changes as a whole or not at all, and leftovers go.
- *authn*: a session that was given up does not come back, a token never changes
  its principal, an SSO sign-in answers the attempt it was started for; the
  login limiter keeps its rate, and its Retry-After suffices.
- *authz*: grants decide as a whole, in any order; the Go and the TypeScript
  evaluation agree; a revoked key serves nobody.

## Modules

| Module | Content |
|---|---|
| `Objects` | ids, bodies and declarations; assumptions about digests |
| `Registry` | `storage_objects` and one definition per SQL statement |
| `Storage` | both backends, the provider's multipart uploads, outstanding URLs |
| `Bloby` | composes the two: requests and sweepers as processes; safety properties |
| `BlobyInvariant` | the inductive invariant `Consistent` |
| `BlobyLiveness` | fairness and liveness |
| `Publication` | the abstract specification of what bloby promises |
| `BlobyPublication` | the refinement mapping |
| `BlobyProofs` | the theorems about bloby, the refinement included |
| `MCBloby` | bodies, declarations and symmetry for TLC |
| `PgLock`, `PgLockProofs` | the advisory lock |
| `PartUploads`, `PartUploadsProofs` | the browser's multipart transfer |
| `FileStore`, `FileStoreProofs` | the file backend below the level of keys, system call by system call |
| `AtomicKey` | the abstract specification of a key, which `FileStore` implements |
| `Sweeps`, `SweepsProofs` | the timing of cleanup: interval, retry delay, maximum age, TTL, claim order, batch limit |
| `Sessions`, `MCSessions`, `SessionsProofs` | browser sessions, login, logout and SSO as overlapping requests |
| `Guards`, `MCGuards`, `GuardsProofs` | API keys, request authentication, admission, evaluation of grants, the TypeScript check |
| `LoginLimiter`, `LoginLimiterProofs` | the token bucket of password logins |

### How the model of bloby corresponds to the code

A process is one running request or one replica's `RunCleanup`. `pc[p]` names
the registry statement or provider call it is about to make, `obj`, `mpu`,
`seen`, `batch` and `todo` are the local variables that survive a call. One
action is one call with everything the code does up to the next call. Reads that
decide an early return without a later effect are part of the first action
(`Finalize`, `DeleteObject`, `PresignPart`). The pages of a listing of parts are one
read, since a part may still be replaced between it and the completion. An early return that changes nothing
is a stuttering step.

- The row: `state` is `pending` (neither `available_at` nor `expired_at`),
  `available`, `expired`, or `deleted` once removed; ids come from a sequence and
  are not reused. `uploadID` is `multipart_upload_id`. `attached` is the set of
  ids some foreign key references; the application attaches only an object it
  knows (`Known`: the creating call has returned, or a listing shows it).
  `PublishRefused` is the check constraint.
- Timestamps are one bit: `stale[i]` says that the timestamp the row's state is
  judged by lies before the sweep's cutoff. `Age` sets it at any moment, a
  statement that writes the timestamp clears it. Real durations are left out, so
  what is shown holds for any interval, TTL and retry delay.
- `LIMIT` and `SKIP LOCKED`: a claim takes any batch the order of the query
  permits, passing over any set of rows that others may have locked.
- A key is named by its object's id, because an object keeps one key for life.
  `stored[k]` holds a body and the checksum the backend vouches for it with
  (SHA-256 after a PUT, CRC64NVME after a multipart completion).
- Bodies are model values told apart by `Digest`. SHA-256 is assumed to identify
  a body; CRC64NVME is not: the body `twin` shares size and CRC64NVME with `big`.
  A multipart object's SHA-256 is the uploader's word, so `Declared` asks of it
  only what storage vouches for, size and CRC64NVME.
- `caps` holds the keys for which a signed PUT is usable or a timed-out
  server-side PUT may still land; `ExpireCap` ends that after the last transfer.
- The S3 provider is external. It is modelled as the code relies on it: PUTs are
  bound to the signed length and SHA-256, a completion names parts by ETag, and a
  completed or aborted upload is gone.
- While `unreliable`, any call may fail before or after taking effect, and any
  process may crash at any point. `BecomeReliable` ends that; safety does not
  depend on it, liveness does.

`DeleteUnreferenced` and the sweep handle one id at a time as the code's loops
do. The order in a set of ids is left open.

### PgLock

A caller is one call of `Try` or `With`. The server grants the lock first come,
first served, and frees it when it notices the end of a session, which may be
well after the client closed it (`closed`). It may also end a session that its
client still uses; nothing tells the callback, which goes on without the lock
(`lost`).

### PartUploads

One `upload` of a blob of several parts. A step is what one browser event sets
off. p-map and p-retry are external: parts start in order, the promise rejects
with the first error or abort, an attempt starts only while the signal is live.
Hashing of slices and backoff times are left out. Bytes are numbered, so that a part
is an interval and progress the number of bytes reported, whatever order the parts
report in. Errors that p-retry does not
retry are covered: an attempt may fail the part before its attempts are used up.

### FileStore

The directory of one object. A `Put` goes through MkdirAll, CreateTemp, Copy,
Check (digest, length and chmod), Rename and the deferred Remove, a `Delete`
through Unlink and Prune; the sweep of orphans lists old files, temporary ones
included, and calls Delete for those no row owns. `disk` maps names to bodies,
`Partial` is anything cut short, `old` says that a modification time lies before
the sweep's limit. A file that was unlinked may still be written to; its chmod and
rename fail. The process may be killed anywhere; the machine does not stop (see Not
modelled). `Storage` uses keys that change in one step; `AtomicKey` is that promise,
and `FileStore` refines it. One thing the model shows that no property
forbids: a Put that fails after its object was deleted leaves an empty directory
which no later call prunes.

### Sweeps

Rows, URLs and sweeps on one clock of ticks, kept as ages. `Touch` is every
statement that writes `updated_at`; the request signs its URL within `Delay` ticks
of it. `expired_at` is written with the database's `now()`, a little after the time
the sweep has read; as the retry delay equals the interval, the next sweep finds
the row too fresh unless it starts later after its tick than the last one did
(`late`). A claim may fail, and then the sweep takes nothing; claims of several
replicas, and the rows one of them passes over because another has them locked
(`SKIP LOCKED`), are in `Registry` and `Bloby`. Steps that take no time are not allowed to repeat for ever: a restart
comes at least a tick after the last sweep. Rows are swept whole; what a sweep does
to one row, call by call, is `Bloby`.

### Sessions

One browser and its overlapping requests. scs is external and modelled from how it
is used: a request loads a copy of its session on arrival, works on the copy, and
writes it back whole under its token when the response starts, if it was modified.
Destroy and RenewToken delete from the store at once. An action is one call to the
session store, the identity store or the provider; each may fail, with or without
effect, and a request or its response may be lost. `Attempt` stands for the state
and nonce that one `beginSSO` draws; a provider may issue several codes for an
attempt and may err about the nonce. `redirects` are the requests whose response
takes the browser to the provider. A Destroy that took effect has given the token
up, also when it was reported as failed and the request goes on with its copy; a
renewal that failed has not, as nobody was signed in. `revoked`, `raced`, `signedIn` and `shared` are
history, read by the properties only. Tokens, attempts and codes are drawn from finite
sets, which bounds a behaviour.

### Guards

One request at a time: requests share nothing but what the application stores, and
that may change between any two steps (`Store.Grants` returns any list at every
load, keys are rotated and revoked at any moment). A behaviour repeats requests for
one operation, any. `Authenticate` looks up the bearer
key or the session's principal, admission is absent or `HasAccess` (`AdmitPrincipal`),
the guard validates the requirements and calls `CanAll` (`Decide`); both go through
the loop of `EffectivePermissions`, one grant per step, each with grants of its own.
`cleared` is history: whether the grants that admission loaded are valid and one of
them above none. `RequireAuth`, `OptionalAuth`,
`RequirePermission` and `require` differ only in how an answer is written. The
resource `ghost` and the access `other` stand for everything not catalogued or not
known. Keys are never drawn twice.

### LoginLimiter

A bucket whose level is counted in ticks, so that a token is `Refill` of them; the
rate library's floating-point rounding is left out. `Allow` and `Tokens` are separate
steps. `Rounded` states ceil and max without division.

## Runs

| Run | Instance | Shows |
|---|---|---|
| `s3_requests` | 1 object, 1 upload id, bodies big, other and small, 2 requests, 1 sweeper, S3 | safety, with every pair of requests racing each other and a sweep; a row is kept while its upload is open |
| `file_batches` | 2 objects, batches of 1, 2 bodies of one size, 1 request, 1 sweeper, file | batch limits, chunks of listings, the backend that verifies sizes only |
| `cleanup_liveness` | bodies big, small and empty, 1 request, 1 sweeper, S3 | nothing is left behind for good; the refinement, sweeps included |
| `finalize_retry` | five bodies, 2 requests, no sweeper, S3 | what verification tells apart, and the refinement; a retried Finalize gets through |
| `attached_bytes` | 1 request, 1 sweeper, S3 | finding, see below |
| `file_store` | 2 puts, 1 delete, 1 sweeper, 2 temporary names, 2 bodies | puts and deletes are atomic; leftovers are swept |
| `sweeps` | 3 rows, 1 of them undeletable, batches of 2, TTLs of 1 and 2 ticks with a day of 2 and an hour of 2 | no row is taken under a live URL where the TTL leaves time to sign; abandoned uploads go |
| `pglock` | 4 callers | mutual exclusion; waiters end |
| `part_uploads` | blobs of 0, 3, 6 and 7 units, base part 2, at most 3 parts, 2 at a time, 3 attempts | the transfer |
| `sessions` | 2 requests of any kind, 2 tokens, 2 attempts, 1 code | revocation, identity, sign-ins answer their attempt and use it up |
| `guards` | 2 catalogued resources and 1 unknown, lists of at most 2 grants, 2 principals, 2 keys | admission and decisions equal their references; keys under rotation and revocation |
| `login_limiter` | 2 clients, burst 4, a token in 12 half seconds, windows of 16 | rate and Retry-After |

Bounds. Objects do not interact except through batches, so one object with
several processes exercises the races, and two objects the batches. The proofs
hold for any numbers; in particular, sweeps of several replicas at once, two
principals in one browser and more than two puts to a key are theirs. The multipart
threshold is 1, so that `small` takes the PUT and `big` the multipart route. In `part_uploads`, a size of 7 forces parts to
grow beyond the base size, 3 leaves a short last part, 0 is refused. Deadlock
checking is off there, since an upload ends; `UploadSettles` says that it ends
properly. Symmetry is used in safety runs only. In `sweeps`, TTLs of 1 and 2 are
the last below the day and the first that is stretched by the hour, and the URL may
be signed a tick after the row was touched, so that the first ends exactly when the
row may be taken, and the second would outlive a day;
one undeletable row in batches of two leaves room for one other, whichever the
order of the claim. In `sessions`, two tokens are one that is given up and the one
that replaces it, and a code answers either attempt with either nonce. Two grants
suffice for every order of a higher and a lower one, and the proof covers longer
lists. Deadlock checking is off in `file_store` and `sessions`,
where temporary names and tokens run out.

Fairness. `FairSpec` assumes that outages end, that requests run on (contexts
have deadlines, calls return), that `RunCleanup` keeps sweeping (the ticker),
that rows age and URLs expire (time passes), that bytes or an upload that stay
will be old enough in some listing, and that no row is locked by another
transaction at every claim. `RetrySpec` assumes a client that repeats Finalize
for an upload that stays pending. `PgLock` assumes that callbacks end and that
the server answers and notices closed connections. `PartUploads` assumes that
signing and sending end one way or the other. `FileStore` assumes that files grow
old and that sweeps go on and do not fail at the same file for ever; `Sweeps` that
time passes, sweeps come and the removal of an unreferenced row does not fail for
ever. Nothing is assumed of clients that upload, of cancellation or of the
application.

### Finding

- `attached_bytes`: `ClaimExpiredPending` does not look at references, and the
  sweep removes the bytes before `DeleteExpiredPending` meets the foreign key. An
  application that attaches an upload and finalizes it later than the maximum age
  is left with an attached, expired row without bytes, although the README says
  that reference constraints prevent the deletion of attached content. Published
  objects are not affected (`PublishedImmutable`).

### Where the promises end

The properties state how far each promise reaches, and no further:

- a callback of pglock whose session the server ends runs on without the lock, since
  its context does not end with the session; `Serialized` is about callbacks whose
  sessions last;
- a request that had loaded a session before it was given up, and modifies its copy
  (`SSOStart` in another tab), writes the whole copy back under the old token;
  `RevokedStaysGone` says that this race is the only way back;
- state and nonce are popped from the request's own copy, so that overlapping
  callbacks of one attempt both find them; `SignInMatchesAttempt` holds for each, and
  `SpentAttemptGone` says that an attempt two requests held at the same time (`shared`)
  is the only one that is not used up by a sign-in;
- `pendingUploadMaxAge` adds its hour from a TTL of a day on; a TTL below a day by less
  than a request takes to sign (`Delay`) has no margin, and a URL signed late may be
  alive when its row is taken. `UrlsOutlived` is about the others (`MarginGiven`);
- expired rows come first in every claim, and rows that a foreign key protects stay
  expired; a batch full of them keeps every other row waiting, and `AbandonedGo` is
  checked with fewer of them than a batch holds;
- an upload that no row records (a crash before `RecordMultipartUploadID`) is found
  by the listing of uploads only; `RowsOutliveUploads` is about those a row records.
  `NoLeakedUploads` is about both, but that listing alone would make it true.

## Proofs

Assumptions: the named `ASSUME`s of the modules, all about constants; TLC evaluates
them in every run.

`PublishedBytesIntact` is not inductive: it says nothing about who is about to
delete the bytes or to publish the row. `Consistent` adds why both are safe:

- a key takes bytes either from single PUTs, all of the one declared body, or
  from the only multipart upload ever created for it, never both (`KeysOK`,
  `UploadsOK`, `StartersOK`); so neither a replayed PUT nor a stale completion can
  change what a verified key holds;
- a process between verification and `MarkAvailable` either still has the
  declared bytes at its key or a row that `MarkAvailable` refuses (`VerifiedOK`);
- whoever is about to abort an object's upload or delete its key works on an
  expired or deleted row (`RemovalOK`), which never becomes publishable again;
- a sweep that is about to delete an expired row has seen the upload closed that the
  row records, and no other can have been recorded since the claim (`ExpiryOK`).

The proof splits a step into what it does to rows, to keys and to the process
that moves (`RequestMove`, and the lemmas around it), shows each part of
`Consistent` stable under these, and combines them in `AlwaysConsistent`. From
it follow `PublishedIntact`, `PublicationImmutable`, `SuccessIsTrue` and
`NoUploadForgotten`. For the last, a sweep is undisturbed by the others
(`ExpiringUndisturbed`): an expired row records no new upload and a closed upload
stays closed. What is left is the sweep's own steps (`ExpiringStep`), where only an
abort that succeeded leads on to the row.
`BlobyImplementsPublication` maps the row to a phase and the bytes at the key of
an available row to the published body, and shows that every step is a step of
`Publication` or a stutter: the verified body at `MarkAvailable` is the witness of
publishing, and immutability makes everything else a stutter on published bodies.
`CallbacksSerialized` needs that whoever runs a callback holds the lock or has lost
its session, which is inductive together with the type of `pc`.

`SessionsProofs`: a token in the store or in a copy was issued; a
token that was given up without a race is at most in the copy of the request that
gave it up by a Destroy that failed, unmodified and past any step that would modify it,
so that nothing writes it back; copies of one token agree on the user. `RevocationIsFinal`, `IdentityIsFixed` and `SignInsMatch` follow, the last
from the fact that a copy's state and nonce always belong to one attempt.
`CallbackWorksOnce` needs to know where an attempt can be. One that was never shared
is in one place (`OnePlace`): at most one stored session and at most one request, and
that request has that session's token. So a request that pops the attempt and renews
its token deletes the only stored trace, and a request that writes the attempt back
writes over it. One that is unused, or signed somebody in, is `Nowhere`. Steps
between arrival and response bring no attempt to a new place (`Settles`); arriving,
`beginSSO`, the sign-in and the write-back are treated one by one.

`FileStoreProofs`: a temporary name belongs to one put, which alone writes to it, so
that what Check has passed is the declared body until Rename.
Every system call then maps to a step of `AtomicKey` or to a stutter: Rename is the
put, Unlink of the key is the deletion.

`GuardsProofs`: `Folded` is the loop invariant of `EffectivePermissions`: the
permissions are the highest of the grants seen so far, and these are valid.
At the end of the loop it makes the Go decision, the TypeScript check and the
reference one agree. It makes `HasAccess` agree with `cleared` in the same way, and
from there on, until the guard asks, being somebody means having been cleared
(`AdmissionIsRight`). Keys are safe because a key that was given up is never drawn again.

`LoginLimiterProofs`: two balances. What was admitted and what is left is at most
what was there and has been gained; what a waiting client lacks is at most what it
still waits for.

`PartUploadsProofs`: an accepted or finished part is held; a rejected upload has
aborted the signal that every part looks at before it signs or sends.
That the parts fit is arithmetic of quotients and rounding, without induction: each byte
is in the slice of its quotient (`EveryByte`), two slices are apart (`PartsApart`).
Progress is stated as the cardinality of the set of reported bytes, since a sum over
parts would need induction over data: what a part reports replaces an interval that is
disjoint from the others, and `Recount` gives the change in cardinality.

`SweepsProofs`: what is inductive is a sum of two clocks. While a row is pending, its
age and what is left of its last URL add up to at most the TTL and the delay of
signing (`ClocksAddUp`), because a tick takes from one what it adds to the other and
signing happens within the delay. The maximum age is at least that sum wherever
`MarginGiven` holds. `StuckRowsLeaveRoom` is the reason for the proviso of
`AbandonedGo`: the rows ahead of the first deletable one are undeletable, so fewer
than a batch.

Only model-checked: all liveness (`BlobyLiveness`, `WaitEnds`, `UploadSettles`,
`LeftoversGo`, `AbandonedGo`), which is beyond the prover. Every invariant and action
property that a passing run checks is also the statement of a theorem.

## Not modelled

- capability encoding and signatures; names, content types, ranges and HTTP headers:
  conversions by libraries without state of the program's own;
- the read side beyond what a reader of a published object gets;
- password hashing, OIDC discovery, OpenAPI metadata and schemas, migrations (goose
  does the work), test support;
- the single direct PUT and `digest` of the browser client, which have neither
  retries nor concurrency;
- construction and validation of configuration;
- a machine that stops: Put does not sync a file before it renames it, so that what a
  key holds after a power loss is up to the file system.

## Plan

1. The browser client composed with `Storage`: parts that were retried against the
   parts that a completion names.
2. Nested Huma groups, where each group reads the grants on its own.
3. Proofs: what the liveness of cleanup rests on, step by step, in the manner of
   `StuckRowsLeaveRoom`: that whatever is left behind is always claimable or listable.
