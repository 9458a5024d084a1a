# SigmaProof: a verification project

TLA+ models of SigmaProof's core, the TLC runs that check them on small
instances, and theorems the TLA+ proof system checks for every value of the
constants. Paths such as `store.go` are under `src/`; `PROJECT.json` maps every
definition to the lines it models, every property to a mutant that breaks it,
and every hazard to the properties that watch it.

## The system

SigmaProof turns uploaded documents into evidence that can be verified offline.
A caller uploads exact bytes; the service commits to them with a private random
nonce, stores the witness, groups waiting records into batches under a Merkle
root, and exports a package per record. Anchoring the public manifests is future
work: the code stops at an outbox and at recording submission progress.

| component | state | operations | model |
|---|---|---|---|
| Evidence store, `internal/storage/store.go` | per tenant, seven bbolt buckets (evidence, keys, sources, pending, batches, batch_keys, outbox) and a sequence | `Ingest`, `Freeze`, `RecordSubmission`; reads `Evidence`, `Batch`, `Outbox`, `UnanchoredPackage` | `EvidenceStore` |
| Document ingestion, `IngestDocument` and the ingest handler | the goroutine of a call | find, draw a witness, write, find again | `DocumentIngest` |
| Commitments and manifests, `pkg/proof/commitment`, `batch` | none | compute, verify, encode, parse | constructors in `EvidenceStore`, records in `ProofPackage` |
| Merkle trees, `pkg/proof/merkle` | none | `Root`, `Path`, `Verify` | `Merkle` |
| Proof package, `pkg/proof` and `sigmaproof verify` | none | `MarshalBinary`, `Parse`, `Verify`, exit code | `ProofPackage` |
| Package output of `sigmaproof create` | a directory | `writePrivateFile` | `PrivateFile` |
| HTTP endpoints, `internal/server` | none of its own | ingest, freeze, batch, outbox, evidence, package | `HTTPSession` |
| Daemon, `cmd/sigmaproofd`, and `Open`/`Close` of the store | the database file and its lock, signal context, server, shutdown goroutine | open, serve, signal, shut down, close | `Daemon` |
| Paperless HTTP fetcher, `http_fetcher.go` | one call | metadata, download, metadata again | `PaperlessFetch` |
| Paperless planner, runner, webhook and reconciler | one event per handler, the list of a pass | plan, fetch, ingest, report, reconcile | `PaperlessAgent` |
| Submission worker | not in the repository | uses `Outbox` and `RecordSubmission` | `OutboxWorker`, as the store's environment |
| Command line parsing, scripts, docs | - | sequential validation, release tooling | not modelled |

**Interaction.** HTTP handlers, and the Paperless runner behind webhooks and
reconciliation, call the store from many goroutines at once. bbolt gives each
write transaction the whole database and makes it durable when it commits; read
transactions see a committed state. Everything above a transaction interleaves,
`IngestDocument` most of all, which spans up to three of them. Packages leave
the service over HTTP and meet the verifier as files that anybody may have
edited. `create` processes meet each other only in the file system.

**What is hard.** Callers racing for the same source or idempotency key; answers
lost after the commit; crashes between a call's transactions; freezes retried
late, and pages of the outbox acted on late; buckets that repeat each other's content and must agree after any history;
unbalanced trees; recombined packages; kills and power losses during output. A
daemon that is told to stop while handlers are in transactions, and its
replacement waiting for the file. Documents edited between an event, the requests
of a fetch and the ingestion; webhooks lost, repeated and overtaken, and those
the agent's own evidence causes.

**What makes each part correct.** The store is an append-only ledger with one
record per source, cut in order into permanent batches, whose outbox is exactly
the unsubmitted batches. Document ingestion behaves as if each call were atomic.
A tree proves its own entries at their own places and nothing else. A package
proves the document it was exported for, and the verdicts and exit codes mean
what they say. A package file is whole or absent and never replaced. A client's
later answers continue its earlier ones, whichever endpoints gave them. What a
daemon acknowledged is in the file, and one signal ends it without cutting
requests off before the timeout. Evidence of a Paperless version commits to that
version's bytes, once, and the version a document is left in is captured.

## The modules

`EvidenceStore` has the buckets as variables (functions whose domain is the set
of keys present), one action per committed transaction, and the checks of the
reading operations as predicates. A transaction that returns an error is rolled
back, so its conditions are guards. Random ids are drawn with `\E` from those
not in use (`newID` retries on a collision). SHA-256 commitments and roots are
free constructors: equal hashes have equal preimages. One tenant is modelled:
each tenant has buckets of its own and every transaction opens exactly one, so
no value of one tenant's buckets ever depends on another's. `EvidenceLedger` is
what the store promises: `Record`, `Cut` and `Settle` on a log; the refinement
maps the log to the records by sequence number and cuts to freeze request keys.

`DocumentIngest` extends the store with clients whose calls go through `find`,
`new`, `refind` and `answer`, one step per transaction or answer, with `Freeze`
by another handler, `Crash`, and `LoseAnswer`. A fresh nonce is one no record
has. `AtomicIngest` is the promise: a call takes effect in one instant between
its start and its answer (linearizability), creating, returning or refusing.

`Merkle` translates the recursive functions, with hashes as constructors and
recursive functions on the size of a subtree: `Roots(entries)[n][lo]` is `Root` of
the n entries after the first lo, `Paths` and `Rebuilds` are `Path` and the
closure inside `Verify` likewise, and `Depths` is `pathLength`.
`ProofPackage` builds on it: a package as written, the ordered checks of the
reader with their verdicts, the report and the exit code, which is 1 when the
report cannot be written. `PackageHandling` has the actions of whoever handles the
file, and examines the tree of each batch. Its `ExitCodesMean` is the table of
`docs/architecture/verification.md:21` said of what was done to the file rather than
of the report: 3 for another version, anchors or algorithms (`Foreign`) even when a
strict parser would object to fields changed along with them, which the order of
`Checks` is for; 1 for bytes without a package's length (`Delimited`); and for the
rest, under the manifest of the export, success for a `Genuine` package only.
`EvidenceExport` composes the store with `ProofPackage`, with the real tree in
place of the store's abstract one.

`PrivateFile` has one step per system call of `writePrivateFile`, with the file
system around it: names and blocks are seen at once and reach the disk in any
order, at the latest at `Sync`. Each call may fail, a process may be killed, and
power may be lost. Removing the temporary name may fail too, which the code
ignores (`run.go:179`): the process then ends with its copy left behind, and
`NoLeftover` excepts just that. The uniqueness `os.CreateTemp` guarantees is assumed.

`HTTPSession` extends `EvidenceExport` with one client. A request runs its handler
and its transaction in one step and leaves an answer, which arrives while others
create records, freeze and record submissions. Ingestion is one atomic step here,
which `DocumentIngest` justifies; one that needs a sequence number when none is left
is answered with the internal error that `ErrCorrupt` becomes (`store.go:391`,
`server.go:313`), and so would be an export that cannot be encoded
(`server.go:233`). An answer is what it claims of records, batches,
outbox entries and packages; `memory` keeps any one earlier answer, and two
answers are enough for every pair of claims to be compared. A record's state
"pending_submission" is what the API says of every frozen record
(`docs/architecture/api.md:21`), so it is not compared with its batch's state.

`OutboxWorker` extends the store with workers and a provider, which the
repository does not contain: a worker takes an entry of a page, sends it, learns
that it was accepted or refused or nothing, records that later, and may die
anywhere. Nothing else is assumed of it; two workers may work on one entry.

`PaperlessFetch` has one step per HTTP request of a call. The server shows the
document as it is at that instant and falls back to the original when there is no
archive. `Sha256` and `Md5` are parameters: the first is injective in the
instance and the second is not, since the code uses MD5 for consistency only.
`PaperlessAgent` has handlers that plan, fetch, ingest and report. It composes
the agent with the store through the abstract `AtomicIngest`, and takes a fetch
as one step, since what `PaperlessFetch` shows (`FetchedWasThere`) is that the
bytes were there in the version asked for at one instant. Paperless and its
webhooks are the environment: an edit sends a webhook, and so does evidence
written back. A webhook that is refused, here or for its signature, is lost.
`limit` is the reconciler's, or `NoLoop`: a page is the source's list cut to it, in an
order of the source's choosing. `Run` keeps no place from one pass to the next, so what
a limit below the number of candidates leaves out is up to the source, whose first
page may be filled by documents that always fail.

`Daemon` has `main` with its shutdown goroutine, several processes over one file,
and requests as one transaction and an answer. A transaction keeps the data it
started from (`view`) and its commit puts what it made of that in place of the
file's, so a commit over a view something has overtaken would lose what was
acknowledged; a transaction that cannot begin or commit is `NotCommitted`.
`holders` are the processes holding the lock. `ServeFails` is a listener that fails
after it has served (`main.go:53`). `Schema` is one transaction, as in `Open`. bbolt's file lock and writer lock, and that a killed process loses its
lock and its open transaction, are modelled as their documentation promises.

The modules named `*Proofs` hold the theorems: one each for `EvidenceStore` with its
refinement of `EvidenceLedger`, `DocumentIngest` with its refinement of
`AtomicIngest`, `PaperlessFetch`, `PaperlessAgent`, `Daemon` and `PrivateFile`;
`StoreClientsProofs` is about what calls the store, `OutboxWorker` and
`HTTPSession`, and `PackageProofs` about trees, packages and what the store
exports. `MC*` modules and `.cfg` files hold the instances.

## What the runs check

| run | instance | question |
|---|---|---|
| `store` | 3 records, 2 batches of at most 2, 3 keys, 2 sources in 2 representations, 2 nonces; 82,549 states | do the buckets agree after any history, is nothing promised rewritten, and is it the ledger? |
| `ingest` | 2 clients, 3 keys, 3 sources, 2 documents and an unreadable one, room for 2 records; 121,984 states | is every interleaving one of atomic calls, and do acknowledged records stay? |
| `retry` | 2 clients, 2 keys, 2 sources | is an exact retry always answered? **No**, see below |
| `package` | batches of up to 9, all entries, indexes, genuine and altered paths; path lengths at 65,535 and 65,536 leaves; packages of batches of up to 5 with up to 3 changed fields; 26,744 states | does verification accept exactly the truth, can changed or recombined packages pass, and do exit codes follow the documented table? |
| `export` | 3 records, batches of up to 3, 2 documents; 5,751 states | does every frozen record, at every later moment, export a package that proves its document? |
| `session` | 2 records, 2 batches of at most 2, 3 keys, 3 sources, 2 documents, limits 0 to 2; 169,198 states | do the answers of all endpoints agree and never go back, and does nothing fail closed but an ingestion that finds the counter full? |
| `freeze_retry` | as `session`, with 2 keys and 2 sources | does a freeze's 201 always say "pending submission"? **No**, see below |
| `outbox` | 2 workers, one of which comes back, 2 records, 2 batches, pages of 1; 55,165 states | is no batch forgotten, and is every batch submitted in the end? |
| `fetch` | 3 contents, 2 with one MD5, 1 too large, 3 edits; 248,924 states | is what is returned the document's, an archive still there afterwards, and are refusals deserved? |
| `agent` | 2 documents, one of which can never be fetched, 2 contents, a webhook handler and the loop, which may be off, 1 webhook in flight, 2 event ids, 2 disturbances, limits 1 and 2; 335,422 states | right bytes and no conflict; is the last version of what is listed again and again captured with the loop, and do write-backs die out without it? |
| `daemon` | 2 processes, 2 requests; 427,639 states | are answers durable, nobody cut off and the file always openable, and does a signal end the process? |
| `private_file` | 2 processes, packages of 2 blocks, 1 power loss; 6,036 states | is the destination whole or absent, never replaced, success true? |

**Bounds.** Two clients race in every way the code distinguishes, because a call
compares itself with at most one record at a time. Three records and a limit of
two give full, partial and consecutive batches, records that wait behind a
frozen one, and a full sequence counter (`MaxSequence` stands for the end of the
64-bit counter). Batch ids are numbers because the outbox is read in their order.
Two nonces and one document tell an identical witness from a changed one. Trees
of up to 9 leaves include every shape of a balanced subtree with
a shorter right edge. Three changes are enough to replace witness, index and
path of a package together by those of another member. Two blocks tell a partial
file from an empty and from a whole one. `MaxPath` and `MaxManifest` have the code's
values, 16 and 2^16. Names only compared for equality are
symmetric where no liveness is checked; batch ids, which are read in their order,
are not permuted. The `agent`, `daemon`
and `outbox` runs, which check liveness, use no symmetry; there a fresh name is
chosen among equals, and so are the bytes a document starts with. Three
edits are what it takes to change a document between each two of the requests of
a fetch, back and forth. Two processes are one and its replacement; two requests
leave one in a transaction while the other is answered. `MaxDisturbances` bounds
edits, repeated deliveries and crashes, `MaxInFlight` the webhooks on their way.
One event of a second document that always fails is enough to stand before
another in a pass, and with a limit of one to keep it off the page. In `session` a third
key and source, with room for two records, reach the full counter with something new
to ingest. `acks` remembers a bounded number of acknowledgements, any of
them.

**Fairness.** `Daemon!FairSpec`: the goroutines of `main` are scheduled, the
timers fire, and a transaction that began ends, since nothing in it waits for
anybody; a handler may hang before and after it. Nothing is assumed of signals,
kills and clients.
`PaperlessAgent!FairSpec`: handlers take their steps, and webhooks do not stay
in flight for ever. Whether an operator runs the loop, and with which limit, is chosen at
the start (`limit`); one who does calls `Run` again and again, and
a fetch that is tried again and again for a document that can be fetched succeeds
some time (strong fairness: single attempts may fail). Nothing is assumed of the order
in which the source lists candidates. `CurrentCaptured` is about
agents with the loop, and says what they depend on: the limit covers all candidates,
or the document is on some page again and again, `WritebacksDieOut` about agents without, where "eventually
quiet" needs edits to end.
`PersistentSpec` is about code that does not exist yet: one worker that comes back
after dying, and a provider that accepts some time. It says what the store's
interface is good for, even if only one entry is listed at a time and another
worker is in no way fair. A call of `IngestDocument` has no loop and at most three
transactions, so that it ends is evident.

**Deadlock** is checked, except where a run really ends: one call of the fetcher,
workers that have emptied the outbox, and an agent without the loop once its
webhooks are handled. A store whose ids are used up still repeats old calls, and
the finished states of `PackageHandling` and `PrivateFile` stutter explicitly.

### Disagreements found

`docs/architecture/api.md:23` says "Exact ingestion retries are idempotent,
including concurrent retries of the same document/source/key". `IngestDocument`
answers a request it finds through its source (`store.go:301`, and again at 316)
without filing the request's key, although `ingest` files it for the same case
(`store.go:380`). The key of an acknowledged request therefore stays free;
another source can be accepted under it, and the exact retry of the acknowledged
request then gets `ErrConflict`. Run `retry` shows the trace.

`docs/architecture/dev-api.openapi.yaml:131` describes the 201 answer of a freeze
as "Batch exists for the request key and remains pending submission." A freeze
repeated with the key of a batch that was submitted meanwhile also answers 201
(`server.go:156`), with state `submitted`. Run `freeze_retry` shows the trace.
Nothing else goes wrong: the members and the manifest are the same.

## What is proved

`EvidenceStoreProofs`, for any sets of ids, keys, sources, documents and nonces
and any limits (assuming only `StoreAssumption`: batch ids are numbers, the empty
batch id is not one, limits are natural numbers):

- `Invariance`: `StoreInvariant` is inductive. The properties the runs check are
  not inductive alone. `PendingOrBatched` does not exclude a queue with a hole,
  from which a freeze would take members that are not consecutive; `QueueIsTail`
  closes that. `NeverCorrupt` needs batches and members to name each other, which
  is `BatchesSound`. `CreateEffect`, `FreezeEffect` and `RecordEffect` say what
  each transaction does to the buckets; `CreateInvariant`, `FreezeInvariant` and
  `RecordInvariant` conclude, one step per conjunct. That a cursor scan of a tail
  takes an initial interval of it is `ScanInterval`, which rests on
  `PositionInInterval` and a fact about cardinalities of intervals.
- `TypeCorrect` (no run checks it separately, it is part of the invariant), `IndexesAlwaysAgree`, `AlwaysPendingOrBatched`,
  `AlwaysFreezeOrder`, `OutboxAlwaysExact`, `NeverReportsCorrupt` follow from it.
- `EvidenceNeverRewritten`, `FreezesNeverRewritten` and `KeysNeverMove`: the action
  properties, from the invariant and the effect of each transaction.

`PrivateFileProofs`, for any number of processes and any package length:
`FileInvariant` is inductive (`FileInvariance`). Its core is `DestinationWhole`:
what is at the destination is whole on disk too, since its writer synced before
it linked, and the disk's directory is never ahead there; so a power loss leaves
the file or nothing. `DestinationNeverPartial`, `SuccessAlwaysSaved`,
`NeverLeftover` and `DestinationNeverOverwritten` follow.

There too: `StoreIsLedger`, every transaction is a `Record`, a `Cut` or
a `Settle` of `EvidenceLedger`, or changes nothing the ledger knows of. The
invariant is the store's with `KeysNameBatches`: request keys and batches name
each other, or a report about a batch would settle two cuts or none.
`NumberedKept` is why the log only grows; `FreezeCuts` turns what a freeze does
to the buckets into a cut at the head of the log.

`DocumentIngestProofs`, for any number of clients (assuming also `CallAssumption`,
that the value for "no call" is not a call):

- `IngestInvariance`: `IngestSound` adds to the store's invariant that there is a
  source for every number given out, which is how `AtomicIngest` knows that the
  store is full, and what each client has: a second look finds what the first
  transaction lost to, and a success is stored (`Stored`).
- `AcknowledgedAlwaysStays`, and `IngestIsAtomic`: the call's effect is the
  transaction that writes, or the look that finds a record, since what it finds
  stays the source's; a look that finds nothing and the loss of a race are
  invisible to `AtomicIngest`. So the loser of a race answers as if it had come
  second.

`StoreClientsProofs`, for any number of workers and clients:

- `NothingEverForgotten`, from the store's invariant and two facts that need each
  other. A worker holds a batch's own manifest and knows it submitted only if the
  provider has it (`TasksSound`); what is recorded as submitted has arrived
  (`SubmittedArrived`).
- `SessionInvariance`: `SessionInvariant` says of the store that it is sound and its
  request keys name its batches, of the answer on its way and the one remembered that
  they still stand (`Stands`), and of the past what the properties say. `Stands` is
  what survives of an answer: a record it named exists, and a place, members, limit,
  manifest or package it named is so for good, but a state may have moved on. A
  handler's answer is `Truthful` in the state it leaves (`ServeTruthful`), what is
  truthful stands (`TruthStands`) and goes on standing (`StandsKept`, from
  `KeepsEvidence` and `KeepsFreezes`), and a truthful answer neither goes back on a
  standing one nor disagrees with it (`TruthAdvances`, `TruthAgrees`).
- `AnswersAlwaysAdvance`, `EndpointsAlwaysAgree` and `ServiceFailsClosedOnlyWhenFull`
  follow. They assume also `SessionAssumption`, that ids of records and of batches are
  different random names, and what `PackageProofs` assumes: that every frozen record's
  package can be encoded is `PackageOf` there. A full
  counter stays full (`FullStays`), so an answer that named it stays excused.

`PackageProofs`, for any entries, batches and packages:

- The functions of `Merkle` exist and satisfy the equations they are defined by.
  `Recursion` proves that once for any step that looks at smaller sizes only
  (`Local`); `RootsEquation`, `PathsEquation`, `DepthsEquation` and `RebuildsEquation`
  are instances, since `split` is strictly inside its tree (`SplitBounds`, from what
  `bits.Len64` counts, `DigitsBound`). What the functions compute is proved by
  course-of-values induction over a set of sizes (`SetInduction`), which follows from
  the well-foundedness of `<`.
- `RootIsReferenceTree`: `Root` is the tree of RFC 6962, whose left part is the largest
  complete tree below the size (`SplitIsLargestComplete`), for any number of entries.
- `VerifyAcceptsExactly`, for at most 2^64 entries and any path: `Verify` accepts an
  entry at a place with a path if and only if it is the entry of that place and the
  path is the one `Path` computes. Its core is `RebuildExact`: rebuilding in a subtree
  either runs out of nodes, or uses as many as the subtree is deep and comes to its
  root just for the right entry and nodes. `PathShape` and `DepthBound` say that a path
  is as long as `pathLength` says, and no longer than b in a tree of at most 2^b leaves.
- `PackagesVerify`: the package of a member is written, is admitted by `Parse` and
  verifies. It assumes `PackageAssumption`, that no admitted manifest has more than
  2^`MaxPath` leaves (the code's values are 2^16 and 16), and it is what would fail if
  one limit were raised without the other.
- `HandlingInvariance`: a package changed in any fields any number of times keeps the
  shape of one, and its path is that of some member. With it, for the batches of
  `HandlingAssumption` (no two members have the same witness, at most `MaxManifest` of
  them), all properties of the run `package`: `VerifyAlwaysExact`,
  `RootAlwaysReference`, `PathLengthAlwaysAgrees`, `VerifiedAlwaysMember`, and
  `ExitCodesAlways`, for which `ParseSays` gives the verdict of the ordered checks and
  `GenuineVerifies` and `VerifiedIsGenuine` say that a package passes them and both
  verifications, under the manifest of the export, just if it is a member's as written.
- `ExportsAlwaysProve` and `ManifestAlwaysCovers`, from the store's invariant (a
  record's place in its batch is a place in the tree) and `PackagesVerify`, assuming
  `ExportAssumption`: a freeze takes no more than a manifest may have.
  `ExportsNeverChange` follows from `KeepsEvidence` and `KeepsFreezes`.
- `AcceptedIsFrozen` is the converse for any bytes whatsoever: what verifies relative
  to the manifest of a frozen batch is the witness, place, path and document of a
  record frozen in it.

`PaperlessFetchProofs`, for any contents and any number of edits (assuming
`Sha256Assumption`: different contents have different SHA-256 sums, and nothing of
MD5): `CallSound` is inductive. It says from when what the call holds is: the
checksum is of an archive the document had since the call began (`ChecksumSeen`),
the bytes were the document's when served (`BytesSeen`). `ArchiveStillThere` promises
no more than MD5 can: an original served in place of an archive is returned if the two
agree in it, as `FetchedWasThere` allows. `FetchedAlwaysWasThere`,
`ArchiveAlwaysStillThere` and `RefusalsAlwaysDeserved` follow.

`PaperlessAgentProofs`, for any number of documents, handlers and webhooks:
`AgentSound` says that the store has each derived key at the source it was
derived with (`NamesSound`) and that handlers ask for a version's bytes under
that version's key, so nothing can conflict: `EvidenceAlwaysHasVersion`,
`ConflictsNever`.

`DaemonProofs`, for any number of processes and requests: `DaemonSound` says that a
handler runs only where the server was started and not after Shutdown drained it
(`HandlersServed`), that `main` returns after Shutdown (`ReturnsLate`), without
which a return could cut a handler off, that one process holds the lock while it may
commit (`LockSound`), and that the view of an open transaction is the data of the file
and no other transaction is open (`ViewsSound`), without which a commit could take out
what another has acknowledged. `AnswersAlwaysDurable`, `SignalsAlwaysDrain`
and `SchemaAlwaysKept` follow.

Every invariant and every action property of a passing run is a theorem, and so are
both refinements. Liveness under fairness (`OutboxDrains`, `CurrentCaptured`,
`WritebacksDieOut`, `SignalEnds`) is beyond the prover and stays with TLC; and the two
disagreements are what they are. Hashes are free constructors throughout, so what is
proved of trees and packages is proved up to collisions of SHA-256.

## Not modelled

Limits and encodings of inputs (text lengths, base64, JSON, query strings, HTTP
methods, flags, the loopback check of the daemon's address) are validation
without state, and so is the HMAC of a webhook: a request either passes or is
refused before anything happens. Tenants are not told apart, as said above.
Damage to the database file is outside the store's own histories. The
reconciliation loop's caller and `ListReady` are interfaces without an
implementation in the repository; they are modelled by what the code requires of
them. Release scripts, docs and test data are not program logic.

## Plan

1. A general form of the session results: any number of earlier answers at once. Two
   suffice for the claims as they are, which compare pairs.
2. `PaperlessAgent` against `PaperlessFetch`: the agent takes a fetch as one step,
   justified by `FetchedWasThere`; a refinement would state that in one place.
