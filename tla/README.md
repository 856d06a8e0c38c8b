# Wordsworth in TLA+

Wordsworth takes in documents, extracts their text, replaces what identifies
people, indexes the result for search, and keeps an audit trail that cannot be
rewritten. This directory holds TLA+ modules of the parts of that program whose
correctness depends on the order of steps, the configurations TLC checks them
with, and TLAPS proofs of the ones that matter most. `PROJECT.json` lists for
every definition the source lines it models, for every property the mutant it
was tried against, and every hazard with the property that covers it.

    tlc -config MCAuditExport.cfg MCAuditExport.tla    # one run
    tlapm AuditChainProofs.tla                         # one module of proofs

Paths below are relative to `src/wordsworth/` in the repository.

## 1. The system

All durable state is in Postgres (READ COMMITTED, one snapshot per statement),
except the search index (OpenSearch) and the object store (S3), which belong to
no transaction, and the key vault, which opens a session of its own per call: what was
written there stays when a transaction is rolled back. Requests run in threads of several replicas; jobs
(exports, re-anonymization, topics, backfills) run beside them.

| Component | State | Operations | What makes it correct |
|---|---|---|---|
| audit chain (`audit.py`, `hashing.py`) | `audit_records`: seq, prev_hash, hash | append under advisory lock 4771, verify_chain, current_state, export_jsonl | one unbroken chain, numbers appear in order, nobody starves |
| audit export (`audit_export.py`) | write-once objects; last_seq kept by the caller | export_worm, verify_export | nothing skipped, each object complete for its name |
| key-lifecycle stream (`key_audit*.py`) | `key_lifecycle_events`, lock 4772; or a JSONL file | append, verify, export | the same, and no record twice |
| document states (`states.py`) | none | the allowed edges | every trail follows them; `deleted` is final |
| pipeline (`pipeline.py`, `extraction.py`, `profiling.py`, `originals_io.py`) | `documents`, `document_texts`, trail, index, objects | register_live, ingest, process, reanonymize | one live document per content; what is found is stored |
| OCR recovery, supersession (`recovery.py`, `supersession.py`, `ocr.py`) | object_key, superseded_by | recover, supersede | one search hit per content |
| deletion (`deletion.py`, `delete_cli.py`, `release_deleted.py`) | all of the above | delete_document, release of old rows | what is reported deleted is gone, nothing else is |
| reprocess (`reprocess.py`, `backfill_passages.py`) | text and index of existing documents | one, run, note_failure | a failed run leaves the document served |
| dedupe (`dedupe.py`) | object_key, superseded_by | retire copies in batches | reruns are idempotent, one survivor |
| sealed originals (`originals_store.py`, `document_keys.py`, `sealed_orphans.py`, ...) | sealed objects, `document_keys`, a cache of unwrapped keys | put/get original, mint or adopt a key, sweep orphans | every object opens with the key that is recorded |
| pseudonyms and keys (`pseudonymizer.py`, `mapping_store.py`, `key_lifecycle.py`, ...) | mappings, registry, key versions | mint, put, register, rotate, delete | a token means one value; every mapping opens |
| dossiers, topics (`dossiers.py`, `dossier_deletion.py`, `topics.py`, ...) | memberships, the index's dossier and topic fields | ensure, add, remove, rename, compute, delete | index, trail and memberships agree |
| access (`grants.py`, `roles.py`, `auth.py`, `vc.py`, ...) | grants, roles, signing keys held | issue, revoke, authorize, reveal | nothing is revealed that no grant permitted |
| PDF redaction, summaries (`pdf_boxes.py`, `pdf_redaction.py`, `summaries.py`, ...) | box maps, cached PDFs, summaries | build, compare lists, render, serve | a PDF hides what the lists find |
| detection (`detectors.py`, `openanonymiser_driver.py`, `detection_lists.py`, ...) | none; calls under way | scan, chunk, call, retry, replace | values go, all of them, and nothing else |
| search (`opensearch_index.py`, `hybrid.py`, `rrf.py`, `rag.py`, ...) | index entries | index, query, fuse, answer | an answer is from the scope that was asked |
| rate limit (`rate_limit*.py`) | a token bucket per client and path | check | never more than the bucket allows |
| batch clients (`client.py`, `ingest_corpus.py`, `ingest_manifest.py`) | files on disk, counts | upload with retries, directory runs | the report is true |
| schema (`db.py`) | DDL, triggers | init_schema with retries | last error surfaces, only lock conflicts are waited for |
| the rest | - | pages, forms, configuration, logs, reports, evaluation | no state of their own (section 7) |

How they interact. `api._ingest_one` registers a document (`pipeline.ingest`,
one transaction that also writes the object), commits, runs `pipeline.process`
in a second one, and when that ends in `unprocessable_ocr` runs `recovery.recover`
in a third and `process` in a fourth. Every state change and every event goes
through `audit.append`, whose advisory lock is held to the end of the
transaction: it serialises all writers of the system from their first audit
record on. Before that record they interleave freely, and this is where the hard
behaviour is:

- a state is read, an edge judged, and only then is the lock waited for;
- the index, the object store and the vault are written in the middle of a
  transaction that may still fail, and the process may end between any two steps;
- a session keeps what it read in an earlier transaction
  (`expire_on_commit=False`), a process keeps data keys it unwrapped, signing keys
  it fetched and the lists it loaded;
- waits for rows, unique keys, text rows and the lock can close a circle, which
  Postgres breaks by aborting one transaction;
- the index is asked more than once for one answer, and told of memberships after
  their commit, or before it;
- an object, a mapping or a member is looked at, and removed later by what was seen;
- a call that fails may look like an answer: a store that cannot be read, like a store
  without the object;
- exports take no lock at all, and a client that got no answer sends again.

## 2. Modules

| Module | What it is |
|---|---|
| `AppendOnlyLog` | the promise of a chained stream: a sequence of contents that only grows |
| `AuditChain` | `audit.append` and `verify_chain`, statement by statement, for any number of sessions |
| `AuditExport`, `KeyAuditExport` | the two exports beside the sessions of `AuditChain`; the two streams use the same append protocol with locks of their own |
| `DocumentStates` | `states.py`: the states, the edges, `is_allowed` |
| `Lifecycle` | deliveries, the pipeline, OCR recovery, supersession, deletion, re-anonymization and access events of several workers |
| `Originals` | what an object is sealed under, the key rows, the cache of each process, the sweep |
| `Pseudonyms` | tokens, mappings, registry, keys, rotation and the part of a deletion that removes mappings |
| `Access` | grants, roles, callers, signing keys, credentials |
| `Reveal` | a reveal over `Pseudonyms` and `Access` together |
| `Dossiers` | memberships and their records, the index's fields, topics, dossier deletion |
| `Redaction` | box maps, redacted and revealed PDFs, the cache, summaries, the lists that change under them |
| `Sorting` | a set counted off in an order, for `Search` and `Detection` |
| `Detection` | one text from the patterns over the model service to the text that is stored |
| `RateLimit` | the buckets, as several replicas check them |
| `Search` | a question, its requests to the index, and the answer |
| `Batches` | uploads in batches, the ingest endpoint, directory runs |
| `AuditChainProofs`, `AuditExportProofs`, `KeyAuditExportProofs`, `LifecycleProofs`, `OriginalsProofs`, `RevealProofs` (with `Pseudonyms`), `DossiersProofs`, `ServicesProofs` (`Redaction`, `Batches`, `RateLimit`, `Search` and `Detection`, which share no state) | theorems |
| `MC...` | instances for TLC; `MCServices` runs five modules that share no state one at a time |

**AuditChain.** `rows` are the committed records, `pend[w]` those of the open
transaction of session `w`, `nextSeq` the sequence (never rolled back, hence gaps),
`lock` the advisory lock, `pc` and `tail` the place in `append` and the tail hash it
read. `Request`, `AcquireLock`, `ReadTail` and `Insert` are the statements of
`append`; a transaction may append again before `Commit` or `Rollback`. A hash is
modelled by the list of contents it covers: equal lists, equal hashes, which is
SHA-256 taken as injective. The UNIQUE constraints are in `Insert` (`Clashes`,
with the wait for another transaction's uncommitted row), so
`BackstopNeverFires` is a statement about the lock and not an assumption.

**AuditExport, KeyAuditExport.** One action per database statement or store call.
`after` is the last_seq of the last success, which the job passes to the next
export; `worm` holds every object ever put, those of failed exports too. The two
exports differ on purpose in the code and so do the modules: one names its object
by a number read beforehand and compares with the table twice, the other names it
by what it serialised and checks only that it links.

**Lifecycle.** `docs` (object_key, superseded_by), `trail` (the audit records of each
document), `texts` are the committed tables; `index` and `objects` the two external
stores; `lock` the chain lock; `tx[w]` the operation of worker `w`: its place, the
document, key and state its session remembers, and its uncommitted writes, which
`Commit` publishes and `Abandon` drops. Each action is the code between two points
where another transaction can come in: a wait, an external write, or a read whose
result is used later. `Transition` and `Event` are the calls that end in
`audit.append`; `AppendRecord` is the wait for the lock and the insert.

    Deliver -> Known -> Skipped                            the index already has it
    Deliver -> Find -> WriteOriginal -> Commit             ingest
            -> ReadState -> Profile -> Extract -> Anonymize
            -> Index -> Indexed -> Commit                  process (resumes at the state it reads)
            -> Recover -> Repoint | Retire -> Commit       a scan, then process again
    Delete  -> Unindex -> FindObject -> JudgeObject -> RemoveObject -> Forget -> Commit
    Reanonymize -> Reindex -> Retext -> Commit             or NoteFailure
    RecordEvent -> Commit

Documents here are without dossiers, grants and pseudonyms, the store is plain; the
modules below add those, each beside a short form of what it needs of a document.

Two variables are history: no action reads them. `late` has the documents that came to
name an object after a deletion had found nobody else to claim it, `passed` those that got
a record while another operation, which had read the state before, waited to record it.
They name the one event that breaks a property, so that the property can be stated, and
proved, for everything else that overlaps. Such variables, always of that kind, are in
`Originals` (`harm`), `Pseudonyms` (`raced`), `Dossiers` (`stale`, `late`, `vain`) and, as a
field of a box map, in `Redaction` (`held`).

**Originals.** `keys[o]` is the row of `document_keys`, `objects[o]` what is stored
(nothing, plain, or sealed under a key), `owner[o]` the live document, `cache[p]` the
unwrapped keys of process `p`. `Deliver -> ReadRow -> Inspect` reads row and object;
then come the five rules of `put_original`: leave it (`Inspect`), reseal with the
row's key (`Unwrap -> SealAndWrite`), or `Mint -> SealAndWrite -> Flush`, where a
second minter waits for the row and adopts it. `ReadFails` is the store that cannot be
read at that moment, which the code takes for one without the object. `DossierFails` is
the failure after the write, with the compensating delete; `Rollback` and `Crash` leave
the object and the cache behind. `FindOrphans` and `RemoveOrphan` are the two halves of
the sweep, which anything may come between. `harm[o]` remembers which of three events came
before the object was written: a failed read of a live document's object, a key that is
not the row's, a sweep that held what was there for an orphan.

**Pseudonyms, Access, Reveal.** `vault` and its statuses belong to no transaction (a
session per call, as the code has it); `mappings` and `registry` are committed tables,
`tx[w].puts` what an anonymizer has not committed. `Anonymize -> Scan -> Mint -> Put ->
Finish` walks a text in its layers; `BeginRotation -> Retire -> MintNew -> Deposit ->
Reencrypt -> CommitRotation` is `key_lifecycle`; `Judge` and `CommitDeletion` are the
read and the removal of a deletion, which overlaps with anonymizers; `raced` has the tokens
a deletion takes while a worker has them in its text and has not registered them. In `Access` each administrative request is one
transaction. In `Reveal` a request reads its grant (`Begin`), decides (`Decide`),
decides again with the credential (`Narrow`) and opens tokens (`Open`), with
everything else in between.

**Dossiers.** `members`, `dossiers` (by number, with their names), `trail` (the membership
records of each document) and `index`;
`tx[w]` holds what a transaction adds and removes. `Register -> EnsureStep -> AddStep`
is a delivery, `ReadDossiers -> WriteIndex` what follows its commit, `RemoveStep -> CutStep
-> NoteStep` the read, the delete and the record of a removal, `Group -> Replace ->
WriteTopics` a topic computation, `Judge -> Erase -> NoteErased` a dossier's deletion,
member by member, and `Release -> Tell` its memberships. `Rename` is one transaction at any
moment its locks allow. `Abort` is any failure, `Break` the deadlock detector. `stale[c]` says
what has happened to the dossiers in the entry of a document that no write made good since
(written from memberships that had been overtaken, left by an operation that stopped
half-way, passed over by an adoption), `late` which memberships were committed after a deletion
had looked at the document, `vain` which ones a removal had read and then found gone.

**Redaction.** A page is a sequence of spellings, a spelling of words; `Places`, `Rectangles`,
`Missed` and `Boxed` compute which words a box map covers, as `build_box_map` counts, and a place
is hidden when all its words are. `ClearValues` passes over a token without a mapping; a box map
remembers in `held` what the mappings were when it was made. `Shared` are the tokens that another
document has brought too, so that its deletion may take their mappings before `StoreText` looks
them up. Requests go
`AskRedacted -> CompareLists -> Serve` or `AskReveal -> ServeReveal`, summaries
`Summarise -> NextSummary -> Bewaar`; `Deploy`, `Restart` and `Delete` come in between.

**Detection.** A text is a sequence of pieces, a token a piece that remembers the value
it stands for, so that "nothing but values went" can be said of the result. `Scan` is the
validated patterns (11-test, mod-97), for the irreversible driver the deny list, and
`ChunkText`; `Call`, `Answer`, `CallFails` are the calls to the model service under the
limiter, `EngineError` has the text done again. `Redact` joins what came back in the order of
the chunks; `Pseudonymize` collects the entities, applies the lists, replaces by value
(`Replaced`: one pass from the left, the longest value first, nothing that begins in a token)
and checks for what survives. `MaxChars` is at least 1: the code takes 0 or less for "one
chunk", which is any bound larger than the text.

**RateLimit, Search, Batches.** A check is one statement (`Check`), with the clock its
transaction began with (`Begin`). A search goes `Resolve -> Embed -> Match -> Near ->
Fetch -> Generate | Show`, with `Write` and `SetFolders` between any two. A batch goes
`PostFiles -> TakeFile -> AddFile -> TellIndex | RegisterFile -> ProcessFile -> RecoverFile ->
TellIndex -> Answers200 | Unheard | ServerDies -> ReadAnswer | NoAnswer`, a directory run
`StartManifest -> IngestFile -> JobProcess -> JobRecover -> JobTells`, with `Edit` of the files.
`archive` is the database, `found` the documents the index has and `scopes` the dossiers their
entries carry: `AddFile` commits a membership, `TellIndex` is the call after it, and the server
may end between them.

## 3. Runs

| Run | Instance | Shows |
|---|---|---|
| `export` | 2 sessions, 3 numbers, fair exporter that may crash | nothing skipped, objects complete, every record reported in the end |
| `key_stream` | 2 sessions, 2 contents, 4 numbers, 2 appends per transaction, fair sessions; an exporter that may crash | the chain verifies for every reader at every moment; the constraints never fire; numbers appear in order; it implements `AppendOnlyLog`; nobody waits forever; the export writes no record twice, its names are exact, no false alarm |
| `lifecycle_alone` | 1 worker, 6 contents (digital, scan and its OCR, scan with too little text, corrupt, unreadable), 3 documents, 4 operations, failures anywhere | every entry is served, also one an interrupted operation left; what is deleted is gone for good |
| `lifecycle_overlap` | 2 workers, a scan and its OCR, 3 documents, 4 operations, failures | trails follow the edges, nobody else's object goes, each but for the event its history names |
| `lifecycle_race` | the same with 3 operations, fair | one live document per content; every operation ends |
| `lifecycle_copies` | 2 workers, a scan, its OCR, the OCR of that and another content, 3 documents, 4 operations, failures | one search hit per content where OCR is made of scans; once indexed, always served |
| `reveal` | 2 anonymizers, 2 documents and a dataset, 3 spellings of 2 values in 2 layers, a foreign token, 1 rotation, 1 deletion at any moment, 1 grant, 3 administrative requests, 1 reveal | references resolve but for those a deletion raced with, mappings open, one token per value and rotation; a reveal shows what was there and was permitted |
| `dossiers` | 2 workers, 2 documents (one, or both, of them from before), 2 names, 4 dossiers, 1 topic each, 3 operations, failures, fair | memberships, trail and index agree; a document somebody held is kept; topics are kept; each but for the event its history names; every operation ends |
| `originals` | 2 processes, 1 object, 3 keys, 4 documents, failed reads, sweeps beside writes | originals open but after the three events of `harm`; a plain one goes only with its document or by a failed read |
| `services` | five parts, one at a time; below | a PDF hides what the lists in force find and a mapping locates, from the cache too; values go and nothing else; one budget; answers from the scope; reports are true |
| `originals_lost_key` | as `originals`, 4 keys, 5 documents | a violation: section 6 |
| `redaction_partial` | the documents of `services`, without mappings from elsewhere | a violation: section 6 |

The last two end in a violation on purpose: each states what a line of the repository says
and has TLC show the behaviour of the code that is otherwise.

The properties of the other runs that name an exception do so with a history variable, and
each exception is a behaviour of the code that section 6 lists. Taking it out of the property
(for instance `\ late` out of `NeverTakesAnothersObject`, `\ passed` out of
`TrailFollowsEdges`, `\cup raced` out of `ReferencedTokensResolve`) has TLC show that behaviour
on the same instance.

**Bounds.** `MaxSeq` caps the sequence, `MaxAppends` the appends of one transaction,
`MaxOps`, `MaxOperations`, `MaxRuns` and `MaxRequests` the operations asked for. Two
sessions suffice for the chain because the lock lets one through and every conflict is
between a holder and one other; the proofs cover any number. Four numbers allow a
transaction of two appends, a gap and a later row. For the export three allow a row
exported, one committed during an export and a gap. Three documents are a scan, its OCR
and a fresh registration after a deletion; three operations of two workers are a first
delivery and two that meet on what it left; four of one worker are delivery,
interruption, repetition and a deletion in any order. A worker of `lifecycle_alone` has
interruptions but no interleaving, for the three properties that interleavings break
(section 6). Four operations of two workers are two deliveries of one content that end as
two documents, the deletion of one of them and a third delivery, which is what it takes to
meet a deletion between its look for claims and the removal.

`reveal` has two anonymizers because a mapping is shared by two documents and a key is
minted by two; one rotation is enough for a mapping to be under the old key, under the
new one, or put in between. `CONSTRAINT Apart` lets grants and reveals begin when no
anonymizer is at work (rotation and deletion go on), which keeps the product of two
independent halves small; a deletion overlaps with the anonymizers.

`dossiers`: three operations are a delivery, a deletion of its dossier and anything
that holds or moves the document; four dossiers are two names, each made again after
its deletion.

`services` holds: for detection all texts of up to three pieces of two words, a space
and a line end, and a dozen more with a number, an address, an IBAN, a PO box, with every
set of seven entities the service may report, two attempts and two calls at a time; for
the limit three replicas, five checks, three seconds, a burst of 2½ tokens in halves; for
search three documents, two dossiers, a topic, a recall and an answer of two (so that the
index is larger than what is asked of it), one write between the requests; for redaction two
documents of two pages, in one of them a value that a page break divides, spellings of one
value, a value that only one version of the lists finds, mappings another document has brought,
two requests at a time, two deployments and three requests in all; for batches two files, five kinds of
content, batches of two and one or two attempts, one fault and one edit, two requests at
work at once.

`originals`: two processes with a worker each, since a lost key needs two caches; three keys are
one that was rolled back, one that another process committed and one more, four documents a first
one, its deletion and two deliveries after it.

**Symmetry** is used over workers and documents only where no liveness is checked.
**Deadlock checking** is off where the bounded number of requests may be used up.

**Fairness.** A session is a context manager, so a transaction that has the lock goes
on and ends (weak fairness), and Postgres hands a lock out in the order it was asked
for (strong fairness of `AcquireLock`). `Lifecycle!FairSpec` and `Dossiers!FairSpec` have weak
fairness of each worker's steps, the breaking of a deadlock included
(`deadlock_timeout`), and none of a crash or a failure: an operation ends by its own
doing. `AuditExport!FairSpec` says the job does not die at the same call every time
(strong fairness of its steps); appends stop because the sequence is bounded. Under a
load that commits during every export the export can fail each time; the code has no
answer to that and the property does not claim one.

## 4. Properties

Safety of the stream: `ChainVerifies`, `BackstopNeverFires`, `NumbersAppearInOrder`
(what "records after seq n" depends on), `IsAppendOnlyLog` (refinement with
`log <- TailHash(rows)`), `NothingSkipped`, `ObjectIsComplete`, `ObjectMatchesKey`,
`NoFalseAlarm`, `OnlyNewRecordsWritten`.

Documents: `TrailFollowsEdges`, `HitIsServed`, `OnceIndexedIsServed`, `OneLivePerKey`,
`OneEntryPerContent`, `DeletionRemovesObject`, `NeverTakesAnothersObject`,
`DeletedIsGone`.

Secrets: `OwnedObjectsOpen`, `PlainGoesOnlyByDeletion` (originals),
`ReferencedTokensResolve`, `MappingsOpen`, `OneTokenPerRotation` (pseudonyms),
`RevealsWhatWasThere`, `RevealsWhatWasPermitted` (a reveal, against what was in the source,
and against the administrators: its grant was held at some moment since the request began,
and its types were permitted by the role at some moment since), `PdfsHide`, `OnlyValuesGo`
(the result is the text cut into parts, in their order, each as it is or replaced by what
remembers it; and of a place where a value must go no piece is left).
`SealedUnderItsRow` and `NoPartialBoxMap` are the two that are violated.

Order and scope: `DossiersAreSound`, `TrailTellsMembership`, `HeldIsKept`,
`IndexKnowsDossiers`, `TopicsKept`, `AnswerIsTheScope`, `BudgetHolds` (over every stretch
of time, and who waits as long as told is let through), `ReportsAreTrue` (by what the database
has: the dossiers in the entry of the index may lag behind, section 6).

Liveness: `AppendsAreServed`, `ExportCatchesUp`, `OperationsEnd` (of documents and of
dossiers).

Operators marked `Mutant` in the modules are changed versions of one definition each
(a dropped guard, a missing reset, a swapped order); no specification uses them. For
every property of a passing run `PROJECT.json` names a mutant that violates it.

## 5. Proofs

From the constants' assumptions alone (any set of sessions, contents, any bound):

- `ChainInvariant`: `ChainInv` is inductive. `ChainVerifies` is not: it says nothing of
  who holds the lock. The strengthening is `HolderOnly` (whoever is past the lock, or has
  uncommitted rows, holds it), `SoundForAll` (what each reader sees is a chain with
  growing hashes, numbered below the sequence), `PendingExtends` (uncommitted rows come
  after every committed one and extend its history) and `TailIsCurrent` (the tail read
  under the lock is still the tail when it is used).
- `TypeCorrect`, `AlwaysVerifies`, `NeverForks`, `InNumberOrder` follow from it, and
  `ImplementsLog`: every step maps to a step of `AppendOnlyLog` or a stutter. A rollback,
  a gap or a request is a stutter; a commit extends the log by its rows.
- `ExportInvariant`: `ExportInv` adds `NumbersAreSeen` (the numbers an export works with
  are numbers of committed rows) and `SliceIsWhole` (no row can still appear inside the
  range of a slice that was read), which rests on `InNumberOrder`'s lemma. From it
  `ExportMissesNothing` and `ObjectsAreComplete`.

- `LifecycleInvariant`: `OneLivePerKey` is about committed rows and not inductive, because
  a commit publishes what a transaction decided earlier. `LifecycleInv` adds what the
  uncommitted rows claim (`ClaimsApart`: no two transactions write one row or claim one
  key, and none claims a key another committed live document has), which is what the
  unique index gives, and where each worker can be with what in hand (`Placed`). `NoTwins`
  is `OneLivePerKey` for any number of workers, documents and contents; `LifecycleTypes`
  includes that only the holder of the chain's lock has uncommitted audit records. The
  proof has one lemma for each group of actions; `WorkerMoves` is the step they share.
  It assumes what `ConstantsAssumption` says and nothing of which operations race.

- `TrailsFollowEdges` (`TrailFollowsEdges`) is for operations that overlap: `TrailInv` says of
  every worker that its history, committed and not, is whole, and that what it read of its
  document's state is what is committed plus its own records (`Sound`), unless the document is
  `passed`. The case that matters is the wait for the chain's lock: whoever commits a record of
  a document meanwhile makes it `passed`, and `AppendRecord` needs nothing else.
- `OnlyDeletionsTakeObjects` (`NeverTakesAnothersObject`): only `RemoveObject` takes anything from
  the store, two steps after the store was asked and one after the other documents were. `Looked`
  says what a deletion still knows then: whoever names the object is deleted, or is `late`.

- `PlainInvariant` and `PlainOnlyByDeletion`: `PlainInv` holds for any number of
  processes, with failed reads and with sweeps that overlap with writes. It adds to the types
  that who is about to write is at an object that is not plain, or was told by a read that
  failed that there is none (`blind`), that who has written left nothing plain, and that what a
  sweep found is sealed (`Spared`). Every step that changes an object needs one of these, except
  a deletion.
- `OpenInvariant` and `OwnedObjectsAlwaysOpen`, also for any number of processes:
  `OwnedObjectsOpen` is not inductive because a commit publishes a row for bytes
  that were written before. `OpenInv` adds that who delivers a new document is alone at
  its object (`Alone`), that an object of a document is plain or sealed under its row
  (`Stored`), what a transaction has in hand at each place (`Placed`), that what it read is
  still so (`Current`), that what it is about to write, or has written, goes with its row
  (`Settled`), and that what a sweep removes is nobody's (`Swept`). All but the first and the
  third are of objects without `harm`, so each of the three events has to be remembered by the
  step that makes it: the write after a failed read, the write with a key that is not the
  row's, the write to what a sweep holds for an orphan. `Alone` carries the argument, since
  without a failed read only a new document's delivery writes.

- `IndexedStaysServed` is `OnceIndexedIsServed` for any number of workers, with failures
  anywhere, provided that nothing is deleted (`"delete" \notin Ops`, as in its run).
  `ServedInv` says of every transaction that what it has written is fit to be published
  (`HandsReady`: a record to `anonymized` or `indexed` comes with a text, written or
  committed, one to `indexed` with an entry), and that what it is on its way to write will
  be (`PlaceReady`). The state it read may be stale, so nothing is said of it: the argument
  is that the store, the texts, the rows and the entries only grow (`Grows`), and that a
  record that repeats a state (`StateReady`) repeats one that was published properly.
- `OneEntryEach` is `OneEntryPerContent` for any number of workers, copies and failures, where
  nothing is deleted. The property is of stores without OCR of what is no scan
  (`OcrOfScansOnly`), and so is the invariant: objects only come, so a store that is so now was
  so all along. Two entries of one content come about when the
  document, its row to be, the key its session works with and the key of its entry part: a
  session keeps the key of a row that has moved meanwhile. `EntriesInv` says how far they can:
  by one step from a scan to its OCR (`Names`), never once the document has text (`Listing`);
  that a row about to be committed moves or retires nothing but a scan (`RowFits`); and that
  the document a scan is retired for is, and stays, its OCR (`Owner`). So entries of one
  content would be of two live documents of one content, which `LifecycleInv` excludes. The
  antecedent is needed, since the code makes OCR of OCR (section 6) and TLC finds two entries of
  one content then, with four operations. TLC checked `EntriesInv` on the instance of
  `lifecycle_copies`, with three and with four operations, before it was proved.
- `OneWorkerDeletions` and `OneWorkerRemoval` assume `Alone`, that operations do not overlap:
  beside another operation `DeletedIsGone` is false of the code (section 6). What remains is that
  every operation may fail or die
  between any two steps, with the index and the store as it left them, and that the next
  one starts from there. `OneWorkerInv` says that what is committed agrees with the index
  and the texts (`Consistent`), that what a transaction has written so far does (`Carried`:
  its history is whole, its text comes with its state, its entry names the key its row will
  have), that the record it is about to append does (`Fits`), and how far a deletion has
  come (`Deleting`: entry first, then object, then row and text, so that a deletion which
  stops anywhere leaves nothing a search finds and nothing serves).
- `KeyExportInvariant`: the export of the key stream serialises before it names its object
  and never reads the table again, so `KeyExportInv` says that what it serialised is all of
  the table after the last export and up to one of its rows (`SliceIsRange`), that the
  numbers it works with are numbers of rows, and that what was reported is all of the table
  up to there (`ReportIsWhole`). `KeyExportSkipsNothing`, `KeyObjectsMatchKeys`,
  `KeyExportRaisesNoFalseAlarm` and `KeyExportWritesOnlyNew` follow. All rest on
  `AuditChainProofs`: no row appears inside a range that was read, and a range of a chain is
  a chain that begins at the row before it.
- `PseudonymsInvariant`: `PseudonymsInv` says that a worker has a text behind it that mirrors
  the source and the rest of the source before it (`Splits`, `TextMirrors`), that every
  mapping, committed or not, is of a token that was minted with a key the vault has, and
  that a type has no more surplus keys than rotations, counting the one under way
  (`KeysCounted`). What was so by the vault's keys stays so, since the vault only grows
  (`MeaningKept`). `MappingsCanBeOpened` and `TokensFollowRotations` follow, with rotations that
  crash at any step.
- `RegisteredTokensResolve` holds of deletions that overlap with anonymizers: `Resolving` says that
  no two workers insert one mapping (`Fresh`), that what is registered, and what an anonymizer has
  put in its text, has its mapping or is in `raced` (`Referenced`), and that what a deletion
  found out stays so until it commits, but for the tokens a worker came to use meanwhile, which
  are noted when the deletion takes them (`Judged`).
- `RevealsShowTheSource` and `RevealsArePermitted` are about a reveal beside all of this.
  The first adds that the text a request has read mirrors its document's source
  (`RequestTyped`), the second what a request noted since it began (`NotedSince`); it assumes
  `AuthEnabled = TRUE`: without authentication nobody is asked who they are, and the property
  asks whose grant it is.
- `DossiersInvariant`: what waits for a commit fits what is committed (`Committed`). A dossier
  made is new and nobody has its name (`MadeIsNew`), a membership put is in a dossier that is
  there or made (`PutIsSound`), what a deletion has condemned is in no other dossier but by a
  membership that is `late` (`GoneIsAlone`), and two operations make different dossiers with
  different names (`Apart`). `DossiersStaySound` and `HeldDocumentsAreKept` follow, for any
  number of workers.
- `PdfsAlwaysHide`: `RedactionInv` says of every box map in use, committed or in the hands of a
  request, that it has a box for every match of the lists it was made under and missed none
  and a mapping that was there (`FromText`; `held` is what there was), and of every cache entry that it is what would be made from its key (`Cached`),
  so that an entry from before a deployment is as good as a new one. That two tokens never
  share a label needs that the first places of two tokens differ and that places are well
  ordered (`First`, from the library's lexicographic orderings), so that their ranks do. It
  assumes that a token carries its type (`_token`, `label_of`), which is in
  `RedactionAssumption`.
- `ReportsStayTrue`: `BatchesInv` relates a request to its client, which may have given up on
  it: a request that is waited for has done and has to do together what was sent, in its
  order, and every file it will report as delivered is found (`Awaited`); no client waits for
  two. A client has counted exactly the files it is past (`UploadOk`). That a document found
  for one client stays found for the others rests on `Documents`: no two live documents hold
  the same bytes, and what is found holds a content with text, so that no recovery ever moves
  or supersedes it. What it says of dossiers is of memberships, which are only added; of the
  dossiers in the entries (`scopes`) nothing is said, as the code does not keep them in step
  (section 6). Every step keeps what was found, the contents, the provenance and the
  dossiers (`Grows`), and each of the parts is kept by that. TLC checked `BatchesInv` on the
  batches of `MCServices` before it was proved.
- `BudgetsHold`: the budget of a stretch of time says nothing of the row, and a check with an
  earlier clock takes tokens away. `LimitInv` measures the row by what it has less what was
  refilled up to the time it was counted, which no check ever raises, whatever its clock, and
  every request served lowers by a token (`Within`): the first one served in a stretch leaves
  at most a bucket from its beginning, the last at least nothing at its end. `Waited` is the
  second half, the time to retry. The sum over a stretch is a recursive function; its lemmas
  (`SumExists`, `SumGrows`) are inductions over sets of numbers (`NatSets`, from the library's
  well-founded orderings). TLC checked `LimitInv` with the bounds of `MCServices` before.

- `AnswersAreTheScope`: a search reads the index three times and each read sees another
  content, so `SearchInv` relates what was found so far to all contents since the request
  was let in: what is ranked was in scope at one of them (`Ever`), and of what was in scope at
  all of them (`Always`) the words' ranking has what matches the words, and both rankings
  together have everything, if it fits (`WordsFound`, `AllFound`). Every write makes `Ever`
  larger and `Always` smaller, so it takes nothing from that (`MoreIsFound`). The orders are
  sets of pairs and a ranking counts off a set in an order (`Ordered`), which `OrderedIs`
  shows to be all of the set, each once, in that order; filters and cuts keep it (`Picked`).
  That fusing keeps what both rankings say needs that a share falls with the rank
  (`Quotients`, `SharesFall`). TLC checked `SearchInv` with the bounds of `MCServices` before
  it was proved. How well a document answers is a given order: the theorem is for any.

- `OnlyValuesLeave`: the property relates what comes out to `body`, the text after the
  patterns. `DetInv` says of every call that its text stands for the chunk it is for, part by
  part, a part being a piece as it was or what one token remembers, and is that chunk while
  it is not answered (`AnswerFor`): so together the calls stand for all of the body, in its
  order, whoever answered first. Cutting (`ChunkText`), joining (`Joined`) and one pass of
  replacements (`Replaced`) are functions of positions: a part begins where no earlier part
  reaches (`Heads`, shown to exist and to be the only one such set by induction over
  positions, `NatSets`), so the parts of a text follow each other and are all of it
  (`Parts`). The second half is about where a value stands: a match at a position the pass
  began at is at least as long there, and one it passed over lies in what an earlier match
  took, or crosses it, or that match began in a token and was left; and of the last kind the
  check after the pass sees all but those that stand right beside a token
  (`Hides`), since it masks a token by something that bounds a word as its value did. The
  assumption about texts and lists is that they are sequences of pieces. TLC checked `DetInv`
  with the bounds of `MCServices` before it was proved.

Only model-checked are `HitIsServed`, `TrailTellsMembership`, `IndexKnowsDossiers` and
`TopicsKept`; `AppendsAreServed`, `ExportCatchesUp` and `OperationsEnd` of documents and of
dossiers, since fairness and ENABLED are beyond the prover; and the two properties that are
violated, by their nature. Beside the assumptions on the constants the theorems assume: nothing
is deleted in `IndexedStaysServed` and `OneEntryEach`, `Alone` in the two `OneWorker` theorems,
`AuthEnabled` in `RevealsArePermitted`.

## 6. Where the code and its documents disagree

Two are runs of their own, in which TLC finds the behaviour:

- `originals_lost_key`: `mint` puts its key in the cache of its process before the row is
  committed, and `unwrap` answers from the cache without looking at the row it was given.
  When the upload is rolled back, another process mints and commits, the document is
  deleted and delivered again to the first process, the object is sealed under a key that
  is nowhere recorded. `originals_store.py:105` promises "the row's own key, never a second
  one".
- `redaction_partial`: `build_box_map` compares how often a token was found with how often
  it should be, so a value that a page break divides is made up for by the same person found
  where no token stands. `pdf_boxes.py:54-55` says "no partial box map, ever"; so does
  `openspec/specs/pdf-redaction/spec.md`.

Others are behaviours that a property of a passing run leaves out by name, through the history
variable in brackets. The models have these behaviours; without the exception TLC finds them:

- [`passed`] A state is read, the lock is waited for, and the record that comes out of the wait is
  of the state read (`pipeline.py:67`, `api.py:792`). Two deliveries of the same bytes both
  record registered -> extractable (`openspec/specs/document-lifecycle/spec.md:26`); an access
  event that read the state before a deletion committed gives the document its old state back;
  of two deliveries of a scan, one sets back to `unprocessable_ocr` the document that the
  other has recovered.
- [`late` of `Lifecycle`] A deletion finds nobody else who claims the object, the same bytes are
  delivered again and committed, and `store.delete` takes the object of that document
  (`deletion.py:137-143`), although the object is to be "removed only when no other,
  still-existing document row claims the same key" (`deletion.py:32-33`).
- [`raced`] A shared mapping is judged orphaned and removed while another document, whose text has
  the token, has yet to register it (`deletion.py:150-173` against `:27-30`).
- [`harm`: "failed read"] `put_original` takes every `ObjectStoreError` for a missing object
  (`originals_store.py:89-92`), so when the store cannot be read for a moment a live plain original
  is overwritten sealed, although rule 4 is to "never overwrite the only readable copy of a
  document" (`originals_store.py:122`). When the transaction fails afterwards the key of its row is
  gone, and with it the original.
- [`harm`: "swept"] A sweep that found an orphan removes the object that was written there since
  (`sealed_orphans.py:67`), although "a write in flight is never touched" (`:13`).
- [`late` of `Dossiers`] `_member_elsewhere` is asked before the deletion of each document waits for
  locks (`dossier_deletion.py:113`): a document that joins another dossier meanwhile is deleted.
- [`vain`] A removal that loses the race for its row deletes nothing, which is a warning, and records
  `dossier_removed` all the same (`dossiers.py:125-133`), also after `dossier-deleted`.
- [`stale`] The entry of a document has other dossiers than the database: when memberships were read
  before another operation changed them and are written after it did (`api.py:1094`); when the
  operation stopped between its commit and the index, or between the index and its commit
  (`assign`, `adopt`); when an adoption passes over a document that has an entry and
  is not in state `indexed`.
  A redelivery answers "skipped" and does not repair it.
- [`ReadBefore`] Topics are written from entries read before the clustering (`topics.py:399`), or
  before a re-anonymization's text: a topic another dossier's computation wrote meanwhile
  is lost, which the docstring there says must not be (`topics.py:394-397`).
- [`held`] `_clear_values` skips a token whose mapping is gone or cannot be opened and says it is "then
  reported as not located" (`pdf_redaction.py:41-44`), but `build_box_map` never looks for it: the
  map is stored and its places stay readable.

And two by a condition:

- `HitIsServed` lets the text of an entry be missing while the document is in a state from before it:
  after a crash between index and commit every redelivery is answered "skipped" for a document
  that never got its text (`api.py:1071`, `pipeline.py:368`).
- `OneEntryPerContent` is of stores without OCR of OCR. `recovery.py:58` asks for the state only,
  which a second delivery may have set back (above), so it makes OCR of the OCR and moves the
  document again, and an entry can name a content the document no longer is.

Seen while modelling besides, and no property of a run:

*Audit and documents.* The count of an export is `last - after_seq`, which counts the
numbers of rolled-back appends too (`audit_export.py:199`; `key_audit_export.py:47` says
why that is wrong). A row committed between `_last_seq` and `export_jsonl` is written by
this export and by the next. A pipeline or a re-anonymization at work puts a deleted document back
in the index (`pipeline.py:490`, `pipeline.py:365`, `deletion.py:16`), and a delivery that
adopted a document under deletion writes its object again afterwards: hence `DeletedIsGone` and
`DeletionRemovesObject` are of operations that do not overlap. Deleting a document recovered by
OCR leaves the scan (`deletion.py:138`). A second delivery of
a scan works on the key the first one moved away from; after a crash behind OCR recovery a
redelivered scan is retired in favour of a document that is not searchable.

*Originals.* Reads in the process with the lost key refuse as well, until its entry falls
due. Resealing (rule 2) does not update `document_id` of the row.

*Pseudonyms and access.* The tokens of a dataset are not registered, so a deletion elsewhere may
remove their mappings, and a dataset is never revealable by document (`datasets.py:5-7`).
A reveal decides on the
grant and on the role one after the other: when a grant is revoked and the role it named is widened while a request
is under way, it shows a type that was never permitted under a grant that was held, though
`docs/how-to/grants.md:10` has a reveal stop working immediately (four administrative
requests are needed; the run has three).
`deanonymize` with an empty set of permitted types records `requested_all` as true
(`pseudonymizer.py:497-499`). The new key is active before it is in escrow, though
`key_lifecycle.py:33` wants it there "before anything depends on it". A failed fetch of
signing keys is repeated on every request while there are none (`access_identity.py:219`).

*Dossiers.* The adoption takes "live ones only" (`backfill_dossier.py:28`) and asks only that the
document is not superseded, so one that was deleted with its dossier is adopted into another, and
`assign` moves it (`dossier_tools.py:84`). `add` takes every integrity error for "already a
member", so a delivery into a
dossier that was just deleted reports success. The deletion of a dossier can be refused by
a foreign key at its commit, after objects and index entries are gone. Overlapping
deletions of dossiers write two records of the same kind per document. Two topic computations
of one dossier leave two generations. A
transaction that waits on a unique name with the chain lock held can be aborted as a deadlock.
`dossier_tools.main_assign` passes the index positionally where it is keyword-only.

*Redaction.* `/reveal.pdf` uses a map of older lists
without comparing. Deletion leaves the box map, the summary and the cached PDFs, and
`/redacted.pdf` asks only whether the document has a state. The lists are loaded once by the
process that anonymizes and read anew by the one that compares.

*Detection.* A value that begins before a token and contains one swallows it. A match that
begins in a token of the first layer stays as it is (`pseudonymizer.py:338`), with whatever
else it covers: when the service reports `[BSN:0a1b2c3d] Jansen` as a person, the name stays
readable, and the check, which masks the token, does not find the value, although the
docstring (`pseudonymizer.py:281`) has every detected value gone or the document refused.
Of two values that cross, the shorter leaves a readable part, and the survivor check looks
for whole values only. `OnlyValuesGo` leaves these out by name (`Hides`, `Crosses`). An entity
without a score is raised as an error that is retried, though `openanonymiser_driver.py:35`
says such errors are not.

*Search, limit, batches.* `/ask` and `/export/ranking.csv` search without a scope.
`backfill_passages` can overwrite the passages of a text that was indexed again meanwhile.
A check whose transaction began before the last one counts time backwards, which keeps the
budget and may refuse wrongly; a burst below one token never allows, though a time to retry
is given. The upload client counts "added_to_dossier" as a failure. Running a directory again
re-registers every scan that OCR recovered and reports it as failed. A 503 of the key
service drops the results of the files already done, and the batch is sent again. A
membership is committed and the index told of it afterwards (`api.py:1099`, `:1115`), and a
directory run never tells it of what is indexed already (`ingest_corpus.py:52`): when the server
ends between the two, the report is right about the database, the retry is answered "skipped", and
a search in that dossier does not find the file. `ReportsAreTrue` is therefore about memberships.

## 7. Not modelled

- Schema migration (`db.py`), deduplication (`dedupe.py`: one supersede per copy, run by hand, and
  `supersede` is in `Lifecycle`), evaluation, pages, forms, configuration, logs and reports: one actor
  or no state.
- Of parts that are modelled: the JSONL driver of the key stream (`key_audit.py`, a file for one
  process), `release_deleted` and `backfill_pseudonyms` (one pass over old rows), the choice of
  outdated documents of `reprocess`, columns and forms of datasets, delays of retries, retention of
  the store.
- `Originals` has documents deleted (`Delete`) only while no delivery is at their object, which
  `Lifecycle` has without restriction, and takes the one hour of `sealed_orphans.py` for "written by
  a transaction that is over" (`Age`).
- Cryptography is what it promises: equal hashes are of equal lists, what is sealed opens with its
  key only.

## 8. Plan

Done: the stream and its exports, documents, originals, pseudonyms, access and reveal,
dossiers and topics, redaction, detection, limit, search, batches. Left, in this order:

1. Proofs of `HitIsServed`, `TrailTellsMembership`, `IndexKnowsDossiers` and `TopicsKept`.
2. `DeletedIsGone` for operations that overlap, with the late write named as the others are.
3. `Archive`, an abstract specification of deliveries and deletions that `Lifecycle` with
   one worker implements.
