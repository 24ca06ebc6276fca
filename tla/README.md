# kb-backend: specification and proofs

A TLA+ development beside the code of kb-backend: what its components do,
model-checked on small instances with TLC, and theorems about them proved for
every instance with TLAPS. Paths are relative to the repository; line numbers
of `src/app` are given as `file.py:line`.

## 1. The system

kb-backend is a FastAPI service. PostgreSQL is authoritative; Elasticsearch
holds one document per chunk and per section summary and is derived from it
through an outbox; MinIO holds the raw files. Routes are synchronous functions,
so each request runs in a thread of the server's pool and requests interleave
at every transaction and every call to another service. `db.get_conn`
(`db.py:10`) is a transaction: commit at the end of the block, rollback on an
exception, READ COMMITTED. There is no background process: the outbox is
drained only by the request that filled it, or by the next one that drains for
the same file.

| Component | State | Operations | What makes it correct |
|---|---|---|---|
| Ingest pipeline (`ingest/pipeline.py`) | kb_version, kb_chunk, kb_summary_doc, kb_anchor, the active_* columns | stage, drain, barrier, flip, drain | readers see whole published versions; nothing staged is found |
| Outbox relay (`indexing/relay.py`) | kb_outbox, the index | drain, pending_count | the index ends up as the tables say; nothing is lost on a failure |
| Garbage collection (`indexing/gc.py`) | old versions | purge_versions, prune_outbox | only versions outside the window, never one in use |
| Reconciliation (`indexing/reconcile.py`) | compares index and tables | classify, repair | repairs drift, creates none |
| File deletion (`indexing/file_store.py`) | everything of a file | purge_file | nothing of the file stays |
| Uploads and file routes (`routers/docs.py`, `routers/files.py`) | kb_file, kb_file_kb, objects | upload, upload to the personal library, attach, detach, re-parse, delete | a file always has its object; duplicates are reused |
| Quota (`quota.py`) | kb_quota, kb_usage | check, meter | the counter is right; the limit is kept |
| Retrieval (`retrieval/*`) | none; reads the index, then PostgreSQL | search, read_anchor | only documents of the active version that the caller may read |
| Anchors (`retrieval/anchor.py`) | kb_anchor | resolve, relocate | an anchor leads to the same passage in a later version |
| Incremental re-ingest (`ingest/diff.py`) | reads the previous version | match, reuse | a reused vector belongs to the same text |
| Chunker, summariser (`ingest/chunker.py`, `chunker_factory.py`, `summarizer.py`) | none | chunk_blocks, the methods of the factory, summarize_file | the chunks divide the text; limits are kept |
| Audit chain (`audit.py`) | kb_audit_log, kb_audit_anchor | append, verify, anchor | the chain verifies unless a row was changed |
| Authorisation (`authz.py`, `middleware/auth.py`, `routers/admin.py`, `members.py`, `kbs.py`) | kb_user_tenant, kb_api_key, kb_grant, kb_kb | authenticate, resolve, members, grants, bulk grants, knowledge bases | nobody passes a check he was never entitled to pass; keys are members' |
| Model registry (`models_registry.py`) | kb_model_config | create, update, delete, resolve | at most one default per tenant and kind |
| SDK (`sdk/kb_sdk/client.py`) | none | requests with retries | a call takes effect at most once, and one that was refused never |
| Conversations (`routers/conversations.py`, `search.py`) | kb_conversation, kb_message | create, rename, delete, append a turn | a turn is stored whole, or not at all |

Who calls whom: uploads, attach and re-parse call `ingest_file`; deletion
calls `purge_file`; `routers/admin_ops.py` calls the collector and the
reconciliation; all four end in `relay.drain`. Retrieval reads the index that
drains write and verifies every hit against the tables that flips write.

What is hard here: several ingests, collections, reconciliations and deletions
of one file at a time, with no lock over any of them but the collector's own;
drains that read rows without locking them and hold row locks to their end;
calls to the index that fail after taking effect; a process that dies between
two transactions; checks made in one transaction and used in another; a cached
view of the tables that is compared with an index which goes on changing. The
list with lines is under `hazards` in `PROJECT.json`.

## 2. Modules

```
Publication                      abstract: versions published one by one, whole
Store                            tables, outbox, index, locals of a request
  Relay                          relay.drain, call by call
    Ingest  Gc  Reconcile  FileStore
      Indexing                   composes them; faults; properties; refinement
        MCIndexing               instance for TLC
        IndexingProofs           type correctness; nothing staged is searchable;
                                 one ingest at a time implements Publication;
                                 one request at a time, the outbox replays
          MCSerial               instance for TLC with the invariant of that proof
Chunker                          how a document becomes chunks; no state
  Reingest                       what an ingest stages: chunks, vectors, summaries
    MCReingest, ReingestProofs
Library                          uploads, quota, raw objects of a tenant
  MCLibrary, LibraryProofs
Reading                          a search; its environment is Publication
  MCReading, ReadingProofs
Access                           members, keys, grants, authz.resolve
  MCAccess, AccessProofs
Audit                            the hash chain of the audit log
  MCAudit, AuditProofs
Registry                         the default models
  MCRegistry, RegistryProofs
Client                           the SDK's retries against the service
  MCClient, ClientProofs
```

Every table of PostgreSQL is a variable, every statement that reads or writes
it in a step of its own is an action (READ COMMITTED: each statement has its
own snapshot), and a request is a program counter with its local variables.
`Abort` and `Rollback` are exceptions and deaths, at any step.

### Indexing

One file, any number of worker threads. Correspondence:

| Model | Code |
|---|---|
| `exists`, `active`, `rows`, `shown`, `versions` | the kb_file row, its four active_* columns, ids in kb_chunk and kb_summary_doc, chunks with available = 1, kb_version |
| `outbox` | kb_outbox rows with published_at IS NULL; `at` is created_at |
| `es` | per document id: absent, hidden or visible (available_int), or a ghost: what the in-memory index keeps when a missing document is "updated" |
| `pc`, `job`, `dr` | program counter and local variables of each request and of the drain it is in |
| `activated`, `ingests`, `upkeep`, `faults` | history and bounds |

Steps are transactions and calls to the index. `drain` is modelled call by
call: the snapshot, each index, get, put and delete, the UPDATE of the row (a
lock held until the drain commits, so a second drain of the same row waits, and
two that wait for each other are a PostgreSQL deadlock with a victim), and the
commit that makes the UPDATEs visible together. A call may fail with or without
having taken effect. `Abort` is an exception or a death anywhere; PostgreSQL
rolls back, what the index was told stays.

Choices of granularity, and why they lose nothing the properties can tell:

- created_at is now(), fixed when a transaction begins. Where beginning and
  commit are different steps (flip, repair, collection, deletion) the tick is
  reserved at the beginning. Staging begins and commits in one step: its rows
  are about documents nobody else knows yet.
- The collector's advisory lock and `pending_count` are one step (`GcBegin`);
  a skip changes nothing.
- The reconciliation's reads of the tables are one step and its reads of the
  index another; a read that fails counts as "missing", as in `_es_get`. The
  filter on empty summaries is left out.
- Ids: a chunk's id depends on file, version and order, so two ingests that
  draw the same version collide on the primary key; a summary's id is random.
- `attempts` saturates at MaxAttempts: the code only asks whether it has been
  reached. One batch of a deletion stands for all (DELETE_BATCH is 500).
- Every version has the same chunks; which text is in them matters to no
  property here. kb_anchor rows, the cost log and the audit row are left out;
  dry runs and reports change nothing and are no actions.

### Chunker and Reingest

`Chunker` is pure: a text is a sequence of tokens, and the functions of
`chunker.py` and `chunker_factory.py` are operators over the blocks of a
document. `ChunkBlocks` is the packing loop as a fold, with the overlap it
carries from chunk to chunk and the sliding windows over a long block.

Tokens are those that show something; white space goes with them, and so does
`strip()`. They are not characters: with cl100k_base a Chinese character often
takes two or three. A token of `Continues` goes on with the character of the
one before. A window is cut between tokens and decoded (`Window`, `Decode`), and
of a character that an end of the window cuts, what is left decodes to U+FFFD
(`Replacement`, one for each token that is left; the decoder may write fewer).

The limit and the overlap are what a request wrote into the parser_config, and
nothing on the way checks them. In a configuration (`IsConfig`) `size` is any
integer, `carry` is what `int(size * overlap)` leaves of the overlap, and
`stride`, `max(1, int(size * (1 - overlap)))`, is longer than the limit when the
overlap is negative. `SliceEnd` is Python's slice for a limit below 0.

The second half of the module says what chunks have to be without saying how
they are made. `Divided` is the text a method divides. `Covers`: the chunks can
be laid over it from its first token to its last, every one after the start of
the one before and where that ends, or earlier by no more than the overlap
(`carry` tokens of whole blocks, or `size - stride` between windows), or later
by no more than `Gap`, what a stride longer than the limit leaves out; and every
one reads as the text does there, but for the tokens of characters its ends cut
(`Reads`). `KeepsCharacters`: every character is whole in some chunk. `Parted`:
a chunk goes on with prose only, and every table is one by itself, kept from the
summaries. `Bounded`: `size + carry` at most. The method `one` does not divide,
and with a limit of 0 or less nothing does but question and answer pairs
(`Divisible`). What a model writes, pages, boxes and section paths are left out.

`Reingest` is `_build_sources` with its diff: which chunks are found in the
version before, which vectors are asked of the index and under which ids, which
summaries are carried over and with which sources, and what is summarised anew.
A vector is the set of the text it was made from, so "a document has another's
vector" can be said; a summary remembers the contents it was written from.
Staging, publishing (drain, barrier and flip) and reconciliation are one step
each and requests do not overlap, since Indexing is about that; an ingest may
still die half published. Choices: the rows of the version before are read
without ORDER BY, so which of several equal chunks wins in the diff's dictionary
is the choice `late`; a rewritten summary is known by where and from which
contents it was written; the in-memory documents of a failed drain that are
already in the index stay there.

### Client

One `KBClient` and its `_request` loop. Attempts travel on `wire`; one that
timed out is still there and may be served after the next, or never. The
service is reduced to what a repeated or late request does to it: names under
UNIQUE, files by content, the user's role, and a count of effects per call.
A 429 comes only from the three routes that carry a limit of slowapi's: the
default limits would need its middleware, which `main.py` does not add.
`create_kb` answers every exception with 409, so it never answers 5xx.
Maintenance and chat may take effect and then fail. Chat counts as an effect
because each attempt has a model write an answer anew. Rows of the logs, and an
anchor that a search repairs, are no effects. A COMMIT whose acknowledgement is
lost is taken for a rollback.

### Publication

What readers are promised: versions are published in increasing order, each at
one instant; from then on PostgreSQL offers exactly its chunks; the index shows
only documents of published versions. `Indexing!Reader` is the refinement
mapping: published is the set of flipped versions, offered the chunks with
available = 1, searchable the visible documents. Every step of the code but
the flip and the calls that change visibility is a stutter.

### Library

A tenant's files from the look-up of an upload to the removal of the object.
Each route is cut where it opens a new connection or calls MinIO: look-up (and
link, when the bytes are known), quota check, put, insert with link and
counter, ingest. `purge_file` reads the row, then charges the deletion and
deletes, then removes the object. The ingest is reduced to what the file's row
shows: it needs the row and the object, and ends by setting `ready`.

There are two clocks. `month` is the server's, in UTC, which `_month()` reads
anew for the check, for the counter of an upload and for that of a deletion,
somewhere between the begin and the end of the transaction (`MonthsRead`).
`dbMonth` is the database's, in its own time zone: kb_file.created_at is now(),
fixed when the transaction begins (`InsertBegin`), and the fallback of
`get_usage` compares it with the month of another now() (`DbMonthsRead`). Either
clock may change between any two steps; they are less than a month apart. So the
month of a row (`born`) and the month that its file is charged to may differ;
`charged` is history, it keeps the latter. A file id is reserved with the
look-up rather than after the check; it is random, and unseen until the put.
The fallback of `get_usage` is modelled though every upload leaves a counter
row. Permissions are taken as given.

### Reading

One search of one file at a time, while the tables and the index change as
`Publication` lets them: `Reading` has that module's variables and its actions
as its environment, so what it shows rests on Indexing implementing it. Path A
and path B are threads (`a`, `b`) that interleave: B is one query of the index;
A goes through its summaries, resolves the anchor (and may rewrite it, best
effort, in a transaction of its own), reads a window of text in two statements,
and reads it again twice as wide if it was empty or missed the query; the
timeout may end it between any two. `rrf_merge` is exact: `Unit` is a common
denominator of all scores, so a sum of votes is a whole number. `postverify` is
its two SELECTs. A chunk's text is its id, so that "evidence of another version"
can be said at all.

What the index returns, and in which order, is any choice; so is what the
reranker leaves, whether a window misses the query, and, of a version that is
not offered, whether its rows are still there. Which passages are near enough
for a relocation is the constant `Alike`. The permission filter, the query log
and the windows read by `/read-anchor` and `/cite` are left out.

### Access

Memberships, keys, grants and knowledge bases of several tenants, and the routes
that change them, each authenticated, checked and carried out in the
transactions and statements of the code. `resolve` is three SELECTs: role,
grants, knowledge bases. Adding a member, removing him and changing his role
hold the lock of the membership row; `MemberFree` is that lock, and what a
statement has found is kept in `targets` and `cut` until the commit changes it.
`held` is history: the highest standing the user has had in what he asks for
since he asked. Departments, names and settings are left out; so is a user's
is_owner flag, which only maintenance and the registry ask.

### Audit

Appends in overlapping transactions: the advisory lock is tried, not waited for;
who gets it reads the tail; the id is drawn at the insert and never given back;
the row appears at the commit. `verify_audit_chain` and `anchor_audit` are
operators over the committed rows. A hash is the sequence of payloads it
commits to, so it is free of collisions and a property can ask what an anchor
stands for. `after` is no column: it names the row whose hash was taken.

### Registry

kb_model_config, with the two transactions of a request that sets a default:
`Clear`, on a connection of its own, and `Write`. `settled` is history: kinds
that have a default nobody has given up. resolve_model only reads.

## 3. What is checked

Runs (distinct states, seconds on two cores):

| Run | Instance | Shows |
|---|---|---|
| serial (501,657; 40 s) | one worker serving everything; 1 chunk, 1 summary, 2 ingests, 3 maintenance requests; a failing call, a death, a lost document | `OutboxCompletes`: at every instant, in the middle of a drain and after a death, applying the outbox to the index gives what the tables say, and what a deleted file still has in the index has its deletion pending; `DeletesNameNoRow`; `TypeOK`; `SerialInv`, the invariant their proof rests on |
| overlap (1,242,925; 70 s) | one ingesting and one maintaining worker; 3 ingests, a maintenance request, a failing call | retained rows stay, one version is offered, flips wait for their documents, versions do not go back, and `PublishesAtomically`: the code implements Publication |
| storm (200,214; 67 s) | two workers, each serving everything; 2 ingests, a maintenance request | every request ends (`RequestsEnd`); nothing staged is found (`StagedNeverSearchable`), with two ingests at once |
| library (2,283,598; 77 s) | two workers; 2 contents, 3 uploads, 2 months on each of two clocks, a fault | objects, quota and counter, see below |
| reading (242,420; 30 s) | 2 versions of 2 chunks and 2 sections, cut to 1 hit, windows of 1 neighbour | `EvidenceMatches`, `AnswersAreOffered`, `AnchorsLeadToPublished`, `FusionIsFair` |
| access (1,320,502; 110 s) | two sessions, 3 requests; 2 users, 2 tenants, a knowledge base, a clock that passes an expiry | `KeysBelongToMembers`, `PermissionHeld`, `ListedAsResolved` |
| audit (1,430,885; 70 s) | three writers, 4 appends to 2 chains, an old row without a hash | links, forks, failures of the verification, anchors |
| registry (300,983; 20 s) | two sessions, 3 requests; 4 models of 2 tenants, the system and 2 kinds | `DefaultsBounded`, `DefaultsAreNotLost`, `TenantsApart` |
| reingest (178,425; 78 s) | 22 documents of up to 3 blocks (a paragraph, one with a delimiter and a character of two tokens, a question, a title, a table), each kind alone and next to a paragraph; 8 chunkings, 2 ingests; an unread document, a short publication or a loss | vectors and summaries that are carried over, `ChunksDivide` and `CharactersKept` |
| client (275,197; 25 s) | 3 calls of any method, one retry; a name, a content, 2 roles | `TakesEffectOnce`, `RefusedDidNothing`, `GrantAccounted`, `CallsEnd` |
| two_ingests, vectorless | small | findings of section 5 |

Why the bounds are enough. Three ingests are needed to have a version that is
retired, one that is active and one that is staged, and two ingesting workers
for two flips in either order. One maintenance request next to an ingest gives
every pair of operations; three in the serial run give the collector something
to collect, the reconciliation something the collector left, and a deletion
after both. One chunk is enough wherever documents do not influence each other;
the serial run has a summary too, whose id and visibility rules differ. One
fault of each kind gives every place where it can happen; a second failure only
repeats a row that is already failed. In the library, two contents make a
duplicate and a non-duplicate, three uploads make two that pass the check on
top of one that is counted, and the quota of one document is reached. Two
versions suffice for a search because it can only tell the version it found
from a newer one; the cut to one hit leaves something out of every list. Three
requests of two sessions are one that sets the scene and two that overlap, and
the two tenants tell a change of one from a change of both. Three writers are
one with the lock, one that misses it and one that comes after them; the fourth
append continues what they leave. Two ingests make every pair of a version and
the one it is compared with; three blocks are the least in which a full chunk
hands on an overlap and then meets a title, a table or a text longer than the
limit of three tokens, and in which an answer is longer than that. All four methods run with a limit of three and an overlap
of one; `naive` also without an overlap, with a negative one (limit two, stride
three) and with one of more than the limit, and `qa` without a limit. The
character of two tokens ends a text of four, so a window of three cuts it. One
retry is one attempt too many, and three calls are
one whose attempt is still on its way and two that are answered before it
arrives.

Two kinds of reduction. `VIEW LibraryView` leaves out what a file held that is gone and
that no request is about, and the counters of months that no request can read
any more. `VIEW ReadingView` leaves out of a state what the index shows
while no path searches it, and the hits of both paths once they are fused: no
property reads them then, and no action before they are set anew, so two states
with the same view have the same futures up to view. `SYMMETRY` permutes workers,
writers and sessions, in runs without liveness; no CHOOSE is over them.

The serial run has one worker because `OutboxCompletes` and `DeletesNameNoRow`
are false when requests overlap (section 5); overlap has one ingesting worker
because `RetainedRowsPresent` is false with two (finding 1). The runs
say where the line is. `OneVersionShown` and `ActiveNeverRegresses` are claimed
for one ingesting worker only, since two flips may come in either order.
`StagedNeverSearchable` holds everywhere. It exempts version 1, which the
active_* columns name by default before anything is published (section 5).

Fairness is assumed in two runs. In storm it is weak fairness of `Work(w)`:
a thread that has a request keeps running it when it can; nothing is assumed of
arrivals, failures or deaths. In client it is weak fairness of the client's own
steps, reading an answer or giving up after its timeout, and sending again after
its sleep; nothing is asked of the service, which may never answer, so
`CallsEnd` rests on the timeout and the bound on attempts alone. `RequestsEnd` would fail if a barrier waited for
the outbox instead of raising, or if lock waits could be circular without
PostgreSQL's detection.

Deadlock checking is off because the runs are bounded: when the bounds are used
up and all requests are over, the system stands still.

Library properties: `FilesHaveObjects` (a row implies its object, across
overlapping uploads, deletions and deaths); `OvershootBounded` (the check and
the counting are two transactions, so uploads exceed the quota together, by
less than the number of threads, also when some of them checked in the month
before); `UsageNeverOvercounts` (the counter of the month counts no more than
the files that are still there and were charged to it, even when one file is
deleted twice at once or while the month changes: nobody is refused for what has
been deleted. It is about the month a file was charged to, not about the month
of its created_at, of which it would be false, see section 5);
`ParsingIsInProgress` (a file says "parsing" only while its upload is
ingesting it or after a failure).

Reading: `AnswersAreOffered` is the fence of `postverify`: whatever the index
returned, an answer is of the version offered when it is verified (or of
version 1, which the columns name by default). `EvidenceMatches`: a window is
read in two statements, and a flip in between can put text of one version under
the id of another; such a hit is always dropped, because its own version has
been superseded by then. `FusionIsFair`: what both paths prefer comes first.

Access: `PermissionHeld` says what three snapshots still guarantee: whoever
passed was entitled at one moment since he asked; not that he still is when he
writes. `KeysBelongToMembers` is about the membership row's lock, the only thing
between an addition and a removal that each take several statements.
`ListedAsResolved` compares two derivations of the same permissions.

Audit: the chain forks nowhere (`NoFork`) and links to committed rows only
(`LinksHold`), though the lock may be missed and rows come in out of order.
`FailuresComeWithGaps`: an untouched chain may fail its verification, but never
without showing a gap, so a failure without a gap is a change from outside.
`GapFreeAnchorsCommit`: without a gap, an anchor's root stands for every row it
counts; after a restart of the chain it stands for those since the restart,
which `audit.py:176` calls the whole chain.

Registry: the rule of one default is broken by requests that overlap (section
5); `DefaultsBounded` says how far, and `DefaultsAreNotLost` that nothing but
the named reasons leaves a kind without its default.

Reingest: `VectorsAreOwn` and `SummariesSupported` are about carrying over
through several versions, after failures that leave the version before half
published. `SummariesSurvive` says when a summary must not get lost, from the
versions alone and not from the algorithm. It asks that no two chunks of the
version before are equal: otherwise summaries are lost, see section 5.
`ServedHaveVectors` is the whole promise of an ingest without faults; after a
fault it is false, which vectorless shows. `ChunksDivide` compares the chunks of
every version with the document (`Covers`, `Parted`, `Bounded`, section 2). It
allows what the code does to the text: characters cut by a window are lost to
that chunk, and a negative overlap leaves gaps. `CharactersKept` says when
nothing is lost after all: when windows overlap by as many tokens as any
character has after its first, what one of them cuts is whole in the next.

Client: `TakesEffectOnce` is the agreement of the idempotent flags with what the
routes do. `RefusedDidNothing`: a 4xx says that nothing happened, also of the
attempts before. `GrantAccounted`: a role in force was set by the last grant or
revoke that returned, or by one of those the caller was told he does not know
the outcome of. That is the most that holds: such a grant, still on its way, may
be carried out after a later revoke has been answered.

## 4. What is proved

All for any number of workers, roles, chunks, summaries, ingests and faults,
from the named assumptions on the constants in each module.

- `TypeCorrect` (IndexingProofs): `Spec => []TypeOK`. `TypeOK` is inductive as
  it stands because it carries two bounds: versions in the tables and in
  requests never exceed the number of ingests begun, so `max + 1` is a version.
- `StagedSafe` (IndexingProofs): `Spec => []StagedNeverSearchable`. The property
  alone is not inductive, since visibility is decided long before it happens:
  `StagedInv` adds that everything that will make a document visible already
  names published versions wherever it waits (outbox, rows and uncommitted
  UPDATEs of a drain, the source in its hand, the plan of a reconciliation),
  that the active_* columns name published versions, and that an ingest owns
  only documents of its version. Published versions only grow, so each step
  keeps the parts it does not touch (`KeepsVisible`, `ShowsGrows`, ...), and
  the flip is the one step that uses the new member of `activated`.
- `RetainedRows`, `OneVersion`, `ActiveOnlyGrows`, `Implementation`
  (IndexingProofs), from `OneIngester`: at most one worker ingests; everything
  else may be in any number. The invariant is `PublicationInv`
  (`PublicationAlways`): the one version being made is above all that were
  published and, once staged, its rows stay; the four pointers agree and name
  the newest published version; its chunks are exactly what PostgreSQL offers.
  The collector's window is below the active version, so it keeps all of this.
  For the refinement every step is a flip, which is `Publish` of the abstract
  specification, or changes at most one document of the index, which is `Show`
  (of a published version, by `StagedInv`) or `Hide`, or nothing a reader sees.
  It assumes `Purgers = {}`, as a deletion takes back what was offered.
- `FlipsWhatIsIndexed` (IndexingProofs): `FlipOnlyIndexed`, from `OneIngester`,
  `MaxLosses = 0` (no barrier sees a document lost after it) and finitely many
  chunks and summaries (`pending_count` counts an outbox that is finite,
  `OutboxFinite`). `BarrierInv` says that nothing but a staging row names a
  document above the active version, in the outbox, in a drain or in a plan; so
  what has arrived there stays, and a row of PostgreSQL either has arrived or is
  still in the outbox, also in the middle of a drain that may yet fail.
- `SerialInvariant`, `Completes`, `DeletesSafe` (IndexingProofs):
  `OutboxCompletes` and `DeletesNameNoRow`, from `OneRequest` (one request at a
  time; whatever fails, dies or is lost in between) and finitely many chunks and
  summaries. What a drain will leave depends on rows that several earlier
  requests left behind, so `SerialInv` says what they have in common: while
  there is a file, all pending rows about a document agree with the tables, and
  a document without one is as the tables say (`AgreementInv`); until a loss,
  every document with a row is in the index or on its way, and is there before
  its visibility is changed (`PresenceInv`, as an update of a missing document
  would make a ghost); what the index holds has a row or a pending delete, and a
  delete is a document's last event (`RemovalInv`). `DrainReplays` says of a
  drain in its middle that what it has done is no younger than what it has still
  to do and has arrived; `JobReplays` that a request's locals are still what the
  tables say. The run serial checks `SerialInv` on the instance. With two
  requests at a time it is false, and so are the two properties (section 5).
- `LibraryTypeCorrect`, `RawObjectsKept` (LibraryProofs): `FilesHaveObjects`
  needs `UploadsOwnTheirFile`: an id belongs to the upload that drew it until
  its row is in, and what a deletion still has to remove has no row.
- `OvershootIsBounded` (LibraryProofs): `OvershootBounded`, from
  `OvershootOfAllBounded`, which counts with the uploads past the check those
  that are about to check the counter of a month that is over: that counter may
  let them through whatever the new one says. `MeteredInTime` adds that nothing
  is metered for a month to come and that a counter row starts from zero, so at
  the change of month the bound is the number of threads.
- `NobodyIsOvercharged` (LibraryProofs): `UsageNeverOvercounts`, from
  `CountedNow`, the same of documents and bytes apart, and `ChargedBefore`: a
  deletion reads the row before it reads the month, so its file was charged to
  that month or an earlier one. A deletion therefore takes off the current
  counter at least what its file was counted for there, and stops at zero; an
  upload is charged and counted with one reading of the clock. The bytes of the files are a fold over a
  set, for which `Bytes` gets lemmas about one file more and one less.
- `EvidenceIsOfItsVersion`, `AnchorsFollowPublication`, `FenceLetsOfferedThrough`
  (ReadingProofs): `ReadingInv` adds that exactly the newest published version
  is offered and that a hit on its way is whole or superseded (`HitsWhole`);
  superseded hits cannot pass the fence, since versions only grow.
- `FusionFair` (ReadingProofs): `FusionIsFair`. `FusedInv`: the merged list has
  every hit once, and of two hits the earlier has more votes, or as many and
  came in first. A vote is a part of `Unit`, which every rank of a list divides
  (`Unit` is a product, a fold that is shown to be a number), and gets no larger
  with the rank; who is preferred by both paths has at least as many votes and,
  with as many, came in before.
- `KeysAreMembers` (AccessProofs): from `LockExclusive` and `CutCovers`, a
  removal about to commit has seen every key of its member.
- `PassedWasEntitled` (AccessProofs): `RoleCovered` and `GrantCovered` say that
  what resolve has read so far is covered by what the user has held since.
- `ChainNeverForks`, `LinksAreToCommittedRows`, `FailuresShowGaps`
  (AuditProofs): `TailIsKnown`, until the holder of the lock ends, whatever
  comes in above the tail it read starts the chain anew.
- `DefaultsAreBounded`, `DefaultsAreKept`, `TenantsKeepApart` (RegistryProofs):
  the first counts a session that has cleared as the default it will set; with
  `TypeOK`, both are inductive as they stand.
- `ListsAgree` (AccessProofs): `ListedAsResolved`, from what type correctness
  says of memberships and grants, by cases on the role and the grant.
- `SkippedRowsRestart` and `AnchorsCommit` (AuditProofs): the second needs
  `AnchorInv`: in a chain without a gap the length of every hash is the number
  of rows up to its own, because a row can only come in at the end of such a
  chain (`CommitIsNewest`); anchors then keep naming a row and a number that do
  not change.
- `ParsingEnds` (LibraryProofs): `ParsingIsInProgress` is inductive given that
  an id belongs to the upload that drew it.
- `VectorsTheorem`, `SummariesTheorem` (ReingestProofs): the invariant says of
  every row of a version that it is as the ingest that made it computed it, and
  of every document of the index and the outbox that it is such a row with the
  vector of its own text or none. The two operators at the centre, `Found` and
  `OldToNew`, get lemmas: what they lead to has the same contents.
- `VectorsArrive` (ReingestProofs): `ServedHaveVectors`. `ArrivedInv`: until
  something fails, between requests all that the newest version serves has its
  vector in the index and the outbox is empty; before a drain, the outbox has a
  row with its vector for each of them. So what an incremental ingest asks back
  is there, and the reconciliation finds nothing missing.
- `SummariesStay` (ReingestProofs): `SummariesSurvive`. `SurviveInv` adds that
  every summary has a source: the sources are the contents it was written from
  (`SummariesSupported`), each of which leads, no two chunks being equal, to the
  one chunk that the diff has matched.
- `ChunksCorrect` (ReingestProofs): `ChunksDivide`, for any words, documents and
  overlaps, negative ones and more than the limit included. Covering is claimed
  for a limit above 0, or of question and answer pairs for any; the bound for a
  limit above 0; neither for the method `one`. What it says of the text read in
  a window is what `Reads` says: the document's, but for the tokens of
  characters that an end of the window cuts. Each fold is unfolded once into a function of its
  stages (`FoldStages`), and an invariant goes from stage to stage: for `Covers`
  (`Leads`), the blocks pending are the last ones before the stage, and the
  chunks so far end where those start, or later by no more than the overlap that
  was handed on; for `Parted` (`Divides`), the blocks pending are prose but the
  first, and the chunks kept from summaries are as many as the tables passed.
  Windows are laid one after the other (`WindowsLaid`), each showing the text it
  is cut from (`WindowShows`), and the chunks of one
  question after those of the last (`PairsLaid`). `Flatten...`, `Span...` and
  `Off...` are the lemmas about texts as joined lines that all of it rests on.
- `OnceTheorem`, `RefusedTheorem`, `GrantTheorem` (ClientProofs): a call that
  can change something has one attempt only (`OneAttempt`), which is on the
  wire, or has been served, or is lost; the three properties follow from where
  it is.
- Type correctness of the other modules: `AccessTypeCorrect`, `ReadingTypeCorrect`,
  `AuditTypeCorrect`, `RegistryTypeCorrect`.

Induction over data. The induction theorems of the library take an operator, so
none of the sums, folds and sequences above can use them. What is used instead
is that a set of natural numbers has a least element (`WFMin` with
`NatLessThanWellFounded`): a set that holds 0 and the successor of what it holds
holds everything (`Stepwise`). A recursive function exists because it does so
for every length, and the one the definition chooses is equal to it.

Only model-checked: `RequestsEnd` and `CallsEnd`, which are liveness under
fairness and need ENABLED, `CharactersKept`, which goes on from where a window
stands to what the next one makes of the character it cuts, and the two
violations of section 5. Every other property of a run is a theorem.

## 5. Where code and words disagree

With a run that shows it:

1. Two ingests and a collection: the later ingest flips first, the collector
   deletes the rows of the earlier, whose flip then points the file to nothing.
   The "double insurance" of `gc.py:13` sees no ingest past its barrier
   (two_ingests).
2. An ingest fails before its documents reach the index. The next compares with
   its rows, finds the chunks unchanged, asks the index for vectors that never
   got there and publishes documents without one, against `pipeline.py:4`; a
   reconciliation finds the documents present and leaves them (vectorless).

Met on the way, without a run of their own. Of indexing:

- `reconcile.py:94` queues "show" for the documents of the version the columns
  name, which is 1 before anything is published, without looking at the rows'
  available flag; `reconcile.py:6` says it does. `StagedNeverSearchable`
  therefore exempts version 1.
- `drain` publishes a snapshot that another drain has published since (rows are
  selected without a lock, `relay.py:39`); a staged source then overwrites a
  visible document, against `relay.py:4`.
- A failing row does not stop a drain: later rows of the same document are
  published, and the next drain applies the older one after them
  (`relay.py:56`). It takes a row that was left over and fails again in the
  drain of the newer one. What that leaves of a deleted file is a row nobody
  drains for any more.
- A reconciliation takes documents flipped since its load for orphans and
  queues their deletion, against `reconcile.py:8`. `DeletesNameNoRow` is
  therefore claimed for serial requests only.
- Deleting a missing document raises with Elasticsearch and is counted as a
  failure, against `relay.py:27`; the row then blocks later barriers.

Of ingest:

- With two equal chunks in a version, the diff maps both to one; a summary with
  both as sources, or with the one that is not matched, is dropped although
  nothing has changed, against `diff.py:4`. `SummariesSurvive` excludes such
  versions.
- Windows are cut between tokens, also inside a character, and what is left of it
  decodes to U+FFFD (`chunker.py:130`, `chunker_factory.py:122`). Without an
  overlap the character is in no chunk. `test_chunker_factory.py:40` mentions
  the cut; nothing says that the text is lost. `CharactersKept` is what holds.
- Nothing checks `chunk_token_num` and `overlap`: the routes (`files.py:28`,
  `docs.py:63`, `kbs.py:16`) and `_common` (`chunker_factory.py:62`) take any
  number, the first cut to an integer. With a limit of 0 every window is empty and prose disappears;
  with one below 0 the ends of blocks do; with a negative overlap the text
  between two windows does. Only pairs guard the limit (`chunker_factory.py:121`).
  `Divisible` and `Gap` say what that leaves.
- A chunk may hold the overlap on top of the limit, against `chunker.py:6`;
  `Bounded` says size plus carry.
- A summary whose chunks have no heading makes the INSERT of its anchor fail
  (`pipeline.py:253`: NULL into a NOT NULL column), and the ingest with it.

Of the rest:

- Two requests that set a default both clear before either writes, and the
  tenant has two (`models_registry.py:197`); `schema.sql:311` promises at most
  one. `DefaultsBounded` is what holds.
- An update that sets the default, of a model deleted meanwhile, leaves its kind
  without a default and answers ok (`models_registry.py:247`).
- A deletion is charged to the current month whatever the month of the upload;
  `quota.py:72` says the clamp makes that harmless, which it does only while
  the new month has counted nothing.
- The month of a row and the month of its counter come from two clocks at two
  moments: created_at is the database's now() at the begin of the transaction
  (`schema.sql:90`), the counter's key the server's UTC month, read later
  (`quota.py:61`). An upload at the turn of the month may have its row in the
  one and its count in the other, and with a database that is not set to UTC any
  upload of its last or first hours; the counter may then exceed the number of
  files created in its month, and the fallback (`quota.py:38`) counts others
  than the counter did. No line promises that they agree, but the fallback takes
  one for the other. `UsageNeverOvercounts` is about the files charged.
- A writer that missed the audit lock can take its id between another's read of
  the tail and its insert. The verification then reports a changed link, which
  `audit.py:114` calls tampering. `FailuresComeWithGaps` is what holds.
- Removing a member from one tenant revokes his grants and keys of every tenant
  (`members.py:180`), against `members.py:168`.
- `/read-anchor` and `/cite` read their windows without the fence of
  `postverify`.
- `create_kb` answers 409 to every exception, not only to a name that is taken.

## 6. Not modelled, and the plan

Parsers, OCR and file formats, model services, analytics, metrics, the web
front end and the editor extension have no protocol of their own. Start-up
creates what is missing and is not modelled, nor is its resetting of the
default owner's role. Maintenance routes only call what Gc and Reconcile model.
Conversations are rows of their owner, each request a transaction of its own,
and a turn is stored best effort in one transaction: no two steps can come
apart. `bulk_docs` is a number of `Detach` and `Reparse` steps in a row, each
with the transactions it has by itself.

What is left, most important first:

1. The windows of `/read-anchor` and `/cite`, whose text may be of another
   version than the anchor; no line says what they promise.
2. The headings of chunks, on which the failing INSERT of `pipeline.py:253`
   depends, and the similarity and simhash arithmetic of the relocation.
3. The routes that are left out of Library and Access: renaming, settings,
   departments, analytics.
