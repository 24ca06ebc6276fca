------------------------------- MODULE Library -------------------------------
(***************************************************************************)
(* A tenant's files before and after they are indexed: uploads to a        *)
(* knowledge base or to the personal library, attaching, detaching,        *)
(* re-parsing and deleting (routers/docs.py, routers/files.py), the quota  *)
(* and its monthly counter (quota.py), and the raw objects in MinIO.       *)
(*                                                                         *)
(* Each request runs in a thread of the pool and uses several connections, *)
(* each with a transaction of its own: a step is one transaction, one call *)
(* to MinIO, or the part of an ingest before or after it reads the object. *)
(* The caller is one the routes authorise.                                 *)
(*                                                                         *)
(* Two clocks say what month it is.  kb_usage is keyed by the server's     *)
(* UTC month, _month(), which a request reads somewhere between the begin  *)
(* and the end of its transaction; kb_file.created_at is the database's    *)
(* now(), fixed when the transaction begins, and its month is cut in the   *)
(* database's time zone.                                                   *)
(***************************************************************************)
EXTENDS Integers, FiniteSets, FiniteSetsExt

CONSTANTS
    Workers,      \* threads of the server's pool
    Contents,     \* what clients upload, told apart by its SHA-256
    Size,         \* bytes of each content
    KBs,          \* the knowledge bases
    MaxDocs,      \* kb_quota.max_docs; 0: no limit
    MaxBytes,     \* kb_quota.max_bytes; 0: no limit
    MaxUploads,   \* bound: uploads that get as far as drawing a file id
    MaxMonths,    \* bound: calendar months, of either clock
    MaxFaults     \* bound: requests that raise or die half way

ASSUME LibraryAssumption ==
    /\ IsFiniteSet(Workers) /\ Workers # {}
    /\ Contents # {} /\ Size \in [Contents -> Nat]
    /\ MaxDocs \in Nat /\ MaxBytes \in Nat
    /\ MaxUploads \in Nat /\ MaxMonths \in Nat \ {0} /\ MaxFaults \in Nat

VARIABLES
    content,   \* the bytes of each file
    status,    \* kb_file.status; "absent": there is no such row
    born,      \* the month of kb_file.created_at, by the database's clock; 0
               \* without a row
    charged,   \* the month whose counter took the file in (not stored: a
               \* history variable, for the properties)
    links,     \* the kb_file_kb rows
    objects,   \* the raw objects in MinIO, by the file they belong to
    metered,   \* the months with a kb_usage row
    usage,     \* what those rows count
    month,     \* the server's month
    dbMonth,   \* the database's month
    uploads,   \* file ids drawn so far
    pc,        \* where each worker's request is
    req,       \* the file it is about, the knowledge base it was sent to, and
               \* what the clocks said when its transaction began
    faults     \* requests cut short so far

tables == <<content, status, born, charged, links, metered, usage>>
clocks == <<month, dbMonth>>
libVars == <<tables, objects, clocks, uploads, pc, req, faults>>

---------------------------------------------------------------------------
FileIds == 1 .. MaxUploads
Months == 1 .. MaxMonths
Status == {"absent", "uploaded", "parsing", "ready"}

Files == {f \in FileIds : status[f] # "absent"}
SameContent(c) == {f \in Files : content[f] = c}

(* An upload to the personal library has no knowledge base.                *)
Targets == {{}} \cup {{k} : k \in KBs}
About(f, kbs) == [file |-> f, kbs |-> kbs, month |-> 0, dbMonth |-> 0]
TimedAbout(f, kbs) == [file |-> f, kbs |-> kbs, month |-> month, dbMonth |-> dbMonth]
NoRequest == About(0, {})

(* What a request whose transaction is ending can have read off the        *)
(* server's clock since that transaction began.                            *)
MonthsRead(w) == req[w].month .. month
DbMonthsRead(w) == req[w].dbMonth .. dbMonth

TotalOf(S) == [docs |-> Cardinality(S),
               bytes |-> MapThenSumSet(LAMBDA f : Size[content[f]], S)]

(* The counter of month m or, when it has no row, what the tables have     *)
(* since the database's month d began.                                     *)
GetUsage(m, d) ==
    IF m \in metered THEN usage[m] ELSE TotalOf({f \in Files : born[f] >= d})

(* Mutant: the document that comes in is not counted.                      *)
CheckQuotaOffByOne(m, d, size) ==
    /\ MaxDocs # 0 => GetUsage(m, d).docs <= MaxDocs
    /\ MaxBytes # 0 => GetUsage(m, d).bytes + size <= MaxBytes

CheckQuota(m, d, size) ==
    /\ MaxDocs # 0 => GetUsage(m, d).docs + 1 <= MaxDocs
    /\ MaxBytes # 0 => GetUsage(m, d).bytes + size <= MaxBytes

MeterIngest(m, size) ==
    /\ metered' = metered \cup {m}
    /\ usage' = [usage EXCEPT ![m] = [docs |-> @.docs + 1, bytes |-> @.bytes + size]]

(* GREATEST(... - ..., 0), on the row of the month of the deletion.        *)
Less(n, k) == IF n >= k THEN n - k ELSE 0
MeterDelete(m, size) ==
    /\ metered' = metered \cup {m}
    /\ usage' = [usage EXCEPT ![m] = [docs |-> Less(@.docs, 1), bytes |-> Less(@.bytes, size)]]

Init ==
    /\ content = [f \in FileIds |-> CHOOSE c \in Contents : TRUE]
    /\ status = [f \in FileIds |-> "absent"]
    /\ born = [f \in FileIds |-> 0] /\ charged = [f \in FileIds |-> 0]
    /\ links = {} /\ objects = {}
    /\ metered = {} /\ usage = [m \in Months |-> [docs |-> 0, bytes |-> 0]]
    /\ month = 1 /\ dbMonth = 1 /\ uploads = 0
    /\ pc = [w \in Workers |-> "idle"]
    /\ req = [w \in Workers |-> NoRequest]
    /\ faults = 0

Become(w, next, r) ==
    /\ pc' = [pc EXCEPT ![w] = next]
    /\ req' = [req EXCEPT ![w] = r]
GoOn(w, next) == Become(w, next, About(req[w].file, req[w].kbs))
EndRequest(w) == Become(w, "idle", NoRequest)

---------------------------------------------------------------------------
(***************************************************************************)
(* Uploads.                                                                *)
(***************************************************************************)

(* The bytes are there: link the file they belong to, whatever its status. *)
UploadReused(w) ==
    /\ pc[w] = "idle"
    /\ \E c \in Contents, kbs \in Targets : \E f \in SameContent(c) :
          links' = links \cup ({f} \X kbs)
    /\ UNCHANGED <<content, status, born, charged, metered, usage, objects, clocks,
                   uploads, pc, req, faults>>

UploadNew(w) ==
    /\ pc[w] = "idle"
    /\ uploads < MaxUploads
    /\ uploads' = uploads + 1
    /\ \E c \in Contents, kbs \in Targets :
          /\ SameContent(c) = {}
          /\ content' = [content EXCEPT ![uploads + 1] = c]
          /\ Become(w, "quota", TimedAbout(uploads + 1, kbs))
    /\ UNCHANGED <<status, born, charged, links, metered, usage, objects, clocks, faults>>

(* The quota is checked in a transaction of its own.                       *)
QuotaPass(w) ==
    /\ pc[w] = "quota"
    /\ \E m \in MonthsRead(w), d \in DbMonthsRead(w) :
          CheckQuota(m, d, Size[content[req[w].file]])
    /\ GoOn(w, "put")
    /\ UNCHANGED <<tables, objects, clocks, uploads, faults>>

QuotaExceeded(w) ==
    /\ pc[w] = "quota"
    /\ \E m \in MonthsRead(w), d \in DbMonthsRead(w) :
          ~CheckQuota(m, d, Size[content[req[w].file]])
    /\ EndRequest(w)
    /\ UNCHANGED <<tables, objects, clocks, uploads, faults>>

PutObject(w) ==
    /\ pc[w] = "put"
    /\ objects' = objects \cup {req[w].file}
    /\ GoOn(w, "insert")
    /\ UNCHANGED <<tables, clocks, uploads, faults>>

(* The transaction begins; its now() will be the row's created_at ...      *)
InsertBegin(w) ==
    /\ pc[w] = "insert"
    /\ Become(w, "inserting", TimedAbout(req[w].file, req[w].kbs))
    /\ UNCHANGED <<tables, objects, clocks, uploads, faults>>

(* ... and writes the row, its link and the counter, whose month is read   *)
(* after the row's and may have changed.                                   *)
Insert(w) ==
    /\ pc[w] = "inserting"
    /\ LET f == req[w].file
           kbs == req[w].kbs
       IN  /\ SameContent(content[f]) = {}
           /\ status' = [status EXCEPT ![f] = IF kbs = {} THEN "uploaded" ELSE "parsing"]
           /\ born' = [born EXCEPT ![f] = req[w].dbMonth]
           /\ links' = links \cup ({f} \X kbs)
           /\ \E m \in MonthsRead(w) :
                 /\ MeterIngest(m, Size[content[f]])
                 /\ charged' = [charged EXCEPT ![f] = m]
           /\ IF kbs = {} THEN EndRequest(w) ELSE GoOn(w, "ingest")
    /\ UNCHANGED <<content, objects, clocks, uploads, faults>>

(* UNIQUE (tenant_id, content_hash): the same bytes have come in since the *)
(* look-up.  The transaction is undone, the object stays.                  *)
InsertClash(w) ==
    /\ pc[w] = "inserting"
    /\ SameContent(content[req[w].file]) # {}
    /\ EndRequest(w)
    /\ UNCHANGED <<tables, objects, clocks, uploads, faults>>

---------------------------------------------------------------------------
(***************************************************************************)
(* ingest_file, as far as the file's own row shows it.                     *)
(***************************************************************************)
IngestRead(w) ==
    /\ pc[w] = "ingest"
    /\ req[w].file \in Files \cap objects
    /\ GoOn(w, "indexing")
    /\ UNCHANGED <<tables, objects, clocks, uploads, faults>>

IngestGone(w) ==
    /\ pc[w] = "ingest"
    /\ req[w].file \notin Files \cap objects
    /\ EndRequest(w)
    /\ UNCHANGED <<tables, objects, clocks, uploads, faults>>

(* Mutant: the flip leaves the status alone.                               *)
IngestDoneSilently(w) ==
    /\ pc[w] = "indexing"
    /\ EndRequest(w)
    /\ UNCHANGED <<tables, objects, clocks, uploads, faults>>

(* The flip; without a row it changes nothing, or staging has raised.      *)
IngestDone(w) ==
    /\ pc[w] = "indexing"
    /\ LET f == req[w].file IN
          status' = IF f \in Files THEN [status EXCEPT ![f] = "ready"] ELSE status
    /\ EndRequest(w)
    /\ UNCHANGED <<content, born, charged, links, metered, usage, objects, clocks, uploads, faults>>

---------------------------------------------------------------------------
(***************************************************************************)
(* Requests about a file that is there.                                    *)
(***************************************************************************)

(* Link the file and read its status; only "uploaded" leads to an ingest.  *)
Attach(w) ==
    /\ pc[w] = "idle"
    /\ \E f \in Files, k \in KBs :
          /\ links' = links \cup {<<f, k>>}
          /\ IF status[f] = "uploaded"
               THEN Become(w, "ingest", About(f, {}))
               ELSE UNCHANGED <<pc, req>>
    /\ UNCHANGED <<content, status, born, charged, metered, usage, objects, clocks, uploads, faults>>

Detach(w) ==
    /\ pc[w] = "idle"
    /\ \E l \in links : links' = links \ {l}
    /\ UNCHANGED <<content, status, born, charged, metered, usage, objects, clocks,
                   uploads, pc, req, faults>>

Reparse(w) ==
    /\ pc[w] = "idle"
    /\ \E f \in Files : Become(w, "ingest", About(f, {}))
    /\ UNCHANGED <<tables, objects, clocks, uploads, faults>>

(* Mutant: the object goes before the row does.                            *)
PurgeBeginUnlinks(w) ==
    /\ pc[w] = "idle"
    /\ \E f \in Files :
          /\ Become(w, "purge", [About(f, {}) EXCEPT !.month = month])
          /\ objects' = objects \ {f}
    /\ UNCHANGED <<tables, clocks, uploads, faults>>

(* The transaction of purge_file reads the row, without a lock ...         *)
PurgeBegin(w) ==
    /\ pc[w] = "idle"
    /\ \E f \in Files : Become(w, "purge", [About(f, {}) EXCEPT !.month = month])
    /\ UNCHANGED <<tables, objects, clocks, uploads, faults>>

(* Mutant: the deletion is not counted.                                    *)
PurgeCommitUncounted(w) ==
    /\ pc[w] = "purge"
    /\ LET f == req[w].file IN
          /\ status' = [status EXCEPT ![f] = "absent"]
          /\ born' = [born EXCEPT ![f] = 0] /\ charged' = [charged EXCEPT ![f] = 0]
          /\ links' = {l \in links : l[1] # f}
    /\ GoOn(w, "unlink")
    /\ UNCHANGED <<content, metered, usage, objects, clocks, uploads, faults>>

(* ... and takes the file off the counter of the month, which it has read  *)
(* on the way, and deletes the row with its links, if it is still there.   *)
PurgeCommit(w) ==
    /\ pc[w] = "purge"
    /\ LET f == req[w].file IN
          /\ \E m \in MonthsRead(w) : MeterDelete(m, Size[content[f]])
          /\ status' = [status EXCEPT ![f] = "absent"]
          /\ born' = [born EXCEPT ![f] = 0] /\ charged' = [charged EXCEPT ![f] = 0]
          /\ links' = {l \in links : l[1] # f}
    /\ GoOn(w, "unlink")
    /\ UNCHANGED <<content, objects, clocks, uploads, faults>>

(* After the drain.                                                        *)
RemoveObject(w) ==
    /\ pc[w] = "unlink"
    /\ objects' = objects \ {req[w].file}
    /\ EndRequest(w)
    /\ UNCHANGED <<tables, clocks, uploads, faults>>

(* A call raises or the process dies: a parse or a drain that fails, an    *)
(* object that MinIO does not remove, a connection that is lost.           *)
Abort(w) ==
    /\ pc[w] # "idle"
    /\ faults < MaxFaults
    /\ faults' = faults + 1
    /\ EndRequest(w)
    /\ UNCHANGED <<tables, objects, clocks, uploads>>

(* The clocks are less than a month apart: whichever is behind is next.    *)
NextMonth ==
    /\ month < MaxMonths
    /\ month <= dbMonth
    /\ month' = month + 1
    /\ UNCHANGED <<tables, objects, dbMonth, uploads, pc, req, faults>>

DbNextMonth ==
    /\ dbMonth < MaxMonths
    /\ dbMonth <= month
    /\ dbMonth' = dbMonth + 1
    /\ UNCHANGED <<tables, objects, month, uploads, pc, req, faults>>

Step(w) ==
    \/ UploadReused(w) \/ UploadNew(w) \/ QuotaPass(w) \/ QuotaExceeded(w)
    \/ PutObject(w) \/ InsertBegin(w) \/ Insert(w) \/ InsertClash(w)
    \/ IngestRead(w) \/ IngestGone(w) \/ IngestDone(w)
    \/ Attach(w) \/ Detach(w) \/ Reparse(w)
    \/ PurgeBegin(w) \/ PurgeCommit(w) \/ RemoveObject(w)
    \/ Abort(w)

Next == NextMonth \/ DbNextMonth \/ \E w \in Workers : Step(w)

Spec == Init /\ [][Next]_libVars

---------------------------------------------------------------------------
(***************************************************************************)
(* Properties.                                                             *)
(***************************************************************************)

(* Every variable has its type; the counters are never negative, and no    *)
(* link outlives its file.                                                 *)
PCs == {"idle", "quota", "put", "insert", "inserting", "ingest", "indexing", "purge", "unlink"}

Requests == [file : 0 .. MaxUploads, kbs : SUBSET KBs,
             month : 0 .. MaxMonths, dbMonth : 0 .. MaxMonths]

TablesTypeOK ==
    /\ content \in [FileIds -> Contents]
    /\ status \in [FileIds -> Status]
    /\ born \in [FileIds -> 0 .. MaxMonths]
    /\ charged \in [FileIds -> 0 .. MaxMonths]
    /\ objects \subseteq 1 .. uploads

UsageTypeOK ==
    /\ metered \subseteq Months
    /\ usage \in [Months -> [docs : Nat, bytes : Nat]]
    /\ month \in Months /\ dbMonth \in Months

RequestsTypeOK ==
    /\ uploads \in 0 .. MaxUploads
    /\ pc \in [Workers -> PCs]
    /\ req \in [Workers -> Requests]
    /\ \A w \in Workers : pc[w] # "idle" => req[w].file \in 1 .. uploads
    /\ \A w \in Workers : pc[w] \in {"inserting", "purge"} => req[w].month \in Months
    /\ faults \in 0 .. MaxFaults

LinksTypeOK == links \subseteq Files \X KBs

TypeOK == TablesTypeOK /\ UsageTypeOK /\ RequestsTypeOK /\ LinksTypeOK

(* Every file has its raw object, so it can always be parsed again: it is  *)
(* put before the row is inserted and removed after the row is gone, and   *)
(* no other request's deletion takes it away.                              *)
FilesHaveObjects == Files \subseteq objects

(* Why: a file id belongs to the upload that drew it until the row is in,  *)
(* and what a deletion still has to remove has no row any more.            *)
Uploading == {"quota", "put", "insert", "inserting"}
UploadsOwnTheirFile ==
    /\ \A w \in Workers : pc[w] \in Uploading =>
          /\ req[w].file \notin Files
          /\ \A v \in Workers \ {w} : pc[v] # "idle" => req[v].file # req[w].file
    /\ \A w \in Workers : pc[w] \in {"insert", "inserting"} => req[w].file \in objects
    /\ \A w \in Workers : pc[w] = "unlink" => req[w].file \notin Files

(* Uploads that have passed the quota check and not been counted yet.      *)
Unmetered == {w \in Workers : pc[w] \in {"put", "insert", "inserting"}}

(* Requests check the quota and count themselves in two transactions, so   *)
(* together they can exceed it, but by no more than one less than there    *)
(* are threads, those still to be counted included, whatever month each of *)
(* them takes it to be.                                                    *)
OvershootBounded ==
    MaxDocs # 0 =>
        usage[month].docs + Cardinality(Unmetered) <= MaxDocs - 1 + Cardinality(Workers)

(* Why: an upload about to check the counter of a month that is over is as *)
(* good as past the check, and a month's row starts from zero.             *)
Unchecked == {w \in Workers : pc[w] = "quota" /\ req[w].month < month}
OvershootOfAllBounded ==
    MaxDocs # 0 =>
        usage[month].docs + Cardinality(Unmetered \cup Unchecked)
            <= MaxDocs - 1 + Cardinality(Workers)

MeteredInTime ==
    /\ \A w \in Workers : req[w].month <= month
    /\ \A m \in metered : m <= month
    /\ \A m \in Months \ metered : usage[m] = [docs |-> 0, bytes |-> 0]

(* The counter of the current month never counts more than the files that  *)
(* are there and were charged to it: nobody is refused for what has been   *)
(* deleted, whatever deletions overlap, even of the same file, and even if *)
(* the month changes while they run.                                       *)
ChargedTo(m) == {f \in Files : charged[f] = m}
UsageNeverOvercounts ==
    /\ usage[month].docs <= TotalOf(ChargedTo(month)).docs
    /\ usage[month].bytes <= TotalOf(ChargedTo(month)).bytes

(* Why: a deletion reads the row before it reads the month, so the file    *)
(* was charged to that month or an earlier one.                            *)
ChargedBefore ==
    /\ \A f \in Files : charged[f] <= month
    /\ \A w \in Workers : pc[w] = "purge" /\ req[w].file \in Files =>
          charged[req[w].file] <= req[w].month

(* A file that says "parsing" is being ingested by the request that        *)
(* uploaded it, or that request has failed.                                *)
ParsingIsInProgress ==
    faults = 0 =>
        \A f \in Files : status[f] = "parsing" =>
            \E w \in Workers : pc[w] \in {"ingest", "indexing"} /\ req[w].file = f
=============================================================================
