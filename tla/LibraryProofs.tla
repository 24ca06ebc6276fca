---------------------------- MODULE LibraryProofs ----------------------------
(***************************************************************************)
(* The library's invariants hold for any number of threads, contents,      *)
(* knowledge bases, months and faults.                                     *)
(***************************************************************************)
EXTENDS Library, FiniteSetTheorems, WellFoundedInduction, TLAPS

USE DEF clocks

LEMMA TypeInit == Init => TypeOK
BY LibraryAssumption
DEF Init, TypeOK, TablesTypeOK, UsageTypeOK, RequestsTypeOK, LinksTypeOK, FileIds, Months,
    Status, Files, NoRequest, About, Requests, PCs

(* The months' counters.                                                   *)
LEMMA MetersTyped ==
    ASSUME UsageTypeOK, NEW size \in Nat, NEW m \in Months,
           MeterIngest(m, size) \/ MeterDelete(m, size), UNCHANGED clocks
    PROVE  UsageTypeOK'
<1>1. /\ usage[m].docs \in Nat /\ usage[m].bytes \in Nat
      /\ metered' \subseteq Months
      BY DEF UsageTypeOK, MeterIngest, MeterDelete
<1>2. PICK r \in [docs : Nat, bytes : Nat] : usage' = [usage EXCEPT ![m] = r]
  <2>1. CASE MeterIngest(m, size)
    <3>1. usage[m].docs + 1 \in Nat /\ usage[m].bytes + size \in Nat
          BY <1>1
    <3> QED BY <2>1, <3>1 DEF MeterIngest
  <2>2. CASE MeterDelete(m, size)
    <3>1. Less(usage[m].docs, 1) \in Nat /\ Less(usage[m].bytes, size) \in Nat
          BY <1>1 DEF Less
    <3> QED BY <2>2, <3>1 DEF MeterDelete
  <2> QED BY <2>1, <2>2
<1> QED BY <1>1, <1>2 DEF UsageTypeOK

(* The months that a transaction which meters can have read.               *)
LEMMA MonthsReadTyped ==
    ASSUME TypeOK, NEW w \in Workers, pc[w] \in {"inserting", "purge"}
    PROVE  MonthsRead(w) \subseteq Months /\ \A m \in MonthsRead(w) : m <= month
BY LibraryAssumption DEF TypeOK, UsageTypeOK, RequestsTypeOK, MonthsRead, Months

LEMMA SizeTyped ==
    ASSUME TypeOK, NEW w \in Workers, pc[w] # "idle"
    PROVE  Size[content[req[w].file]] \in Nat
BY LibraryAssumption DEF TypeOK, TablesTypeOK, RequestsTypeOK, FileIds

LEMMA UsageTypeNext ==
    ASSUME TypeOK, Next
    PROVE  UsageTypeOK'
<1> USE DEF TypeOK
<1>1. ASSUME NextMonth \/ DbNextMonth PROVE UsageTypeOK'
  <2>1. /\ metered' = metered /\ usage' = usage
        /\ month' \in {month, month + 1} /\ month' <= MaxMonths
        /\ dbMonth' \in {dbMonth, dbMonth + 1} /\ dbMonth' <= MaxMonths
        BY <1>1, LibraryAssumption DEF NextMonth, DbNextMonth, UsageTypeOK, tables, Months
  <2>2. month' \in Months /\ dbMonth' \in Months
        BY <2>1, LibraryAssumption DEF UsageTypeOK, Months
  <2> QED BY <2>1, <2>2 DEF UsageTypeOK
<1>2. ASSUME NEW w \in Workers, Insert(w) PROVE UsageTypeOK'
  <2>1. PICK m \in MonthsRead(w) : MeterIngest(m, Size[content[req[w].file]])
        BY <1>2 DEF Insert
  <2>2. m \in Months /\ Size[content[req[w].file]] \in Nat /\ UNCHANGED clocks
        BY <1>2, MonthsReadTyped, SizeTyped DEF Insert
  <2> QED BY <2>1, <2>2, MetersTyped
<1>3. ASSUME NEW w \in Workers, PurgeCommit(w) PROVE UsageTypeOK'
  <2>1. PICK m \in MonthsRead(w) : MeterDelete(m, Size[content[req[w].file]])
        BY <1>3 DEF PurgeCommit
  <2>2. m \in Months /\ Size[content[req[w].file]] \in Nat /\ UNCHANGED clocks
        BY <1>3, MonthsReadTyped, SizeTyped DEF PurgeCommit
  <2> QED BY <2>1, <2>2, MetersTyped
<1>4. ASSUME NEW w \in Workers, Step(w), ~Insert(w), ~PurgeCommit(w) PROVE UsageTypeOK'
  <2>1. UNCHANGED <<metered, usage, month, dbMonth>>
        BY <1>4 DEF Step, UploadReused, UploadNew, QuotaPass, QuotaExceeded, PutObject,
                InsertBegin, InsertClash, IngestRead, IngestGone, IngestDone, Attach, Detach, Reparse,
                PurgeBegin, RemoveObject, Abort, tables
  <2> QED BY <2>1 DEF UsageTypeOK
<1> QED BY <1>1, <1>2, <1>3, <1>4 DEF Next

(* Where the requests are.                                                 *)
LEMMA BecomeTyped ==
    ASSUME RequestsTypeOK, NEW w \in Workers, NEW next \in PCs,
           NEW r \in Requests, next # "idle" => r.file \in 1 .. uploads',
           next \in {"inserting", "purge"} => r.month \in Months,
           Become(w, next, r), uploads' \in uploads .. MaxUploads, faults' \in 0 .. MaxFaults
    PROVE  RequestsTypeOK'
<1>1. uploads' \in 0 .. MaxUploads
      BY LibraryAssumption DEF RequestsTypeOK
<1>2. ASSUME NEW v \in Workers, pc'[v] # "idle" PROVE req'[v].file \in 1 .. uploads'
  <2>1. CASE v = w
        BY <2>1, <1>2 DEF RequestsTypeOK, Become
  <2>2. CASE v # w
        BY <2>2, <1>1, <1>2 DEF RequestsTypeOK, Become
  <2> QED BY <2>1, <2>2
<1>3. ASSUME NEW v \in Workers, pc'[v] \in {"inserting", "purge"} PROVE req'[v].month \in Months
      BY <1>3 DEF RequestsTypeOK, Become
<1> QED BY <1>1, <1>2, <1>3 DEF RequestsTypeOK, Become

LEMMA AboutIsRequest ==
    ASSUME NEW f \in 0 .. MaxUploads, NEW kbs \in SUBSET KBs, NEW m \in 0 .. MaxMonths
    PROVE  /\ About(f, kbs) \in Requests /\ About(f, kbs).file = f
           /\ [About(f, kbs) EXCEPT !.month = m] = [file |-> f, kbs |-> kbs, month |-> m, dbMonth |-> 0]
           /\ [About(f, kbs) EXCEPT !.month = m] \in Requests
BY LibraryAssumption DEF About, Requests

LEMMA TimedIsRequest ==
    ASSUME UsageTypeOK, NEW f \in 0 .. MaxUploads, NEW kbs \in SUBSET KBs
    PROVE  /\ TimedAbout(f, kbs) \in Requests /\ TimedAbout(f, kbs).file = f
           /\ TimedAbout(f, kbs).month \in Months
BY LibraryAssumption DEF TimedAbout, Requests, UsageTypeOK, Months

LEMMA EndTyped ==
    ASSUME RequestsTypeOK, NEW w \in Workers, EndRequest(w), uploads' = uploads,
           faults' \in 0 .. MaxFaults
    PROVE  RequestsTypeOK'
<1>1. NoRequest \in Requests
      BY LibraryAssumption DEF NoRequest, About, Requests
<1>2. uploads' \in uploads .. MaxUploads
      BY LibraryAssumption DEF RequestsTypeOK
<1> QED BY <1>1, <1>2, BecomeTyped DEF EndRequest, PCs

LEMMA GoOnTyped ==
    ASSUME RequestsTypeOK, NEW w \in Workers, NEW next \in PCs \ {"inserting", "purge"},
           pc[w] # "idle", GoOn(w, next), UNCHANGED <<uploads, faults>>
    PROVE  RequestsTypeOK'
<1>1. /\ req[w].file \in 1 .. uploads /\ req[w].file \in 0 .. MaxUploads
      /\ req[w].kbs \in SUBSET KBs
      /\ uploads' \in uploads .. MaxUploads /\ faults' \in 0 .. MaxFaults
      BY LibraryAssumption DEF RequestsTypeOK, Requests
<1>2. 0 \in 0 .. MaxMonths
      BY LibraryAssumption
<1>3. About(req[w].file, req[w].kbs) \in Requests /\ About(req[w].file, req[w].kbs).file = req[w].file
      BY <1>1, <1>2, AboutIsRequest
<1> QED BY <1>1, <1>3, BecomeTyped DEF GoOn

ObjectsInv == TypeOK /\ FilesHaveObjects /\ UploadsOwnTheirFile

(* A request about file f.                                                 *)
LEMMA AboutTyped ==
    ASSUME ObjectsInv, NEW w \in Workers, NEW f \in Files,
           \/ Become(w, "ingest", About(f, {}))
           \/ Become(w, "purge", [About(f, {}) EXCEPT !.month = month]),
           UNCHANGED <<uploads, faults>>
    PROVE  RequestsTypeOK'
<1>1. /\ f \in 1 .. uploads /\ f \in 0 .. MaxUploads /\ {} \in SUBSET KBs
      /\ uploads' \in uploads .. MaxUploads /\ faults' \in 0 .. MaxFaults
      /\ month \in Months /\ month \in 0 .. MaxMonths
      BY LibraryAssumption DEF ObjectsInv, FilesHaveObjects, TypeOK, TablesTypeOK, UsageTypeOK,
          RequestsTypeOK, Months
<1>2. PICK next, r : /\ next \in {"ingest", "purge"} /\ Become(w, next, r)
                     /\ r \in Requests /\ r.file = f
                     /\ next = "purge" => r.month = month
  <2>1. /\ About(f, {}) \in Requests /\ About(f, {}).file = f
        /\ [About(f, {}) EXCEPT !.month = month] \in Requests
        /\ [About(f, {}) EXCEPT !.month = month] = [file |-> f, kbs |-> {}, month |-> month, dbMonth |-> 0]
        BY <1>1, AboutIsRequest
  <2> QED BY <2>1
<1> QED BY <1>1, <1>2, BecomeTyped DEF ObjectsInv, TypeOK, PCs

LEMMA RequestsTypeNext ==
    ASSUME ObjectsInv, Next
    PROVE  RequestsTypeOK'
<1> RequestsTypeOK
    BY DEF ObjectsInv, TypeOK
<1> faults \in 0 .. MaxFaults
    BY DEF RequestsTypeOK
<1>1. ASSUME NextMonth \/ DbNextMonth PROVE RequestsTypeOK'
      BY <1>1 DEF NextMonth, DbNextMonth, RequestsTypeOK
<1>2. ASSUME NEW w \in Workers, Step(w) PROVE RequestsTypeOK'
  <2> USE DEF PCs
  <2>1. CASE UploadReused(w) \/ Detach(w)
        BY <2>1 DEF UploadReused, Detach, RequestsTypeOK
  <2>2. CASE UploadNew(w)
    <3>1. PICK kbs \in Targets : Become(w, "quota", TimedAbout(uploads + 1, kbs))
          BY <2>2 DEF UploadNew
    <3>2. /\ uploads + 1 \in 1 .. MaxUploads /\ uploads + 1 \in 0 .. MaxUploads
          /\ uploads' = uploads + 1 /\ UNCHANGED faults
          BY <2>2, LibraryAssumption DEF UploadNew, RequestsTypeOK
    <3>3. /\ TimedAbout(uploads + 1, kbs) \in Requests
          /\ TimedAbout(uploads + 1, kbs).file = uploads + 1
      <4>1. UsageTypeOK /\ kbs \in SUBSET KBs
            BY <3>1 DEF ObjectsInv, TypeOK, Targets
      <4> QED BY <3>2, <4>1, TimedIsRequest
    <3>4. uploads' \in uploads .. MaxUploads
          BY <3>2, LibraryAssumption DEF RequestsTypeOK
    <3> QED BY <3>1, <3>2, <3>3, <3>4, BecomeTyped
  <2>3. CASE QuotaPass(w) \/ PutObject(w) \/ IngestRead(w) \/ PurgeCommit(w)
        BY <2>3, GoOnTyped DEF QuotaPass, PutObject, IngestRead, PurgeCommit
  <2>9. CASE InsertBegin(w)
    <3>1. /\ req[w].file \in 1 .. uploads /\ req[w].file \in 0 .. MaxUploads
          /\ req[w].kbs \in SUBSET KBs /\ uploads' \in uploads .. MaxUploads /\ UNCHANGED <<uploads, faults>>
          BY <2>9, LibraryAssumption DEF InsertBegin, RequestsTypeOK, Requests
    <3>2. PICK r : r = TimedAbout(req[w].file, req[w].kbs)
          OBVIOUS
    <3>3. UsageTypeOK
          BY DEF ObjectsInv, TypeOK
    <3>4. r \in Requests /\ r.file = req[w].file /\ r.month \in Months
          BY <3>1, <3>2, <3>3, TimedIsRequest
    <3>5. Become(w, "inserting", r)
          BY <2>9, <3>2 DEF InsertBegin
    <3> QED BY <3>1, <3>4, <3>5, BecomeTyped
  <2>4. CASE QuotaExceeded(w) \/ InsertClash(w) \/ IngestGone(w) \/ IngestDone(w) \/ RemoveObject(w)
        BY <2>4, EndTyped DEF QuotaExceeded, InsertClash, IngestGone, IngestDone, RemoveObject
  <2>5. CASE Insert(w)
        BY <2>5, EndTyped, GoOnTyped DEF Insert
  <2>6. CASE Attach(w)
    <3>1. CASE UNCHANGED <<pc, req>>
          BY <2>6, <3>1 DEF Attach, RequestsTypeOK
    <3>2. CASE \E f \in Files : Become(w, "ingest", About(f, {}))
          BY <2>6, <3>2, AboutTyped DEF Attach
    <3> QED BY <2>6, <3>1, <3>2 DEF Attach
  <2>7. CASE Reparse(w) \/ PurgeBegin(w)
        BY <2>7, AboutTyped DEF Reparse, PurgeBegin
  <2>8. CASE Abort(w)
    <3>1. faults' \in 0 .. MaxFaults
          BY <2>8, LibraryAssumption DEF Abort
    <3> QED BY <2>8, <3>1, EndTyped DEF Abort
  <2> QED BY <1>2, <2>1, <2>2, <2>3, <2>4, <2>5, <2>6, <2>7, <2>8, <2>9 DEF Step
<1> QED BY <1>1, <1>2 DEF Next

(* The links, which the deletion of a file takes with it.                  *)
LEMMA LinksTypeNext ==
    ASSUME ObjectsInv, Next
    PROVE  LinksTypeOK'
<1> USE DEF ObjectsInv, TypeOK, LinksTypeOK
<1>1. ASSUME UNCHANGED status, links' \subseteq links PROVE LinksTypeOK'
      BY <1>1 DEF Files
<1>2. ASSUME NextMonth \/ DbNextMonth PROVE LinksTypeOK'
      BY <1>1, <1>2 DEF NextMonth, DbNextMonth, tables
<1>3. ASSUME NEW w \in Workers, Step(w) PROVE LinksTypeOK'
  <2>1. CASE UploadReused(w)
    <3>1. links' \subseteq Files \X KBs
          BY <2>1 DEF UploadReused, SameContent, Targets
    <3> QED BY <2>1, <3>1 DEF UploadReused, Files
  <2>2. CASE UploadNew(w) \/ QuotaPass(w) \/ QuotaExceeded(w) \/ PutObject(w) \/ InsertBegin(w) \/ InsertClash(w)
             \/ IngestRead(w) \/ IngestGone(w)
        BY <2>2, <1>1 DEF UploadNew, QuotaPass, QuotaExceeded, PutObject, InsertBegin, InsertClash,
                IngestRead, IngestGone, tables
  <2>3. CASE Insert(w)
    <3> DEFINE f == req[w].file
    <3>1. f \in FileIds /\ req[w].kbs \subseteq KBs
          BY <2>3, LibraryAssumption DEF Insert, RequestsTypeOK, Requests, FileIds
    <3>2. /\ status' = [status EXCEPT ![f] = IF req[w].kbs = {} THEN "uploaded" ELSE "parsing"]
          /\ links' = links \cup ({f} \X req[w].kbs)
          BY <2>3 DEF Insert
    <3>3. Files \cup {f} \subseteq Files'
          BY <3>1, <3>2 DEF Files, TablesTypeOK
    <3> HIDE DEF f
    <3> QED BY <3>1, <3>2, <3>3
  <2>4. CASE IngestDone(w)
    <3>1. Files \subseteq Files'
          BY <2>4 DEF IngestDone, Files, TablesTypeOK
    <3>2. links' = links
          BY <2>4 DEF IngestDone
    <3> QED BY <3>1, <3>2
  <2>5. CASE Attach(w)
    <3>1. links' \subseteq Files \X KBs
          BY <2>5 DEF Attach
    <3> QED BY <2>5, <3>1 DEF Attach, Files
  <2>6. CASE Detach(w) \/ Reparse(w) \/ PurgeBegin(w) \/ RemoveObject(w) \/ Abort(w)
        BY <2>6, <1>1 DEF Detach, Reparse, PurgeBegin, RemoveObject, Abort, tables
  <2>7. CASE PurgeCommit(w)
    <3> DEFINE f == req[w].file
    <3>1. status' = [status EXCEPT ![f] = "absent"] /\ links' = {l \in links : l[1] # f}
          BY <2>7 DEF PurgeCommit
    <3>2. Files \ {f} \subseteq Files'
          BY <3>1 DEF Files, TablesTypeOK
    <3> HIDE DEF f
    <3> QED BY <3>1, <3>2
  <2> QED BY <1>3, <2>1, <2>2, <2>3, <2>4, <2>5, <2>6, <2>7 DEF Step
<1> QED BY <1>2, <1>3 DEF Next

LEMMA TablesTypeNext ==
    ASSUME ObjectsInv, Next
    PROVE  TablesTypeOK'
<1> USE DEF ObjectsInv, TypeOK, TablesTypeOK, Status
<1> /\ uploads \in Nat /\ MaxUploads \in Nat
    BY LibraryAssumption DEF RequestsTypeOK
<1>1. ASSUME NextMonth \/ DbNextMonth PROVE TablesTypeOK'
      BY <1>1 DEF NextMonth, DbNextMonth, tables
<1>2. ASSUME NEW w \in Workers, Step(w) PROVE TablesTypeOK'
  <2>1. CASE UploadNew(w)
    <3>1. PICK c \in Contents : content' = [content EXCEPT ![uploads + 1] = c]
          BY <2>1 DEF UploadNew
    <3>2. 1 .. uploads \subseteq 1 .. uploads'
          BY <2>1 DEF UploadNew
    <3> QED BY <2>1, <3>1, <3>2 DEF UploadNew
  <2>2. CASE PutObject(w)
        BY <2>2 DEF PutObject, RequestsTypeOK, tables
  <2>3. CASE Insert(w)
    <3>1. PICK m \in MonthsRead(w) : charged' = [charged EXCEPT ![req[w].file] = m]
          BY <2>3 DEF Insert
    <3>2. m \in Months /\ m \in 0 .. MaxMonths /\ req[w].dbMonth \in 0 .. MaxMonths
      <4>1. pc[w] = "inserting" /\ TypeOK
            BY <2>3 DEF Insert
      <4> QED BY <4>1, MonthsReadTyped, LibraryAssumption DEF RequestsTypeOK, Requests, Months
    <3> QED BY <2>3, <3>1, <3>2 DEF Insert
  <2>4. CASE IngestDone(w)
        BY <2>4 DEF IngestDone
  <2>5. CASE PurgeCommit(w)
    <3>1. 0 \in 0 .. MaxMonths
          BY LibraryAssumption
    <3> QED BY <2>5, <3>1 DEF PurgeCommit
  <2>6. CASE RemoveObject(w)
        BY <2>6 DEF RemoveObject, tables
  <2>7. CASE UploadReused(w) \/ Attach(w) \/ Detach(w)
        BY <2>7 DEF UploadReused, Attach, Detach
  <2>8. CASE QuotaPass(w) \/ QuotaExceeded(w) \/ InsertBegin(w) \/ InsertClash(w) \/ IngestRead(w)
             \/ IngestGone(w) \/ Reparse(w) \/ PurgeBegin(w) \/ Abort(w)
        BY <2>8 DEF QuotaPass, QuotaExceeded, InsertBegin, InsertClash, IngestRead, IngestGone, Reparse,
                PurgeBegin, Abort, tables
  <2> QED BY <1>2, <2>1, <2>2, <2>3, <2>4, <2>5, <2>6, <2>7, <2>8 DEF Step
<1> QED BY <1>1, <1>2 DEF Next

---------------------------------------------------------------------------
(***************************************************************************)
(* Raw objects.                                                            *)
(***************************************************************************)
LEMMA ObjectsInit == Init => ObjectsInv
BY TypeInit DEF Init, ObjectsInv, UploadsOwnTheirFile, FilesHaveObjects, Files, Uploading

(* What a step of request w does to the others, when it draws no file and  *)
(* neither inserts nor removes a row or an object.                         *)
LEMMA OwnedKept ==
    ASSUME ObjectsInv, NEW w \in Workers, NEW next \in PCs, NEW r,
           Become(w, next, r), UNCHANGED <<objects, uploads>>, Files' \subseteq Files,
           next \in Uploading => pc[w] \in Uploading /\ r.file = req[w].file,
           next \in {"insert", "inserting"} => pc[w] \in {"insert", "inserting"},
           next = "unlink" => r.file \notin Files',
           next # "idle" => r.file \in Files \/ (r.file = req[w].file /\ pc[w] # "idle")
    PROVE  UploadsOwnTheirFile' /\ FilesHaveObjects'
BY DEF ObjectsInv, TypeOK, RequestsTypeOK, Become, UploadsOwnTheirFile, FilesHaveObjects, Uploading

LEMMA OwnedAbout ==
    ASSUME ObjectsInv, NEW w \in Workers, NEW f \in Files,
           \/ Become(w, "ingest", About(f, {}))
           \/ Become(w, "purge", [About(f, {}) EXCEPT !.month = month]),
           UNCHANGED <<objects, uploads>>, Files' = Files
    PROVE  UploadsOwnTheirFile' /\ FilesHaveObjects'
<1>1. About(f, {}).file = f /\ [About(f, {}) EXCEPT !.month = month].file = f
      BY DEF About
<1>2. PICK next, r : next \in {"ingest", "purge"} /\ Become(w, next, r) /\ r.file = f
      BY <1>1
<1> QED BY <1>2 DEF ObjectsInv, TypeOK, RequestsTypeOK, Become, UploadsOwnTheirFile, FilesHaveObjects, Uploading

LEMMA OwnedStill ==
    ASSUME ObjectsInv, UNCHANGED <<pc, req, objects, uploads>>, Files' = Files
    PROVE  UploadsOwnTheirFile' /\ FilesHaveObjects'
BY DEF ObjectsInv, UploadsOwnTheirFile, FilesHaveObjects

LEMMA GoOnBecomes ==
    ASSUME NEW w \in Workers, NEW next, GoOn(w, next)
    PROVE  \E r : Become(w, next, r) /\ r.file = req[w].file
BY DEF GoOn, About

LEMMA OwnedNext ==
    ASSUME ObjectsInv, Next
    PROVE  UploadsOwnTheirFile' /\ FilesHaveObjects'
<1> DEFINE Goal == UploadsOwnTheirFile' /\ FilesHaveObjects'
<1> TypeOK /\ RequestsTypeOK
    BY DEF ObjectsInv, TypeOK
<1>1. ASSUME UNCHANGED status PROVE Files' = Files
      BY <1>1 DEF Files
<1>2. ASSUME NextMonth \/ DbNextMonth PROVE Goal
      BY <1>1, <1>2, OwnedStill DEF NextMonth, DbNextMonth, tables
<1>3. ASSUME NEW w \in Workers, Step(w) PROVE Goal
  <2> USE DEF PCs, Uploading
  <2>1. CASE UploadReused(w) \/ Detach(w)
        BY <2>1, <1>1, OwnedStill DEF UploadReused, Detach
  <2>2. CASE UploadNew(w)
    <3>1. PICK r : Become(w, "quota", r) /\ r.file = uploads + 1
          BY <2>2 DEF UploadNew, TimedAbout
    <3>2. uploads \in Nat /\ uploads' = uploads + 1 /\ UNCHANGED objects /\ Files' = Files
          BY <2>2, <1>1, LibraryAssumption DEF UploadNew, RequestsTypeOK
    <3>3. \A f \in Files : f # uploads + 1
          BY <3>2 DEF ObjectsInv, FilesHaveObjects, TypeOK, TablesTypeOK
    <3>4. \A v \in Workers : pc[v] # "idle" => req[v].file # uploads + 1
          BY <3>2 DEF RequestsTypeOK
    <3> QED BY <3>1, <3>2, <3>3, <3>4
            DEF ObjectsInv, RequestsTypeOK, UploadsOwnTheirFile, FilesHaveObjects, Become
  <2>3. CASE PutObject(w)
    <3>1. Files' = Files
          BY <2>3, <1>1 DEF PutObject, tables
    <3>2. PICK r : Become(w, "insert", r) /\ r.file = req[w].file
          BY <2>3, GoOnBecomes DEF PutObject
    <3> QED BY <2>3, <3>1, <3>2 DEF PutObject, Become, ObjectsInv, RequestsTypeOK, UploadsOwnTheirFile,
                FilesHaveObjects
  <2>4. CASE Insert(w)
    <3> DEFINE f == req[w].file
    <3>1. Files' \subseteq Files \cup {f}
          BY <2>4 DEF Insert, Files, ObjectsInv, TypeOK, TablesTypeOK
    <3>2. f \in objects /\ UNCHANGED <<objects, uploads>>
          BY <2>4 DEF Insert, ObjectsInv, UploadsOwnTheirFile
    <3>3. PICK next, r : /\ next \in {"idle", "ingest"}
                         /\ Become(w, next, r)
                         /\ next = "ingest" => r.file = req[w].file
          BY <2>4, GoOnBecomes DEF Insert, EndRequest
    <3>4. \A v \in Workers \ {w} : pc[v] # "idle" => req[v].file # f
          BY <2>4 DEF Insert, ObjectsInv, UploadsOwnTheirFile
    <3>5. \A v \in Workers : /\ pc'[v] = (IF v = w THEN next ELSE pc[v])
                             /\ v # w => req'[v] = req[v]
          BY <3>3 DEF RequestsTypeOK, Become
    <3>6. \A v \in Workers : pc'[v] \notin {"idle", "ingest"} => v # w
          BY <3>3, <3>5
    <3>7. ASSUME NEW v \in Workers, pc'[v] \in Uploading, NEW u \in Workers \ {v}, pc'[u] # "idle"
          PROVE  req'[u].file # req'[v].file
      <4>1. v # w /\ pc[v] \in Uploading /\ req'[v] = req[v]
            BY <3>5, <3>6, <3>7
      <4>2. CASE u = w
        <5>1. req'[u].file = req[w].file
              BY <3>3, <3>5, <3>7, <4>2 DEF Become, RequestsTypeOK
        <5> QED BY <3>4, <4>1, <5>1
      <4>3. CASE u # w
        <5>1. pc[u] # "idle" /\ req'[u] = req[u]
              BY <3>5, <3>7, <4>3
        <5> QED BY <3>7, <4>1, <5>1 DEF ObjectsInv, UploadsOwnTheirFile
      <4> QED BY <4>2, <4>3
    <3> HIDE DEF f
    <3>8. UploadsOwnTheirFile'
          BY <3>1, <3>2, <3>4, <3>5, <3>6, <3>7 DEF ObjectsInv, UploadsOwnTheirFile
    <3> QED BY <3>1, <3>2, <3>8 DEF ObjectsInv, FilesHaveObjects
  <2>5. CASE QuotaPass(w) \/ IngestRead(w)
    <3>1. Files' = Files
          BY <2>5, <1>1 DEF QuotaPass, IngestRead, tables
    <3>2. PICK next, r : /\ next \in {"put", "indexing"} /\ Become(w, next, r)
                         /\ r.file = req[w].file
                         /\ next = "put" => pc[w] = "quota"
          BY <2>5, GoOnBecomes DEF QuotaPass, IngestRead
    <3>3. pc[w] # "idle" /\ UNCHANGED <<objects, uploads>>
          BY <2>5 DEF QuotaPass, IngestRead
    <3> QED BY <3>1, <3>2, <3>3, OwnedKept
  <2>11. CASE InsertBegin(w)
    <3>1. Files' = Files /\ UNCHANGED <<objects, uploads>> /\ pc[w] = "insert"
          BY <2>11, <1>1 DEF InsertBegin, tables
    <3>2. PICK r : Become(w, "inserting", r) /\ r.file = req[w].file
          BY <2>11 DEF InsertBegin, TimedAbout
    <3> QED BY <3>1, <3>2, OwnedKept
  <2>6. CASE QuotaExceeded(w) \/ InsertClash(w) \/ IngestGone(w) \/ IngestDone(w) \/ Abort(w)
    <3>1. Files' \subseteq Files
          BY <2>6, <1>1 DEF QuotaExceeded, InsertClash, IngestGone, IngestDone, Abort, tables, Files,
                ObjectsInv, TypeOK, TablesTypeOK
    <3> QED BY <2>6, <3>1, OwnedKept
            DEF QuotaExceeded, InsertClash, IngestGone, IngestDone, Abort, EndRequest
  <2>7. CASE Attach(w)
    <3>1. Files' = Files /\ UNCHANGED <<objects, uploads>>
          BY <2>7, <1>1 DEF Attach
    <3>2. CASE UNCHANGED <<pc, req>>
          BY <3>1, <3>2, OwnedStill
    <3>3. CASE \E f \in Files : Become(w, "ingest", About(f, {}))
          BY <3>1, <3>3, OwnedAbout
    <3> QED BY <2>7, <3>2, <3>3 DEF Attach
  <2>8. CASE Reparse(w) \/ PurgeBegin(w)
    <3>1. Files' = Files /\ UNCHANGED <<objects, uploads>>
          BY <2>8, <1>1 DEF Reparse, PurgeBegin, tables
    <3> QED BY <2>8, <3>1, OwnedAbout DEF Reparse, PurgeBegin
  <2>9. CASE PurgeCommit(w)
    <3>1. Files' \subseteq Files /\ req[w].file \notin Files'
          BY <2>9 DEF PurgeCommit, Files, ObjectsInv, TypeOK, TablesTypeOK
    <3>2. PICK r : Become(w, "unlink", r) /\ r.file = req[w].file
          BY <2>9, GoOnBecomes DEF PurgeCommit
    <3>3. pc[w] # "idle" /\ UNCHANGED <<objects, uploads>>
          BY <2>9 DEF PurgeCommit
    <3> QED BY <3>1, <3>2, <3>3, OwnedKept
  <2>10. CASE RemoveObject(w)
    <3>1. Files' = Files
          BY <2>10, <1>1 DEF RemoveObject, tables
    <3> QED BY <2>10, <3>1 DEF RemoveObject, EndRequest, Become, ObjectsInv, RequestsTypeOK,
                UploadsOwnTheirFile, FilesHaveObjects
  <2> QED BY <1>3, <2>1, <2>2, <2>3, <2>4, <2>5, <2>6, <2>7, <2>8, <2>9, <2>10, <2>11 DEF Step
<1> QED BY <1>2, <1>3 DEF Next

LEMMA ObjectsStutter ==
    ASSUME ObjectsInv, UNCHANGED libVars
    PROVE  ObjectsInv'
BY DEF ObjectsInv, TypeOK, TablesTypeOK, UsageTypeOK, RequestsTypeOK, LinksTypeOK,
       UploadsOwnTheirFile, FilesHaveObjects, Files, libVars, tables

LEMMA ObjectsAlways == Spec => []ObjectsInv
<1>1. ASSUME ObjectsInv, [Next]_libVars PROVE ObjectsInv'
  <2>1. CASE Next
    <3>1. TypeOK'
          BY <1>1, <2>1, UsageTypeNext, RequestsTypeNext, LinksTypeNext, TablesTypeNext
          DEF ObjectsInv, TypeOK
    <3> QED BY <1>1, <2>1, <3>1, OwnedNext DEF ObjectsInv
  <2> QED BY <1>1, <2>1, ObjectsStutter
<1> QED BY ObjectsInit, <1>1, PTL DEF Spec

(* Every reachable state is well typed: the counters never go below zero   *)
(* (quota.py:81) and no link outlives its file (schema.sql:95).            *)
THEOREM LibraryTypeCorrect == Spec => []TypeOK
<1>1. ObjectsInv => TypeOK
      BY DEF ObjectsInv
<1> QED BY <1>1, ObjectsAlways, PTL

(* Every file has its raw object, whatever uploads, deletions and deaths   *)
(* overlap (docs.py:97-122, file_store.py:42-46).                          *)
THEOREM RawObjectsKept == Spec => []FilesHaveObjects
<1>1. ObjectsInv => FilesHaveObjects
      BY DEF ObjectsInv
<1> QED BY <1>1, ObjectsAlways, PTL

---------------------------------------------------------------------------
(***************************************************************************)
(* The quota.                                                              *)
(***************************************************************************)
LEMMA MeteredKept ==
    ASSUME TypeOK, MeteredInTime, UNCHANGED <<metered, usage, month>>, NEW w \in Workers, NEW next, NEW r,
           Become(w, next, r), r.month <= month
    PROVE  MeteredInTime'
BY DEF MeteredInTime, Become, TypeOK, RequestsTypeOK

LEMMA MeteredStill ==
    ASSUME MeteredInTime, UNCHANGED <<metered, usage, month, req>>
    PROVE  MeteredInTime'
BY DEF MeteredInTime

(* A transaction that counts in a month it has read.                       *)
LEMMA MeteredMeter ==
    ASSUME TypeOK, MeteredInTime, NEW w \in Workers, NEW next, NEW r, Become(w, next, r), r.month <= month,
           NEW m \in Months, m <= month, metered' = metered \cup {m}, month' = month,
           \A k \in Months \ {m} : usage'[k] = usage[k]
    PROVE  MeteredInTime'
BY DEF MeteredInTime, Become, TypeOK, RequestsTypeOK

LEMMA NoClockRead ==
    ASSUME TypeOK, NEW w \in Workers, NEW next
    PROVE  /\ EndRequest(w) => \E n, r : Become(w, n, r) /\ r.month <= month
           /\ GoOn(w, next) => \E r : Become(w, next, r) /\ r.month <= month
<1>1. 0 <= month
      BY LibraryAssumption DEF TypeOK, UsageTypeOK, Months
<1>2. NoRequest.month <= month /\ About(req[w].file, req[w].kbs).month <= month
      BY <1>1 DEF NoRequest, About
<1> QED BY <1>2 DEF EndRequest, GoOn

LEMMA MeteredNext ==
    ASSUME ObjectsInv, MeteredInTime, Next
    PROVE  MeteredInTime'
<1> USE DEF ObjectsInv, TypeOK
<1>0. /\ month \in Nat /\ 0 <= month /\ month <= month
      /\ \A m \in metered : m \in Nat
      /\ \A w \in Workers : req[w].month \in Nat
      BY LibraryAssumption DEF UsageTypeOK, RequestsTypeOK, Requests, Months
<1>1. ASSUME NextMonth \/ DbNextMonth PROVE MeteredInTime'
  <2>1. UNCHANGED <<metered, usage, req>> /\ month' \in {month, month + 1}
        BY <1>1 DEF NextMonth, DbNextMonth, tables
  <2> QED BY <1>0, <2>1 DEF MeteredInTime
<1>2. ASSUME NEW w \in Workers, Insert(w) PROVE MeteredInTime'
  <2>1. PICK m \in MonthsRead(w) : MeterIngest(m, Size[content[req[w].file]])
        BY <1>2 DEF Insert
  <2>2. /\ m \in Months /\ m <= month
        /\ TypeOK /\ month' = month
        BY <1>2, MonthsReadTyped DEF Insert
  <2>3. /\ metered' = metered \cup {m}
        /\ \A k \in Months \ {m} : usage'[k] = usage[k]
        BY <2>1, <2>2 DEF MeterIngest, UsageTypeOK
  <2>4. PICK next, r : Become(w, next, r) /\ r.month <= month
        BY <1>2, <2>2, NoClockRead DEF Insert
  <2> QED BY <2>2, <2>3, <2>4, MeteredMeter
<1>3. ASSUME NEW w \in Workers, PurgeCommit(w) PROVE MeteredInTime'
  <2>1. PICK m \in MonthsRead(w) : MeterDelete(m, Size[content[req[w].file]])
        BY <1>3 DEF PurgeCommit
  <2>2. /\ m \in Months /\ m <= month
        /\ TypeOK /\ month' = month
        BY <1>3, MonthsReadTyped DEF PurgeCommit
  <2>3. /\ metered' = metered \cup {m}
        /\ \A k \in Months \ {m} : usage'[k] = usage[k]
        BY <2>1, <2>2 DEF MeterDelete, UsageTypeOK
  <2>4. PICK next, r : Become(w, next, r) /\ r.month <= month
        BY <1>3, <2>2, NoClockRead DEF PurgeCommit
  <2> QED BY <2>2, <2>3, <2>4, MeteredMeter
<1>4. ASSUME NEW w \in Workers, Step(w), ~Insert(w), ~PurgeCommit(w)
      PROVE  MeteredInTime'
  <2>1. UNCHANGED <<metered, usage, month>>
        BY <1>4 DEF Step, UploadReused, UploadNew, QuotaPass, QuotaExceeded, PutObject,
                InsertBegin, InsertClash, IngestRead, IngestGone, IngestDone, Attach, Detach, Reparse,
                PurgeBegin, RemoveObject, Abort, tables
  <2>2. CASE UNCHANGED req
        BY <2>1, <2>2, MeteredStill
  <2>3. CASE req' # req
    <3>1. CASE UploadNew(w) \/ InsertBegin(w)
      <4>1. \E next, f, kbs : Become(w, next, TimedAbout(f, kbs))
            BY <3>1 DEF UploadNew, InsertBegin
      <4>2. \A f, kbs : TimedAbout(f, kbs).month = month
            BY DEF TimedAbout
      <4>3. \E next, r : Become(w, next, r) /\ r.month = month
            BY <4>1, <4>2
      <4> QED BY <1>0, <2>1, <4>3, MeteredKept
    <3>2. CASE Attach(w) \/ Reparse(w) \/ PurgeBegin(w)
      <4>1. \E next, f : \/ Become(w, next, About(f, {}))
                        \/ Become(w, next, [About(f, {}) EXCEPT !.month = month])
            BY <2>3, <3>2 DEF Attach, Reparse, PurgeBegin
      <4>2. \A f : /\ About(f, {}).month = 0
                  /\ [About(f, {}) EXCEPT !.month = month].month = month
            BY DEF About
      <4>3. \E next, r : Become(w, next, r) /\ r.month \in {0, month}
            BY <4>1, <4>2
      <4> QED BY <1>0, <2>1, <4>3, MeteredKept
    <3>3. CASE QuotaPass(w) \/ PutObject(w) \/ IngestRead(w)
      <4>1. \E next, r : Become(w, next, r) /\ r.month <= month
            BY <3>3, NoClockRead DEF QuotaPass, PutObject, IngestRead
      <4> QED BY <2>1, <4>1, MeteredKept
    <3>4. CASE \/ QuotaExceeded(w) \/ InsertClash(w) \/ IngestGone(w) \/ IngestDone(w)
               \/ RemoveObject(w) \/ Abort(w)
      <4>1. \E next, r : Become(w, next, r) /\ r.month <= month
            BY <3>4, NoClockRead
            DEF QuotaExceeded, InsertClash, IngestGone, IngestDone, RemoveObject, Abort
      <4> QED BY <2>1, <4>1, MeteredKept
    <3>5. CASE UploadReused(w) \/ Detach(w)
          BY <2>3, <3>5 DEF UploadReused, Detach
    <3> QED BY <1>4, <3>1, <3>2, <3>3, <3>4, <3>5 DEF Step
  <2> QED BY <2>2, <2>3
<1> QED BY <1>1, <1>2, <1>3, <1>4 DEF Next

(* The uploads that can still add to the counter of the current month      *)
(* without another look at it.                                             *)
Coming == Unmetered \cup Unchecked

LEMMA UnmeteredFinite ==
    ASSUME NEW S, S \subseteq Workers
    PROVE  IsFiniteSet(S) /\ Cardinality(S) \in Nat /\ Cardinality(S) <= Cardinality(Workers)
BY LibraryAssumption, FS_Subset, FS_CardinalityType

(* A step that adds neither to the counter nor to those still to be        *)
(* counted.                                                                *)
LEMMA OvershootKept ==
    ASSUME ObjectsInv, ObjectsInv', OvershootOfAllBounded,
           Coming' \subseteq Coming, usage'[month'].docs <= usage[month].docs
    PROVE  OvershootOfAllBounded'
<1>1. /\ Coming \subseteq Workers
      /\ IsFiniteSet(Coming)
      BY UnmeteredFinite DEF Coming, Unmetered, Unchecked
<1>2. /\ Cardinality(Coming') \in Nat /\ Cardinality(Coming) \in Nat
      /\ Cardinality(Coming') <= Cardinality(Coming)
      BY <1>1, FS_Subset, FS_CardinalityType
<1>3. usage[month].docs \in Nat /\ usage'[month'].docs \in Nat /\ Cardinality(Workers) \in Nat
      BY LibraryAssumption, FS_CardinalityType DEF ObjectsInv, TypeOK, UsageTypeOK
<1>4. /\ MaxDocs # 0 => usage[month].docs + Cardinality(Coming) <= MaxDocs - 1 + Cardinality(Workers)
      /\ MaxDocs \in Nat
      BY LibraryAssumption DEF OvershootOfAllBounded, Coming
<1>5. MaxDocs # 0 => usage'[month'].docs + Cardinality(Coming') <= MaxDocs - 1 + Cardinality(Workers)
      BY <1>2, <1>3, <1>4
<1> QED BY <1>5 DEF OvershootOfAllBounded, Coming

LEMMA Room ==
    ASSUME NEW n \in Nat, NEW p \in Nat, NEW all \in Nat, NEW max \in Nat,
           n + 1 <= max, p <= all
    PROVE  n + p <= max - 1 + all
<1>1. n <= max - 1
      OBVIOUS
<1>2. max - 1 \in Int /\ n \in Int
      OBVIOUS
<1> QED BY <1>1, <1>2

LEMMA Settled ==
    ASSUME NEW n \in Nat, NEW p \in Nat, NEW max \in Int, NEW m \in Nat, NEW q \in Nat,
           n + p <= max, m = n + 1 \/ m = n, q = p - 1
    PROVE  m + q <= max
<1>1. m <= n + 1
      OBVIOUS
<1>2. m + q <= n + 1 + (p - 1)
      BY <1>1
<1> QED BY <1>2

LEMMA OvershootNext ==
    ASSUME ObjectsInv, ObjectsInv', MeteredInTime, MeteredInTime', OvershootOfAllBounded, Next
    PROVE  OvershootOfAllBounded'
<1> DEFINE n == usage[month].docs
           p == Cardinality(Coming)
           all == Cardinality(Workers)
           Goal == OvershootOfAllBounded'
<1>1. /\ n \in Nat /\ n' \in Nat /\ all \in Nat
      /\ p \in Nat /\ p' \in Nat /\ p <= all /\ p' <= all
      /\ IsFiniteSet(Coming) /\ MaxDocs \in Nat
  <2>1. Coming \subseteq Workers /\ Coming' \subseteq Workers
        BY DEF Coming, Unmetered, Unchecked
  <2> QED BY <2>1, UnmeteredFinite, LibraryAssumption DEF ObjectsInv, TypeOK, UsageTypeOK
<1>2. MaxDocs # 0 => n + p <= MaxDocs - 1 + all
      BY DEF OvershootOfAllBounded, Coming
<1>3. (MaxDocs # 0 => n' + p' <= MaxDocs - 1 + all) => Goal
      BY DEF OvershootOfAllBounded, Coming
<1>4. (MaxDocs # 0 => n' + 1 <= MaxDocs) => Goal
  <2> SUFFICES ASSUME MaxDocs # 0 => n' + 1 <= MaxDocs PROVE MaxDocs # 0 => n' + p' <= MaxDocs - 1 + all
      BY <1>3
  <2> HIDE DEF n, p, all
  <2> QED BY <1>1, Room
<1>5. /\ \A w \in Workers : req[w].month \in Nat /\ req[w].month <= month
      /\ month \in Nat
      BY LibraryAssumption DEF MeteredInTime, ObjectsInv, TypeOK, UsageTypeOK, RequestsTypeOK, Requests, Months
<1>6. ASSUME NextMonth PROVE Goal
  <2>1. month' \notin metered' /\ month' \in Months
        BY <1>6, LibraryAssumption DEF NextMonth, tables, MeteredInTime, ObjectsInv, TypeOK,
                UsageTypeOK, Months
  <2>2. n' = 0
        BY <2>1 DEF MeteredInTime
  <2> HIDE DEF n, Goal
  <2> QED BY <1>1, <1>4, <2>2
<1>7. ASSUME DbNextMonth PROVE Goal
      BY <1>7 DEF DbNextMonth, tables, OvershootOfAllBounded, Unmetered, Unchecked
<1>8. ASSUME NEW w \in Workers, QuotaPass(w) PROVE Goal
  <2>1. n' = n /\ UNCHANGED month
        BY <1>8 DEF QuotaPass, tables
  <2>2. CASE req[w].month < month
    <3>1. Coming' \subseteq Coming
      <4>1. w \in Coming /\ \A v \in Workers \ {w} : pc'[v] = pc[v] /\ req'[v] = req[v]
            BY <1>8, <2>2 DEF QuotaPass, GoOn, Become, Coming, Unchecked, ObjectsInv, TypeOK, RequestsTypeOK
      <4> QED BY <2>1, <4>1 DEF Coming, Unmetered, Unchecked
    <3> QED BY <1>1, <2>1, <3>1, OvershootKept
  <2>3. CASE ~(req[w].month < month)
    <3>1. PICK d \in DbMonthsRead(w) : CheckQuota(month, d, Size[content[req[w].file]])
      <4>1. PICK m \in MonthsRead(w), d \in DbMonthsRead(w) : CheckQuota(m, d, Size[content[req[w].file]])
            BY <1>8 DEF QuotaPass
      <4>2. m = month
            BY <1>5, <2>3, <4>1 DEF MonthsRead
      <4> QED BY <4>1, <4>2
    <3>2. month \notin metered => n = 0
          BY DEF MeteredInTime, ObjectsInv, TypeOK, UsageTypeOK
    <3>3. MaxDocs # 0 => n + 1 <= MaxDocs
      <4>1. CASE month \in metered
            BY <3>1, <4>1 DEF CheckQuota, GetUsage
      <4>2. CASE month \notin metered
        <5>1. n = 0
              BY <3>2, <4>2
        <5> HIDE DEF n
        <5> QED BY <1>1, <5>1
      <4> QED BY <4>1, <4>2
    <3> QED BY <1>4, <2>1, <3>3
  <2> QED BY <2>2, <2>3
<1>9. ASSUME NEW w \in Workers, Insert(w) PROVE Goal
  <2>1. n' = n + 1 \/ n' = n
    <3>1. PICK m \in MonthsRead(w) : MeterIngest(m, Size[content[req[w].file]])
          BY <1>9 DEF Insert
    <3> QED BY <1>9, <3>1 DEF Insert, MeterIngest, ObjectsInv, TypeOK, UsageTypeOK
  <2>2. Coming' = Coming \ {w} /\ w \in Coming
    <3>1. PICK next, r : Become(w, next, r) /\ next \in {"idle", "ingest"}
          BY <1>9 DEF Insert, EndRequest, GoOn
    <3>2. pc[w] = "inserting" /\ UNCHANGED month
          BY <1>9 DEF Insert
    <3>3. /\ pc'[w] = next
          /\ \A v \in Workers \ {w} : pc'[v] = pc[v] /\ req'[v] = req[v]
          BY <3>1 DEF Become, ObjectsInv, TypeOK, RequestsTypeOK
    <3> QED BY <3>1, <3>2, <3>3 DEF Coming, Unmetered, Unchecked
  <2>3. p' = p - 1
        BY <1>1, <2>2, FS_RemoveElement
  <2> HIDE DEF n, p, all, Goal
  <2>4. MaxDocs # 0 => n' + p' <= MaxDocs - 1 + all
    <3> SUFFICES ASSUME MaxDocs # 0 PROVE n' + p' <= MaxDocs - 1 + all
        OBVIOUS
    <3>1. PICK max \in Int : max = MaxDocs - 1 + all
          BY <1>1
    <3>2. n + p <= max
          BY <1>1, <1>2, <3>1
    <3>3. PICK k, l, i, j : k = n /\ l = p /\ i = n' /\ j = p'
          OBVIOUS
    <3>4. /\ k \in Nat /\ l \in Nat /\ i \in Nat /\ j \in Nat
          /\ k + l <= max /\ (i = k + 1 \/ i = k) /\ j = l - 1
          BY <1>1, <2>1, <2>3, <3>2, <3>3
    <3>5. i + j <= max
          BY <3>4, Settled
    <3>6. n' + p' <= max
          BY <3>3, <3>5
    <3> QED BY <3>1, <3>6
  <2> QED BY <1>3, <2>4
<1>10. ASSUME NEW w \in Workers, PurgeCommit(w) PROVE Goal
  <2>1. n' <= n
    <3>1. PICK m \in MonthsRead(w) : MeterDelete(m, Size[content[req[w].file]])
          BY <1>10 DEF PurgeCommit
    <3>2. n' = Less(n, 1) \/ n' = n
          BY <1>10, <3>1 DEF PurgeCommit, MeterDelete, ObjectsInv, TypeOK, UsageTypeOK
    <3> HIDE DEF n
    <3> QED BY <1>1, <3>2 DEF Less
  <2>2. Coming' \subseteq Coming
        BY <1>10 DEF PurgeCommit, Coming, Unmetered, Unchecked, GoOn, Become, ObjectsInv, TypeOK, RequestsTypeOK
  <2> QED BY <2>1, <2>2, OvershootKept
<1>11. ASSUME NEW w \in Workers, Step(w), ~QuotaPass(w), ~Insert(w), ~PurgeCommit(w)
      PROVE  Goal
  <2>1. n' = n /\ UNCHANGED month
        BY <1>11 DEF Step, UploadReused, UploadNew, QuotaExceeded, PutObject,
                InsertBegin, InsertClash, IngestRead, IngestGone, IngestDone, Attach, Detach, Reparse,
                PurgeBegin, RemoveObject, Abort, tables
  <2>2. Coming' \subseteq Coming
    <3>1. CASE PutObject(w) \/ InsertBegin(w)
      <4>1. PICK next, r : /\ next \in {"insert", "inserting"} /\ Become(w, next, r)
                           /\ pc[w] \in {"put", "insert"}
            BY <3>1 DEF PutObject, InsertBegin, GoOn
      <4> QED BY <2>1, <4>1 DEF Become, Coming, Unmetered, Unchecked, ObjectsInv, TypeOK, RequestsTypeOK
    <3>2. CASE UploadReused(w) \/ Detach(w)
          BY <3>2 DEF UploadReused, Detach, Coming, Unmetered, Unchecked
    <3>3. CASE UploadNew(w)
      <4>1. PICK r : Become(w, "quota", r) /\ r.month = month
            BY <3>3 DEF UploadNew, TimedAbout
      <4> QED BY <1>5, <2>1, <4>1 DEF Become, Coming, Unmetered, Unchecked, ObjectsInv, TypeOK, RequestsTypeOK
    <3>4. CASE QuotaExceeded(w) \/ InsertClash(w) \/ IngestRead(w) \/ IngestGone(w)
               \/ IngestDone(w) \/ Attach(w) \/ Reparse(w) \/ PurgeBegin(w) \/ RemoveObject(w)
               \/ Abort(w)
      <4>1. \/ UNCHANGED <<pc, req>>
            \/ \E next, r : Become(w, next, r) /\ next \in {"idle", "ingest", "indexing", "purge"}
            BY <3>4 DEF QuotaExceeded, InsertClash, IngestRead, IngestGone, IngestDone,
                    Attach, Reparse, PurgeBegin, RemoveObject, Abort, EndRequest, GoOn
      <4> QED BY <2>1, <4>1 DEF Become, Coming, Unmetered, Unchecked, ObjectsInv, TypeOK, RequestsTypeOK
    <3> QED BY <1>11, <3>1, <3>2, <3>3, <3>4 DEF Step
  <2> QED BY <1>1, <2>1, <2>2, OvershootKept
<1> QED BY <1>6, <1>7, <1>8, <1>9, <1>10, <1>11 DEF Next

LEMMA QuotaInit == Init => MeteredInTime /\ OvershootOfAllBounded
<1> SUFFICES ASSUME Init PROVE MeteredInTime /\ OvershootOfAllBounded
    OBVIOUS
<1>1. Unmetered \cup Unchecked = {} /\ usage[month].docs = 0
      BY LibraryAssumption DEF Init, Unmetered, Unchecked, Months
<1>2. MeteredInTime
      BY DEF Init, MeteredInTime, NoRequest, About
<1>3. Cardinality(Unmetered \cup Unchecked) = 0
      BY <1>1, FS_EmptySet
<1>4. Cardinality(Workers) \in Nat /\ Cardinality(Workers) # 0
      BY LibraryAssumption, FS_CardinalityType, FS_EmptySet
<1>5. OvershootOfAllBounded
      BY <1>1, <1>3, <1>4, LibraryAssumption DEF OvershootOfAllBounded
<1> QED BY <1>2, <1>5

LEMMA QuotaStutter ==
    ASSUME MeteredInTime, OvershootOfAllBounded, UNCHANGED libVars
    PROVE  MeteredInTime' /\ OvershootOfAllBounded'
BY DEF MeteredInTime, OvershootOfAllBounded, Unmetered, Unchecked, libVars, tables

LEMMA OvershootOfSome ==
    ASSUME TypeOK, OvershootOfAllBounded
    PROVE  OvershootBounded
<1>1. /\ Unmetered \cup Unchecked \subseteq Workers
      /\ Unmetered \subseteq Unmetered \cup Unchecked
      BY DEF Unmetered, Unchecked
<1>2. IsFiniteSet(Unmetered \cup Unchecked)
      BY <1>1, UnmeteredFinite
<1>3. /\ Cardinality(Unmetered) \in Nat /\ Cardinality(Unmetered \cup Unchecked) \in Nat
      /\ Cardinality(Unmetered) <= Cardinality(Unmetered \cup Unchecked)
      BY <1>1, <1>2, FS_Subset, FS_CardinalityType
<1>4. usage[month].docs \in Nat /\ Cardinality(Workers) \in Nat /\ MaxDocs \in Nat
      BY LibraryAssumption, FS_CardinalityType DEF TypeOK, UsageTypeOK
<1> QED BY <1>3, <1>4 DEF OvershootBounded, OvershootOfAllBounded

(* However many uploads run at a time, whatever is deleted meanwhile and   *)
(* whatever month each takes it to be, the documents counted in a month    *)
(* and those about to be counted exceed the quota by less than the number  *)
(* of threads (docs.py:91, docs.py:122).                                   *)
THEOREM OvershootIsBounded == Spec => []OvershootBounded
<1>1. ASSUME ObjectsInv, ObjectsInv', MeteredInTime, OvershootOfAllBounded, [Next]_libVars
      PROVE  MeteredInTime' /\ OvershootOfAllBounded'
  <2>1. CASE Next
    <3>1. MeteredInTime'
          BY <1>1, <2>1, MeteredNext
    <3> QED BY <1>1, <2>1, <3>1, OvershootNext
  <2> QED BY <1>1, <2>1, QuotaStutter
<1>2. ObjectsInv /\ OvershootOfAllBounded => OvershootBounded
      BY OvershootOfSome DEF ObjectsInv
<1> QED BY QuotaInit, ObjectsAlways, <1>1, <1>2, PTL DEF Spec

(* A step of one thread leaves a file parsing only if that thread ingests  *)
(* it, or did not before: then it is another's.                            *)
LEMMA ParsingKept ==
    ASSUME ParsingIsInProgress, NEW w \in Workers,
           faults' = 0 => faults = 0,
           \A v \in Workers \ {w} : pc'[v] = pc[v] /\ req'[v] = req[v],
           faults' = 0 => \A f \in Files' : status'[f] = "parsing" =>
              \/ pc'[w] \in {"ingest", "indexing"} /\ req'[w].file = f
              \/ /\ f \in Files /\ status[f] = "parsing"
                 /\ ~(pc[w] \in {"ingest", "indexing"} /\ req[w].file = f)
    PROVE  ParsingIsInProgress'
BY DEF ParsingIsInProgress

LEMMA ParsingNext ==
    ASSUME ObjectsInv, ParsingIsInProgress, Next
    PROVE  ParsingIsInProgress'
<1> USE DEF ObjectsInv, TypeOK, RequestsTypeOK, TablesTypeOK, Files
<1>1. ASSUME NextMonth \/ DbNextMonth PROVE ParsingIsInProgress'
      BY <1>1 DEF NextMonth, DbNextMonth, tables, ParsingIsInProgress
<1>2. ASSUME NEW w \in Workers, Step(w) PROVE ParsingIsInProgress'
  <2>1. CASE UploadReused(w) \/ Detach(w)
        BY <2>1 DEF UploadReused, Detach, ParsingIsInProgress
  <2>2. CASE UploadNew(w) \/ Attach(w) \/ Reparse(w) \/ PurgeBegin(w)
    <3>1. pc[w] = "idle" /\ UNCHANGED <<status, faults>>
          BY <2>2 DEF UploadNew, Attach, Reparse, PurgeBegin, tables
    <3>2. \A v \in Workers \ {w} : pc'[v] = pc[v] /\ req'[v] = req[v]
          BY <2>2 DEF UploadNew, Attach, Reparse, PurgeBegin, Become
    <3> QED BY <3>1, <3>2, ParsingKept
  <2>3. CASE QuotaPass(w) \/ QuotaExceeded(w) \/ PutObject(w) \/ InsertBegin(w) \/ InsertClash(w) \/ RemoveObject(w)
    <3>1. pc[w] \notin {"ingest", "indexing"} /\ UNCHANGED <<status, faults>>
          BY <2>3 DEF QuotaPass, QuotaExceeded, PutObject, InsertBegin, InsertClash, RemoveObject, tables
    <3>2. \A v \in Workers \ {w} : pc'[v] = pc[v] /\ req'[v] = req[v]
          BY <2>3 DEF QuotaPass, QuotaExceeded, PutObject, InsertBegin, InsertClash, RemoveObject,
                  GoOn, EndRequest, Become
    <3> QED BY <3>1, <3>2, ParsingKept
  <2>4. CASE Insert(w)
    <3> DEFINE f == req[w].file
    <3>1. /\ pc[w] = "inserting" /\ faults' = faults
          /\ status' = [status EXCEPT ![f] = IF req[w].kbs = {} THEN "uploaded" ELSE "parsing"]
          /\ IF req[w].kbs = {} THEN EndRequest(w) ELSE GoOn(w, "ingest")
          BY <2>4 DEF Insert
    <3>2. \A v \in Workers \ {w} : pc'[v] = pc[v] /\ req'[v] = req[v]
          BY <3>1 DEF GoOn, EndRequest, Become
    <3>3. status'[f] = "parsing" => pc'[w] = "ingest" /\ req'[w].file = f
      <4>1. CASE req[w].kbs = {}
        <5>1. f \in FileIds
              BY <3>1, LibraryAssumption DEF FileIds, Requests
        <5> QED BY <3>1, <4>1, <5>1
      <4>2. CASE req[w].kbs # {}
            BY <3>1, <4>2 DEF GoOn, Become, About
      <4> QED BY <4>1, <4>2
    <3>4. \A g \in FileIds \ {f} : status'[g] = status[g]
          BY <3>1
    <3> QED BY <3>1, <3>2, <3>3, <3>4, ParsingKept
  <2>5. CASE IngestRead(w)
    <3>1. /\ pc'[w] = "indexing" /\ req'[w].file = req[w].file /\ UNCHANGED <<status, faults>>
          /\ \A v \in Workers \ {w} : pc'[v] = pc[v] /\ req'[v] = req[v]
          BY <2>5 DEF IngestRead, GoOn, Become, About, tables
    <3> QED BY <3>1, ParsingKept
  <2>6. CASE IngestGone(w)
    <3>1. req[w].file \notin Files /\ UNCHANGED <<status, faults>>
          BY <2>6 DEF IngestGone, FilesHaveObjects, tables
    <3>2. \A v \in Workers \ {w} : pc'[v] = pc[v] /\ req'[v] = req[v]
          BY <2>6 DEF IngestGone, EndRequest, Become
    <3> QED BY <3>1, <3>2, ParsingKept
  <2>7. CASE IngestDone(w)
    <3> DEFINE f == req[w].file
    <3>1. /\ faults' = faults
          /\ status' = IF f \in Files THEN [status EXCEPT ![f] = "ready"] ELSE status
          BY <2>7 DEF IngestDone
    <3>2. \A v \in Workers \ {w} : pc'[v] = pc[v] /\ req'[v] = req[v]
          BY <2>7 DEF IngestDone, EndRequest, Become
    <3>3. \A g \in Files' : status'[g] = "parsing" => g # f /\ g \in Files /\ status[g] = "parsing"
          BY <3>1
    <3> QED BY <3>1, <3>2, <3>3, ParsingKept
  <2>8. CASE PurgeCommit(w)
    <3> DEFINE f == req[w].file
    <3>1. /\ pc[w] = "purge" /\ faults' = faults
          /\ status' = [status EXCEPT ![f] = "absent"]
          BY <2>8 DEF PurgeCommit
    <3>2. \A v \in Workers \ {w} : pc'[v] = pc[v] /\ req'[v] = req[v]
          BY <2>8 DEF PurgeCommit, GoOn, Become
    <3>3. \A g \in Files' : status'[g] = "parsing" => g \in Files /\ status[g] = "parsing"
          BY <3>1
    <3> QED BY <3>1, <3>2, <3>3, ParsingKept
  <2>9. CASE Abort(w)
    <3>1. faults' # 0
          BY <2>9 DEF Abort
    <3> QED BY <3>1 DEF ParsingIsInProgress
  <2> QED BY <1>2, <2>1, <2>2, <2>3, <2>4, <2>5, <2>6, <2>7, <2>8, <2>9 DEF Step
<1> QED BY <1>1, <1>2 DEF Next

(* For any number of threads, a file that says "parsing" is being ingested *)
(* or its request has failed: no other request's ending, deletion or       *)
(* re-parse takes the ingest away from it (docs.py:104, pipeline.py:291).  *)
THEOREM ParsingEnds == Spec => []ParsingIsInProgress
<1>1. Init => ParsingIsInProgress
      BY DEF Init, ParsingIsInProgress, Files
<1>2. ASSUME ObjectsInv, ParsingIsInProgress, [Next]_libVars
      PROVE  ParsingIsInProgress'
  <2>1. CASE Next
        BY <1>2, <2>1, ParsingNext
  <2>2. CASE UNCHANGED libVars
        BY <1>2, <2>2 DEF libVars, tables, ParsingIsInProgress, Files
  <2> QED BY <1>2, <2>1, <2>2
<1> QED BY <1>1, <1>2, ObjectsAlways, PTL DEF Spec
---------------------------------------------------------------------------
(***************************************************************************)
(* Induction on the size of a set, and what the sizes of files add up to.  *)
(***************************************************************************)
LEMMA LeastNumber ==
    ASSUME NEW T, T \subseteq Nat, T # {}
    PROVE  \E x \in T : \A y \in T : x <= y
<1>1. PICK R : R = OpToRel(<, Nat)
      OBVIOUS
<1>2. IsWellFoundedOn(R, Nat)
      BY <1>1, NatLessThanWellFounded
<1>3. \A x, y \in Nat : x < y => <<x, y>> \in R
      BY <1>1 DEF OpToRel
<1>4. PICK x \in T : \A y \in T : ~(<<y, x>> \in R)
      BY <1>2, WFMin
<1>5. \A y \in T : x \in Nat /\ y \in Nat /\ ~(y < x)
      BY <1>3, <1>4
<1>6. \A y \in T : x <= y
      BY <1>5
<1> QED BY <1>6

(* Of any finite sets one has the fewest elements.                         *)
LEMMA SmallestSet ==
    ASSUME NEW Q, Q # {}, \A S \in Q : IsFiniteSet(S)
    PROVE  \E S \in Q : \A T : Cardinality(T) < Cardinality(S) => T \notin Q
<1> DEFINE T == {Cardinality(S) : S \in Q}
<1>1. T \subseteq Nat /\ T # {}
      BY FS_CardinalityType
<1> HIDE DEF T
<1>2. PICK n \in T : \A m \in T : n <= m
      BY <1>1, LeastNumber
<1> USE DEF T
<1>3. PICK S \in Q : n = Cardinality(S)
      BY <1>2
<1>4. \A U \in Q : Cardinality(S) <= Cardinality(U) /\ Cardinality(U) \in Nat
      BY <1>2, <1>3, FS_CardinalityType
<1>5. Cardinality(S) \in Nat
      BY FS_CardinalityType
<1> HIDE DEF T
<1>6. \A U : Cardinality(U) < Cardinality(S) => U \notin Q
      BY <1>4, <1>5
<1> QED BY <1>6

(* What files with these contents occupy: TotalOf's sum, for any contents.  *)
Pick(S) == CHOOSE f \in S : TRUE
Bytes(c, S) == MapThenSumSet(LAMBDA f : Size[c[f]], S)
Adds(g, c, S) ==
    g = [s \in SUBSET S |-> IF s = {} THEN 0 ELSE Size[c[Pick(s)]] + g[s \ {Pick(s)}]]

LEMMA BytesFold ==
    ASSUME NEW c, NEW S
    PROVE  Bytes(c, S) = (CHOOSE g : Adds(g, c, S))[S]
BY DEF Bytes, Adds, Pick, MapThenSumSet, MapThenFoldSet

LEMMA PickedElement ==
    ASSUME NEW S, IsFiniteSet(S), S # {}
    PROVE  /\ Pick(S) \in S
           /\ IsFiniteSet(S \ {Pick(S)})
           /\ Cardinality(S \ {Pick(S)}) = Cardinality(S) - 1
           /\ Cardinality(S) \in Nat
<1>1. Pick(S) \in S
      BY DEF Pick
<1> QED BY <1>1, FS_RemoveElement, FS_CardinalityType

(* The fold is defined: stage by stage, by the size of the subsets.        *)
AddsUpTo(n, g, c, S) ==
    \A s \in SUBSET S : Cardinality(s) <= n =>
        g[s] = IF s = {} THEN 0 ELSE Size[c[Pick(s)]] + g[s \ {Pick(s)}]

LEMMA NextStage ==
    ASSUME NEW c, NEW S, IsFiniteSet(S), NEW n \in Nat,
           NEW g, DOMAIN g = SUBSET S, AddsUpTo(n, g, c, S)
    PROVE  \E h : h = [s \in SUBSET S |-> h[s]] /\ AddsUpTo(n + 1, h, c, S)
<1> DEFINE h == [s \in SUBSET S |-> IF Cardinality(s) <= n THEN g[s]
                                    ELSE Size[c[Pick(s)]] + g[s \ {Pick(s)}]]
<1>1. ASSUME NEW s \in SUBSET S, Cardinality(s) <= n + 1
      PROVE  h[s] = IF s = {} THEN 0 ELSE Size[c[Pick(s)]] + h[s \ {Pick(s)}]
  <2>1. IsFiniteSet(s) /\ Cardinality(s) \in Nat
        BY FS_Subset, FS_CardinalityType
  <2>2. CASE s = {}
    <3>1. Cardinality(s) <= n
          BY <2>2, FS_EmptySet
    <3> QED BY <2>2, <3>1 DEF AddsUpTo
  <2>3. CASE s # {}
    <3> DEFINE t == s \ {Pick(s)}
    <3>0. Cardinality(t) = Cardinality(s) - 1
          BY <2>1, <2>3, PickedElement
    <3>1. t \in SUBSET S /\ Cardinality(t) <= n
          BY <1>1, <2>1, <3>0
    <3>2. h[t] = g[t]
          BY <3>1
    <3>3. h[s] = Size[c[Pick(s)]] + g[t]
          BY <2>3 DEF AddsUpTo
    <3> QED BY <2>3, <3>2, <3>3
  <2> QED BY <2>2, <2>3
<1>2. h = [s \in SUBSET S |-> h[s]]
      OBVIOUS
<1>3. AddsUpTo(n + 1, h, c, S)
      BY <1>1 DEF AddsUpTo
<1> HIDE DEF h
<1> QED BY <1>2, <1>3

LEMMA FoldDefined ==
    ASSUME NEW c, NEW S, IsFiniteSet(S)
    PROVE  \E g : Adds(g, c, S)
<1> DEFINE Has(n) == \E g : g = [s \in SUBSET S |-> g[s]] /\ AddsUpTo(n, g, c, S)
           Missing == {n \in Nat : ~Has(n)}
<1>1. Has(0)
  <2>1. PICK g : g = [s \in SUBSET S |-> 0]
        OBVIOUS
  <2>2. \A s \in SUBSET S : Cardinality(s) <= 0 => s = {}
        BY FS_Subset, FS_CardinalityType, FS_EmptySet
  <2>3. AddsUpTo(0, g, c, S)
        BY <2>1, <2>2 DEF AddsUpTo
  <2>4. g = [s \in SUBSET S |-> g[s]]
        BY <2>1
  <2> QED BY <2>3, <2>4
<1>2. ASSUME NEW n \in Nat, Has(n) PROVE Has(n + 1)
  <2>1. PICK g : g = [s \in SUBSET S |-> g[s]] /\ AddsUpTo(n, g, c, S)
        BY <1>2
  <2>2. DOMAIN g = SUBSET S
        BY <2>1
  <2> QED BY <2>1, <2>2, NextStage
<1> HIDE DEF Has
<1>3. Missing = {}
  <2> SUFFICES ASSUME Missing # {} PROVE FALSE
      OBVIOUS
  <2>1. Missing \subseteq Nat
        OBVIOUS
  <2>2. PICK n \in Missing : \A m \in Missing : n <= m
        BY <2>1, LeastNumber
  <2>3. n \in Nat /\ ~Has(n) /\ n # 0
        BY <1>1, <2>2
  <2>4. n - 1 \in Nat /\ ~(n <= n - 1) /\ (n - 1) + 1 = n
        BY <2>3
  <2>5. Has(n - 1)
        BY <2>2, <2>4
  <2> QED BY <1>2, <2>3, <2>4, <2>5
<1>4. Has(Cardinality(S))
      BY <1>3, FS_CardinalityType
<1>5. PICK g : g = [s \in SUBSET S |-> g[s]] /\ AddsUpTo(Cardinality(S), g, c, S)
      BY <1>4 DEF Has
<1>6. \A s \in SUBSET S : Cardinality(s) <= Cardinality(S)
      BY FS_Subset
<1>7. \A s \in SUBSET S : g[s] = IF s = {} THEN 0 ELSE Size[c[Pick(s)]] + g[s \ {Pick(s)}]
      BY <1>5, <1>6 DEF AddsUpTo
<1>8. Adds(g, c, S)
      BY <1>5, <1>7 DEF Adds
<1> QED BY <1>8

LEMMA BytesAdds ==
    ASSUME NEW c, NEW S, IsFiniteSet(S)
    PROVE  \E g : Adds(g, c, S) /\ Bytes(c, S) = g[S]
BY FoldDefined, BytesFold

(* The value depends only on the contents of the files summed.             *)
LEMMA AddsAgree ==
    ASSUME NEW c, NEW d, NEW S, NEW T, IsFiniteSet(S), IsFiniteSet(T),
           NEW g, NEW h, Adds(g, c, S), Adds(h, d, T),
           NEW u, u \in SUBSET S, u \in SUBSET T, \A f \in u : c[f] = d[f]
    PROVE  g[u] = h[u]
<1> DEFINE Q == {s \in SUBSET u : g[s] # h[s]}
<1>0. IsFiniteSet(u)
      BY FS_Subset
<1>1. \A s \in Q : IsFiniteSet(s)
      BY <1>0, FS_Subset
<1> SUFFICES ASSUME Q # {} PROVE FALSE
    OBVIOUS
<1> HIDE DEF Q
<1>2. PICK s \in Q : \A t : Cardinality(t) < Cardinality(s) => t \notin Q
      BY <1>1, SmallestSet
<1>3. s \in SUBSET u /\ g[s] # h[s] /\ IsFiniteSet(s)
      BY <1>1, <1>2 DEF Q
<1>4. g[{}] = 0 /\ h[{}] = 0
      BY DEF Adds
<1>5. s # {}
      BY <1>3, <1>4
<1> DEFINE t == s \ {Pick(s)}
<1>6. /\ Pick(s) \in s /\ t \in SUBSET u
      /\ Cardinality(t) = Cardinality(s) - 1 /\ Cardinality(s) \in Nat
      BY <1>3, <1>5, PickedElement
<1>7. Cardinality(t) < Cardinality(s)
      BY <1>6
<1>8. g[t] = h[t]
      BY <1>2, <1>6, <1>7 DEF Q
<1>9. g[s] = Size[c[Pick(s)]] + g[t] /\ h[s] = Size[d[Pick(s)]] + h[t]
      BY <1>3, <1>5 DEF Adds
<1>10. c[Pick(s)] = d[Pick(s)]
      BY <1>3, <1>6
<1> QED BY <1>3, <1>8, <1>9, <1>10

LEMMA BytesAgree ==
    ASSUME NEW c, NEW d, NEW S, IsFiniteSet(S), \A f \in S : c[f] = d[f]
    PROVE  Bytes(c, S) = Bytes(d, S)
<1>1. PICK g : Adds(g, c, S) /\ Bytes(c, S) = g[S]
      BY BytesAdds
<1>2. PICK h : Adds(h, d, S) /\ Bytes(d, S) = h[S]
      BY BytesAdds
<1> QED BY <1>1, <1>2, AddsAgree

LEMMA BytesEmpty ==
    ASSUME NEW c
    PROVE  Bytes(c, {}) = 0
<1>1. PICK g : Adds(g, c, {}) /\ Bytes(c, {}) = g[{}]
      BY BytesAdds, FS_EmptySet
<1> QED BY <1>1 DEF Adds

LEMMA BytesPick ==
    ASSUME NEW c, NEW S, IsFiniteSet(S), S # {}
    PROVE  Bytes(c, S) = Size[c[Pick(S)]] + Bytes(c, S \ {Pick(S)})
<1> DEFINE T == S \ {Pick(S)}
<1>1. IsFiniteSet(T)
      BY PickedElement
<1>2. PICK g : Adds(g, c, S) /\ Bytes(c, S) = g[S]
      BY BytesAdds
<1>3. PICK h : Adds(h, c, T) /\ Bytes(c, T) = h[T]
      BY <1>1, BytesAdds
<1>4. g[S] = Size[c[Pick(S)]] + g[T]
      BY <1>2 DEF Adds
<1>5. g[T] = h[T]
      BY <1>1, <1>2, <1>3, AddsAgree
<1> QED BY <1>2, <1>3, <1>4, <1>5

LEMMA BytesRemove ==
    ASSUME NEW c, NEW U, IsFiniteSet(U), \A f \in U : Size[c[f]] \in Nat,
           NEW S, S \in SUBSET U
    PROVE  /\ Bytes(c, S) \in Nat
           /\ \A f \in S : Bytes(c, S) = Size[c[f]] + Bytes(c, S \ {f})
<1> DEFINE Good(s) == /\ Bytes(c, s) \in Nat
                      /\ \A f \in s : Bytes(c, s) = Size[c[f]] + Bytes(c, s \ {f})
           Q == {s \in SUBSET U : ~Good(s)}
<1> SUFFICES ASSUME Q # {} PROVE FALSE
    OBVIOUS
<1>1. \A s \in Q : IsFiniteSet(s)
      BY FS_Subset
<1> HIDE DEF Q
<1>2. PICK s \in Q : \A t : Cardinality(t) < Cardinality(s) => t \notin Q
      BY <1>1, SmallestSet
<1>3. s \in SUBSET U /\ ~Good(s) /\ IsFiniteSet(s)
      BY <1>1, <1>2 DEF Q
<1>4. s # {}
  <2>1. Bytes(c, {}) = 0 /\ 0 \in Nat
        BY BytesEmpty
  <2>2. Good({})
        BY <2>1 DEF Good
  <2> QED BY <1>3, <2>2
<1> DEFINE p == Pick(s)
<1>5. p \in s /\ IsFiniteSet(s \ {p}) /\ Cardinality(s) \in Nat
      BY <1>3, <1>4, PickedElement
<1>6. \A f \in s : /\ s \ {f} \in SUBSET U
                   /\ Cardinality(s \ {f}) < Cardinality(s)
                   /\ IsFiniteSet(s \ {f})
  <2> TAKE f \in s
  <2>1. Cardinality(s \ {f}) = Cardinality(s) - 1 /\ IsFiniteSet(s \ {f})
        BY <1>3, FS_RemoveElement
  <2> QED BY <1>3, <1>5, <2>1
<1> HIDE DEF Good
<1>7. \A f \in s : Good(s \ {f})
      BY <1>2, <1>6 DEF Q
<1>8. Bytes(c, s) = Size[c[p]] + Bytes(c, s \ {p})
      BY <1>3, <1>4, BytesPick
<1>9. \A f \in s : Size[c[f]] \in Nat /\ Bytes(c, s \ {f}) \in Nat
      BY <1>3, <1>7 DEF Good
<1>10. Bytes(c, s) \in Nat
      BY <1>5, <1>8, <1>9
<1>11. ASSUME NEW f \in s PROVE Bytes(c, s) = Size[c[f]] + Bytes(c, s \ {f})
  <2>1. CASE f = p
        BY <1>8, <2>1
  <2>2. CASE f # p
    <3>1. f \in s \ {p} /\ p \in s \ {f}
          BY <1>5, <2>2
    <3>2. Bytes(c, s \ {p}) = Size[c[f]] + Bytes(c, (s \ {p}) \ {f})
          BY <1>5, <1>7, <3>1 DEF Good
    <3>3. Bytes(c, s \ {f}) = Size[c[p]] + Bytes(c, (s \ {f}) \ {p})
          BY <1>7, <3>1 DEF Good
    <3>4. (s \ {p}) \ {f} = (s \ {f}) \ {p}
          OBVIOUS
    <3>5. (s \ {f}) \ {p} \in SUBSET U /\ Cardinality((s \ {f}) \ {p}) < Cardinality(s)
      <4>1. /\ Cardinality((s \ {f}) \ {p}) = Cardinality(s \ {f}) - 1
            /\ Cardinality(s \ {f}) \in Nat
            BY <1>6, <3>1, FS_RemoveElement, FS_CardinalityType
      <4> QED BY <1>3, <1>5, <1>6, <4>1
    <3>6. Bytes(c, (s \ {f}) \ {p}) \in Nat
          BY <1>2, <3>5 DEF Q, Good
    <3>7. Bytes(c, s) = Size[c[p]] + (Size[c[f]] + Bytes(c, (s \ {f}) \ {p}))
          BY <1>8, <3>2, <3>4
    <3>8. \A a, b, r \in Nat : a + (b + r) = b + (a + r)
          OBVIOUS
    <3>9. Size[c[p]] \in Nat /\ Size[c[f]] \in Nat
          BY <1>5, <1>9
    <3>10. Bytes(c, s) = Size[c[f]] + (Size[c[p]] + Bytes(c, (s \ {f}) \ {p}))
          BY <3>6, <3>7, <3>8, <3>9
    <3> QED BY <3>3, <3>10
  <2> QED BY <2>1, <2>2
<1> QED BY <1>3, <1>10, <1>11 DEF Good

(* The row of the current month against the files charged to it.           *)
CountedNow ==
    /\ usage[month].docs <= Cardinality(ChargedTo(month))
    /\ usage[month].bytes <= Bytes(content, ChargedTo(month))

LEMMA FilesFinite == IsFiniteSet(FileIds)
<1>1. 1 \in Int /\ MaxUploads \in Int
      BY LibraryAssumption
<1> QED BY <1>1, FS_Interval DEF FileIds

LEMMA ChargedFinite ==
    ASSUME TypeOK, NEW m
    PROVE  /\ ChargedTo(m) \in SUBSET FileIds
           /\ IsFiniteSet(ChargedTo(m))
           /\ \A f \in FileIds : Size[content[f]] \in Nat
<1>1. ChargedTo(m) \in SUBSET FileIds
      BY DEF ChargedTo, Files
<1>2. IsFiniteSet(FileIds)
      BY FilesFinite
<1>3. \A f \in FileIds : Size[content[f]] \in Nat
      BY LibraryAssumption DEF TypeOK, TablesTypeOK
<1> QED BY <1>1, <1>2, <1>3, FS_Subset

LEMMA ChargedTotals ==
    ASSUME TypeOK, NEW m
    PROVE  Cardinality(ChargedTo(m)) \in Nat /\ Bytes(content, ChargedTo(m)) \in Nat
<1>1. /\ ChargedTo(m) \in SUBSET FileIds /\ IsFiniteSet(ChargedTo(m))
      /\ \A f \in ChargedTo(m) : Size[content[f]] \in Nat
      BY ChargedFinite
<1> QED BY <1>1, FS_CardinalityType, BytesRemove

LEMMA ChargedTotalsNext == (TypeOK => Cardinality(ChargedTo(month)) \in Nat
                                   /\ Bytes(content, ChargedTo(month)) \in Nat)'
<1>1. TypeOK => Cardinality(ChargedTo(month)) \in Nat /\ Bytes(content, ChargedTo(month)) \in Nat
      BY ChargedTotals
<1> QED BY <1>1, PTL

LEMMA TotalNow == TotalOf(ChargedTo(month)) = [docs |-> Cardinality(ChargedTo(month)),
                                              bytes |-> Bytes(content, ChargedTo(month))]
BY DEF TotalOf, Bytes

LEMMA NeverOvercounts == CountedNow => UsageNeverOvercounts
BY TotalNow DEF CountedNow, UsageNeverOvercounts

(* A step that neither counts nor creates, deletes or rewrites a file.     *)
LEMMA CountedKept ==
    ASSUME TypeOK, CountedNow, UNCHANGED <<charged, usage, month>>, Files' = Files,
           \A f \in Files : content'[f] = content[f]
    PROVE  CountedNow'
<1>1. ChargedTo(month)' = ChargedTo(month)
      BY DEF ChargedTo
<1>2. IsFiniteSet(ChargedTo(month)) /\ \A f \in ChargedTo(month) : content[f] = content'[f]
      BY ChargedFinite DEF ChargedTo
<1> DEFINE d == content'
<1> HIDE DEF d
<1>3. \A f \in ChargedTo(month) : content[f] = d[f]
      BY <1>2 DEF d
<1>4. Bytes(content, ChargedTo(month)) = Bytes(d, ChargedTo(month))
      BY <1>2, <1>3, BytesAgree
<1>5. Bytes(content, ChargedTo(month))' = Bytes(content, ChargedTo(month))
      BY <1>1, <1>4 DEF d
<1> QED BY <1>1, <1>5 DEF CountedNow

(* The row of a file that is not there, inserted and counted.              *)
LEMMA CountedInsert ==
    ASSUME ObjectsInv, CountedNow, NEW w \in Workers, Insert(w), NEW m \in MonthsRead(w),
           MeterIngest(m, Size[content[req[w].file]]),
           charged' = [charged EXCEPT ![req[w].file] = m]
    PROVE  CountedNow'
<1> USE DEF ObjectsInv, TypeOK
<1>1. PICK f, S, C, b : f = req[w].file /\ S = ChargedTo(month) /\ C = content /\ b = Size[content[f]]
      OBVIOUS
<1>2. f \in FileIds /\ f \notin Files
      BY <1>1, LibraryAssumption
      DEF Insert, RequestsTypeOK, UploadsOwnTheirFile, Uploading, FileIds
<1>0. m \in Months /\ month \in Months
  <2>1. TypeOK /\ pc[w] = "inserting"
        BY DEF Insert
  <2> QED BY <2>1, MonthsReadTyped DEF UsageTypeOK
<1>3. f \notin S
      BY <1>1, <1>2 DEF ChargedTo
<1>4. ChargedTo(month)' = IF m = month THEN S \cup {f} ELSE S
  <2>1. Files' = Files \cup {f} /\ month' = month
        BY <1>1, <1>2 DEF Insert, Files, TablesTypeOK
  <2>2. \A g \in FileIds : charged'[g] = IF g = f THEN m ELSE charged[g]
        BY <1>1, <1>2 DEF Insert, TablesTypeOK
  <2>3. Files \subseteq FileIds
        BY DEF Files
  <2> QED BY <1>1, <1>2, <2>1, <2>2, <2>3 DEF ChargedTo
<1>5. /\ usage'[month].docs = IF m = month THEN usage[month].docs + 1 ELSE usage[month].docs
      /\ usage'[month].bytes = IF m = month THEN usage[month].bytes + b ELSE usage[month].bytes
      /\ usage[month].docs \in Nat /\ usage[month].bytes \in Nat /\ b \in Nat
      /\ month' = month /\ content' = content
      BY <1>0, <1>1, <1>2, LibraryAssumption DEF Insert, MeterIngest, UsageTypeOK, TablesTypeOK
<1>6. /\ S \in SUBSET FileIds /\ S \cup {f} \in SUBSET FileIds
      /\ IsFiniteSet(S) /\ IsFiniteSet(FileIds) /\ \A g \in FileIds : Size[C[g]] \in Nat
  <2>1. TypeOK
        OBVIOUS
  <2>2. /\ S \in SUBSET FileIds /\ IsFiniteSet(S)
        /\ \A g \in FileIds : Size[C[g]] \in Nat
        BY <1>1, <2>1, ChargedFinite
  <2> QED BY <1>2, <2>2, FilesFinite
<1>7. Cardinality(S \cup {f}) = Cardinality(S) + 1 /\ Cardinality(S) \in Nat
      BY <1>3, <1>6, FS_AddElement, FS_CardinalityType
<1>8. Bytes(C, S \cup {f}) = b + Bytes(C, S) /\ Bytes(C, S) \in Nat
  <2>1. Bytes(C, S \cup {f}) = Size[C[f]] + Bytes(C, (S \cup {f}) \ {f})
        BY <1>6, BytesRemove
  <2>2. (S \cup {f}) \ {f} = S
        BY <1>3
  <2>3. Bytes(C, S) \in Nat
        BY <1>6, BytesRemove
  <2> QED BY <1>1, <2>1, <2>2, <2>3
<1>9. Bytes(content, ChargedTo(month))' = IF m = month THEN Bytes(C, S \cup {f}) ELSE Bytes(C, S)
      BY <1>1, <1>4, <1>5
<1>10. usage[month].docs <= Cardinality(S) /\ usage[month].bytes <= Bytes(C, S)
      BY <1>1 DEF CountedNow
<1>11. /\ usage'[month'].docs <= Cardinality(ChargedTo(month)')
       /\ usage'[month'].bytes <= Bytes(content, ChargedTo(month))'
      BY <1>4, <1>5, <1>7, <1>8, <1>9, <1>10
<1> QED BY <1>11 DEF CountedNow

(* A deletion takes off at least what the month loses, whatever month the  *)
(* file is of and even when its row has gone already.                      *)
LEMMA LessThan ==
    ASSUME NEW n \in Nat, NEW k \in Nat, NEW all \in Nat, n <= all
    PROVE  /\ Less(n, k) <= all
           /\ \A rest \in Nat : all = k + rest => Less(n, k) <= rest
BY DEF Less

LEMMA CountedPurge ==
    ASSUME ObjectsInv, CountedNow, NEW w \in Workers, PurgeCommit(w), NEW m \in MonthsRead(w),
           MeterDelete(m, Size[content[req[w].file]]),
           req[w].file \in Files => charged[req[w].file] <= req[w].month
    PROVE  CountedNow'
<1> USE DEF ObjectsInv, TypeOK
<1>1. PICK f, S, C, b : f = req[w].file /\ S = ChargedTo(month) /\ C = content /\ b = Size[content[f]]
      OBVIOUS
<1>2. f \in FileIds
      BY <1>1, LibraryAssumption DEF PurgeCommit, RequestsTypeOK, FileIds
<1>0. m \in Months /\ month \in Months /\ m <= month
  <2>1. TypeOK /\ pc[w] = "purge"
        BY DEF PurgeCommit
  <2> QED BY <2>1, MonthsReadTyped DEF UsageTypeOK
<1>3. ChargedTo(month)' = S \ {f}
  <2>1. Files' = Files \ {f} /\ month' = month
        BY <1>1, <1>2 DEF PurgeCommit, Files, TablesTypeOK
  <2>2. \A g \in Files' : charged'[g] = charged[g]
        BY <1>1, <1>2, <2>1 DEF PurgeCommit, Files, TablesTypeOK
  <2> QED BY <1>1, <2>1, <2>2 DEF ChargedTo
<1>4. m # month => f \notin S
  <2>1. m \in Int /\ month \in Int /\ req[w].month \in Int /\ req[w].month <= m
        BY <1>0, LibraryAssumption DEF MonthsRead, Months, RequestsTypeOK, Requests
  <2>2. f \in Files => charged[f] <= req[w].month /\ charged[f] \in Int
        BY <1>1, <1>2, LibraryAssumption DEF TablesTypeOK
  <2> QED BY <1>0, <1>1, <2>1, <2>2 DEF ChargedTo
<1>5. /\ usage'[month].docs = IF m = month THEN Less(usage[month].docs, 1) ELSE usage[month].docs
      /\ usage'[month].bytes = IF m = month THEN Less(usage[month].bytes, b) ELSE usage[month].bytes
      /\ usage[month].docs \in Nat /\ usage[month].bytes \in Nat /\ b \in Nat
      /\ month' = month /\ content' = content
      BY <1>0, <1>1, <1>2, LibraryAssumption DEF PurgeCommit, MeterDelete, UsageTypeOK, TablesTypeOK
<1>6. /\ S \in SUBSET FileIds /\ S \ {f} \in SUBSET FileIds
      /\ IsFiniteSet(S) /\ IsFiniteSet(FileIds) /\ \A g \in FileIds : Size[C[g]] \in Nat
  <2>1. TypeOK
        OBVIOUS
  <2>2. /\ S \in SUBSET FileIds /\ IsFiniteSet(S)
        /\ \A g \in FileIds : Size[C[g]] \in Nat
        BY <1>1, <2>1, ChargedFinite
  <2> QED BY <2>2, FilesFinite
<1>7. /\ Cardinality(S) \in Nat /\ Cardinality(S \ {f}) \in Nat
      /\ Cardinality(S \ {f}) = IF f \in S THEN Cardinality(S) - 1 ELSE Cardinality(S)
      BY <1>6, FS_RemoveElement, FS_CardinalityType
<1>8. Bytes(C, S) \in Nat /\ Bytes(C, S \ {f}) \in Nat
      BY <1>6, BytesRemove
<1>9. /\ f \in S => Bytes(C, S) = b + Bytes(C, S \ {f})
      /\ f \notin S => Bytes(C, S) = Bytes(C, S \ {f})
  <2>1. f \in S => Bytes(C, S) = Size[C[f]] + Bytes(C, S \ {f})
        BY <1>6, BytesRemove
  <2>2. f \notin S => S \ {f} = S
        OBVIOUS
  <2> QED BY <1>1, <2>1, <2>2
<1>10. usage[month].docs <= Cardinality(S) /\ usage[month].bytes <= Bytes(C, S)
      BY <1>1 DEF CountedNow
<1>11. Less(usage[month].docs, 1) <= Cardinality(S \ {f})
  <2>1. CASE f \in S
    <3>1. Cardinality(S) = 1 + Cardinality(S \ {f})
          BY <1>7, <2>1
    <3> QED BY <1>5, <1>7, <1>10, <3>1, LessThan
  <2>2. CASE f \notin S
        BY <1>5, <1>7, <1>10, <2>2, LessThan
  <2> QED BY <2>1, <2>2
<1>12. Less(usage[month].bytes, b) <= Bytes(C, S \ {f})
  <2>1. CASE f \in S
        BY <1>5, <1>8, <1>9, <1>10, <2>1, LessThan
  <2>2. CASE f \notin S
        BY <1>5, <1>8, <1>9, <1>10, <2>2, LessThan
  <2> QED BY <2>1, <2>2
<1>13. Bytes(content, ChargedTo(month))' = Bytes(C, S \ {f})
      BY <1>1, <1>3, <1>5
<1>14. /\ usage'[month'].docs <= Cardinality(ChargedTo(month)')
       /\ usage'[month'].bytes <= Bytes(content, ChargedTo(month))'
  <2>1. CASE m = month
        BY <1>3, <1>5, <1>11, <1>12, <1>13, <2>1
  <2>2. CASE m # month
    <3>1. S \ {f} = S
          BY <1>4, <2>2
    <3> QED BY <1>3, <1>5, <1>10, <1>13, <2>2, <3>1
  <2> QED BY <2>1, <2>2
<1> QED BY <1>14 DEF CountedNow

LEMMA CountedNext ==
    ASSUME ObjectsInv, ObjectsInv', MeteredInTime, MeteredInTime', ChargedBefore, CountedNow, [Next]_libVars
    PROVE  CountedNow'
<1> USE DEF ObjectsInv
<1>1. ASSUME NextMonth PROVE CountedNow'
  <2>1. month' \notin metered'
        BY <1>1, LibraryAssumption DEF NextMonth, tables, MeteredInTime, TypeOK,
                UsageTypeOK, Months
  <2>2. usage'[month'] = [docs |-> 0, bytes |-> 0]
        BY <2>1 DEF MeteredInTime, TypeOK, UsageTypeOK
  <2>3. Cardinality(ChargedTo(month))' \in Nat /\ Bytes(content, ChargedTo(month))' \in Nat
        BY ChargedTotalsNext
  <2> QED BY <2>2, <2>3 DEF CountedNow
<1>4. ASSUME DbNextMonth PROVE CountedNow'
  <2>1. /\ UNCHANGED <<content, charged, usage, month>> /\ Files' = Files
        BY <1>4 DEF DbNextMonth, Files, tables
  <2> QED BY <2>1, CountedKept
<1>2. ASSUME NEW w \in Workers, Step(w) PROVE CountedNow'
  <2>1. CASE Insert(w)
    <3>1. PICK m \in MonthsRead(w) : /\ MeterIngest(m, Size[content[req[w].file]])
                                      /\ charged' = [charged EXCEPT ![req[w].file] = m]
          BY <2>1 DEF Insert
    <3> QED BY <2>1, <3>1, CountedInsert
  <2>2. CASE PurgeCommit(w)
    <3>1. PICK m \in MonthsRead(w) : MeterDelete(m, Size[content[req[w].file]])
          BY <2>2 DEF PurgeCommit
    <3>2. req[w].file \in Files => charged[req[w].file] <= req[w].month
          BY <2>2 DEF PurgeCommit, ChargedBefore
    <3> QED BY <2>2, <3>1, <3>2, CountedPurge
  <2>3. CASE UploadNew(w)
    <3>1. /\ UNCHANGED <<charged, usage, month>> /\ Files' = Files
          /\ \E c : content' = [content EXCEPT ![uploads + 1] = c]
          BY <2>3 DEF UploadNew, Files
    <3>2. \A f \in Files : f \in DOMAIN content /\ f # uploads + 1
      <4>1. Files \subseteq 1 .. uploads /\ uploads \in Nat
            BY LibraryAssumption DEF FilesHaveObjects, TypeOK, TablesTypeOK, RequestsTypeOK
      <4> QED BY <4>1 DEF Files, TypeOK, TablesTypeOK
    <3>3. \A f \in Files : content'[f] = content[f]
          BY <3>1, <3>2
    <3> QED BY <3>1, <3>3, CountedKept
  <2>4. CASE IngestDone(w)
    <3>1. Files' = Files
          BY <2>4 DEF IngestDone, Files, TypeOK, TablesTypeOK
    <3> QED BY <2>4, <3>1, CountedKept DEF IngestDone
  <2>5. CASE \/ UploadReused(w) \/ QuotaPass(w) \/ QuotaExceeded(w) \/ PutObject(w) \/ InsertBegin(w) \/ InsertClash(w)
             \/ IngestRead(w) \/ IngestGone(w) \/ Attach(w) \/ Detach(w) \/ Reparse(w)
             \/ PurgeBegin(w) \/ RemoveObject(w) \/ Abort(w)
    <3>1. UNCHANGED <<content, status, charged, usage, month>>
          BY <2>5 DEF UploadReused, QuotaPass, QuotaExceeded, PutObject,
                InsertBegin, InsertClash, IngestRead, IngestGone, Attach, Detach, Reparse,
                PurgeBegin, RemoveObject, Abort, tables
    <3>2. Files' = Files
          BY <3>1 DEF Files
    <3> QED BY <3>1, <3>2, CountedKept
  <2> QED BY <1>2, <2>1, <2>2, <2>3, <2>4, <2>5 DEF Step
<1>3. CASE UNCHANGED libVars
  <2>1. UNCHANGED <<content, status, charged, usage, month>>
        BY <1>3 DEF libVars, tables
  <2>2. Files' = Files
        BY <2>1 DEF Files
  <2> QED BY <2>1, <2>2, CountedKept
<1> QED BY <1>1, <1>2, <1>3, <1>4 DEF Next

LEMMA CountedInit == Init => CountedNow
<1> SUFFICES ASSUME Init PROVE CountedNow
    OBVIOUS
<1>1. usage[month] = [docs |-> 0, bytes |-> 0]
      BY LibraryAssumption DEF Init, Months
<1>2. Cardinality(ChargedTo(month)) \in Nat /\ Bytes(content, ChargedTo(month)) \in Nat
      BY TypeInit, ChargedTotals
<1> QED BY <1>1, <1>2 DEF CountedNow

(* Why a deletion never takes a month's counter for another's file.        *)
LEMMA ChargedKept ==
    ASSUME ChargedBefore, UNCHANGED <<charged, month, pc, req>>, Files' \subseteq Files
    PROVE  ChargedBefore'
BY DEF ChargedBefore

LEMMA ChargedStep ==
    ASSUME ObjectsInv, ChargedBefore, NEW w \in Workers, NEW next, NEW r, Become(w, next, r),
           month' = month, Files' \subseteq Files, \A f \in Files' : charged'[f] = charged[f],
           next = "purge" => r.month = month
    PROVE  ChargedBefore'
BY DEF ChargedBefore, Become, ObjectsInv, TypeOK, RequestsTypeOK

LEMMA ChargedNext ==
    ASSUME ObjectsInv, ChargedBefore, [Next]_libVars
    PROVE  ChargedBefore'
<1> USE DEF ObjectsInv, TypeOK
<1>0. /\ month \in Nat
      /\ \A f \in Files : f \in FileIds /\ charged[f] \in Nat
      /\ \A w \in Workers : req[w].month \in Nat
      BY LibraryAssumption DEF UsageTypeOK, TablesTypeOK, RequestsTypeOK, Requests, Months, Files
<1>1. ASSUME NextMonth \/ DbNextMonth PROVE ChargedBefore'
  <2>1. Files' = Files /\ UNCHANGED <<charged, pc, req>> /\ month' \in {month, month + 1}
        BY <1>1 DEF NextMonth, DbNextMonth, tables, Files
  <2> QED BY <1>0, <2>1 DEF ChargedBefore
<1>2. ASSUME NEW w \in Workers, Step(w) PROVE ChargedBefore'
  <2>1. CASE Insert(w)
    <3>0. PICK f \in FileIds : f = req[w].file
          BY <2>1, LibraryAssumption DEF Insert, RequestsTypeOK, FileIds
    <3>1. PICK m \in MonthsRead(w) :
             /\ charged' = [charged EXCEPT ![f] = m]
             /\ status' = [status EXCEPT ![f] = IF req[w].kbs = {} THEN "uploaded" ELSE "parsing"]
             /\ pc[w] = "inserting" /\ month' = month
          BY <2>1, <3>0 DEF Insert
    <3>2. PICK next, r : Become(w, next, r) /\ next # "purge"
          BY <2>1 DEF Insert, EndRequest, GoOn
    <3>3. m <= month
      <4>1. TypeOK
            OBVIOUS
      <4> QED BY <3>1, <4>1, MonthsReadTyped
    <3>4. \A g \in Files' : (g = f /\ charged'[g] = m) \/ (g \in Files /\ charged'[g] = charged[g])
          BY <3>0, <3>1 DEF Files, TablesTypeOK
    <3>5. \A v \in Workers \ {w} : pc'[v] = pc[v] /\ req'[v] = req[v]
          BY <3>2 DEF Become
    <3>6. pc'[w] # "purge"
          BY <3>2 DEF Become, RequestsTypeOK
    <3>7. \A v \in Workers \ {w} : pc[v] = "purge" => req[v].file # f
          BY <3>0, <3>1 DEF UploadsOwnTheirFile, Uploading
    <3>8. \A g \in Files' : charged'[g] <= month'
          BY <3>1, <3>3, <3>4 DEF ChargedBefore
    <3>9. ASSUME NEW v \in Workers, pc'[v] = "purge", req'[v].file \in Files'
          PROVE  charged'[req'[v].file] <= req'[v].month
      <4>1. v # w /\ pc[v] = "purge" /\ req'[v] = req[v] /\ req[v].file # f
            BY <3>5, <3>6, <3>7, <3>9
      <4> QED BY <3>4, <3>9, <4>1 DEF ChargedBefore
    <3> QED BY <3>8, <3>9 DEF ChargedBefore
  <2>2. CASE PurgeCommit(w)
    <3>1. Files' \subseteq Files /\ \A f \in Files' : charged'[f] = charged[f]
          BY <2>2 DEF PurgeCommit, Files, TablesTypeOK
    <3>2. \E r : Become(w, "unlink", r)
          BY <2>2 DEF PurgeCommit, GoOn
    <3> QED BY <2>2, <3>1, <3>2, ChargedStep DEF PurgeCommit
  <2>3. CASE UploadReused(w) \/ Detach(w)
    <3>1. UNCHANGED <<charged, month, pc, req>> /\ Files' = Files
          BY <2>3 DEF UploadReused, Detach, Files
    <3> QED BY <3>1, ChargedKept
  <2>4. CASE PurgeBegin(w)
    <3>1. UNCHANGED <<charged, month>> /\ Files' = Files
          BY <2>4 DEF PurgeBegin, Files, tables
    <3>2. \E r : Become(w, "purge", r) /\ r.month = month
          BY <2>4 DEF PurgeBegin, About
    <3> QED BY <3>1, <3>2, ChargedStep
  <2>5. CASE IngestDone(w)
    <3>1. UNCHANGED <<charged, month>> /\ Files' \subseteq Files
          BY <2>5 DEF IngestDone, Files, TablesTypeOK
    <3>2. \E r : Become(w, "idle", r)
          BY <2>5 DEF IngestDone, EndRequest
    <3> QED BY <3>1, <3>2, ChargedStep
  <2>6. CASE \/ UploadNew(w) \/ QuotaPass(w) \/ QuotaExceeded(w) \/ PutObject(w) \/ InsertBegin(w)
             \/ InsertClash(w) \/ IngestRead(w) \/ IngestGone(w) \/ Attach(w) \/ Reparse(w)
             \/ RemoveObject(w) \/ Abort(w)
    <3>1. UNCHANGED <<charged, month>> /\ Files' = Files
          BY <2>6 DEF UploadNew, QuotaPass, QuotaExceeded, PutObject, InsertBegin, InsertClash,
                IngestRead, IngestGone, Attach, Reparse, RemoveObject, Abort, Files, tables
    <3>2. UNCHANGED <<pc, req>> \/ \E next, r : Become(w, next, r) /\ next # "purge"
          BY <2>6 DEF UploadNew, QuotaPass, QuotaExceeded, PutObject, InsertBegin, InsertClash,
                IngestRead, IngestGone, Attach, Reparse, RemoveObject, Abort, EndRequest, GoOn
    <3> QED BY <3>1, <3>2, ChargedStep, ChargedKept
  <2> QED BY <1>2, <2>1, <2>2, <2>3, <2>4, <2>5, <2>6 DEF Step
<1>3. CASE UNCHANGED libVars
  <2>1. UNCHANGED <<charged, month, pc, req>> /\ Files' = Files
        BY <1>3 DEF libVars, tables, Files
  <2> QED BY <2>1, ChargedKept
<1> QED BY <1>1, <1>2, <1>3 DEF Next

LEMMA MeteredAlways == Spec => []MeteredInTime
<1>1. ASSUME ObjectsInv, MeteredInTime, [Next]_libVars PROVE MeteredInTime'
  <2>1. CASE Next
        BY <1>1, <2>1, MeteredNext
  <2>2. CASE UNCHANGED libVars
        BY <1>1, <2>2 DEF MeteredInTime, libVars, tables
  <2> QED BY <1>1, <2>1, <2>2
<1> QED BY QuotaInit, ObjectsAlways, <1>1, PTL DEF Spec

(* However many threads upload and delete, even the same file twice, and  *)
(* whatever month each takes it to be, the counter of the current month    *)
(* never counts a document or a byte that is not there (quota.py:59,       *)
(* quota.py:71): it is at most what the files charged to it add up to.     *)
THEOREM NobodyIsOvercharged == Spec => []UsageNeverOvercounts
<1>1. ASSUME ObjectsInv, ObjectsInv', MeteredInTime, MeteredInTime', ChargedBefore, CountedNow,
             [Next]_libVars
      PROVE  CountedNow' /\ ChargedBefore'
      BY <1>1, CountedNext, ChargedNext
<1>2. Init => ChargedBefore
      BY DEF Init, ChargedBefore, Files
<1>3. CountedNow => UsageNeverOvercounts
      BY NeverOvercounts
<1> QED BY CountedInit, <1>2, ObjectsAlways, MeteredAlways, <1>1, <1>3, PTL DEF Spec
=============================================================================
