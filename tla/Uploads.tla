------------------------------- MODULE Uploads ------------------------------
(***************************************************************************)
(* A resumable upload (src/src/core/files): @tus/server takes the client's  *)
(* requests and locks the upload within its own process while bytes are     *)
(* written or removed; the StorageAdapterDataStore keeps the bytes so far   *)
(* and the metadata as two objects of the storage; the finish hook, which   *)
(* runs when the lock is released, copies a complete upload to a key of its *)
(* own, records the file and removes the two objects.  Replicas share the   *)
(* storage (S3, Postgres) and the database, not the lock; the local driver  *)
(* keeps the objects on one replica's disk and writes them in place.  One   *)
(* upload: uploads share nothing, their keys hold their ids.                *)
(***************************************************************************)
EXTENDS Integers, Sequences, FiniteSets

CONSTANTS
  Replicas,      \* server processes
  Requests,      \* bound: requests in progress, with their finish hooks
  Disks,         \* where the objects may be: on a replica's disk, or Shared
  Size,          \* the length of the client's file
  MaxChunk,      \* bound: bytes of one PATCH
  MaxFailures,   \* bound: requests that fail at an await
  MaxFiles,      \* bound: copies made of the upload
  Absent,        \* no such object in the storage, or metadata that JSON.parse refuses
  Deferred,      \* Upload-Defer-Length: the length is not known yet
  Shared,        \* a storage of all replicas, where put() is atomic
  Free           \* a request that has no lock

ASSUME UploadAssumption ==
  /\ IsFiniteSet(Requests)
  /\ Free \notin Replicas
  /\ Disks \subseteq Replicas \cup {Shared}
  /\ Shared \notin Replicas
  /\ Size \in Nat \ {0}
  /\ MaxChunk \in Nat \ {0}
  /\ MaxFailures \in Nat
  /\ MaxFiles \in Nat
  /\ Deferred \notin Nat
  /\ Absent \notin Seq(1..Size) \cup [offset : 0..Size, size : {Size, Deferred}]

VARIABLES
  disk,       \* where the objects are
  body,       \* _tus/<id>: the bytes so far, each named by its position
  meta,       \* _tus/<id>.meta
  files,      \* the objects put at final keys, in their order
  records,    \* the file records: positions in files
  stage,      \* how far each request is
  req,        \* what it holds
  lock,       \* the replica whose lock of the upload it has
  life,       \* what the client knows of the upload
  expired,    \* getExpiration() has passed since the creation
  overlap,    \* history: what requests have been let in beside: a lock, a hook
  harm,       \* history: what requests that ended early have left behind
  failures    \* the number of requests that failed at an await

uploadVars ==
  <<disk, body, meta, files, records, stage, req, lock, life, expired, overlap, harm, failures>>

Content == [i \in 1..Size |-> i]
Bytes == Seq(1..Size)
Meta == [offset : 0..Size, size : {Size, Deferred}]

\* What a request holds: its offset, length and final size; the body, the
\* metadata and the key it has read or written.
Request ==
  [offset : 0..Size, count : 0..Size, size : {Size, Deferred},
   read : Bytes, meta : Meta \cup {Absent}, key : Nat]

Nothing ==
  [offset |-> 0, count |-> 0, size |-> Deferred, read |-> <<>>, meta |-> Absent, key |-> 0]

\* LocalStorageAdapter.put() is a writeFile() over the old object.
InPlace == disk # Shared

\* What the end of a request at a stage means for the upload: a put in place is
\* cut short; the body is ahead of the metadata; no client has its URL or the
\* finish hook is over without a record; a removal is not complete.
Harm == {"short", "torn", "stranded", "cut"}

HarmAt(s) ==
  {h \in Harm :
     \/ h = "short" /\ (s = "fill" \/ (InPlace /\ s \in {"declare", "meta"}))
     \/ h = "torn" /\ s = "meta"
     \/ h = "stranded" /\ s \in {"create", "check", "copy", "file", "insert"}
     \/ h = "cut" /\ s \in {"remove", "removeBody", "removeMeta"}}

Stage ==
  {"idle", "create", "length", "declare", "get", "receive", "put", "fill", "meta",
   "check", "copy", "file", "insert", "remove", "removeBody", "removeMeta"}

\* Type invariant of the stored upload and the requests.
TypeOK ==
  /\ disk \in Disks
  /\ body \in Bytes \cup {Absent}
  /\ meta \in Meta \cup {Absent}
  /\ files \in Seq(Bytes)
  /\ records \subseteq DOMAIN files
  /\ stage \in [Requests -> Stage]
  /\ req \in [Requests -> Request]
  /\ lock \in [Requests -> Replicas \cup {Free}]
  /\ life \in {"none", "begun", "open", "ended"}
  /\ expired \in BOOLEAN
  /\ overlap \subseteq {"lock", "hook"}
  /\ harm \subseteq Harm
  /\ failures \in 0..MaxFailures

Init ==
  /\ disk \in Disks
  /\ body = Absent
  /\ meta = Absent
  /\ files = <<>>
  /\ records = {}
  /\ stage = [q \in Requests |-> "idle"]
  /\ req = [q \in Requests |-> Nothing]
  /\ lock = [q \in Requests |-> Free]
  /\ life = "none"
  /\ expired = FALSE
  /\ overlap = {}
  /\ harm = {}
  /\ failures = 0

-----------------------------------------------------------------------------
To(q, next) == stage' = [stage EXCEPT ![q] = next]

\* The response is sent and the lock, if it is still held, released.
End(q) ==
  /\ To(q, "idle")
  /\ req' = [req EXCEPT ![q] = Nothing]
  /\ lock' = [lock EXCEPT ![q] = Free]

Busy == {q \in Requests : stage[q] # "idle"}
Locked == {q \in Requests : lock[q] # Free}

\* A request waits for the lock of its own process, and for no other.
Lock(q, r) ==
  /\ stage[q] = "idle"
  /\ disk \in {r, Shared}
  /\ \A p \in Requests : lock[p] # r
  /\ lock' = [lock EXCEPT ![q] = r]
  /\ overlap' = overlap \cup {o \in {"lock", "hook"} :
                              \/ o = "lock" /\ Locked # {}
                              \/ o = "hook" /\ Busy \ Locked # {}}

\* A storage call, the database or the process fails: the request ends with what
\* it has done so far.  Metadata that are written in place are cut short.
Fail(q) ==
  /\ stage[q] # "idle"
  /\ failures < MaxFailures
  /\ failures' = failures + 1
  /\ harm' = harm \cup HarmAt(stage[q])
  /\ meta' \in {meta} \cup {m \in {Absent} : InPlace /\ stage[q] \in {"declare", "meta"}}
  /\ End(q)
  /\ UNCHANGED <<disk, body, files, records, life, expired, overlap>>

\* The request is refused by the code, not by a failure.
Refuse(q) ==
  /\ harm' = harm \cup HarmAt(stage[q])
  /\ End(q)
  /\ UNCHANGED <<disk, body, meta, files, records, life, expired, overlap, failures>>

\* The time of an upload is over: @tus/server goes by getExpiration().
Expire ==
  /\ life = "open"
  /\ ~ expired
  /\ expired' = TRUE
  /\ UNCHANGED <<disk, body, meta, files, records, stage, req, lock, life, overlap, harm, failures>>

-----------------------------------------------------------------------------
\* POST: create() puts the metadata, then an empty body.
CreateMeta(q, r, size) ==
  /\ life = "none"
  /\ Lock(q, r)
  /\ meta' = [offset |-> 0, size |-> size]
  /\ life' = "begun"
  /\ To(q, "create")
  /\ UNCHANGED <<disk, body, files, records, req, expired, harm, failures>>

CreateBody(q) ==
  /\ stage[q] = "create"
  /\ body' = <<>>
  /\ life' = "open"
  /\ End(q)
  /\ UNCHANGED <<disk, meta, files, records, expired, overlap, harm, failures>>

\* Variant of UploadSize: getUpload() leaves the size out.
UploadSizeUnread(declares) == IF declares THEN Size ELSE Deferred

\* upload.size: of getUpload(), or of the request's Upload-Length
UploadSize(declares) == IF declares THEN Size ELSE meta.size

\* PATCH: getUpload(); the upload must not have expired, and the client's offset
\* must be the one of the metadata.
\* A client that sends the last byte of a deferred upload declares its length
\* with it, and may do so earlier.
Patch(q, r, n, declares) ==
  /\ life \in {"open", "ended"}
  /\ Lock(q, r)
  /\ meta # Absent
  /\ ~ expired
  /\ Len(files) + Cardinality(Busy) < MaxFiles
  /\ meta.offset + n <= Size
  /\ declares => meta.size = Deferred
  /\ meta.size = Deferred /\ meta.offset + n = Size => declares
  /\ req' = [req EXCEPT ![q] =
               [Nothing EXCEPT !.offset = meta.offset, !.count = n,
                               !.size = UploadSize(declares)]]
  /\ To(q, IF declares THEN "length" ELSE "get")
  /\ UNCHANGED <<disk, body, meta, files, records, life, expired, harm, failures>>

\* declareUploadLength(): readMeta(), then writeMeta().
ReadForLength(q) ==
  /\ stage[q] = "length"
  /\ meta # Absent
  /\ req' = [req EXCEPT ![q].meta = meta]
  /\ To(q, "declare")
  /\ UNCHANGED <<disk, body, meta, files, records, lock, life, expired, overlap, harm, failures>>

WriteLength(q) ==
  /\ stage[q] = "declare"
  /\ meta' = [req[q].meta EXCEPT !.size = Size]
  /\ To(q, "get")
  /\ UNCHANGED <<disk, body, files, records, req, lock, life, expired, overlap, harm, failures>>

\* Variant of InStep: the offset was checked against the metadata already.
InStepUnchecked(q) == body # Absent

\* existing.byteLength === offset
InStep(q) == body # Absent /\ Len(body) = req[q].offset

\* write(): storage.get(bodyKey)
GetBody(q) ==
  /\ stage[q] = "get"
  /\ InStep(q)
  /\ req' = [req EXCEPT ![q].read = body]
  /\ To(q, "receive")
  /\ UNCHANGED <<disk, body, meta, files, records, lock, life, expired, overlap, harm, failures>>

\* An object that is read is not there, or "tus: offset mismatch".
Throw(q) ==
  /\ \/ stage[q] = "get" /\ ~ InStep(q)
     \/ stage[q] \in {"length", "receive"} /\ meta = Absent
     \/ stage[q] = "copy" /\ body = Absent
  /\ Refuse(q)

\* collectStream(), which rejects when the client goes away: see Fail; readMeta()
Receive(q) ==
  /\ stage[q] = "receive"
  /\ meta # Absent
  /\ req' = [req EXCEPT ![q].meta = meta]
  /\ To(q, "put")
  /\ UNCHANGED <<disk, body, meta, files, records, lock, life, expired, overlap, harm, failures>>

Incoming(q) == SubSeq(Content, req[q].offset + 1, req[q].offset + req[q].count)

Merged(q) == req[q].read \o Incoming(q)

\* storage.put() of S3 and Postgres: the new object or the old one
PutBody(q) ==
  /\ stage[q] = "put"
  /\ ~ InPlace
  /\ body' = Merged(q)
  /\ To(q, "meta")
  /\ UNCHANGED <<disk, meta, files, records, req, lock, life, expired, overlap, harm, failures>>

\* LocalStorageAdapter.put(): the old bytes are gone, and some of the new written.
OverwriteBody(q) ==
  /\ stage[q] = "put"
  /\ InPlace
  /\ \E k \in 0..Len(Merged(q)) : body' = SubSeq(Merged(q), 1, k)
  /\ To(q, "fill")
  /\ UNCHANGED <<disk, meta, files, records, req, lock, life, expired, overlap, harm, failures>>

\* All are; in vain, when a finish hook has removed the file meanwhile.
FillBody(q) ==
  /\ stage[q] = "fill"
  /\ body' = IF body = Absent THEN Absent ELSE Merged(q)
  /\ To(q, "meta")
  /\ UNCHANGED <<disk, meta, files, records, req, lock, life, expired, overlap, harm, failures>>

\* meta.offset = newOffset
Progress(q) == [req[q].meta EXCEPT !.offset = Len(Merged(q))]

\* newOffset === upload.size
Complete(q) == Len(Merged(q)) = req[q].size

\* writeMeta(); @tus/server then unlocks, and calls onUploadFinish when the upload
\* is complete.
WriteMeta(q) ==
  /\ stage[q] = "meta"
  /\ meta' = Progress(q)
  /\ To(q, IF Complete(q) THEN "check" ELSE "idle")
  /\ req' = [req EXCEPT ![q] = Nothing]
  /\ lock' = [lock EXCEPT ![q] = Free]
  /\ UNCHANGED <<disk, body, files, records, life, expired, overlap, harm, failures>>

-----------------------------------------------------------------------------
\* The finish hook finds no tenant, no session, or another tenant: 400, 401, 403.
Deny(q) == stage[q] = "check" /\ Refuse(q)

Admit(q) ==
  /\ stage[q] = "check"
  /\ To(q, "copy")
  /\ UNCHANGED <<disk, body, meta, files, records, req, lock, life, expired, overlap, harm, failures>>

\* readBody(); its first bytes agree with the claimed type.
ReadBody(q) ==
  /\ stage[q] = "copy"
  /\ body # Absent
  /\ req' = [req EXCEPT ![q].read = body]
  /\ To(q, "file")
  /\ UNCHANGED <<disk, body, meta, files, records, lock, life, expired, overlap, harm, failures>>

\* They do not: 415.
Mismatch(q) == stage[q] = "copy" /\ body # Absent /\ Refuse(q)

\* adapter.put() at a key made from a new file id
PutFile(q) ==
  /\ stage[q] = "file"
  /\ files' = Append(files, req[q].read)
  /\ req' = [req EXCEPT ![q].key = Len(files) + 1]
  /\ To(q, "insert")
  /\ UNCHANGED <<disk, body, meta, records, lock, life, expired, overlap, harm, failures>>

\* Variant of InsertRecord: a retry finds the complete upload again.
InsertRecordKeeps(q) ==
  /\ stage[q] = "insert"
  /\ records' = records \cup {req[q].key}
  /\ End(q)
  /\ UNCHANGED <<disk, body, meta, files, life, expired, overlap, harm, failures>>

InsertRecord(q) ==
  /\ stage[q] = "insert"
  /\ records' = records \cup {req[q].key}
  /\ To(q, "remove")
  /\ UNCHANGED <<disk, body, meta, files, req, lock, life, expired, overlap, harm, failures>>

\* DELETE: @tus/server calls remove().
Terminate(q, r) ==
  /\ life = "open"
  /\ Lock(q, r)
  /\ life' = "ended"
  /\ To(q, "remove")
  /\ UNCHANGED <<disk, body, meta, files, records, req, expired, harm, failures>>

\* remove(): the two deletions run in parallel.
RemoveBody(q) ==
  /\ stage[q] \in {"remove", "removeBody"}
  /\ body' = Absent
  /\ IF stage[q] = "remove"
     THEN To(q, "removeMeta") /\ UNCHANGED <<req, lock>>
     ELSE End(q)
  /\ UNCHANGED <<disk, meta, files, records, life, expired, overlap, harm, failures>>

RemoveMeta(q) ==
  /\ stage[q] \in {"remove", "removeMeta"}
  /\ meta' = Absent
  /\ IF stage[q] = "remove"
     THEN To(q, "removeBody") /\ UNCHANGED <<req, lock>>
     ELSE End(q)
  /\ UNCHANGED <<disk, body, files, records, life, expired, overlap, harm, failures>>

-----------------------------------------------------------------------------
Write(q) ==
  \/ CreateBody(q)
  \/ ReadForLength(q) \/ WriteLength(q)
  \/ GetBody(q) \/ Receive(q)
  \/ PutBody(q) \/ OverwriteBody(q) \/ FillBody(q)
  \/ WriteMeta(q)
  \/ Throw(q)

Finish(q) ==
  \/ Deny(q) \/ Admit(q)
  \/ ReadBody(q) \/ Mismatch(q) \/ PutFile(q) \/ InsertRecord(q)
  \/ RemoveBody(q) \/ RemoveMeta(q)

Client(q, r) ==
  \/ \E size \in {Size, Deferred} : CreateMeta(q, r, size)
  \/ \E n \in 0..MaxChunk, declares \in BOOLEAN : Patch(q, r, n, declares)
  \/ Terminate(q, r)

Next ==
  \/ \E q \in Requests :
       Write(q) \/ Finish(q) \/ Fail(q) \/ \E r \in Replicas : Client(q, r)
  \/ Expire

Spec == Init /\ [][Next]_uploadVars

\* The client begins, and resumes with the next bytes while there are any.
Begin == \E q \in Requests, r \in Replicas, size \in {Size, Deferred} : CreateMeta(q, r, size)

Resume ==
  \E q \in Requests, r \in Replicas, n \in 1..MaxChunk, declares \in BOOLEAN :
    Patch(q, r, n, declares)

\* A request in progress goes on; the client begins, and resumes for as long as it
\* finds the lock free now and then.
UploadFairness ==
  /\ \A q \in Requests : WF_uploadVars(Write(q) \/ Finish(q))
  /\ WF_uploadVars(Begin)
  /\ SF_uploadVars(Resume)

FairSpec == Spec /\ UploadFairness

-----------------------------------------------------------------------------
(***************************************************************************)
(* What is stored is a beginning of the client's file, byte for byte: no    *)
(* chunk is appended twice or with a gap, whatever fails, also in the middle*)
(* of a put in place, and however requests and finish hooks overlap.  The   *)
(* metadata alone would not do: they lag behind the body when a request     *)
(* dies between the two puts.                                               *)
(***************************************************************************)
StoredIsPrefix ==
  \A b \in (({body} \ {Absent}) \cup {files[i] : i \in DOMAIN files}) :
    b = SubSeq(Content, 1, Len(b))

(***************************************************************************)
(* Whenever no request has the lock the offset a client is told is the      *)
(* length of the stored bytes, so that the next chunk is accepted, until    *)
(* the upload is recorded or terminated, and whatever the finish hooks do.  *)
(* It is not after a request that died between the put of the body and the  *)
(* one of the metadata, or in the middle of a put in place: every later     *)
(* PATCH is refused then; nor after requests that wrote on two replicas at  *)
(* a time.                                                                  *)
(***************************************************************************)
OffsetIsLength ==
  life = "open" /\ records = {} /\ Locked = {} /\ "lock" \notin overlap
    /\ harm \cap {"torn", "short"} = {}
  => meta # Absent /\ body # Absent /\ meta.offset = Len(body)

(***************************************************************************)
(* What a client was told is stored is not lost before it is a file: until  *)
(* the upload is recorded or terminated its two objects exist and hold at   *)
(* least the offset.  The local driver has no such promise: a put in place  *)
(* that is cut short loses bytes of earlier requests.                       *)
(***************************************************************************)
AcknowledgedIsKept ==
  life = "open" /\ records = {} /\ "lock" \notin overlap /\ "short" \notin harm
    /\ (\A q \in Requests : stage[q] # "fill")
  => meta # Absent /\ body # Absent /\ meta.offset <= Len(body)

(***************************************************************************)
(* The stored upload is sound: well typed, a beginning of the file, with an *)
(* offset the next chunk fits and nothing acknowledged lost, through every  *)
(* failure between the puts of write() and the finish hook.                 *)
(***************************************************************************)
StoredIsSound == TypeOK /\ StoredIsPrefix /\ OffsetIsLength /\ AcknowledgedIsKept

(***************************************************************************)
(* A recorded file is the client's whole file, also when requests are let   *)
(* in beside a finish hook, which has no lock: they find the upload         *)
(* complete.  Only requests that write on two replicas at a time can make   *)
(* the hook copy a body that the slower one has shortened; and the local    *)
(* driver lets it copy one that such a request is writing in place.         *)
(***************************************************************************)
RecordedIsWhole ==
  "lock" \notin overlap /\ (InPlace => "hook" \notin overlap)
    => \A k \in records : files[k] = Content

(***************************************************************************)
(* An upload becomes one file, the client's whole file.  A second one is    *)
(* made only of an upload whose requests overlapped, on two replicas or     *)
(* with the finish hook, or of one whose hook died between the insert and   *)
(* the two deletions, which the client's retry finds complete.              *)
(***************************************************************************)
RecordedOnce ==
  /\ RecordedIsWhole
  /\ Cardinality(records) > 1 => overlap # {} \/ "cut" \in harm

(***************************************************************************)
(* The upload is resumable: with requests that fail while bytes are read or *)
(* received, the client that comes back in time ends with a recorded file.  *)
(* What strands it is a failure between the two puts or in the middle of    *)
(* one in place, in the creation or in the finish hook, which no chunk      *)
(* calls again; overlapping requests; or its expiry.                        *)
(***************************************************************************)
Resumes ==
  <>(records # {} \/ life = "ended" \/ expired \/ overlap # {} \/ harm # {})
=============================================================================
