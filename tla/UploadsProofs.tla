---------------------------- MODULE UploadsProofs ---------------------------
(***************************************************************************)
(* Proofs about Uploads, for any number of replicas and of requests at a    *)
(* time, any size of the file and of its chunks, and any number of failures.*)
(***************************************************************************)
EXTENDS Uploads, SequenceTheorems, FiniteSetTheorems, TLAPS

\* A beginning of the client's file.
Pre(b) ==
  /\ b \in Bytes
  /\ Len(b) <= Size
  /\ \A i \in 1..Len(b) : b[i] = i

\* The client's file is a sequence of bytes, and a beginning of itself.
LEMMA ContentIs == Content \in Bytes /\ Len(Content) = Size /\ Pre(Content)
<1>1. Content \in Bytes
  BY UploadAssumption DEF Content, Bytes
<1>2. Len(Content) = Size
  BY UploadAssumption DEF Content
<1> QED
  BY <1>1, <1>2, UploadAssumption DEF Pre, Content

\* A beginning of the file is told by its length.
LEMMA PreIsSubSeq ==
  ASSUME NEW b, Pre(b)
  PROVE  b = SubSeq(Content, 1, Len(b)) /\ (Len(b) = Size => b = Content)
<1>1. b \in Seq(1..Size) /\ Len(b) \in Nat /\ Len(b) <= Size
  BY LenProperties DEF Pre, Bytes
<1>2. Content \in Seq(1..Size) /\ Len(Content) = Size
  BY ContentIs DEF Bytes
<1>3. /\ SubSeq(Content, 1, Len(b)) \in Seq(1..Size)
      /\ Len(SubSeq(Content, 1, Len(b))) = Len(b)
      /\ \A i \in 1..Len(b) : SubSeq(Content, 1, Len(b))[i] = Content[i]
  <2>1. \A i \in 1..Len(b) : i \in 1..Len(Content)
    BY <1>1, <1>2, UploadAssumption
  <2> QED
    BY <1>1, <1>2, <2>1, SubSeqProperties
<1>4. \A i \in 1..Len(b) : b[i] = i /\ Content[i] = i
  BY <1>1, UploadAssumption DEF Pre, Content
<1>5. b = SubSeq(Content, 1, Len(b))
  BY <1>1, <1>3, <1>4, SeqEqual
<1>6. Len(b) = Size => b = Content
  BY <1>1, <1>2, <1>4, SeqEqual
<1> QED
  BY <1>5, <1>6

\* The bytes of the file from position k to position l.
LEMMA ContentSlice ==
  ASSUME NEW k \in Nat \ {0}, NEW l \in Nat, l <= Size, k <= l + 1
  PROVE  /\ SubSeq(Content, k, l) \in Seq(1..Size)
         /\ Len(SubSeq(Content, k, l)) = l - k + 1
         /\ \A i \in 1 .. l - k + 1 : SubSeq(Content, k, l)[i] = k + i - 1
<1> DEFINE S == 1..Size
           s == Content
<1>1. \A i \in k..l : s[i] \in S /\ s[i] = i
  BY UploadAssumption DEF Content
<1> HIDE DEF S, s
<1>2. /\ SubSeq(s, k, l) \in Seq(S)
      /\ Len(SubSeq(s, k, l)) = IF k <= l THEN l - k + 1 ELSE 0
      /\ \A i \in 1 .. l - k + 1 : SubSeq(s, k, l)[i] = s[k + i - 1]
  BY <1>1, SubSeqProperties
<1>3. \A i \in 1 .. l - k + 1 : k + i - 1 \in k..l
  OBVIOUS
<1> QED
  BY <1>1, <1>2, <1>3 DEF S, s

\* A chunk appended where the beginning ends makes a longer beginning.
LEMMA ChunkExtends ==
  ASSUME NEW b, Pre(b), NEW n \in Nat, Len(b) + n <= Size
  PROVE  /\ Pre(b \o SubSeq(Content, Len(b) + 1, Len(b) + n))
         /\ Len(b \o SubSeq(Content, Len(b) + 1, Len(b) + n)) = Len(b) + n
<1> DEFINE k == Len(b)
           c == SubSeq(Content, k + 1, k + n)
           m == b \o c
<1>1. b \in Seq(1..Size) /\ k \in Nat /\ \A i \in 1..k : b[i] = i
  BY LenProperties DEF Pre, Bytes
<1>2. /\ c \in Seq(1..Size)
      /\ Len(c) = n
      /\ \A i \in 1..n : c[i] = k + i
  <2> HIDE DEF k
  <2>1. k + 1 \in Nat \ {0} /\ k + n \in Nat /\ k + n <= Size /\ k + 1 <= (k + n) + 1
    BY <1>1 DEF k
  <2>2. /\ c \in Seq(1..Size)
        /\ Len(c) = (k + n) - (k + 1) + 1
        /\ \A i \in 1 .. (k + n) - (k + 1) + 1 : c[i] = (k + 1) + i - 1
    BY <2>1, ContentSlice
  <2>3. (k + n) - (k + 1) + 1 = n /\ \A i \in 1..n : (k + 1) + i - 1 = k + i
    BY <1>1
  <2> HIDE DEF c
  <2> QED
    BY <2>2, <2>3
<1> HIDE DEF c
<1>3. /\ m \in Seq(1..Size)
      /\ Len(m) = k + n
      /\ \A i \in 1..k + n : m[i] = IF i <= k THEN b[i] ELSE c[i - k]
  BY <1>1, <1>2, ConcatProperties
<1> HIDE DEF k, m
<1>4. \A i \in 1..k + n : m[i] = i
  <2> TAKE i \in 1..k + n
  <2>1. CASE i <= k
    BY <1>1, <1>3, <2>1
  <2>2. CASE ~ (i <= k)
    BY <1>1, <1>2, <1>3, <2>2
  <2> QED
    BY <2>1, <2>2
<1>5. Pre(m) /\ Len(m) = k + n
  BY <1>3, <1>4 DEF Pre, Bytes, k
<1> QED
  BY <1>5 DEF k, m, c

\* The empty upload.
LEMMA EmptyIsPre == Pre(<<>>) /\ <<>> \in Bytes /\ Len(<<>>) = 0
BY UploadAssumption DEF Pre, Bytes

\* An object of the storage is not an absent one.
LEMMA AbsentIsNone ==
  /\ \A b \in Bytes : b # Absent
  /\ \A m \in Meta : m # Absent
BY UploadAssumption DEF Bytes, Meta

\* A beginning of a beginning is one, and no byte is added by cutting it.
LEMMA CutIsPre ==
  ASSUME NEW b, Pre(b), NEW k \in 0..Len(b)
  PROVE  Pre(SubSeq(b, 1, k)) /\ SubSeq(b, 1, k) \in Bytes
<1>1. b \in Seq(1..Size) /\ Len(b) \in Nat /\ Len(b) <= Size /\ \A i \in 1..Len(b) : b[i] = i
  BY LenProperties DEF Pre, Bytes
<1>2. k \in Nat /\ k <= Len(b) /\ \A i \in 1..k : b[i] \in 1..Size
  <2>1. \A i \in 1..k : i \in 1..Len(b) /\ i \in 1..Size
    BY <1>1, UploadAssumption
  <2> QED
    BY <1>1, <2>1
<1>3. /\ SubSeq(b, 1, k) \in Seq(1..Size)
      /\ Len(SubSeq(b, 1, k)) = k
      /\ \A i \in 1..k : SubSeq(b, 1, k)[i] = b[i]
  BY <1>1, <1>2, SubSeqProperties
<1> QED
  BY <1>1, <1>2, <1>3, UploadAssumption DEF Pre, Bytes

-----------------------------------------------------------------------------
(* The inductive invariant.                                                *)

\* Every copy of the bytes, in the storage or in the hands of a request, is a
\* beginning of the file, and a request appends where the copy it read ends.
DataInv ==
  /\ body # Absent => Pre(body)
  /\ \A i \in DOMAIN files : Pre(files[i])
  /\ \A q \in Requests :
       /\ Pre(req[q].read)
       /\ req[q].offset + req[q].count <= Size
       /\ stage[q] \in {"receive", "put", "fill", "meta"} => Len(req[q].read) = req[q].offset
       /\ stage[q] \in {"declare", "put", "fill", "meta"} => req[q].meta # Absent
       /\ stage[q] = "insert" => req[q].key \in DOMAIN files

Writing == {"length", "declare", "get", "receive", "put", "fill", "meta"}
Finishing == {"check", "copy", "file", "insert"}
Removing == {"remove", "removeBody", "removeMeta"}

\* What the client knows orders the requests: nothing runs before the POST,
\* and only the POST runs until it is answered.
LifeInv ==
  /\ life = "none" => \A q \in Requests : stage[q] = "idle"
  /\ life = "begun" => \A q \in Requests : stage[q] \in {"idle", "create"}
  /\ life \in {"none", "begun"} => records = {}
  /\ \A q \in Requests : stage[q] = "create" => life = "begun"
  /\ \A p, q \in Requests : stage[p] = "create" /\ stage[q] = "create" => p = q

\* Who has a lock: a request that writes, and none in its finish hook.
LockAt(q) ==
  /\ stage[q] \in {"create"} \cup Writing => lock[q] # Free
  /\ stage[q] \in {"idle"} \cup Finishing => lock[q] = Free
  /\ stage[q] \in Removing => IF lock[q] = Free THEN records # {} ELSE life = "ended"
  /\ stage[q] = "fill" => InPlace

LocksInv ==
  /\ \A q \in Requests : LockAt(q)
  /\ "lock" \notin overlap => \A p, q \in Requests : lock[p] # Free /\ lock[q] # Free => p = q
  /\ overlap = {} => \A p, q \in Requests : stage[p] # "idle" /\ stage[q] # "idle" => p = q

\* What a request with the only lock finds until the upload is recorded: the
\* objects as it left them.
HoldAt(q) ==
  /\ stage[q] = "create" => meta # Absent /\ meta.offset = 0
  /\ stage[q] \in Writing => meta # Absent /\ meta.offset = req[q].offset
  /\ stage[q] = "declare" => meta = req[q].meta
  /\ stage[q] \in {"receive", "put"} => body = req[q].read
  /\ stage[q] = "fill" => body # Absent
  /\ stage[q] = "meta" => body = Merged(q)

HoldInv == "lock" \notin overlap /\ records = {} => \A q \in Requests : HoldAt(q)

\* The offset keeps up with the body, but for the time of the puts.
OffsetInv ==
  life = "open" /\ records = {} /\ "lock" \notin overlap /\ harm \cap {"torn", "short"} = {}
    /\ (\A q \in Requests : stage[q] \notin {"fill", "meta"})
  => meta # Absent /\ body # Absent /\ meta.offset = Len(body)

\* A finish hook finds the whole file: a request that is let in beside it puts
\* what it has read, which is complete, and one that writes in place is not let in.
Undisturbed == "lock" \notin overlap /\ (InPlace => "hook" \notin overlap)

WholeAt(q) ==
  /\ stage[q] = "meta" => body \in {Merged(q), Absent}
  /\ stage[q] \in {"check", "copy"} =>
       /\ body \in {Content, Absent}
       /\ \A p \in Requests : stage[p] \in {"receive", "put", "meta"} => Merged(p) = Content
  /\ stage[q] = "file" => req[q].read = Content
  /\ stage[q] = "insert" => files[req[q].key] = Content

WholeInv ==
  Undisturbed =>
    /\ \A q \in Requests : WholeAt(q)
    /\ \A k \in records : files[k] = Content

\* A recorded upload is on its way out: no PATCH can be let in any more.
OnceInv ==
  overlap = {} =>
    /\ \A q \in Requests : stage[q] = "removeBody" => meta = Absent
    /\ "cut" \notin harm =>
         /\ \A j, k \in records : j = k
         /\ records # {} =>
              /\ \A q \in Requests : stage[q] \in {"idle"} \cup Removing
              /\ meta # Absent => \E q \in Requests : stage[q] \in {"remove", "removeMeta"}

-----------------------------------------------------------------------------
(* Types and data.                                                         *)

\* A request that holds nothing.
LEMMA NothingIs == Nothing \in Request /\ Pre(Nothing.read)
<1>1. Nothing \in Request
  BY UploadAssumption, EmptyIsPre DEF Nothing, Request
<1>2. Nothing.read = <<>>
  BY DEF Nothing
<1> QED
  BY <1>1, <1>2, EmptyIsPre

\* What write() puts: the bytes it read and the chunk behind them.
LEMMA MergedIs ==
  ASSUME TypeOK, DataInv, NEW q \in Requests, stage[q] \in {"receive", "put", "fill", "meta"}
  PROVE  /\ Pre(Merged(q)) /\ Merged(q) \in Bytes
         /\ Len(Merged(q)) = Len(req[q].read) + req[q].count
         /\ Len(Merged(q)) \in 0..Size
<1>1. /\ req[q] \in Request
      /\ Pre(req[q].read) /\ Len(req[q].read) = req[q].offset
      /\ req[q].offset + req[q].count <= Size
  BY DEF TypeOK, DataInv
<1>2. req[q].count \in Nat /\ req[q].offset \in Nat
  BY <1>1 DEF Request
<1>3. Pre(Merged(q)) /\ Len(Merged(q)) = Len(req[q].read) + req[q].count
  BY <1>1, <1>2, ChunkExtends DEF Merged, Incoming
<1> QED
  BY <1>1, <1>2, <1>3, UploadAssumption DEF Pre

\* The two parts of the type invariant: what is stored and held, and what orders
\* the requests.
StoreOK ==
  /\ body \in Bytes \cup {Absent}
  /\ meta \in Meta \cup {Absent}
  /\ files \in Seq(Bytes)
  /\ records \subseteq DOMAIN files
  /\ req \in [Requests -> Request]

ControlOK ==
  /\ disk \in Disks
  /\ stage \in [Requests -> Stage]
  /\ lock \in [Requests -> Replicas \cup {Free}]
  /\ life \in {"none", "begun", "open", "ended"}
  /\ expired \in BOOLEAN
  /\ overlap \subseteq {"lock", "hook"}
  /\ harm \subseteq Harm
  /\ failures \in 0..MaxFailures

\* What a request in progress, a refused or failed one, or a new one does.
Step(q) == Write(q) \/ Finish(q) \/ Fail(q) \/ \E r \in Replicas : Client(q, r)

\* Every step is one of a request, or the expiry of the upload.
LEMMA NextIs == Next <=> (\E q \in Requests : Step(q)) \/ Expire
BY DEF Next, Step

\* A step of a request leaves the others what they hold; nothing recorded, harmed
\* or met is undone, and a request that comes in takes a lock.
Moves(q) ==
  /\ \A p \in Requests \ {q} : stage'[p] = stage[p] /\ req'[p] = req[p] /\ lock'[p] = lock[p]
  /\ disk' = disk /\ expired' = expired
  /\ records \subseteq records' /\ harm \subseteq harm' /\ overlap \subseteq overlap'
  /\ life = "ended" => life' = "ended"
  /\ \/ stage[q] # "idle" /\ overlap' = overlap /\ lock'[q] \in {lock[q], Free}
     \/ \E r \in Replicas : Lock(q, r) /\ harm' = harm

\* Every step of a request is such a move, and keeps the types of the control.
LEMMA StepMoves ==
  ASSUME TypeOK, LifeInv, NEW q \in Requests, Step(q)
  PROVE  Moves(q) /\ ControlOK'
<1> USE UploadAssumption DEF TypeOK, Moves, ControlOK, To, End
<1>1. \A s \in Stage : HarmAt(s) \subseteq Harm
  BY DEF HarmAt
<1>2. ASSUME NEW r \in Replicas, Client(q, r) PROVE Moves(q) /\ ControlOK'
  <2>1. /\ Lock(q, r) /\ disk' = disk /\ expired' = expired /\ records' = records
        /\ harm' = harm /\ failures' = failures
    BY <1>2 DEF Client, CreateMeta, Patch, Terminate
  <2>2. /\ lock' = [lock EXCEPT ![q] = r]
        /\ overlap \subseteq overlap' /\ overlap' \subseteq {"lock", "hook"}
    BY <2>1 DEF Lock
  <2>3. \E s \in {"create", "length", "get", "remove"} : stage' = [stage EXCEPT ![q] = s]
    BY <1>2 DEF Client, CreateMeta, Patch, Terminate
  <2>4. \A p \in Requests \ {q} : req'[p] = req[p]
    BY <1>2 DEF Client, CreateMeta, Patch, Terminate
  <2>5. life' \in {"begun", "open", "ended"} /\ (life = "ended" => life' = "ended")
    BY <1>2 DEF Client, CreateMeta, Patch, Terminate
  <2> QED
    BY <2>1, <2>2, <2>3, <2>4, <2>5 DEF Stage
<1>3. ASSUME CreateBody(q) \/ ReadForLength(q) \/ WriteLength(q) \/ GetBody(q) \/ Receive(q)
             \/ PutBody(q) \/ OverwriteBody(q) \/ FillBody(q) \/ WriteMeta(q)
      PROVE  Moves(q) /\ ControlOK'
  <2>1. /\ disk' = disk /\ expired' = expired /\ records' = records /\ harm' = harm
        /\ failures' = failures /\ overlap' = overlap /\ stage[q] # "idle"
    BY <1>3 DEF CreateBody, ReadForLength, WriteLength, GetBody, Receive, PutBody,
                OverwriteBody, FillBody, WriteMeta
  <2>2. \E s \in Stage : stage' = [stage EXCEPT ![q] = s]
    BY <1>3 DEF CreateBody, ReadForLength, WriteLength, GetBody, Receive, PutBody,
                OverwriteBody, FillBody, WriteMeta, Stage
  <2>3. \A p \in Requests \ {q} : req'[p] = req[p]
    BY <1>3 DEF CreateBody, ReadForLength, WriteLength, GetBody, Receive, PutBody,
                OverwriteBody, FillBody, WriteMeta
  <2>4. lock' = lock \/ lock' = [lock EXCEPT ![q] = Free]
    BY <1>3 DEF CreateBody, ReadForLength, WriteLength, GetBody, Receive, PutBody,
                OverwriteBody, FillBody, WriteMeta
  <2>5. life' = life \/ (life = "begun" /\ life' = "open")
    BY <1>3 DEF CreateBody, ReadForLength, WriteLength, GetBody, Receive, PutBody,
                OverwriteBody, FillBody, WriteMeta, LifeInv
  <2> QED
    BY <2>1, <2>2, <2>3, <2>4, <2>5
<1>4. ASSUME Refuse(q) \/ Fail(q), stage[q] # "idle" PROVE Moves(q) /\ ControlOK'
  <2>1. /\ disk' = disk /\ expired' = expired /\ records' = records
        /\ overlap' = overlap /\ life' = life
        /\ harm' = harm \cup HarmAt(stage[q])
    BY <1>4 DEF Refuse, Fail
  <2>2. /\ stage' = [stage EXCEPT ![q] = "idle"]
        /\ req' = [req EXCEPT ![q] = Nothing]
        /\ lock' = [lock EXCEPT ![q] = Free]
    BY <1>4 DEF Refuse, Fail
  <2>3. failures' \in 0..MaxFailures
    BY <1>4 DEF Refuse, Fail
  <2>4. harm' \subseteq Harm
    BY <1>1, <2>1
  <2> QED
    BY <1>4, <2>1, <2>2, <2>3, <2>4 DEF Stage
<1>5. ASSUME Admit(q) \/ ReadBody(q) \/ PutFile(q) \/ InsertRecord(q) \/ RemoveBody(q)
             \/ RemoveMeta(q)
      PROVE  Moves(q) /\ ControlOK'
  <2>1. /\ disk' = disk /\ expired' = expired /\ records \subseteq records' /\ harm' = harm
        /\ failures' = failures /\ overlap' = overlap /\ stage[q] # "idle" /\ life' = life
    BY <1>5 DEF Admit, ReadBody, PutFile, InsertRecord, RemoveBody, RemoveMeta
  <2>2. \E s \in Stage : stage' = [stage EXCEPT ![q] = s]
    BY <1>5 DEF Admit, ReadBody, PutFile, InsertRecord, RemoveBody, RemoveMeta, Stage
  <2>3. \A p \in Requests \ {q} : req'[p] = req[p]
    BY <1>5 DEF Admit, ReadBody, PutFile, InsertRecord, RemoveBody, RemoveMeta
  <2>4. lock' = lock \/ lock' = [lock EXCEPT ![q] = Free]
    BY <1>5 DEF Admit, ReadBody, PutFile, InsertRecord, RemoveBody, RemoveMeta
  <2> QED
    BY <2>1, <2>2, <2>3, <2>4
<1>6. Write(q) => \/ Refuse(q) /\ stage[q] # "idle"
                  \/ CreateBody(q) \/ ReadForLength(q) \/ WriteLength(q) \/ GetBody(q)
                  \/ Receive(q) \/ PutBody(q) \/ OverwriteBody(q) \/ FillBody(q) \/ WriteMeta(q)
  BY DEF Write, Throw
<1>7. Finish(q) => \/ Refuse(q) /\ stage[q] # "idle"
                   \/ Admit(q) \/ ReadBody(q) \/ PutFile(q) \/ InsertRecord(q) \/ RemoveBody(q)
                   \/ RemoveMeta(q)
  BY DEF Finish, Deny, Mismatch
<1>8. Fail(q) => stage[q] # "idle"
  BY DEF Fail
<1> QED
  BY <1>2, <1>3, <1>4, <1>5, <1>6, <1>7, <1>8 DEF Step


\* What a request holds, with other metadata or other bytes.
LEMMA HoldsAnother ==
  ASSUME NEW w \in Request
  PROVE  /\ \A m \in Meta : /\ [w EXCEPT !.meta = m] \in Request
                            /\ [w EXCEPT !.meta = m].meta = m
                            /\ [w EXCEPT !.meta = m].read = w.read
                            /\ [w EXCEPT !.meta = m].offset = w.offset
                            /\ [w EXCEPT !.meta = m].count = w.count
         /\ \A b \in Bytes : /\ [w EXCEPT !.read = b] \in Request
                             /\ [w EXCEPT !.read = b].read = b
                             /\ [w EXCEPT !.read = b].meta = w.meta
                             /\ [w EXCEPT !.read = b].offset = w.offset
                             /\ [w EXCEPT !.read = b].count = w.count
<1>1. ASSUME NEW m \in Meta
      PROVE  /\ [w EXCEPT !.meta = m] \in Request
             /\ [w EXCEPT !.meta = m].meta = m
             /\ [w EXCEPT !.meta = m].read = w.read
             /\ [w EXCEPT !.meta = m].offset = w.offset
             /\ [w EXCEPT !.meta = m].count = w.count
  BY DEF Request
<1>2. ASSUME NEW b \in Bytes
      PROVE  /\ [w EXCEPT !.read = b] \in Request
             /\ [w EXCEPT !.read = b].read = b
             /\ [w EXCEPT !.read = b].meta = w.meta
             /\ [w EXCEPT !.read = b].offset = w.offset
             /\ [w EXCEPT !.read = b].count = w.count
  BY DEF Request
<1> QED
  BY <1>1, <1>2

\* A step that changes no bytes is sound if what its request holds is.
LEMMA HoldsStep ==
  ASSUME TypeOK, DataInv, NEW q \in Requests, NEW w \in Request, NEW s \in Stage,
         req' = [req EXCEPT ![q] = w], stage' = [stage EXCEPT ![q] = s],
         UNCHANGED <<body, files, records>>, meta' \in Meta \cup {Absent},
         Pre(w.read), w.offset + w.count <= Size,
         s \in {"receive", "put", "fill", "meta"} => Len(w.read) = w.offset,
         s \in {"declare", "put", "fill", "meta"} => w.meta # Absent,
         s # "insert"
  PROVE  StoreOK' /\ DataInv'
<1>1. StoreOK'
  BY DEF TypeOK, StoreOK
<1>2. \A p \in Requests : /\ p = q => req'[p] = w /\ stage'[p] = s
                          /\ p # q => req'[p] = req[p] /\ stage'[p] = stage[p]
  BY DEF TypeOK
<1>3. (body' # Absent => Pre(body')) /\ \A i \in DOMAIN files' : Pre(files'[i])
  BY DEF DataInv
<1>4. ASSUME NEW p \in Requests
      PROVE  /\ Pre(req'[p].read)
             /\ req'[p].offset + req'[p].count <= Size
             /\ stage'[p] \in {"receive", "put", "fill", "meta"} =>
                  Len(req'[p].read) = req'[p].offset
             /\ stage'[p] \in {"declare", "put", "fill", "meta"} => req'[p].meta # Absent
             /\ stage'[p] = "insert" => req'[p].key \in DOMAIN files'
  <2>1. CASE p = q
    BY <1>2, <2>1
  <2>2. CASE p # q
    BY <1>2, <2>2 DEF DataInv
  <2> QED
    BY <2>1, <2>2
<1> QED
  BY <1>1, <1>3, <1>4 DEF DataInv

\* A step of a request leaves a well-typed state behind, with beginnings of
\* the file only.
LEMMA DataStep == TypeOK /\ DataInv /\ LifeInv /\ [Next]_uploadVars => TypeOK' /\ DataInv'
<1> SUFFICES ASSUME TypeOK, DataInv, LifeInv, [Next]_uploadVars PROVE TypeOK' /\ DataInv'
  OBVIOUS
<1> USE UploadAssumption DEF TypeOK, StoreOK, DataInv
<1>1. ASSUME NEW q \in Requests, NEW r, NEW size \in {Size, Deferred},
             CreateMeta(q, r, size)
      PROVE  StoreOK' /\ DataInv'
  BY <1>1 DEF CreateMeta, Lock, To, Stage, Meta
<1>2. ASSUME NEW q \in Requests, CreateBody(q) PROVE StoreOK' /\ DataInv'
  BY <1>2, EmptyIsPre, NothingIs DEF CreateBody, End, To, Stage, Nothing
<1>3. ASSUME NEW q \in Requests, NEW r, NEW n \in 0..MaxChunk,
             NEW declares \in BOOLEAN, Patch(q, r, n, declares)
      PROVE  StoreOK' /\ DataInv'
  <2>1. meta \in Meta
    BY <1>3 DEF Patch
  <2> DEFINE w == [Nothing EXCEPT !.offset = meta.offset, !.count = n,
                                  !.size = UploadSize(declares)]
  <2>2. w \in Request /\ w.read = Nothing.read /\ w.offset + w.count <= Size
    <3>1. meta.offset \in 0..Size /\ n \in 0..Size /\ meta.offset + n <= Size
      BY <1>3, <2>1 DEF Patch, Meta
    <3>2. UploadSize(declares) \in {Size, Deferred}
      BY <2>1 DEF Meta, UploadSize
    <3> HIDE DEF TypeOK, StoreOK, DataInv
    <3> QED
      BY <3>1, <3>2, NothingIs DEF Request, Nothing
  <2>3. req' = [req EXCEPT ![q] = w] /\ stage'[q] \in {"length", "get"}
        /\ stage' = [stage EXCEPT ![q] = stage'[q]]
    BY <1>3 DEF Patch, To
  <2>4. UNCHANGED <<body, meta, files, records>>
    BY <1>3 DEF Patch
  <2> HIDE DEF w
  <2> QED
    BY <2>2, <2>3, <2>4, NothingIs DEF Stage
<1>4. ASSUME NEW q \in Requests, ReadForLength(q) PROVE StoreOK' /\ DataInv'
  <2>1. /\ stage[q] = "length" /\ meta \in Meta /\ req[q] \in Request
        /\ req' = [req EXCEPT ![q] = [req[q] EXCEPT !.meta = meta]]
        /\ stage' = [stage EXCEPT ![q] = "declare"]
        /\ UNCHANGED <<body, meta, files, records>>
    BY <1>4 DEF ReadForLength, To
  <2>2. Pre(req[q].read) /\ req[q].offset + req[q].count <= Size /\ meta # Absent
    BY <2>1, AbsentIsNone
  <2>3. PICK w \in Request : w = [req[q] EXCEPT !.meta = meta]
    BY <2>1, HoldsAnother
  <2> HIDE DEF TypeOK, StoreOK, DataInv
  <2>4. /\ w.meta = meta /\ w.read = req[q].read /\ w.offset = req[q].offset
        /\ w.count = req[q].count
    BY <2>1, <2>3, HoldsAnother
  <2>5. req' = [req EXCEPT ![q] = w] /\ meta' \in Meta \cup {Absent}
    BY <2>1, <2>2, <2>3
  <2> QED
    BY <2>1, <2>2, <2>4, <2>5, HoldsStep DEF Stage
<1>5. ASSUME NEW q \in Requests, WriteLength(q) PROVE StoreOK' /\ DataInv'
  <2>1. /\ stage[q] = "declare" /\ req[q] \in Request /\ req[q].meta \in Meta
        /\ meta' = [req[q].meta EXCEPT !.size = Size]
        /\ stage' = [stage EXCEPT ![q] = "get"]
        /\ UNCHANGED <<body, files, records, req>>
    BY <1>5 DEF WriteLength, To, Request
  <2>2. Pre(req[q].read) /\ req[q].offset + req[q].count <= Size
    BY <2>1
  <2>3. req' = [req EXCEPT ![q] = req[q]]
    BY <2>1
  <2> HIDE DEF TypeOK, StoreOK, DataInv
  <2>4. meta' \in Meta
    BY <2>1 DEF Meta
  <2> QED
    BY <2>1, <2>2, <2>3, <2>4, HoldsStep DEF Stage
<1>6. ASSUME NEW q \in Requests, GetBody(q) PROVE StoreOK' /\ DataInv'
  <2>1. /\ stage[q] = "get" /\ body \in Bytes /\ Pre(body) /\ req[q] \in Request
        /\ Len(body) = req[q].offset
        /\ req' = [req EXCEPT ![q] = [req[q] EXCEPT !.read = body]]
        /\ stage' = [stage EXCEPT ![q] = "receive"]
        /\ UNCHANGED <<body, meta, files, records>>
    BY <1>6 DEF GetBody, InStep, To
  <2>2. req[q].offset + req[q].count <= Size /\ meta \in Meta \cup {Absent}
    OBVIOUS
  <2>3. PICK w \in Request : w = [req[q] EXCEPT !.read = body]
    BY <2>1, HoldsAnother
  <2> HIDE DEF TypeOK, StoreOK, DataInv
  <2>4. /\ w.read = body /\ w.meta = req[q].meta /\ w.offset = req[q].offset
        /\ w.count = req[q].count
    BY <2>1, <2>3, HoldsAnother
  <2>5. req' = [req EXCEPT ![q] = w] /\ meta' \in Meta \cup {Absent}
    BY <2>1, <2>2, <2>3
  <2> QED
    BY <2>1, <2>2, <2>4, <2>5, HoldsStep DEF Stage
<1>7. ASSUME NEW q \in Requests, Receive(q) PROVE StoreOK' /\ DataInv'
  <2>1. /\ stage[q] = "receive" /\ meta \in Meta /\ req[q] \in Request
        /\ req' = [req EXCEPT ![q] = [req[q] EXCEPT !.meta = meta]]
        /\ stage' = [stage EXCEPT ![q] = "put"]
        /\ UNCHANGED <<body, meta, files, records>>
    BY <1>7 DEF Receive, To
  <2>2. /\ Pre(req[q].read) /\ req[q].offset + req[q].count <= Size /\ meta # Absent
        /\ Len(req[q].read) = req[q].offset
    BY <2>1, AbsentIsNone
  <2>3. PICK w \in Request : w = [req[q] EXCEPT !.meta = meta]
    BY <2>1, HoldsAnother
  <2> HIDE DEF TypeOK, StoreOK, DataInv
  <2>4. /\ w.meta = meta /\ w.read = req[q].read /\ w.offset = req[q].offset
        /\ w.count = req[q].count
    BY <2>1, <2>3, HoldsAnother
  <2>5. req' = [req EXCEPT ![q] = w] /\ meta' \in Meta \cup {Absent}
    BY <2>1, <2>2, <2>3
  <2> QED
    BY <2>1, <2>2, <2>4, <2>5, HoldsStep DEF Stage
<1>8. ASSUME NEW q \in Requests, PutBody(q) PROVE StoreOK' /\ DataInv'
  BY <1>8, MergedIs DEF PutBody, To, Stage
<1>9. ASSUME NEW q \in Requests, OverwriteBody(q) PROVE StoreOK' /\ DataInv'
  <2>1. PICK k \in 0..Len(Merged(q)) : body' = SubSeq(Merged(q), 1, k)
    BY <1>9 DEF OverwriteBody
  <2>2. Pre(Merged(q))
    BY <1>9, MergedIs DEF OverwriteBody
  <2>3. Pre(body') /\ body' \in Bytes
    BY <2>1, <2>2, CutIsPre
  <2>4. /\ UNCHANGED <<meta, files, records, req>> /\ stage[q] = "put"
        /\ stage' = [stage EXCEPT ![q] = "fill"]
    BY <1>9 DEF OverwriteBody, To
  <2> QED
    BY <2>3, <2>4
<1>10. ASSUME NEW q \in Requests, FillBody(q) PROVE StoreOK' /\ DataInv'
  BY <1>10, MergedIs DEF FillBody, To
<1>11. ASSUME NEW q \in Requests, WriteMeta(q) PROVE StoreOK' /\ DataInv'
  <2>1. Progress(q) \in Meta
    <3>1. req[q].meta \in Meta
      BY <1>11 DEF WriteMeta, Request
    <3>2. Len(Merged(q)) \in 0..Size
      BY <1>11, MergedIs DEF WriteMeta
    <3> HIDE DEF TypeOK, StoreOK, DataInv
    <3> QED
      BY <3>1, <3>2 DEF Progress, Meta
  <2>2. /\ req' = [req EXCEPT ![q] = Nothing]
        /\ stage' = [stage EXCEPT ![q] = stage'[q]]
        /\ stage'[q] \in {"check", "idle"}
    BY <1>11 DEF WriteMeta, End, To
  <2> QED
    BY <1>11, <2>1, <2>2, NothingIs DEF WriteMeta, Stage, Nothing
<1>12. ASSUME NEW q \in Requests, Refuse(q) \/ Fail(q) PROVE StoreOK' /\ DataInv'
  <2>1. /\ stage' = [stage EXCEPT ![q] = "idle"]
        /\ req' = [req EXCEPT ![q] = Nothing]
        /\ UNCHANGED <<body, files, records>>
        /\ meta' \in {meta, Absent}
    BY <1>12 DEF Refuse, Fail, End, To
  <2> QED
    BY <2>1, NothingIs DEF Nothing
<1>13. ASSUME NEW q \in Requests, Admit(q) PROVE StoreOK' /\ DataInv'
  BY <1>13 DEF Admit, To, Stage
<1>14. ASSUME NEW q \in Requests, ReadBody(q) PROVE StoreOK' /\ DataInv'
  <2>1. /\ body \in Bytes /\ Pre(body) /\ req[q] \in Request
        /\ req' = [req EXCEPT ![q] = [req[q] EXCEPT !.read = body]]
        /\ stage' = [stage EXCEPT ![q] = "file"]
        /\ UNCHANGED <<body, meta, files, records>>
    BY <1>14 DEF ReadBody, To
  <2>2. req[q].offset + req[q].count <= Size /\ meta \in Meta \cup {Absent}
    OBVIOUS
  <2>3. PICK w \in Request : w = [req[q] EXCEPT !.read = body]
    BY <2>1, HoldsAnother
  <2> HIDE DEF TypeOK, StoreOK, DataInv
  <2>4. /\ w.read = body /\ w.meta = req[q].meta /\ w.offset = req[q].offset
        /\ w.count = req[q].count
    BY <2>1, <2>3, HoldsAnother
  <2>5. req' = [req EXCEPT ![q] = w] /\ meta' \in Meta \cup {Absent}
    BY <2>1, <2>2, <2>3
  <2> QED
    BY <2>1, <2>2, <2>4, <2>5, HoldsStep DEF Stage
<1>15. ASSUME NEW q \in Requests, PutFile(q) PROVE StoreOK' /\ DataInv'
  <2>1. req[q].read \in Bytes /\ Pre(req[q].read)
    BY DEF Request
  <2>2. /\ files' \in Seq(Bytes)
        /\ DOMAIN files' = DOMAIN files \cup {Len(files) + 1}
        /\ \A i \in DOMAIN files : files'[i] = files[i]
        /\ files'[Len(files) + 1] = req[q].read
    BY <1>15, <2>1 DEF PutFile
  <2>3. Len(files) + 1 \in Nat
    OBVIOUS
  <2>4. /\ req' = [req EXCEPT ![q].key = Len(files) + 1]
        /\ stage' = [stage EXCEPT ![q] = "insert"]
        /\ UNCHANGED <<body, meta, records>>
    BY <1>15 DEF PutFile, To
  <2>5. req' \in [Requests -> Request]
    <3>1. [req[q] EXCEPT !.key = Len(files) + 1] \in Request
      <4>1. req[q] \in Request
        OBVIOUS
      <4> HIDE DEF TypeOK, StoreOK, DataInv
      <4> QED
        BY <2>3, <4>1 DEF Request
    <3> QED
      BY <2>4, <3>1
  <2>6. StoreOK'
    BY <2>2, <2>4, <2>5 DEF Stage
  <2>7. \A i \in DOMAIN files' : Pre(files'[i])
    BY <2>1, <2>2
  <2>8. \A p \in Requests : /\ req'[p].read = req[p].read /\ req'[p].meta = req[p].meta
                            /\ req'[p].offset = req[p].offset /\ req'[p].count = req[p].count
                            /\ p # q => req'[p].key = req[p].key
    BY <2>4, SMTT(30) DEF Request
  <2>9. req'[q].key \in DOMAIN files'
    BY <2>2, <2>4 DEF Request
  <2>10. DataInv'
    BY <2>2, <2>4, <2>7, <2>8, <2>9
  <2> QED
    BY <2>6, <2>10
<1>16. ASSUME NEW q \in Requests, InsertRecord(q) PROVE StoreOK' /\ DataInv'
  BY <1>16 DEF InsertRecord, To, Stage
<1>17. ASSUME NEW q \in Requests, NEW r, Terminate(q, r) PROVE StoreOK' /\ DataInv'
  BY <1>17 DEF Terminate, Lock, To, Stage
<1>18. ASSUME NEW q \in Requests, RemoveBody(q) \/ RemoveMeta(q) PROVE StoreOK' /\ DataInv'
  <2>1. /\ req' = req \/ req' = [req EXCEPT ![q] = Nothing]
        /\ body' \in {body, Absent} /\ meta' \in {meta, Absent}
        /\ UNCHANGED <<files, records>>
    BY <1>18 DEF RemoveBody, RemoveMeta, End
  <2>2. \E s \in {"removeBody", "removeMeta", "idle"} : stage' = [stage EXCEPT ![q] = s]
    BY <1>18 DEF RemoveBody, RemoveMeta, End, To
  <2>3. StoreOK'
    BY <2>1, NothingIs
  <2>4. DataInv'
    BY <2>1, <2>2, NothingIs DEF Nothing
  <2> QED
    BY <2>3, <2>4
<1>19. ASSUME Expire \/ UNCHANGED uploadVars PROVE StoreOK' /\ DataInv'
  BY <1>19 DEF Expire, uploadVars
<1>20. StoreOK' /\ DataInv'
  <2> HIDE DEF TypeOK, StoreOK, DataInv
  <2>1. ASSUME NEW q \in Requests, Write(q) PROVE StoreOK' /\ DataInv'
    BY <1>2, <1>4, <1>5, <1>6, <1>7, <1>8, <1>11, <1>12, <1>9, <1>10, <2>1 DEF Write, Throw
  <2>2. ASSUME NEW q \in Requests, Finish(q) PROVE StoreOK' /\ DataInv'
    BY <1>12, <1>13, <1>14, <1>15, <1>16, <1>18, <2>2 DEF Finish, Deny, Mismatch
  <2>3. ASSUME NEW q \in Requests, NEW r \in Replicas, Client(q, r) PROVE StoreOK' /\ DataInv'
    BY <1>1, <1>3, <1>17, <2>3 DEF Client
  <2>4. ASSUME NEW q \in Requests, Step(q) PROVE StoreOK' /\ DataInv'
    BY <1>12, <2>1, <2>2, <2>3, <2>4 DEF Step
  <2> QED
    BY <1>19, <2>4, NextIs
<1>21. ControlOK'
  <2>1. CASE \E q \in Requests : Step(q)
    BY <2>1, StepMoves
  <2>2. CASE Expire \/ UNCHANGED uploadVars
    BY <2>2 DEF Expire, uploadVars, ControlOK
  <2> QED
    BY <2>1, <2>2, NextIs
<1> QED
  BY <1>20, <1>21 DEF ControlOK

-----------------------------------------------------------------------------
(* The order of the requests, their locks, and what a lock is good for.    *)

\* The life of the upload orders its requests.
LEMMA LifeStep == TypeOK /\ LifeInv /\ [Next]_uploadVars => LifeInv'
<1> SUFFICES ASSUME TypeOK, LifeInv, [Next]_uploadVars PROVE LifeInv'
  OBVIOUS
<1> USE DEF TypeOK, LifeInv
<1>1. ASSUME NEW q \in Requests, NEW r \in Replicas, Client(q, r) PROVE LifeInv'
  <2>1. ASSUME NEW size, CreateMeta(q, r, size) PROVE LifeInv'
    <3>1. /\ life = "none" /\ life' = "begun" /\ records' = records
          /\ stage' = [stage EXCEPT ![q] = "create"]
      BY <2>1 DEF CreateMeta, To
    <3> QED
      BY <3>1
  <2>2. ASSUME NEW n, NEW declares, Patch(q, r, n, declares) PROVE LifeInv'
    <3>1. /\ life \in {"open", "ended"} /\ life' = life /\ records' = records
          /\ \E s \in {"length", "get"} : stage' = [stage EXCEPT ![q] = s]
      BY <2>2 DEF Patch, To
    <3> QED
      BY <3>1
  <2>3. CASE Terminate(q, r)
    <3>1. life' = "ended" /\ stage' = [stage EXCEPT ![q] = "remove"] /\ life = "open"
      BY <2>3 DEF Terminate, To
    <3> QED
      BY <3>1
  <2> HIDE DEF TypeOK, LifeInv
  <2> QED
    BY <1>1, <2>1, <2>2, <2>3 DEF Client
<1>2. ASSUME NEW q \in Requests, Write(q) PROVE LifeInv'
  <2>1. CASE CreateBody(q)
    <3>1. stage[q] = "create"
      BY <2>1 DEF CreateBody
    <3>2. life' = "open" /\ stage' = [stage EXCEPT ![q] = "idle"]
      BY <2>1 DEF CreateBody, End, To
    <3> QED
      BY <3>1, <3>2
  <2>2. CASE ReadForLength(q) \/ WriteLength(q) \/ GetBody(q) \/ Receive(q) \/ PutBody(q)
             \/ OverwriteBody(q) \/ FillBody(q)
    BY <2>2 DEF ReadForLength, WriteLength, GetBody, Receive, PutBody, OverwriteBody,
                FillBody, To
  <2>3. CASE WriteMeta(q) \/ Throw(q)
    BY <2>3 DEF WriteMeta, Throw, Refuse, End, To
  <2> QED
    BY <1>2, <2>1, <2>2, <2>3 DEF Write
<1>3. ASSUME NEW q \in Requests, Finish(q) PROVE LifeInv'
  BY <1>3 DEF Finish, Deny, Admit, ReadBody, Mismatch, PutFile, InsertRecord, RemoveBody,
              RemoveMeta, Refuse, End, To
<1>4. ASSUME NEW q \in Requests, Fail(q) PROVE LifeInv'
  BY <1>4 DEF Fail, End, To
<1>5. CASE Expire \/ UNCHANGED uploadVars
  BY <1>5 DEF Expire, uploadVars
<1> HIDE DEF TypeOK, LifeInv
<1> QED
  BY <1>1, <1>2, <1>3, <1>4, <1>5, NextIs DEF Step

\* The request that moves has the lock its new stage needs.
LEMMA LockOfMover ==
  ASSUME TypeOK, LocksInv, NEW q \in Requests, Step(q)
  PROVE  LockAt(q)'
<1> USE UploadAssumption DEF LockAt, Writing, Finishing, Removing, InPlace, To, End
<1>1. /\ LockAt(q) /\ stage \in [Requests -> Stage] /\ lock \in [Requests -> Replicas \cup {Free}]
  BY DEF TypeOK, LocksInv
<1>2. ASSUME NEW r \in Replicas, Client(q, r) PROVE LockAt(q)'
  <2>1. lock'[q] = r /\ r # Free
    BY <1>1, <1>2 DEF Client, CreateMeta, Patch, Terminate, Lock
  <2>2. \/ stage'[q] \in {"create", "length", "get"}
        \/ stage'[q] = "remove" /\ life' = "ended"
    BY <1>1, <1>2 DEF Client, CreateMeta, Patch, Terminate
  <2> QED
    BY <2>1, <2>2
<1>3. ASSUME stage'[q] = "idle", lock'[q] = Free PROVE LockAt(q)'
  BY <1>3
<1>4. ASSUME CreateBody(q) \/ Refuse(q) \/ Fail(q) PROVE LockAt(q)'
  BY <1>1, <1>3, <1>4 DEF CreateBody, Refuse, Fail
<1>5. ASSUME ReadForLength(q) \/ WriteLength(q) \/ GetBody(q) \/ Receive(q) \/ PutBody(q)
             \/ OverwriteBody(q) \/ FillBody(q)
      PROVE  LockAt(q)'
  <2>1. lock' = lock /\ lock[q] # Free /\ disk' = disk
    BY <1>1, <1>5 DEF ReadForLength, WriteLength, GetBody, Receive, PutBody, OverwriteBody,
                      FillBody
  <2>2. \/ stage'[q] \in {"declare", "get", "receive", "put", "meta"}
        \/ stage'[q] = "fill" /\ InPlace
    BY <1>1, <1>5 DEF ReadForLength, WriteLength, GetBody, Receive, PutBody, OverwriteBody,
                      FillBody
  <2> QED
    BY <2>1, <2>2
<1>6. ASSUME WriteMeta(q) PROVE LockAt(q)'
  BY <1>1, <1>6 DEF WriteMeta
<1>7. ASSUME Admit(q) \/ ReadBody(q) \/ PutFile(q) PROVE LockAt(q)'
  BY <1>1, <1>7 DEF Admit, ReadBody, PutFile
<1>8. ASSUME InsertRecord(q) PROVE LockAt(q)'
  <2>1. req[q].key \in records' /\ stage'[q] = "remove" /\ lock'[q] = Free
    BY <1>1, <1>8 DEF InsertRecord
  <2>2. records' # {}
    BY <2>1
  <2> QED
    BY <2>1, <2>2
<1>9. ASSUME RemoveBody(q) \/ RemoveMeta(q) PROVE LockAt(q)'
  <2>1. stage[q] \in Removing /\ UNCHANGED <<records, life>>
    BY <1>9 DEF RemoveBody, RemoveMeta
  <2>2. \/ stage'[q] \in Removing /\ lock' = lock
        \/ stage'[q] = "idle" /\ lock'[q] = Free
    BY <1>1, <1>9 DEF RemoveBody, RemoveMeta
  <2> QED
    BY <1>1, <1>3, <2>1, <2>2
<1> HIDE DEF LockAt
<1>10. ASSUME Write(q) PROVE LockAt(q)'
  BY <1>4, <1>5, <1>6, <1>10 DEF Write, Throw
<1>11. ASSUME Finish(q) PROVE LockAt(q)'
  BY <1>4, <1>7, <1>8, <1>9, <1>11 DEF Finish, Deny, Mismatch
<1> QED
  BY <1>2, <1>4, <1>10, <1>11 DEF Step

\* The locks of one replica exclude each other; those of two are told apart.
LEMMA LocksStep == TypeOK /\ LifeInv /\ LocksInv /\ [Next]_uploadVars => LocksInv'
<1> SUFFICES ASSUME TypeOK, LifeInv, LocksInv, [Next]_uploadVars PROVE LocksInv'
  OBVIOUS
<1>1. ASSUME NEW q \in Requests, Step(q) PROVE LocksInv'
  <2>1. Moves(q)
    BY <1>1, StepMoves
  <2>2. ASSUME NEW p \in Requests PROVE LockAt(p)'
    <3>1. CASE p = q
      BY <1>1, <3>1, LockOfMover
    <3>2. CASE p # q
      <4>1. stage'[p] = stage[p] /\ lock'[p] = lock[p] /\ disk' = disk
        BY <2>1, <3>2 DEF Moves
      <4>2. LockAt(p) /\ (records # {} => records' # {}) /\ (life = "ended" => life' = "ended")
        BY <2>1 DEF LocksInv, Moves
      <4> QED
        BY <4>1, <4>2 DEF LockAt, InPlace
    <3> QED
      BY <3>1, <3>2
  <2>3. ASSUME "lock" \notin overlap', NEW p \in Requests, NEW s \in Requests,
               lock'[p] # Free, lock'[s] # Free
        PROVE  p = s
    <3>1. \A o, u \in Requests : lock[o] # Free /\ lock[u] # Free => o = u
      BY <2>1, <2>3 DEF LocksInv, Moves
    <3>2. CASE lock'[q] \in {lock[q], Free}
      <4>1. lock[p] # Free /\ lock[s] # Free
        BY <2>1, <2>3, <3>2 DEF Moves
      <4> QED
        BY <3>1, <4>1
    <3>3. CASE \E r \in Replicas : Lock(q, r)
      <4>1. Locked = {}
        BY <2>3, <3>3 DEF Lock
      <4>2. p = q /\ s = q
        BY <2>1, <2>3, <4>1 DEF Locked, Moves
      <4> QED
        BY <4>2
    <3> QED
      BY <2>1, <3>2, <3>3 DEF Moves
  <2>4. ASSUME overlap' = {}, NEW p \in Requests, NEW s \in Requests,
               stage'[p] # "idle", stage'[s] # "idle"
        PROVE  p = s
    <3>1. \A o, u \in Requests : stage[o] # "idle" /\ stage[u] # "idle" => o = u
      BY <2>1, <2>4 DEF LocksInv, Moves
    <3>2. CASE stage[q] # "idle"
      BY <2>1, <2>4, <3>1, <3>2 DEF Moves
    <3>3. CASE \E r \in Replicas : Lock(q, r)
      <4>1. Locked = {} /\ Busy \ Locked = {}
        BY <2>4, <3>3 DEF Lock
      <4>2. Busy = {}
        BY <4>1
      <4>3. p = q /\ s = q
        BY <2>1, <2>4, <4>2 DEF Busy, Moves
      <4> QED
        BY <4>3
    <3> QED
      BY <2>1, <3>2, <3>3 DEF Moves
  <2> QED
    BY <2>2, <2>3, <2>4 DEF LocksInv
<1>2. CASE Expire \/ UNCHANGED uploadVars
  <2>1. UNCHANGED <<disk, records, stage, lock, life, overlap>>
    BY <1>2 DEF Expire, uploadVars
  <2>2. \A q \in Requests : LockAt(q)' <=> LockAt(q)
    BY <2>1 DEF LockAt, InPlace
  <2> QED
    BY <2>1, <2>2 DEF LocksInv
<1> QED
  BY <1>1, <1>2, NextIs

\* While only one request has a lock nobody else writes.
LEMMA AloneWithLock ==
  ASSUME LocksInv, LocksInv', NEW q \in Requests, Moves(q), "lock" \notin overlap',
         lock[q] # Free \/ lock'[q] # Free,
         NEW p \in Requests, p # q
  PROVE  lock[p] = Free /\ stage[p] \notin {"create"} \cup Writing /\ stage'[p] = stage[p]
<1>1. "lock" \notin overlap /\ stage'[p] = stage[p] /\ lock'[p] = lock[p]
  BY DEF Moves
<1>2. lock[p] = Free
  BY <1>1 DEF LocksInv
<1> QED
  BY <1>1, <1>2 DEF LocksInv, LockAt

\* The request that moves finds the objects as it left them.
LEMMA HoldOfMover ==
  ASSUME TypeOK, DataInv, LocksInv, NEW q \in Requests, HoldAt(q), Step(q)
  PROVE  HoldAt(q)'
<1> USE DEF To, End
<1>1. /\ stage \in [Requests -> Stage] /\ req \in [Requests -> Request] /\ req[q] \in Request
      /\ meta \in Meta \cup {Absent}
  BY DEF TypeOK
<1>2. ASSUME stage'[q] \notin {"create"} \cup Writing PROVE HoldAt(q)'
  BY <1>2 DEF HoldAt, Writing
<1>3. ASSUME NEW r \in Replicas, NEW size \in {Size, Deferred}, CreateMeta(q, r, size)
      PROVE  HoldAt(q)'
  <2>1. meta' = [offset |-> 0, size |-> size] /\ meta' \in Meta
    BY <1>3, UploadAssumption DEF CreateMeta, Meta
  <2>2. meta' # Absent /\ meta'.offset = 0 /\ stage'[q] = "create"
    BY <1>1, <1>3, <2>1, AbsentIsNone DEF CreateMeta
  <2> QED
    BY <2>2 DEF HoldAt, Writing
<1>4. ASSUME NEW r \in Replicas, NEW n \in 0..MaxChunk, NEW declares \in BOOLEAN,
             Patch(q, r, n, declares)
      PROVE  HoldAt(q)'
  <2>1. stage'[q] \in {"length", "get"} /\ meta' = meta /\ meta # Absent
    BY <1>1, <1>4 DEF Patch
  <2>2. req'[q].offset = meta.offset
    BY <1>1, <1>4 DEF Patch, Nothing
  <2> QED
    BY <2>1, <2>2 DEF HoldAt, Writing
<1>5. ASSUME NEW r \in Replicas, Terminate(q, r) PROVE HoldAt(q)'
  BY <1>1, <1>2, <1>5 DEF Terminate, Writing
<1>6. ASSUME CreateBody(q) \/ Refuse(q) \/ Fail(q) \/ WriteMeta(q) PROVE HoldAt(q)'
  BY <1>1, <1>2, <1>6 DEF CreateBody, Refuse, Fail, WriteMeta, Writing
<1>7. ASSUME ReadForLength(q) PROVE HoldAt(q)'
  <2>1. stage'[q] = "declare" /\ meta' = meta /\ meta # Absent /\ meta.offset = req[q].offset
    BY <1>1, <1>7 DEF ReadForLength, HoldAt, Writing
  <2>2. req'[q].meta = meta /\ req'[q].offset = req[q].offset
    BY <1>1, <1>7 DEF ReadForLength, Request
  <2> QED
    BY <2>1, <2>2 DEF HoldAt, Writing
<1>8. ASSUME WriteLength(q) PROVE HoldAt(q)'
  <2>1. meta \in Meta /\ meta = req[q].meta /\ meta.offset = req[q].offset
    BY <1>1, <1>8 DEF WriteLength, HoldAt, Writing
  <2>2. meta' \in Meta /\ meta'.offset = meta.offset
    BY <1>8, <2>1 DEF WriteLength, Meta
  <2>3. stage'[q] = "get" /\ req' = req
    BY <1>1, <1>8 DEF WriteLength
  <2> QED
    BY <2>1, <2>2, <2>3, AbsentIsNone DEF HoldAt, Writing
<1>9. ASSUME GetBody(q) \/ Receive(q) PROVE HoldAt(q)'
  <2>1. /\ stage'[q] \in {"receive", "put"} /\ meta' = meta /\ body' = body
        /\ meta # Absent /\ meta.offset = req[q].offset
    BY <1>1, <1>9 DEF GetBody, Receive, HoldAt, Writing
  <2>2. req'[q].read = body /\ req'[q].offset = req[q].offset
    BY <1>1, <1>9 DEF GetBody, Receive, Request, HoldAt
  <2> QED
    BY <2>1, <2>2 DEF HoldAt, Writing
<1>10. ASSUME PutBody(q) PROVE HoldAt(q)'
  <2>1. /\ stage'[q] = "meta" /\ meta' = meta /\ req' = req /\ body' = Merged(q)
        /\ meta # Absent /\ meta.offset = req[q].offset
    BY <1>1, <1>10 DEF PutBody, HoldAt, Writing
  <2>2. Merged(q)' = Merged(q)
    BY <2>1 DEF Merged, Incoming
  <2> QED
    BY <2>1, <2>2 DEF HoldAt, Writing
<1>11. ASSUME OverwriteBody(q) PROVE HoldAt(q)'
  <2>1. /\ stage'[q] = "fill" /\ meta' = meta /\ req' = req
        /\ meta # Absent /\ meta.offset = req[q].offset
    BY <1>1, <1>11 DEF OverwriteBody, HoldAt, Writing
  <2>2. body' # Absent
    <3>1. PICK k \in 0..Len(Merged(q)) : body' = SubSeq(Merged(q), 1, k)
      BY <1>11 DEF OverwriteBody
    <3>2. Pre(Merged(q))
      BY <1>11, MergedIs DEF OverwriteBody
    <3> QED
      BY <3>1, <3>2, CutIsPre, AbsentIsNone
  <2> QED
    BY <2>1, <2>2 DEF HoldAt, Writing
<1>12. ASSUME FillBody(q) PROVE HoldAt(q)'
  <2>1. /\ stage'[q] = "meta" /\ meta' = meta /\ req' = req /\ body' = Merged(q)
        /\ meta # Absent /\ meta.offset = req[q].offset
    BY <1>1, <1>12 DEF FillBody, HoldAt, Writing
  <2>2. Merged(q)' = Merged(q)
    BY <2>1 DEF Merged, Incoming
  <2> QED
    BY <2>1, <2>2 DEF HoldAt, Writing
<1>13. ASSUME Admit(q) \/ ReadBody(q) \/ PutFile(q) \/ InsertRecord(q) \/ RemoveBody(q)
              \/ RemoveMeta(q)
       PROVE  HoldAt(q)'
  <2>1. stage'[q] \in {"copy", "file", "insert", "remove", "removeBody", "removeMeta", "idle"}
    BY <1>1, <1>13 DEF Admit, ReadBody, PutFile, InsertRecord, RemoveBody, RemoveMeta
  <2> QED
    BY <1>2, <2>1 DEF Writing
<1>14. ASSUME Write(q) PROVE HoldAt(q)'
  BY <1>6, <1>7, <1>8, <1>9, <1>10, <1>11, <1>12, <1>14 DEF Write, Throw
<1>15. ASSUME Finish(q) PROVE HoldAt(q)'
  BY <1>6, <1>13, <1>15 DEF Finish, Deny, Mismatch
<1>16. ASSUME NEW r \in Replicas, Client(q, r) PROVE HoldAt(q)'
  BY <1>3, <1>4, <1>5, <1>16 DEF Client
<1> QED
  BY <1>6, <1>14, <1>15, <1>16 DEF Step

\* The objects are written by the request that has the lock, until the upload is
\* recorded: a finish hook only reads them.
LEMMA WriterHasLock ==
  ASSUME TypeOK, LifeInv, LocksInv, NEW q \in Requests, Step(q), records' = {},
         lock[q] = Free, lock'[q] = Free
  PROVE  body' = body /\ meta' = meta
<1>1. /\ LockAt(q) /\ lock \in [Requests -> Replicas \cup {Free}]
      /\ records = {}
  BY StepMoves DEF TypeOK, LocksInv, Moves
<1>2. stage[q] \in {"idle"} \cup Finishing \cup {"remove", "removeBody", "removeMeta"}
  BY <1>1 DEF TypeOK, LockAt, Stage, Writing, Finishing
<1>3. stage[q] \notin {"remove", "removeBody", "removeMeta"}
  BY <1>1 DEF LockAt, Removing
<1>4. stage[q] \in {"idle", "check", "copy", "file", "insert"}
  BY <1>2, <1>3 DEF Finishing
<1>5. ASSUME NEW r \in Replicas, Client(q, r) PROVE FALSE
  <2>1. lock'[q] = r
    BY <1>1, <1>5 DEF Client, CreateMeta, Patch, Terminate, Lock
  <2> QED
    BY <2>1, UploadAssumption
<1>6. ASSUME Write(q) PROVE body' = body /\ meta' = meta
  BY <1>4, <1>6 DEF Write, CreateBody, ReadForLength, WriteLength, GetBody, Receive, PutBody,
                    OverwriteBody, FillBody, WriteMeta, Throw, Refuse
<1>7. ASSUME Finish(q) PROVE body' = body /\ meta' = meta
  BY <1>4, <1>7 DEF Finish, Deny, Admit, ReadBody, Mismatch, PutFile, InsertRecord, RemoveBody,
                    RemoveMeta, Refuse
<1>8. ASSUME Fail(q) PROVE body' = body /\ meta' = meta
  BY <1>4, <1>8 DEF Fail
<1> QED
  BY <1>5, <1>6, <1>7, <1>8 DEF Step

\* A request with the only lock finds the objects as it left them.
LEMMA HoldStep ==
  ASSUME TypeOK, DataInv, LifeInv, LocksInv, LocksInv', HoldInv, [Next]_uploadVars
  PROVE  HoldInv'
<1> SUFFICES ASSUME "lock" \notin overlap', records' = {}, NEW p \in Requests
             PROVE  HoldAt(p)'
  BY DEF HoldInv
<1>1. ASSUME NEW q \in Requests, Step(q) PROVE HoldAt(p)'
  <2>1. Moves(q)
    BY <1>1, StepMoves
  <2>2. "lock" \notin overlap /\ records = {}
    BY <2>1 DEF Moves
  <2>3. HoldAt(p) /\ HoldAt(q)
    BY <2>2 DEF HoldInv
  <2>4. CASE p = q
    BY <1>1, <2>3, <2>4, HoldOfMover
  <2>5. CASE p # q /\ lock[q] = Free /\ lock'[q] = Free
    <3>1. body' = body /\ meta' = meta
      BY <1>1, <2>5, WriterHasLock
    <3>2. stage'[p] = stage[p] /\ req'[p] = req[p]
      BY <2>1, <2>5 DEF Moves
    <3>3. Merged(p)' = Merged(p)
      BY <3>2 DEF Merged, Incoming
    <3> QED
      BY <2>3, <3>1, <3>2, <3>3 DEF HoldAt
  <2>6. CASE p # q /\ ~ (lock[q] = Free /\ lock'[q] = Free)
    <3>1. stage'[p] \notin {"create"} \cup Writing
      BY <2>1, <2>6, AloneWithLock
    <3> QED
      BY <3>1 DEF HoldAt, Writing
  <2> QED
    BY <2>4, <2>5, <2>6
<1>2. CASE Expire \/ UNCHANGED uploadVars
  <2>1. UNCHANGED <<body, meta, records, stage, req, overlap>>
    BY <1>2 DEF Expire, uploadVars
  <2>2. Merged(p)' = Merged(p)
    BY <2>1 DEF Merged, Incoming
  <2> QED
    BY <2>1, <2>2 DEF HoldInv, HoldAt
<1> QED
  BY <1>1, <1>2, NextIs

\* The invariant all the theorems below rest on.
UploadInv == TypeOK /\ DataInv /\ LifeInv /\ LocksInv /\ HoldInv

\* It holds in every reachable state.
LEMMA UploadInvHolds == Spec => []UploadInv
<1>1. Init => UploadInv
  <2> SUFFICES ASSUME Init PROVE UploadInv
    OBVIOUS
  <2>1. StoreOK
    <3>1. files = <<>> /\ records = {} /\ body = Absent /\ meta = Absent
      BY DEF Init
    <3>2. req \in [Requests -> Request]
      BY NothingIs DEF Init
    <3> QED
      BY <3>1, <3>2 DEF StoreOK
  <2>2. ControlOK
    <3>1. stage \in [Requests -> Stage] /\ lock \in [Requests -> Replicas \cup {Free}]
      BY DEF Init, Stage
    <3>2. disk \in Disks /\ life = "none" /\ expired = FALSE /\ overlap = {} /\ harm = {}
      BY DEF Init
    <3>3. failures \in 0..MaxFailures
      BY UploadAssumption DEF Init
    <3> QED
      BY <3>1, <3>2, <3>3 DEF ControlOK
  <2>3. TypeOK
    BY <2>1, <2>2 DEF TypeOK, StoreOK, ControlOK
  <2>4. DataInv
    BY NothingIs, UploadAssumption DEF Init, DataInv, Nothing
  <2>5. LifeInv /\ LocksInv /\ HoldInv
    BY DEF Init, LifeInv, LocksInv, LockAt, HoldInv, HoldAt, Writing, Finishing, Removing
  <2> QED
    BY <2>3, <2>4, <2>5 DEF UploadInv
<1>2. UploadInv /\ [Next]_uploadVars => UploadInv'
  <2> SUFFICES ASSUME UploadInv, [Next]_uploadVars PROVE UploadInv'
    OBVIOUS
  <2>1. TypeOK' /\ DataInv' /\ LifeInv' /\ LocksInv'
    BY DataStep, LifeStep, LocksStep DEF UploadInv
  <2>2. HoldInv'
    BY <2>1, HoldStep DEF UploadInv
  <2> QED
    BY <2>1, <2>2 DEF UploadInv
<1> QED
  BY <1>1, <1>2, PTL DEF Spec

\* Every reachable state is well typed: above all, no request leaves an offset
\* beyond the file or records a key nothing was put at.
THEOREM UploadTypeCorrect == Spec => []TypeOK
<1>1. UploadInv => TypeOK
  BY DEF UploadInv
<1> QED
  BY <1>1, UploadInvHolds, PTL

\* What is stored, as the upload or as a file, is a beginning of the client's
\* file, byte for byte, for any number of replicas, failures and overlaps, and
\* also in the middle of a put in place.
THEOREM StoredPrefix == Spec => []StoredIsPrefix
<1>1. UploadInv => StoredIsPrefix
  BY PreIsSubSeq DEF UploadInv, DataInv, StoredIsPrefix
<1> QED
  BY <1>1, UploadInvHolds, PTL

-----------------------------------------------------------------------------
(* Offsets.                                                                *)

\* A step that leaves the objects alone and cuts no put short.
Quiet(q) ==
  /\ body' = body /\ meta' = meta /\ life = "open"
  /\ stage[q] \notin {"fill", "meta"}

\* What a request of an open, unrecorded upload does to its objects, and what it
\* relies on: it opens the upload, leaves them, declares the length, puts or ends
\* the puts, or is cut short.
LEMMA OpenStep ==
  ASSUME UploadInv, NEW q \in Requests, Step(q), life' = "open", records' = {},
         "lock" \notin overlap'
  PROVE  \/ Quiet(q)
         \/ body' = <<>> /\ meta' = meta /\ meta # Absent /\ meta.offset = 0
         \/ /\ body' = body /\ meta \in Meta /\ meta' \in Meta /\ meta'.offset = meta.offset
            /\ life = "open" /\ stage[q] = "declare" /\ harm' = harm
         \/ /\ body' = Merged(q) /\ meta' = meta /\ meta \in Meta
            /\ stage[q] \in {"put", "fill"} /\ stage'[q] = "meta"
            /\ meta.offset = Len(req[q].read)
         \/ stage'[q] = "fill"
         \/ /\ body' = Merged(q) /\ meta' \in Meta /\ meta'.offset = Len(body')
            /\ stage[q] = "meta"
         \/ /\ body' = body /\ meta' = meta /\ life = "open"
            /\ stage[q] = "meta" /\ "torn" \in harm'
         \/ "short" \in harm'
<1>1. Moves(q) /\ "lock" \notin overlap /\ records = {} /\ LockAt(q) /\ HoldAt(q)
  BY StepMoves DEF UploadInv, Moves, LocksInv, HoldInv
<1>2. stage \in [Requests -> Stage] /\ req[q] \in Request /\ meta \in Meta \cup {Absent}
  BY DEF UploadInv, TypeOK
<1>3. ASSUME NEW r \in Replicas, Client(q, r) PROVE Quiet(q)
  BY <1>3 DEF Client, CreateMeta, Patch, Terminate, Lock, Quiet
<1>4. ASSUME CreateBody(q)
      PROVE  body' = <<>> /\ meta' = meta /\ meta # Absent /\ meta.offset = 0
  BY <1>1, <1>4 DEF CreateBody, HoldAt
<1>5. ASSUME Refuse(q), stage[q] \notin {"fill", "meta"} PROVE Quiet(q)
  BY <1>5 DEF Refuse, Quiet
<1>6. ASSUME ReadForLength(q) \/ GetBody(q) \/ Receive(q) \/ Admit(q) \/ ReadBody(q)
             \/ PutFile(q)
      PROVE  Quiet(q)
  BY <1>6 DEF ReadForLength, GetBody, Receive, Admit, ReadBody, PutFile, Quiet
<1>7. ASSUME WriteLength(q)
      PROVE  /\ body' = body /\ meta \in Meta /\ meta' \in Meta /\ meta'.offset = meta.offset
             /\ life = "open" /\ stage[q] = "declare" /\ harm' = harm
  <2>1. stage[q] = "declare" /\ meta = req[q].meta /\ meta \in Meta
    BY <1>1, <1>2, <1>7 DEF WriteLength, HoldAt, Writing
  <2> QED
    BY <1>7, <2>1 DEF WriteLength, Meta
<1>8. ASSUME PutBody(q) \/ FillBody(q)
      PROVE  /\ body' = Merged(q) /\ meta' = meta /\ meta \in Meta
             /\ stage[q] \in {"put", "fill"} /\ stage'[q] = "meta"
             /\ meta.offset = Len(req[q].read)
  <2>1. body' = Merged(q) /\ meta' = meta /\ stage[q] \in {"put", "fill"} /\ stage'[q] = "meta"
    BY <1>1, <1>2, <1>8 DEF PutBody, FillBody, HoldAt, To
  <2>2. meta # Absent /\ meta.offset = req[q].offset
    BY <1>1, <2>1 DEF HoldAt, Writing
  <2>3. Len(req[q].read) = req[q].offset
    BY <2>1 DEF UploadInv, DataInv
  <2> QED
    BY <1>2, <2>1, <2>2, <2>3
<1>9. ASSUME OverwriteBody(q) PROVE stage'[q] = "fill"
  BY <1>2, <1>9 DEF OverwriteBody, To
<1>10. ASSUME WriteMeta(q)
       PROVE  /\ body' = Merged(q) /\ meta' \in Meta /\ meta'.offset = Len(body')
              /\ stage[q] = "meta"
  <2>1. stage[q] = "meta" /\ body' = body /\ body = Merged(q) /\ meta' = Progress(q)
    BY <1>1, <1>10 DEF WriteMeta, HoldAt
  <2>2. req[q].meta \in Meta
    BY <1>2, <2>1 DEF UploadInv, DataInv, Request
  <2>3. Len(Merged(q)) \in 0..Size
    BY <2>1, MergedIs DEF UploadInv
  <2>4. Progress(q) \in Meta /\ Progress(q).offset = Len(Merged(q))
    BY <2>2, <2>3 DEF Progress, Meta
  <2> QED
    BY <2>1, <2>4
<1>11. ASSUME InsertRecord(q) PROVE FALSE
  <2>1. req[q].key \in records'
    BY <1>11 DEF InsertRecord
  <2> QED
    BY <2>1
<1>12. ASSUME RemoveBody(q) \/ RemoveMeta(q) PROVE FALSE
  <2>1. stage[q] \in Removing /\ life = "open"
    BY <1>12 DEF RemoveBody, RemoveMeta, Removing
  <2> QED
    BY <1>1, <2>1 DEF LockAt
<1>13. ASSUME Fail(q)
       PROVE  \/ Quiet(q)
              \/ /\ body' = body /\ meta' = meta /\ life = "open"
                 /\ stage[q] = "meta" /\ "torn" \in harm'
              \/ "short" \in harm'
  <2>1. body' = body /\ life = "open" /\ harm' = harm \cup HarmAt(stage[q])
    BY <1>13 DEF Fail
  <2>2. CASE stage[q] = "fill" \/ (InPlace /\ stage[q] \in {"declare", "meta"})
    BY <2>1, <2>2 DEF HarmAt, Harm
  <2>3. CASE ~ (stage[q] = "fill" \/ (InPlace /\ stage[q] \in {"declare", "meta"}))
    <3>1. meta' = meta
      BY <1>13, <2>3 DEF Fail
    <3>2. stage[q] = "meta" => "torn" \in harm'
      BY <2>1 DEF HarmAt, Harm
    <3> QED
      BY <2>1, <2>3, <3>1, <3>2 DEF Quiet
  <2> QED
    BY <2>2, <2>3
<1>14. Throw(q) => Refuse(q) /\ stage[q] \notin {"fill", "meta"}
  BY DEF Throw
<1>15. Deny(q) \/ Mismatch(q) => Refuse(q) /\ stage[q] \notin {"fill", "meta"}
  BY DEF Deny, Mismatch
<1>16. CASE Write(q)
  BY <1>4, <1>5, <1>6, <1>7, <1>8, <1>9, <1>10, <1>14, <1>16 DEF Write
<1>17. CASE Finish(q)
  BY <1>5, <1>6, <1>11, <1>12, <1>15, <1>17 DEF Finish
<1> QED
  BY <1>3, <1>13, <1>16, <1>17 DEF Step

\* The offset keeps up with the body.
LEMMA OffsetStep == UploadInv /\ OffsetInv /\ [Next]_uploadVars => OffsetInv'
<1> SUFFICES ASSUME UploadInv, OffsetInv, [Next]_uploadVars PROVE OffsetInv'
  OBVIOUS
<1>1. ASSUME NEW q \in Requests, Step(q) PROVE OffsetInv'
  <2> SUFFICES ASSUME life' = "open", records' = {}, "lock" \notin overlap',
                      harm' \cap {"torn", "short"} = {},
                      \A p \in Requests : stage'[p] \notin {"fill", "meta"}
               PROVE  meta' # Absent /\ body' # Absent /\ meta'.offset = Len(body')
    BY DEF OffsetInv
  <2>1. Moves(q)
    BY <1>1, StepMoves DEF UploadInv
  <2>2. records = {} /\ "lock" \notin overlap /\ harm \cap {"torn", "short"} = {}
    BY <2>1 DEF Moves
  <2>3. ASSUME life = "open", stage[q] \notin {"fill", "meta"}
        PROVE  meta # Absent /\ body # Absent /\ meta.offset = Len(body)
    <3>1. \A p \in Requests : stage[p] \notin {"fill", "meta"}
      BY <2>1, <2>3 DEF Moves
    <3> QED
      BY <2>2, <2>3, <3>1 DEF OffsetInv
  <2>4. CASE Quiet(q)
    BY <2>3, <2>4 DEF Quiet
  <2>5. CASE body' = <<>> /\ meta' = meta /\ meta # Absent /\ meta.offset = 0
    BY <2>5, EmptyIsPre, AbsentIsNone
  <2>6. CASE /\ body' = body /\ meta \in Meta /\ meta' \in Meta /\ meta'.offset = meta.offset
             /\ life = "open" /\ stage[q] = "declare" /\ harm' = harm
    BY <2>3, <2>6, AbsentIsNone
  <2>7. CASE /\ body' = Merged(q) /\ meta' \in Meta /\ meta'.offset = Len(body')
             /\ stage[q] = "meta"
    BY <2>7, MergedIs, AbsentIsNone DEF UploadInv
  <2>8. stage'[q] \notin {"fill", "meta"} /\ "torn" \notin harm' /\ "short" \notin harm'
    OBVIOUS
  <2> QED
    BY <1>1, <2>4, <2>5, <2>6, <2>7, <2>8, OpenStep
<1>2. CASE Expire \/ UNCHANGED uploadVars
  BY <1>2 DEF Expire, uploadVars, OffsetInv
<1> QED
  BY <1>1, <1>2, NextIs

\* What was acknowledged stays, until it is a file or the client ends it.
LEMMA KeptStep ==
  UploadInv /\ AcknowledgedIsKept /\ [Next]_uploadVars => AcknowledgedIsKept'
<1> SUFFICES ASSUME UploadInv, AcknowledgedIsKept, [Next]_uploadVars
             PROVE  AcknowledgedIsKept'
  OBVIOUS
<1>1. ASSUME NEW q \in Requests, Step(q) PROVE AcknowledgedIsKept'
  <2> SUFFICES ASSUME life' = "open", records' = {}, "lock" \notin overlap',
                      "short" \notin harm', \A p \in Requests : stage'[p] # "fill"
               PROVE  meta' # Absent /\ body' # Absent /\ meta'.offset <= Len(body')
    BY DEF AcknowledgedIsKept
  <2>1. Moves(q)
    BY <1>1, StepMoves DEF UploadInv
  <2>2. records = {} /\ "lock" \notin overlap /\ "short" \notin harm
    BY <2>1 DEF Moves
  <2>3. ASSUME life = "open", stage[q] # "fill"
        PROVE  meta # Absent /\ body # Absent /\ meta.offset <= Len(body)
    <3>1. \A p \in Requests : stage[p] # "fill"
      BY <2>1, <2>3 DEF Moves
    <3> QED
      BY <2>2, <2>3, <3>1 DEF AcknowledgedIsKept
  <2>4. CASE /\ body' = body /\ meta' = meta /\ life = "open" /\ stage[q] # "fill"
    BY <2>3, <2>4
  <2>5. CASE body' = <<>> /\ meta' = meta /\ meta # Absent /\ meta.offset = 0
    BY <2>5, EmptyIsPre, AbsentIsNone
  <2>6. CASE /\ body' = body /\ meta \in Meta /\ meta' \in Meta /\ meta'.offset = meta.offset
             /\ life = "open" /\ stage[q] = "declare" /\ harm' = harm
    BY <2>3, <2>6, AbsentIsNone
  <2>7. CASE /\ body' = Merged(q) /\ meta' = meta /\ meta \in Meta
             /\ stage[q] \in {"put", "fill"} /\ meta.offset = Len(req[q].read)
    <3>1. /\ Merged(q) \in Bytes /\ Len(Merged(q)) = Len(req[q].read) + req[q].count
      BY <2>7, MergedIs DEF UploadInv
    <3>2. req[q].count \in Nat /\ Len(req[q].read) \in Nat
      <4>1. req[q] \in Request
        BY DEF UploadInv, TypeOK
      <4> QED
        BY <4>1 DEF Request, Bytes
    <3> QED
      BY <2>7, <3>1, <3>2, AbsentIsNone
  <2>8. CASE /\ body' = Merged(q) /\ meta' \in Meta /\ meta'.offset = Len(body')
             /\ stage[q] = "meta"
    <3>1. Merged(q) \in Bytes /\ Len(Merged(q)) \in 0..Size
      BY <2>8, MergedIs DEF UploadInv
    <3> QED
      BY <2>8, <3>1, AbsentIsNone, UploadAssumption
  <2>9. Quiet(q) => body' = body /\ meta' = meta /\ life = "open" /\ stage[q] # "fill"
    BY DEF Quiet
  <2>10. stage'[q] # "fill"
    OBVIOUS
  <2> QED
    BY <1>1, <2>4, <2>5, <2>6, <2>7, <2>8, <2>9, <2>10, OpenStep
<1>2. CASE Expire \/ UNCHANGED uploadVars
  BY <1>2 DEF Expire, uploadVars, AcknowledgedIsKept
<1> QED
  BY <1>1, <1>2, NextIs

\* The stored upload is sound: a beginning of the file, with an offset the next
\* chunk fits and nothing acknowledged lost, through every failure between two
\* awaits of write(), declareUploadLength() and the finish hook, where the driver
\* puts atomically; and where it puts in place, until such a put is cut short.
THEOREM StoredSound == Spec => []StoredIsSound
<1>1. Init => OffsetInv /\ AcknowledgedIsKept
  BY DEF Init, OffsetInv, AcknowledgedIsKept
<1>2. ASSUME UploadInv, OffsetInv PROVE OffsetIsLength
  <2>1. Locked = {} => \A q \in Requests : stage[q] \notin {"fill", "meta"}
    BY <1>2 DEF UploadInv, LocksInv, LockAt, Locked, Writing
  <2> QED
    BY <1>2, <2>1 DEF OffsetInv, OffsetIsLength
<1>3. TypeOK /\ StoredIsPrefix /\ OffsetIsLength /\ AcknowledgedIsKept => StoredIsSound
  BY DEF StoredIsSound
<1> QED
  BY <1>1, <1>2, <1>3, UploadInvHolds, UploadTypeCorrect, StoredPrefix, OffsetStep, KeptStep, PTL
  DEF Spec

-----------------------------------------------------------------------------
(* Records.                                                                *)

\* A local upload whose hooks met no request has one request at a time.
LEMMA InPlaceIsSolo ==
  ASSUME UploadInv, Undisturbed, InPlace, NEW p \in Requests, NEW q \in Requests,
         stage[p] # "idle", stage[q] # "idle"
  PROVE  p = q
<1>1. overlap = {}
  BY DEF UploadInv, TypeOK, Undisturbed
<1> QED
  BY <1>1 DEF UploadInv, LocksInv

\* A step that touches neither the bytes nor who reads them.
LEMMA WholeQuiet ==
  ASSUME UploadInv, WholeInv, NEW q \in Requests, Moves(q), Undisturbed',
         body' \in {body, Absent}, files' = files, records' = records,
         stage'[q] \notin {"receive", "put", "meta", "check", "copy", "file", "insert"}
  PROVE  WholeInv'
<1>1. Undisturbed
  BY DEF Undisturbed, Moves, InPlace
<1>2. \A p \in Requests \ {q} : Merged(p)' = Merged(p)
  BY DEF Moves, Merged, Incoming
<1>3. ASSUME NEW p \in Requests PROVE WholeAt(p)'
  <2>1. CASE p = q
    BY <2>1 DEF WholeAt
  <2>2. CASE p # q
    <3>1. stage'[p] = stage[p] /\ req'[p] = req[p] /\ Merged(p)' = Merged(p) /\ WholeAt(p)
      BY <1>1, <1>2, <2>2 DEF Moves, WholeInv
    <3>2. \A o \in Requests : stage'[o] \in {"receive", "put", "meta"} =>
            o # q /\ stage'[o] = stage[o] /\ Merged(o)' = Merged(o)
      BY <1>2 DEF Moves
    <3> QED
      BY <3>1, <3>2 DEF WholeAt
  <2> QED
    BY <2>1, <2>2
<1>4. \A k \in records' : files'[k] = Content
  BY <1>1 DEF WholeInv
<1> QED
  BY <1>3, <1>4 DEF WholeInv

\* What write() makes of a complete upload is the complete upload.
LEMMA CompleteIsContent ==
  ASSUME UploadInv, NEW q \in Requests, stage[q] \in {"receive", "put", "fill", "meta"},
         Len(Merged(q)) = Size
  PROVE  Merged(q) = Content
BY MergedIs, PreIsSubSeq DEF UploadInv

\* A finish hook finds, files and records the whole file.
LEMMA WholeStep ==
  ASSUME UploadInv, WholeInv, [Next]_uploadVars
  PROVE  WholeInv'
<1>1. ASSUME NEW q \in Requests, Step(q) PROVE WholeInv'
  <2> SUFFICES ASSUME Undisturbed' PROVE WholeInv'
    BY DEF WholeInv
  <2>1. Moves(q)
    BY <1>1, StepMoves DEF UploadInv
  <2>2. /\ Undisturbed /\ (\A p \in Requests : WholeAt(p)) /\ \A k \in records : files[k] = Content
    BY <2>1 DEF Undisturbed, Moves, InPlace, WholeInv
  <2>3. /\ stage \in [Requests -> Stage] /\ req \in [Requests -> Request] /\ req[q] \in Request
        /\ files \in Seq(Bytes) /\ records \subseteq DOMAIN files
    BY DEF UploadInv, TypeOK
  <2>4. \A p \in Requests \ {q} :
          stage'[p] = stage[p] /\ req'[p] = req[p] /\ Merged(p)' = Merged(p)
    BY <2>1 DEF Moves, Merged, Incoming
  \* It is enough to follow the bytes that are written, and those that are read.
  <2>5. ASSUME \A k \in DOMAIN files : files'[k] = files[k],
               \A k \in records' \ records : files'[k] = Content,
               WholeAt(q)',
               \A p \in Requests \ {q} :
                 /\ stage[p] = "meta" => body' \in {Merged(p), Absent}
                 /\ stage[p] \in {"check", "copy"} =>
                      /\ body' \in {Content, Absent}
                      /\ stage'[q] \in {"receive", "put", "meta"} => Merged(q)' = Content
        PROVE  WholeInv'
    <3>1. ASSUME NEW p \in Requests \ {q} PROVE WholeAt(p)'
      <4>1. stage'[p] = "meta" => body' \in {Merged(p)', Absent}
        BY <2>4, <2>5
      <4>2. ASSUME stage'[p] \in {"check", "copy"}, NEW o \in Requests,
                   stage'[o] \in {"receive", "put", "meta"}
            PROVE  Merged(o)' = Content
        <5>1. CASE o = q
          BY <2>4, <2>5, <4>2, <5>1
        <5>2. CASE o # q
          BY <2>2, <2>4, <4>2, <5>2 DEF WholeAt
        <5> QED
          BY <5>1, <5>2
      <4>3. stage'[p] \in {"check", "copy"} => body' \in {Content, Absent}
        BY <2>4, <2>5
      <4>4. /\ stage'[p] = "file" => req'[p].read = Content
            /\ stage'[p] = "insert" => files'[req'[p].key] = Content
        BY <2>2, <2>4, <2>5 DEF WholeAt, UploadInv, DataInv
      <4> QED
        BY <4>1, <4>2, <4>3, <4>4 DEF WholeAt
    <3>2. \A k \in records' : files'[k] = Content
      BY <2>2, <2>3, <2>5
    <3> QED
      BY <2>5, <3>1, <3>2 DEF WholeInv
  \* Nobody else writes, or waits to write, while a request with a lock does.
  <2>6. ASSUME lock[q] # Free, NEW p \in Requests \ {q}
        PROVE  stage[p] \notin Writing
    BY <2>2, <2>6 DEF UploadInv, LocksInv, LockAt, Undisturbed
  <2>7. ASSUME stage[q] \in Writing PROVE lock[q] # Free
    BY <2>7 DEF UploadInv, LocksInv, LockAt
  <2>8. CASE \E r \in Replicas : Client(q, r)
    <3>1. body' = body /\ files' = files /\ records' = records
      BY <2>8 DEF Client, CreateMeta, Patch, Terminate
    <3>2. stage'[q] \in {"create", "length", "get", "remove"}
      BY <2>3, <2>8 DEF Client, CreateMeta, Patch, Terminate, To
    <3> QED
      BY <2>1, <3>1, <3>2, WholeQuiet
  <2>9. CASE CreateBody(q)
    <3>1. \A p \in Requests : stage[p] \in {"idle", "create"}
      BY <2>9 DEF CreateBody, UploadInv, LifeInv
    <3>2. stage'[q] = "idle" /\ files' = files /\ records' = records
      BY <2>3, <2>9 DEF CreateBody, End, To
    <3>3. WholeAt(q)'
      BY <3>2 DEF WholeAt
    <3> QED
      BY <2>5, <3>1, <3>2, <3>3
  <2>10. CASE Refuse(q) \/ Fail(q) \/ RemoveBody(q) \/ RemoveMeta(q)
    <3>1. body' \in {body, Absent} /\ files' = files /\ records' = records
      BY <2>10 DEF Refuse, Fail, RemoveBody, RemoveMeta
    <3>2. stage'[q] \in {"idle", "removeBody", "removeMeta"}
      BY <2>3, <2>10 DEF Refuse, Fail, RemoveBody, RemoveMeta, End, To
    <3> QED
      BY <2>1, <3>1, <3>2, WholeQuiet
  <2>11. CASE ReadForLength(q) \/ WriteLength(q)
    <3>1. body' = body /\ files' = files /\ records' = records
      BY <2>11 DEF ReadForLength, WriteLength
    <3>2. stage'[q] \in {"declare", "get"}
      BY <2>3, <2>11 DEF ReadForLength, WriteLength, To
    <3> QED
      BY <2>1, <3>1, <3>2, WholeQuiet
  <2>12. CASE GetBody(q) \/ Receive(q)
    <3>1. /\ body' = body /\ files' = files /\ records' = records
          /\ stage[q] \in {"get", "receive"} /\ stage'[q] \in {"receive", "put"}
      BY <2>3, <2>12 DEF GetBody, Receive, To
    <3>2. WholeAt(q)'
      BY <3>1 DEF WholeAt
    <3>3. ASSUME NEW p \in Requests \ {q}, stage[p] \in {"check", "copy"}
          PROVE  Merged(q)' = Content
      <4>1. CASE GetBody(q)
        <5>1. body # Absent /\ req'[q].read = body /\ req'[q].count = req[q].count
          BY <2>3, <4>1 DEF GetBody, InStep, Request
        <5>2. body = Content
          BY <2>2, <3>3, <5>1 DEF WholeAt
        <5>3. req[q].offset = Size /\ req[q].count = 0
          <6>1. Len(body) = req[q].offset /\ req[q].offset + req[q].count <= Size
            BY <4>1 DEF GetBody, InStep, UploadInv, DataInv
          <6>2. req[q].count \in Nat
            BY <2>3 DEF Request
          <6> QED
            BY <5>2, <6>1, <6>2, ContentIs, UploadAssumption
        <5>4. req'[q].offset = Size /\ req'[q].count = 0
          BY <2>3, <4>1, <5>3 DEF GetBody, Request
        <5>5. Merged(q)' = Content \o SubSeq(Content, Len(Content) + 1, Len(Content) + 0)
          <6>1. Merged(q)' = req'[q].read \o SubSeq(Content, req'[q].offset + 1,
                                                    req'[q].offset + req'[q].count)
            BY DEF Merged, Incoming, Content
          <6>2. req'[q].read = Content /\ req'[q].offset = Len(Content) /\ req'[q].count = 0
            BY <5>1, <5>2, <5>4, ContentIs
          <6> QED
            BY <6>1, <6>2
        <5>6. /\ Pre(Content \o SubSeq(Content, Len(Content) + 1, Len(Content) + 0))
              /\ Len(Content \o SubSeq(Content, Len(Content) + 1, Len(Content) + 0)) = Size
          <6>1. Pre(Content) /\ 0 \in Nat /\ Len(Content) + 0 <= Size /\ Len(Content) + 0 = Size
            BY ContentIs, UploadAssumption
          <6>2. /\ Pre(Content \o SubSeq(Content, Len(Content) + 1, Len(Content) + 0))
                /\ Len(Content \o SubSeq(Content, Len(Content) + 1, Len(Content) + 0))
                     = Len(Content) + 0
            BY <6>1, ChunkExtends, Zenon
          <6> QED
            BY <6>1, <6>2
        <5> QED
          BY <5>5, <5>6, PreIsSubSeq
      <4>2. CASE Receive(q)
        <5>1. Merged(q)' = Merged(q) /\ stage[q] = "receive"
          BY <2>3, <4>2 DEF Receive, Merged, Incoming, Request
        <5> QED
          BY <2>2, <3>3, <5>1 DEF WholeAt
      <4> QED
        BY <2>12, <4>1, <4>2
    <3>4. stage[q] \in Writing
      BY <3>1 DEF Writing
    <3>5. ASSUME NEW p \in Requests \ {q}
          PROVE  stage[p] # "meta" /\ (stage[p] \in {"check", "copy"} => body' \in {Content, Absent})
      BY <2>2, <2>6, <2>7, <3>1, <3>4 DEF WholeAt, Writing
    <3> QED
      BY <2>5, <3>1, <3>2, <3>3, <3>5
  <2>13. CASE PutBody(q)
    <3>1. /\ body' = Merged(q) /\ Merged(q)' = Merged(q) /\ files' = files /\ records' = records
          /\ stage[q] = "put" /\ stage'[q] = "meta" /\ stage[q] \in Writing
      BY <2>3, <2>13 DEF PutBody, To, Merged, Incoming, Writing
    <3>2. WholeAt(q)'
      BY <3>1 DEF WholeAt
    <3>3. ASSUME NEW p \in Requests \ {q}
          PROVE  stage[p] # "meta" /\ (stage[p] \in {"check", "copy"} => Merged(q) = Content)
      BY <2>2, <2>6, <2>7, <3>1 DEF WholeAt, Writing
    <3> QED
      BY <2>5, <3>1, <3>2, <3>3
  <2>14. CASE OverwriteBody(q) \/ FillBody(q)
    <3>1. /\ files' = files /\ records' = records /\ req' = req
          /\ stage[q] \in {"put", "fill"} /\ stage'[q] \in {"fill", "meta"}
          /\ stage'[q] = "meta" => body' \in {Merged(q), Absent}
      BY <2>3, <2>14 DEF OverwriteBody, FillBody, To
    <3>2. InPlace
      BY <2>14 DEF OverwriteBody, FillBody, UploadInv, LocksInv, LockAt
    <3>3. \A p \in Requests \ {q} : stage[p] = "idle"
      BY <2>2, <3>1, <3>2, InPlaceIsSolo
    <3>4. Merged(q)' = Merged(q)
      BY <3>1 DEF Merged, Incoming
    <3>5. WholeAt(q)'
      BY <3>1, <3>4 DEF WholeAt
    <3> QED
      BY <2>5, <3>1, <3>3, <3>5
  <2>15. CASE WriteMeta(q)
    <3>1. /\ body' = body /\ files' = files /\ records' = records /\ stage[q] = "meta"
          /\ stage'[q] = IF Complete(q) THEN "check" ELSE "idle"
      BY <2>3, <2>15 DEF WriteMeta, To
    <3>2. stage[q] \in Writing /\ body \in {Merged(q), Absent}
      BY <2>2, <3>1 DEF WholeAt, Writing
    <3>3. Complete(q) => Merged(q) = Content
      <4>1. Len(Merged(q)) \in Nat
        BY <3>1, MergedIs, UploadAssumption DEF UploadInv
      <4>2. Complete(q) => Len(Merged(q)) = Size
        BY <2>3, <4>1, UploadAssumption DEF Complete, Request
      <4> QED
        BY <3>1, <4>2, CompleteIsContent
    <3>4. ASSUME NEW p \in Requests \ {q}
          PROVE  stage[p] \notin {"receive", "put", "meta"}
      BY <2>6, <2>7, <3>2 DEF Writing
    <3>5. \A p \in Requests : stage'[p] \notin {"receive", "put", "meta"}
      BY <2>4, <3>1, <3>4
    <3>6. WholeAt(q)'
      BY <3>1, <3>2, <3>3, <3>5 DEF WholeAt
    <3>7. \A p \in Requests \ {q} : stage[p] \in {"check", "copy"} => body' \in {Content, Absent}
      BY <2>2, <3>1 DEF WholeAt
    <3> QED
      BY <2>5, <3>1, <3>4, <3>6, <3>7
  \* The hook leaves the body, and what requests with a lock hold, alone.
  <2>16. ASSUME body' = body, stage'[q] \in Finishing \cup {"remove"},
                NEW p \in Requests \ {q}
         PROVE  /\ stage[p] = "meta" => body' \in {Merged(p), Absent}
                /\ stage[p] \in {"check", "copy"} => body' \in {Content, Absent}
                /\ stage'[q] \notin {"receive", "put", "meta"}
    BY <2>2, <2>16 DEF WholeAt, Finishing
  <2>17. CASE Admit(q)
    <3>1. /\ body' = body /\ files' = files /\ records' = records /\ stage[q] = "check"
          /\ stage'[q] = "copy"
      BY <2>3, <2>17 DEF Admit, To
    <3>2. \A p \in Requests : stage'[p] \in {"receive", "put", "meta"} =>
            stage[p] = stage'[p] /\ Merged(p)' = Merged(p)
      BY <2>4, <3>1
    <3>3. WholeAt(q)'
      BY <2>2, <3>1, <3>2 DEF WholeAt
    <3> QED
      BY <2>5, <2>16, <3>1, <3>3 DEF Finishing
  <2>18. CASE ReadBody(q)
    <3>1. /\ body' = body /\ files' = files /\ records' = records /\ stage[q] = "copy"
          /\ stage'[q] = "file" /\ req'[q].read = body /\ body # Absent
      BY <2>3, <2>18 DEF ReadBody, To, Request
    <3>2. WholeAt(q)'
      BY <2>2, <3>1 DEF WholeAt
    <3> QED
      BY <2>5, <2>16, <3>1, <3>2 DEF Finishing
  <2>19. CASE PutFile(q)
    <3>1. /\ body' = body /\ records' = records /\ stage[q] = "file" /\ stage'[q] = "insert"
          /\ files' = Append(files, req[q].read) /\ req'[q].key = Len(files) + 1
      BY <2>3, <2>19 DEF PutFile, To, Request
    <3>2. req[q].read \in Bytes /\ req[q].read = Content
      BY <2>2, <2>3, <3>1 DEF WholeAt, Request
    <3>3. (\A k \in DOMAIN files : files'[k] = files[k]) /\ files'[Len(files) + 1] = Content
      BY <2>3, <3>1, <3>2
    <3>4. WholeAt(q)'
      BY <3>1, <3>3 DEF WholeAt
    <3> QED
      BY <2>5, <2>16, <3>1, <3>3, <3>4 DEF Finishing
  <2>20. CASE InsertRecord(q)
    <3>1. /\ body' = body /\ files' = files /\ records' = records \cup {req[q].key}
          /\ stage[q] = "insert" /\ stage'[q] = "remove"
      BY <2>3, <2>20 DEF InsertRecord, To
    <3>2. \A k \in records' \ records : files'[k] = Content
      BY <2>2, <3>1 DEF WholeAt
    <3>3. WholeAt(q)'
      BY <3>1 DEF WholeAt
    <3> QED
      BY <2>5, <2>16, <3>1, <3>2, <3>3
  <2>21. CASE Write(q)
    BY <2>9, <2>10, <2>11, <2>12, <2>13, <2>14, <2>15, <2>21 DEF Write, Throw
  <2>22. CASE Finish(q)
    BY <2>10, <2>17, <2>18, <2>19, <2>20, <2>22 DEF Finish, Deny, Mismatch
  <2> QED
    BY <1>1, <2>8, <2>10, <2>21, <2>22 DEF Step
<1>2. CASE Expire \/ UNCHANGED uploadVars
  <2>1. UNCHANGED <<disk, body, files, records, stage, req, overlap>>
    BY <1>2 DEF Expire, uploadVars
  <2>2. \A q \in Requests : Merged(q)' = Merged(q)
    BY <2>1 DEF Merged, Incoming
  <2>3. (\A q \in Requests : WholeAt(q)' <=> WholeAt(q)) /\ (Undisturbed' <=> Undisturbed)
    BY <2>1, <2>2 DEF WholeAt, Undisturbed, InPlace
  <2> QED
    BY <2>1, <2>3 DEF WholeInv
<1> QED
  BY <1>1, <1>2, NextIs

\* A recorded upload is on its way out.
LEMMA OnceStep == UploadInv /\ OnceInv /\ [Next]_uploadVars => OnceInv'
<1> SUFFICES ASSUME UploadInv, OnceInv, [Next]_uploadVars PROVE OnceInv'
  OBVIOUS
<1>1. ASSUME NEW q \in Requests, Step(q) PROVE OnceInv'
  <2> SUFFICES ASSUME overlap' = {} PROVE OnceInv'
    BY DEF OnceInv
  <2>1. Moves(q) /\ overlap = {}
    BY <1>1, StepMoves DEF UploadInv, Moves
  <2>2. \A p \in Requests : p # q => stage[p] = "idle" /\ stage'[p] = "idle"
    <3>1. \A o, p \in Requests : stage[o] # "idle" /\ stage[p] # "idle" => o = p
      BY <2>1 DEF UploadInv, LocksInv
    <3>2. CASE stage[q] # "idle"
      BY <2>1, <3>1, <3>2 DEF Moves
    <3>3. CASE \E r \in Replicas : Lock(q, r)
      <4>1. Locked = {} /\ Busy \ Locked = {}
        BY <3>3 DEF Lock
      <4>2. Busy = {}
        BY <4>1
      <4> QED
        BY <2>1, <4>2 DEF Busy, Moves
    <3> QED
      BY <2>1, <3>2, <3>3 DEF Moves
  <2>3. stage \in [Requests -> Stage] /\ req[q] \in Request
    BY DEF UploadInv, TypeOK
  <2>4. /\ stage[q] = "removeBody" => meta = Absent
        /\ "cut" \notin harm =>
             /\ \A j, k \in records : j = k
             /\ records # {} =>
                  /\ stage[q] \in {"idle"} \cup Removing
                  /\ meta # Absent => stage[q] \in {"remove", "removeMeta"}
    BY <2>1, <2>2 DEF OnceInv
  \* It is enough to follow the request that moves.
  <2>5. ASSUME /\ stage'[q] = "removeBody" => meta' = Absent
               /\ "cut" \notin harm' =>
                    /\ \A j, k \in records' : j = k
                    /\ records' # {} =>
                         /\ stage'[q] \in {"idle"} \cup Removing
                         /\ meta' # Absent => stage'[q] \in {"remove", "removeMeta"}
        PROVE  OnceInv'
    BY <2>2, <2>5 DEF OnceInv
  <2>6. CASE \E r \in Replicas : Client(q, r)
    <3>1. /\ records' = records /\ harm' = harm /\ stage[q] = "idle"
          /\ stage'[q] \in {"create", "length", "get", "remove"}
      BY <2>3, <2>6 DEF Client, CreateMeta, Patch, Terminate, Lock, To
    <3>2. ASSUME records # {}, "cut" \notin harm
          PROVE  meta' = Absent /\ stage'[q] \in Removing
      <4>1. meta = Absent
        BY <2>4, <3>1, <3>2
      <4>2. life \notin {"none", "begun"}
        BY <3>2 DEF UploadInv, LifeInv
      <4>3. \E r \in Replicas : Terminate(q, r)
        BY <2>6, <4>1, <4>2 DEF Client, CreateMeta, Patch
      <4> QED
        BY <2>3, <4>1, <4>3 DEF Terminate, To, Removing
    <3> QED
      BY <2>4, <2>5, <3>1, <3>2
  <2>7. CASE Write(q) \/ Deny(q) \/ Admit(q) \/ ReadBody(q) \/ Mismatch(q) \/ PutFile(q)
    <3>1. records' = records
      BY <2>7 DEF Write, CreateBody, ReadForLength, WriteLength, GetBody, Receive, PutBody,
                  OverwriteBody, FillBody, WriteMeta, Throw, Refuse, Deny, Admit, ReadBody,
                  Mismatch, PutFile
    <3>2. stage[q] \notin {"idle"} \cup Removing
      BY <2>7 DEF Write, CreateBody, ReadForLength, WriteLength, GetBody, Receive, PutBody,
                  OverwriteBody, FillBody, WriteMeta, Throw, Deny, Admit, ReadBody, Mismatch,
                  PutFile, Removing
    <3>3. stage'[q] # "removeBody"
      BY <2>3, <2>7 DEF Write, CreateBody, ReadForLength, WriteLength, GetBody, Receive, PutBody,
                  OverwriteBody, FillBody, WriteMeta, Throw, Refuse, Deny, Admit, ReadBody,
                  Mismatch, PutFile, End, To
    <3>4. harm \subseteq harm'
      BY <2>1 DEF Moves
    <3> QED
      BY <2>4, <2>5, <3>1, <3>2, <3>3, <3>4
  <2>8. CASE InsertRecord(q)
    <3>1. /\ records' = records \cup {req[q].key} /\ harm' = harm
          /\ stage[q] = "insert" /\ stage'[q] = "remove"
      BY <2>3, <2>8 DEF InsertRecord, To
    <3>2. "cut" \notin harm => records = {}
      BY <2>4, <3>1 DEF Removing
    <3> QED
      BY <2>5, <3>1, <3>2 DEF Removing
  <2>9. CASE RemoveBody(q)
    <3>1. /\ records' = records /\ harm' = harm /\ meta' = meta
          /\ \/ stage[q] = "remove" /\ stage'[q] = "removeMeta"
             \/ stage[q] = "removeBody" /\ stage'[q] = "idle"
      BY <2>3, <2>9 DEF RemoveBody, End, To
    <3> QED
      BY <2>4, <2>5, <3>1 DEF Removing
  <2>10. CASE RemoveMeta(q)
    <3>1. /\ records' = records /\ harm' = harm /\ meta' = Absent
          /\ stage'[q] \in {"removeBody", "idle"}
      BY <2>3, <2>10 DEF RemoveMeta, End, To
    <3> QED
      BY <2>4, <2>5, <3>1 DEF Removing
  <2>11. CASE Fail(q)
    <3>1. /\ records' = records /\ meta' \in {meta, Absent}
          /\ harm' = harm \cup HarmAt(stage[q]) /\ stage'[q] = "idle" /\ stage[q] # "idle"
      BY <2>3, <2>11 DEF Fail, End, To
    <3>2. stage[q] \in Removing => "cut" \in harm'
      BY <3>1 DEF HarmAt, Harm, Removing
    <3> QED
      BY <2>4, <2>5, <3>1, <3>2
  <2>12. CASE Finish(q)
    BY <2>7, <2>8, <2>9, <2>10, <2>12 DEF Finish
  <2> QED
    BY <1>1, <2>6, <2>7, <2>11, <2>12 DEF Step
<1>2. CASE Expire \/ UNCHANGED uploadVars
  BY <1>2 DEF Expire, uploadVars, OnceInv
<1> QED
  BY <1>1, <1>2, NextIs

\* An upload becomes one file, the client's whole file: whole, unless requests
\* wrote on two replicas at a time or, in place, beside a finish hook; one, unless
\* requests overlapped or the hook died between the insert and the two deletions.
THEOREM RecordedOnceHolds == Spec => []RecordedOnce
<1>1. Init => WholeInv /\ OnceInv
  BY DEF Init, WholeInv, WholeAt, OnceInv
<1>2. ASSUME WholeInv PROVE RecordedIsWhole
  BY <1>2 DEF WholeInv, Undisturbed, RecordedIsWhole
<1>3. ASSUME WholeInv, OnceInv PROVE RecordedOnce
  <2>1. ASSUME overlap = {}, "cut" \notin harm PROVE ~ (Cardinality(records) > 1)
    <3>1. \A j, k \in records : j = k
      BY <1>3, <2>1 DEF OnceInv
    <3>2. CASE records = {}
      BY <3>2, FS_EmptySet
    <3>3. CASE records # {}
      <4>1. PICK k \in records : TRUE
        BY <3>3
      <4>2. records = {k}
        BY <3>1, <4>1
      <4> QED
        BY <4>2, FS_Singleton
    <3> QED
      BY <3>2, <3>3
  <2> QED
    BY <1>2, <1>3, <2>1 DEF RecordedOnce
<1>4. UploadInv /\ WholeInv /\ [Next]_uploadVars => WholeInv'
  BY WholeStep
<1> QED
  BY <1>1, <1>3, <1>4, UploadInvHolds, OnceStep, PTL DEF Spec
=============================================================================
