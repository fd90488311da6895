----------------------------- MODULE PowerSync ------------------------------
(***************************************************************************)
(* POST /powersync/crud (src/src/core/auth/powersync.controller.ts): the    *)
(* batches that devices queued while offline are resolved against the rows  *)
(* loaded before and written back in one transaction.  A device sends its   *)
(* batches in order and sends one again until it is answered; it does not   *)
(* know whether an earlier copy is still on its way.  Calls run on replicas *)
(* whose clocks differ.  One tenant; a document is a type with an id.       *)
(***************************************************************************)
EXTENDS Integers, Sequences

CONSTANTS
  Clients,       \* devices
  Queue,         \* the batches each has queued
  Calls,         \* requests in progress on the servers
  Skew,          \* how far the clock of a call's replica is ahead
  Docs,          \* documents
  Fields,        \* their fields
  Values,
  MaxClock,      \* bound: the time
  MaxLost,       \* bound: answers a device does not get
  NoRow,         \* no such row
  NoId,          \* the data carry no id
  NoCall         \* a device waits for no answer

Data == UNION {[F -> Values] : F \in SUBSET Fields}

\* PUT and PATCH are treated alike; the data of a DELETE are ignored.  The data
\* may have a field "id" of their own.
Operation ==
  [op : {"PUT", "PATCH", "DELETE"}, doc : Docs, data : Data, id : Docs \cup {NoId}]

Row == [id : Docs, data : Data, stamp : Nat]

ASSUME SyncAssumption ==
  /\ Queue \in [Clients -> Seq(Seq(Operation))]
  /\ Skew \in [Calls -> Nat]
  /\ MaxClock \in Nat
  /\ MaxLost \in Nat
  /\ NoRow \notin Data \cup Row
  /\ NoId \notin Docs
  /\ NoCall \notin Calls

VARIABLES
  table,       \* power_sync_rows: id, data and updatedAt
  clock,       \* the time
  acked,       \* how many of its batches a device has got an answer for
  waiting,     \* the call a device waits for
  call,        \* what a call has in hand
  lost,        \* how many answers were not received
  once,        \* history: the data if every batch counted once, when first written
  later,       \* history: the documents others wrote since a batch was first written
  disturbed    \* history: documents that a skew, a race, a late copy or a foreign id
               \* may have changed

syncVars == <<table, clock, acked, waiting, call, lost, once, later, disturbed>>

Batches == UNION {{<<d, n>> : n \in 1..Len(Queue[d])} : d \in Clients}

Ops(b) == Queue[b[1]][b[2]]

Touched(b) == {Ops(b)[i].doc : i \in DOMAIN Ops(b)}

\* The documents whose data carry the id of another one, and these others.
Mixed(b) ==
  UNION {{Ops(b)[i].doc, Ops(b)[i].id} :
           i \in {n \in DOMAIN Ops(b) : Ops(b)[n].id \notin {NoId, Ops(b)[n].doc}}}

\* A call: its batch, the documents as resolved; history: the documents that
\* other batches wrote since it loaded them, or whose row was ahead of its clock.
Idle == [batch |-> NoCall]

Call ==
  [batch : Batches, map : [Docs -> Row \cup {NoRow}], stale : SUBSET Docs]

\* Type invariant of the rows, the devices and the calls.
SyncTypeOK ==
  /\ table \in [Docs -> Row \cup {NoRow}]
  /\ \A k \in Docs : table[k] # NoRow => table[k].id = k
  /\ clock \in 0..MaxClock
  /\ \A d \in Clients : acked[d] \in 0..Len(Queue[d])
  /\ waiting \in [Clients -> Calls \cup {NoCall}]
  /\ \A c \in Calls : call[c] = Idle \/ call[c] \in Call
  /\ lost \in 0..MaxLost
  /\ once \in [Docs -> Data \cup {NoRow}]
  /\ \A b \in DOMAIN later : b \in Batches /\ later[b] \subseteq Docs
  /\ disturbed \subseteq Docs

SyncInit ==
  /\ table = [k \in Docs |-> NoRow]
  /\ clock = 0
  /\ acked = [d \in Clients |-> 0]
  /\ waiting = [d \in Clients |-> NoCall]
  /\ call = [c \in Calls |-> Idle]
  /\ lost = 0
  /\ once = [k \in Docs |-> NoRow]
  /\ later = <<>>
  /\ disturbed = {}

-----------------------------------------------------------------------------
\* {...serverRow} with the fields of the patch over it
Merge(patch, data) ==
  [f \in DOMAIN patch \cup DOMAIN data |-> IF f \in DOMAIN patch THEN patch[f] ELSE data[f]]

\* resolvePowerSyncConflict(): the controller names no protected fields and
\* gives its own time as the client's, so that the server wins only over a
\* clock that is behind.  An id among the data replaces that of the row.
Resolve(op, now, row) ==
  IF row.stamp > now THEN [row EXCEPT !.stamp = now]
  ELSE [id |-> IF op.id = NoId THEN row.id ELSE op.id,
        data |-> Merge(op.data, row.data), stamp |-> now]

\* The first row of a document: {id, updatedAt, ...data}.
FirstRow(op, now) ==
  [id |-> IF op.id = NoId THEN op.doc ELSE op.id, data |-> op.data, stamp |-> now]

\* One round of applyPowerSyncCrudBatch().
ApplyOp(map, op, now) ==
  [map EXCEPT ![op.doc] =
     IF op.op = "DELETE" THEN NoRow
     ELSE IF @ = NoRow THEN FirstRow(op, now)
     ELSE Resolve(op, now, @)]

\* The map after the first i operations of the batch, up to all.
ApplyBatch(b, map, now) ==
  LET after[i \in 0..Len(Ops(b))] ==
        IF i = 0 THEN map ELSE ApplyOp(after[i - 1], Ops(b)[i], now)
  IN after[Len(Ops(b))]

\* What the batch does to the data by itself.
DataOf(map) == [k \in Docs |-> IF map[k] = NoRow THEN NoRow ELSE map[k].data]

Effect(b, data) ==
  DataOf(ApplyBatch(b, [k \in Docs |-> IF data[k] = NoRow THEN NoRow
                                       ELSE [id |-> k, data |-> data[k], stamp |-> 0]], 0))

Now(c) == clock + Skew[c]

\* Rows of the batch that look newer than the time of the call: patches to
\* them are dropped, and acknowledged.
Ahead(c, b) == {k \in Touched(b) : table[k] # NoRow /\ table[k].stamp > Now(c)}

\* crud(): loadByTypes(), then the batch is resolved against the rows.
Upload(c, d) ==
  LET b == <<d, acked[d] + 1>> IN
  /\ call[c] = Idle
  /\ waiting[d] = NoCall
  /\ b \in Batches
  /\ call' = [call EXCEPT ![c] =
                [batch |-> b, map |-> ApplyBatch(b, table, Now(c)), stale |-> Ahead(c, b)]]
  /\ waiting' = [waiting EXCEPT ![d] = c]
  /\ UNCHANGED <<table, clock, acked, lost, once, later, disturbed>>

\* Variant of Written: every loaded row is written back.
WrittenAll(c) == Docs

\* The documents whose rows in the map a batch writes: those it names.
Written(c) == Touched(call[c].batch)

\* The last operation on j comes after all those on x.
After(b, j, x) ==
  \E i \in DOMAIN Ops(b) :
    Ops(b)[i].doc = j /\ \A n \in DOMAIN Ops(b) : Ops(b)[n].doc = x => n < i

\* The row of id k as the upserts of a batch leave it: a row of the map goes
\* to the id it carries, in the order of the operations.
Upserted(c, k) ==
  LET map == call[c].map
      For == {j \in Written(c) : map[j] # NoRow /\ map[j].id = k}
  IN IF For = {} THEN table[k]
     ELSE [map[CHOOSE j \in For : \A x \in For \ {j} : After(call[c].batch, j, x)]
             EXCEPT !.stamp = Now(c)]

Awaited(c) == waiting[call[c].batch[1]] = c

\* applyMutations(): one transaction, the deletes last; updatedAt is the
\* replica's time.  The answer reaches the device if it still waits.
Commit(c) ==
  LET b == call[c].batch IN
  /\ call[c] # Idle
  /\ table' = [k \in Docs |-> IF k \in Written(c) /\ call[c].map[k] = NoRow THEN NoRow
                              ELSE Upserted(c, k)]
  /\ IF Awaited(c)
     THEN /\ acked' = [acked EXCEPT ![b[1]] = @ + 1]
          /\ waiting' = [waiting EXCEPT ![b[1]] = NoCall]
     ELSE UNCHANGED <<acked, waiting>>
  /\ once' = IF b \in DOMAIN later THEN once ELSE Effect(b, once)
  /\ later' = [x \in DOMAIN later \cup {b} |->
                 IF x = b THEN (IF b \in DOMAIN later THEN later[b] ELSE {})
                 ELSE later[x] \cup Touched(b)]
  /\ disturbed' = disturbed \cup call[c].stale \cup Mixed(b)
                    \cup (IF b \in DOMAIN later THEN later[b] \cap Touched(b) ELSE {})
  /\ call' = [x \in Calls |->
                IF x = c THEN Idle
                ELSE IF call[x] = Idle \/ call[x].batch = b THEN call[x]
                ELSE [call[x] EXCEPT !.stale = @ \cup (Touched(b) \cap Touched(call[x].batch))]]
  /\ UNCHANGED <<clock, lost>>

\* The device gives up on an answer and will send the batch again.
Timeout(d) ==
  /\ waiting[d] # NoCall
  /\ lost < MaxLost
  /\ lost' = lost + 1
  /\ waiting' = [waiting EXCEPT ![d] = NoCall]
  /\ UNCHANGED <<table, clock, acked, call, once, later, disturbed>>

\* The transaction or the replica fails; the device sees that or gave up before.
Abort(c) ==
  LET d == call[c].batch[1] IN
  /\ call[c] # Idle
  /\ lost < MaxLost
  /\ lost' = lost + 1
  /\ call' = [call EXCEPT ![c] = Idle]
  /\ waiting' = [waiting EXCEPT ![d] = IF @ = c THEN NoCall ELSE @]
  /\ UNCHANGED <<table, clock, acked, once, later, disturbed>>

SyncTick ==
  /\ clock < MaxClock
  /\ clock' = clock + 1
  /\ UNCHANGED <<table, acked, waiting, call, lost, once, later, disturbed>>

SyncNext ==
  \/ \E c \in Calls, d \in Clients : Upload(c, d)
  \/ \E c \in Calls : Commit(c) \/ Abort(c)
  \/ \E d \in Clients : Timeout(d)
  \/ SyncTick

SyncSpec == SyncInit /\ [][SyncNext]_syncVars

-----------------------------------------------------------------------------
(***************************************************************************)
(* Sending a batch again does no harm, and a batch changes no document but  *)
(* those it names and those whose ids its data carry: the rows are what     *)
(* they would be if every batch had been applied once, at its first         *)
(* transaction.  Excepted are documents that another batch wrote between a  *)
(* call's load and its transaction, between the first transaction of a      *)
(* batch and that of a late copy, those whose row was stamped by a clock    *)
(* ahead of the call's, and both documents of an operation on one whose     *)
(* data carry the id of another: its row is written over the other one.     *)
(***************************************************************************)
BatchesCountOnce == \A k \in Docs \ disturbed : DataOf(table)[k] = once[k]
=============================================================================
