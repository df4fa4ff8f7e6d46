------------------------------- MODULE Store -------------------------------
(***************************************************************************)
(* The bbolt-backed store (internal/persistence): four buckets and the     *)
(* handle that Close drops.  A bucket is a function from the keys that are *)
(* present to their values.  Every method of Store is one bbolt            *)
(* transaction, hence one step of the callers; the operators below are the *)
(* effect of such a step, and the callers' modules decide when it happens. *)
(*                                                                         *)
(* What is abstracted: a reading is represented in its bucket by its       *)
(* status, a pending item by its status and attempts, and the key          *)
(* batch:vendor:external_id by the pair <<batch, device>>, a device being  *)
(* one external id of one vendor.  The key "pending:"+ID of an item is the *)
(* ID of its reading.                                                      *)
(***************************************************************************)
EXTENDS Naturals, FiniteSets

CONSTANTS
  Batches,   \* batch ids
  Devices,   \* one element per external id of a vendor
  IOErrors   \* TRUE: a write transaction may fail on an open store

ASSUME IOErrorsAssumption == IOErrors \in BOOLEAN

VARIABLES
  db,        \* "open" or "closed": whether Store.db is non-nil
  readings,  \* bucket "readings":  reading id -> status
  pending,   \* bucket "pending":   reading id -> pending item
  batches,   \* bucket "batches":   batch id -> saved batch
  audits     \* bucket "audits":    sequence number -> audit entry

buckets == <<readings, pending, batches, audits>>
storeVars == <<db, readings, pending, batches, audits>>

Status == {"accepted", "pending", "retried", "rejected"}
ReadingIds == Batches \X Devices
PendingItem == [status : Status, attempts : Nat]

-----------------------------------------------------------------------------

\* tx.Bucket(b).Put: insert or replace the value of one key.
Put(bucket, key, value) ==
  [k \in DOMAIN bucket \cup {key} |-> IF k = key THEN value ELSE bucket[k]]

\* A run of Puts of one transaction; "writes" is a bucket itself.
PutAll(bucket, writes) ==
  [k \in DOMAIN bucket \cup DOMAIN writes |->
     IF k \in DOMAIN writes THEN writes[k] ELSE bucket[k]]

\* The items of a bucket whose key satisfies the set "keys".
Select(bucket, keys) == [k \in DOMAIN bucket \cap keys |-> bucket[k]]

\* A write transaction commits only on an open store and only if json.Marshal
\* accepts the value; it fails otherwise, and on an I/O error of bbolt.
WriteCommits(storable) == db = "open" /\ storable
WriteFails(storable) == db = "closed" \/ IOErrors \/ ~storable

\* Store.PutReading, PutPending, DeletePending, PutBatch, PutAudit and
\* SaveBatch, when they commit.
PutReading(id, status) ==
  /\ readings' = Put(readings, id, status)
  /\ UNCHANGED <<db, pending, batches, audits>>

PutPending(id, item) ==
  /\ pending' = Put(pending, id, item)
  /\ UNCHANGED <<db, readings, batches, audits>>

DeletePending(id) ==
  /\ pending' = Select(pending, DOMAIN pending \ {id})
  /\ UNCHANGED <<db, readings, batches, audits>>

PutBatch(b, batch) ==
  /\ batches' = Put(batches, b, batch)
  /\ UNCHANGED <<db, readings, pending, audits>>

PutAudit(key, entry) ==
  /\ audits' = Put(audits, key, entry)
  /\ UNCHANGED <<db, readings, pending, batches>>

\* Mutant: the batch is written without its readings.
SaveBatchOnly(b, batch, written, items) ==
  /\ batches' = Put(batches, b, batch)
  /\ pending' = PutAll(pending, items)
  /\ UNCHANGED <<db, readings, audits>>

\* Store.SaveBatch: the batch, its readings and the items in one transaction.
SaveBatch(b, batch, written, items) ==
  /\ batches' = Put(batches, b, batch)
  /\ readings' = PutAll(readings, written)
  /\ pending' = PutAll(pending, items)
  /\ UNCHANGED <<db, audits>>

\* Store.ListPending(status): the items whose status is the one asked for.
ListPending(status) ==
  Select(pending, {id \in DOMAIN pending : pending[id].status = status})

\* Store.Close: the handle is dropped, the file keeps its buckets.
Close ==
  /\ db = "open"
  /\ db' = "closed"
  /\ UNCHANGED buckets

\* persistence.Open on the file a closed or killed process left behind.
\* CreateBucketIfNotExists keeps the buckets that exist.
Open ==
  /\ db' = "open"
  /\ UNCHANGED buckets
=============================================================================
