---------------------------- MODULE StoreProofs ----------------------------
(* Writes keep the types of the keys and values of a bucket of module Store. *)
EXTENDS Store, TLAPS

\* Store.put: one key is inserted or replaced.
LEMMA PutTyped ==
  ASSUME NEW K, NEW V, NEW bucket, NEW key \in K, NEW value \in V,
         DOMAIN bucket \subseteq K, \A k \in DOMAIN bucket : bucket[k] \in V
  PROVE  /\ DOMAIN Put(bucket, key, value) \subseteq K
         /\ \A k \in DOMAIN Put(bucket, key, value) :
              Put(bucket, key, value)[k] \in V
BY DEF Put

\* SaveBatch: many keys are, in one transaction.
LEMMA PutAllTyped ==
  ASSUME NEW K, NEW V, NEW bucket, NEW writes,
         DOMAIN bucket \subseteq K, \A k \in DOMAIN bucket : bucket[k] \in V,
         DOMAIN writes \subseteq K, \A k \in DOMAIN writes : writes[k] \in V
  PROVE  /\ DOMAIN PutAll(bucket, writes) \subseteq K
         /\ \A k \in DOMAIN PutAll(bucket, writes) :
              PutAll(bucket, writes)[k] \in V
BY DEF PutAll
=============================================================================
