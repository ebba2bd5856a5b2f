------------------------------ MODULE HashTable ------------------------------
(***************************************************************************)
(* BasicHashTable: chained buckets, four times as many when there are       *)
(* RebuildMultiplier entries to a bucket.  A chain is the set of its        *)
(* entries; what the hash functions make of a key and of the number of      *)
(* buckets (the shift) is a parameter, the mask is the remainder.           *)
(***************************************************************************)
EXTENDS Integers

CONSTANTS
  Key, Value, NULL,
  SmallHashTableSize,     \* SMALL_HASH_TABLE_SIZE
  RebuildMultiplier,      \* REBUILD_MULTIPLIER
  Hash(_, _)              \* of a key, for a number of buckets

VARIABLES
  fBuckets, fNumBuckets, fNumEntries, fRebuildSize,
  found                   \* what the last call has returned

vars == <<fBuckets, fNumBuckets, fNumEntries, fRebuildSize, found>>

Entry == [key : Key, value : Value]

Init ==
  /\ fNumBuckets = SmallHashTableSize
  /\ fBuckets = [index \in 0..SmallHashTableSize - 1 |-> {}]
  /\ fNumEntries = 0
  /\ fRebuildSize = SmallHashTableSize * RebuildMultiplier
  /\ found = NULL

HashIndexFromKey(key, numBuckets) == Hash(key, numBuckets) % numBuckets

\* The entry of a key, {} when there is none.
LookupKey(key) == {entry \in fBuckets[HashIndexFromKey(key, fNumBuckets)] : entry.key = key}

ValueOf(entries) == IF entries = {} THEN NULL ELSE (CHOOSE entry \in entries : TRUE).value

-----------------------------------------------------------------------------

Entries(buckets) == UNION {buckets[index] : index \in DOMAIN buckets}

\* Mutant: the chains are taken over as they are.
RehashedNot(buckets, numBuckets) ==
  [index \in 0..numBuckets - 1 |-> IF index \in DOMAIN buckets THEN buckets[index] ELSE {}]

\* The entries of all chains go to their places among the new buckets.
Rehashed(buckets, numBuckets) ==
  [index \in 0..numBuckets - 1 |->
     {entry \in Entries(buckets) : HashIndexFromKey(entry.key, numBuckets) = index}]

Rebuild(buckets) ==
  /\ fNumBuckets' = fNumBuckets * 4
  /\ fRebuildSize' = fRebuildSize * 4
  /\ fBuckets' = Rehashed(buckets, fNumBuckets * 4)

\* insertNewEntry, or a new value for the entry.
WithEntry(key, value) ==
  [fBuckets EXCEPT ![HashIndexFromKey(key, fNumBuckets)] =
     (@ \ LookupKey(key)) \cup {[key |-> key, value |-> value]}]

Add(key, value) ==
  LET entries == IF LookupKey(key) = {} THEN fNumEntries + 1 ELSE fNumEntries
  IN /\ found' = ValueOf(LookupKey(key))
     /\ fNumEntries' = entries
     /\ IF entries >= fRebuildSize THEN Rebuild(WithEntry(key, value))
        ELSE /\ fBuckets' = WithEntry(key, value)
             /\ UNCHANGED <<fNumBuckets, fRebuildSize>>

\* deleteEntry, of an entry that has been looked up.
DeleteEntry(key) ==
  /\ fBuckets' = [fBuckets EXCEPT ![HashIndexFromKey(key, fNumBuckets)] = @ \ LookupKey(key)]
  /\ fNumEntries' = IF LookupKey(key) = {} THEN fNumEntries ELSE fNumEntries - 1
  /\ UNCHANGED <<fNumBuckets, fRebuildSize>>

Remove(key) == found' = ValueOf(LookupKey(key)) /\ DeleteEntry(key)

Lookup(key) ==
  /\ found' = ValueOf(LookupKey(key))
  /\ UNCHANGED <<fBuckets, fNumBuckets, fNumEntries, fRebuildSize>>

\* The iterator starts at the first bucket that has an entry.
IsFirst(entry) ==
  \E index \in 0..fNumBuckets - 1 :
    entry \in fBuckets[index] /\ \A i \in 0..index - 1 : fBuckets[i] = {}

\* The entry that the iterator gives is removed by its key.
RemoveNext ==
  \/ \E entry \in Entry : IsFirst(entry) /\ found' = entry.value /\ DeleteEntry(entry.key)
  \/ /\ \A index \in 0..fNumBuckets - 1 : fBuckets[index] = {}
     /\ found' = NULL
     /\ UNCHANGED <<fBuckets, fNumBuckets, fNumEntries, fRebuildSize>>

Next ==
  \/ \E key \in Key :
       \/ \E value \in Value : Add(key, value)
       \/ Remove(key)
       \/ Lookup(key)
  \/ RemoveNext

Spec == Init /\ [][Next]_vars

-----------------------------------------------------------------------------

\* What a Lookup of each key would give.
Map == [key \in Key |-> ValueOf(LookupKey(key))]

Table == INSTANCE Dictionary WITH map <- Map

\* BasicHashTable: chains and rebuilding are not to be noticed, the table is a dictionary as its
\* users rely on it (see Dictionary, also for where HashTable.hh says something else).
TableIsDictionary == Table!Spec
=============================================================================
