----------------------------- MODULE Dictionary -----------------------------
(***************************************************************************)
(* What the users of HashTable.hh, which are live555's tables of sockets,    *)
(* media, SSRCs and RTCP members, rely on: a value per key, and what was    *)
(* there before.  NULL is what there is when there is nothing, and is never *)
(* stored.  It is not word for word what HashTable.hh says: by its line 36  *)
(* Add returns the old value "if different, otherwise 0", and             *)
(* BasicHashTable returns the old value also when it is the same.  Its      *)
(* users do not see that: who looks at the result (MediaSession.cpp 656,    *)
(* 676) never stores a value twice, who does (RTCP.cpp 50) does not look.   *)
(***************************************************************************)
CONSTANTS Key, Value, NULL

VARIABLES
  map,      \* the value of each key
  found     \* what the last call has returned; for Remove, the value that True stands for

vars == <<map, found>>

Init ==
  /\ map = [key \in Key |-> NULL]
  /\ found = NULL

Add(key, value) ==
  /\ found' = map[key]
  /\ map' = [map EXCEPT ![key] = value]

Remove(key) ==
  /\ found' = map[key]
  /\ map' = [map EXCEPT ![key] = NULL]

Lookup(key) ==
  /\ found' = map[key]
  /\ UNCHANGED map

\* Any entry, as long as there is one.
RemoveNext ==
  \/ \E key \in Key : map[key] # NULL /\ Remove(key)
  \/ /\ \A key \in Key : map[key] = NULL
     /\ found' = NULL
     /\ UNCHANGED map

Next ==
  \/ \E key \in Key :
       \/ \E value \in Value : Add(key, value)
       \/ Remove(key)
       \/ Lookup(key)
  \/ RemoveNext

Spec == Init /\ [][Next]_vars
=============================================================================
