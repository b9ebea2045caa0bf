------------------------------- MODULE BpfMaps ------------------------------
(***************************************************************************)
(* What the kernel's map helpers do, as the eBPF programs use them: a map  *)
(* is a function on the keys it holds, an update or a delete gives the map *)
(* after it.  None of the programs looks at the helpers' results.          *)
(***************************************************************************)
EXTENDS Naturals, FiniteSets, Functions

NoEntries == [key \in {} |-> 0]

With(map, key, value) ==
    [k \in DOMAIN map \cup {key} |-> IF k = key THEN value ELSE map[k]]

Without(map, key) == Restrict(map, DOMAIN map \ {key})

HasRoom(map, key, max) == key \in DOMAIN map \/ Cardinality(DOMAIN map) < max

\* BPF_MAP_TYPE_HASH with BPF_ANY: a new key does not enter a full map.
HashUpdate(map, key, value, max) ==
    IF HasRoom(map, key, max) THEN With(map, key, value) ELSE map

\* BPF_MAP_TYPE_LRU_HASH: a new key takes the place of some other key; which
\* one is old is only known approximately.
LruUpdates(map, key, value, max) ==
    IF HasRoom(map, key, max) THEN {With(map, key, value)}
    ELSE {With(Without(map, old), key, value) : old \in DOMAIN map}
=============================================================================
