------------------------------- MODULE Cache -------------------------------
(***************************************************************************)
(* The direct-mapped caches of cache.c, in front of every recursion of the *)
(* library.  A cache maps slots to entries [key, res]; an entry whose      *)
(* generation is not that of the cache is NoEntry.                         *)
(***************************************************************************)
EXTENDS Integers, FiniteSets

NoEntry == <<>>

EmptyCache(size) == [i \in 0..(size - 1) |-> NoEntry]

\* Mutant: the entries stay valid.
ResetNothing(cache) == cache

\* BddCache_reset: no entry of an earlier generation is valid.
Reset(cache) == EmptyCache(Cardinality(DOMAIN cache))

SlotOf(cache, hash) == hash % Cardinality(DOMAIN cache)

Entry(cache, hash) == cache[SlotOf(cache, hash)]

Stored(cache, hash, key, res) ==
  [cache EXCEPT ![SlotOf(cache, hash)] = [key |-> key, res |-> res]]

=============================================================================
