--------------------------- MODULE MCMemoryStore ---------------------------
(* TLC instances of MemoryStore: one label x; the `tags` argument is absent, *)
(* or has `published` nowhere, last or first.                                *)
EXTENDS MemoryStore, TLC

CONSTANT x

Threads == Permutations(Calls)

MCTagLists == {<<>>, <<x>>, <<x, Published>>, <<Published, x>>}
===========================================================================
