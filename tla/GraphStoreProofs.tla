------------------------- MODULE GraphStoreProofs -------------------------
(* Proofs about GraphStore, for any items, spaces and edge types.          *)
EXTENDS GraphStore, TLAPS

\* The fields of a listed node have their types.
LEMMA NodeFields ==
    ASSUME TypeOK, NEW k \in Ids
    PROVE  /\ nodes[k] \in Node
           /\ nodes[k].kref \in Items
           /\ nodes[k].space \in Nat
           /\ nodes[k].dead \in BOOLEAN
           /\ SpaceOf[nodes[k].kref] \in Spaces
<1>1. nodes[k] \in Node
  BY DEF TypeOK, Ids
<1>2. nodes[k].kref \in Items /\ nodes[k].space \in Nat /\ nodes[k].dead \in BOOLEAN
  BY <1>1 DEF Node
<1> QED BY <1>1, <1>2, SpaceAssumption

\* Interning a path keeps the two space structures consistent, only grows the
\* list, and leaves the path with an id (model.rs intern_space).
LEMMA InternSpaceLemma ==
    ASSUME NEW path \in Spaces,
           spaces \in Seq(Spaces), by_space \in [Spaces -> 0..Len(spaces)],
           \A s \in Spaces : by_space[s] # NoId => spaces[by_space[s]] = s,
           \A k \in 1..Len(spaces) : by_space[spaces[k]] = k,
           InternSpace(path)
    PROVE  /\ spaces' \in Seq(Spaces)
           /\ by_space' \in [Spaces -> 0..Len(spaces')]
           /\ \A s \in Spaces : by_space'[s] # NoId => spaces'[by_space'[s]] = s
           /\ \A k \in 1..Len(spaces') : by_space'[spaces'[k]] = k
           /\ by_space'[path] # NoId
           /\ \A s \in Spaces : by_space[s] # NoId => by_space'[s] = by_space[s]
<1>1. CASE by_space[path] # NoId
  BY <1>1 DEF InternSpace
<1>2. CASE by_space[path] = NoId
  <2>1. /\ spaces' = Append(spaces, path)
        /\ by_space' = [by_space EXCEPT ![path] = Len(spaces')]
    BY <1>2 DEF InternSpace
  <2>2. /\ spaces' \in Seq(Spaces)
        /\ Len(spaces') = Len(spaces) + 1
        /\ Len(spaces) \in Nat
        /\ spaces'[Len(spaces')] = path
        /\ \A k \in 1..Len(spaces) : spaces'[k] = spaces[k]
    BY <2>1
  <2>3. by_space' \in [Spaces -> 0..Len(spaces')]
    BY <2>1, <2>2
  <2>4. \A k \in 1..Len(spaces) : spaces[k] # path
    BY <1>2 DEF NoId
  <2>5. \A k \in 1..Len(spaces') : by_space'[spaces'[k]] = k
    BY <2>1, <2>2, <2>4
  <2> QED
    BY <1>2, <2>1, <2>2, <2>3, <2>5 DEF NoId
<1> QED BY <1>1, <1>2

\* Inserting or refreshing a node preserves the store's invariant (model.rs
\* upsert): a refreshed node keeps its kref and space, a revived one has no edge.
LEMMA UpsertPreserves ==
    ASSUME StoreInv, NEW seed \in Seed, Upsert(seed)
    PROVE  StoreInv'
<1> DEFINE i == seed.item
<1> DEFINE path == SpaceOf[seed.item]
<1>1. /\ i \in Items /\ path \in Spaces
      /\ seed.ver \in Nat /\ seed.revs \in Nat
  BY SpaceAssumption, SeedAssumption DEF Seed
<1>2. /\ spaces' \in Seq(Spaces)
      /\ by_space' \in [Spaces -> 0..Len(spaces')]
      /\ \A s \in Spaces : by_space'[s] # NoId => spaces'[by_space'[s]] = s
      /\ \A k \in 1..Len(spaces') : by_space'[spaces'[k]] = k
      /\ by_space'[path] # NoId
      /\ \A s \in Spaces : by_space[s] # NoId => by_space'[s] = by_space[s]
  <2>1. InternSpace(path)
    BY DEF Upsert
  <2> QED
    BY <1>1, <2>1, InternSpaceLemma DEF StoreInv, TypeOK, SpacesAgree
<1>3. edges' = edges /\ edge_set' = edge_set
  BY DEF Upsert
<1>4. CASE by_item[i] # NoId
  <2> DEFINE id == by_item[i]
  <2>1. id \in Ids /\ nodes[id] \in Node /\ nodes[id].kref = i
    BY <1>1, <1>4 DEF StoreInv, TypeOK, IndexAgrees, Ids, NoId
  <2>2. nodes' = [nodes EXCEPT ![id] = Refreshed(nodes[id], seed)] /\ by_item' = by_item
    BY <1>4 DEF Upsert
  <2>3. /\ Refreshed(nodes[id], seed) \in Node
        /\ Refreshed(nodes[id], seed).kref = i
        /\ Refreshed(nodes[id], seed).space = nodes[id].space
        /\ Refreshed(nodes[id], seed).dead = FALSE
    BY <1>1, <2>1 DEF Refreshed, Node, Larger
  <2>4. nodes' \in Seq(Node) /\ Len(nodes') = Len(nodes)
    BY <2>1, <2>2, <2>3 DEF StoreInv, TypeOK, Ids
  <2>5. \A k \in Ids : /\ nodes'[k].kref = nodes[k].kref
                       /\ nodes'[k].space = nodes[k].space
                       /\ nodes'[k].dead => nodes[k].dead
    BY <2>1, <2>2, <2>3 DEF StoreInv, TypeOK, Ids
  <2>6. TypeOK'
    BY <1>2, <1>3, <2>2, <2>4 DEF StoreInv, TypeOK
  <2>7. IndexAgrees'
    BY <2>2, <2>4, <2>5 DEF StoreInv, TypeOK, IndexAgrees, Ids, NoId
  <2>8. SpacesAgree'
    <3>1. \A k \in Ids : SpaceOf[nodes[k].kref] \in Spaces
      BY NodeFields DEF StoreInv
    <3> QED BY <1>2, <2>4, <2>5, <3>1 DEF StoreInv, SpacesAgree, Ids
  <2>9. EdgesAgree' /\ EdgesJoinLiveNodes'
    <3>1. LiveIds \subseteq LiveIds'
      BY <2>4, <2>5 DEF LiveIds, Ids
    <3> QED BY <1>3, <3>1 DEF StoreInv, EdgesAgree, EdgesJoinLiveNodes
  <2> QED BY <2>6, <2>7, <2>8, <2>9 DEF StoreInv
<1>5. CASE by_item[i] = NoId
  <2> DEFINE new == [kref |-> i, space |-> by_space'[path],
                     ver |-> seed.ver, revs |-> seed.revs, dead |-> FALSE]
  <2>1. /\ nodes' = Append(nodes, new)
        /\ by_item' = [by_item EXCEPT ![i] = Len(nodes')]
    BY <1>5 DEF Upsert
  <2>2. new \in Node
    BY <1>1, <1>2 DEF Node
  <2>3. /\ nodes' \in Seq(Node)
        /\ Len(nodes') = Len(nodes) + 1
        /\ Len(nodes) \in Nat
        /\ nodes'[Len(nodes')] = new
        /\ \A k \in Ids : nodes'[k] = nodes[k]
    BY <2>1, <2>2 DEF StoreInv, TypeOK, Ids
  <2>4. by_item' \in [Items -> 0..Len(nodes')]
    BY <1>1, <2>1, <2>3 DEF StoreInv, TypeOK
  <2>5. TypeOK'
    BY <1>2, <1>3, <2>3, <2>4 DEF StoreInv, TypeOK
  <2>6. \A k \in Ids : nodes[k].kref # i
    BY <1>5 DEF StoreInv, IndexAgrees, Ids, NoId
  <2>7. IndexAgrees'
    <3>1. \A j \in Items : by_item'[j] # NoId => nodes'[by_item'[j]].kref = j
      BY <1>1, <1>5, <2>1, <2>3 DEF StoreInv, TypeOK, IndexAgrees, Ids, NoId
    <3>2. \A k \in Ids : nodes[k].kref \in Items
      BY NodeFields DEF StoreInv
    <3>3. \A k \in Ids' : by_item'[nodes'[k].kref] = k
      BY <1>1, <2>1, <2>3, <2>6, <3>2 DEF StoreInv, TypeOK, IndexAgrees, Ids
    <3> QED BY <3>1, <3>3 DEF IndexAgrees
  <2>8. SpacesAgree'
    <3>1. \A k \in Ids : SpaceOf[nodes[k].kref] \in Spaces
      BY NodeFields DEF StoreInv
    <3>2. \A k \in Ids : /\ by_space'[SpaceOf[nodes'[k].kref]] = nodes'[k].space
                         /\ nodes'[k].space # NoId
      BY <1>2, <2>3, <3>1 DEF StoreInv, SpacesAgree
    <3>3. /\ by_space'[SpaceOf[new.kref]] = new.space
          /\ new.space # NoId
      BY <1>2
    <3>4. \A k \in Ids' : k \in Ids \/ k = Len(nodes')
      BY <2>3 DEF Ids
    <3> QED BY <1>2, <2>3, <3>2, <3>3, <3>4 DEF SpacesAgree
  <2>9. EdgesAgree' /\ EdgesJoinLiveNodes'
    <3>1. LiveIds \subseteq LiveIds'
      BY <2>3 DEF LiveIds, Ids
    <3> QED BY <1>3, <3>1 DEF StoreInv, EdgesAgree, EdgesJoinLiveNodes
  <2> QED BY <2>5, <2>7, <2>8, <2>9 DEF StoreInv
<1> QED BY <1>4, <1>5

\* Adding an interlink preserves the store's invariant (model.rs add_edge).
LEMMA AddEdgePreserves ==
    ASSUME StoreInv, NEW i \in Items, NEW j \in Items, NEW t \in Types,
           AddEdge(i, j, t)
    PROVE  StoreInv'
<1> DEFINE e == EdgeBetween(i, j, t)
<1>1. /\ CanAddEdge(i, j, t)
      /\ edge_set' = edge_set \cup {e}
      /\ edges' = Push(edges, e)
      /\ UNCHANGED <<nodes, spaces, by_item, by_space>>
  BY DEF AddEdge
<1>2. /\ e \in Edge
      /\ e.src \in LiveIds /\ e.dst \in LiveIds /\ e.src # e.dst
      /\ e \notin edge_set
  BY <1>1 DEF CanAddEdge, EdgeBetween, Edge, StoreInv, TypeOK, LiveIds, Ids, NoId
<1>3. /\ DOMAIN edges' = edge_set \cup {e}
      /\ \A x \in edge_set \cup {e} : edges'[x] = 1
  BY <1>1, <1>2 DEF Push, StoreInv, EdgesAgree
<1>4. edges' \in [DOMAIN edges' -> Nat]
  <2>1. edges' = [x \in DOMAIN edges' |-> edges'[x]]
    BY <1>1 DEF Push
  <2> QED BY <1>3, <2>1
<1>5. TypeOK'
  BY <1>1, <1>2, <1>3, <1>4 DEF StoreInv, TypeOK, EdgesAgree
<1>6. EdgesAgree'
  BY <1>1, <1>3 DEF EdgesAgree
<1>7. EdgesJoinLiveNodes'
  BY <1>1, <1>2 DEF StoreInv, EdgesJoinLiveNodes, LiveIds, Ids
<1>8. IndexAgrees' /\ SpacesAgree'
  BY <1>1 DEF StoreInv, IndexAgrees, SpacesAgree, Ids
<1> QED BY <1>5, <1>6, <1>7, <1>8 DEF StoreInv

\* Tombstoning a node preserves the store's invariant (model.rs remove_item).
LEMMA RemoveItemPreserves ==
    ASSUME StoreInv, NEW i \in Items, RemoveItem(i)
    PROVE  StoreInv'
<1> DEFINE id == by_item[i]
<1>1. /\ nodes' = [nodes EXCEPT ![id].dead = TRUE]
      /\ edges' = Retain(edges, id)
      /\ edge_set' = {e \in edge_set : ~Touches(e, id)}
      /\ UNCHANGED <<spaces, by_item, by_space>>
  BY DEF RemoveItem
<1>2. id \in Ids /\ nodes[id] \in Node
  BY DEF RemoveItem, CanRemove, StoreInv, TypeOK, Ids, NoId
<1>3. /\ nodes' \in Seq(Node)
      /\ Len(nodes') = Len(nodes)
      /\ \A k \in Ids : /\ nodes'[k].kref = nodes[k].kref
                        /\ nodes'[k].space = nodes[k].space
                        /\ k # id => nodes'[k] = nodes[k]
  <2>1. /\ [nodes[id] EXCEPT !.dead = TRUE] \in Node
        /\ [nodes[id] EXCEPT !.dead = TRUE].kref = nodes[id].kref
        /\ [nodes[id] EXCEPT !.dead = TRUE].space = nodes[id].space
    BY <1>2 DEF Node
  <2>2. nodes' = [nodes EXCEPT ![id] = [nodes[id] EXCEPT !.dead = TRUE]]
    BY <1>1
  <2> QED BY <1>2, <2>1, <2>2 DEF StoreInv, TypeOK, Ids
<1>4. /\ DOMAIN edges' = edge_set'
      /\ \A e \in edge_set' : edges'[e] = 1
  BY <1>1 DEF Retain, StoreInv, EdgesAgree
<1>5. edges' \in [DOMAIN edges' -> Nat]
  <2>1. edges' = [x \in DOMAIN edges' |-> edges'[x]]
    BY <1>1 DEF Retain
  <2> QED BY <1>4, <2>1
<1>6. TypeOK'
  BY <1>1, <1>3, <1>4, <1>5 DEF StoreInv, TypeOK, EdgesAgree
<1>7. EdgesAgree'
  BY <1>4 DEF EdgesAgree
<1>8. EdgesJoinLiveNodes'
  BY <1>1, <1>3 DEF StoreInv, EdgesJoinLiveNodes, LiveIds, Ids, Touches
<1>9. IndexAgrees'
  <2>1. Ids' = Ids
    BY <1>3 DEF Ids
  <2>2. \A j \in Items : by_item[j] # NoId => by_item[j] \in Ids
    BY DEF StoreInv, TypeOK, Ids, NoId
  <2> QED BY <1>1, <1>3, <2>1, <2>2 DEF StoreInv, IndexAgrees
<1>10. SpacesAgree'
  <2>1. Ids' = Ids
    BY <1>3 DEF Ids
  <2> QED BY <1>1, <1>3, <2>1 DEF StoreInv, SpacesAgree
<1> QED BY <1>6, <1>7, <1>8, <1>9, <1>10 DEF StoreInv

\* GraphStore::default() satisfies the invariant.
LEMMA InitStoreInv == Init => StoreInv
<1> SUFFICES ASSUME Init PROVE StoreInv
  OBVIOUS
<1>1. nodes \in Seq(Node) /\ spaces \in Seq(Spaces) /\ Len(nodes) = 0 /\ Len(spaces) = 0
  BY DEF Init
<1>2. TypeOK
  BY <1>1 DEF Init, TypeOK, NoId
<1> QED
  BY <1>1, <1>2 DEF Init, StoreInv, IndexAgrees, SpacesAgree, EdgesAgree,
                    EdgesJoinLiveNodes, Ids, NoId

\* Whatever sequence of upserts, interlinks and removals reaches the store, its
\* maps stay consistent and no interlink touches a tombstone.
THEOREM StoreInvariant == Spec => []StoreInv
<1>1. StoreInv /\ [Next]_store => StoreInv'
  <2> SUFFICES ASSUME StoreInv, [Next]_store PROVE StoreInv'
    OBVIOUS
  <2>1. CASE UNCHANGED store
    BY <2>1 DEF store, StoreInv, TypeOK, IndexAgrees, SpacesAgree, EdgesAgree,
                EdgesJoinLiveNodes, Ids, LiveIds
  <2>2. CASE \E seed \in Seed : Upsert(seed)
    BY <2>2, UpsertPreserves
  <2>3. CASE \E i \in Items, j \in Items, t \in Types : AddEdge(i, j, t)
    BY <2>3, AddEdgePreserves
  <2>4. CASE \E i \in Items : RemoveItem(i)
    BY <2>4, RemoveItemPreserves
  <2> QED BY <2>1, <2>2, <2>3, <2>4 DEF Next
<1> QED BY <1>1, InitStoreInv, PTL DEF Spec

\* No step renames, moves or forgets a node's id: a browser may keep ids for as
\* long as the server lives (model.rs "ids stay stable").
THEOREM StableIds == Spec => IdsAreStable
<1>1. StoreInv /\ [Next]_store => [KeepsIds]_store
  <2> SUFFICES ASSUME StoreInv, Next PROVE KeepsIds
    OBVIOUS
  <2>1. CASE \E seed \in Seed : Upsert(seed)
    <3> PICK seed \in Seed : Upsert(seed)
      BY <2>1
    <3> DEFINE id == by_item[seed.item]
    <3>1. seed.item \in Items
      BY DEF Seed
    <3>2. CASE id # NoId
      <4>1. nodes' = [nodes EXCEPT ![id] = Refreshed(nodes[id], seed)]
        BY <3>2 DEF Upsert
      <4>2. id \in Ids /\ nodes[id] \in Node
        BY <3>1, <3>2, NodeFields DEF StoreInv, TypeOK, Ids, NoId
      <4>3. /\ Refreshed(nodes[id], seed).kref = nodes[id].kref
            /\ Refreshed(nodes[id], seed).space = nodes[id].space
        BY <4>2 DEF Refreshed, Node
      <4> QED BY <4>1, <4>2, <4>3 DEF KeepsIds, StoreInv, TypeOK, Ids
    <3>3. CASE id = NoId
      <4>1. PICK n : nodes' = Append(nodes, n)
        BY <3>3 DEF Upsert
      <4> QED BY <4>1 DEF KeepsIds, StoreInv, TypeOK, Ids
    <3> QED BY <3>2, <3>3
  <2>2. CASE \E i \in Items, j \in Items, t \in Types : AddEdge(i, j, t)
    BY <2>2 DEF AddEdge, KeepsIds, StoreInv, TypeOK, Ids
  <2>3. CASE \E i \in Items : RemoveItem(i)
    <3> PICK i \in Items : RemoveItem(i)
      BY <2>3
    <3>1. /\ by_item[i] \in Ids
          /\ nodes' = [nodes EXCEPT ![by_item[i]].dead = TRUE]
      BY DEF RemoveItem, CanRemove, StoreInv, TypeOK, Ids, NoId
    <3>2. nodes[by_item[i]] \in Node
      BY <3>1, NodeFields DEF StoreInv
    <3>3. /\ [nodes[by_item[i]] EXCEPT !.dead = TRUE].kref = nodes[by_item[i]].kref
          /\ [nodes[by_item[i]] EXCEPT !.dead = TRUE].space = nodes[by_item[i]].space
      BY <3>2 DEF Node
    <3> QED BY <3>1, <3>3 DEF KeepsIds, StoreInv, TypeOK, Ids
  <2> QED BY <2>1, <2>2, <2>3 DEF Next
<1> QED BY <1>1, StoreInvariant, PTL DEF Spec, IdsAreStable

\* An interlink leaves the store only when one of its live ends is tombstoned
\* (model.rs remove_item).
THEOREM EdgesLeaveOnlyWithNodes == Spec => EdgesLeaveWithANode
<1>1. StoreInv /\ [Next]_store => [DropsOnlyTheDead]_store
  <2> SUFFICES ASSUME StoreInv, Next PROVE DropsOnlyTheDead
    OBVIOUS
  <2>1. CASE \E seed \in Seed : Upsert(seed)
    BY <2>1 DEF Upsert, DropsOnlyTheDead
  <2>2. CASE \E i \in Items, j \in Items, t \in Types : AddEdge(i, j, t)
    BY <2>2 DEF AddEdge, DropsOnlyTheDead
  <2>3. CASE \E i \in Items : RemoveItem(i)
    <3> PICK i \in Items : RemoveItem(i)
      BY <2>3
    <3> DEFINE id == by_item[i]
    <3>1. id \in LiveIds
      BY DEF RemoveItem, CanRemove, StoreInv, TypeOK, LiveIds, Ids, NoId
    <3>2. nodes'[id].dead
      <4>1. nodes[id] \in Node
        BY <3>1, NodeFields DEF StoreInv, LiveIds
      <4>2. [nodes[id] EXCEPT !.dead = TRUE].dead
        BY <4>1 DEF Node
      <4> QED BY <3>1, <4>2 DEF RemoveItem, StoreInv, TypeOK, LiveIds, Ids
    <3>3. \A e \in edge_set \ edge_set' : Touches(e, id)
      BY DEF RemoveItem
    <3> QED BY <3>1, <3>2, <3>3 DEF DropsOnlyTheDead
  <2> QED BY <2>1, <2>2, <2>3 DEF Next
<1> QED BY <1>1, StoreInvariant, PTL DEF Spec, EdgesLeaveWithANode
===========================================================================
