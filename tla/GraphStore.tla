---------------------------- MODULE GraphStore ----------------------------
(***************************************************************************)
(* The dashboard server's in-memory picture of the memory graph            *)
(* (dashboard/src/model.rs, struct GraphStore): nodes in insertion order,  *)
(* tombstoned rather than removed so that ids stay stable, two interning   *)
(* maps, and the edge list with the set that de-duplicates it.  One action *)
(* per method, each taken under the store's write lock.                    *)
(*                                                                         *)
(* Ids are positions counted from 1 (from 0 in the code); NoId stands for  *)
(* a miss in a map.  The display fields of a node are one content version. *)
(***************************************************************************)
EXTENDS Integers, FiniteSets, Sequences

CONSTANTS
    Items,      \* item krefs (item_uri: a revision kref without its query)
    Types,      \* edge types
    Spaces,     \* space paths
    SpaceOf,    \* the space path spelled in an item's kref
    Contents,   \* content versions a caller may supply
    Counts      \* revision counts a caller may supply

ASSUME SpaceAssumption == SpaceOf \in [Items -> Spaces]

ASSUME SeedAssumption == Contents \subseteq Nat /\ Counts \subseteq Nat

VARIABLES
    nodes,      \* Vec<NodeOut>
    edges,      \* Vec<EdgeOut>, order forgotten: how often each edge occurs
    spaces,     \* Vec<SpaceOut>
    by_item,    \* HashMap<item kref, id>
    by_space,   \* HashMap<space path, id>
    edge_set    \* HashSet<(src, dst, type)>

store == <<nodes, edges, spaces, by_item, by_space, edge_set>>

NoId == 0

Edge == [src : Nat, dst : Nat, ty : Types]

Node == [kref : Items, space : Nat, ver : Nat, revs : Nat, dead : BOOLEAN]

\* What a caller of upsert supplies (NodeSeed).
Seed == [item : Items, ver : Contents, revs : Counts]

Ids == 1..Len(nodes)

\* Live (non-tombstoned) node ids: what a snapshot carries.
LiveIds == {id \in Ids : ~nodes[id].dead}

Larger(a, b) == IF a >= b THEN a ELSE b

Touches(e, id) == e.src = id \/ e.dst = id

---------------------------------------------------------------------------
Init ==
    /\ nodes = <<>>
    /\ edges = [e \in {} |-> 0]
    /\ spaces = <<>>
    /\ by_item = [i \in Items |-> NoId]
    /\ by_space = [s \in Spaces |-> NoId]
    /\ edge_set = {}

\* The id of a space path, interned on first use.
InternSpace(path) ==
    IF by_space[path] # NoId
      THEN UNCHANGED <<spaces, by_space>>
      ELSE /\ spaces' = Append(spaces, path)
           /\ by_space' = [by_space EXCEPT ![path] = Len(spaces')]

\* The node after an upsert of a known item: fresh content, and alive again.
Refreshed(node, seed) ==
    [node EXCEPT !.ver = seed.ver,
                 !.revs = Larger(node.revs, seed.revs),
                 !.dead = FALSE]

\* Insert or refresh a node.
Upsert(seed) ==
    LET id == by_item[seed.item]
    IN  /\ InternSpace(SpaceOf[seed.item])
        /\ IF id # NoId
             THEN /\ nodes' = [nodes EXCEPT ![id] = Refreshed(nodes[id], seed)]
                  /\ UNCHANGED by_item
             ELSE /\ nodes' = Append(nodes,
                       [kref |-> seed.item, space |-> by_space'[SpaceOf[seed.item]],
                        ver |-> seed.ver, revs |-> seed.revs, dead |-> FALSE])
                  /\ by_item' = [by_item EXCEPT ![seed.item] = Len(nodes')]
        /\ UNCHANGED <<edges, edge_set>>

EdgeBetween(i, j, t) == [src |-> by_item[i], dst |-> by_item[j], ty |-> t]

\* add_edge returns Some: both ends known and alive, not one item, not yet there.
CanAddEdge(i, j, t) ==
    /\ by_item[i] # NoId /\ by_item[j] # NoId
    /\ by_item[i] # by_item[j]
    /\ ~nodes[by_item[i]].dead /\ ~nodes[by_item[j]].dead
    /\ EdgeBetween(i, j, t) \notin edge_set

\* Vec::push on the edge list.
Push(list, e) ==
    [x \in DOMAIN list \cup {e} |->
        (IF x \in DOMAIN list THEN list[x] ELSE 0) + (IF x = e THEN 1 ELSE 0)]

\* Vec::retain on the edge list: the edges that do not touch `id`.
Retain(list, id) == [x \in {e \in DOMAIN list : ~Touches(e, id)} |-> list[x]]

AddEdge(i, j, t) ==
    /\ CanAddEdge(i, j, t)
    /\ edge_set' = edge_set \cup {EdgeBetween(i, j, t)}
    /\ edges' = Push(edges, EdgeBetween(i, j, t))
    /\ UNCHANGED <<nodes, spaces, by_item, by_space>>

\* remove_item returns Some: the item is known and not yet a tombstone.
CanRemove(i) == by_item[i] # NoId /\ ~nodes[by_item[i]].dead

\* Mutant: the edge list is pruned and its de-duplicating set is not.
RemoveItemKeepsSet(i) ==
    /\ CanRemove(i)
    /\ nodes' = [nodes EXCEPT ![by_item[i]].dead = TRUE]
    /\ edges' = Retain(edges, by_item[i])
    /\ UNCHANGED <<spaces, by_item, by_space, edge_set>>

\* Mutant: the node is taken out of the list, and the later ones move up.
RemoveItemCompacts(i) ==
    LET id == by_item[i]
    IN  /\ CanRemove(i)
        /\ nodes' = SubSeq(nodes, 1, id - 1) \o SubSeq(nodes, id + 1, Len(nodes))
        /\ by_item' = [k \in Items |-> IF k = i THEN NoId
                                       ELSE IF by_item[k] > id THEN by_item[k] - 1
                                       ELSE by_item[k]]
        /\ edges' = Retain(edges, id)
        /\ edge_set' = {e \in edge_set : ~Touches(e, id)}
        /\ UNCHANGED <<spaces, by_space>>

\* Mutant: the edge list is cleared instead of filtered.
RemoveItemClears(i) ==
    /\ CanRemove(i)
    /\ nodes' = [nodes EXCEPT ![by_item[i]].dead = TRUE]
    /\ edges' = [e \in {} |-> 0]
    /\ edge_set' = {}
    /\ UNCHANGED <<spaces, by_item, by_space>>

\* Tombstone a node and prune its edges.
RemoveItem(i) ==
    /\ CanRemove(i)
    /\ nodes' = [nodes EXCEPT ![by_item[i]].dead = TRUE]
    /\ edges' = Retain(edges, by_item[i])
    /\ edge_set' = {e \in edge_set : ~Touches(e, by_item[i])}
    /\ UNCHANGED <<spaces, by_item, by_space>>

Next ==
    \/ \E seed \in Seed : Upsert(seed)
    \/ \E i \in Items, j \in Items, t \in Types : AddEdge(i, j, t)
    \/ \E i \in Items : RemoveItem(i)

Spec == Init /\ [][Next]_store

---------------------------------------------------------------------------
(* Properties *)

\* Type invariant of the six fields of the struct.
TypeOK ==
    /\ nodes \in Seq(Node)
    /\ edge_set \subseteq Edge
    /\ DOMAIN edges \subseteq Edge
    /\ edges \in [DOMAIN edges -> Nat]
    /\ spaces \in Seq(Spaces)
    /\ by_item \in [Items -> 0..Len(nodes)]
    /\ by_space \in [Spaces -> 0..Len(spaces)]

\* The map from krefs to ids and the node list are inverse to each other, so
\* that no sequence of upserts and removals gives an item a second node
\* (model.rs upsert and remove_item).
IndexAgrees ==
    /\ \A i \in Items : by_item[i] # NoId => nodes[by_item[i]].kref = i
    /\ \A id \in Ids : by_item[nodes[id].kref] = id

\* A node's space index always finds the path its kref spells, and a path is
\* interned once (model.rs intern_space).
SpacesAgree ==
    /\ \A s \in Spaces : by_space[s] # NoId => spaces[by_space[s]] = s
    /\ \A k \in 1..Len(spaces) : by_space[spaces[k]] = k
    /\ \A id \in Ids : by_space[SpaceOf[nodes[id].kref]] = nodes[id].space
                       /\ nodes[id].space # NoId

\* The edge list holds exactly the edges of the de-duplicating set, each once:
\* the two are updated by different statements of add_edge and remove_item, and
\* an edge left in the set alone could never be added again.
EdgesAgree ==
    /\ DOMAIN edges = edge_set
    /\ \A e \in edge_set : edges[e] = 1

\* Every interlink joins two different live nodes, whatever was removed and
\* revived in between: fetch_detail and the snapshot index `nodes` by an edge's
\* ends without a test.
EdgesJoinLiveNodes ==
    \A e \in edge_set :
        /\ e.src \in LiveIds /\ e.dst \in LiveIds
        /\ e.src # e.dst

\* The six fields agree with each other in every state: what the runs check and what the
\* proofs carry along (model.rs, all methods).
StoreInv == TypeOK /\ IndexAgrees /\ SpacesAgree /\ EdgesAgree /\ EdgesJoinLiveNodes

\* An id keeps naming the same item in the same space for ever: browsers hold
\* ids across deletions and revivals (model.rs "ids stay stable").
KeepsIds ==
    \A id \in Ids :
        /\ id \in DOMAIN nodes'
        /\ nodes'[id].kref = nodes[id].kref
        /\ nodes'[id].space = nodes[id].space

IdsAreStable == [][KeepsIds]_store

\* An interlink disappears only in the step that tombstones one of its ends:
\* no upsert, revival or other edge ever drops one.
DropsOnlyTheDead ==
    \A e \in edge_set \ edge_set' :
        \E id \in LiveIds : Touches(e, id) /\ nodes'[id].dead

EdgesLeaveWithANode == [][DropsOnlyTheDead]_store
===========================================================================
