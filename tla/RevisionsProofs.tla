--------------------------- MODULE RevisionsProofs ---------------------------
(* Proofs about Revisions, for any objects, tags, values, artifacts and     *)
(* references, any freshness and any number of revisions and writes.        *)
EXTENDS Revisions, WellFoundedInduction, TLAPS

RevisionRecord == [alive : BOOLEAN, tags : SUBSET Tags, attr : Values \cup {Nothing},
                   arts : SUBSET Arts, default : Arts \cup {Nothing}, deprecated : BOOLEAN]

ObjectRecord == [num : Nat, tags : SUBSET (Tags \cup {Latest}), latest : BOOLEAN,
                 published : BOOLEAN, attr : Values \cup {Nothing}, default : Arts \cup {Nothing},
                 deprecated : BOOLEAN, edit : Edits, age : 0..Fresh + 1,
                 wrong : 0..Fresh + 1, edited : BOOLEAN, touched : BOOLEAN]

ToolRecord == [pc : {"idle", "act", "edge", "fetch", "done"}, at : Nat, with : Nat,
               deps : SUBSET Nat, todo : SUBSET Nat, found : SUBSET Nat, skipped : SUBSET Nat,
               ok : BOOLEAN]

ServerInv ==
    /\ revs \in Seq(RevisionRecord) /\ Len(revs) <= MaxRevs
    /\ latest \in {0} \cup {n \in Numbers : Alive(n)}
    /\ \A e \in edges : Alive(e[1]) /\ Alive(e[2])
    /\ \A n, m \in Numbers : n # m => revs[n].tags \cap revs[m].tags = {}

\* The attribute that a copy has, or will have when the call under way has edited it.
Aim(c) == IF c.edit.to = "attr" THEN c.edit.what ELSE c.attr

\* It is the revision's, when that is there and was not written past the copy.
Good(r, c) == c.num \in 1..Len(r) /\ r[c.num].alive /\ ~c.touched => Aim(c) = r[c.num].attr

\* A copy is not wrong for longer than it is old, unless it was edited since it was made.
ObjectsInv ==
    /\ object \in [Objects -> ObjectRecord]
    /\ \A o \in Objects : /\ object[o].num \in {0} \cup Numbers
                          /\ ~object[o].edited => object[o].wrong <= object[o].age
                          /\ Good(revs, object[o])

\* A dependency that is neither found nor passed over nor waiting is gone; what is gone
\* stays gone.
ToolInv ==
    /\ tool \in ToolRecord
    /\ {tool.at, tool.with} \subseteq {0} \cup Numbers /\ tool.deps \subseteq Numbers
    /\ tool.pc \in {"act", "edge"} => tool.deps = {}
    /\ tool.pc = "act" => tool.with = 0
    /\ tool.pc = "edge" => tool.with # 0
    /\ tool.pc = "fetch" =>
         \A d \in tool.deps : d \in tool.todo \cup tool.found \cup tool.skipped \/ ~Alive(d)
    /\ tool.pc \in {"act", "edge", "fetch"} => tool.at # 0
    /\ ProvenanceIsWhole

Inv == ServerInv /\ ObjectsInv /\ ToolInv /\ writes \in 0..MaxWrites

---------------------------------------------------------------------------

\* A set of numbers up to N that is not empty has a greatest one.
LEMMA Greatest ==
    ASSUME NEW N \in Nat, NEW s \in SUBSET (1..N), s # {}
    PROVE  \E n \in s : \A m \in s : m <= n
<1> DEFINE R == OpToRel(<, Nat)
           T == {N - n : n \in s}
<1>1. R = {p \in Nat \X Nat : p[1] < p[2]}
  BY Zenon DEF OpToRel
<1>2. IsWellFoundedOn(R, Nat)
  BY Zenon, NatLessThanWellFounded
<1>3. T \subseteq Nat /\ T # {}
  <2>1. \A n \in s : N - n \in Nat
    OBVIOUS
  <2> QED BY <2>1
<1> HIDE DEF T, R
<1>4. \A x, y \in Nat : y < x => <<y, x>> \in R
  BY <1>1
<1>5. PICK x \in T : \A y \in T : ~(<<y, x>> \in R)
  BY Zenon, <1>2, <1>3, WFMin
<1>6. \A y \in T : ~(y < x)
  BY <1>3, <1>4, <1>5
<1>7. PICK n \in s : x = N - n
  BY DEF T
<1>8. \A m \in s : N - m \in T
  BY DEF T
<1> QED BY <1>6, <1>7, <1>8

LEMMA NewestTyped ==
    ASSUME ServerInv, NEW s \in SUBSET Numbers
    PROVE  Newest(s) \in {0} \cup s
<1>1. Len(revs) \in Nat /\ s \in SUBSET (1..Len(revs))
  BY DEF ServerInv, Numbers
<1>2. CASE s = {}
  BY <1>2 DEF Newest
<1>3. CASE s # {}
  <2>1. \E n \in s : \A m \in s : m <= n
    BY <1>1, <1>3, Greatest
  <2> QED BY <1>3, <2>1 DEF Newest
<1> QED BY <1>2, <1>3

\* A selector resolves to a revision that is there, or to none.
LEMMA ResolveTyped ==
    ASSUME ServerInv, NEW sel
    PROVE  Resolve(sel) \in {0} \cup {n \in Numbers : Alive(n)}
<1> DEFINE tagged == {n \in Numbers : Alive(n) /\ sel.what \in revs[n].tags}
<1>1. Newest(tagged) \in {0} \cup tagged
  BY NewestTyped
<1>2. \A n : Alive(n) => n \in Numbers
  BY DEF Alive
<1>3. Newest(tagged) \in {0} \cup {n \in Numbers : Alive(n)}
  BY <1>1
<1>4. latest \in {0} \cup {n \in Numbers : Alive(n)}
  BY DEF ServerInv
<1> HIDE DEF tagged
<1>5. \/ sel.by = "number" /\ Alive(Numerals[sel.what]) /\ Resolve(sel) = Numerals[sel.what]
      \/ Resolve(sel) = latest
      \/ Resolve(sel) = Newest(tagged)
      \/ Resolve(sel) = 0
  BY DEF Resolve, tagged
<1> QED BY <1>2, <1>3, <1>4, <1>5

LEMMA ListedTyped ==
    ASSUME ServerInv
    PROVE  ListedLatest \in {0} \cup {n \in Numbers : Alive(n)}
<1> DEFINE alive == {n \in Numbers : Alive(n)}
<1>1. Newest(alive) \in {0} \cup alive
  BY NewestTyped
<1>2. \A n : Alive(n) => n \in Numbers
  BY DEF Alive
<1> QED BY <1>1, <1>2 DEF ListedLatest

LEMMA TagsTyped ==
    ASSUME ServerInv, NEW n \in Numbers
    PROVE  /\ revs[n] \in RevisionRecord
           /\ TagsOf(n) \in SUBSET (Tags \cup {Latest})
<1>1. revs[n] \in RevisionRecord
  BY DEF ServerInv, Numbers
<1> QED BY <1>1 DEF TagsOf, RevisionRecord

---------------------------------------------------------------------------
(* The server. *)

\* The revisions after an RPC: none is gone that was not, none comes back.
Grows == /\ Numbers \subseteq Numbers'
         /\ \A n \in Numbers : ~Alive(n) => ~Alive(n)'

\* Those that stay keep their attributes.
Keeps == \A n \in Numbers : revs'[n].alive => revs'[n].attr = revs[n].attr

\* A revision that stays alive changes, in its tags by losing some or by those that no
\* other one has.
LEMMA UpdatePreserves ==
    ASSUME ServerInv, NEW n \in Numbers, NEW r \in RevisionRecord, Alive(n), r.alive,
           \A m \in Numbers : m # n => r.tags \cap revs[m].tags = {},
           revs' = [revs EXCEPT ![n] = r], UNCHANGED latest, edges' \subseteq edges
    PROVE  /\ ServerInv' /\ Grows /\ Numbers' = Numbers
           /\ \A m \in Numbers : revs'[m] = IF m = n THEN r ELSE revs[m]
<1>1. /\ revs \in Seq(RevisionRecord) /\ Numbers = 1..Len(revs) /\ n \in 1..Len(revs)
  BY DEF ServerInv, Numbers
<1>2. /\ revs' \in Seq(RevisionRecord) /\ Len(revs') = Len(revs)
      /\ \A m \in 1..Len(revs) : revs'[m] = IF m = n THEN r ELSE revs[m]
  BY <1>1
<1>3. Numbers' = Numbers /\ \A m \in Numbers : revs'[m] = IF m = n THEN r ELSE revs[m]
  BY <1>1, <1>2 DEF Numbers
<1>4. \A m : Alive(m)' <=> Alive(m)
  BY <1>3 DEF Alive
<1>5. \A m, k \in Numbers : m # k => revs'[m].tags \cap revs'[k].tags = {}
  BY <1>3 DEF ServerInv
<1>6. /\ latest' \in {0} \cup {m \in Numbers' : Alive(m)'}
      /\ \A e \in edges' : Alive(e[1])' /\ Alive(e[2])'
      /\ Len(revs') <= MaxRevs
  BY <1>2, <1>3, <1>4 DEF ServerInv
<1>7. ServerInv'
  BY <1>2, <1>3, <1>5, <1>6 DEF ServerInv
<1> QED BY <1>3, <1>4, <1>7 DEF Grows

\* The same without a change of tags.
LEMMA PlainUpdatePreserves ==
    ASSUME ServerInv, NEW n \in Numbers, NEW r \in RevisionRecord, Alive(n), r.alive,
           r.tags \subseteq revs[n].tags,
           revs' = [revs EXCEPT ![n] = r], UNCHANGED <<latest, edges>>
    PROVE  /\ ServerInv' /\ Grows /\ Numbers' = Numbers
           /\ \A m \in Numbers : revs'[m] = IF m = n THEN r ELSE revs[m]
<1>1. \A m \in Numbers : m # n => r.tags \cap revs[m].tags = {}
  BY DEF ServerInv
<1> QED BY <1>1, UpdatePreserves

LEMMA CreateRevisionPreserves ==
    ASSUME ServerInv, CreateRevisionRpc
    PROVE  /\ ServerInv' /\ Grows /\ Keeps
           /\ Len(revs') \in Numbers' /\ revs'[Len(revs')] = NewRevision
<1>1. /\ revs \in Seq(RevisionRecord) /\ Numbers = 1..Len(revs) /\ Len(revs) \in Nat
      /\ revs' = Append(revs, NewRevision) /\ latest' = Len(revs) + 1 /\ edges' = edges
      /\ Len(revs) < MaxRevs
  BY DEF ServerInv, Numbers, CreateRevisionRpc
<1>2. NewRevision \in RevisionRecord /\ NewRevision.alive /\ NewRevision.tags = {}
  BY DEF NewRevision, RevisionRecord
<1>3. /\ revs' \in Seq(RevisionRecord) /\ Len(revs') = Len(revs) + 1
      /\ \A m \in 1..Len(revs) : revs'[m] = revs[m]
      /\ revs'[Len(revs) + 1] = NewRevision
  BY <1>1, <1>2
<1>4. /\ Numbers' = Numbers \cup {Len(revs) + 1} /\ Len(revs) + 1 \notin Numbers
  BY <1>1, <1>3 DEF Numbers
<1>5. \A m \in Numbers : Alive(m)' <=> Alive(m)
  BY <1>1, <1>3, <1>4 DEF Alive
<1>6. Alive(Len(revs))'
  BY <1>2, <1>3, <1>4 DEF Alive
<1>7. \A m, k \in Numbers' : m # k => revs'[m].tags \cap revs'[k].tags = {}
  BY <1>1, <1>2, <1>3, <1>4 DEF ServerInv
<1>8. \A e \in edges' : Alive(e[1])' /\ Alive(e[2])'
  BY <1>1, <1>5 DEF ServerInv, Alive
<1>9. latest' \in {0} \cup {m \in Numbers' : Alive(m)'} /\ Len(revs') <= MaxRevs
  BY <1>1, <1>3, <1>4, <1>6, RevisionsAssumption DEF Alive
<1>10. ServerInv'
  BY <1>3, <1>7, <1>8, <1>9 DEF ServerInv
<1>11. Keeps
  BY <1>1, <1>3 DEF Keeps
<1> QED BY <1>3, <1>4, <1>5, <1>10, <1>11 DEF Grows

LEMMA TagRevisionPreserves ==
    ASSUME ServerInv, NEW n, NEW t \in Tags, TagRevisionRpc(n, t)
    PROVE  ServerInv' /\ Grows /\ Keeps
<1>1. /\ n \in Numbers /\ revs \in Seq(RevisionRecord) /\ Numbers = 1..Len(revs)
      /\ Len(revs) \in Nat /\ UNCHANGED <<latest, edges>>
      /\ revs' = [i \in Numbers |-> IF i = n THEN [revs[i] EXCEPT !.tags = @ \cup {t}]
                                    ELSE [revs[i] EXCEPT !.tags = @ \ {t}]]
  BY DEF ServerInv, Numbers, TagRevisionRpc, Alive
<1>2. \A i \in Numbers :
        /\ revs[i] \in RevisionRecord
        /\ [revs[i] EXCEPT !.tags = @ \cup {t}] \in RevisionRecord
        /\ [revs[i] EXCEPT !.tags = @ \ {t}] \in RevisionRecord
  BY <1>1, TagsTyped DEF RevisionRecord
<1>3. revs' \in [1..Len(revs) -> RevisionRecord]
  BY <1>1, <1>2
<1>4. revs' \in Seq(RevisionRecord) /\ Len(revs') = Len(revs)
  BY <1>1, <1>3
<1>5. Numbers' = Numbers
  BY <1>1, <1>4 DEF Numbers
<1>6. \A i \in Numbers :
        /\ revs'[i].alive = revs[i].alive /\ revs'[i].attr = revs[i].attr
        /\ revs'[i].tags = IF i = n THEN revs[i].tags \cup {t} ELSE revs[i].tags \ {t}
  BY <1>1, <1>2 DEF RevisionRecord
<1>7. \A m : Alive(m)' <=> Alive(m)
  BY <1>5, <1>6 DEF Alive
<1>8. \A m, k \in Numbers' : m # k => revs'[m].tags \cap revs'[k].tags = {}
  <2> SUFFICES ASSUME NEW m \in Numbers, NEW k \in Numbers, m # k
               PROVE  revs'[m].tags \cap revs'[k].tags = {}
    BY <1>5
  <2>1. revs[m].tags \cap revs[k].tags = {}
    BY DEF ServerInv
  <2>2. /\ revs'[m].tags = IF m = n THEN revs[m].tags \cup {t} ELSE revs[m].tags \ {t}
        /\ revs'[k].tags = IF k = n THEN revs[k].tags \cup {t} ELSE revs[k].tags \ {t}
    BY <1>6
  <2> QED BY <2>1, <2>2
<1>9. /\ latest' \in {0} \cup {m \in Numbers' : Alive(m)'}
      /\ \A e \in edges' : Alive(e[1])' /\ Alive(e[2])'
      /\ Len(revs') <= MaxRevs
  BY <1>1, <1>4, <1>5, <1>7 DEF ServerInv
<1>10. ServerInv'
  BY <1>4, <1>8, <1>9 DEF ServerInv
<1> QED BY <1>5, <1>6, <1>7, <1>10 DEF Grows, Keeps

\* The RPCs that change one revision, but not its attribute.
PlainRpc(n) ==
    \/ \E t \in Tags : UntagRevisionRpc(n, t)
    \/ \E b \in BOOLEAN : DeprecatedRpc(n, b)
    \/ \E a \in Arts : DefaultArtifactRpc(n, a) \/ CreateArtifactRpc(n, a) \/ DeleteArtifactRpc(n, a)

LEMMA PlainPreserves ==
    ASSUME ServerInv, NEW n, PlainRpc(n)
    PROVE  ServerInv' /\ Grows /\ Keeps
<1>1. Alive(n) /\ n \in Numbers /\ UNCHANGED <<latest, edges>>
  BY DEF PlainRpc, UntagRevisionRpc, DeprecatedRpc, DefaultArtifactRpc, CreateArtifactRpc,
         DeleteArtifactRpc, Alive
<1>2. revs[n] \in RevisionRecord /\ revs[n].alive
  BY <1>1, TagsTyped DEF Alive
<1>3. PICK r : /\ revs' = [revs EXCEPT ![n] = r] /\ r \in RevisionRecord
               /\ r.alive = revs[n].alive /\ r.attr = revs[n].attr /\ r.tags \subseteq revs[n].tags
  <2>1. CASE \E t \in Tags : UntagRevisionRpc(n, t)
    <3>1. PICK t \in Tags : revs' = [revs EXCEPT ![n] = [revs[n] EXCEPT !.tags = @ \ {t}]]
      BY <2>1 DEF UntagRevisionRpc
    <3> DEFINE q == [revs[n] EXCEPT !.tags = @ \ {t}]
    <3>2. /\ q \in RevisionRecord
          /\ q.alive = revs[n].alive /\ q.attr = revs[n].attr /\ q.tags \subseteq revs[n].tags
      BY <1>2 DEF RevisionRecord
    <3> QED BY <3>1, <3>2
  <2>2. CASE \E b \in BOOLEAN : DeprecatedRpc(n, b)
    <3>1. PICK b \in BOOLEAN : revs' = [revs EXCEPT ![n] = [revs[n] EXCEPT !.deprecated = b]]
      BY <2>2 DEF DeprecatedRpc
    <3> DEFINE q == [revs[n] EXCEPT !.deprecated = b]
    <3>2. /\ q \in RevisionRecord
          /\ q.alive = revs[n].alive /\ q.attr = revs[n].attr /\ q.tags \subseteq revs[n].tags
      BY <1>2 DEF RevisionRecord
    <3> QED BY <3>1, <3>2
  <2>3. CASE \E a \in Arts : DefaultArtifactRpc(n, a)
    <3>1. PICK a \in Arts : revs' = [revs EXCEPT ![n] = [revs[n] EXCEPT !.default = a]]
      BY <2>3 DEF DefaultArtifactRpc
    <3> DEFINE q == [revs[n] EXCEPT !.default = a]
    <3>2. /\ q \in RevisionRecord
          /\ q.alive = revs[n].alive /\ q.attr = revs[n].attr /\ q.tags \subseteq revs[n].tags
      BY <1>2 DEF RevisionRecord
    <3> QED BY <3>1, <3>2
  <2>4. CASE \E a \in Arts : CreateArtifactRpc(n, a)
    <3>1. PICK a \in Arts : revs' = [revs EXCEPT ![n] = [revs[n] EXCEPT !.arts = @ \cup {a}]]
      BY <2>4 DEF CreateArtifactRpc
    <3> DEFINE q == [revs[n] EXCEPT !.arts = @ \cup {a}]
    <3>2. /\ q \in RevisionRecord
          /\ q.alive = revs[n].alive /\ q.attr = revs[n].attr /\ q.tags \subseteq revs[n].tags
      BY <1>2 DEF RevisionRecord
    <3> QED BY <3>1, <3>2
  <2>5. CASE \E a \in Arts : DeleteArtifactRpc(n, a)
    <3>1. PICK a \in Arts : revs' = [revs EXCEPT ![n] = [revs[n] EXCEPT !.arts = @ \ {a}]]
      BY <2>5 DEF DeleteArtifactRpc
    <3> DEFINE q == [revs[n] EXCEPT !.arts = @ \ {a}]
    <3>2. /\ q \in RevisionRecord
          /\ q.alive = revs[n].alive /\ q.attr = revs[n].attr /\ q.tags \subseteq revs[n].tags
      BY <1>2 DEF RevisionRecord
    <3> QED BY <3>1, <3>2
  <2> QED BY <2>1, <2>2, <2>3, <2>4, <2>5 DEF PlainRpc
<1>4. /\ ServerInv' /\ Grows
      /\ \A m \in Numbers : revs'[m] = IF m = n THEN r ELSE revs[m]
  BY <1>1, <1>2, <1>3, PlainUpdatePreserves
<1> QED BY <1>3, <1>4 DEF Keeps

LEMMA AttributePreserves ==
    ASSUME ServerInv, NEW n, NEW v \in Values \cup {Nothing}, AttributeRpc(n, v)
    PROVE  /\ ServerInv' /\ Grows /\ n \in Numbers /\ Numbers' = Numbers
           /\ revs'[n].attr = v /\ \A m \in Numbers : m # n => revs'[m] = revs[m]
<1> DEFINE r == [revs[n] EXCEPT !.attr = v]
<1>1. Alive(n) /\ n \in Numbers /\ revs' = [revs EXCEPT ![n] = r] /\ UNCHANGED <<latest, edges>>
  BY DEF AttributeRpc, Alive
<1>2. revs[n] \in RevisionRecord /\ revs[n].alive
  BY <1>1, TagsTyped DEF Alive
<1>3. r \in RevisionRecord /\ r.alive /\ r.tags \subseteq revs[n].tags /\ r.attr = v
  BY <1>2 DEF RevisionRecord
<1> HIDE DEF r
<1>4. PICK q : q = r
  OBVIOUS
<1>5. /\ q \in RevisionRecord /\ q.alive /\ q.tags \subseteq revs[n].tags /\ q.attr = v
      /\ revs' = [revs EXCEPT ![n] = q]
  BY <1>1, <1>3, <1>4
<1>6. /\ ServerInv' /\ Grows /\ Numbers' = Numbers
      /\ \A m \in Numbers : revs'[m] = IF m = n THEN q ELSE revs[m]
  BY <1>1, <1>5, PlainUpdatePreserves
<1> QED BY <1>1, <1>5, <1>6

LEMMA DeleteRevisionPreserves ==
    ASSUME ServerInv, NEW n, DeleteRevisionRpc(n)
    PROVE  ServerInv' /\ Grows /\ Keeps
<1> DEFINE r == [NewRevision EXCEPT !.alive = FALSE]
           left == {m \in Numbers : Alive(m)} \ {n}
<1>1. /\ n \in Numbers /\ revs \in Seq(RevisionRecord) /\ Numbers = 1..Len(revs)
      /\ Len(revs) \in Nat /\ revs' = [revs EXCEPT ![n] = r]
      /\ edges' = {e \in edges : n \notin {e[1], e[2]}}
      /\ (n # latest /\ latest' = latest) \/ latest' \in {0, Newest(left)}
  BY DEF ServerInv, Numbers, DeleteRevisionRpc, Alive
<1>2. r \in RevisionRecord /\ ~r.alive /\ r.tags = {}
  BY DEF NewRevision, RevisionRecord
<1> HIDE DEF r
<1>3. /\ revs' \in Seq(RevisionRecord) /\ Len(revs') = Len(revs)
      /\ \A m \in 1..Len(revs) : revs'[m] = IF m = n THEN r ELSE revs[m]
  BY <1>1, <1>2
<1>4. Numbers' = Numbers /\ \A m \in Numbers : revs'[m] = IF m = n THEN r ELSE revs[m]
  BY <1>1, <1>3 DEF Numbers
<1>5. \A m : Alive(m)' <=> Alive(m) /\ m # n
  BY <1>2, <1>4 DEF Alive
<1>6. \A m, k \in Numbers' : m # k => revs'[m].tags \cap revs'[k].tags = {}
  BY <1>2, <1>4 DEF ServerInv
<1>7. Newest(left) \in {0} \cup left
  BY NewestTyped
<1>8. latest' \in {0} \cup {m \in Numbers' : Alive(m)'}
  BY <1>1, <1>4, <1>5, <1>7 DEF ServerInv
<1>9. \A e \in edges' : Alive(e[1])' /\ Alive(e[2])'
  BY <1>1, <1>5 DEF ServerInv
<1>10. ServerInv'
  BY <1>3, <1>6, <1>8, <1>9 DEF ServerInv
<1> QED BY <1>2, <1>4, <1>5, <1>10 DEF Grows, Keeps

LEMMA EdgesPreserve ==
    ASSUME ServerInv, NEW n, NEW m, CreateEdgeRpc(n, m) \/ DeleteEdgeRpc(n, m)
    PROVE  ServerInv' /\ Grows /\ Keeps
<1>1. UNCHANGED <<revs, latest>>
  BY DEF CreateEdgeRpc, DeleteEdgeRpc
<1>2. Numbers' = Numbers /\ \A k : Alive(k)' <=> Alive(k)
  BY <1>1 DEF Numbers, Alive
<1>3. \A e \in edges' : Alive(e[1]) /\ Alive(e[2])
  BY DEF ServerInv, CreateEdgeRpc, DeleteEdgeRpc
<1>4. ServerInv'
  BY <1>1, <1>2, <1>3 DEF ServerInv
<1> QED BY <1>1, <1>2, <1>4 DEF Grows, Keeps

LEMMA ServerSteady ==
    ASSUME ServerInv, UNCHANGED server
    PROVE  ServerInv' /\ Grows /\ Keeps
<1>1. Numbers' = Numbers /\ \A k : Alive(k)' <=> Alive(k)
  BY DEF server, Numbers, Alive
<1> QED BY <1>1 DEF ServerInv, server, Grows, Keeps

LEMMA NoObjectTyped == NoObject \in ObjectRecord
<1>1. 0 \in 0..Fresh + 1 /\ NoEdit \in Edits
  BY RevisionsAssumption DEF NoEdit, Edits
<1> QED BY <1>1 DEF NoObject, ObjectRecord

\* A copy stays good while attributes are kept.
LEMMA GoodKept ==
    ASSUME ServerInv, ServerInv', Grows, Keeps, NEW c, c.num \in {0} \cup Numbers, Good(revs, c)
    PROVE  Good(revs', c)
<1>1. Numbers = 1..Len(revs) /\ \A n \in Numbers : revs'[n].alive /\ n \in 1..Len(revs') => revs[n].alive
  BY DEF Grows, Alive, Numbers
<1>2. 0 \notin 1..Len(revs')
  BY DEF ServerInv
<1> QED BY <1>1, <1>2 DEF Good, Keeps

---------------------------------------------------------------------------
(* Objects and the tool. *)

\* What others do to the server disturbs neither the objects nor the tool call, unless it
\* writes an attribute.
LEMMA OthersUndisturbed ==
    ASSUME Inv, ServerInv', Grows
    PROVE  /\ UNCHANGED object /\ Keeps => ObjectsInv'
           /\ UNCHANGED tool => ToolInv'
<1>1. Numbers \subseteq Numbers' /\ \A n \in Numbers : ~Alive(n) => ~Alive(n)'
  BY DEF Grows
<1>2. ASSUME UNCHANGED object, Keeps PROVE ObjectsInv'
  <2>1. ASSUME NEW o \in Objects PROVE Good(revs', object[o])
    <3>1. object[o].num \in {0} \cup Numbers /\ Good(revs, object[o])
      BY DEF Inv, ObjectsInv
    <3> QED BY <1>2, <3>1, GoodKept DEF Inv
  <2> QED BY <1>1, <1>2, <2>1 DEF Inv, ObjectsInv
<1>3. ASSUME UNCHANGED tool PROVE ToolInv'
  <2>1. ~Alive(0)'
    BY DEF Alive, Numbers, ServerInv
  <2>2. \A n \in {0} \cup Numbers : ~Alive(n) => ~Alive(n)'
    BY <1>1, <2>1
  <2>3. {tool.at, tool.with} \subseteq {0} \cup Numbers /\ tool.deps \subseteq Numbers
    BY DEF Inv, ToolInv
  <2>4. ProvenanceIsWhole'
    BY <1>3, <2>2, <2>3 DEF Inv, ToolInv, ProvenanceIsWhole
  <2>5. tool.pc = "fetch" =>
          \A d \in tool.deps : d \in tool.todo \cup tool.found \cup tool.skipped \/ ~Alive(d)'
    BY <2>2, <2>3 DEF Inv, ToolInv
  <2>6. {tool.at, tool.with} \subseteq {0} \cup Numbers' /\ tool.deps \subseteq Numbers'
    BY <1>1, <2>3
  <2> QED BY <1>3, <2>4, <2>5, <2>6 DEF Inv, ToolInv
<1> QED BY <1>2, <1>3

\* One object is replaced by a good copy.
LEMMA ObjectChange ==
    ASSUME Inv, ServerInv', Grows, Keeps, NEW o \in Objects, NEW c \in ObjectRecord,
           object' = [object EXCEPT ![o] = c], c.num \in {0} \cup Numbers',
           ~c.edited => c.wrong <= c.age, Good(revs', c)
    PROVE  ObjectsInv'
<1>1. Numbers \subseteq Numbers'
  BY DEF Grows
<1>2. \A p \in Objects : Good(revs', object[p])
  <2> SUFFICES ASSUME NEW p \in Objects PROVE Good(revs', object[p])
    OBVIOUS
  <2>1. object[p].num \in {0} \cup Numbers /\ Good(revs, object[p])
    BY DEF Inv, ObjectsInv
  <2> QED BY <2>1, GoodKept DEF Inv
<1> QED BY <1>1, <1>2 DEF Inv, ObjectsInv

LEMMA CopyTyped ==
    ASSUME ServerInv, NEW n \in Numbers
    PROVE  /\ Copy(n) \in ObjectRecord
           /\ Copy(n).num = n /\ Copy(n).wrong = 0 /\ Copy(n).age = 0
           /\ Good(revs, Copy(n))
<1>1. /\ TagsOf(n) \in SUBSET (Tags \cup {Latest})
      /\ revs[n].attr \in Values \cup {Nothing} /\ revs[n].default \in Arts \cup {Nothing}
      /\ revs[n].deprecated \in BOOLEAN
  BY TagsTyped DEF RevisionRecord
<1>2. n \in Nat
  BY DEF Numbers, ServerInv
<1>3. Copy(n) \in ObjectRecord
  <2>1. PICK l, p : l = (n = latest) /\ p = (Published \in revs[n].tags)
    OBVIOUS
  <2>3. l \in BOOLEAN /\ p \in BOOLEAN
    BY <2>1
  <2>2. Copy(n) = [NoObject EXCEPT
              !.num = n, !.tags = TagsOf(n), !.latest = l, !.published = p, !.attr = revs[n].attr,
              !.default = revs[n].default, !.deprecated = revs[n].deprecated]
    BY <2>1 DEF Copy
  <2> QED BY <1>1, <1>2, <2>2, <2>3, NoObjectTyped DEF ObjectRecord
<1>4. /\ Copy(n).num = n /\ Copy(n).wrong = 0 /\ Copy(n).age = 0
      /\ Copy(n).edit = NoEdit /\ Copy(n).attr = revs[n].attr
  BY DEF Copy, NoObject
<1>5. Aim(Copy(n)) = revs[n].attr
  BY <1>4 DEF Aim, NoEdit
<1> QED BY <1>3, <1>4, <1>5 DEF Good

\* An object takes a copy of a revision that is there.
LEMMA TakeCopy ==
    ASSUME Inv, NEW o \in Objects, NEW n \in Numbers, UNCHANGED server,
           object' = [object EXCEPT ![o] = Copy(n)]
    PROVE  ObjectsInv'
<1>1. ServerInv' /\ Grows /\ Keeps
  BY ServerSteady DEF Inv
<1>2. Numbers' = Numbers /\ revs' = revs
  BY DEF server, Numbers
<1>3. /\ Copy(n) \in ObjectRecord
      /\ Copy(n).num = n /\ Copy(n).wrong = 0 /\ Copy(n).age = 0
      /\ Good(revs, Copy(n))
  BY CopyTyped DEF Inv
<1>4. Copy(n).num \in {0} \cup Numbers' /\ Copy(n).wrong <= Copy(n).age
  BY <1>2, <1>3
<1>5. PICK c : c = Copy(n)
  OBVIOUS
<1> QED BY <1>1, <1>2, <1>3, <1>4, <1>5, ObjectChange

LEMMA WriteTyped ==
    ASSUME Inv, Write
    PROVE  writes' \in 0..MaxWrites
BY RevisionsAssumption DEF Inv, Write

LEMMA HeldTyped ==
    ASSUME Inv, NEW o \in Objects
    PROVE  /\ object[o] \in ObjectRecord
           /\ Held(o) => object[o].num \in Numbers
           /\ ~object[o].edited => object[o].wrong <= object[o].age
           /\ Good(revs, object[o])
BY DEF Inv, ObjectsInv, Held

LEMMA GetPreserves ==
    ASSUME Inv, NEW o \in Objects, Get(o)
    PROVE  Inv'
<1>1. PICK n \in {Resolve(Selected[q]) : q \in Queries} \cup {ByTag(t) : t \in Tags}
                  \cup {ByTag(Latest), ListedLatest} :
        n # 0 /\ object' = [object EXCEPT ![o] = Copy(n)]
  BY DEF Get
<1>2. n \in Numbers
  <2>1. \A t : ByTag(t) \in {0} \cup {m \in Numbers : Alive(m)}
    BY ResolveTyped DEF ByTag, Inv
  <2>2. \A q \in Queries : Resolve(Selected[q]) \in {0} \cup {m \in Numbers : Alive(m)}
    BY ResolveTyped DEF Inv
  <2>3. ListedLatest \in {0} \cup {m \in Numbers : Alive(m)}
    BY ListedTyped DEF Inv
  <2> QED BY <1>1, <2>1, <2>2, <2>3
<1>3. UNCHANGED <<server, tool, writes>>
  BY DEF Get
<1>4. ServerInv' /\ Grows
  BY <1>3, ServerSteady DEF Inv
<1>5. ObjectsInv'
  BY <1>1, <1>2, <1>3, TakeCopy
<1>6. ToolInv'
  BY <1>3, <1>4, OthersUndisturbed
<1> QED BY <1>3, <1>4, <1>5, <1>6 DEF Inv

LEMMA CreatePreserves ==
    ASSUME Inv, NEW o \in Objects, Create(o)
    PROVE  Inv'
<1> DEFINE c == [NoObject EXCEPT !.num = Len(revs'), !.tags = {Latest}, !.latest = TRUE]
<1>1. /\ Write /\ CreateRevisionRpc /\ object' = [object EXCEPT ![o] = c]
      /\ UNCHANGED tool
  BY DEF Create
<1>2. /\ ServerInv' /\ Grows /\ Keeps /\ Len(revs') \in Numbers'
      /\ revs'[Len(revs')] = NewRevision
  BY <1>1, CreateRevisionPreserves DEF Inv
<1>3. /\ c \in ObjectRecord /\ c.num = Len(revs') /\ c.wrong = 0 /\ c.age = 0
      /\ c.attr = Nothing /\ c.edit = NoEdit
  <2>1. Len(revs') \in Nat
    BY <1>2 DEF ServerInv
  <2> QED BY <2>1, NoObjectTyped DEF ObjectRecord, NoObject
<1> HIDE DEF c
<1>4. Good(revs', c)
  <2>1. Aim(c) = Nothing /\ NewRevision.attr = Nothing
    BY <1>3 DEF Aim, NoEdit, NewRevision
  <2> QED BY <1>2, <1>3, <2>1 DEF Good
<1>5. ObjectsInv'
  <2>1. PICK d : d = c
    OBVIOUS
  <2>2. d.num \in {0} \cup Numbers' /\ d.wrong <= d.age
    BY <1>2, <1>3, <2>1
  <2> QED BY <1>1, <1>2, <1>3, <1>4, <2>1, <2>2, ObjectChange
<1>6. ToolInv'
  BY <1>1, <1>2, OthersUndisturbed
<1> QED BY <1>1, <1>2, <1>5, <1>6, WriteTyped DEF Inv

LEMMA RefreshPreserves ==
    ASSUME Inv, NEW o \in Objects, Refresh(o)
    PROVE  Inv'
<1>1. /\ Alive(object[o].num) /\ object' = [object EXCEPT ![o] = Copy(object[o].num)]
      /\ UNCHANGED <<server, tool, writes>>
  BY DEF Refresh
<1>2. ServerInv' /\ Grows
  BY <1>1, ServerSteady DEF Inv
<1>3. ObjectsInv'
  BY <1>1, TakeCopy DEF Alive
<1>4. ToolInv'
  BY <1>1, <1>2, OthersUndisturbed
<1> QED BY <1>1, <1>2, <1>3, <1>4 DEF Inv

LEMMA ReadTagsPreserves ==
    ASSUME Inv, NEW o \in Objects, ReadTags(o)
    PROVE  Inv'
<1>1. Shows(o) /\ object' = [object EXCEPT ![o] = Shown(o)] /\ UNCHANGED <<server, tool, writes>>
  BY DEF ReadTags
<1>2. ServerInv' /\ Grows /\ Keeps
  BY <1>1, ServerSteady DEF Inv
<1>3. ObjectsInv'
  <2>1. CASE Stale(o)
    <3>1. object[o].num \in Numbers
      BY <1>1, <2>1 DEF Shows, Alive
    <3> QED BY <1>1, <2>1, <3>1, TakeCopy DEF Shown
  <2>2. CASE ~Stale(o)
    <3>1. UNCHANGED object
      BY <1>1, <2>2 DEF Shown, Inv, ObjectsInv
    <3> QED BY <1>2, <3>1, OthersUndisturbed
  <2> QED BY <2>1, <2>2
<1> QED BY <1>1, <1>2, <1>3, OthersUndisturbed DEF Inv

\* The copy is edited as the call under way was to: what it aims at stays.
LEMMA EditedTyped ==
    ASSUME NEW c \in ObjectRecord
    PROVE  /\ Edited(c) \in ObjectRecord
           /\ Edited(c).num = c.num /\ Edited(c).touched = c.touched
           /\ (~c.edited => c.wrong <= c.age) => (~Edited(c).edited => Edited(c).wrong <= Edited(c).age)
           /\ Edited(c).attr = Aim(c) /\ Aim(Edited(c)) = Aim(c)
<1> DEFINE w == c.edit.what
<1>1. /\ c.edit \in Edits /\ NoEdit \in Edits /\ 0 \in 0..Fresh + 1
  BY RevisionsAssumption DEF ObjectRecord, Edits, NoEdit
<1>2. CASE c.edit.to = "tag" \/ c.edit.to = "untag"
  <2>1. w \in Tags
    BY <1>1, <1>2 DEF Edits
  <2>2. PICK s \in SUBSET (Tags \cup {Latest}) :
          Edited(c) = [[c EXCEPT !.edit = NoEdit] EXCEPT !.tags = s, !.age = 0, !.edited = TRUE]
    <3>1. /\ c.tags \cup {w} \in SUBSET (Tags \cup {Latest})
          /\ c.tags \ {w} \in SUBSET (Tags \cup {Latest})
      BY <2>1 DEF ObjectRecord
    <3>2. [c EXCEPT !.edit = NoEdit].tags = c.tags
      BY DEF ObjectRecord
    <3> QED BY <1>2, <3>1, <3>2 DEF Edited
  <2> DEFINE d == [[c EXCEPT !.edit = NoEdit] EXCEPT !.tags = s, !.age = 0, !.edited = TRUE]
  <2>3. /\ d \in ObjectRecord /\ d.num = c.num /\ d.touched = c.touched /\ d.edited
        /\ d.attr = c.attr /\ d.edit = NoEdit
    BY <1>1 DEF ObjectRecord
  <2>4. Aim(c) = c.attr
    BY <1>2 DEF Aim
  <2> HIDE DEF d
  <2>5. Aim(d) = d.attr
    BY <2>3 DEF Aim, NoEdit
  <2>6. Edited(c) = d
    BY <2>2 DEF d
  <2> QED BY <2>3, <2>4, <2>5, <2>6
<1>3. ASSUME NEW f \in {"attr", "default", "deprecated"}, NEW v,
             Edited(c) = [[c EXCEPT !.edit = NoEdit] EXCEPT ![f] = v],
             [[c EXCEPT !.edit = NoEdit] EXCEPT ![f] = v] \in ObjectRecord,
             Aim(c) = IF f = "attr" THEN v ELSE c.attr
      PROVE  /\ Edited(c) \in ObjectRecord
             /\ Edited(c).num = c.num /\ Edited(c).touched = c.touched
             /\ Edited(c).edited = c.edited /\ Edited(c).wrong = c.wrong /\ Edited(c).age = c.age
             /\ Edited(c).attr = Aim(c) /\ Aim(Edited(c)) = Aim(c)
  <2> DEFINE d == [[c EXCEPT !.edit = NoEdit] EXCEPT ![f] = v]
  <2>1. /\ d.num = c.num /\ d.touched = c.touched /\ d.edited = c.edited /\ d.wrong = c.wrong
        /\ d.age = c.age /\ d.edit = NoEdit /\ d.attr = IF f = "attr" THEN v ELSE c.attr
    BY DEF ObjectRecord
  <2> HIDE DEF d
  <2>2. Aim(d) = d.attr
    BY <2>1 DEF Aim, NoEdit
  <2> QED BY <1>3, <2>1, <2>2 DEF d
<1>4. CASE c.edit.to = "attr"
  <2>1. w \in Values \cup {Nothing} /\ Aim(c) = w
    BY <1>1, <1>4 DEF Edits, Aim
  <2>2. Edited(c) = [[c EXCEPT !.edit = NoEdit] EXCEPT !["attr"] = w]
    BY <1>4 DEF Edited
  <2>3. [[c EXCEPT !.edit = NoEdit] EXCEPT !["attr"] = w] \in ObjectRecord
    BY <1>1, <2>1 DEF ObjectRecord
  <2> QED BY <1>3, <2>1, <2>2, <2>3
<1>5. CASE c.edit.to = "default"
  <2>1. w \in Arts /\ Aim(c) = c.attr
    BY <1>1, <1>5 DEF Edits, Aim
  <2>2. Edited(c) = [[c EXCEPT !.edit = NoEdit] EXCEPT !["default"] = w]
    BY <1>5 DEF Edited
  <2>3. [[c EXCEPT !.edit = NoEdit] EXCEPT !["default"] = w] \in ObjectRecord
    BY <1>1, <2>1 DEF ObjectRecord
  <2> QED BY <1>3, <2>1, <2>2, <2>3
<1>6. CASE c.edit.to \in {"deprecated", "restored"}
  <2>1. Aim(c) = c.attr
    BY <1>6 DEF Aim
  <2>2. PICK b \in BOOLEAN : Edited(c) = [[c EXCEPT !.edit = NoEdit] EXCEPT !["deprecated"] = b]
    BY <1>6 DEF Edited
  <2>3. [[c EXCEPT !.edit = NoEdit] EXCEPT !["deprecated"] = b] \in ObjectRecord
    BY <1>1 DEF ObjectRecord
  <2> QED BY <1>3, <2>1, <2>2, <2>3
<1>7. CASE c.edit.to = "none"
  BY <1>7 DEF Edited, Aim
<1>8. c.edit.to \in {"tag", "untag", "attr", "default", "deprecated", "restored", "none"}
  BY <1>1 DEF Edits
<1> QED BY <1>2, <1>4, <1>5, <1>6, <1>7, <1>8

LEMMA EditCopyPreserves ==
    ASSUME Inv, NEW o \in Objects, EditCopy(o)
    PROVE  Inv'
<1>1. PICK c : c = object[o]
  OBVIOUS
<1>2. PICK d : d = Edited(c)
  OBVIOUS
<1>3. object' = [object EXCEPT ![o] = d] /\ UNCHANGED <<server, tool, writes>>
  BY <1>1, <1>2 DEF EditCopy
<1>4. ServerInv' /\ Grows /\ Keeps /\ Numbers' = Numbers /\ revs' = revs
  BY <1>3, ServerSteady DEF Inv, server, Numbers
<1>5. /\ c \in ObjectRecord /\ c.num \in {0} \cup Numbers
      /\ ~c.edited => c.wrong <= c.age
      /\ Good(revs, c)
  BY <1>1 DEF Inv, ObjectsInv
<1>6. /\ d \in ObjectRecord /\ d.num = c.num /\ d.touched = c.touched
      /\ ~d.edited => d.wrong <= d.age
      /\ Aim(d) = Aim(c)
  BY <1>2, <1>5, EditedTyped
<1>7. Good(revs, d)
  BY <1>5, <1>6 DEF Good
<1>8. ObjectsInv'
  BY <1>3, <1>4, <1>5, <1>6, <1>7, ObjectChange
<1> QED BY <1>3, <1>4, <1>8, OthersUndisturbed DEF Inv

\* A write that leaves objects and tool alone, and attributes.
LEMMA ServerWritePreserves ==
    ASSUME Inv, Write, UNCHANGED <<object, tool>>, ServerInv', Grows, Keeps
    PROVE  Inv'
BY OthersUndisturbed, WriteTyped DEF Inv

\* A call that writes no attribute has sent its RPC; its edit is still to come.
LEMMA AnsweredPreserves ==
    ASSUME Inv, NEW o \in Objects, Calls(o), NEW to, NEW what, to # "attr",
           [to |-> to, what |-> what] \in Edits, Answered(o, to, what) \/ UNCHANGED object,
           ServerInv', Grows, Keeps
    PROVE  Inv'
<1>1. Held(o) /\ object[o].edit = NoEdit /\ Write /\ UNCHANGED tool
  BY DEF Calls, Free
<1>2. CASE UNCHANGED object
  BY <1>1, <1>2, ServerWritePreserves
<1>3. CASE Answered(o, to, what)
  <2>1. PICK c : c = object[o]
    OBVIOUS
  <2>2. PICK d : d = [c EXCEPT !.edit = [to |-> to, what |-> what]]
    OBVIOUS
  <2>3. object' = [object EXCEPT ![o] = d]
    BY <1>3, <2>1, <2>2 DEF Answered
  <2>4. /\ c \in ObjectRecord /\ c.num \in Numbers /\ c.edit = NoEdit
        /\ ~c.edited => c.wrong <= c.age
        /\ Good(revs, c)
    BY <1>1, <2>1, HeldTyped
  <2>5. /\ d \in ObjectRecord /\ d.num = c.num /\ d.touched = c.touched /\ d.edited = c.edited
        /\ d.wrong = c.wrong /\ d.age = c.age /\ d.attr = c.attr /\ d.edit.to = to
    BY <2>2, <2>4 DEF ObjectRecord
  <2>6. Aim(d) = c.attr /\ Aim(c) = c.attr
    BY <2>4, <2>5 DEF Aim, NoEdit
  <2>7. Good(revs, d)
    BY <2>4, <2>5, <2>6 DEF Good
  <2>8. Good(revs', d)
    <3>1. d.num \in {0} \cup Numbers
      BY <2>4, <2>5
    <3> QED BY <2>7, <3>1, GoodKept DEF Inv
  <2>9. d.num \in {0} \cup Numbers' /\ (~d.edited => d.wrong <= d.age)
    BY <2>4, <2>5 DEF Grows
  <2>10. ObjectsInv'
    BY <2>3, <2>5, <2>8, <2>9, ObjectChange
  <2> QED BY <1>1, <2>10, OthersUndisturbed, WriteTyped DEF Inv
<1> QED BY <1>2, <1>3

\* Every copy of a revision whose attribute is written is marked.
LEMMA TouchedTyped ==
    ASSUME Inv, NEW n
    PROVE  /\ Touched(n) \in [Objects -> ObjectRecord]
           /\ \A p \in Objects :
                LET c == object[p]
                    d == Touched(n)[p]
                IN  /\ d.num = c.num /\ d.edited = c.edited /\ d.wrong = c.wrong /\ d.age = c.age
                    /\ d.attr = c.attr /\ d.edit = c.edit
                    /\ IF c.num = n THEN d.touched ELSE d = c
<1>1. ASSUME NEW p \in Objects
      PROVE  /\ object[p] \in ObjectRecord /\ [object[p] EXCEPT !.touched = TRUE] \in ObjectRecord
             /\ [object[p] EXCEPT !.touched = TRUE].num = object[p].num
             /\ [object[p] EXCEPT !.touched = TRUE].edited = object[p].edited
             /\ [object[p] EXCEPT !.touched = TRUE].wrong = object[p].wrong
             /\ [object[p] EXCEPT !.touched = TRUE].age = object[p].age
             /\ [object[p] EXCEPT !.touched = TRUE].attr = object[p].attr
             /\ [object[p] EXCEPT !.touched = TRUE].edit = object[p].edit
             /\ [object[p] EXCEPT !.touched = TRUE].touched
  BY HeldTyped DEF ObjectRecord
<1> QED BY <1>1 DEF Touched

\* An attribute is written, past the copies or through one of them.
LEMMA TouchedPreserves ==
    ASSUME Inv, NEW n, NEW v \in Values \cup {Nothing}, AttributeRpc(n, v),
           NEW p, NEW d, object' = Touched(n) \/
             /\ p \in Objects /\ object[p].num = n
             /\ d = [Touched(n)[p] EXCEPT !.touched = FALSE, !.edit = [to |-> "attr", what |-> v]]
             /\ object' = [Touched(n) EXCEPT ![p] = d]
    PROVE  ServerInv' /\ Grows /\ ObjectsInv'
<1>1. /\ ServerInv' /\ Grows /\ n \in Numbers /\ Numbers' = Numbers
      /\ revs'[n].attr = v /\ \A m \in Numbers : m # n => revs'[m] = revs[m]
  BY AttributePreserves DEF Inv
<1>2. Touched(n) \in [Objects -> ObjectRecord]
  BY TouchedTyped
<1>3. ASSUME NEW o \in Objects
      PROVE  /\ Touched(n)[o].num \in {0} \cup Numbers'
             /\ ~Touched(n)[o].edited => Touched(n)[o].wrong <= Touched(n)[o].age
             /\ Good(revs', Touched(n)[o])
  <2>1. PICK c, e : c = object[o] /\ e = Touched(n)[o]
    OBVIOUS
  <2>2. /\ c.num \in {0} \cup Numbers /\ (~c.edited => c.wrong <= c.age) /\ Good(revs, c)
    BY <2>1 DEF Inv, ObjectsInv
  <2>3. /\ e.num = c.num /\ e.edited = c.edited /\ e.wrong = c.wrong /\ e.age = c.age
        /\ IF c.num = n THEN e.touched ELSE e = c
    BY <2>1, TouchedTyped
  <2>4. Good(revs', e)
    <3>1. CASE c.num = n
      BY <2>3, <3>1 DEF Good
    <3>2. CASE c.num # n
      <4>1. e = c
        BY <2>3, <3>2
      <4>2. Numbers = 1..Len(revs) /\ Numbers = 1..Len(revs')
        BY <1>1 DEF Numbers
      <4> QED BY <1>1, <2>2, <3>2, <4>1, <4>2 DEF Good
    <3> QED BY <3>1, <3>2
  <2> QED BY <1>1, <2>1, <2>2, <2>3, <2>4
<1>4. CASE object' = Touched(n)
  BY <1>1, <1>2, <1>3, <1>4 DEF ObjectsInv
<1>5. CASE /\ p \in Objects /\ object[p].num = n
           /\ d = [Touched(n)[p] EXCEPT !.touched = FALSE, !.edit = [to |-> "attr", what |-> v]]
           /\ object' = [Touched(n) EXCEPT ![p] = d]
  <2>1. PICK e : e = Touched(n)[p]
    OBVIOUS
  <2>2. e \in ObjectRecord /\ e.num = n /\ (~e.edited => e.wrong <= e.age)
    BY <1>2, <1>3, <1>5, <2>1, TouchedTyped
  <2>3. [to |-> "attr", what |-> v] \in Edits
    BY DEF Edits
  <2>4. /\ d \in ObjectRecord /\ d.num = n /\ d.edited = e.edited /\ d.wrong = e.wrong
        /\ d.age = e.age /\ d.edit = [to |-> "attr", what |-> v]
    BY <1>5, <2>1, <2>2, <2>3 DEF ObjectRecord
  <2>5. Good(revs', d)
    <3>1. Aim(d) = v
      BY <2>4 DEF Aim
    <3> QED BY <1>1, <2>4, <3>1 DEF Good
  <2>6. /\ object' \in [Objects -> ObjectRecord]
        /\ \A o \in Objects : object'[o] = IF o = p THEN d ELSE Touched(n)[o]
    BY <1>2, <1>5, <2>4
  <2>7. /\ d.num \in {0} \cup Numbers'
        /\ ~d.edited => d.wrong <= d.age
    BY <1>1, <2>2, <2>4
  <2> QED BY <1>1, <1>3, <2>5, <2>6, <2>7 DEF ObjectsInv
<1> QED BY <1>1, <1>4, <1>5

LEMMA WritesPreserve ==
    ASSUME Inv, NEW o \in Objects, Calls(o), NEW v \in Values \cup {Nothing},
           \/ Writes(o, v)
           \/ AttributeRpc(object[o].num, v) /\ object' = Touched(object[o].num)
    PROVE  Inv'
<1>1. PICK n : n = object[o].num
  OBVIOUS
<1>2. Write /\ UNCHANGED tool
  BY DEF Calls
<1>3. PICK d : d = [Touched(n)[o] EXCEPT !.touched = FALSE, !.edit = [to |-> "attr", what |-> v]]
  OBVIOUS
<1>4. AttributeRpc(n, v)
  BY <1>1 DEF Writes
<1>5. \/ object' = Touched(n)
      \/ object' = [Touched(n) EXCEPT ![o] = d]
  <2>1. Touched(n) \in [Objects -> ObjectRecord]
    BY TouchedTyped
  <2>2. [Touched(n) EXCEPT ![o].touched = FALSE, ![o].edit = [to |-> "attr", what |-> v]]
          = [Touched(n) EXCEPT ![o] = d]
    <3> DEFINE f == Touched(n)
               a == [f[o] EXCEPT !.touched = FALSE]
    <3>1. /\ [f EXCEPT ![o] = a][o] = a
          /\ \A b : [[f EXCEPT ![o] = a] EXCEPT ![o] = b] = [f EXCEPT ![o] = b]
      <4> HIDE DEF f, a
      <4> QED BY <2>1 DEF f
    <3>2. d = [a EXCEPT !.edit = [to |-> "attr", what |-> v]]
      BY <1>3
    <3>3. [f EXCEPT ![o].touched = FALSE, ![o].edit = [to |-> "attr", what |-> v]]
            = [[f EXCEPT ![o] = a] EXCEPT
                 ![o] = [[f EXCEPT ![o] = a][o] EXCEPT !.edit = [to |-> "attr", what |-> v]]]
      OBVIOUS
    <3> QED BY Zenon, <3>1, <3>2, <3>3
  <2>3. \/ object' = Touched(n)
        \/ object' = [Touched(n) EXCEPT ![o].touched = FALSE,
                                        ![o].edit = [to |-> "attr", what |-> v]]
    BY Zenon, <1>1 DEF Writes
  <2> QED BY Zenon, <2>2, <2>3
<1>6. ServerInv' /\ Grows /\ ObjectsInv'
  <2>1. CASE object' = Touched(n)
    BY <1>4, <2>1, TouchedPreserves
  <2>2. CASE object' = [Touched(n) EXCEPT ![o] = d]
    <3>1. object[o].num = n
      BY <1>1
    <3> QED BY <1>3, <1>4, <2>2, <3>1, TouchedPreserves
  <2> QED BY <1>5, <2>1, <2>2
<1> QED BY <1>2, <1>6, OthersUndisturbed, WriteTyped DEF Inv

\* Calls whose answer edits the copy.
LEMMA CallsPreserve ==
    ASSUME Inv, NEW o \in Objects,
           \/ \E t \in Tags : Tag(o, t) \/ Untag(o, t)
           \/ \E a \in Arts : SetDefaultArtifact(o, a)
           \/ \E b \in BOOLEAN : SetDeprecated(o, b)
    PROVE  Inv'
<1>1. PICK n : n = object[o].num
  OBVIOUS
<1> DEFINE Sent(to, what) ==
        /\ to \in {"tag", "untag", "default", "deprecated", "restored"}
        /\ Calls(o) /\ [to |-> to, what |-> what] \in Edits
        /\ Answered(o, to, what) \/ UNCHANGED object
        /\ UNCHANGED server \/ PlainRpc(n) \/ \E t \in Tags : TagRevisionRpc(n, t)
<1> HIDE DEF Sent
<1>2. \E to, what : Sent(to, what)
  <2>1. ASSUME NEW t \in Tags, Tag(o, t)
        PROVE  \E to, what : Sent(to, what)
    <3>1. Sent("tag", t)
      BY <1>1, <2>1 DEF Tag, Sends, Edits, Sent, PlainRpc
    <3> QED BY <3>1
  <2>2. ASSUME NEW t \in Tags, Untag(o, t)
        PROVE  \E to, what : Sent(to, what)
    <3>1. Sent("untag", t)
      BY <1>1, <2>2 DEF Untag, Sends, Edits, Sent, PlainRpc
    <3> QED BY <3>1
  <2>3. ASSUME NEW a \in Arts, SetDefaultArtifact(o, a)
        PROVE  \E to, what : Sent(to, what)
    <3>1. Sent("default", a)
      BY <1>1, <2>3 DEF SetDefaultArtifact, Sends, Edits, Sent, PlainRpc
    <3> QED BY <3>1
  <2>4. ASSUME NEW b \in BOOLEAN, SetDeprecated(o, b)
        PROVE  \E to, what : Sent(to, what)
    <3>1. PICK to \in {"deprecated", "restored"} : to = IF b THEN "deprecated" ELSE "restored"
      OBVIOUS
    <3>2. Sent(to, Nothing)
      BY <1>1, <2>4, <3>1 DEF SetDeprecated, Sends, Edits, Sent, PlainRpc
    <3> QED BY <3>2
  <2> QED BY <2>1, <2>2, <2>3, <2>4
<1>3. PICK to, what : Sent(to, what)
  BY <1>2
<1>4. ServerInv' /\ Grows /\ Keeps
  BY <1>3, ServerSteady, PlainPreserves, TagRevisionPreserves DEF Inv, Sent
<1>5. to # "attr"
  BY <1>3 DEF Sent
<1> QED BY <1>3, <1>4, <1>5, AnsweredPreserves DEF Sent

LEMMA ObjectStepPreserves ==
    ASSUME Inv, NEW o \in Objects, ObjectStep(o)
    PROVE  Inv'
<1>1. CASE \E n \in Numbers : Relate(o, n) \/ Unrelate(o, n)
  <2>1. PICK n \in Numbers : Relate(o, n) \/ Unrelate(o, n)
    BY <1>1
  <2>2. /\ Write /\ UNCHANGED <<object, tool>>
        /\ CreateEdgeRpc(object[o].num, n) \/ DeleteEdgeRpc(object[o].num, n)
    BY <2>1 DEF Relate, Unrelate, DeleteEdge, Calls
  <2>3. ServerInv' /\ Grows /\ Keeps
    BY <2>2, EdgesPreserve DEF Inv
  <2> QED BY <2>2, <2>3, ServerWritePreserves
<1>2. CASE \E a \in Arts : CreateArtifact(o, a) \/ SetDefaultOfArtifact(o, a)
  <2>1. Write /\ UNCHANGED <<object, tool>> /\ PlainRpc(object[o].num)
    BY <1>2 DEF CreateArtifact, SetDefaultOfArtifact, PlainRpc, Calls
  <2>2. ServerInv' /\ Grows /\ Keeps
    BY <2>1, PlainPreserves DEF Inv
  <2> QED BY <2>1, <2>2, ServerWritePreserves
<1>3. CASE Delete(o)
  <2>1. Write /\ UNCHANGED <<object, tool>> /\ DeleteRevisionRpc(object[o].num)
    BY <1>3 DEF Delete, Calls
  <2>2. ServerInv' /\ Grows /\ Keeps
    BY <2>1, DeleteRevisionPreserves DEF Inv
  <2> QED BY <2>1, <2>2, ServerWritePreserves
<1>4. CASE DeleteAttribute(o) \/ \E v \in Values : SetAttribute(o, v) \/ SetMetadata(o, v)
  <2>1. Calls(o)
    BY <1>4 DEF DeleteAttribute, SetAttribute, SetMetadata
  <2>2. CASE UNCHANGED <<server, object>>
    <3>1. Write /\ UNCHANGED <<object, tool>>
      BY <2>1, <2>2 DEF Calls
    <3> QED BY <2>2, <3>1, ServerSteady, ServerWritePreserves DEF Inv
  <2>3. CASE \E v \in Values \cup {Nothing} :
               Writes(o, v) \/ (AttributeRpc(object[o].num, v) /\ object' = Touched(object[o].num))
    BY <2>1, <2>3, WritesPreserve
  <2> QED BY <1>4, <2>2, <2>3 DEF DeleteAttribute, SetAttribute, SetMetadata, MetadataRpc
<1>5. CASE \/ \E t \in Tags : Tag(o, t) \/ Untag(o, t)
           \/ \E a \in Arts : SetDefaultArtifact(o, a)
           \/ \E b \in BOOLEAN : SetDeprecated(o, b)
  BY <1>5, CallsPreserve
<1>6. CASE Get(o) \/ Create(o) \/ Refresh(o) \/ ReadTags(o) \/ EditCopy(o)
  BY <1>6, GetPreserves, CreatePreserves, RefreshPreserves, ReadTagsPreserves, EditCopyPreserves
<1> QED BY <1>1, <1>2, <1>3, <1>4, <1>5, <1>6 DEF ObjectStep

LEMMA PartStepPreserves ==
    ASSUME Inv, PartStep
    PROVE  Inv'
<1>1. CASE \E e \in edges : DeleteEdge(e[1], e[2])
  <2>1. PICK e \in edges : DeleteEdge(e[1], e[2])
    BY <1>1
  <2>2. Write /\ UNCHANGED <<object, tool>> /\ DeleteEdgeRpc(e[1], e[2])
    BY <2>1 DEF DeleteEdge
  <2>3. ServerInv' /\ Grows /\ Keeps
    BY <2>2, EdgesPreserve DEF Inv
  <2> QED BY <2>2, <2>3, ServerWritePreserves
<1>2. CASE \E n \in Numbers, a \in Arts : DeleteOfArtifact(n, a)
  <2>1. PICK n \in Numbers, a \in Arts : DeleteOfArtifact(n, a)
    BY <1>2
  <2>2. Write /\ UNCHANGED <<object, tool>> /\ PlainRpc(n)
    BY <2>1 DEF DeleteOfArtifact, PlainRpc
  <2>3. ServerInv' /\ Grows /\ Keeps
    BY <2>2, PlainPreserves DEF Inv
  <2> QED BY <2>2, <2>3, ServerWritePreserves
<1> QED BY <1>1, <1>2 DEF PartStep

---------------------------------------------------------------------------
(* The tool call. *)

LEMMA IdleTyped == /\ IdleTool \in ToolRecord /\ IdleTool.pc = "idle"
                   /\ IdleTool.at = 0 /\ IdleTool.with = 0 /\ IdleTool.deps = {}
BY DEF IdleTool, ToolRecord

\* A step of the tool that only reads the server.
LEMMA ToolReads ==
    ASSUME Inv, UNCHANGED <<server, object, writes>>, ToolInv'
    PROVE  Inv'
<1>1. ServerInv' /\ Grows /\ Keeps
  BY ServerSteady DEF Inv
<1> QED BY <1>1, OthersUndisturbed DEF Inv

\* The tool is idle again.
LEMMA ToolIdle ==
    ASSUME Inv, UNCHANGED <<server, object, writes>>, tool' = IdleTool
    PROVE  Inv'
<1>1. ToolInv'
  BY IdleTyped DEF ToolInv, ProvenanceIsWhole
<1> QED BY <1>1, ToolReads

\* The call is over, with no dependencies in its hands.
LEMMA ToolAnswers ==
    ASSUME Inv, tool.pc \in {"act", "edge"}, NEW ok \in BOOLEAN, Answer(ok)
    PROVE  ToolInv'
<1> DEFINE q == [tool EXCEPT !.pc = "done", !.ok = ok, !.at = 0, !.with = 0, !.todo = {}]
<1>1. tool \in ToolRecord /\ tool' = q /\ tool.deps = {}
  BY DEF Inv, ToolInv, Answer
<1>2. /\ q \in ToolRecord /\ q.pc = "done" /\ q.ok = ok /\ q.at = 0 /\ q.with = 0
      /\ q.deps = tool.deps
  BY <1>1 DEF ToolRecord
<1> HIDE DEF q
<1> QED BY <1>1, <1>2 DEF ToolInv, ProvenanceIsWhole

LEMMA BeginPreserves ==
    ASSUME Inv, NEW q \in ToolQueries, Begin(q)
    PROVE  Inv'
<1> DEFINE n == Resolve(Selected[q])
           r == [IdleTool EXCEPT !.at = n, !.pc = "act"]
<1>1. n # 0 /\ tool' = r /\ UNCHANGED <<server, object, writes>>
  BY DEF Begin
<1>2. n \in Numbers /\ n \in Nat
  <2>1. n \in {0} \cup {m \in Numbers : Alive(m)}
    BY ResolveTyped DEF Inv
  <2> QED BY <1>1, <2>1 DEF Numbers, Inv, ServerInv
<1> HIDE DEF n
<1>3. /\ r \in ToolRecord /\ r.pc = "act" /\ r.at = n /\ r.with = 0 /\ r.deps = {}
  BY <1>2 DEF IdleTool, ToolRecord
<1> HIDE DEF r
<1>4. Numbers' = Numbers
  BY <1>1 DEF server, Numbers
<1>5. ToolInv'
  BY <1>1, <1>2, <1>3, <1>4 DEF ToolInv, ProvenanceIsWhole
<1> QED BY <1>1, <1>5, ToolReads

LEMMA TargetPreserves ==
    ASSUME Inv, NEW q \in ToolQueries, Target(q)
    PROVE  Inv'
<1> DEFINE n == Resolve(Selected[q])
           r == [tool EXCEPT !.with = n, !.pc = "edge"]
<1>1. /\ tool.pc = "act" /\ tool' = IF n = 0 THEN IdleTool ELSE r
      /\ UNCHANGED <<server, object, writes>>
  BY DEF Target
<1>2. n \in {0} \cup Numbers /\ n \in Nat
  <2>1. n \in {0} \cup {m \in Numbers : Alive(m)}
    BY ResolveTyped DEF Inv
  <2> QED BY <2>1 DEF Numbers, Inv, ServerInv
<1> HIDE DEF n
<1>3. CASE n = 0
  BY <1>1, <1>3, ToolIdle
<1>4. CASE n # 0
  <2>1. tool \in ToolRecord
    BY DEF Inv, ToolInv
  <2>2. /\ r \in ToolRecord /\ r.pc = "edge" /\ r.at = tool.at /\ r.with = n
        /\ r.deps = tool.deps
    BY <1>2, <2>1 DEF ToolRecord
  <2> HIDE DEF r
  <2>3. Numbers' = Numbers
    BY <1>1 DEF server, Numbers
  <2>4. ToolInv'
    BY <1>1, <1>2, <1>4, <2>2, <2>3 DEF Inv, ToolInv, ProvenanceIsWhole
  <2> QED BY <1>1, <2>4, ToolReads
<1> QED BY <1>3, <1>4

\* A write of the tool after which it answers.
LEMMA ActsPreserve ==
    ASSUME Inv, NEW pc \in {"act", "edge"}, Acts(pc), ServerInv', Grows, ObjectsInv'
    PROVE  Inv'
<1>1. ToolInv'
  BY ToolAnswers DEF Acts
<1> QED BY <1>1, WriteTyped DEF Acts, Inv

LEMMA ToolWritesPreserve ==
    ASSUME Inv,
           \/ ToolTagRevision \/ ToolUntagRevision \/ ToolSetMetadata \/ ToolDeleteRevision
           \/ ToolCreateArtifact \/ ToolDeleteArtifact \/ ToolCreateEdge \/ ToolDeleteEdge
    PROVE  Inv'
<1>1. PICK n, m : n = tool.at /\ m = tool.with
  OBVIOUS
<1>2. ASSUME NEW pc \in {"act", "edge"}, Acts(pc), UNCHANGED object, ServerInv', Grows, Keeps
      PROVE  Inv'
  BY <1>2, ActsPreserve, OthersUndisturbed
<1>3. CASE ToolTagRevision
  <2>1. Acts("act") /\ UNCHANGED object /\ \E t \in Tags : TagRevisionRpc(n, t)
    BY <1>1, <1>3 DEF ToolTagRevision, ActsOn
  <2> QED BY <1>2, <2>1, TagRevisionPreserves DEF Inv
<1>4. CASE ToolUntagRevision \/ ToolCreateArtifact \/ ToolDeleteArtifact
  <2>1. Acts("act") /\ UNCHANGED object /\ PlainRpc(n)
    BY <1>1, <1>4 DEF ToolUntagRevision, ToolCreateArtifact, ToolDeleteArtifact, PlainRpc, ActsOn
  <2> QED BY <1>2, <2>1, PlainPreserves DEF Inv
<1>5. CASE ToolDeleteRevision
  <2>1. Acts("act") /\ UNCHANGED object /\ DeleteRevisionRpc(n)
    BY <1>1, <1>5 DEF ToolDeleteRevision, ActsOn
  <2> QED BY <1>2, <2>1, DeleteRevisionPreserves DEF Inv
<1>6. CASE ToolCreateEdge \/ ToolDeleteEdge
  <2>1. Acts("edge") /\ UNCHANGED object /\ (CreateEdgeRpc(n, m) \/ DeleteEdgeRpc(n, m))
    BY <1>1, <1>6 DEF ToolCreateEdge, ToolDeleteEdge, ActsOn
  <2> QED BY <1>2, <2>1, EdgesPreserve DEF Inv
<1>7. CASE ToolSetMetadata
  <2>1. PICK v \in Values : Acts("act") /\ AttributeRpc(n, v) /\ object' = Touched(n)
    BY <1>1, <1>7 DEF ToolSetMetadata, MetadataRpc
  <2>2. ServerInv' /\ Grows /\ ObjectsInv'
    BY <2>1, TouchedPreserves
  <2> QED BY <2>1, <2>2, ActsPreserve
<1> QED BY <1>3, <1>4, <1>5, <1>6, <1>7

LEMMA RefusedPreserves ==
    ASSUME Inv, Refused
    PROVE  Inv'
<1>1. ToolInv'
  BY ToolAnswers DEF Refused
<1> QED BY <1>1, ToolReads DEF Refused

LEMMA TraversePreserves ==
    ASSUME Inv, Traverse
    PROVE  Inv'
<1>1. PICK deps \in SUBSET (Reached(tool.at) \ {tool.at}) :
        tool' = [tool EXCEPT !.pc = "fetch", !.deps = deps, !.todo = deps, !.found = {tool.at}]
  BY DEF Traverse
<1> DEFINE r == [tool EXCEPT !.pc = "fetch", !.deps = deps, !.todo = deps, !.found = {tool.at}]
<1>2. tool.pc = "act" /\ tool' = r /\ UNCHANGED <<server, object, writes>>
  BY <1>1 DEF Traverse
<1>3. /\ tool \in ToolRecord /\ tool.at \in {0} \cup Numbers /\ tool.at # 0 /\ tool.with = 0
  BY <1>2 DEF Inv, ToolInv
<1>4. deps \in SUBSET Nat /\ deps \subseteq Numbers
  <2>1. Numbers \subseteq Nat
    BY DEF Numbers, Inv, ServerInv
  <2> QED BY <1>1, <2>1 DEF Reached
<1>5. /\ r \in ToolRecord /\ r.pc = "fetch" /\ r.at = tool.at /\ r.with = tool.with
      /\ r.deps = deps /\ r.todo = deps
  BY <1>3, <1>4 DEF ToolRecord
<1> HIDE DEF r
<1>6. Numbers' = Numbers
  BY <1>2 DEF server, Numbers
<1>7. ToolInv'
  BY <1>2, <1>3, <1>4, <1>5, <1>6 DEF ToolInv, ProvenanceIsWhole
<1> QED BY <1>2, <1>7, ToolReads

\* Whatever a fetch leaves out it has passed over, or is gone.
LEMMA FetchPreserves ==
    ASSUME Inv, NEW n \in tool.todo, Fetch(n)
    PROVE  Inv'
<1>1. tool.pc = "fetch" /\ UNCHANGED <<server, object, writes>>
  BY DEF Fetch
<1>2. tool \in ToolRecord /\ n \in Nat
  BY DEF Inv, ToolInv, ToolRecord
<1>3. /\ tool' \in ToolRecord /\ tool'.pc = tool.pc /\ tool'.at = tool.at
      /\ tool'.with = tool.with /\ tool'.deps = tool.deps /\ tool'.todo = tool.todo \ {n}
      /\ tool.found \subseteq tool'.found /\ tool.skipped \subseteq tool'.skipped
      /\ n \in tool'.found \cup tool'.skipped \/ ~Alive(n)
  <2>1. CASE tool' = [tool EXCEPT !.todo = @ \ {n}, !.found = @ \cup {n}]
    <3> DEFINE r == [tool EXCEPT !.todo = @ \ {n}, !.found = @ \cup {n}]
    <3>1. /\ r \in ToolRecord /\ r.pc = tool.pc /\ r.at = tool.at /\ r.with = tool.with
          /\ r.deps = tool.deps /\ r.todo = tool.todo \ {n}
          /\ r.found = tool.found \cup {n} /\ r.skipped = tool.skipped
      BY <1>2 DEF ToolRecord
    <3>2. tool' = r
      BY <2>1
    <3> HIDE DEF r
    <3> QED BY <3>1, <3>2
  <2>2. CASE tool' = [tool EXCEPT !.todo = @ \ {n}, !.skipped = IF Alive(n) THEN @ \cup {n} ELSE @]
    <3> DEFINE r == [tool EXCEPT !.todo = @ \ {n}, !.skipped = IF Alive(n) THEN @ \cup {n} ELSE @]
    <3>1. /\ r \in ToolRecord /\ r.pc = tool.pc /\ r.at = tool.at /\ r.with = tool.with
          /\ r.deps = tool.deps /\ r.todo = tool.todo \ {n} /\ r.found = tool.found
          /\ r.skipped = IF Alive(n) THEN tool.skipped \cup {n} ELSE tool.skipped
      BY <1>2 DEF ToolRecord
    <3>2. tool' = r
      BY <2>2
    <3> HIDE DEF r
    <3> QED BY <3>1, <3>2
  <2> QED BY <2>1, <2>2 DEF Fetch
<1>4. Numbers' = Numbers /\ \A d : Alive(d)' <=> Alive(d)
  BY <1>1 DEF server, Numbers, Alive
<1>5. \A d \in tool.deps : d \in tool.todo \cup tool.found \cup tool.skipped \/ ~Alive(d)
  BY <1>1 DEF Inv, ToolInv
<1>6. \A d \in tool'.deps : d \in tool'.todo \cup tool'.found \cup tool'.skipped \/ ~Alive(d)'
  BY <1>3, <1>4, <1>5
<1>7. ToolInv'
  BY <1>1, <1>3, <1>4, <1>6 DEF Inv, ToolInv, ProvenanceIsWhole
<1> QED BY <1>1, <1>7, ToolReads

LEMMA SummarisePreserves ==
    ASSUME Inv, Summarise
    PROVE  Inv'
<1> DEFINE r == [tool EXCEPT !.pc = "done", !.ok = TRUE, !.at = 0, !.with = 0, !.todo = {}]
<1>1. /\ tool.pc = "fetch" /\ tool.todo = {} /\ tool' = r
      /\ UNCHANGED <<server, object, writes>>
  BY DEF Summarise, Answer
<1>2. tool \in ToolRecord
  BY DEF Inv, ToolInv
<1>3. /\ r \in ToolRecord /\ r.pc = "done" /\ r.ok = TRUE /\ r.at = 0 /\ r.with = 0
      /\ r.deps = tool.deps /\ r.found = tool.found /\ r.skipped = tool.skipped
  BY <1>2 DEF ToolRecord
<1> HIDE DEF r
<1>4. Numbers' = Numbers /\ \A d : Alive(d)' <=> Alive(d)
  BY <1>1 DEF server, Numbers, Alive
<1>5. ProvenanceIsWhole'
  BY <1>1, <1>3, <1>4 DEF Inv, ToolInv, ProvenanceIsWhole
<1>6. ToolInv'
  BY <1>1, <1>3, <1>4, <1>5 DEF Inv, ToolInv
<1> QED BY <1>1, <1>6, ToolReads

LEMMA ToolStepPreserves ==
    ASSUME Inv, ToolStep
    PROVE  Inv'
<1>1. CASE \E q \in ToolQueries : Begin(q) \/ Target(q)
  BY <1>1, BeginPreserves, TargetPreserves
<1>2. CASE Return
  BY <1>2, ToolIdle DEF Return
<1>3. CASE Refused \/ Traverse \/ Summarise \/ \E n \in tool.todo : Fetch(n)
  BY <1>3, RefusedPreserves, TraversePreserves, SummarisePreserves, FetchPreserves
<1> QED BY <1>1, <1>2, <1>3, ToolWritesPreserve DEF ToolStep

---------------------------------------------------------------------------

\* Age and error count up together.
LEMMA TickPreserves ==
    ASSUME Inv, Tick
    PROVE  Inv'
<1> DEFINE older(k) == IF k > Fresh THEN k ELSE k + 1
           right(o) == Alive(object[o].num) /\ object[o].tags = TagsOf(object[o].num)
           aged(o) == [object[o] EXCEPT !.age = older(@),
                                        !.wrong = IF right(o) THEN 0 ELSE older(@)]
<1>1. UNCHANGED <<server, tool, writes>>
  BY DEF Tick
<1>2. object' = [o \in Objects |-> IF ~Held(o) THEN object[o] ELSE aged(o)]
  BY Zenon DEF Tick
<1>3. ServerInv' /\ Grows /\ Numbers' = Numbers /\ revs' = revs
  BY <1>1, ServerSteady DEF Inv, server, Numbers
<1>4. ASSUME NEW o \in Objects
      PROVE  /\ object[o] \in ObjectRecord /\ aged(o) \in ObjectRecord
             /\ aged(o).num = object[o].num /\ aged(o).edited = object[o].edited
             /\ aged(o).attr = object[o].attr /\ aged(o).edit = object[o].edit
             /\ aged(o).touched = object[o].touched
             /\ object[o].wrong <= object[o].age => aged(o).wrong <= aged(o).age
  <2>1. object[o] \in ObjectRecord
    BY HeldTyped
  <2>2. /\ object[o].age \in 0..Fresh + 1 /\ object[o].wrong \in 0..Fresh + 1 /\ Fresh \in Nat
    BY <2>1, RevisionsAssumption DEF ObjectRecord
  <2>3. \A k \in 0..Fresh + 1 : older(k) \in 0..Fresh + 1
    BY <2>2
  <2>4. /\ older(object[o].age) \in 0..Fresh + 1 /\ older(object[o].wrong) \in 0..Fresh + 1
        /\ 0 \in 0..Fresh + 1
    BY <2>2, <2>3
  <2>5. object[o].wrong <= object[o].age => older(object[o].wrong) <= older(object[o].age)
    BY <2>2
  <2> HIDE DEF older, right
  <2>6. /\ aged(o).age = older(object[o].age) /\ aged(o).num = object[o].num
        /\ aged(o).edited = object[o].edited
        /\ aged(o).attr = object[o].attr /\ aged(o).edit = object[o].edit
        /\ aged(o).touched = object[o].touched
        /\ aged(o).wrong = IF right(o) THEN 0 ELSE older(object[o].wrong)
    BY <2>1 DEF ObjectRecord
  <2>7. aged(o) \in ObjectRecord
    BY <2>1, <2>4 DEF ObjectRecord
  <2>8. object[o].wrong <= object[o].age => aged(o).wrong <= aged(o).age
    BY <2>4, <2>5, <2>6
  <2> QED BY <2>1, <2>6, <2>7, <2>8
<1> HIDE DEF aged
<1>5. \A o \in Objects : Good(revs, aged(o))
  <2> SUFFICES ASSUME NEW o \in Objects PROVE Good(revs, aged(o))
    OBVIOUS
  <2>1. Aim(aged(o)) = Aim(object[o])
    BY <1>4 DEF Aim
  <2> QED BY <1>4, <2>1, HeldTyped DEF Good
<1>6. ObjectsInv'
  BY <1>2, <1>3, <1>4, <1>5 DEF Inv, ObjectsInv
<1> QED BY <1>1, <1>3, <1>6, OthersUndisturbed DEF Inv

LEMMA InitInv == Init => Inv
<1> SUFFICES ASSUME Init PROVE Inv
  OBVIOUS
<1>1. PICK n \in {0, 2} : revs = [i \in 1..n |-> NewRevision] /\ latest = n
  BY DEF Init
<1>2. NewRevision \in RevisionRecord /\ NewRevision.alive /\ NewRevision.tags = {}
  BY DEF NewRevision, RevisionRecord
<1>3. revs \in Seq(RevisionRecord) /\ Len(revs) = n /\ Numbers = 1..n
  BY <1>1, <1>2 DEF Numbers
<1>4. Numbers = 1..2 \/ Numbers = {}
  BY <1>1, <1>3
<1>5. \A m \in Numbers : revs[m] = NewRevision /\ Alive(m)
  BY <1>1, <1>2, <1>3 DEF Alive
<1>6. ServerInv
  <2>1. latest \in {0} \cup Numbers /\ Len(revs) <= MaxRevs
    BY <1>1, <1>3, RevisionsAssumption
  <2>2. edges = {}
    BY DEF Init
  <2> QED BY <1>2, <1>3, <1>5, <2>1, <2>2 DEF ServerInv
<1>7. 0 \in 0..MaxWrites
  BY RevisionsAssumption
<1>8. ObjectsInv
  <2>1. NoObject \in ObjectRecord /\ NoObject.num = 0 /\ NoObject.wrong = 0 /\ NoObject.age = 0
    BY NoObjectTyped DEF NoObject
  <2>2. Good(revs, NoObject)
    BY <1>3, <2>1 DEF Good
  <2> QED BY <2>1, <2>2 DEF Init, ObjectsInv
<1>9. ToolInv
  BY IdleTyped DEF Init, ToolInv, ProvenanceIsWhole
<1> QED BY <1>6, <1>7, <1>8, <1>9 DEF Init, Inv

LEMMA StutterPreserves ==
    ASSUME Inv, UNCHANGED vars
    PROVE  Inv'
<1>1. ServerInv' /\ Grows /\ Keeps
  BY ServerSteady DEF Inv, vars
<1> QED BY <1>1, OthersUndisturbed DEF Inv, vars

LEMMA InvStep == Inv /\ [Next]_vars => Inv'
<1> SUFFICES ASSUME Inv, [Next]_vars PROVE Inv'
  OBVIOUS
<1> QED BY TickPreserves, ToolStepPreserves, PartStepPreserves, ObjectStepPreserves,
           StutterPreserves DEF Next

\* The invariant of the specification: the server keeps a tag on one revision and `latest`
\* on one that is there, no copy is wrong for longer than it is old or aims at another
\* attribute than the server has, and no dependency is lost that is still there.
THEOREM RevisionInvariant == Spec => []Inv
BY InitInv, InvStep, PTL DEF Spec

\* Every variable keeps its type; a tool never works on a reference to nothing
\* (client.py, revision.py, mcp_server.py).
THEOREM RevisionsTyped == Spec => []TypeOK
<1>1. Inv => TypeOK
  <2> SUFFICES ASSUME Inv PROVE TypeOK
    OBVIOUS
  <2>1. \A o \in Objects : object[o] \in ObjectRecord /\ object[o].num \in {0} \cup Numbers
    BY DEF Inv, ObjectsInv
  <2>2. object \in [Objects -> [num : {0} \cup Numbers, tags : SUBSET (Tags \cup {Latest}),
                     latest : BOOLEAN, published : BOOLEAN,
                     attr : Values \cup {Nothing}, default : Arts \cup {Nothing},
                     deprecated : BOOLEAN, edit : Edits, age : 0..Fresh + 1,
                     wrong : 0..Fresh + 1, edited : BOOLEAN, touched : BOOLEAN]]
    BY <2>1 DEF Inv, ObjectsInv, ObjectRecord
  <2>3. /\ tool.pc \in {"idle", "act", "edge", "fetch", "done"}
        /\ tool.pc \in {"act", "edge", "fetch"} => tool.at \in Numbers
        /\ tool.pc = "edge" => tool.with \in Numbers
    BY DEF Inv, ToolInv, ToolRecord
  <2> QED BY <2>2, <2>3 DEF TypeOK, Inv, ServerInv, RevisionRecord
<1> QED BY <1>1, RevisionInvariant, PTL

\* The tags that Revision.tags shows were the server's at most five seconds ago, unless
\* the object has tagged or untagged since it was fetched: the age decides, a copy that is
\* shown is at most Fresh old, and so is its error (revision.py:133).
THEOREM TagsRecent == Spec => []TagsAreRecent
<1>1. Inv => TagsAreRecent
  <2> SUFFICES ASSUME Inv, NEW o \in Objects
               PROVE  Shown(o).edited \/ Shown(o).wrong <= Fresh
    BY DEF TagsAreRecent
  <2>1. CASE Stale(o)
    <3>1. Shown(o).wrong = 0
      BY <2>1 DEF Shown, Copy, NoObject
    <3> QED BY <3>1, RevisionsAssumption
  <2>2. CASE ~Stale(o)
    <3>1. /\ object[o].age \in 0..Fresh + 1 /\ object[o].wrong \in 0..Fresh + 1
          /\ ~object[o].edited => object[o].wrong <= object[o].age
      BY HeldTyped DEF ObjectRecord
    <3>2. Shown(o) = object[o] /\ ~(object[o].age > Fresh)
      BY <2>2 DEF Shown, Stale
    <3> QED BY <3>1, <3>2, RevisionsAssumption
  <2> QED BY <2>1, <2>2
<1> QED BY <1>1, RevisionInvariant, PTL

\* The attribute that a Revision object shows is the server's unless it was written past
\* it, whatever answers are lost or decline and whatever comes between the RPC of
\* set_attribute or delete_attribute and the edit of the copy (revision.py:236, 269).
THEOREM AttributeTrue == Spec => []AttributeIsTrue
<1>1. Inv => AttributeIsTrue
  <2> SUFFICES ASSUME Inv, NEW o \in Objects, Held(o), Alive(object[o].num), ~object[o].touched
               PROVE  Edited(object[o]).attr = revs[object[o].num].attr
    BY DEF AttributeIsTrue
  <2>1. Aim(object[o]) = revs[object[o].num].attr
    BY HeldTyped DEF Good, Alive, Numbers
  <2>2. Edited(object[o]).attr = Aim(object[o])
    BY HeldTyped, EditedTyped
  <2> QED BY <2>1, <2>2
<1> QED BY <1>1, RevisionInvariant, PTL

\* A provenance summary that has traversed does not fail, and leaves out only what is gone
\* or was passed over when it was fetched itself, whatever is written and deleted while
\* its dependencies are fetched (mcp_server.py:2767-2799).
THEOREM ProvenanceWhole == Spec => []ProvenanceIsWhole
<1>1. Inv => ProvenanceIsWhole
  BY DEF Inv, ToolInv
<1> QED BY <1>1, RevisionInvariant, PTL

---------------------------------------------------------------------------
(* References: three readings of a query agree where the grammar accepts it. *)

\* What the kernel reads of a query that it accepts.
LEMMA AcceptedReads ==
    ASSUME NEW q \in Queries, Reads[q] # Rejected
    PROVE  /\ \A i \in 1..Len(q) : q[i].eq /\ q[i].key \in {"r", "t", "a"}
           /\ \A i, j \in 1..Len(q) : i # j => q[i].key # q[j].key
           /\ Slot(q, "r") = Nothing \/ Slot(q, "t") = Nothing
           /\ Slot(q, "r") \in {Nothing, Latest} \/ ReadRevision(Slot(q, "r"))
           /\ Slot(q, "t") \in TagTexts \cup {Nothing}
           /\ Slot(q, "a") # Nothing => Slot(q, "a") \in ArtNames
           /\ Shapes(Ref(q).path) # {}
           /\ Reads[q] = ReadQuery(q)
           /\ Reads[q].by = IF Slot(q, "r") \notin {Nothing, Latest} THEN "number"
                            ELSE IF Slot(q, "r") = Nothing /\ Slot(q, "t") = Nothing THEN "item"
                            ELSE "tag"
           /\ Reads[q].what = IF Slot(q, "r") = Nothing THEN Slot(q, "t") ELSE Slot(q, "r")
           /\ Reads[q].art = Slot(q, "a")
<1>1. Reads[q] = Read(Ref(q)) /\ Ref(q).query = q
  BY Zenon DEF Reads, Ref
<1>2. Shapes(Ref(q).path) # {} /\ Read(Ref(q)) = ReadQuery(q)
  BY Zenon, <1>1 DEF Read
<1>3. ReadQuery(q) # Rejected
  BY Zenon, <1>1, <1>2
<1> DEFINE r == Slot(q, "r")
           t == Slot(q, "t")
           a == Slot(q, "a")
           by == IF r \notin {Nothing, Latest} THEN "number"
                 ELSE IF r = Nothing /\ t = Nothing THEN "item" ELSE "tag"
           what == IF r = Nothing THEN t ELSE r
           selects == [NoSelector EXCEPT !.by = by, !.what = what, !.art = a]
<1>4. /\ ~ \E i \in 1..Len(q) : ~q[i].eq \/ q[i].key \notin {"r", "t", "a"}
      /\ ~ \E i, j \in 1..Len(q) : i # j /\ q[i].key = q[j].key
      /\ ~ (r # Nothing /\ t # Nothing)
      /\ ~ (r \notin {Nothing, Latest} /\ ~ReadRevision(r))
      /\ ~ (t # Nothing /\ t \notin TagTexts)
      /\ ~ (a # Nothing /\ (selects.by = "item" \/ a \notin ArtNames))
      /\ ReadQuery(q) = selects
  BY Zenon, <1>3 DEF ReadQuery
<1>5. selects.by = by /\ selects.what = what /\ selects.art = a
  BY DEF NoSelector
<1> HIDE DEF r, t, a, by, what, selects
<1>7. Reads[q] = selects
  BY Zenon, <1>1, <1>2, <1>4
<1>8. Reads[q].by = by /\ Reads[q].what = what /\ Reads[q].art = a
  BY Zenon, <1>5, <1>7
<1> QED BY Zenon, <1>1, <1>2, <1>4, <1>8 DEF r, t, a, by, what

\* A slot holds the value of the one pair with its key.
LEMMA SlotIs ==
    ASSUME NEW q, NEW key, NEW i \in 1..Len(q), q[i].key = key,
           \A j, k \in 1..Len(q) : j # k => q[j].key # q[k].key
    PROVE  Pairs(q, key) = {i} /\ Slot(q, key) = q[i].value
<1>1. Pairs(q, key) = {i}
  BY DEF Pairs
<1> QED BY <1>1 DEF Slot

LEMMA SlotEmpty ==
    ASSUME NEW q, NEW key, \A i \in 1..Len(q) : q[i].key # key
    PROVE  Pairs(q, key) = {} /\ Slot(q, key) = Nothing
BY DEF Pairs, Slot

\* A selector resolves by how it selects and by what.
LEMMA ResolveBy ==
    ASSUME NEW x, NEW y, x.by = y.by, x.what = y.what
    PROVE  Resolve(x) = Resolve(y)
BY DEF Resolve

LEMMA OnlyChoice ==
    ASSUME NEW i \in Int
    PROVE  /\ (CHOOSE k \in {i} : \A j \in {i} : k <= j) = i
           /\ (CHOOSE k \in {i} : \A j \in {i} : k >= j) = i
<1>1. i <= i /\ i >= i
  OBVIOUS
<1> QED BY Zenon, <1>1

\* The client's own split of a query that holds only keys the kernel knows.
LEMMA ClientSplit ==
    ASSUME NEW ref, \A i \in 1..Len(ref.query) : ref.query[i].eq /\ ref.query[i].key \in {"r", "t", "a"}
    PROVE  /\ Pairs(ref.query, "t") = {} => Selects(ref) = Read(ref)
           /\ \A i \in Int : /\ Pairs(ref.query, "t") = {i}
                            /\ ref.query[i].value \in TagTexts /\ ref.query[i].value # Nothing
                 => Selects(ref).by = "tag" /\ Selects(ref).what = CutAtEq[ref.query[i].value]
<1> DEFINE given(keys) == {i \in 1..Len(ref.query) : ref.query[i].key \in keys /\ ref.query[i].eq}
           final(s) == IF s = {} THEN Nothing
                       ELSE ref.query[CHOOSE i \in s : \A j \in s : i >= j].value
           tag == final(given({"t", "tag"}))
           cut == [NoSelector EXCEPT !.by = IF tag = Nothing THEN "time" ELSE "tag",
                                     !.what = IF tag \in TagTexts THEN CutAtEq[tag] ELSE tag,
                                     !.at = final(given({"time"}))]
<1>1. /\ given({"time"}) = {} /\ given({"t", "tag"}) = Pairs(ref.query, "t")
      /\ given({"t", "tag", "time"}) = Pairs(ref.query, "t")
  BY DEF Pairs
<1>2. Selects(ref) = IF \E i \in given({"time"}) : ref.query[i].value \notin Times THEN Rejected
                     ELSE IF given({"t", "tag", "time"}) = {} THEN Read(ref) ELSE cut
  BY Zenon DEF Selects
<1> HIDE DEF given, cut
<1>3. Selects(ref) = IF Pairs(ref.query, "t") = {} THEN Read(ref) ELSE cut
  BY Zenon, <1>1, <1>2
<1>4. ASSUME NEW i \in Int, Pairs(ref.query, "t") = {i}, ref.query[i].value \in TagTexts,
             ref.query[i].value # Nothing
      PROVE  Selects(ref).by = "tag" /\ Selects(ref).what = CutAtEq[ref.query[i].value]
  <2>1. (CHOOSE k \in {i} : \A j \in {i} : k >= j) = i /\ {i} # {}
    BY Zenon, <1>4, OnlyChoice
  <2>2. given({"t", "tag"}) = {i}
    BY Zenon, <1>1, <1>4
  <2>3. final({i}) = ref.query[i].value
    BY Zenon, <2>1
  <2> HIDE DEF final
  <2>4. tag = ref.query[i].value
    BY Zenon, <2>2, <2>3
  <2> HIDE DEF tag
  <2>5. /\ cut.by = (IF tag = Nothing THEN "time" ELSE "tag")
        /\ cut.what = (IF tag \in TagTexts THEN CutAtEq[tag] ELSE tag)
    BY DEF cut, NoSelector
  <2>6. cut.by = "tag" /\ cut.what = CutAtEq[ref.query[i].value]
    BY Zenon, <1>4, <2>4, <2>5
  <2> QED BY Zenon, <1>3, <1>4, <2>1, <2>6
<1> QED BY Zenon, <1>3, <1>4

\* It selects what the kernel reads, but for a tag that it cuts short.
LEMMA SelectedAgrees ==
    ASSUME NEW q \in Accepted
    PROVE  Resolve(Selected[q]) = Resolve(Reads[q])
<1>1. q \in Queries /\ Reads[q] # Rejected /\ ~CutShort(Reads[q])
  BY DEF Accepted
<1>2. PICK ref : ref = Ref(q)
  OBVIOUS
<1>3. Selected[q] = Selects(ref) /\ Reads[q] = Read(ref) /\ ref.query = q
  BY Zenon, <1>1, <1>2 DEF Selected, Reads, Ref
<1>4. /\ \A i \in 1..Len(q) : q[i].eq /\ q[i].key \in {"r", "t", "a"}
      /\ \A i, j \in 1..Len(q) : i # j => q[i].key # q[j].key
  BY Zenon, <1>1, AcceptedReads
<1>5. \A i \in 1..Len(ref.query) : ref.query[i].eq /\ ref.query[i].key \in {"r", "t", "a"}
  BY <1>3, <1>4
<1>6. CASE Pairs(q, "t") = {}
  BY Zenon, <1>3, <1>5, <1>6, ClientSplit
<1>7. CASE Pairs(q, "t") # {}
  <2>1. PICK i \in 1..Len(q) : q[i].key = "t"
    BY <1>7 DEF Pairs
  <2>2. Pairs(q, "t") = {i} /\ Slot(q, "t") = q[i].value /\ i \in Int
    <3>1. Pairs(q, "t") = {i} /\ Slot(q, "t") = q[i].value
      BY Zenon, <1>4, <2>1, SlotIs
    <3>2. i \in Int
      BY <2>1
    <3> QED BY <3>1, <3>2
  <2>3. q[i].value # Nothing
    BY Zenon, <1>1, <1>4, QueriesAssumption
  <2>4. /\ Slot(q, "r") = Nothing /\ Slot(q, "t") \in TagTexts
        /\ Reads[q].by = "tag" /\ Reads[q].what = q[i].value
    <3>1. Slot(q, "r") = Nothing /\ Slot(q, "t") \in TagTexts
      BY <1>1, <2>2, <2>3, AcceptedReads
    <3> QED BY Zenon, <1>1, <2>2, <2>3, <3>1, AcceptedReads
  <2>5. CutAtEq[q[i].value] = q[i].value
    BY Zenon, <1>1, <2>2, <2>4, KrefAssumption DEF CutShort
  <2>6. Selects(ref).by = "tag" /\ Selects(ref).what = q[i].value
    BY Zenon, <1>3, <1>5, <2>2, <2>3, <2>4, <2>5, ClientSplit
  <2> QED BY Zenon, <1>3, <2>4, <2>6, ResolveBy
<1> QED BY <1>6, <1>7

\* The artifact that the accessor finds in a query with one of them.
LEMMA ArtifactFound ==
    ASSUME NEW ref, NEW i \in Int, i # 1, Pairs(ref.query, "a") = {i}, ref.query[i].value # ""
    PROVE  ArtifactOf(ref) = ref.query[i].value
<1> DEFINE as == {j \in Pairs(ref.query, "a") \ {1} : ref.query[j].value # ""}
<1>1. {i} \ {1} = {i}
  OBVIOUS
<1>2. as = {j \in {i} : ref.query[j].value # ""}
  BY Zenon, <1>1
<1>3. as = {i}
  BY Zenon, <1>2
<1>4. ArtifactOf(ref) = IF as = {} THEN Nothing
                        ELSE ref.query[CHOOSE k \in as : \A j \in as : k <= j].value
  BY Zenon DEF ArtifactOf
<1> HIDE DEF as
<1>5. (CHOOSE k \in {i} : \A j \in {i} : k <= j) = i /\ {i} # {}
  BY Zenon, OnlyChoice
<1> QED BY Zenon, <1>3, <1>4, <1>5

LEMMA FirstOnly ==
    ASSUME NEW S, NEW s \in Seq(S), Len(s) >= 1
    PROVE  SubSeq(s, 1, 1) = <<s[1]>>
<1>1. /\ SubSeq(s, 1, 1) \in Seq(S) /\ Len(SubSeq(s, 1, 1)) = 1
      /\ SubSeq(s, 1, 1)[1] = s[1]
  OBVIOUS
<1>2. \A r \in Seq(S) : Len(r) = 1 => r = <<r[1]>>
  OBVIOUS
<1> QED BY <1>1, <1>2

\* What the constructor's pattern leaves of a query that the grammar accepts: nothing, a
\* numbered revision, or one with an artifact after it.
LEMMA ConstructedQuery ==
    ASSUME NEW q \in Queries, Reads[q] # Rejected, Constructs(Ref(q))
    PROVE  /\ q \in Seq([key : STRING, eq : BOOLEAN, value : STRING]) /\ Len(q) \in {0, 1, 2}
           /\ Len(q) = 0 => q = <<>>
           /\ Len(q) >= 1 => /\ q[1].key = "r" /\ q[1].eq /\ q[1].value \in DOMAIN Numerals
                             /\ Slot(q, "r") = q[1].value /\ q[1].value # Nothing
           /\ Len(q) = 2 => /\ q[2].key = "a" /\ q[2].eq /\ q[2].value \in ArtNames
                            /\ Slot(q, "a") = q[2].value /\ q[2].value # Nothing
                            /\ Pairs(q, "a") = {2}
           /\ Len(q) = 0 => Slot(q, "r") = Nothing
           /\ Len(q) < 2 => Slot(q, "a") = Nothing /\ Pairs(q, "a") = {}
           /\ Slot(q, "t") = Nothing
<1>1. Ref(q).query = q
  BY DEF Ref
<1>2. /\ Len(q) <= 2
      /\ Len(q) >= 1 => q[1].key = "r" /\ q[1].eq /\ q[1].value \in DOMAIN Numerals
      /\ Len(q) = 2 => q[2].key = "a" /\ q[2].eq /\ q[2].value \in ArtNames
  BY Zenon, <1>1 DEF Constructs
<1>3. q \in Seq([key : STRING, eq : BOOLEAN, value : STRING])
  BY QueriesAssumption
<1>4. Len(q) \in {0, 1, 2} /\ (Len(q) = 0 => q = <<>>)
  <2>1. Len(q) \in Nat /\ (Len(q) = 0 => q = <<>>)
    BY <1>3
  <2>2. Len(q) <= 2
    BY Zenon, <1>2
  <2>3. \A n \in Nat : n <= 2 => n \in {0, 1, 2}
    OBVIOUS
  <2> QED BY Zenon, <2>1, <2>2, <2>3
<1>5. \A i, j \in 1..Len(q) : i # j => q[i].key # q[j].key
  BY AcceptedReads
<1>6. ASSUME Len(q) >= 1 PROVE Slot(q, "r") = q[1].value /\ q[1].value # Nothing
  <2>1. 1 \in 1..Len(q)
    BY <1>4, <1>6
  <2>2. q[1].key = "r" /\ q[1].eq
    BY Zenon, <1>2, <1>6
  <2>3. Slot(q, "r") = q[1].value
    BY Zenon, <1>5, <2>1, <2>2, SlotIs
  <2>4. q[1].value # Nothing
    BY Zenon, <2>1, <2>2, QueriesAssumption
  <2> QED BY <2>3, <2>4
<1>7. ASSUME Len(q) = 2
      PROVE  Slot(q, "a") = q[2].value /\ q[2].value # Nothing /\ Pairs(q, "a") = {2}
  <2>0. Len(q) >= 1
    BY <1>7
  <2>1. 2 \in 1..Len(q)
    BY <1>7
  <2>2. q[2].key = "a" /\ q[2].eq
    BY Zenon, <1>2, <1>7, <2>0
  <2>3. Slot(q, "a") = q[2].value /\ Pairs(q, "a") = {2}
    BY Zenon, <1>5, <2>1, <2>2, SlotIs
  <2>4. q[2].value # Nothing
    BY Zenon, <2>1, <2>2, QueriesAssumption
  <2> QED BY <2>3, <2>4
<1>8. \A i \in 1..Len(q) : q[i].key = IF i = 1 THEN "r" ELSE "a"
  BY <1>2, <1>4
<1>9. \A i \in 1..Len(q) : q[i].key # "t"
  BY <1>8
<1>10. Slot(q, "t") = Nothing
  BY <1>9, SlotEmpty
<1>11. Len(q) < 2 => Slot(q, "a") = Nothing /\ Pairs(q, "a") = {}
  <2>1. Len(q) < 2 => \A i \in 1..Len(q) : q[i].key # "a"
    BY <1>4, <1>8
  <2> QED BY <2>1, SlotEmpty
<1>12. Len(q) = 0 => Slot(q, "r") = Nothing
  <2>1. Len(q) = 0 => \A i \in 1..Len(q) : q[i].key # "r"
    BY <1>4
  <2> QED BY <2>1, SlotEmpty
<1> QED BY <1>2, <1>3, <1>4, <1>6, <1>7, <1>10, <1>11, <1>12

\* Without its artifact a reference names the same revision.
LEMMA BaseAgrees ==
    ASSUME NEW q \in Queries, Reads[q] # Rejected, Constructs(Ref(q)), Len(q) = 2
    PROVE  Resolve(Read([Ref(q) EXCEPT !.query = BeforeArtifact(q)])) = Resolve(Reads[q])
<1> DEFINE base == <<q[1]>>
           ref == [Ref(q) EXCEPT !.query = BeforeArtifact(q)]
<1>1. /\ q \in Seq([key : STRING, eq : BOOLEAN, value : STRING])
      /\ q[1].key = "r" /\ q[1].eq /\ Slot(q, "r") = q[1].value /\ q[1].value # Nothing
      /\ Slot(q, "t") = Nothing /\ Pairs(q, "a") = {2}
  BY ConstructedQuery
<1>2. /\ Slot(q, "r") \in {Nothing, Latest} \/ ReadRevision(Slot(q, "r"))
      /\ Reads[q].by = (IF q[1].value = Latest THEN "tag" ELSE "number")
      /\ Reads[q].what = q[1].value
  <2>1. /\ Slot(q, "r") \in {Nothing, Latest} \/ ReadRevision(Slot(q, "r"))
        /\ Reads[q].by = IF Slot(q, "r") \notin {Nothing, Latest} THEN "number"
                         ELSE IF Slot(q, "r") = Nothing /\ Slot(q, "t") = Nothing THEN "item"
                         ELSE "tag"
        /\ Reads[q].what = IF Slot(q, "r") = Nothing THEN Slot(q, "t") ELSE Slot(q, "r")
    BY Zenon, AcceptedReads
  <2> QED BY <1>1, <2>1
<1>3. BeforeArtifact(q) = base
  <2>1. Pairs(q, "a") \ {1} = {2} /\ (CHOOSE i \in {2} : \A j \in {2} : i <= j) = 2
    BY <1>1
  <2>2. BeforeArtifact(q) = SubSeq(q, 1, 1)
    <3>1. {2} # {} /\ 2 - 1 = 1
      OBVIOUS
    <3> QED BY Zenon, <2>1, <3>1 DEF BeforeArtifact
  <2>3. q \in Seq([key : STRING, eq : BOOLEAN, value : STRING]) /\ Len(q) >= 1
    BY <1>1
  <2>4. SubSeq(q, 1, 1) = <<q[1]>>
    BY Zenon, <2>3, FirstOnly
  <2> QED BY Zenon, <2>2, <2>4
<1>4. /\ Len(base) = 1 /\ base[1] = q[1]
      /\ \A i, j \in 1..Len(base) : i = j
  OBVIOUS
<1>5. ref.scheme /\ ref.path = Ref(q).path /\ ref.query = base
  BY <1>3 DEF Ref
<1> HIDE DEF base, ref
<1>6. Slot(base, "r") = q[1].value
  <2>1. 1 \in 1..Len(base)
    BY <1>4
  <2> QED BY <1>1, <1>4, <2>1, SlotIs
<1>7. Slot(base, "t") = Nothing /\ Slot(base, "a") = Nothing
  <2>1. \A i \in 1..Len(base) : base[i].key # "t" /\ base[i].key # "a"
    BY <1>1, <1>4
  <2> QED BY <2>1, SlotEmpty
<1>8. Shapes(Ref(q).path) # {}
  BY AcceptedReads
<1>9. Read(ref) = ReadQuery(base)
  BY Zenon, <1>5, <1>8 DEF Read
<1> DEFINE by == IF q[1].value \notin {Nothing, Latest} THEN "number"
                 ELSE IF q[1].value = Nothing /\ Nothing = Nothing THEN "item" ELSE "tag"
           what == IF q[1].value = Nothing THEN Nothing ELSE q[1].value
           selects == [NoSelector EXCEPT !.by = by, !.what = what, !.art = Nothing]
<1>10. /\ ~ \E i \in 1..Len(base) : ~base[i].eq \/ base[i].key \notin {"r", "t", "a"}
       /\ ~ \E i, j \in 1..Len(base) : i # j /\ base[i].key = base[j].key
       /\ ~ (q[1].value \notin {Nothing, Latest} /\ ~ReadRevision(q[1].value))
  BY <1>1, <1>2, <1>4
<1>11. ReadQuery(base) = selects
  BY Zenon, <1>6, <1>7, <1>10 DEF ReadQuery
<1>12. /\ selects.by = (IF q[1].value = Latest THEN "tag" ELSE "number")
       /\ selects.what = q[1].value
  <2>1. by = (IF q[1].value = Latest THEN "tag" ELSE "number") /\ what = q[1].value
    BY <1>1
  <2> HIDE DEF by, what
  <2>2. selects.by = by /\ selects.what = what
    BY DEF NoSelector
  <2> HIDE DEF selects
  <2> QED BY Zenon, <2>1, <2>2
<1> HIDE DEF selects
<1> QED BY <1>2, <1>9, <1>11, <1>12, ResolveBy DEF ref

\* The artifact's revision is the one the reference names, and so is the artifact.
LEMMA ArtifactAgrees ==
    ASSUME NEW q \in Accepted, ArtifactAt(Ref(q))[1] # 0
    PROVE  /\ ArtifactAt(Ref(q))[1] = Resolve(Reads[q])
           /\ Reads[q].art \in {Nothing, ArtifactAt(Ref(q))[2]}
<1> DEFINE art == ArtifactOf(Ref(q))
           n == IF art = Nothing THEN Resolve(Selects(Ref(q)))
                ELSE Resolve(Read([Ref(q) EXCEPT !.query = BeforeArtifact(@)]))
<1>1. q \in Queries /\ Reads[q] # Rejected
  BY DEF Accepted
<1>2. /\ Selected[q] = Selects(Ref(q)) /\ Ref(q).query = q
  BY Zenon, <1>1 DEF Selected, Ref
<1>3. Reads[q].art = Slot(q, "a")
  BY <1>1, AcceptedReads
<1>4. Constructs(Ref(q))
  <2>1. ~Constructs(Ref(q)) => ArtifactAt(Ref(q)) = <<0, Nothing>>
    BY Zenon DEF ArtifactAt
  <2> QED BY <2>1
<1>5. art = Slot(q, "a")
  <2>1. CASE Len(q) = 2
    <3>1. Pairs(q, "a") = {2} /\ Slot(q, "a") = q[2].value /\ q[2].value # ""
      <4>1. Pairs(q, "a") = {2} /\ Slot(q, "a") = q[2].value /\ q[2].value \in ArtNames
        BY Zenon, <1>1, <1>4, <2>1, ConstructedQuery
      <4> QED BY Zenon, <4>1, KrefAssumption
    <3>2. 2 \in Int /\ 2 # 1
      OBVIOUS
    <3> QED BY Zenon, <1>2, <3>1, <3>2, ArtifactFound
  <2>2. CASE Len(q) # 2
    <3>1. Len(q) \in {0, 1, 2}
      BY Zenon, <1>1, <1>4, ConstructedQuery
    <3>2. Len(q) < 2
      <4>1. \A k \in {0, 1, 2} : k # 2 => k < 2
        OBVIOUS
      <4> QED BY Zenon, <2>2, <3>1, <4>1
    <3>3. Pairs(q, "a") = {} /\ Slot(q, "a") = Nothing
      BY Zenon, <1>1, <1>4, <3>2, ConstructedQuery
    <3>4. {i \in Pairs(q, "a") \ {1} : q[i].value # ""} = {}
      BY <3>3
    <3> QED BY Zenon, <1>2, <3>3, <3>4 DEF ArtifactOf
  <2> QED BY <2>1, <2>2
<1>6. n = Resolve(Reads[q])
  <2>1. CASE art = Nothing
    BY <1>2, <2>1, SelectedAgrees
  <2>2. CASE art # Nothing
    <3>1. Len(q) = 2
      <4>1. Len(q) \in {0, 1, 2} /\ (Len(q) < 2 => Slot(q, "a") = Nothing)
        BY Zenon, <1>1, <1>4, ConstructedQuery
      <4> QED BY <1>5, <2>2, <4>1
    <3>2. [Ref(q) EXCEPT !.query = BeforeArtifact(@)] = [Ref(q) EXCEPT !.query = BeforeArtifact(q)]
      BY <1>2
    <3> QED BY <1>1, <1>4, <2>2, <3>1, <3>2, BaseAgrees
  <2> QED BY <2>1, <2>2
<1>7. /\ ArtifactAt(Ref(q))[1] \in {0, n}
      /\ art # Nothing /\ n # 0 => ArtifactAt(Ref(q)) = <<n, art>>
      /\ n = 0 => ArtifactAt(Ref(q)) = <<0, Nothing>>
  <2> HIDE DEF n, art
  <2>1. ArtifactAt(Ref(q)) \in {<<0, Nothing>>, <<n, art>>, <<n, revs[n].default>>}
    BY Zenon DEF ArtifactAt, n, art
  <2>2. /\ art # Nothing /\ n # 0 => ArtifactAt(Ref(q)) = <<n, art>>
        /\ n = 0 => ArtifactAt(Ref(q)) = <<0, Nothing>>
    BY Zenon, <1>4 DEF ArtifactAt, n, art
  <2> QED BY <2>1, <2>2
<1> HIDE DEF n, art
<1>8. ArtifactAt(Ref(q))[1] = n /\ n # 0
  BY <1>7
<1> QED BY <1>3, <1>5, <1>6, <1>7, <1>8

\* A reference that the grammar accepts gets the revision it names, whoever reads it
\* (kref.py, client.py: get_revision, get_artifact_by_kref, mcp_server.py: tool_set_metadata).
THEOREM ReferencesAgreed == Spec => []ReferencesAgree
<1>1. ReferencesAgree
  <2> SUFFICES ASSUME NEW q \in Accepted
               PROVE  /\ Resolve(Selected[q]) = Resolve(Reads[q])
                      /\ ArtifactAt(Ref(q))[1] # 0 =>
                           /\ ArtifactAt(Ref(q))[1] = Resolve(Reads[q])
                           /\ Reads[q].art \in {Nothing, ArtifactAt(Ref(q))[2]}
                      /\ Numbered[q] => RevisionOf(Ref(q)) = Numerals[Reads[q].what]
                      /\ Targets[q] = "item" => Reads[q].by = "item"
    BY Zenon DEF ReferencesAgree
  <2>1. q \in Queries /\ Reads[q] # Rejected /\ Ref(q).query = q
    BY DEF Accepted, Ref
  <2>2. ASSUME Numbered[q] PROVE RevisionOf(Ref(q)) = Numerals[Reads[q].what]
    <3>1. Constructs(Ref(q)) /\ Reads[q].by = "number"
      BY <2>1, <2>2 DEF Numbered
    <3>2. Slot(q, "r") # Nothing /\ Reads[q].what = Slot(q, "r")
      <4>1. Slot(q, "t") = Nothing
        BY <2>1, <3>1, ConstructedQuery
      <4> QED BY <2>1, <3>1, <4>1, AcceptedReads
    <3>3. Len(q) >= 1 /\ q # <<>>
      BY <2>1, <3>1, <3>2, ConstructedQuery
    <3>4. q[1].key = "r" /\ q[1].value \in DOMAIN Numerals /\ Slot(q, "r") = q[1].value
      BY <2>1, <3>1, <3>3, ConstructedQuery
    <3> QED BY <2>1, <3>2, <3>3, <3>4 DEF RevisionOf
  <2>3. ASSUME Targets[q] = "item" PROVE Reads[q].by = "item"
    <3>1. Constructs(Ref(q)) /\ ~(q # <<>> /\ q[1].key = "r" /\ q[1].eq)
      <4>1. MetadataTarget(Ref(q)) = "item"
        BY <2>1, <2>3 DEF Targets
      <4>2. "revision" # "item" /\ Nothing # "item"
        BY DEF Nothing
      <4> QED BY Zenon, <2>1, <4>1, <4>2 DEF MetadataTarget
    <3>2. Slot(q, "r") = Nothing /\ Slot(q, "t") = Nothing
      BY <2>1, <3>1, ConstructedQuery
    <3>3. Nothing # Latest
      BY DEF Nothing, Latest
    <3> QED BY <2>1, <3>2, <3>3, AcceptedReads
  <2> QED BY <2>2, <2>3, SelectedAgrees, ArtifactAgrees
<1> QED BY <1>1, PTL
=============================================================================
