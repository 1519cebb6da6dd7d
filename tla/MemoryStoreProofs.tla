------------------------- MODULE MemoryStoreProofs -------------------------
(* TLAPS proofs about MemoryStore, for every set of calls and memories and   *)
(* every bound on faults.                                                    *)
EXTENDS MemoryStore, TLAPS

---------------------------------------------------------------------------
(* The inductive invariant.                                                  *)

\* The published revision of an item exists and is frozen.
PublishedIsFrozen ==
    \A i \in Items :
        published[i] # None =>
            /\ published[i] \in DOMAIN revs[i]
            /\ revs[i][published[i]].frozen

ServerTypes ==
    /\ revs \in [Items -> Seq(Revision)]
    /\ published \in [Items -> Nat]

ServerInv == ServerTypes /\ PublishedIsFrozen

RestTypes ==
    /\ members \subseteq Items
    /\ edges \subseteq Items \X Nat \X Sources
    /\ faults \in 0..MaxFaults

\* A call whose revision is created has its number, and past the artifact step
\* the artifact it located.
HasRevision(c) ==
    /\ Created(c) => call[c].n \in DOMAIN revs[call[c].item]
    /\ Attached(c) /\ call[c].located => revs[call[c].item][call[c].n].artifact

\* A call that saw a published revision is a revise, and that revision is frozen
\* for good: it cannot be published again, so it stays displaced.
SawPublished(c) ==
    call[c].was =>
        /\ call[c].revise
        /\ published[call[c].item] # None
        /\ call[c].prev \in DOMAIN revs[call[c].item]
        /\ revs[call[c].item][call[c].prev].frozen

Displaced(c) ==
    call[c].pc \in {"link", "ok"} /\ call[c].was
        => published[call[c].item] # call[c].prev

\* What a call is doing agrees with how it began; only one that saw a published
\* revision gets as far as moving the tag.
PhaseAgrees(c) ==
    /\ call[c].pc = "publish" => call[c].revise /\ call[c].was
    /\ call[c].pc = "file" => ~call[c].revise
    /\ call[c].pc \in {"idle", "published", "latest"} => ~call[c].was
    /\ call[c].pc \in {"published", "latest"} => call[c].revise

CallOK(c) == HasRevision(c) /\ SawPublished(c) /\ Displaced(c) /\ PhaseAgrees(c)

CallTypes == call \in [Calls -> Progress]

Inv == ServerInv /\ RestTypes /\ CallTypes /\ \A c \in Calls : CallOK(c)

---------------------------------------------------------------------------
(* What the server's operations preserve.                                    *)

\* Revisions only grow: numbers stay, a frozen revision stays frozen, an artifact
\* stays attached and tags stay on.
Grows ==
    /\ revs' \in [Items -> Seq(Revision)]
    /\ \A i \in Items : \A n \in DOMAIN revs[i] :
          /\ n \in DOMAIN revs'[i]
          /\ revs[i][n].frozen => revs'[i][n].frozen
          /\ revs[i][n].artifact => revs'[i][n].artifact
          /\ revs[i][n].tags \subseteq revs'[i][n].tags

\* `published` moves only from an unfrozen revision's tagging.
KeepsPublished ==
    /\ published' \in [Items -> Nat]
    /\ PublishedIsFrozen'
    /\ \A i \in Items :
          /\ published[i] # None => published'[i] # None
          /\ published'[i] # published[i] =>
                published'[i] \in DOMAIN revs[i] /\ ~revs[i][published'[i]].frozen

\* create_revision appends.
LEMMA AppendGrows ==
    ASSUME ServerInv, NEW i \in Items, Append1(i), published' = published
    PROVE  /\ Grows /\ KeepsPublished
           /\ Len(revs'[i]) = Len(revs[i]) + 1
           /\ Len(revs'[i]) \in DOMAIN revs'[i]
<1>1. NewRevision \in Revision
  BY DEF NewRevision, Revision
<1>2. revs[i] \in Seq(Revision)
  BY DEF ServerInv, ServerTypes
<1>3. revs' = [revs EXCEPT ![i] = Append(revs[i], NewRevision)]
  BY DEF Append1
<1>4. Append(revs[i], NewRevision) \in Seq(Revision)
  BY <1>1, <1>2
<1>5. /\ Len(Append(revs[i], NewRevision)) = Len(revs[i]) + 1
      /\ \A n \in DOMAIN revs[i] : n \in DOMAIN Append(revs[i], NewRevision)
                                   /\ Append(revs[i], NewRevision)[n] = revs[i][n]
      /\ Len(revs[i]) + 1 \in DOMAIN Append(revs[i], NewRevision)
  BY <1>1, <1>2
<1>6. Grows
  BY <1>3, <1>4, <1>5 DEF Grows, ServerInv, ServerTypes
<1>7. KeepsPublished
  BY <1>6 DEF KeepsPublished, Grows, ServerInv, ServerTypes, PublishedIsFrozen
<1> QED
  BY <1>3, <1>5, <1>6, <1>7 DEF ServerInv, ServerTypes

\* tag_revision rewrites one revision that was not frozen.
LEMMA TagGrows ==
    ASSUME ServerInv, NEW i \in Items, NEW n \in DOMAIN revs[i], NEW t \in Tags,
           TagRevision(i, n, t)
    PROVE  Grows /\ KeepsPublished
<1> DEFINE rev == revs[i][n]
           new == [rev EXCEPT !.tags = @ \cup {t}, !.frozen = (t = Published)]
<1>1. revs[i] \in Seq(Revision) /\ rev \in Revision
  BY DEF ServerInv, ServerTypes
<1>2. revs' = [revs EXCEPT ![i] = [revs[i] EXCEPT ![n] = new]]
  BY <1>1 DEF TagRevision, ServerInv, ServerTypes, Revision
<1>3. /\ new \in Revision /\ new.artifact = rev.artifact /\ new.frozen = (t = Published)
      /\ rev.tags \subseteq new.tags
  BY <1>1 DEF Revision
<1>4. [revs[i] EXCEPT ![n] = new] \in Seq(Revision)
  BY <1>1, <1>3
<1>5. ~rev.frozen
  BY DEF TagRevision
<1>6. revs' \in [Items -> Seq(Revision)]
  BY <1>2, <1>4 DEF ServerInv, ServerTypes
<1>7. \A j \in Items : DOMAIN revs'[j] = DOMAIN revs[j]
  BY <1>2 DEF ServerInv, ServerTypes
<1>8. \A j \in Items : \A m \in DOMAIN revs[j] :
          revs'[j][m] = IF j = i /\ m = n THEN new ELSE revs[j][m]
  BY <1>1, <1>2 DEF ServerInv, ServerTypes
<1>9. Grows
  BY <1>3, <1>5, <1>6, <1>7, <1>8 DEF Grows
<1>10. published' = IF t = Published THEN [published EXCEPT ![i] = n] ELSE published
  BY DEF TagRevision
<1>11. n \in Nat \ {0}
  BY <1>1
<1>12. published' \in [Items -> Nat]
  BY <1>10, <1>11 DEF ServerInv, ServerTypes
<1>13. \A j \in Items :
         /\ published[j] # None => published'[j] # None
         /\ published'[j] # published[j] =>
               j = i /\ published'[j] = n /\ t = Published
  BY <1>10, <1>11 DEF ServerInv, ServerTypes, None
<1>14. PublishedIsFrozen'
  <2> SUFFICES ASSUME NEW j \in Items, published'[j] # None
               PROVE  /\ published'[j] \in DOMAIN revs'[j]
                      /\ revs'[j][published'[j]].frozen
    BY DEF PublishedIsFrozen
  <2>1. CASE published'[j] = published[j]
    BY <2>1, <1>9 DEF Grows, ServerInv, PublishedIsFrozen
  <2>2. CASE published'[j] # published[j]
    <3>1. j = i /\ published'[j] = n /\ t = Published
      BY <2>2, <1>13
    <3>2. revs'[i][n] = new
      BY <1>8
    <3> QED
      BY <3>1, <3>2, <1>3, <1>7
  <2> QED
    BY <2>1, <2>2
<1> QED
  BY <1>5, <1>9, <1>12, <1>13, <1>14 DEF KeepsPublished

\* create_artifact rewrites one revision that was not frozen.
LEMMA ArtifactGrows ==
    ASSUME ServerInv, NEW c \in Calls, call[c].item \in Items,
           call[c].n \in DOMAIN revs[call[c].item],
           SetArtifact(c), published' = published
    PROVE  /\ Grows /\ KeepsPublished
           /\ revs'[call[c].item][call[c].n].artifact
<1> DEFINE i == call[c].item
           n == call[c].n
           new == [revs[i][n] EXCEPT !.artifact = TRUE]
<1>1. revs[i] \in Seq(Revision) /\ revs[i][n] \in Revision
  BY DEF ServerInv, ServerTypes
<1>2. revs' = [revs EXCEPT ![i] = [revs[i] EXCEPT ![n] = new]]
  BY <1>1 DEF SetArtifact, ServerInv, ServerTypes
<1>3. /\ new \in Revision /\ new.artifact /\ new.frozen = revs[i][n].frozen
      /\ new.tags = revs[i][n].tags
  BY <1>1 DEF Revision
<1>4. [revs[i] EXCEPT ![n] = new] \in Seq(Revision)
  BY <1>1, <1>3
<1>5. revs' \in [Items -> Seq(Revision)]
  BY <1>2, <1>4 DEF ServerInv, ServerTypes
<1>6. \A j \in Items : DOMAIN revs'[j] = DOMAIN revs[j]
  BY <1>2 DEF ServerInv, ServerTypes
<1>7. \A j \in Items : \A m \in DOMAIN revs[j] :
          revs'[j][m] = IF j = i /\ m = n THEN new ELSE revs[j][m]
  BY <1>1, <1>2 DEF ServerInv, ServerTypes
<1>8. Grows
  <2>1. \A j \in Items : \A m \in DOMAIN revs[j] :
          /\ revs[j][m].frozen => revs'[j][m].frozen
          /\ revs[j][m].artifact => revs'[j][m].artifact
          /\ revs[j][m].tags \subseteq revs'[j][m].tags
    <3> SUFFICES ASSUME NEW j \in Items, NEW m \in DOMAIN revs[j]
                 PROVE  /\ revs[j][m].frozen => revs'[j][m].frozen
                        /\ revs[j][m].artifact => revs'[j][m].artifact
                        /\ revs[j][m].tags \subseteq revs'[j][m].tags
      OBVIOUS
    <3>1. CASE j = i /\ m = n
      BY <1>3, <1>7, <3>1
    <3>2. CASE ~(j = i /\ m = n)
      BY <1>7, <3>2
    <3> QED BY <3>1, <3>2
  <2> QED BY <1>5, <1>6, <2>1 DEF Grows
<1>9. KeepsPublished
  BY <1>8 DEF KeepsPublished, Grows, ServerInv, ServerTypes, PublishedIsFrozen
<1> QED
  BY <1>3, <1>7, <1>8, <1>9

\* A step that leaves the server alone.
LEMMA IdleGrows ==
    ASSUME ServerInv, UNCHANGED <<revs, published>>
    PROVE  Grows /\ KeepsPublished
BY DEF ServerInv, ServerTypes, PublishedIsFrozen, Grows, KeepsPublished

---------------------------------------------------------------------------
(* What the steps of other calls preserve.                                   *)

\* Whatever the server did, a call that made no step stays consistent: above all,
\* `published` does not return to the revision the call displaced.
LEMMA OthersKept ==
    ASSUME Inv, Grows, KeepsPublished, NEW d \in Calls, call'[d] = call[d]
    PROVE  CallOK(d)'
<1> DEFINE i == call[d].item
<1>1. call[d] \in Progress /\ i \in Items
  BY DEF Inv, CallTypes, Progress
<1>2. CallOK(d)
  BY DEF Inv
<1>3. HasRevision(d)'
  BY <1>1, <1>2 DEF CallOK, HasRevision, Created, Attached, Grows
<1>4. SawPublished(d)'
  BY <1>1, <1>2 DEF CallOK, SawPublished, Grows, KeepsPublished
<1>5. Displaced(d)'
  <2> SUFFICES ASSUME call[d].pc \in {"link", "ok"}, call[d].was
               PROVE  published'[i] # call[d].prev
    BY DEF Displaced
  <2>1. published[i] # call[d].prev /\ revs[i][call[d].prev].frozen
    BY <1>2 DEF CallOK, Displaced, SawPublished
  <2>2. published'[i] # published[i] => ~revs[i][published'[i]].frozen
    BY <1>1 DEF KeepsPublished
  <2> QED
    BY <2>1, <2>2
<1>6. PhaseAgrees(d)'
  BY <1>2 DEF CallOK, PhaseAgrees
<1> QED
  BY <1>3, <1>4, <1>5, <1>6 DEF CallOK

\* So a step of call `c` preserves the invariant if it keeps the types and leaves
\* `c` itself consistent.
LEMMA StepKeeps ==
    ASSUME Inv, Grows, KeepsPublished, RestTypes', NEW c \in Calls,
           NEW new \in Progress, call' = [call EXCEPT ![c] = new], CallOK(c)'
    PROVE  Inv'
<1>1. CallTypes'
  BY DEF Inv, CallTypes
<1>2. ASSUME NEW d \in Calls PROVE CallOK(d)'
  <2>1. CASE d = c
    BY <2>1
  <2>2. CASE d # c
    <3>1. call'[d] = call[d]
      BY <2>2 DEF Inv, CallTypes
    <3> QED
      BY <3>1, OthersKept
  <2> QED
    BY <2>1, <2>2
<1>3. ServerInv'
  BY DEF Grows, KeepsPublished, ServerInv, ServerTypes
<1> QED
  BY <1>1, <1>2, <1>3 DEF Inv
---------------------------------------------------------------------------
(* The steps.                                                                *)

\* Goto changes the phase of one call.
LEMMA GotoStep ==
    ASSUME CallTypes, NEW c \in Calls, NEW pc \in Phases, Goto(c, pc)
    PROVE  LET new == [call[c] EXCEPT !.pc = pc]
           IN  /\ new \in Progress
               /\ call' = [call EXCEPT ![c] = new]
               /\ call'[c] = new
               /\ new.pc = pc /\ new.item = call[c].item /\ new.revise = call[c].revise
               /\ new.tags = call[c].tags /\ new.todo = call[c].todo
               /\ new.prev = call[c].prev /\ new.was = call[c].was
               /\ new.n = call[c].n /\ new.located = call[c].located
BY DEF CallTypes, Progress, Goto

\* What the invariant says of a call and its item.
LEMMA CallFacts ==
    ASSUME Inv, NEW c \in Calls
    PROVE  /\ CallTypes /\ ServerInv /\ RestTypes /\ CallOK(c)
           /\ call[c] \in Progress
           /\ call[c].item \in Items
           /\ revs[call[c].item] \in Seq(Revision)
           /\ published[call[c].item] \in Nat
BY DEF Inv, CallTypes, ServerInv, ServerTypes, Progress

LEMMA BeginKeeps ==
    ASSUME Inv, NEW c \in Calls, NEW i \in Items, NEW revise \in BOOLEAN,
           NEW tags \in TagLists, Begin(c, i, revise, tags)
    PROVE  Inv'
<1> DEFINE new == [call[c] EXCEPT !.pc = IF revise THEN "published" ELSE "create",
                                  !.item = i, !.revise = revise, !.tags = tags,
                                  !.todo = TagsToApply(revise, tags)]
<1>1. call[c] \in Progress
  BY CallFacts
<1>2. tags \in Seq(Tags) /\ TagsToApply(revise, tags) \in Seq(Tags)
  <2>1. tags \in Seq(Tags)
    BY MemoryAssumption DEF Tags
  <2>2. <<Published>> \in Seq(Tags)
    BY DEF Tags
  <2> QED
    BY <2>1, <2>2 DEF TagsToApply
<1>3. new \in Progress
  BY <1>1, <1>2 DEF Progress, Phases
<1>4. call' = [call EXCEPT ![c] = new] /\ UNCHANGED <<server, faults>>
  BY DEF Begin
<1>5. call'[c] = new
  BY <1>4 DEF Inv, CallTypes
<1>6. /\ new.pc = IF revise THEN "published" ELSE "create"
      /\ new.revise = revise /\ new.was = call[c].was
  BY <1>1 DEF Progress
<1>7. ~call[c].was
  BY CallFacts DEF CallOK, PhaseAgrees, Begin
<1>8. Grows /\ KeepsPublished
  BY <1>4, IdleGrows, CallFacts DEF server
<1>9. RestTypes'
  BY <1>4, CallFacts DEF RestTypes, server
<1>10. CallOK(c)'
  BY <1>5, <1>6, <1>7 DEF CallOK, HasRevision, SawPublished, Displaced, PhaseAgrees,
                          Created, Attached
<1> QED
  BY <1>3, <1>4, <1>8, <1>9, <1>10, StepKeeps

LEMMA ReadPublishedKeeps ==
    ASSUME Inv, NEW c \in Calls, ReadPublished(c)
    PROVE  Inv'
<1> DEFINE p == published[call[c].item]
           new == [call[c] EXCEPT !.prev = p, !.was = (p # None),
                                  !.pc = IF p # None THEN "create" ELSE "latest"]
<1>1. call[c] \in Progress /\ p \in Nat /\ call[c].item \in Items
  BY CallFacts
<1>2. new \in Progress
  BY <1>1 DEF Progress, Phases
<1>3. call' = [call EXCEPT ![c] = new] /\ UNCHANGED <<server, faults>>
  BY <1>1 DEF ReadPublished, Progress
<1>4. call'[c] = new
  BY <1>3 DEF Inv, CallTypes
<1>5. /\ new.pc = IF p # None THEN "create" ELSE "latest"
      /\ new.was = (p # None) /\ new.prev = p
      /\ new.revise = call[c].revise /\ new.item = call[c].item
  BY <1>1 DEF Progress
<1>6. call[c].revise
  BY CallFacts DEF CallOK, PhaseAgrees, ReadPublished
<1>7. p # None => p \in DOMAIN revs[call[c].item] /\ revs[call[c].item][p].frozen
  BY <1>1 DEF Inv, ServerInv, PublishedIsFrozen
<1>8. Grows /\ KeepsPublished
  BY <1>3, IdleGrows, CallFacts DEF server
<1>9. RestTypes'
  BY <1>3, CallFacts DEF RestTypes, server
<1>10. CallOK(c)'
  <2> DEFINE here == call'[c]
  <2>1. here.revise /\ here.prev = p /\ here.item = call[c].item
    BY <1>4, <1>5, <1>6
  <2>2. revs' = revs /\ published' = published
    BY <1>3 DEF server
  <2>3. CASE p = None
    <3>1. here.pc = "latest" /\ here.was = FALSE
      BY <1>4, <1>5, <2>3
    <3> QED
      BY <3>1, <2>1 DEF CallOK, HasRevision, SawPublished, Displaced, PhaseAgrees,
                        Created, Attached
  <2>4. CASE p # None
    <3>1. here.pc = "create"
      BY <1>4, <1>5, <2>4
    <3> QED
      BY <3>1, <2>1, <2>2, <2>4, <1>7
         DEF CallOK, HasRevision, SawPublished, Displaced, PhaseAgrees, Created, Attached
  <2> QED
    BY <2>3, <2>4
<1> QED
  BY <1>2, <1>3, <1>8, <1>9, <1>10, StepKeeps

\* Steps that only move a call on: the ones whose RPC had no effect on the item.
LEMMA MovesOn ==
    ASSUME Inv, NEW c \in Calls, NEW pc \in Phases, Goto(c, pc), RestTypes',
           Grows, KeepsPublished,
           pc \in {"artifact", "tags", "publish", "file", "link", "ok"} => Created(c),
           pc \in {"tags", "publish", "file", "link", "ok"} /\ call[c].located =>
               revs'[call[c].item][call[c].n].artifact,
           pc \in {"link", "ok"} /\ call[c].was =>
               published'[call[c].item] # call[c].prev,
           pc = "publish" => call[c].revise /\ call[c].was,
           pc = "file" => ~call[c].revise,
           pc \in {"idle", "published", "latest"} => call[c].revise /\ ~call[c].was
    PROVE  Inv'
<1> DEFINE new == [call[c] EXCEPT !.pc = pc]
           i == call[c].item
<1>1. /\ new \in Progress /\ call' = [call EXCEPT ![c] = new] /\ call'[c] = new
      /\ new.pc = pc /\ new.item = i /\ new.revise = call[c].revise
      /\ new.prev = call[c].prev /\ new.was = call[c].was
      /\ new.n = call[c].n /\ new.located = call[c].located
  BY GotoStep, CallFacts
<1>2. i \in Items /\ CallOK(c)
  BY CallFacts
<1>3. HasRevision(c)'
  BY <1>1, <1>2 DEF CallOK, HasRevision, Created, Attached, Grows
<1>4. SawPublished(c)'
  BY <1>1, <1>2 DEF CallOK, SawPublished, Grows, KeepsPublished
<1>5. /\ call'[c].pc = pc /\ call'[c].was = call[c].was /\ call'[c].item = call[c].item
      /\ call'[c].revise = call[c].revise /\ call'[c].prev = call[c].prev
  BY <1>1
<1>6. Displaced(c)' /\ PhaseAgrees(c)'
  <2>1. pc \in {"link", "ok"} /\ call[c].was => published'[call[c].item] # call[c].prev
    OBVIOUS
  <2>2. Displaced(c)'
    BY ONLY <1>5, <2>1 DEF Displaced
  <2>3. PhaseAgrees(c)'
    BY <1>5 DEF PhaseAgrees
  <2> QED BY <2>2, <2>3
<1>7. CallOK(c)'
  BY <1>3, <1>4, <1>6 DEF CallOK
<1> QED
  BY <1>1, <1>7, StepKeeps

\* The fault counter stays within its bound.
LEMMA FaultCounts ==
    ASSUME RestTypes, Fault
    PROVE  faults' \in 0..MaxFaults
BY MemoryAssumption DEF RestTypes, Fault

LEMMA ReadsKeep ==
    ASSUME Inv, NEW c \in Calls, ReadPublishedFails(c) \/ ReadLatest(c)
    PROVE  Inv'
<1>1. CASE ReadPublishedFails(c)
  <2>1. UNCHANGED server /\ Goto(c, "latest") /\ call[c].pc = "published" /\ Fault
    BY <1>1 DEF ReadPublishedFails
  <2>2. Grows /\ KeepsPublished
    BY <2>1, IdleGrows, CallFacts DEF server
  <2>3. RestTypes'
    BY <2>1, CallFacts, FaultCounts DEF RestTypes, server
  <2>4. call[c].revise /\ ~call[c].was
    BY <2>1, CallFacts DEF CallOK, PhaseAgrees
  <2> QED
    BY <2>1, <2>2, <2>3, <2>4, MovesOn DEF Phases
<1>2. CASE ReadLatest(c)
  <2>1. UNCHANGED server /\ call[c].pc = "latest"
    BY <1>2 DEF ReadLatest
  <2>2. Grows /\ KeepsPublished
    BY <2>1, IdleGrows, CallFacts DEF server
  <2>3. RestTypes'
    BY <1>2, <2>1, CallFacts, FaultCounts DEF RestTypes, server, ReadLatest
  <2>4. call[c].revise /\ ~call[c].was
    BY <2>1, CallFacts DEF CallOK, PhaseAgrees
  <2>5. CASE Goto(c, "create")
    BY <2>1, <2>2, <2>3, <2>4, <2>5, MovesOn DEF Phases
  <2>6. CASE call' = [call EXCEPT ![c].prev = Len(revs[call[c].item]), ![c].pc = "create"]
    <3> DEFINE new == [call[c] EXCEPT !.prev = Len(revs[call[c].item]), !.pc = "create"]
    <3>1. call[c] \in Progress /\ Len(revs[call[c].item]) \in Nat
      BY CallFacts
    <3>2. new \in Progress /\ new.pc = "create" /\ new.was = call[c].was
      BY <3>1 DEF Progress, Phases
    <3>3. call' = [call EXCEPT ![c] = new] /\ call'[c] = new
      BY <2>6 DEF Inv, CallTypes
    <3>4. CallOK(c)'
      BY <3>2, <3>3, <2>4 DEF CallOK, HasRevision, SawPublished, Displaced, PhaseAgrees,
                              Created, Attached
    <3> QED
      BY <2>2, <2>3, <3>2, <3>3, <3>4, StepKeeps
  <2> QED
    BY <1>2, <2>5, <2>6 DEF ReadLatest
<1> QED
  BY <1>1, <1>2

LEMMA CreateKeeps ==
    ASSUME Inv, NEW c \in Calls, Create(c) \/ CreateFails(c)
    PROVE  Inv'
<1> DEFINE i == call[c].item
<1>1. call[c] \in Progress /\ i \in Items /\ call[c].pc = "create" /\ ServerInv
  BY CallFacts DEF Create, CreateFails
<1>2. published' = published
  BY DEF Create, CreateFails
<1>3. CASE Create(c)
  <2>1. /\ Grows /\ KeepsPublished
        /\ Len(revs'[i]) \in DOMAIN revs'[i]
        /\ Len(revs'[i]) = Len(revs[i]) + 1
    BY <1>1, <1>2, <1>3, AppendGrows DEF Create
  <2> DEFINE new == [call[c] EXCEPT !.n = Len(revs'[i]), !.pc = "artifact"]
  <2>2. Len(revs'[i]) \in Nat
    BY <2>1, CallFacts
  <2>3. /\ new \in Progress /\ new.pc = "artifact" /\ new.n = Len(revs'[i])
        /\ new.item = i /\ new.was = call[c].was /\ new.prev = call[c].prev
        /\ new.revise = call[c].revise
    BY <1>1, <2>2 DEF Progress, Phases
  <2>4. call' = [call EXCEPT ![c] = new] /\ call'[c] = new
    BY <1>3 DEF Create, Inv, CallTypes
  <2>5. RestTypes'
    BY <1>3, CallFacts DEF Create, RestTypes
  <2>6. HasRevision(c)' /\ Displaced(c)' /\ PhaseAgrees(c)'
    <3>1. call'[c].pc = "artifact" /\ call'[c].n = Len(revs'[i]) /\ call'[c].item = i
      BY <2>3, <2>4
    <3>2. call'[c].n \in DOMAIN revs'[call'[c].item]
      BY <2>1, <3>1
    <3>3. HasRevision(c)'
      BY ONLY <3>1, <3>2 DEF HasRevision, Attached
    <3>4. Displaced(c)' /\ PhaseAgrees(c)'
      BY ONLY <3>1 DEF Displaced, PhaseAgrees
    <3> QED
      BY <3>3, <3>4
  <2>7. SawPublished(c)'
    <3>1. /\ call'[c].was = call[c].was /\ call'[c].revise = call[c].revise
          /\ call'[c].prev = call[c].prev /\ call'[c].item = i
      BY <2>3, <2>4
    <3>2. SawPublished(c)
      BY CallFacts DEF CallOK
    <3> QED
      BY ONLY <3>1, <3>2, <1>1, <2>1 DEF SawPublished, Grows, KeepsPublished
  <2>8. CallOK(c)'
    BY <2>6, <2>7 DEF CallOK
  <2> QED
    BY <2>1, <2>3, <2>4, <2>5, <2>8, StepKeeps
<1>4. CASE CreateFails(c)
  <2>1. Goto(c, "error") /\ Fault /\ (Append1(i) \/ UNCHANGED revs)
    BY <1>4 DEF CreateFails, Fails
  <2>2. Grows /\ KeepsPublished
    BY <1>1, <1>2, <2>1, AppendGrows, IdleGrows
  <2>3. RestTypes'
    BY <1>4, <2>1, CallFacts, FaultCounts DEF RestTypes, CreateFails
  <2> QED
    BY <2>1, <2>2, <2>3, MovesOn DEF Phases
<1> QED
  BY <1>3, <1>4

LEMMA CreateLostKeeps ==
    ASSUME Inv, NEW c \in Calls, CreateLost(c)
    PROVE  Inv'
<1>1. /\ ServerInv /\ call[c].item \in Items /\ Append1(call[c].item)
      /\ UNCHANGED <<published, members, edges, call>>
  BY CallFacts DEF CreateLost
<1>2. Grows /\ KeepsPublished
  BY <1>1, AppendGrows
<1>3. RestTypes' /\ CallTypes'
  BY <1>1, CallFacts, FaultCounts DEF RestTypes, CallTypes, CreateLost
<1>4. ServerInv'
  BY <1>2 DEF Grows, KeepsPublished, ServerInv, ServerTypes
<1>5. \A d \in Calls : CallOK(d)'
  BY <1>1, <1>2, OthersKept
<1> QED
  BY <1>3, <1>4, <1>5 DEF Inv

LEMMA ArtifactKeeps ==
    ASSUME Inv, NEW c \in Calls, NoLocation(c) \/ Artifact(c) \/ ArtifactFails(c)
    PROVE  Inv'
<1> DEFINE i == call[c].item
           n == call[c].n
<1>1. /\ call[c] \in Progress /\ i \in Items /\ call[c].pc = "artifact"
      /\ ServerInv /\ CallOK(c)
  BY CallFacts DEF NoLocation, Artifact, ArtifactFails
<1>2. n \in DOMAIN revs[i]
  BY <1>1 DEF CallOK, HasRevision, Created
<1>3. CASE NoLocation(c)
  <2> DEFINE new == [call[c] EXCEPT !.located = FALSE, !.pc = "tags"]
  <2>1. /\ new \in Progress /\ new.pc = "tags" /\ new.located = FALSE
        /\ new.item = i /\ new.n = n /\ new.was = call[c].was
        /\ new.prev = call[c].prev /\ new.revise = call[c].revise
    BY <1>1 DEF Progress, Phases
  <2>2. call' = [call EXCEPT ![c] = new] /\ call'[c] = new /\ UNCHANGED server /\ Fault
    BY <1>3 DEF NoLocation, Inv, CallTypes
  <2>3. Grows /\ KeepsPublished
    BY <1>1, <2>2, IdleGrows DEF server
  <2>4. RestTypes'
    BY <2>2, CallFacts, FaultCounts DEF RestTypes, server
  <2>5. CallOK(c)'
    BY <1>1, <1>2, <2>1, <2>2 DEF CallOK, HasRevision, SawPublished, Displaced,
                                  PhaseAgrees, Created, Attached, server
  <2> QED
    BY <2>1, <2>2, <2>3, <2>4, <2>5, StepKeeps
<1>4. CASE Artifact(c)
  <2>1. SetArtifact(c) /\ Goto(c, "tags") /\ published' = published
    BY <1>4 DEF Artifact
  <2>2. Grows /\ KeepsPublished /\ revs'[i][n].artifact
    BY <1>1, <1>2, <2>1, ArtifactGrows
  <2>3. RestTypes'
    BY <1>4, CallFacts DEF RestTypes, Artifact
  <2>4. Created(c)
    BY <1>1 DEF Created
  <2> QED
    BY <2>1, <2>2, <2>3, <2>4, MovesOn DEF Phases
<1>5. CASE ArtifactFails(c)
  <2>1. /\ Goto(c, "error") /\ published' = published
        /\ SetArtifact(c) \/ UNCHANGED revs
    BY <1>5 DEF ArtifactFails, Fails
  <2>2. Grows /\ KeepsPublished
    BY <1>1, <1>2, <2>1, ArtifactGrows, IdleGrows
  <2>3. RestTypes'
    BY <1>5, CallFacts, FaultCounts DEF RestTypes, ArtifactFails, Fails
  <2> QED
    BY <2>1, <2>2, <2>3, MovesOn DEF Phases
<1> QED
  BY <1>3, <1>4, <1>5

\* Attempting a tag, successful or not.
LEMMA AttemptGrows ==
    ASSUME Inv, NEW i \in Items, NEW n \in DOMAIN revs[i], NEW t \in Tags,
           TagRevision(i, n, t) \/ UNCHANGED <<revs, published>>
    PROVE  Grows /\ KeepsPublished
BY TagGrows, IdleGrows DEF Inv

LEMMA TagKeeps ==
    ASSUME Inv, NEW c \in Calls, Tag(c)
    PROVE  Inv'
<1> DEFINE i == call[c].item
           n == call[c].n
           t == Head(call[c].todo)
           new == [call[c] EXCEPT !.todo = Tail(call[c].todo)]
<1>1. /\ call[c] \in Progress /\ i \in Items /\ call[c].pc = "tags"
      /\ ServerInv /\ CallOK(c)
  BY CallFacts DEF Tag
<1>2. n \in DOMAIN revs[i]
  BY <1>1 DEF CallOK, HasRevision, Created
<1>3. call[c].todo \in Seq(Tags) /\ call[c].todo # <<>>
  BY <1>1 DEF Tag, Progress
<1>4. t \in Tags /\ Tail(call[c].todo) \in Seq(Tags)
  BY <1>3
<1>5. /\ new \in Progress /\ new.pc = "tags" /\ new.item = i /\ new.n = n
      /\ new.was = call[c].was /\ new.prev = call[c].prev
      /\ new.revise = call[c].revise /\ new.located = call[c].located
  BY <1>1, <1>4 DEF Progress
<1>6. call' = [call EXCEPT ![c] = new] /\ call'[c] = new
  BY DEF Tag, Inv, CallTypes
<1>7. TagRevision(i, n, t) \/ UNCHANGED <<revs, published>>
  BY DEF Tag, Fails
<1>8. Grows /\ KeepsPublished
  BY <1>1, <1>2, <1>4, <1>7, AttemptGrows
<1>9. RestTypes'
  BY CallFacts, FaultCounts DEF RestTypes, Tag, Fails
<1>10. CallOK(c)'
  BY <1>1, <1>5, <1>6, <1>8 DEF CallOK, HasRevision, SawPublished, Displaced,
                                PhaseAgrees, Created, Attached, Grows, KeepsPublished
<1> QED
  BY <1>5, <1>6, <1>8, <1>9, <1>10, StepKeeps

LEMMA TaggedKeeps ==
    ASSUME Inv, NEW c \in Calls, Tagged(c)
    PROVE  Inv'
<1>1. call[c].pc = "tags" /\ UNCHANGED <<server, faults>> /\ CallOK(c)
  BY CallFacts DEF Tagged
<1>2. Grows /\ KeepsPublished
  BY <1>1, IdleGrows, CallFacts DEF server
<1>3. RestTypes'
  BY <1>1, CallFacts DEF RestTypes, server
<1>4. Created(c) /\ (call[c].located => revs'[call[c].item][call[c].n].artifact)
  BY <1>1 DEF CallOK, HasRevision, Created, Attached, server
<1>5. call[c].was => call[c].revise
  BY <1>1 DEF CallOK, SawPublished
<1>6. CASE ~call[c].revise
  <2>1. Goto(c, "file")
    BY <1>6 DEF Tagged
  <2> QED
    BY <1>2, <1>3, <1>4, <1>6, <2>1, MovesOn DEF Phases
<1>7. CASE call[c].revise /\ call[c].was
  <2>1. Goto(c, "publish")
    BY <1>7 DEF Tagged
  <2> QED
    BY <1>2, <1>3, <1>4, <1>7, <2>1, MovesOn DEF Phases
<1>8. CASE call[c].revise /\ ~call[c].was
  <2>1. Goto(c, "link")
    BY <1>8 DEF Tagged
  <2> QED
    BY <1>2, <1>3, <1>4, <1>8, <2>1, MovesOn DEF Phases
<1> QED
  BY <1>6, <1>7, <1>8

LEMMA PublishKeeps ==
    ASSUME Inv, NEW c \in Calls, Publish(c) \/ PublishFails(c)
    PROVE  Inv'
<1> DEFINE i == call[c].item
           n == call[c].n
<1>1. /\ call[c] \in Progress /\ i \in Items /\ call[c].pc = "publish"
      /\ ServerInv /\ CallOK(c) /\ published[i] \in Nat
  BY CallFacts DEF Publish, PublishFails
<1>2. n \in DOMAIN revs[i] /\ Published \in Tags /\ call[c].revise /\ call[c].was
  BY <1>1 DEF CallOK, HasRevision, Created, PhaseAgrees, Tags
<1>3. CASE Publish(c)
  <2>1. TagRevision(i, n, Published) /\ Goto(c, "link")
    BY <1>3 DEF Publish
  <2>2. Grows /\ KeepsPublished
    BY <1>1, <1>2, <2>1, TagGrows
  <2>3. RestTypes'
    BY <1>3, CallFacts DEF RestTypes, Publish
  <2>4. published'[i] = n
    BY <1>1, <2>1 DEF TagRevision, ServerInv, ServerTypes
  <2>5. n # call[c].prev
    BY <1>1, <1>2, <2>1 DEF TagRevision, CallOK, SawPublished
  <2>6. Created(c) /\ (call[c].located => revs'[i][n].artifact)
    BY <1>1, <1>2, <2>2 DEF CallOK, HasRevision, Created, Attached, Grows
  <2> QED
    BY <2>1, <2>2, <2>3, <2>4, <2>5, <2>6, <1>2, MovesOn DEF Phases
<1>4. CASE PublishFails(c)
  <2>1. /\ Goto(c, "error")
        /\ TagRevision(i, n, Published) \/ UNCHANGED <<revs, published>>
    BY <1>4 DEF PublishFails, Fails
  <2>2. Grows /\ KeepsPublished
    BY <1>2, <1>1, <2>1, AttemptGrows
  <2>3. RestTypes'
    BY <1>4, CallFacts, FaultCounts DEF RestTypes, PublishFails, Fails
  <2> QED
    BY <2>1, <2>2, <2>3, MovesOn DEF Phases
<1> QED
  BY <1>3, <1>4

\* The bundle and the provenance edges are beside the revisions.
LEMMA FileKeeps ==
    ASSUME Inv, NEW c \in Calls, File(c)
    PROVE  Inv'
<1>1. /\ call[c].pc = "file" /\ Goto(c, "link") /\ UNCHANGED <<revs, published>>
      /\ CallOK(c) /\ call[c].item \in Items
  BY CallFacts DEF File
<1>2. Grows /\ KeepsPublished
  BY <1>1, IdleGrows, CallFacts
<1>3. RestTypes'
  BY <1>1, CallFacts, FaultCounts DEF RestTypes, File, Fails
<1>4. Created(c) /\ (call[c].located => revs'[call[c].item][call[c].n].artifact)
  BY <1>1 DEF CallOK, HasRevision, Created, Attached
<1>5. ~call[c].was
  BY <1>1 DEF CallOK, SawPublished, PhaseAgrees
<1> QED
  BY <1>1, <1>2, <1>3, <1>4, <1>5, MovesOn DEF Phases

LEMMA LinkKeeps ==
    ASSUME Inv, NEW c \in Calls, Link(c)
    PROVE  Inv'
<1>1. /\ call[c].pc = "link" /\ Goto(c, "ok") /\ UNCHANGED <<revs, published, members>>
      /\ CallOK(c) /\ call[c].item \in Items /\ call[c] \in Progress
  BY CallFacts DEF Link
<1>2. Grows /\ KeepsPublished
  BY <1>1, IdleGrows, CallFacts
<1>3. faults' \in 0..MaxFaults
  BY CallFacts, FaultCounts DEF RestTypes, Link
<1>4. edges' \subseteq Items \X Nat \X Sources
  <2>1. edges \subseteq Items \X Nat \X Sources
    BY CallFacts DEF RestTypes
  <2>2. call[c].n \in Nat
    BY <1>1 DEF Progress
  <2>3. PICK linked \in SUBSET Sources :
            edges' = edges \cup {<<call[c].item, call[c].n, s>> : s \in linked}
    BY DEF Link
  <2> QED
    BY <1>1, <2>1, <2>2, <2>3
<1>5. RestTypes'
  BY <1>1, <1>3, <1>4, CallFacts DEF RestTypes
<1>6. Created(c) /\ (call[c].located => revs'[call[c].item][call[c].n].artifact)
  BY <1>1 DEF CallOK, HasRevision, Created, Attached
<1>7. call[c].was => published'[call[c].item] # call[c].prev
  BY <1>1 DEF CallOK, Displaced
<1> QED
  BY <1>1, <1>2, <1>5, <1>6, <1>7, MovesOn DEF Phases

LEMMA ApproveKeeps ==
    ASSUME Inv, NEW i \in Items, NEW n \in DOMAIN revs[i], Approve(i, n)
    PROVE  Inv'
<1>1. ServerInv /\ Published \in Tags /\ TagRevision(i, n, Published) /\ call' = call
  BY DEF Inv, Tags, Approve
<1>2. Grows /\ KeepsPublished
  BY <1>1, TagGrows
<1>3. RestTypes' /\ CallTypes'
  BY DEF Inv, RestTypes, CallTypes, Approve
<1>4. ServerInv'
  BY <1>2 DEF Grows, KeepsPublished, ServerInv, ServerTypes
<1>5. \A d \in Calls : CallOK(d)'
  BY <1>1, <1>2, OthersKept
<1> QED
  BY <1>3, <1>4, <1>5 DEF Inv

---------------------------------------------------------------------------
(* The invariant and what follows from it.                                   *)

LEMMA InvInit == Init => Inv
<1> SUFFICES ASSUME Init PROVE Inv
  OBVIOUS
<1>1. Unpublished \in Seq(Revision) /\ Approved \in Seq(Revision)
  <2>1. [NewRevision EXCEPT !.artifact = TRUE] \in Revision
    BY DEF NewRevision, Revision
  <2>2. [artifact |-> TRUE, tags |-> {Published}, frozen |-> TRUE] \in Revision
    BY DEF Revision, Tags
  <2> QED
    BY <2>1, <2>2 DEF Unpublished, Approved
<1>2. /\ DOMAIN Approved = {1} /\ Approved[1].frozen
  BY DEF Approved
<1>3. ServerTypes
  <2>1. <<>> \in Seq(Revision)
    OBVIOUS
  <2>2. {<<>>, Unpublished, Approved} \subseteq Seq(Revision)
    BY <1>1, <2>1
  <2>3. revs \in [Items -> Seq(Revision)]
    BY <2>2 DEF Init
  <2>4. published \in [Items -> Nat]
    BY DEF Init, None
  <2> QED
    BY <2>3, <2>4 DEF ServerTypes
<1>4. PublishedIsFrozen
  BY <1>2 DEF Init, PublishedIsFrozen, None
<1>5. RestTypes
  BY MemoryAssumption DEF Init, RestTypes
<1>6. (CHOOSE i \in Items : TRUE) \in Items
  BY MemoryAssumption
<1>7. CallTypes
  BY <1>6 DEF Init, CallTypes, Progress, Phases, None
<1>8. ASSUME NEW c \in Calls PROVE CallOK(c)
  <2>1. call[c].pc = "idle" /\ ~call[c].was
    BY DEF Init
  <2> QED
    BY <2>1 DEF CallOK, HasRevision, SawPublished, Displaced, PhaseAgrees,
                Created, Attached
<1> QED
  BY <1>3, <1>4, <1>5, <1>7, <1>8 DEF Inv, ServerInv

LEMMA InvNext == Inv /\ [Next]_vars => Inv'
<1> SUFFICES ASSUME Inv, [Next]_vars PROVE Inv'
  OBVIOUS
<1>1. ASSUME NEW c \in Calls, Step(c) PROVE Inv'
  BY <1>1, ReadPublishedKeeps, ReadsKeep, CreateKeeps, CreateLostKeeps, ArtifactKeeps, TagKeeps,
     TaggedKeeps, PublishKeeps, FileKeeps, LinkKeeps DEF Step
<1>2. CASE UNCHANGED vars
  BY <1>2 DEF vars, server, Inv, ServerInv, ServerTypes, PublishedIsFrozen, RestTypes,
              CallTypes, CallOK, HasRevision, SawPublished, Displaced, PhaseAgrees,
              Created, Attached
<1> QED
  BY <1>1, <1>2, BeginKeeps, ApproveKeeps DEF Next

\* The inductive invariant holds in every reachable state, whatever calls run
\* tool_memory_store at once and whichever of their RPCs fail.
THEOREM MemoryInvariant == Spec => []Inv
BY InvInit, InvNext, PTL DEF Spec

\* A store answered without an error has displaced the published revision that it
\* reports as corrected.
THEOREM SuccessIsReal == Spec => []SuccessMeansMoved
<1>1. Inv => SuccessMeansMoved
  BY DEF Inv, CallOK, Displaced, SuccessMeansMoved
<1> QED
  BY <1>1, MemoryInvariant, PTL

\* A memory with an artifact to attach is never frozen by `published` without it.
THEOREM CompleteWhenPublished == Spec => []PublishedIsComplete
<1>1. Inv => PublishedIsComplete
  BY DEF Inv, CallOK, HasRevision, PublishedIsComplete
<1> QED
  BY <1>1, MemoryInvariant, PTL

\* What the invariant says about types covers the type invariant of the runs.
THEOREM MemoryTypes == Spec => []TypeOK
<1>1. Inv => TypeOK
  <2> SUFFICES ASSUME Inv PROVE TypeOK
    OBVIOUS
  <2>1. ASSUME NEW i \in Items PROVE published[i] <= Len(revs[i])
    <3>1. revs[i] \in Seq(Revision) /\ published[i] \in Nat
      BY DEF Inv, ServerInv, ServerTypes
    <3>2. CASE published[i] = None
      BY <3>1, <3>2 DEF None
    <3>3. CASE published[i] # None
      BY <3>1, <3>3 DEF Inv, ServerInv, PublishedIsFrozen
    <3> QED
      BY <3>2, <3>3
  <2>2. \A c \in Calls : Created(c) => call[c].n \in DOMAIN revs[call[c].item]
    BY DEF Inv, CallOK, HasRevision
  <2> QED
    BY <2>1, <2>2 DEF TypeOK, Inv, ServerInv, ServerTypes, RestTypes, CallTypes
<1> QED
  BY <1>1, MemoryInvariant, PTL

---------------------------------------------------------------------------
(* A revise publishes nothing on its own.                                    *)

\* Only the carried-forward tag publishes, and only where one was seen.
LEMMA StepPublishesOnlyTheApproved ==
    ASSUME Inv, Next
    PROVE  PublishesOnlyTheApproved
<1> SUFFICES ASSUME NEW c \in Calls, call[c].revise, call'[c] # call[c],
                    NEW i \in Items, published[i] = None
             PROVE  published'[i] = None
  BY DEF PublishesOnlyTheApproved
<1>2. CASE published' = published
  BY <1>2
<1>4. CASE \E d \in Calls : Tag(d)
  <2>1. PICK d \in Calls : Tag(d)
    BY <1>4
  <2>2. d = c
    BY <2>1 DEF Tag, Inv, CallTypes
  <2>3. CASE ~Skips(c, Head(call[c].todo))
    <3>1. Head(call[c].todo) # Published
      BY <2>3 DEF Skips
    <3> QED
      BY <2>1, <2>2, <3>1 DEF Tag, TagRevision, Fails
  <2> QED
    BY <2>1, <2>2, <2>3 DEF Tag
<1>5. CASE \E d \in Calls : Publish(d) \/ PublishFails(d)
  <2>1. PICK d \in Calls : Publish(d) \/ PublishFails(d)
    BY <1>5
  <2>2. d = c
    BY <2>1 DEF Publish, PublishFails, Goto, Inv, CallTypes
  <2>3. call[c].item \in Items /\ call[c].was /\ published[call[c].item] # None
    BY <2>1, <2>2, CallFacts DEF CallOK, PhaseAgrees, SawPublished, Publish, PublishFails
  <2>4. TagRevision(call[c].item, call[c].n, Published) \/ published' = published
    BY <2>1, <2>2 DEF Publish, PublishFails, Fails
  <2> QED
    BY <2>3, <2>4 DEF TagRevision, Inv, ServerInv, ServerTypes
<1> QED
  BY <1>2, <1>4, <1>5 DEF Next, Step, Begin, ReadPublished, ReadPublishedFails, ReadLatest,
     Create, CreateLost, CreateFails, NoLocation, Artifact, ArtifactFails, Tagged, File, Link,
     Approve, server

\* A call that names the memory it revises publishes nothing that was not published.
THEOREM RevisePublishesNothing == Spec => NothingPublishedOnItsOwn
<1>1. Inv /\ [Next]_vars => [PublishesOnlyTheApproved]_vars
  BY StepPublishesOnlyTheApproved
<1> QED
  BY <1>1, MemoryInvariant, PTL DEF Spec, NothingPublishedOnItsOwn
---------------------------------------------------------------------------
(* The caller's tags.                                                        *)

Held(c) == revs[call[c].item][call[c].n]

Asked(c) == {call[c].tags[k] : k \in DOMAIN call[c].tags}

Remaining(c) == {call[c].todo[k] : k \in DOMAIN call[c].todo}

\* Until its tags' turn comes a revise has all of them to do.
AllToDo(c) ==
    call[c].revise /\ call[c].pc \in {"published", "latest", "create", "artifact"}
        => call[c].todo = call[c].tags

\* Without a fault a tag is still to do or on the revision, unless somebody's approval
\* froze the revision first, and then `published` cannot be moved and the call fails.
Lands(c) ==
    call[c].was /\ faults = 0 =>
        /\ call[c].pc = "tags" /\ ~Held(c).frozen
              => Asked(c) \subseteq {Published} \cup Held(c).tags \cup Remaining(c)
        /\ call[c].pc = "publish" /\ ~Held(c).frozen
              => Asked(c) \subseteq {Published} \cup Held(c).tags
        /\ call[c].pc \in {"link", "ok"} => Asked(c) \subseteq Held(c).tags

Landing == \A c \in Calls : AllToDo(c) /\ Lands(c)

\* In every step revisions only grow.
LEMMA StepGrows ==
    ASSUME Inv, Next
    PROVE  Grows
<1>1. ServerInv
  BY DEF Inv
<1>2. CASE UNCHANGED <<revs, published>>
  BY <1>1, <1>2, IdleGrows
<1>3. ASSUME NEW c \in Calls, Create(c) \/ CreateLost(c) \/ CreateFails(c)
      PROVE  Grows
  <2>1. call[c].item \in Items /\ published' = published
    BY <1>3, CallFacts DEF Create, CreateLost, CreateFails
  <2>2. Append1(call[c].item) \/ UNCHANGED revs
    BY <1>3 DEF Create, CreateLost, CreateFails, Fails
  <2> QED
    BY <1>1, <2>1, <2>2, AppendGrows, IdleGrows
<1>4. ASSUME NEW c \in Calls, Artifact(c) \/ ArtifactFails(c)
      PROVE  Grows
  <2>1. call[c].pc = "artifact" /\ published' = published
    BY <1>4 DEF Artifact, ArtifactFails
  <2>2. SetArtifact(c) \/ UNCHANGED revs
    BY <1>4 DEF Artifact, ArtifactFails, Fails
  <2>3. call[c].item \in Items /\ call[c].n \in DOMAIN revs[call[c].item]
    BY <2>1, CallFacts DEF CallOK, HasRevision, Created
  <2> QED
    BY <1>1, <2>1, <2>2, <2>3, ArtifactGrows, IdleGrows
<1>5. ASSUME NEW c \in Calls, Tag(c) \/ Publish(c) \/ PublishFails(c)
      PROVE  Grows
  <2>1. call[c].pc \in {"tags", "publish"}
    BY <1>5 DEF Tag, Publish, PublishFails
  <2>2. call[c].item \in Items /\ call[c].n \in DOMAIN revs[call[c].item]
    BY <2>1, CallFacts DEF CallOK, HasRevision, Created
  <2>3. CASE Tag(c)
    <3>1. call[c].todo \in Seq(Tags) /\ call[c].todo # <<>>
      BY <2>3, CallFacts DEF Tag, Progress
    <3>2. Head(call[c].todo) \in Tags
      BY <3>1
    <3>3. TagRevision(call[c].item, call[c].n, Head(call[c].todo)) \/ UNCHANGED <<revs, published>>
      BY <2>3 DEF Tag, Fails
    <3> QED
      BY <2>2, <3>2, <3>3, AttemptGrows
  <2>4. CASE Publish(c) \/ PublishFails(c)
    <3>1. Published \in Tags
      BY DEF Tags
    <3>2. TagRevision(call[c].item, call[c].n, Published) \/ UNCHANGED <<revs, published>>
      BY <2>4 DEF Publish, PublishFails, Fails
    <3> QED
      BY <2>2, <3>1, <3>2, AttemptGrows
  <2> QED
    BY <1>5, <2>3, <2>4
<1>6. ASSUME NEW i \in Items, NEW n \in DOMAIN revs[i], Approve(i, n)
      PROVE  Grows
  BY <1>1, <1>6, TagGrows DEF Approve, Tags
<1>7. ASSUME NEW c \in Calls,
             \/ ReadPublished(c) \/ ReadPublishedFails(c) \/ ReadLatest(c) \/ NoLocation(c)
             \/ Tagged(c) \/ File(c) \/ Link(c)
      PROVE  UNCHANGED <<revs, published>>
  BY <1>7 DEF ReadPublished, ReadPublishedFails, ReadLatest, NoLocation, Tagged, File, Link, server
<1>8. ASSUME NEW c \in Calls, Step(c) PROVE Grows
  BY <1>2, <1>3, <1>4, <1>5, <1>7, <1>8 DEF Step
<1>9. ASSUME NEW c \in Calls, NEW i \in Items, NEW revise \in BOOLEAN, NEW tags \in TagLists,
             Begin(c, i, revise, tags)
      PROVE  Grows
  BY <1>2, <1>9 DEF Begin, server
<1> QED
  BY <1>6, <1>8, <1>9 DEF Next

\* Faults are counted, never forgotten.
LEMMA StepFaults ==
    ASSUME Inv, Next, faults' = 0
    PROVE  faults = 0
<1>1. faults \in Nat
  BY MemoryAssumption DEF Inv, RestTypes
<1>2. UNCHANGED faults \/ Fault
  <2>1. ASSUME NEW c \in Calls, Step(c) PROVE UNCHANGED faults \/ Fault
    BY <2>1 DEF Step, ReadPublished, ReadPublishedFails, ReadLatest, Create, CreateLost,
       CreateFails, NoLocation, Artifact, ArtifactFails, Tag, Tagged, Publish, PublishFails,
       File, Link, Fails
  <2> QED
    BY <2>1 DEF Next, Begin, Approve
<1> QED
  BY <1>1, <1>2 DEF Fault

\* What others do takes no tag off and begins no call.
LEMMA OthersLand ==
    ASSUME Inv, Next, NEW d \in Calls, AllToDo(d), Lands(d), call'[d] = call[d]
    PROVE  AllToDo(d)' /\ Lands(d)'
<1>1. AllToDo(d)'
  BY DEF AllToDo
<1>2. ASSUME call[d].pc \in {"tags", "publish", "link", "ok"}
      PROVE  /\ Held(d).frozen => Held(d)'.frozen
             /\ Held(d).tags \subseteq Held(d)'.tags
  <2>1. call[d].item \in Items /\ call[d].n \in DOMAIN revs[call[d].item]
    BY <1>2, CallFacts DEF CallOK, HasRevision, Created
  <2> QED
    BY <2>1, StepGrows DEF Grows, Held
<1>3. Asked(d)' = Asked(d) /\ Remaining(d)' = Remaining(d)
  BY DEF Asked, Remaining
<1>4. Lands(d)'
  <2> SUFFICES ASSUME call[d].was, faults' = 0, call[d].pc \in {"tags", "publish", "link", "ok"}
               PROVE  Lands(d)'
    BY DEF Lands
  <2>1. faults = 0
    BY StepFaults
  <2> QED
    BY <1>2, <1>3, <2>1 DEF Lands
<1> QED
  BY <1>1, <1>4

\* The tags are on the revision of the call that steps.
LEMMA OwnGrows ==
    ASSUME Inv, Next, NEW c \in Calls, Created(c)
    PROVE  /\ revs'[call[c].item][call[c].n].frozen \/ ~Held(c).frozen
           /\ Held(c).tags \subseteq revs'[call[c].item][call[c].n].tags
<1>1. call[c].item \in Items /\ call[c].n \in DOMAIN revs[call[c].item]
  BY CallFacts DEF CallOK, HasRevision
<1> QED
  BY <1>1, StepGrows DEF Grows, Held

\* A call starts with the tags it was given.
LEMMA BeginLands ==
    ASSUME Inv, NEW c \in Calls, NEW i \in Items, NEW revise \in BOOLEAN,
           NEW tags \in TagLists, Begin(c, i, revise, tags)
    PROVE  AllToDo(c)' /\ Lands(c)'
<1>1. call[c] \in Progress /\ ~call[c].was
  BY CallFacts DEF CallOK, PhaseAgrees, Begin
<1>2. /\ ~call'[c].was /\ call'[c].revise = revise /\ call'[c].tags = tags
      /\ call'[c].todo = TagsToApply(revise, tags)
  BY <1>1 DEF Begin, Inv, CallTypes, Progress
<1> QED
  BY <1>2 DEF AllToDo, Lands, TagsToApply

\* Up to the artifact the tags wait.
LEMMA EarlyStepsLand ==
    ASSUME Inv, NEW c \in Calls, AllToDo(c),
           \/ ReadPublished(c) \/ ReadPublishedFails(c) \/ ReadLatest(c) \/ Create(c)
           \/ CreateFails(c) \/ ArtifactFails(c)
    PROVE  AllToDo(c)' /\ Lands(c)'
<1>1. call[c] \in Progress
  BY CallFacts
<1>2. /\ call'[c].tags = call[c].tags /\ call'[c].todo = call[c].todo
      /\ call'[c].revise = call[c].revise
      /\ call'[c].pc \in {"latest", "create", "artifact", "error"}
  BY <1>1 DEF Inv, CallTypes, Progress, ReadPublished, ReadPublishedFails, ReadLatest, Create,
     CreateFails, ArtifactFails, Goto
<1>3. call[c].pc \in {"published", "latest", "create", "artifact"}
  BY DEF ReadPublished, ReadPublishedFails, ReadLatest, Create, CreateFails, ArtifactFails
<1> QED
  BY <1>2, <1>3 DEF AllToDo, Lands

\* Then all of them are to do.
LEMMA ArtifactLands ==
    ASSUME Inv, NEW c \in Calls, AllToDo(c), NoLocation(c) \/ Artifact(c)
    PROVE  AllToDo(c)' /\ Lands(c)'
<1>1. call[c] \in Progress /\ call[c].pc = "artifact" /\ (call[c].was => call[c].revise)
  BY CallFacts DEF CallOK, SawPublished, NoLocation, Artifact
<1>2. /\ call'[c].tags = call[c].tags /\ call'[c].todo = call[c].todo
      /\ call'[c].was = call[c].was /\ call'[c].pc = "tags"
  BY <1>1 DEF Inv, CallTypes, Progress, NoLocation, Artifact, Goto
<1>3. call[c].was => Remaining(c)' = Asked(c)'
  BY <1>1, <1>2 DEF AllToDo, Remaining, Asked
<1> QED
  BY <1>2, <1>3 DEF AllToDo, Lands

\* tag_revision adds its tag.
LEMMA TagAdds ==
    ASSUME ServerInv, NEW i \in Items, NEW n \in DOMAIN revs[i], NEW t, TagRevision(i, n, t)
    PROVE  revs'[i][n].tags = revs[i][n].tags \cup {t}
<1> DEFINE new == [revs[i][n] EXCEPT !.tags = @ \cup {t}, !.frozen = (t = Published)]
<1>1. revs[i] \in Seq(Revision) /\ revs[i][n] \in Revision
  BY DEF ServerInv, ServerTypes
<1>2. revs' = [revs EXCEPT ![i] = [revs[i] EXCEPT ![n] = new]]
  BY <1>1 DEF TagRevision, ServerInv, ServerTypes, Revision
<1>3. new.tags = revs[i][n].tags \cup {t}
  BY <1>1 DEF Revision
<1>4. revs'[i][n] = new
  BY <1>1, <1>2 DEF ServerInv, ServerTypes
<1> QED
  BY <1>3, <1>4

\* A tag that is dealt with is on the revision, or it is `published` itself, or the
\* revision is frozen, or the RPC failed.
LEMMA TagLands ==
    ASSUME Inv, Next, NEW c \in Calls, Lands(c), Tag(c)
    PROVE  AllToDo(c)' /\ Lands(c)'
<1> DEFINE i == call[c].item
           n == call[c].n
           t == Head(call[c].todo)
<1>1. /\ call[c] \in Progress /\ i \in Items /\ call[c].pc = "tags" /\ ServerInv
      /\ n \in DOMAIN revs[i] /\ revs[i] \in Seq(Revision)
  BY CallFacts DEF Tag, CallOK, HasRevision, Created
<1>2. call[c].todo \in Seq(Tags) /\ call[c].todo # <<>>
  BY <1>1 DEF Tag, Progress
<1>3. /\ call'[c].tags = call[c].tags /\ call'[c].todo = Tail(call[c].todo)
      /\ call'[c].was = call[c].was /\ call'[c].pc = "tags"
      /\ call'[c].item = i /\ call'[c].n = n
  BY <1>1 DEF Tag, Inv, CallTypes, Progress
<1>4. AllToDo(c)'
  BY <1>3 DEF AllToDo
<1>5. Remaining(c) \subseteq {t} \cup Remaining(c)'
  <2> SUFFICES ASSUME NEW k \in DOMAIN call[c].todo, k # 1
               PROVE  call[c].todo[k] \in Remaining(c)'
    BY <1>2 DEF Remaining
  <2>1. /\ k - 1 \in DOMAIN Tail(call[c].todo)
        /\ Tail(call[c].todo)[k - 1] = call[c].todo[k]
    BY <1>2
  <2> QED
    BY <1>3, <2>1 DEF Remaining
<1>6. ASSUME call[c].was, faults' = 0, ~Held(c)'.frozen
      PROVE  Asked(c)' \subseteq {Published} \cup Held(c)'.tags \cup Remaining(c)'
  <2>1. faults = 0
    BY <1>6, StepFaults
  <2>2. Held(c)' = revs'[i][n]
    BY <1>3 DEF Held
  <2>3. ~Held(c).frozen /\ Held(c).tags \subseteq Held(c)'.tags
    BY <1>1, <1>6, <2>2, OwnGrows DEF Created
  <2>4. Asked(c) \subseteq {Published} \cup Held(c).tags \cup Remaining(c)
    BY <1>1, <1>6, <2>1, <2>3 DEF Lands
  <2>5. Skips(c, t) \/ TagRevision(i, n, t)
    <3>1. ~revs[i][n].frozen
      BY <2>3 DEF Held
    <3>2. ~Fault
      BY <1>6, <2>1 DEF Fault
    <3> QED
      BY <3>1, <3>2 DEF Tag, Fails
  <2>6. t \in {Published} \cup Held(c)'.tags
    <3>1. CASE Skips(c, t)
      BY <3>1 DEF Skips
    <3>2. CASE TagRevision(i, n, t)
      <4>1. revs'[i][n].tags = revs[i][n].tags \cup {t}
        BY <1>1, <3>2, TagAdds
      <4> QED
        BY <2>2, <4>1
    <3> QED
      BY <2>5, <3>1, <3>2
  <2>7. Asked(c)' = Asked(c)
    BY <1>3 DEF Asked
  <2> QED
    BY <1>5, <2>3, <2>4, <2>6, <2>7
<1>7. Lands(c)'
  BY <1>3, <1>6 DEF Lands
<1> QED
  BY <1>4, <1>7

\* `published` is moved when nothing is left to do; a call that saw a published
\* revision has no other way on.
LEMMA TaggedLands ==
    ASSUME Inv, NEW c \in Calls, Lands(c), Tagged(c)
    PROVE  AllToDo(c)' /\ Lands(c)'
<1>1. /\ call[c] \in Progress /\ call[c].pc = "tags" /\ call[c].todo = <<>>
      /\ call[c].was => call[c].revise
  BY CallFacts DEF Tagged, CallOK, SawPublished
<1>2. /\ call'[c].tags = call[c].tags /\ call'[c].was = call[c].was
      /\ call'[c].item = call[c].item /\ call'[c].n = call[c].n
      /\ call'[c].pc \in {"file", "publish", "link"}
      /\ call[c].was => call'[c].pc = "publish"
      /\ UNCHANGED <<server, faults>>
  BY <1>1 DEF Tagged, Inv, CallTypes, Progress, Goto
<1>3. Remaining(c) = {}
  BY <1>1 DEF Remaining
<1>4. Held(c)' = Held(c) /\ Asked(c)' = Asked(c)
  BY <1>2 DEF Held, Asked, server
<1>5. AllToDo(c)'
  BY <1>2 DEF AllToDo
<1>6. Lands(c)'
  BY <1>1, <1>2, <1>3, <1>4 DEF Lands
<1> QED
  BY <1>5, <1>6

\* The tag that moves last finds the others on the revision.
LEMMA PublishLands ==
    ASSUME Inv, Next, NEW c \in Calls, Lands(c), Publish(c) \/ PublishFails(c)
    PROVE  AllToDo(c)' /\ Lands(c)'
<1> DEFINE i == call[c].item
           n == call[c].n
<1>1. /\ call[c] \in Progress /\ i \in Items /\ call[c].pc = "publish" /\ ServerInv
      /\ n \in DOMAIN revs[i] /\ revs[i] \in Seq(Revision) /\ call[c].was
  BY CallFacts DEF Publish, PublishFails, CallOK, HasRevision, Created, PhaseAgrees
<1>2. CASE Publish(c)
  <2>1. /\ call'[c].tags = call[c].tags /\ call'[c].pc = "link"
        /\ call'[c].item = i /\ call'[c].n = n
    BY <1>1, <1>2 DEF Publish, Inv, CallTypes, Progress, Goto
  <2>2. AllToDo(c)'
    BY <2>1 DEF AllToDo
  <2>3. ASSUME faults' = 0 PROVE Asked(c)' \subseteq Held(c)'.tags
    <3>1. faults = 0 /\ TagRevision(i, n, Published)
      BY <1>2, <2>3, StepFaults DEF Publish
    <3>2. Asked(c) \subseteq {Published} \cup Held(c).tags
      BY <1>1, <3>1 DEF Lands, TagRevision, Held
    <3>3. revs'[i][n].tags = revs[i][n].tags \cup {Published}
      BY <1>1, <3>1, TagAdds
    <3>4. Held(c)' = revs'[i][n] /\ Asked(c)' = Asked(c)
      BY <2>1 DEF Held, Asked
    <3> QED
      BY <3>2, <3>3, <3>4 DEF Held
  <2> QED
    BY <2>1, <2>2, <2>3 DEF Lands
<1>3. CASE PublishFails(c)
  <2>1. call'[c].pc = "error"
    BY <1>1, <1>3 DEF PublishFails, Inv, CallTypes, Progress, Goto
  <2> QED
    BY <2>1 DEF AllToDo, Lands
<1> QED
  BY <1>2, <1>3

\* The last steps leave the revision alone.
LEMMA LastStepsLand ==
    ASSUME Inv, Next, NEW c \in Calls, Lands(c), File(c) \/ Link(c)
    PROVE  AllToDo(c)' /\ Lands(c)'
<1>1. /\ call[c] \in Progress /\ call[c].pc \in {"file", "link"}
      /\ call[c].pc = "file" => ~call[c].was
  BY CallFacts DEF File, Link, CallOK, PhaseAgrees, SawPublished
<1>2. /\ call'[c].tags = call[c].tags /\ call'[c].was = call[c].was
      /\ call'[c].item = call[c].item /\ call'[c].n = call[c].n
      /\ call'[c].pc \in {"link", "ok"} /\ revs' = revs
  BY <1>1 DEF File, Link, Inv, CallTypes, Progress, Goto
<1>3. Held(c)' = Held(c) /\ Asked(c)' = Asked(c)
  BY <1>2 DEF Held, Asked
<1>4. AllToDo(c)'
  BY <1>2 DEF AllToDo
<1>5. Lands(c)'
  BY <1>1, <1>2, <1>3, StepFaults DEF Lands
<1> QED
  BY <1>4, <1>5

LEMMA LandingInit == Init => Landing
<1> SUFFICES ASSUME Init, NEW c \in Calls PROVE AllToDo(c) /\ Lands(c)
  BY DEF Landing
<1>1. call[c].pc = "idle" /\ ~call[c].was
  BY DEF Init
<1> QED
  BY <1>1 DEF AllToDo, Lands

LEMMA LandingNext == Inv /\ Landing /\ [Next]_vars => Landing'
<1> SUFFICES ASSUME Inv, Landing, [Next]_vars PROVE Landing'
  OBVIOUS
<1>1. CASE UNCHANGED vars
  <2>1. UNCHANGED <<revs, call, faults>>
    BY <1>1 DEF vars, server
  <2> SUFFICES ASSUME NEW d \in Calls PROVE AllToDo(d)' /\ Lands(d)'
    BY DEF Landing
  <2>2. AllToDo(d) /\ Lands(d)
    BY DEF Landing
  <2>3. Held(d)' = Held(d) /\ Asked(d)' = Asked(d) /\ Remaining(d)' = Remaining(d)
    BY <2>1 DEF Held, Asked, Remaining
  <2> QED
    BY <2>1, <2>2, <2>3 DEF AllToDo, Lands
<1>2. CASE Next
  <2> SUFFICES ASSUME NEW d \in Calls PROVE AllToDo(d)' /\ Lands(d)'
    BY DEF Landing
  <2>1. AllToDo(d) /\ Lands(d)
    BY DEF Landing
  <2>2. CASE call'[d] = call[d]
    BY <1>2, <2>1, <2>2, OthersLand
  <2>3. CASE call'[d] # call[d]
    <3>1. CASE \E c \in Calls, i \in Items, revise \in BOOLEAN, tags \in TagLists :
                   Begin(c, i, revise, tags)
      <4>1. PICK c \in Calls, i \in Items, revise \in BOOLEAN, tags \in TagLists :
                Begin(c, i, revise, tags)
        BY <3>1
      <4>2. c = d
        BY <2>3, <4>1 DEF Begin, Inv, CallTypes
      <4> QED
        BY <4>1, <4>2, BeginLands
    <3>2. CASE \E c \in Calls : Step(c)
      <4>1. PICK c \in Calls : Step(c)
        BY <3>2
      <4>2. c = d /\ ~CreateLost(c)
        BY <2>3, <4>1 DEF Inv, CallTypes, Step, ReadPublished, ReadPublishedFails, ReadLatest,
           Create, CreateLost, CreateFails, NoLocation, Artifact, ArtifactFails, Tag, Tagged,
           Publish, PublishFails, File, Link, Goto
      <4> QED
        BY <1>2, <2>1, <4>1, <4>2, EarlyStepsLand, ArtifactLands, TagLands, TaggedLands,
           PublishLands, LastStepsLand DEF Step
    <3>3. CASE \E i \in Items : \E n \in DOMAIN revs[i] : Approve(i, n)
      BY <2>3, <3>3 DEF Approve
    <3> QED
      BY <1>2, <3>1, <3>2, <3>3 DEF Next
  <2> QED
    BY <2>2, <2>3
<1> QED
  BY <1>1, <1>2

\* A store that carried `published` forward, in a run without faults, has all the tags
\* of its caller on the revision, whatever other calls and approvals did meanwhile.
THEOREM TagsLand == Spec => []CallerTagsLand
<1>1. Landing => CallerTagsLand
  BY DEF Landing, Lands, CallerTagsLand, Asked, Held
<1> QED
  BY <1>1, LandingInit, LandingNext, MemoryInvariant, PTL DEF Spec
===========================================================================
