------------------------------ MODULE Revisions ------------------------------
(***************************************************************************)
(* The revisions of one item as the Python client keeps them               *)
(* (python/kumiho/{revision,item,artifact,edge}.py over client.py): a      *)
(* Revision object is a copy of what the server answered, taken at some    *)
(* time and edited by the object's own calls; only its `tags` refresh by   *)
(* themselves, when the copy is older than five seconds.  Meanwhile a tool *)
(* call of the MCP server (mcp_server.py) resolves references and works on *)
(* the same revisions, one RPC after another.  The RPC of an object's call *)
(* and the edit of the copy are two steps: others come in between, and an  *)
(* answer that is lost leaves the copy as it was.                          *)
(*                                                                         *)
(* The server is external: it numbers revisions, keeps a tag on at most    *)
(* one revision of the item, and moves `latest` to the newest.  Whether it *)
(* does so when the latest one is deleted depends on its version.  No tag  *)
(* freezes a revision here; module MemoryStore has what `published` does.  *)
(* Metadata is one attribute with an abstract value.                       *)
(***************************************************************************)
EXTENDS Kref, FiniteSets

CONSTANTS
    Objects,     \* Revision objects an application holds
    Tags,        \* tags clients set; `latest` is not one of them
    Values,      \* values of the attribute
    Arts,        \* artifact names
    Queries,     \* queries of the references an application uses
    ToolQueries, \* those of the references given to tools
    Fresh,       \* five seconds, in ticks
    MaxRevs,     \* bound: revisions created
    MaxWrites    \* bound: writes to the server

ASSUME RevisionsAssumption ==
    /\ Latest \notin Tags /\ Tags \subseteq TagTexts
    /\ Arts \subseteq ArtNames
    /\ Nothing \notin Values \cup Arts
    /\ Fresh \in Nat /\ MaxRevs \in Nat \ {0, 1} /\ MaxWrites \in Nat

\* A query is a sequence of pairs; a pair with "=" has a value, however empty.
ASSUME QueriesAssumption ==
    /\ Queries \subseteq Seq([key : STRING, eq : BOOLEAN, value : STRING])
    /\ \A q \in Queries : \A i \in 1..Len(q) : q[i].eq => q[i].value # Nothing

VARIABLES
    revs,    \* server: number -> revision
    latest,  \* server: the revision that carries `latest`, or 0
    edges,   \* server: edges <<source, target>> between revisions
    object,  \* Revision objects
    tool,    \* the tool call under way
    writes

server == <<revs, latest, edges>>
vars == <<server, object, tool, writes>>

NewRevision == [alive |-> TRUE, tags |-> {}, attr |-> Nothing, arts |-> {},
                default |-> Nothing, deprecated |-> FALSE]

Numbers == 1..Len(revs)
Alive(n) == n \in Numbers /\ revs[n].alive
Newest(s) == IF s = {} THEN 0 ELSE CHOOSE n \in s : \A m \in s : m <= n

Published == "published"

Write == writes < MaxWrites /\ writes' = writes + 1

---------------------------------------------------------------------------
(* The server (external): one RPC each. *)

\* The tags as a response lists them.
TagsOf(n) == revs[n].tags \cup (IF n = latest THEN {Latest} ELSE {})

\* GetRevision and ResolveKref: the number a selector resolves to, or 0.
Resolve(sel) ==
    CASE sel.by = "number" /\ Alive(Numerals[sel.what]) -> Numerals[sel.what]
      [] sel.by = "item" \/ (sel.by = "tag" /\ sel.what = Latest) -> latest
      [] sel.by = "tag" /\ sel.what # Latest ->
           Newest({n \in Numbers : Alive(n) /\ sel.what \in revs[n].tags})
      [] OTHER -> 0

CreateRevisionRpc ==
    /\ Len(revs) < MaxRevs
    /\ revs' = Append(revs, NewRevision)
    /\ latest' = Len(revs) + 1
    /\ UNCHANGED edges

TagRevisionRpc(n, t) ==
    /\ Alive(n)
    /\ revs' = [i \in Numbers |->
                  IF i = n THEN [revs[i] EXCEPT !.tags = @ \cup {t}]
                  ELSE [revs[i] EXCEPT !.tags = @ \ {t}]]
    /\ UNCHANGED <<latest, edges>>

UntagRevisionRpc(n, t) ==
    /\ Alive(n)
    /\ revs' = [revs EXCEPT ![n].tags = @ \ {t}]
    /\ UNCHANGED <<latest, edges>>

AttributeRpc(n, v) ==
    /\ Alive(n)
    /\ revs' = [revs EXCEPT ![n].attr = v]
    /\ UNCHANGED <<latest, edges>>

\* One attribute among those of UpdateRevisionMetadata, and its removal.
MetadataRpc(n, v) == AttributeRpc(n, v)
DropAttributeRpc(n) == AttributeRpc(n, Nothing)

DeprecatedRpc(n, b) ==
    /\ Alive(n)
    /\ revs' = [revs EXCEPT ![n].deprecated = b]
    /\ UNCHANGED <<latest, edges>>

DefaultArtifactRpc(n, a) ==
    /\ Alive(n) /\ a \in revs[n].arts
    /\ revs' = [revs EXCEPT ![n].default = a]
    /\ UNCHANGED <<latest, edges>>

CreateArtifactRpc(n, a) ==
    /\ Alive(n) /\ a \notin revs[n].arts
    /\ revs' = [revs EXCEPT ![n].arts = @ \cup {a}]
    /\ UNCHANGED <<latest, edges>>

DeleteArtifactRpc(n, a) ==
    /\ Alive(n) /\ a \in revs[n].arts
    /\ revs' = [revs EXCEPT ![n].arts = @ \ {a}]
    /\ UNCHANGED <<latest, edges>>

\* A deleted revision loses its tags and its edges; older servers leave `latest` unset.
DeleteRevisionRpc(n) ==
    /\ Alive(n)
    /\ revs' = [revs EXCEPT ![n] = [NewRevision EXCEPT !.alive = FALSE]]
    /\ edges' = {e \in edges : n \notin {e[1], e[2]}}
    /\ IF n # latest THEN UNCHANGED latest
       ELSE latest' \in {0, Newest({m \in Numbers : Alive(m)} \ {n})}

CreateEdgeRpc(n, m) ==
    /\ Alive(n) /\ Alive(m)
    /\ edges' = edges \cup {<<n, m>>}
    /\ UNCHANGED <<revs, latest>>

DeleteEdgeRpc(n, m) ==
    /\ <<n, m>> \in edges
    /\ edges' = edges \ {<<n, m>>}
    /\ UNCHANGED <<revs, latest>>

\* TraverseEdges along outgoing edges: what lies in every set of revisions that holds
\* this one and is closed under them.
Reached(n) ==
    {m \in Numbers : \A s \in SUBSET Numbers :
        n \in s /\ (\A e \in edges : e[1] \in s => e[2] \in s) => m \in s}

---------------------------------------------------------------------------
(* Revision objects. *)

\* What a call that has been answered will do to the copy.
NoEdit == [to |-> "none", what |-> Nothing]

NoObject == [num |-> 0, tags |-> {}, latest |-> FALSE, published |-> FALSE, attr |-> Nothing,
             default |-> Nothing, deprecated |-> FALSE, edit |-> NoEdit,
             age |-> 0, wrong |-> 0, edited |-> FALSE, touched |-> FALSE]

\* Revision.__init__, from a response.  History: for how long the copy's tags have not
\* been the server's, and whether since it was taken it was tagged through this object, or
\* its attribute written past it.
Copy(n) == [NoObject EXCEPT
              !.num = n, !.tags = TagsOf(n), !.latest = n = latest,
              !.published = Published \in revs[n].tags, !.attr = revs[n].attr,
              !.default = revs[n].default, !.deprecated = revs[n].deprecated]

Held(o) == object[o].num # 0
Free(o) == object[o].edit = NoEdit   \* no call of this object is under way
Stale(o) == object[o].age > Fresh

\* Item.get_latest_revision: of the revisions listed the one that says it is the latest,
\* or else the highest.
ListedLatest == IF Alive(latest) THEN latest ELSE Newest({n \in Numbers : Alive(n)})

\* client.get_latest_revision and Item.get_revision_by_tag; NOT_FOUND is None.
ByTag(t) == Resolve([NoSelector EXCEPT !.by = "tag", !.what = t])

\* The item's own reference, with a query.
Ref(q) == [scheme |-> TRUE, path |-> <<<<"p">>, <<"s">>, <<"i", "k">>>>, query |-> q]
Selected == [q \in Queries \cup ToolQueries |-> Selects(Ref(q))]

\* The application gets an object: by reference, by tag, or the latest one.
Get(o) ==
    /\ Free(o)
    /\ \E n \in {Resolve(Selected[q]) : q \in Queries} \cup {ByTag(t) : t \in Tags}
               \cup {ByTag(Latest), ListedLatest} :
         /\ n # 0
         /\ object' = [object EXCEPT ![o] = Copy(n)]
    /\ UNCHANGED <<server, tool, writes>>

\* Item.create_revision.
Create(o) ==
    /\ Free(o) /\ Write /\ CreateRevisionRpc
    /\ object' = [object EXCEPT ![o] =
                    [NoObject EXCEPT !.num = Len(revs'), !.tags = {Latest}, !.latest = TRUE]]
    /\ UNCHANGED tool

\* refresh, which raises when the revision is gone.
Refresh(o) ==
    /\ Held(o) /\ Free(o) /\ Alive(object[o].num)
    /\ object' = [object EXCEPT ![o] = Copy(object[o].num)]
    /\ UNCHANGED <<server, tool, writes>>

\* Mutant: the copy is shown whatever its age.
ShownCached(o) == object[o]

\* What the `tags` property shows: the copy, refreshed first when it is stale.
Shown(o) == IF Stale(o) THEN Copy(object[o].num) ELSE object[o]

Shows(o) == Held(o) /\ Free(o) /\ (Stale(o) => Alive(object[o].num))

ReadTags(o) ==
    /\ Shows(o)
    /\ object' = [object EXCEPT ![o] = Shown(o)]
    /\ UNCHANGED <<server, tool, writes>>

\* A call of the object: it sends an RPC, and edits the copy when that is answered.
Calls(o) == Held(o) /\ Free(o) /\ Write /\ UNCHANGED tool

Answered(o, to, what) == object' = [object EXCEPT ![o].edit = [to |-> to, what |-> what]]

\* tag and untag: the copy counts as just fetched, but its `published` stays.
Edited(c) ==
    LET done == [c EXCEPT !.edit = NoEdit]
    IN  CASE c.edit.to = "tag"        -> [done EXCEPT !.tags = @ \cup {c.edit.what},
                                                      !.age = 0, !.edited = TRUE]
          [] c.edit.to = "untag"      -> [done EXCEPT !.tags = @ \ {c.edit.what},
                                                      !.age = 0, !.edited = TRUE]
          [] c.edit.to = "attr"       -> [done EXCEPT !.attr = c.edit.what]
          [] c.edit.to = "default"    -> [done EXCEPT !.default = c.edit.what]
          [] c.edit.to = "deprecated" -> [done EXCEPT !.deprecated = TRUE]
          [] c.edit.to = "restored"   -> [done EXCEPT !.deprecated = FALSE]
          [] OTHER                    -> c

EditCopy(o) ==
    /\ ~Free(o)
    /\ object' = [object EXCEPT ![o] = Edited(@)]
    /\ UNCHANGED <<server, tool, writes>>

\* The RPC takes effect, and its answer may be lost; or the server answers that it did
\* nothing, which these calls do not look at.
Sends(o, rpc, to, what) ==
    /\ Calls(o)
    /\ \/ rpc /\ (Answered(o, to, what) \/ UNCHANGED object)
       \/ UNCHANGED server /\ Answered(o, to, what)

Tag(o, t) == Sends(o, TagRevisionRpc(object[o].num, t), "tag", t)
Untag(o, t) == Sends(o, UntagRevisionRpc(object[o].num, t), "untag", t)
SetDefaultArtifact(o, a) == Sends(o, DefaultArtifactRpc(object[o].num, a), "default", a)
SetDeprecated(o, b) ==
    Sends(o, DeprecatedRpc(object[o].num, b), IF b THEN "deprecated" ELSE "restored", Nothing)

\* The attribute of a revision is written, past every copy of it.
Touched(n) ==
    [o \in Objects |-> IF object[o].num = n THEN [object[o] EXCEPT !.touched = TRUE] ELSE object[o]]

\* set_attribute and delete_attribute: an answer of FALSE edits nothing.
Writes(o, v) ==
    /\ AttributeRpc(object[o].num, v)
    /\ \/ object' = [Touched(object[o].num) EXCEPT ![o].touched = FALSE,
                                                   ![o].edit = [to |-> "attr", what |-> v]]
       \/ object' = Touched(object[o].num)

SetAttribute(o, v) == Calls(o) /\ (Writes(o, v) \/ UNCHANGED <<server, object>>)

\* Mutant: the answer is not looked at.
DeleteAttributeUnchecked(o) ==
    Calls(o) /\ (Writes(o, Nothing) \/ (UNCHANGED server /\ Answered(o, "attr", Nothing)))

DeleteAttribute(o) == Calls(o) /\ (Writes(o, Nothing) \/ UNCHANGED <<server, object>>)

\* set_metadata answers with a new object and leaves this one as it was.
SetMetadata(o, v) ==
    Calls(o) /\ MetadataRpc(object[o].num, v) /\ object' = Touched(object[o].num)

CreateArtifact(o, a) == Calls(o) /\ CreateArtifactRpc(object[o].num, a) /\ UNCHANGED object

\* Artifact.set_default: a fresh object of the revision sets it; this one does not notice.
SetDefaultOfArtifact(o, a) == Calls(o) /\ DefaultArtifactRpc(object[o].num, a) /\ UNCHANGED object

Delete(o) == Calls(o) /\ DeleteRevisionRpc(object[o].num) /\ UNCHANGED object

\* An Artifact object deletes itself.
DeleteOfArtifact(n, a) == Write /\ DeleteArtifactRpc(n, a) /\ UNCHANGED <<object, tool>>

\* create_edge and delete_edge, to another Revision object; an Edge object can delete
\* itself as well.
Relate(o, n) == Calls(o) /\ CreateEdgeRpc(object[o].num, n) /\ UNCHANGED object

DeleteEdge(n, m) == Write /\ DeleteEdgeRpc(n, m) /\ UNCHANGED <<object, tool>>

Unrelate(o, n) == Held(o) /\ Free(o) /\ DeleteEdge(object[o].num, n)

ObjectStep(o) ==
    \/ \E n \in Numbers : Relate(o, n) \/ Unrelate(o, n)
    \/ Get(o) \/ Create(o) \/ Refresh(o) \/ ReadTags(o) \/ EditCopy(o)
    \/ DeleteAttribute(o) \/ Delete(o)
    \/ \E t \in Tags : Tag(o, t) \/ Untag(o, t)
    \/ \E v \in Values : SetAttribute(o, v) \/ SetMetadata(o, v)
    \/ \E a \in Arts : SetDefaultArtifact(o, a) \/ CreateArtifact(o, a) \/ SetDefaultOfArtifact(o, a)
    \/ \E b \in BOOLEAN : SetDeprecated(o, b)

\* Edges and artifacts that the application has got hold of.
PartStep ==
    \/ \E e \in edges : DeleteEdge(e[1], e[2])
    \/ \E n \in Numbers, a \in Arts : DeleteOfArtifact(n, a)

---------------------------------------------------------------------------
(* A tool call: the reference is resolved, then the revision is worked on. *)

IdleTool == [pc |-> "idle", at |-> 0, with |-> 0, deps |-> {}, todo |-> {}, found |-> {},
             skipped |-> {}, ok |-> FALSE]

\* What is remembered of a call that has answered: what it was to report, and has.
Answer(ok) == tool' = [tool EXCEPT !.pc = "done", !.ok = ok, !.at = 0, !.with = 0, !.todo = {}]

\* kumiho.get_revision(kref); a reference to nothing ends the call there.  Which tool it is shows in
\* what it does next.
Begin(q) ==
    /\ tool = IdleTool
    /\ LET n == Resolve(Selected[q])
       IN  n # 0 /\ tool' = [IdleTool EXCEPT !.at = n, !.pc = "act"]
    /\ UNCHANGED <<server, object, writes>>

\* Mutant: a second reference to nothing is worked on.
TargetUnchecked(q) ==
    /\ tool.pc = "act" /\ tool.with = 0
    /\ tool' = [tool EXCEPT !.with = Resolve(Selected[q]), !.pc = "edge"]
    /\ UNCHANGED <<server, object, writes>>

\* The second reference of an edge.
Target(q) ==
    /\ tool.pc = "act" /\ tool.with = 0
    /\ LET n == Resolve(Selected[q])
       IN  tool' = IF n = 0 THEN IdleTool ELSE [tool EXCEPT !.with = n, !.pc = "edge"]
    /\ UNCHANGED <<server, object, writes>>

\* The answer of the RPC may be lost: then the tool's is an error.
Acts(pc) == tool.pc = pc /\ Write /\ (\E ok \in BOOLEAN : Answer(ok))

ActsOn(pc, rpc) == Acts(pc) /\ rpc /\ UNCHANGED object

ToolTagRevision == \E t \in Tags : ActsOn("act", TagRevisionRpc(tool.at, t))
ToolUntagRevision == \E t \in Tags : ActsOn("act", UntagRevisionRpc(tool.at, t))
ToolSetMetadata ==
    Acts("act") /\ (\E v \in Values : MetadataRpc(tool.at, v)) /\ object' = Touched(tool.at)
ToolCreateArtifact == \E a \in Arts : ActsOn("act", CreateArtifactRpc(tool.at, a))
ToolDeleteArtifact == \E a \in Arts : ActsOn("act", DeleteArtifactRpc(tool.at, a))
ToolDeleteRevision == ActsOn("act", DeleteRevisionRpc(tool.at))
ToolCreateEdge == ActsOn("edge", CreateEdgeRpc(tool.at, tool.with))
ToolDeleteEdge == ActsOn("edge", DeleteEdgeRpc(tool.at, tool.with))

\* The server refuses or cannot be reached, and the tool answers so; or it answers without
\* an error that it did nothing, which the tool does not look at.
Refused ==
    /\ tool.pc \in {"act", "edge"}
    /\ \E ok \in BOOLEAN : Answer(ok)
    /\ UNCHANGED <<server, object, writes>>

\* tool_get_provenance_summary: the dependencies at one moment, no more than the limits
\* of depth and number let through ...
Traverse ==
    /\ tool.pc = "act" /\ Alive(tool.at)
    /\ \E deps \in SUBSET (Reached(tool.at) \ {tool.at}) :
         tool' = [tool EXCEPT !.pc = "fetch", !.deps = deps, !.todo = deps, !.found = {tool.at}]
    /\ UNCHANGED <<server, object, writes>>

\* Mutant: a dependency that cannot be fetched ends the call.
FetchOrFail(n) ==
    /\ tool.pc = "fetch" /\ n \in tool.todo
    /\ IF Alive(n) THEN tool' = [tool EXCEPT !.todo = @ \ {n}, !.found = @ \cup {n}]
       ELSE Answer(FALSE)
    /\ UNCHANGED <<server, object, writes>>

\* ... and each of them fetched later.  It is skipped when that fails for whatever reason,
\* and when it has none of the metadata looked for.
Fetch(n) ==
    /\ tool.pc = "fetch" /\ n \in tool.todo
    /\ \/ Alive(n) /\ revs[n].attr # Nothing
          /\ tool' = [tool EXCEPT !.todo = @ \ {n}, !.found = @ \cup {n}]
       \/ tool' = [tool EXCEPT !.todo = @ \ {n},
                               !.skipped = IF Alive(n) THEN @ \cup {n} ELSE @]
    /\ UNCHANGED <<server, object, writes>>

Summarise ==
    /\ tool.pc = "fetch" /\ tool.todo = {}
    /\ Answer(TRUE)
    /\ UNCHANGED <<server, object, writes>>

Return ==
    /\ tool.pc = "done"
    /\ tool' = IdleTool
    /\ UNCHANGED <<server, object, writes>>

ToolStep ==
    \/ \E q \in ToolQueries : Begin(q) \/ Target(q)
    \/ ToolTagRevision \/ ToolUntagRevision \/ ToolSetMetadata \/ ToolDeleteRevision
    \/ ToolCreateArtifact \/ ToolDeleteArtifact \/ ToolCreateEdge \/ ToolDeleteEdge
    \/ Refused \/ Traverse \/ Summarise \/ Return
    \/ \E n \in tool.todo : Fetch(n)

---------------------------------------------------------------------------

\* Time passes; a copy's age counts up to what makes it stale.
Tick ==
    /\ object' = [o \in Objects |->
         LET c == object[o]
             older(k) == IF k > Fresh THEN k ELSE k + 1
         IN  IF ~Held(o) THEN c
             ELSE [c EXCEPT !.age = older(@),
                            !.wrong = IF Alive(c.num) /\ c.tags = TagsOf(c.num) THEN 0
                                      ELSE older(@)]]
    /\ object' # object
    /\ UNCHANGED <<server, tool, writes>>

\* A new item, or one with two revisions.
Init ==
    /\ \E n \in {0, 2} :
         /\ revs = [i \in 1..n |-> NewRevision]
         /\ latest = n
    /\ edges = {}
    /\ object = [o \in Objects |-> NoObject]
    /\ tool = IdleTool
    /\ writes = 0

Next == Tick \/ ToolStep \/ PartStep \/ \E o \in Objects : ObjectStep(o)

Spec == Init /\ [][Next]_vars

---------------------------------------------------------------------------
(* References. *)

\* kref_uri.split("&a=")[0].
BeforeArtifact(query) ==
    LET as == Pairs(query, "a") \ {1}
    IN  IF as = {} THEN query ELSE SubSeq(query, 1, (CHOOSE i \in as : \A j \in as : i <= j) - 1)

\* client.get_artifact_by_kref: the artifact named, or the default of the revision.
ArtifactAt(ref) ==
    LET art == ArtifactOf(ref)
        n == IF art = Nothing THEN Resolve(Selects(ref))
             ELSE Resolve(Read([ref EXCEPT !.query = BeforeArtifact(@)]))
    IN  IF ~Constructs(ref) \/ n = 0 THEN <<0, Nothing>>
        ELSE IF art # Nothing THEN <<n, art>>
        ELSE IF revs[n].default # Nothing THEN <<n, revs[n].default>>
        ELSE <<0, Nothing>>

\* Mutant: whatever is not a numbered reference is looked up as an item, unchecked.
MetadataTargetUnchecked(ref) ==
    IF ref.query # <<>> /\ ref.query[1].key = "r" /\ ref.query[1].eq THEN "revision" ELSE "item"

\* tool_set_metadata: "?r=" makes it a revision; otherwise get_item, whose Kref is checked.
MetadataTarget(ref) ==
    IF ref.query # <<>> /\ ref.query[1].key = "r" /\ ref.query[1].eq THEN "revision"
    ELSE IF Constructs(ref) THEN "item" ELSE Nothing

Reads == [q \in Queries |-> Read(Ref(q))]
CutShort(read) == read.by = "tag" /\ read.what # Latest /\ CutAtEq[read.what] # read.what
Accepted == {q \in Queries : Reads[q] # Rejected /\ ~CutShort(Reads[q])}
Numbered == [q \in Queries |-> Constructs(Ref(q)) /\ Reads[q].by = "number"]
Targets == [q \in Queries |-> MetadataTarget(Ref(q))]

---------------------------------------------------------------------------
(* Properties. *)

Edits ==
    [to : {"tag", "untag"}, what : Tags] \cup [to : {"default"}, what : Arts]
      \cup [to : {"attr"}, what : Values \cup {Nothing}]
      \cup [to : {"none", "deprecated", "restored"}, what : {Nothing}]

TypeOK ==
    /\ revs \in Seq([alive : BOOLEAN, tags : SUBSET Tags,
                     attr : Values \cup {Nothing}, arts : SUBSET Arts,
                     default : Arts \cup {Nothing}, deprecated : BOOLEAN])
    /\ Len(revs) <= MaxRevs
    /\ latest \in {0} \cup {n \in Numbers : Alive(n)}
    /\ \A e \in edges : Alive(e[1]) /\ Alive(e[2])
    /\ \A n, m \in Numbers : n # m => revs[n].tags \cap revs[m].tags = {}
    /\ object \in [Objects -> [num : {0} \cup Numbers, tags : SUBSET (Tags \cup {Latest}),
                     latest : BOOLEAN, published : BOOLEAN,
                     attr : Values \cup {Nothing}, default : Arts \cup {Nothing},
                     deprecated : BOOLEAN, edit : Edits, age : 0..Fresh + 1,
                     wrong : 0..Fresh + 1, edited : BOOLEAN, touched : BOOLEAN]]
    /\ tool.pc \in {"idle", "act", "edge", "fetch", "done"}
    /\ tool.pc \in {"act", "edge", "fetch"} => tool.at \in Numbers
    /\ tool.pc = "edge" => tool.with \in Numbers
    /\ writes \in 0..MaxWrites

\* A reference that the grammar accepts gets the revision it names: the client picks the
\* selectors apart on its own (client.py:1289), the Kref accessors use other patterns
\* (kref.py:841) and a tool looks for "?r=" in the text (mcp_server.py:3391), and they
\* agree with the kernel.  A tag with a "=" in it is the exception: the client cuts it.
ReferencesAgree ==
    \A q \in Accepted :
      LET named == Resolve(Reads[q])
          art == ArtifactAt(Ref(q))
      IN  /\ Resolve(Selected[q]) = named
          /\ art[1] # 0 => art[1] = named /\ Reads[q].art \in {Nothing, art[2]}
          /\ Numbered[q] => RevisionOf(Ref(q)) = Numerals[Reads[q].what]
          /\ Targets[q] = "item" => Reads[q].by = "item"

\* The tags that the property shows were the server's at most five seconds ago, unless
\* this object has tagged or untagged since it was fetched.
TagsAreRecent ==
    \A o \in Objects : Shows(o) => Shown(o).edited \/ Shown(o).wrong <= Fresh

\* revision.py:53: "the ``tags`` property automatically refreshes from the server if
\* the local data might be stale (older than 5 seconds)".  It does not hold: tag and
\* untag make the whole copy count as fresh.
TagsAreAlwaysRecent == \A o \in Objects : Shows(o) => Shown(o).wrong <= Fresh

\* revision.py:69: "published (bool): Whether the revision is published."  It does not
\* hold of an object that has tagged its revision so.
PublishedIsShown ==
    \A o \in Objects : Free(o) /\ Published \in object[o].tags => object[o].published

\* The attribute that an object shows, once its call under way has edited the copy, is
\* the server's, unless since it was taken or last written by this object another has
\* written it, or set_metadata, or a call of this object whose answer was lost: an edit
\* follows no answer of FALSE (revision.py:258, revision.py:291).
AttributeIsTrue ==
    \A o \in Objects :
      LET c == object[o]
      IN  Held(o) /\ Alive(c.num) /\ ~c.touched => Edited(c).attr = revs[c.num].attr

\* After its traversal a provenance summary never fails.  It leaves out only dependencies
\* that are gone, or whose own fetch found nothing to show: a revision deleted or edited
\* in between costs at most its one entry.
ProvenanceIsWhole ==
    tool.pc = "done" =>
      IF tool.ok THEN \A d \in tool.deps \ tool.found : d \in tool.skipped \/ ~Alive(d)
      ELSE tool.deps = {}
===========================================================================
