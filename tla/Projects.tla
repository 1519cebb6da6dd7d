------------------------------ MODULE Projects ------------------------------
(***************************************************************************)
(* Projects, spaces, items and bundles (python/kumiho/{project,space,item, *)
(* bundle}.py over client.py): an application holds a Project object and   *)
(* works through it, while one tool call of the MCP server (mcp_server.py) *)
(* does its work in several RPCs: find the project by name, find the       *)
(* space, create, and set what creation does not.  Any RPC may fail, or    *)
(* take effect and lose its answer.  Permanent deletion is a protocol of   *)
(* two calls: the first returns the impact, the second confirms it.        *)
(*                                                                         *)
(* The server is external.  It keeps names unique, an archived project's   *)
(* included, and destroys a project only on a snapshot of what it holds.   *)
(* A path is a sequence of segments as in Kref; the project's name is the  *)
(* first.  An item's path ends in its name and kind, and is its reference: *)
(* it stays when the item moves to another space, of any project.          *)
(***************************************************************************)
EXTENDS Kref, FiniteSets

CONSTANTS
    Names,       \* names of projects
    Parents,     \* parent paths as callers spell them, the project first
    ItemNames,   \* names of items: sequences of pieces
    Kinds,       \* kinds that callers ask for
    Lower,       \* kind -> the kind in lower case
    MaxProjects, \* bound: projects created
    MaxWrites,   \* bound: writes to the server
    MaxFaults    \* bound: RPCs that fail or lose their answer

ASSUME ProjectsAssumption ==
    /\ Nothing \notin Names
    /\ \A p \in Parents : p # <<>> /\ Trimmed(p) # <<>>
    /\ Kinds \subseteq DOMAIN Lower
    /\ {MaxProjects, MaxWrites, MaxFaults} \subseteq Nat

VARIABLES
    projects,   \* server: id -> project
    spaces,     \* server: paths of spaces below a project
    items,      \* server: path -> item, and the space where it lies now
    members,    \* server: <<bundle's path, member's path>>
    snapshots,  \* server: impact snapshots, in the order of their analysis
    guards,     \* server: projects with an unresolved deletion guard
    app,        \* the application's Project object and the impacts it was given
    tool,       \* the tool call under way
    seen,       \* the impacts its caller was given, by this call and earlier ones
    writes, faults

server == <<projects, spaces, items, members, snapshots, guards>>
vars == <<server, app, tool, seen, writes, faults>>

Bundle == "bundle"
ReservedKinds == {Bundle}

\* Names that the grammar takes; one that it refuses makes no reference.
ASSUME NamesAssumption ==
    /\ Parents \subseteq Seq(Seq(STRING)) /\ ItemNames \subseteq Seq(STRING)
    /\ Kinds \cup {Bundle} \subseteq STRING
    /\ \A q \in Parents : \A i \in 1..Len(Trimmed(q)) :
         SegmentOk(Trimmed(q)[i]) /\ ~Traverses(Trimmed(q)[i])
    /\ \A name \in ItemNames, kind \in Kinds \cup {Bundle} :
         name # <<>> /\ SegmentOk(name \o <<kind>>) /\ ~Traverses(name \o <<kind>>)

Ids == 1..Len(projects)
Exists(p) == p \in Ids /\ projects[p].status \in {"active", "archived"}
Named(name, statuses) == {p \in Ids : projects[p].name = name /\ projects[p].status \in statuses}
One(s) == IF s = {} THEN 0 ELSE CHOOSE p \in s : TRUE

NameOf(path) == path[1][1]
Under(path, p) == Exists(p) /\ NameOf(path) = projects[p].name
ParentExists(path) ==
    /\ Named(NameOf(path), {"active"}) # {}
    /\ Len(path) > 1 => path \in spaces
Within(path, space) == Len(path) > Len(space) /\ SubSeq(path, 1, Len(space)) = space
LeafPath(parent, name, kind) == Trimmed(parent) \o <<name \o <<kind>>>>

\* What an impact lists: the descendants of a project.
Held(p) == {i \in DOMAIN items : Under(items[i].at, p)}
Content(p) == {s \in spaces : Under(s, p)} \cup Held(p)

Write == writes < MaxWrites /\ writes' = writes + 1

---------------------------------------------------------------------------
(* The server (external). *)

CreateProjectRpc(name) ==
    /\ Len(projects) < MaxProjects
    /\ Named(name, {"active", "archived"}) = {}
    /\ projects' = Append(projects, [name |-> name, status |-> "active", public |-> FALSE])
    /\ UNCHANGED <<spaces, items, members, snapshots, guards>>

UpdateProjectRpc(p, field, value) ==
    /\ Exists(p)
    /\ projects' = IF field = "public" THEN [projects EXCEPT ![p].public = value]
                   ELSE [projects EXCEPT ![p].status = value]
    /\ UNCHANGED <<spaces, items, members, snapshots, guards>>

AnalyzeProjectDeletionRpc(p) ==
    /\ Exists(p)
    /\ snapshots' = Append(snapshots, [project |-> p, content |-> Content(p)])
    /\ UNCHANGED <<projects, spaces, items, members, guards>>

DropItems(gone) ==
    /\ items' = [i \in DOMAIN items \ gone |-> items[i]]
    /\ members' = {m \in members : m[1] \notin gone /\ m[2] \notin gone}

Destroy(p, how) ==
    /\ projects' = [projects EXCEPT ![p].status = how]
    /\ spaces' = {s \in spaces : ~Under(s, p)}
    /\ DropItems(Held(p))
    /\ guards' = guards \ {p}
    /\ UNCHANGED snapshots

\* The project archived, the snapshot its own and still what the project holds, no guard.
Accepts(p, snap, confirmed) ==
    /\ p \in Ids /\ projects[p].status = "archived" /\ p \notin guards /\ confirmed
    /\ snap \in 1..Len(snapshots)
    /\ snapshots[snap] = [project |-> p, content |-> Content(p)]

HardDeleteProjectRpc(p, snap, confirmed) ==
    Accepts(p, snap, confirmed) /\ Destroy(p, "destroyed")

DeleteProjectRpc(p, force) ==
    IF force THEN Exists(p) /\ Destroy(p, "forced") ELSE UpdateProjectRpc(p, "status", "archived")

GuardRpc(p, set) ==
    /\ Exists(p)
    /\ guards' = IF set THEN guards \cup {p} ELSE guards \ {p}
    /\ UNCHANGED <<projects, spaces, items, members, snapshots>>

CreateSpaceRpc(parent, segment) ==
    /\ ParentExists(Trimmed(parent))
    /\ LET path == Append(Trimmed(parent), segment)
       IN  path \notin spaces /\ spaces' = spaces \cup {path}
    /\ UNCHANGED <<projects, items, members, snapshots, guards>>

NewItem(made, space) == [made |-> made, at |-> space, meta |-> FALSE, deprecated |-> FALSE]

CreateRpc(path, made) ==
    /\ ParentExists(Front(path)) /\ path \notin DOMAIN items
    /\ items' = [i \in DOMAIN items \cup {path} |->
                   IF i = path THEN NewItem(made, Front(path)) ELSE items[i]]
    /\ UNCHANGED <<projects, spaces, members, snapshots, guards>>

CreateItemRpc(parent, name, kind) == CreateRpc(LeafPath(parent, name, kind), "item")
CreateBundleRpc(parent, name) == CreateRpc(LeafPath(parent, name, Bundle), Bundle)

UpdateItemRpc(path, field) ==
    /\ path \in DOMAIN items
    /\ items' = IF field = "meta" THEN [items EXCEPT ![path].meta = TRUE]
                ELSE [items EXCEPT ![path].deprecated = ~@]
    /\ UNCHANGED <<projects, spaces, members, snapshots, guards>>

DeleteItemRpc(path) ==
    /\ path \in DOMAIN items
    /\ DropItems({path})
    /\ UNCHANGED <<projects, spaces, snapshots, guards>>

DeleteSpaceRpc(path, force) ==
    LET inside == {i \in DOMAIN items : items[i].at = path \/ Within(items[i].at, path)}
    IN  /\ path \in spaces
        /\ force \/ (inside = {} /\ ~\E s \in spaces : Within(s, path))
        /\ spaces' = {s \in spaces : s # path /\ ~Within(s, path)}
        /\ DropItems(inside)
        /\ UNCHANGED <<projects, snapshots, guards>>

\* To a space of another project; the reference stays, and so the bundles that hold it.
MoveItemRpc(path, space) ==
    /\ path \in DOMAIN items /\ ParentExists(space)
    /\ NameOf(space) # NameOf(items[path].at)
    /\ items' = [items EXCEPT ![path].at = space]
    /\ UNCHANGED <<projects, spaces, members, snapshots, guards>>

AddMemberRpc(bundle, item) ==
    /\ {bundle, item} \subseteq DOMAIN items /\ bundle # item
    /\ <<bundle, item>> \notin members
    /\ members' = members \cup {<<bundle, item>>}
    /\ UNCHANGED <<projects, spaces, items, snapshots, guards>>

RemoveMemberRpc(bundle, item) ==
    /\ <<bundle, item>> \in members
    /\ members' = members \ {<<bundle, item>>}
    /\ UNCHANGED <<projects, spaces, items, snapshots, guards>>

---------------------------------------------------------------------------
(* Paths as the objects build them. *)

\* client.create_item refuses a reserved kind, in whatever case.
Reserved(kind) == Lower[kind] \in ReservedKinds

Ref(path) == [scheme |-> TRUE, path |-> path, query |-> <<>>]

\* client.get_item_by_kref: the path the server looks up, or <<>> for a bad reference.
ByKref(ref) == IF Constructs(ref) /\ Splits(ref) THEN ServerItemKey(ItemRequest(ref)) ELSE <<>>

\* Mutant: the parent as it came.
ProjectGetItemUntrimmed(parent, name, kind) == ByKref(Ref(parent \o <<name \o <<kind>>>>))

\* Project.get_item and Project.get_bundle: a reference put together from the parent.
ProjectGetItem(parent, name, kind) == ByKref(Ref(LeafPath(parent, name, kind)))

\* Project.get_bundle: the reference to it, and nothing but a bundle is answered.
ProjectGetBundle(parent, name) ==
    LET path == ByKref(Ref(LeafPath(parent, name, Bundle)))
    IN  IF path \in DOMAIN items /\ Last(Last(path)) = Bundle THEN path ELSE <<>>

SpaceGetBundle(space, name) == ProjectGetBundle(space, name)

\* Space.get_item: no reference, the path of the space.
SpaceGetItem(space, name, kind) == LeafPath(space, name, kind)

\* What a Space object makes in itself.
SpaceCreatesSpace(space, segment) == space # <<>> /\ CreateSpaceRpc(space, segment)
SpaceCreatesItem(space, name, kind) == ~Reserved(kind) /\ CreateItemRpc(space, name, kind)
SpaceCreatesBundle(space, name) == CreateBundleRpc(space, name)

\* Item.get_space: read back from the reference.
ItemGetSpace(path) == <<ProjectOf(Ref(path))>> \o SpaceOf(Ref(path))

\* Space.get_parent_space; none above the first segment.
ParentSpace(space) == IF Len(space) <= 1 THEN <<>> ELSE Front(space)

\* client.get_project: the first of that name; archived ones only when asked for.
Find(name, archived) ==
    One(Named(name, IF archived THEN {"active", "archived"} ELSE {"active"}))

---------------------------------------------------------------------------
(* The application, one RPC at a time. *)

NoProject == [id |-> 0, archived |-> FALSE, impacts |-> {}]

AppGets ==
    /\ writes < MaxWrites
    /\ \E name \in Names, archived \in BOOLEAN :
         LET p == Find(name, archived)
         IN  p # 0 /\ app' = [app EXCEPT !.id = p, !.archived = projects[p].status = "archived"]
    /\ UNCHANGED <<server, tool, seen, writes, faults>>

AppWrites == app.id # 0 /\ Write /\ UNCHANGED <<tool, seen, faults>>

Deprecate == AppWrites /\ UpdateProjectRpc(app.id, "status", "archived")
                       /\ app' = [app EXCEPT !.archived = TRUE]
Restore == AppWrites /\ UpdateProjectRpc(app.id, "status", "active")
                     /\ app' = [app EXCEPT !.archived = FALSE]
SetPublic == AppWrites /\ UpdateProjectRpc(app.id, "public", TRUE) /\ UNCHANGED app
ForceDelete == AppWrites /\ DeleteProjectRpc(app.id, TRUE) /\ UNCHANGED app
Guard == AppWrites /\ (\E set \in BOOLEAN : GuardRpc(app.id, set)) /\ UNCHANGED app

AnalyzeDeletion ==
    /\ AppWrites /\ AnalyzeProjectDeletionRpc(app.id)
    /\ app' = [app EXCEPT !.impacts = @ \cup {Len(snapshots')}]

\* Project.hard_delete, with an impact of this project that it was given.
HardDelete ==
    /\ AppWrites
    /\ \E snap \in app.impacts :
         snapshots[snap].project = app.id /\ HardDeleteProjectRpc(app.id, snap, TRUE)
    /\ UNCHANGED app

AppCreatesProject == /\ Write /\ (\E name \in Names : CreateProjectRpc(name))
                     /\ app' = [app EXCEPT !.id = Len(projects'), !.archived = FALSE]
                     /\ UNCHANGED <<tool, seen, faults>>

AppCreatesSpace ==
    /\ AppWrites
    /\ \E parent \in Parents, path \in {Trimmed(q) : q \in Parents} :
         /\ Trimmed(parent) = ParentSpace(path)
         /\ CreateSpaceRpc(parent, Last(path)) \/ SpaceCreatesSpace(Trimmed(parent), Last(path))
    /\ UNCHANGED app

AppCreatesItem ==
    /\ AppWrites
    /\ \E parent \in Parents, name \in ItemNames, kind \in Kinds :
         ~Reserved(kind) /\ CreateItemRpc(parent, name, kind)
    /\ UNCHANGED app

AppCreatesBundle ==
    /\ AppWrites
    /\ \E parent \in Parents, name \in ItemNames : CreateBundleRpc(parent, name)
    /\ UNCHANGED app

AppMovesItem ==
    /\ AppWrites
    /\ \E i \in DOMAIN items, q \in Parents : MoveItemRpc(i, Trimmed(q))
    /\ UNCHANGED app

AppDeletesItem == AppWrites /\ (\E i \in DOMAIN items : DeleteItemRpc(i)) /\ UNCHANGED app

\* Item.set_metadata and Item.set_deprecated.
AppSetsMetadata ==
    AppWrites /\ (\E i \in DOMAIN items : UpdateItemRpc(i, "meta")) /\ UNCHANGED app

AppDeprecatesItem ==
    AppWrites /\ (\E i \in DOMAIN items : UpdateItemRpc(i, "deprecated")) /\ UNCHANGED app

\* Bundle.add_member and Bundle.remove_member.
AppAddsMember ==
    /\ AppWrites
    /\ \E b, i \in DOMAIN items : items[b].made = Bundle /\ AddMemberRpc(b, i)
    /\ UNCHANGED app

AppRemovesMember ==
    AppWrites /\ (\E m \in members : RemoveMemberRpc(m[1], m[2])) /\ UNCHANGED app

AppDeletesSpace ==
    /\ AppWrites
    /\ \E s \in spaces, force \in BOOLEAN : DeleteSpaceRpc(s, force)
    /\ UNCHANGED app

AppStep ==
    \/ AppGets \/ Deprecate \/ Restore \/ SetPublic \/ ForceDelete \/ Guard
    \/ AnalyzeDeletion \/ HardDelete \/ AppCreatesProject \/ AppCreatesSpace
    \/ AppCreatesItem \/ AppCreatesBundle \/ AppMovesItem \/ AppDeletesItem \/ AppDeletesSpace
    \/ AppSetsMetadata \/ AppDeprecatesItem \/ AppAddsMember \/ AppRemovesMember

---------------------------------------------------------------------------
(* A tool call. *)

IdleTool == [pc |-> "idle", op |-> Nothing, path |-> <<>>, with |-> <<>>, flag |-> FALSE,
             id |-> 0, snap |-> 0, did |-> {}, report |-> FALSE, ok |-> FALSE]

\* What a call has to have done when it answers that it did it.
Promised(t) ==
    CASE t.op = "create_project" -> {"created"} \cup (IF t.flag THEN {"public"} ELSE {})
      [] t.op = "create_item"    -> {"created"} \cup (IF t.flag THEN {"meta"} ELSE {})
      [] t.op \in {"create_space", "create_bundle"} -> {"created"}
      [] t.op = "delete_project" ->
           {IF t.snap # 0 THEN "destroyed" ELSE IF t.flag THEN "analyzed" ELSE "archived"}
      [] t.op \in {"delete_space", "delete_item"} -> {"deleted"}
      [] OTHER -> {"updated"}

Fault == faults < MaxFaults /\ faults' = faults + 1
\* The answer is an error: nothing of the call is left to tell.
Fail == tool' = IdleTool

\* A write took effect: the call goes on, or its answer was lost.
Wrote(did, next) ==
    /\ Write /\ UNCHANGED <<app, seen>>
    /\ \/ tool' = [next EXCEPT !.did = @ \cup did] /\ UNCHANGED faults
       \/ Fault /\ Fail

Goes(next) == tool' = next /\ UNCHANGED <<server, app, seen, writes, faults>>

At(pc) == [tool EXCEPT !.pc = pc]
Answer == [tool EXCEPT !.pc = "done", !.ok = TRUE]
Refusal == IdleTool

\* The answer of a deletion, of a deprecation and of a change of members carries a status.
\* Saying no raises nothing, and no tool reads it.
Declined ==
    /\ Fault /\ tool' = [Answer EXCEPT !.did = {"declined"}]
    /\ UNCHANGED <<server, app, seen, writes>>

\* No call begins that has no write left (a bound).
Call(record) == tool = IdleTool /\ writes < MaxWrites /\ Goes(record)

\* flag: allow_public, metadata given, or force.  snap: the impact being confirmed.
CallTool ==
    \/ \E name \in Names, flag \in BOOLEAN :
         Call([IdleTool EXCEPT !.pc = "create", !.op = "create_project",
                               !.path = <<<<name>>>>, !.flag = flag])
    \/ \E op \in {"create_space", "create_bundle", "create_item"}, q \in Parents,
          flag \in BOOLEAN :
         /\ flag => op = "create_item"
         /\ Call([IdleTool EXCEPT !.pc = "find", !.op = op, !.path = Trimmed(q), !.flag = flag])
    \/ \E name \in Names, snap \in seen \cup {0}, flag \in BOOLEAN :
         /\ snap # 0 => flag
         /\ Call([IdleTool EXCEPT !.pc = "find", !.op = "delete_project",
                                  !.path = <<<<name>>>>, !.flag = flag, !.snap = snap])
    \/ \E s \in spaces, flag \in BOOLEAN :
         Call([IdleTool EXCEPT !.pc = "find", !.op = "delete_space", !.path = s, !.flag = flag])
    \/ \E op \in {"delete_item", "deprecate_item"}, i \in DOMAIN items :
         Call([IdleTool EXCEPT !.pc = "item", !.op = op, !.path = i])
    \/ \E op \in {"add_member", "remove_member"}, b \in DOMAIN items, i \in DOMAIN items :
         /\ items[b].made = Bundle
         /\ Call([IdleTool EXCEPT !.pc = "bundle", !.op = op, !.path = b, !.with = i])

\* Mutant: whether a project was found is not looked at.
FindProjectUnchecked ==
    /\ tool.pc = "find"
    /\ Goes([tool EXCEPT !.id = Find(NameOf(tool.path), tool.op = "delete_project" /\ tool.flag),
                !.pc = CASE tool.op = "delete_project" -> "delete"
                         [] tool.op = "create_space" -> "create"
                         [] OTHER -> "space"])

\* kumiho.get_project; archived ones only for a permanent deletion.
FindProject ==
    /\ tool.pc = "find"
    /\ LET p == Find(NameOf(tool.path), tool.op = "delete_project" /\ tool.flag)
       IN  Goes(IF p = 0 THEN Refusal
                ELSE [tool EXCEPT !.id = p,
                        !.pc = CASE tool.op = "delete_project" -> "delete"
                                 [] tool.op = "create_space" -> "create"
                                 [] OTHER -> "space"])

\* project.get_space.
FindSpace ==
    /\ tool.pc = "space"
    /\ Goes(IF ~ParentExists(tool.path) THEN Refusal
            ELSE At(IF tool.op = "delete_space" THEN "delete" ELSE "create"))

\* kumiho.get_bundle, which fetches the item twice, and kumiho.get_item.
FindBundle ==
    /\ tool.pc \in {"bundle", "again"}
    /\ Goes(IF tool.path \notin DOMAIN items THEN Refusal
            ELSE At(IF tool.pc = "bundle" THEN "again" ELSE "item"))

FindItem ==
    /\ tool.pc = "item"
    /\ Goes(IF (IF tool.with = <<>> THEN tool.path ELSE tool.with) \in DOMAIN items
            THEN At("act") ELSE Refusal)

ToolCreateProject ==
    /\ tool.pc = "create" /\ tool.op = "create_project"
    /\ CreateProjectRpc(NameOf(tool.path))
    /\ Wrote({"created"}, IF tool.flag THEN [tool EXCEPT !.pc = "extra", !.id = Len(projects')]
                          ELSE [Answer EXCEPT !.id = Len(projects')])

\* project.set_public; what is reported is the project as it was created.
ToolSetPublic ==
    /\ tool.pc = "extra" /\ tool.op = "create_project"
    /\ UpdateProjectRpc(tool.id, "public", TRUE)
    /\ Wrote({"public"}, Answer)

ToolCreateSpace ==
    /\ tool.pc = "create" /\ tool.op = "create_space"
    /\ \E path \in {Trimmed(q) : q \in Parents} :
         ParentSpace(path) = tool.path /\ CreateSpaceRpc(tool.path, Last(path))
    /\ Wrote({"created"}, Answer)

\* space.create_item; then item.set_metadata.
ToolCreateItem ==
    /\ tool.pc = "create" /\ tool.op = "create_item"
    /\ \E name \in ItemNames, kind \in Kinds :
         /\ SpaceCreatesItem(tool.path, name, kind)
         /\ Wrote({"created"}, IF ~tool.flag THEN Answer
                               ELSE [tool EXCEPT !.pc = "extra",
                                                 !.path = LeafPath(@, name, kind)])

\* Mutant: an item without its metadata is good enough.
ToolSetMetadataOrNot ==
    /\ tool.pc = "extra" /\ tool.op = "create_item"
    /\ \/ UpdateItemRpc(tool.path, "meta") /\ Wrote({"meta"}, Answer)
       \/ tool.path \notin DOMAIN items /\ Goes(Answer)

ToolSetMetadata ==
    /\ tool.pc = "extra" /\ tool.op = "create_item"
    /\ UpdateItemRpc(tool.path, "meta")
    /\ Wrote({"meta"}, Answer)

ToolCreateBundle ==
    /\ tool.pc = "create" /\ tool.op = "create_bundle"
    /\ \E name \in ItemNames : SpaceCreatesBundle(tool.path, name)
    /\ Wrote({"created"}, Answer)

ToolDeletes == tool.pc = "delete" /\ tool.op = "delete_project"

ToolArchiveProject ==
    /\ ToolDeletes /\ ~tool.flag
    /\ (DeleteProjectRpc(tool.id, FALSE) /\ Wrote({"archived"}, Answer)) \/ Declined

\* Without a confirmation the answer is the impact: its caller has seen it.
ToolAnalyze ==
    /\ ToolDeletes /\ tool.flag /\ tool.snap = 0
    /\ Write /\ AnalyzeProjectDeletionRpc(tool.id)
    /\ \/ /\ tool' = [Answer EXCEPT !.did = {"analyzed"}]
          /\ seen' = seen \cup {Len(snapshots')}
          /\ UNCHANGED faults
       \/ Fault /\ Fail /\ UNCHANGED seen
    /\ UNCHANGED app

\* Mutant: the impact is analyzed anew and confirmed at once.
ToolHardDeleteAnew ==
    /\ ToolDeletes /\ tool.snap # 0
    /\ projects[tool.id].status = "archived" /\ tool.id \notin guards
    /\ Destroy(tool.id, "destroyed")
    /\ Wrote({"destroyed"}, Answer)

\* The impact is put together from the project found now and the caller's snapshot, so
\* that Project.hard_delete cannot find it to be another project's; the server can.
ToolHardDelete ==
    /\ ToolDeletes /\ tool.snap # 0
    /\ (HardDeleteProjectRpc(tool.id, tool.snap, TRUE) /\ Wrote({"destroyed"}, Answer)) \/ Declined

ToolDeleteSpace ==
    /\ tool.pc = "delete" /\ tool.op = "delete_space"
    /\ (DeleteSpaceRpc(tool.path, tool.flag) /\ Wrote({"deleted"}, Answer)) \/ Declined

ToolDeleteItem ==
    /\ tool.pc = "act" /\ tool.op = "delete_item"
    /\ (DeleteItemRpc(tool.path) /\ Wrote({"deleted"}, Answer)) \/ Declined

ToolDeprecateItem ==
    /\ tool.pc = "act" /\ tool.op = "deprecate_item"
    /\ (UpdateItemRpc(tool.path, "deprecated") /\ Wrote({"updated"}, Answer)) \/ Declined

ToolAddMember ==
    /\ tool.pc = "act" /\ tool.op = "add_member"
    /\ (AddMemberRpc(tool.path, tool.with) /\ Wrote({"updated"}, Answer)) \/ Declined

ToolRemoveMember ==
    /\ tool.pc = "act" /\ tool.op = "remove_member"
    /\ (RemoveMemberRpc(tool.path, tool.with) /\ Wrote({"updated"}, Answer)) \/ Declined

\* Any RPC may fail, a refusal by the server included: the exception is the answer.
RpcFails ==
    /\ tool.pc \notin {"idle", "done"}
    /\ Fault /\ Fail
    /\ UNCHANGED <<server, app, seen, writes>>

Return == tool.pc = "done" /\ Goes(IdleTool)

ToolStep ==
    \/ CallTool \/ FindProject \/ FindSpace \/ FindBundle \/ FindItem
    \/ ToolCreateProject \/ ToolSetPublic \/ ToolCreateSpace \/ ToolCreateItem
    \/ ToolSetMetadata \/ ToolCreateBundle \/ ToolArchiveProject \/ ToolAnalyze
    \/ ToolHardDelete \/ ToolDeleteSpace \/ ToolDeleteItem \/ ToolDeprecateItem
    \/ ToolAddMember \/ ToolRemoveMember
    \/ RpcFails \/ Return

---------------------------------------------------------------------------

\* A tenant with one project and its spaces.
Init ==
    /\ \E name \in Names :
         /\ projects = <<[name |-> name, status |-> "active", public |-> FALSE]>>
         /\ spaces = {q \in {Trimmed(r) : r \in Parents} : Len(q) > 1 /\ NameOf(q) = name}
    /\ items = <<>> /\ members = {}
    /\ snapshots = <<>> /\ guards = {}
    /\ app = NoProject
    /\ tool = IdleTool /\ seen = {}
    /\ writes = 0 /\ faults = 0

Next == AppStep \/ ToolStep

Spec == Init /\ [][Next]_vars

---------------------------------------------------------------------------
(* Properties. *)

TypeOK ==
    /\ \A p \in Ids : /\ projects[p].name \in Names /\ projects[p].public \in BOOLEAN
                      /\ projects[p].status \in {"active", "archived", "destroyed", "forced"}
    /\ \A s \in spaces : \E p \in Ids : Under(s, p)
    /\ \A i \in DOMAIN items : (\E p \in Ids : Under(items[i].at, p)) /\ Last(i) # <<>>
    /\ \A m \in members : {m[1], m[2]} \subseteq DOMAIN items
    /\ guards \subseteq Ids /\ seen \cup app.impacts \subseteq 1..Len(snapshots)
    /\ app.id \in {0} \cup Ids /\ app.archived \in BOOLEAN
    /\ tool.id \in {0} \cup Ids /\ (tool.pc \in {"space", "delete"} => tool.id # 0)
    /\ tool.snap \in {0} \cup seen
    /\ writes \in 0..MaxWrites /\ faults \in 0..MaxFaults

\* RELEASE_NOTES: "a Project that changed underneath you is not destroyed on stale
\* information".  A permanent deletion takes exactly what the caller was shown before, and
\* of the same project, whatever others created, moved or deleted in between, and even
\* when the name has passed to another project (tool_delete_project, Project.hard_delete).
DestroyedAsShown ==
    [][\A p \in Ids :
         projects[p].status # "destroyed" /\ projects'[p].status = "destroyed" =>
           \E snap \in seen \cup app.impacts :
             snapshots[snap] = [project |-> p, content |-> Content(p)]]_vars

\* An answer without an error means that everything asked for has happened, the second
\* and third RPC of the call included, unless the server answered a status that says no:
\* a failure half way is never reported as success, and no tool that creates answers
\* for what it did not do (mcp_server.py, the create, delete and update tools).
SuccessMeansComplete ==
    tool.pc = "done" /\ tool.ok =>
      \/ Promised(tool) \subseteq tool.did
      \/ tool.did = {"declined"} /\ Promised(tool) \cap {"created", "analyzed"} = {}

\* The items that their reference leads back to, the one an item has, and the one that a
\* project puts together from the parent path and the name.
Found ==
    {i \in {LeafPath(Trimmed(q), name, kind) :
               q \in Parents, name \in ItemNames, kind \in Kinds \cup {Bundle}} :
       /\ ByKref(Ref(i)) = i
       /\ \A q \in Parents :
            Trimmed(q) = Front(i) => ProjectGetItem(q, Front(Last(i)), Last(Last(i))) = i}

\* An item is found again by its reference and by its name through the project, with the
\* parent path spelled in any accepted way, wherever it has moved.  One that has not moved
\* is found through the space that holds it, and the space read back from its reference
\* is that one, down to dots in its name.  What is of a bundle's kind in any spelling was
\* made by create_bundle, and so has members (client.create_item).
FoundAgain ==
    \A i \in DOMAIN items :
      /\ i \in Found
      /\ items[i].at = Front(i) =>
            /\ SpaceGetItem(items[i].at, Front(Last(i)), Last(Last(i))) = i
            /\ ItemGetSpace(i) = items[i].at
      /\ Lower[Last(Last(i))] \in ReservedKinds => items[i].made = Bundle
      /\ items[i].made = Bundle =>
            /\ SpaceGetBundle(Front(i), Front(Last(i))) = i
            /\ \A q \in Parents : Trimmed(q) = Front(i) => ProjectGetBundle(q, Front(Last(i))) = i

\* item.py:245 "Get the space that contains this item."  The space is read from the
\* reference, which a move leaves as it was (Item.get_space, Item.move_to).
SpaceContainsItem == \A i \in DOMAIN items : ItemGetSpace(i) = items[i].at

\* bundle.py:268 "success: Whether the operation succeeded."  tool_add_bundle_member and
\* tool_remove_bundle_member answer added and removed without reading it.
MembersAreChanged ==
    tool.pc = "done" /\ tool.ok /\ tool.op \in {"add_member", "remove_member"}
      => "updated" \in tool.did

\* project.py:82 "allow_public (bool): Whether anonymous read access is enabled."  The
\* answer of tool_create_project reports the object from before set_public.
PublicIsReported ==
    tool.pc = "done" /\ tool.ok /\ tool.op = "create_project" /\ "public" \in tool.did
      => tool.report
=============================================================================
