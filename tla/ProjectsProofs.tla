---------------------------- MODULE ProjectsProofs ----------------------------
(* Proofs about Projects, for any names, paths and kinds and any number of   *)
(* projects, writes and faults.                                              *)
EXTENDS Projects, WellFoundedInduction, SequenceTheorems, TLAPS

ProjectRecord == [name : Names, status : {"active", "archived", "destroyed", "forced"},
                  public : BOOLEAN]

Shape(t) == t = [pc |-> t.pc, op |-> t.op, path |-> t.path, with |-> t.with, flag |-> t.flag,
                 id |-> t.id, snap |-> t.snap, did |-> t.did, report |-> t.report, ok |-> t.ok]

\* What a call that answers with success has done.
Complete(t) == \/ Promised(t) \subseteq t.did
               \/ t.did = {"declined"} /\ Promised(t) \cap {"created", "analyzed"} = {}

\* What a call holds on its way: nothing is done before the last RPC but the creation that
\* a second one completes, and an impact is only confirmed with force.
Call1(t) ==
    /\ Shape(t)
    /\ t.ok \in BOOLEAN /\ t.flag \in BOOLEAN
    /\ t.pc # "done" => t.ok = FALSE /\ t.did = IF t.pc = "extra" THEN {"created"} ELSE {}
    /\ t.pc = "extra" => t.flag = TRUE /\ t.op \in {"create_project", "create_item"}
    /\ t.pc # "idle" /\ t.op = "delete_project" /\ t.snap # 0 => t.flag = TRUE
    /\ t.pc # "idle" /\ t.op = "create_project" => NameOf(t.path) \in Names
    /\ t.pc = "done" /\ t.ok => Complete(t)

Inv == /\ projects \in Seq(ProjectRecord)
       /\ Call1(tool)
       /\ tool.snap \in {0} \cup seen

\* No project is destroyed but on an impact that was shown.
Shown ==
    \A p \in Ids :
      projects[p].status # "destroyed" /\ projects'[p].status = "destroyed" =>
        \E snap \in seen \cup app.impacts :
          snapshots[snap] = [project |-> p, content |-> Content(p)]

---------------------------------------------------------------------------
(* The server. *)

\* A project changes its status, or whether it is public.
LEMMA OneProject ==
    ASSUME Inv, NEW p \in Ids, NEW r \in ProjectRecord, projects' = [projects EXCEPT ![p] = r],
           r.status = "destroyed" => projects[p].status = "destroyed" \/
              \E snap \in seen \cup app.impacts :
                 snapshots[snap] = [project |-> p, content |-> Content(p)]
    PROVE  projects' \in Seq(ProjectRecord) /\ Shown
<1>1. projects \in Seq(ProjectRecord) /\ Ids = 1..Len(projects)
  BY DEF Inv, Ids
<1>2. \A i \in Ids : projects'[i] = IF i = p THEN r ELSE projects[i]
  BY <1>1
<1>3. projects' \in Seq(ProjectRecord)
  BY <1>1
<1> QED BY <1>2, <1>3 DEF Shown

LEMMA StatusTyped ==
    ASSUME Inv, NEW p \in Ids, NEW status \in {"active", "archived", "destroyed", "forced"}
    PROVE  /\ projects[p] \in ProjectRecord
           /\ [projects[p] EXCEPT !.status = status] \in ProjectRecord
           /\ [projects[p] EXCEPT !.status = status].status = status
<1>1. projects[p] \in ProjectRecord
  BY DEF Inv, Ids
<1> QED BY <1>1 DEF ProjectRecord

LEMMA SteadyProjects ==
    ASSUME Inv, UNCHANGED projects
    PROVE  projects' \in Seq(ProjectRecord) /\ Shown
BY DEF Inv, Shown

LEMMA CreateProjectShown ==
    ASSUME Inv, NEW name \in Names, CreateProjectRpc(name)
    PROVE  projects' \in Seq(ProjectRecord) /\ Shown
<1> DEFINE r == [name |-> name, status |-> "active", public |-> FALSE]
<1>1. /\ projects \in Seq(ProjectRecord) /\ projects' = Append(projects, r)
      /\ Ids = 1..Len(projects)
  BY DEF Inv, CreateProjectRpc, Ids
<1>2. r \in ProjectRecord
  BY DEF ProjectRecord
<1> HIDE DEF r
<1>3. projects' \in Seq(ProjectRecord) /\ \A p \in Ids : projects'[p] = projects[p]
  BY <1>1, <1>2
<1> QED BY <1>3 DEF Shown

LEMMA UpdateProjectShown ==
    ASSUME Inv, NEW p,
           \/ UpdateProjectRpc(p, "public", TRUE)
           \/ \E status \in {"active", "archived"} : UpdateProjectRpc(p, "status", status)
    PROVE  projects' \in Seq(ProjectRecord) /\ Shown
<1>1. p \in Ids
  BY DEF UpdateProjectRpc, Exists
<1>2. CASE UpdateProjectRpc(p, "public", TRUE)
  <2> DEFINE r == [projects[p] EXCEPT !.public = TRUE]
  <2>1. projects' = [projects EXCEPT ![p] = r]
    BY <1>2 DEF UpdateProjectRpc
  <2>2. projects[p] \in ProjectRecord
    BY <1>1 DEF Inv, Ids
  <2>3. r \in ProjectRecord /\ r.status = projects[p].status
    BY <2>2 DEF ProjectRecord
  <2> HIDE DEF r
  <2> QED BY <1>1, <2>1, <2>3, OneProject
<1>3. ASSUME NEW status \in {"active", "archived"}, UpdateProjectRpc(p, "status", status)
      PROVE  projects' \in Seq(ProjectRecord) /\ Shown
  <2> DEFINE r == [projects[p] EXCEPT !.status = status]
  <2>1. projects' = [projects EXCEPT ![p] = r]
    BY <1>3 DEF UpdateProjectRpc
  <2>2. r \in ProjectRecord /\ r.status = status
    BY <1>1, StatusTyped
  <2> HIDE DEF r
  <2> QED BY <1>1, <2>1, <2>2, OneProject
<1> QED BY <1>2, <1>3

LEMMA DeleteProjectShown ==
    ASSUME Inv, NEW p, NEW force \in BOOLEAN, DeleteProjectRpc(p, force)
    PROVE  projects' \in Seq(ProjectRecord) /\ Shown
<1>1. CASE force = TRUE
  <2> DEFINE r == [projects[p] EXCEPT !.status = "forced"]
  <2>1. p \in Ids /\ projects' = [projects EXCEPT ![p] = r]
    BY <1>1 DEF DeleteProjectRpc, Exists, Destroy
  <2>2. r \in ProjectRecord /\ r.status = "forced"
    BY <2>1, StatusTyped
  <2> HIDE DEF r
  <2> QED BY <2>1, <2>2, OneProject
<1>2. CASE force = FALSE
  BY <1>2, UpdateProjectShown DEF DeleteProjectRpc
<1> QED BY <1>1, <1>2

\* The server accepts no snapshot but the project's own and current one.
LEMMA HardDeleteShown ==
    ASSUME Inv, NEW p, NEW snap \in seen \cup app.impacts, HardDeleteProjectRpc(p, snap, TRUE)
    PROVE  projects' \in Seq(ProjectRecord) /\ Shown
<1> DEFINE r == [projects[p] EXCEPT !.status = "destroyed"]
<1>1. /\ p \in Ids /\ projects' = [projects EXCEPT ![p] = r]
      /\ snapshots[snap] = [project |-> p, content |-> Content(p)]
  BY DEF HardDeleteProjectRpc, Accepts, Destroy
<1>2. r \in ProjectRecord
  BY <1>1, StatusTyped
<1> HIDE DEF r
<1> QED BY <1>1, <1>2, OneProject

---------------------------------------------------------------------------
(* The application leaves the tool call alone. *)

LEMMA AppStepShown ==
    ASSUME Inv, AppStep
    PROVE  Inv' /\ Shown
<1>1. UNCHANGED <<tool, seen>>
  BY DEF AppStep, AppGets, AppWrites, Deprecate, Restore, SetPublic, ForceDelete, Guard,
         AnalyzeDeletion, HardDelete, AppCreatesProject, AppCreatesSpace, AppCreatesItem,
         AppCreatesBundle, AppMovesItem, AppDeletesItem, AppDeletesSpace, AppSetsMetadata,
         AppDeprecatesItem, AppAddsMember, AppRemovesMember
<1>2. projects' \in Seq(ProjectRecord) /\ Shown
  <2>1. CASE Deprecate \/ Restore \/ SetPublic
    BY <2>1, UpdateProjectShown DEF Deprecate, Restore, SetPublic
  <2>2. CASE ForceDelete
    BY <2>2, DeleteProjectShown DEF ForceDelete
  <2>3. CASE HardDelete
    BY <2>3, HardDeleteShown DEF HardDelete
  <2>4. CASE AppCreatesProject
    BY <2>4, CreateProjectShown DEF AppCreatesProject
  <2>5. CASE AppGets \/ Guard \/ AnalyzeDeletion
    BY <2>5, SteadyProjects DEF AppGets, server, Guard, GuardRpc, AnalyzeDeletion,
                               AnalyzeProjectDeletionRpc
  <2>6. CASE AppCreatesSpace \/ AppCreatesItem \/ AppCreatesBundle
    <3>1. UNCHANGED projects
      BY <2>6 DEF AppCreatesSpace, CreateSpaceRpc, SpaceCreatesSpace, AppCreatesItem,
                  CreateItemRpc, CreateRpc, AppCreatesBundle, CreateBundleRpc
    <3> QED BY <3>1, SteadyProjects
  <2>7. CASE AppMovesItem \/ AppDeletesItem \/ AppDeletesSpace
    <3>1. UNCHANGED projects
      BY <2>7 DEF AppMovesItem, MoveItemRpc, AppDeletesItem, DeleteItemRpc, AppDeletesSpace,
                  DeleteSpaceRpc
    <3> QED BY <3>1, SteadyProjects
  <2>8. CASE AppSetsMetadata \/ AppDeprecatesItem \/ AppAddsMember \/ AppRemovesMember
    <3>1. UNCHANGED projects
      BY <2>8 DEF AppSetsMetadata, AppDeprecatesItem, UpdateItemRpc, AppAddsMember,
                  AddMemberRpc, AppRemovesMember, RemoveMemberRpc
    <3> QED BY <3>1, SteadyProjects
  <2> QED BY <2>1, <2>2, <2>3, <2>4, <2>5, <2>6, <2>7, <2>8 DEF AppStep
<1> QED BY <1>1, <1>2 DEF Inv

---------------------------------------------------------------------------
(* The tool call. *)

\* A call under way keeps its shape when it moves on.
LEMMA Moves ==
    ASSUME Inv, NEW pc, pc \notin {"idle", "extra", "done"}, tool.pc \notin {"idle", "extra", "done"},
           NEW t, t = [tool EXCEPT !.pc = pc] \/ \E p : t = [tool EXCEPT !.id = p, !.pc = pc]
    PROVE  Call1(t) /\ t.snap = tool.snap
<1>1. /\ Shape(tool) /\ tool.ok = FALSE /\ tool.flag \in BOOLEAN /\ tool.did = {}
      /\ tool.op = "delete_project" /\ tool.snap # 0 => tool.flag = TRUE
      /\ tool.op = "create_project" => NameOf(tool.path) \in Names
  BY DEF Inv, Call1
<1>2. /\ Shape(t) /\ t.pc = pc /\ t.op = tool.op /\ t.path = tool.path /\ t.flag = tool.flag
      /\ t.snap = tool.snap /\ t.did = tool.did /\ t.ok = tool.ok
  BY <1>1 DEF Shape
<1> QED BY <1>1, <1>2 DEF Call1

\* A call that ends with success has done what it promised.
LEMMA Succeeds ==
    ASSUME Inv, tool.pc \notin {"idle", "done"}, NEW did,
           Promised(tool) \subseteq did \cup (IF tool.pc = "extra" THEN {"created"} ELSE {}),
           NEW t, \/ t = [Answer EXCEPT !.did = @ \cup did]
                  \/ \E p : t = [[Answer EXCEPT !.id = p] EXCEPT !.did = @ \cup did]
    PROVE  Call1(t) /\ t.snap = tool.snap
<1>1. /\ Shape(tool) /\ tool.flag \in BOOLEAN
      /\ tool.did = IF tool.pc = "extra" THEN {"created"} ELSE {}
      /\ tool.op = "delete_project" /\ tool.snap # 0 => tool.flag = TRUE
      /\ tool.op = "create_project" => NameOf(tool.path) \in Names
  BY DEF Inv, Call1
<1>2. /\ Shape(t) /\ t.pc = "done" /\ t.op = tool.op /\ t.path = tool.path
      /\ t.flag = tool.flag /\ t.snap = tool.snap /\ t.ok = TRUE /\ t.did = tool.did \cup did
  BY <1>1 DEF Shape, Answer
<1>3. Promised(t) = Promised(tool)
  BY <1>2 DEF Promised
<1> QED BY <1>1, <1>2, <1>3 DEF Call1, Complete

\* A status that says no ends a call that creates nothing.
LEMMA DeclinedShown ==
    ASSUME Inv, tool.pc \in {"delete", "act"}, Declined,
           Promised(tool) \cap {"created", "analyzed"} = {}
    PROVE  Inv' /\ Shown
<1>1. PICK t, did : /\ t = [Answer EXCEPT !.did = did] /\ did = {"declined"}
                    /\ tool' = t /\ UNCHANGED <<projects, seen>>
  BY DEF Declined, server
<1>2. /\ Shape(tool) /\ tool.flag \in BOOLEAN
      /\ tool.op = "delete_project" /\ tool.snap # 0 => tool.flag = TRUE
      /\ tool.op = "create_project" => NameOf(tool.path) \in Names
  BY DEF Inv, Call1
<1>3. /\ Shape(t) /\ t.pc = "done" /\ t.op = tool.op /\ t.path = tool.path
      /\ t.flag = tool.flag /\ t.snap = tool.snap /\ t.ok = TRUE /\ t.did = did
  BY <1>1, <1>2 DEF Shape, Answer
<1>4. Promised(t) = Promised(tool)
  BY <1>3 DEF Promised
<1>5. Call1(t)
  BY <1>1, <1>2, <1>3, <1>4 DEF Call1, Complete
<1>6. projects' \in Seq(ProjectRecord) /\ Shown
  BY <1>1, SteadyProjects
<1> QED BY <1>1, <1>3, <1>5, <1>6 DEF Inv

LEMMA IdleFields ==
    /\ Shape(IdleTool) /\ IdleTool.flag = FALSE /\ IdleTool.snap = 0 /\ IdleTool.did = {}
    /\ IdleTool.ok = FALSE
BY DEF Shape, IdleTool

LEMMA IdleCall == Call1(IdleTool) /\ IdleTool.snap = 0
BY DEF Call1, Shape, IdleTool

\* A new call.
Begun(t) ==
    /\ tool' = t /\ UNCHANGED <<server, seen>>
    /\ Shape(t) /\ t.ok = FALSE /\ t.flag \in BOOLEAN /\ t.did = {}
    /\ t.pc \in {"create", "find", "item", "bundle"} /\ t.snap \in {0} \cup seen
    /\ t.snap # 0 => t.flag = TRUE
    /\ t.op = "create_project" => NameOf(t.path) \in Names

LEMMA BegunShown ==
    ASSUME Inv, NEW t, Begun(t)
    PROVE  Inv' /\ Shown
<1>1. Call1(t)
  BY DEF Begun, Call1
<1>2. tool' = t /\ t.snap \in {0} \cup seen' /\ UNCHANGED projects
  BY DEF Begun, server
<1>3. projects' \in Seq(ProjectRecord) /\ Shown
  BY <1>2, SteadyProjects
<1> QED BY <1>1, <1>2, <1>3 DEF Inv

LEMMA CallToolShown ==
    ASSUME Inv, CallTool
    PROVE  Inv' /\ Shown
<1>1. CASE \E name \in Names, flag \in BOOLEAN :
             Call([IdleTool EXCEPT !.pc = "create", !.op = "create_project",
                                   !.path = <<<<name>>>>, !.flag = flag])
  <2>1. PICK name, flag, path, t :
          /\ name \in Names /\ flag \in BOOLEAN /\ path = <<<<name>>>> /\ Call(t)
          /\ t = [IdleTool EXCEPT !.pc = "create", !.op = "create_project",
                                  !.path = path, !.flag = flag]
    BY <1>1
  <2>2. Shape(t) /\ t.ok = FALSE /\ t.flag = flag /\ t.did = {} /\ t.pc = "create"
        /\ t.snap = 0 /\ t.path = path
    BY <2>1, IdleFields DEF Shape
  <2>3. NameOf(path) = name
    BY <2>1 DEF NameOf
  <2>4. tool' = t /\ UNCHANGED <<server, seen>>
    BY <2>1 DEF Call, Goes
  <2> QED BY <2>1, <2>2, <2>3, <2>4, BegunShown DEF Begun
<1>2. CASE \E op \in {"create_space", "create_bundle", "create_item"}, q \in Parents,
                flag \in BOOLEAN :
             /\ flag => op = "create_item"
             /\ Call([IdleTool EXCEPT !.pc = "find", !.op = op, !.path = Trimmed(q), !.flag = flag])
  <2>1. PICK op, path, flag, t :
          /\ op \in {"create_space", "create_bundle", "create_item"} /\ flag \in BOOLEAN /\ Call(t)
          /\ t = [IdleTool EXCEPT !.pc = "find", !.op = op, !.path = path, !.flag = flag]
    BY <1>2
  <2>2. Shape(t) /\ t.ok = FALSE /\ t.did = {} /\ t.snap = 0
        /\ t.flag = flag /\ t.pc = "find" /\ t.op = op
    BY <2>1, IdleFields DEF Shape
  <2>3. tool' = t /\ UNCHANGED <<server, seen>>
    BY <2>1 DEF Call, Goes
  <2> QED BY <2>1, <2>2, <2>3, BegunShown DEF Begun
<1>3. CASE \E name \in Names, snap \in seen \cup {0}, flag \in BOOLEAN :
             /\ snap # 0 => flag
             /\ Call([IdleTool EXCEPT !.pc = "find", !.op = "delete_project",
                                      !.path = <<<<name>>>>, !.flag = flag, !.snap = snap])
  <2>1. PICK path, snap, flag, t :
          /\ snap \in seen \cup {0} /\ flag \in BOOLEAN /\ (snap # 0 => flag = TRUE) /\ Call(t)
          /\ t = [IdleTool EXCEPT !.pc = "find", !.op = "delete_project",
                                  !.path = path, !.flag = flag, !.snap = snap]
    BY <1>3
  <2>2. Shape(t) /\ t.ok = FALSE /\ t.flag = flag /\ t.did = {} /\ t.pc = "find"
        /\ t.snap = snap /\ t.op = "delete_project"
    BY <2>1, IdleFields DEF Shape
  <2>3. tool' = t /\ UNCHANGED <<server, seen>>
    BY <2>1 DEF Call, Goes
  <2> QED BY <2>1, <2>2, <2>3, BegunShown DEF Begun
<1>4. CASE \E s \in spaces, flag \in BOOLEAN :
             Call([IdleTool EXCEPT !.pc = "find", !.op = "delete_space", !.path = s, !.flag = flag])
  <2>1. PICK path, flag, t :
          /\ flag \in BOOLEAN /\ Call(t)
          /\ t = [IdleTool EXCEPT !.pc = "find", !.op = "delete_space", !.path = path, !.flag = flag]
    BY <1>4
  <2>2. Shape(t) /\ t.ok = FALSE /\ t.did = {} /\ t.snap = 0
        /\ t.flag = flag /\ t.pc = "find" /\ t.op = "delete_space"
    BY <2>1, IdleFields DEF Shape
  <2>3. tool' = t /\ UNCHANGED <<server, seen>>
    BY <2>1 DEF Call, Goes
  <2> QED BY <2>1, <2>2, <2>3, BegunShown DEF Begun
<1>5. CASE \E op \in {"delete_item", "deprecate_item"}, i \in DOMAIN items :
             Call([IdleTool EXCEPT !.pc = "item", !.op = op, !.path = i])
  <2>1. PICK op, path, t :
          /\ op \in {"delete_item", "deprecate_item"} /\ Call(t)
          /\ t = [IdleTool EXCEPT !.pc = "item", !.op = op, !.path = path]
    BY <1>5
  <2>2. Shape(t) /\ t.ok = FALSE /\ t.did = {} /\ t.snap = 0
        /\ t.flag = FALSE /\ t.pc = "item" /\ t.op = op
    BY <2>1, IdleFields DEF Shape
  <2>3. tool' = t /\ UNCHANGED <<server, seen>>
    BY <2>1 DEF Call, Goes
  <2> QED BY <2>1, <2>2, <2>3, BegunShown DEF Begun
<1>6. CASE \E op \in {"add_member", "remove_member"}, b \in DOMAIN items, i \in DOMAIN items :
             /\ items[b].made = Bundle
             /\ Call([IdleTool EXCEPT !.pc = "bundle", !.op = op, !.path = b, !.with = i])
  <2>1. PICK op, path, with, t :
          /\ op \in {"add_member", "remove_member"} /\ Call(t)
          /\ t = [IdleTool EXCEPT !.pc = "bundle", !.op = op, !.path = path, !.with = with]
    BY <1>6
  <2>2. Shape(t) /\ t.ok = FALSE /\ t.did = {} /\ t.snap = 0
        /\ t.flag = FALSE /\ t.pc = "bundle" /\ t.op = op
    BY <2>1, IdleFields DEF Shape
  <2>3. tool' = t /\ UNCHANGED <<server, seen>>
    BY <2>1 DEF Call, Goes
  <2> QED BY <2>1, <2>2, <2>3, BegunShown DEF Begun
<1> QED BY <1>1, <1>2, <1>3, <1>4, <1>5, <1>6 DEF CallTool

\* A step of the call that only reads.
LEMMA ToolReads ==
    ASSUME Inv, NEW t, Goes(t), Call1(t), t.snap \in {0, tool.snap}
    PROVE  Inv' /\ Shown
<1>1. UNCHANGED <<projects, seen>> /\ tool' = t
  BY DEF Goes, server
<1>2. projects' \in Seq(ProjectRecord) /\ Shown
  BY <1>1, SteadyProjects
<1> QED BY <1>1, <1>2 DEF Inv

LEMMA ToolFindsShown ==
    ASSUME Inv, FindProject \/ FindSpace \/ FindBundle \/ FindItem
    PROVE  Inv' /\ Shown
<1>1. tool.pc \in {"find", "space", "bundle", "again", "item"}
  BY DEF FindProject, FindSpace, FindBundle, FindItem
<1>2. CASE Goes(Refusal)
  BY <1>2, IdleCall, ToolReads DEF Refusal
<1>3. CASE \E pc \in {"again", "item", "act", "delete", "create", "space"} :
             \/ Goes(At(pc))
             \/ \E p : Goes([tool EXCEPT !.id = p, !.pc = pc])
  <2>1. PICK pc, t : pc \in {"again", "item", "act", "delete", "create", "space"} /\
          Goes(t) /\ (t = [tool EXCEPT !.pc = pc] \/ \E p : t = [tool EXCEPT !.id = p, !.pc = pc])
    BY <1>3 DEF At
  <2>2. Call1(t) /\ t.snap = tool.snap
    BY <1>1, <2>1, Moves
  <2> QED BY <2>1, <2>2, ToolReads
<1>4. CASE FindProject
  BY <1>2, <1>3, <1>4 DEF FindProject
<1>5. CASE FindSpace
  BY <1>2, <1>3, <1>5 DEF FindSpace
<1>6. CASE FindBundle \/ FindItem
  BY <1>2, <1>3, <1>6 DEF FindBundle, FindItem
<1> QED BY <1>4, <1>5, <1>6

\* A write, whose answer may be lost.
LEMMA WroteShown ==
    ASSUME Inv, tool.pc \notin {"idle", "done"}, NEW did, NEW next, Wrote(did, next),
           \A t : t = [next EXCEPT !.did = @ \cup did] => Call1(t) /\ t.snap = tool.snap,
           projects' \in Seq(ProjectRecord)
    PROVE  Inv'
<1>1. UNCHANGED seen
  BY DEF Wrote
<1>2. Call1(tool') /\ tool'.snap \in {0, tool.snap}
  <2>1. CASE tool' = [next EXCEPT !.did = @ \cup did]
    BY <2>1
  <2>2. CASE Fail
    BY <2>2, IdleCall DEF Fail
  <2> QED BY <2>1, <2>2 DEF Wrote
<1> QED BY <1>1, <1>2 DEF Inv

LEMMA WroteAnswer ==
    ASSUME Inv, tool.pc \notin {"idle", "done"}, NEW did, Wrote(did, Answer),
           Promised(tool) \subseteq did \cup (IF tool.pc = "extra" THEN {"created"} ELSE {}),
           projects' \in Seq(ProjectRecord)
    PROVE  Inv'
BY Succeeds, WroteShown

\* Between the two writes of a call.
LEMMA Extra ==
    ASSUME Inv, tool.pc = "create", tool.op \in {"create_project", "create_item"}, tool.flag,
           NEW t, \/ \E path : tool.op = "create_item" /\
                       t = [[tool EXCEPT !.pc = "extra", !.path = path] EXCEPT !.did = @ \cup {"created"}]
                  \/ \E p : t = [[tool EXCEPT !.pc = "extra", !.id = p] EXCEPT !.did = @ \cup {"created"}]
    PROVE  Call1(t) /\ t.snap = tool.snap
<1>1. /\ Shape(tool) /\ tool.flag = TRUE /\ tool.did = {} /\ tool.ok = FALSE
      /\ tool.op = "create_project" => NameOf(tool.path) \in Names
  BY DEF Inv, Call1
<1>2. /\ Shape(t) /\ t.pc = "extra" /\ t.op = tool.op /\ t.flag = tool.flag
      /\ t.snap = tool.snap /\ t.ok = tool.ok /\ t.did = {"created"}
      /\ tool.op = "create_project" => t.path = tool.path
  <2>1. CASE \E path : tool.op = "create_item" /\
               t = [[tool EXCEPT !.pc = "extra", !.path = path] EXCEPT !.did = @ \cup {"created"}]
    <3> PICK path : /\ tool.op = "create_item"
                    /\ t = [[tool EXCEPT !.pc = "extra", !.path = path]
                                  EXCEPT !.did = @ \cup {"created"}]
      BY <2>1
    <3> DEFINE r == [pc |-> "extra", op |-> tool.op, path |-> path, with |-> tool.with,
                     flag |-> tool.flag, id |-> tool.id, snap |-> tool.snap,
                     did |-> {"created"}, report |-> tool.report, ok |-> tool.ok]
    <3>1. t = r
      BY <1>1 DEF Shape
    <3>2. r.did = {"created"} /\ r.pc = "extra" /\ r.op = tool.op /\ r.flag = tool.flag
      OBVIOUS
    <3>3. r.snap = tool.snap /\ r.ok = tool.ok /\ r.path = path /\ Shape(r)
      BY DEF Shape
    <3> HIDE DEF r
    <3> QED BY <3>1, <3>2, <3>3
  <2>2. CASE \E p : t = [[tool EXCEPT !.pc = "extra", !.id = p] EXCEPT !.did = @ \cup {"created"}]
    <3> PICK p : t = [[tool EXCEPT !.pc = "extra", !.id = p] EXCEPT !.did = @ \cup {"created"}]
      BY <2>2
    <3> DEFINE r == [pc |-> "extra", op |-> tool.op, path |-> tool.path, with |-> tool.with,
                     flag |-> tool.flag, id |-> p, snap |-> tool.snap,
                     did |-> {"created"}, report |-> tool.report, ok |-> tool.ok]
    <3>1. t = r
      BY <1>1 DEF Shape
    <3>2. r.did = {"created"} /\ r.pc = "extra" /\ r.op = tool.op /\ r.flag = tool.flag
      OBVIOUS
    <3>3. r.snap = tool.snap /\ r.ok = tool.ok /\ r.path = tool.path /\ Shape(r)
      BY DEF Shape
    <3> HIDE DEF r
    <3> QED BY <3>1, <3>2, <3>3
  <2> QED BY <2>1, <2>2
<1> QED BY <1>1, <1>2 DEF Call1

LEMMA ToolCreatesShown ==
    ASSUME Inv, \/ ToolCreateProject \/ ToolCreateSpace \/ ToolCreateItem \/ ToolCreateBundle
    PROVE  Inv' /\ Shown
<1>1. tool.flag \in BOOLEAN
  BY DEF Inv, Call1
<1>2. CASE ToolCreateProject
  <2>1. tool.pc = "create" /\ tool.op = "create_project"
    BY <1>2 DEF ToolCreateProject
  <2>2. NameOf(tool.path) \in Names
    BY <2>1 DEF Inv, Call1
  <2>3. projects' \in Seq(ProjectRecord) /\ Shown
    BY <1>2, <2>2, CreateProjectShown DEF ToolCreateProject
  <2>4. CASE tool.flag = TRUE
    <3>1. Wrote({"created"}, [tool EXCEPT !.pc = "extra", !.id = Len(projects')])
      BY <1>2, <2>4 DEF ToolCreateProject
    <3>2. \A t : t = [[tool EXCEPT !.pc = "extra", !.id = Len(projects')] EXCEPT
                        !.did = @ \cup {"created"}] => Call1(t) /\ t.snap = tool.snap
      BY <2>1, <2>4, Extra
    <3> QED BY <2>1, <2>3, <3>1, <3>2, WroteShown
  <2>5. CASE tool.flag = FALSE
    <3>1. Wrote({"created"}, [Answer EXCEPT !.id = Len(projects')])
      BY <1>2, <2>5 DEF ToolCreateProject
    <3>2. Promised(tool) = {"created"}
      BY <2>1, <2>5 DEF Promised
    <3>3. \A t : t = [[Answer EXCEPT !.id = Len(projects')] EXCEPT
                        !.did = @ \cup {"created"}] => Call1(t) /\ t.snap = tool.snap
      BY <2>1, <3>2, Succeeds
    <3> QED BY <2>1, <2>3, <3>1, <3>3, WroteShown
  <2> QED BY <1>1, <2>4, <2>5, <2>3
<1>3. CASE ToolCreateSpace \/ ToolCreateBundle
  <2>1. /\ tool.pc = "create" /\ tool.op \in {"create_space", "create_bundle"}
        /\ UNCHANGED projects /\ Wrote({"created"}, Answer)
    BY <1>3 DEF ToolCreateSpace, CreateSpaceRpc, ToolCreateBundle, SpaceCreatesBundle,
                CreateBundleRpc, CreateRpc
  <2>2. Promised(tool) = {"created"}
    BY <2>1 DEF Promised
  <2>3. projects' \in Seq(ProjectRecord) /\ Shown
    BY <2>1, SteadyProjects
  <2> QED BY <2>1, <2>2, <2>3, WroteAnswer
<1>4. CASE ToolCreateItem
  <2>1. PICK name \in ItemNames, kind \in Kinds :
          /\ tool.pc = "create" /\ tool.op = "create_item" /\ UNCHANGED projects
          /\ Wrote({"created"}, IF ~tool.flag THEN Answer
                                ELSE [tool EXCEPT !.pc = "extra",
                                                  !.path = LeafPath(@, name, kind)])
    BY <1>4 DEF ToolCreateItem, SpaceCreatesItem, CreateItemRpc, CreateRpc
  <2>2. projects' \in Seq(ProjectRecord) /\ Shown
    BY <2>1, SteadyProjects
  <2>3. CASE tool.flag = TRUE
    <3> DEFINE path == LeafPath(tool.path, name, kind)
    <3>1. Wrote({"created"}, [tool EXCEPT !.pc = "extra", !.path = path])
      BY <2>1, <2>3
    <3> HIDE DEF path
    <3>2. \A t : t = [[tool EXCEPT !.pc = "extra", !.path = path] EXCEPT
                        !.did = @ \cup {"created"}] => Call1(t) /\ t.snap = tool.snap
      BY <2>1, <2>3, Extra
    <3> QED BY <2>1, <2>2, <3>1, <3>2, WroteShown
  <2>4. CASE tool.flag = FALSE
    <3>1. Wrote({"created"}, Answer)
      BY <2>1, <2>4
    <3>2. Promised(tool) = {"created"}
      BY <2>1, <2>4 DEF Promised
    <3> QED BY <2>1, <2>2, <3>1, <3>2, WroteAnswer
  <2> QED BY <1>1, <2>2, <2>3, <2>4
<1> QED BY <1>2, <1>3, <1>4

\* The second write of a call completes what was asked for.
LEMMA ToolCompletesShown ==
    ASSUME Inv, ToolSetPublic \/ ToolSetMetadata
    PROVE  Inv' /\ Shown
<1>1. CASE ToolSetPublic
  <2>1. /\ tool.pc = "extra" /\ tool.op = "create_project" /\ Wrote({"public"}, Answer)
        /\ UpdateProjectRpc(tool.id, "public", TRUE)
    BY <1>1 DEF ToolSetPublic
  <2>2. projects' \in Seq(ProjectRecord) /\ Shown
    BY <2>1, UpdateProjectShown
  <2>3. Promised(tool) \subseteq {"public"} \cup {"created"}
    BY <2>1 DEF Promised
  <2> QED BY <2>1, <2>2, <2>3, WroteAnswer
<1>2. CASE ToolSetMetadata
  <2>1. /\ tool.pc = "extra" /\ tool.op = "create_item" /\ Wrote({"meta"}, Answer)
        /\ UNCHANGED projects
    BY <1>2 DEF ToolSetMetadata, UpdateItemRpc
  <2>2. projects' \in Seq(ProjectRecord) /\ Shown
    BY <2>1, SteadyProjects
  <2>3. Promised(tool) \subseteq {"meta"} \cup {"created"}
    BY <2>1 DEF Promised
  <2> QED BY <2>1, <2>2, <2>3, WroteAnswer
<1> QED BY <1>1, <1>2

\* The three ends of a call that deletes a project.
LEMMA ToolDeletesShown ==
    ASSUME Inv, ToolArchiveProject \/ ToolAnalyze \/ ToolHardDelete
    PROVE  Inv' /\ Shown
<1>1. /\ tool.pc = "delete" /\ tool.op = "delete_project" /\ tool.flag \in BOOLEAN
      /\ tool.snap # 0 => tool.flag = TRUE
  BY DEF ToolArchiveProject, ToolAnalyze, ToolHardDelete, ToolDeletes, Inv, Call1
<1>2. CASE ToolArchiveProject /\ ~Declined
  <2>1. tool.flag = FALSE /\ Wrote({"archived"}, Answer) /\ DeleteProjectRpc(tool.id, FALSE)
    BY <1>1, <1>2 DEF ToolArchiveProject
  <2>2. projects' \in Seq(ProjectRecord) /\ Shown
    BY <2>1, DeleteProjectShown
  <2>3. Promised(tool) = {"archived"}
    BY <1>1, <2>1 DEF Promised
  <2> QED BY <1>1, <2>1, <2>2, <2>3, WroteAnswer
<1>3. CASE ToolAnalyze
  <2>1. /\ tool.flag = TRUE /\ tool.snap = 0 /\ UNCHANGED projects /\ seen \subseteq seen'
        /\ tool' = [Answer EXCEPT !.did = {"analyzed"}] \/ Fail
    BY <1>1, <1>3 DEF ToolAnalyze, AnalyzeProjectDeletionRpc
  <2>2. projects' \in Seq(ProjectRecord) /\ Shown
    BY <2>1, SteadyProjects
  <2>3. Call1(tool') /\ tool'.snap \in {0, tool.snap}
    <3>1. CASE Fail
      BY <3>1, IdleCall DEF Fail
    <3>2. CASE tool' = [Answer EXCEPT !.did = {"analyzed"}]
      <4>1. Promised(tool) = {"analyzed"} /\ tool.did = {} /\ Shape(tool)
        BY <1>1, <2>1 DEF Promised, Inv, Call1
      <4>2. tool' = [Answer EXCEPT !.did = @ \cup {"analyzed"}]
        BY <3>2, <4>1 DEF Answer, Shape
      <4> QED BY <1>1, <4>1, <4>2, Succeeds
    <3> QED BY <2>1, <3>1, <3>2
  <2> QED BY <2>1, <2>2, <2>3 DEF Inv
<1>4. CASE ToolHardDelete /\ ~Declined
  <2>1. /\ tool.snap # 0 /\ Wrote({"destroyed"}, Answer)
        /\ HardDeleteProjectRpc(tool.id, tool.snap, TRUE)
    BY <1>4 DEF ToolHardDelete
  <2>2. tool.snap \in seen \cup app.impacts
    BY <2>1 DEF Inv
  <2>3. projects' \in Seq(ProjectRecord) /\ Shown
    BY <2>1, <2>2, HardDeleteShown
  <2>4. Promised(tool) = {"destroyed"}
    BY <1>1, <2>1 DEF Promised
  <2> QED BY <1>1, <2>1, <2>3, <2>4, WroteAnswer
<1>5. CASE (ToolArchiveProject \/ ToolHardDelete) /\ Declined
  <2>1. tool.flag = FALSE \/ tool.snap # 0
    BY <1>1, <1>5 DEF ToolArchiveProject, ToolHardDelete
  <2>2. Promised(tool) \cap {"created", "analyzed"} = {}
    BY <1>1, <2>1 DEF Promised
  <2> QED BY <1>1, <1>5, <2>2, DeclinedShown
<1> QED BY <1>2, <1>3, <1>4, <1>5

LEMMA ToolActsShown ==
    ASSUME Inv, \/ ToolDeleteSpace \/ ToolDeleteItem \/ ToolDeprecateItem
                \/ ToolAddMember \/ ToolRemoveMember
    PROVE  Inv' /\ Shown
<1>1. /\ tool.pc \in {"delete", "act"}
      /\ \/ tool.op \in {"delete_space", "delete_item"} /\ Promised(tool) = {"deleted"}
         \/ /\ tool.op \in {"deprecate_item", "add_member", "remove_member"}
            /\ Promised(tool) = {"updated"}
  BY DEF ToolDeleteSpace, ToolDeleteItem, ToolDeprecateItem, ToolAddMember, ToolRemoveMember,
         Promised
<1>2. CASE Declined
  BY <1>1, <1>2, DeclinedShown
<1>3. CASE ~Declined
  <2>1. UNCHANGED projects
    BY <1>3 DEF ToolDeleteSpace, DeleteSpaceRpc, ToolDeleteItem, DeleteItemRpc,
                ToolDeprecateItem, UpdateItemRpc, ToolAddMember, AddMemberRpc, ToolRemoveMember,
                RemoveMemberRpc
  <2>2. projects' \in Seq(ProjectRecord) /\ Shown
    BY <2>1, SteadyProjects
  <2>3. Wrote(Promised(tool), Answer)
    BY <1>1, <1>3 DEF ToolDeleteSpace, ToolDeleteItem, ToolDeprecateItem, ToolAddMember,
                      ToolRemoveMember
  <2> QED BY <1>1, <2>2, <2>3, WroteAnswer
<1> QED BY <1>2, <1>3

LEMMA ToolStepShown ==
    ASSUME Inv, ToolStep
    PROVE  Inv' /\ Shown
<1>1. CASE RpcFails
  <2>1. Fail /\ UNCHANGED <<projects, seen>>
    BY <1>1 DEF RpcFails, server
  <2>2. Call1(tool') /\ tool'.snap = 0
    BY <2>1, IdleCall DEF Fail
  <2>3. projects' \in Seq(ProjectRecord) /\ Shown
    BY <2>1, SteadyProjects
  <2> QED BY <2>1, <2>2, <2>3 DEF Inv
<1>2. CASE Return
  BY <1>2, IdleCall, ToolReads DEF Return
<1> QED BY <1>1, <1>2, CallToolShown, ToolFindsShown, ToolCreatesShown, ToolCompletesShown,
           ToolDeletesShown, ToolActsShown DEF ToolStep

---------------------------------------------------------------------------

LEMMA InitInv == Init => Inv
<1> SUFFICES ASSUME Init PROVE Inv
  OBVIOUS
<1>1. PICK name \in Names : projects = <<[name |-> name, status |-> "active", public |-> FALSE]>>
  BY DEF Init
<1> DEFINE r == [name |-> name, status |-> "active", public |-> FALSE]
<1>2. r \in ProjectRecord
  BY DEF ProjectRecord
<1> HIDE DEF r
<1>3. projects = <<r>>
  BY <1>1 DEF r
<1>4. projects \in Seq(ProjectRecord)
  BY <1>2, <1>3
<1> QED BY <1>4, IdleCall DEF Init, Inv

LEMMA InvStep == Inv /\ [Next]_vars => Inv' /\ (Shown \/ UNCHANGED vars)
<1> SUFFICES ASSUME Inv, [Next]_vars PROVE Inv' /\ (Shown \/ UNCHANGED vars)
  OBVIOUS
<1>1. CASE UNCHANGED vars
  BY <1>1 DEF vars, server, Inv
<1> QED BY <1>1, AppStepShown, ToolStepShown DEF Next

\* The invariant of the specification.
THEOREM ProjectInvariant == Spec => []Inv
<1>1. Inv /\ [Next]_vars => Inv'
  BY InvStep
<1> QED BY <1>1, InitInv, PTL DEF Spec

\* An answer without an error means that everything asked for has happened, but where the
\* server answered a status that says no, which only a deletion, a deprecation and a change
\* of members can be told (tool_create_project, tool_create_item, tool_delete_project and
\* the others).
THEOREM SuccessIsComplete == Spec => []SuccessMeansComplete
<1>1. Inv => SuccessMeansComplete
  BY DEF Inv, Call1, Complete, SuccessMeansComplete
<1> QED BY <1>1, ProjectInvariant, PTL

\* A permanent deletion takes exactly what its caller was shown before
\* (tool_delete_project, Project.hard_delete).
THEOREM DestroysAsShown == Spec => DestroyedAsShown
<1>1. Inv /\ [Next]_vars =>
        [\A p \in Ids :
           projects[p].status # "destroyed" /\ projects'[p].status = "destroyed" =>
             \E snap \in seen \cup app.impacts :
               snapshots[snap] = [project |-> p, content |-> Content(p)]]_vars
  BY InvStep DEF Shown
<1> QED BY <1>1, ProjectInvariant, PTL DEF Spec, DestroyedAsShown

---------------------------------------------------------------------------
(* Paths. *)

Segment == Seq(STRING)
Path == Seq(Segment)
Blank == <<"">>

\* A path without an empty segment at either end, such as Trimmed makes.
Clean(t) == t \in Path /\ t # <<>> /\ t[1] # Blank /\ t[Len(t)] # Blank

LEMMA Least ==
    ASSUME NEW s \in SUBSET Nat, s # {}
    PROVE  \E n \in s : \A m \in s : n <= m
<1> DEFINE R == OpToRel(<, Nat)
<1>1. R = {p \in Nat \X Nat : p[1] < p[2]}
  BY Zenon DEF OpToRel
<1>2. IsWellFoundedOn(R, Nat)
  BY Zenon, NatLessThanWellFounded
<1> HIDE DEF R
<1>3. \A x, y \in Nat : y < x => <<y, x>> \in R
  BY <1>1
<1>4. PICK x \in s : \A y \in s : ~(<<y, x>> \in R)
  BY Zenon, <1>2, WFMin
<1>5. \A y \in s : ~(y < x)
  BY <1>3, <1>4
<1> QED BY <1>4, <1>5

LEMMA Greatest ==
    ASSUME NEW N \in Nat, NEW s \in SUBSET (1..N), s # {}
    PROVE  \E n \in s : \A m \in s : n >= m
<1> DEFINE T == {N - n : n \in s}
<1>1. T \in SUBSET Nat /\ T # {}
  <2>1. \A n \in s : N - n \in Nat
    OBVIOUS
  <2> QED BY <2>1
<1> HIDE DEF T
<1>2. PICK x \in T : \A y \in T : x <= y
  BY Zenon, <1>1, Least
<1>3. PICK n \in s : x = N - n
  BY DEF T
<1>4. \A m \in s : N - m \in T
  BY DEF T
<1> QED BY <1>2, <1>3, <1>4

\* Trimming: what is left is clean, and a clean path is left as it is.
LEMMA TrimmedClean ==
    ASSUME NEW p \in Path, Trimmed(p) # <<>>
    PROVE  Clean(Trimmed(p))
<1> DEFINE full == {i \in 1..Len(p) : p[i] # Blank}
           first == CHOOSE i \in full : \A j \in full : i <= j
           last == CHOOSE i \in full : \A j \in full : i >= j
<1>1. Trimmed(p) = IF full = {} THEN <<>> ELSE SubSeq(p, first, last)
  BY Zenon DEF Trimmed, Blank
<1>2. full # {}
  BY <1>1
<1>3. full \in SUBSET Nat /\ full \in SUBSET (1..Len(p)) /\ Len(p) \in Nat
  <2>1. Len(p) \in Nat
    BY DEF Path
  <2>2. full \in SUBSET (1..Len(p))
    OBVIOUS
  <2>3. \A i \in 1..Len(p) : i \in Nat
    OBVIOUS
  <2> QED BY Zenon, <2>1, <2>2, <2>3
<1> HIDE DEF full
<1>4. \E i \in full : \A j \in full : i <= j
  BY Zenon, <1>2, <1>3, Least
<1>5. \E i \in full : \A j \in full : i >= j
  BY Zenon, <1>2, <1>3, Greatest
<1>6. first \in full /\ last \in full /\ first <= last
  <2>1. first \in full /\ \A j \in full : first <= j
    BY Zenon, <1>4
  <2>2. last \in full
    BY Zenon, <1>5
  <2> QED BY <2>1, <2>2
<1> HIDE DEF first, last
<1>7. Trimmed(p) = SubSeq(p, first, last)
  BY Zenon, <1>1, <1>2
<1>8. /\ first \in 1..Len(p) /\ last \in 1..Len(p) /\ first <= last
      /\ p[first] # Blank /\ p[last] # Blank
  BY <1>6 DEF full
<1> DEFINE t == SubSeq(p, first, last)
<1>9. /\ t \in Seq(Segment) /\ Len(t) = last - first + 1
      /\ \A i \in 1..last - first + 1 : t[i] = p[first + i - 1]
  <2>1. p \in Seq(Segment) /\ first \in 1..Len(p) /\ last \in 1..Len(p) /\ first <= last
    BY Zenon, <1>8 DEF Path
  <2>2. /\ \A i \in first..last : p[i] \in Segment
        /\ first \in Int /\ last \in Int
    <3>1. Len(p) \in Nat /\ \A i \in 1..Len(p) : p[i] \in Segment
      BY <2>1
    <3> HIDE DEF first, last
    <3>2. \A i \in first..last : i \in 1..Len(p)
      BY <2>1, <3>1
    <3>3. first \in Int /\ last \in Int
      BY <2>1, <3>1
    <3> QED BY Zenon, <3>1, <3>2, <3>3
  <2>3. /\ t \in Seq(Segment) /\ Len(t) = (IF first <= last THEN last - first + 1 ELSE 0)
        /\ \A i \in 1..last - first + 1 : t[i] = p[first + i - 1]
    BY <2>2, SubSeqProperties
  <2>4. first <= last
    BY Zenon, <2>1
  <2> HIDE DEF t, first, last
  <2> QED BY <2>3, <2>4
<1> HIDE DEF t
<1>10. t[1] = p[first] /\ t[Len(t)] = p[last] /\ t # <<>>
  <2>1. first \in Int /\ last \in Int /\ first <= last
    <3>1. \A i \in 1..Len(p) : i \in Int
      OBVIOUS
    <3> QED BY Zenon, <1>8, <3>1
  <2>2. 1 \in 1..last - first + 1 /\ last - first + 1 \in 1..last - first + 1
    BY <2>1
  <2>3. first + 1 - 1 = first /\ first + (last - first + 1) - 1 = last
    BY <2>1
  <2>4. Len(t) # 0
    BY <1>9, <2>1
  <2>5. t # <<>>
    BY <2>4
  <2> QED BY Zenon, <1>9, <2>2, <2>3, <2>5
<1> QED BY <1>7, <1>8, <1>9, <1>10 DEF Clean, t, Path

LEMMA CleanTrimmed ==
    ASSUME NEW t, Clean(t)
    PROVE  Trimmed(t) = t
<1> DEFINE full == {i \in 1..Len(t) : t[i] # Blank}
<1>1. t \in Seq(Segment) /\ Len(t) \in Nat /\ Len(t) >= 1
  BY DEF Clean, Path
<1>2. 1 \in full /\ Len(t) \in full /\ \A j \in full : 1 <= j /\ j <= Len(t)
  BY <1>1 DEF Clean
<1> HIDE DEF full
<1>3. full \subseteq 1..Len(t)
  BY DEF full
<1>4. \A i \in full : (\A j \in full : i <= j) => i = 1
  BY <1>1, <1>2, <1>3
<1>5. \A i \in full : (\A j \in full : i >= j) => i = Len(t)
  BY <1>1, <1>2, <1>3
<1>6. \A j \in full : 1 <= j /\ Len(t) >= j
  BY <1>1, <1>2, <1>3
<1>7. (CHOOSE i \in full : \A j \in full : i <= j) = 1
  BY Zenon, <1>2, <1>4, <1>6
<1>8. (CHOOSE i \in full : \A j \in full : i >= j) = Len(t)
  BY Zenon, <1>2, <1>5, <1>6
<1>9. Trimmed(t) = IF full = {} THEN <<>>
                   ELSE SubSeq(t, CHOOSE i \in full : \A j \in full : i <= j,
                                  CHOOSE i \in full : \A j \in full : i >= j)
  BY Zenon DEF Trimmed, full, Blank
<1>10. full # {}
  BY Zenon, <1>2
<1>11. Trimmed(t) = SubSeq(t, 1, Len(t))
  BY Zenon, <1>7, <1>8, <1>9, <1>10
<1> QED BY Zenon, <1>1, <1>11, SubSeqFull

\* A path and a leaf below it.
LEMMA BelowPath ==
    ASSUME NEW t \in Path, t # <<>>, NEW leaf \in Segment
    PROVE  /\ t \o <<leaf>> \in Path /\ Append(t, leaf) = t \o <<leaf>>
           /\ Len(t \o <<leaf>>) = Len(t) + 1 /\ Len(t) \in Nat \ {0}
           /\ \A i \in 1..Len(t) : (t \o <<leaf>>)[i] = t[i]
           /\ Last(t \o <<leaf>>) = leaf
           /\ Front(t \o <<leaf>>) = t
           /\ NameOf(t \o <<leaf>>) = NameOf(t)
<1>1. t \in Seq(Segment) /\ Len(t) \in Nat \ {0} /\ <<leaf>> \in Seq(Segment)
  BY DEF Path
<1> DEFINE p == t \o <<leaf>>
<1>2. /\ p \in Seq(Segment) /\ Len(p) = Len(t) + 1
      /\ \A i \in 1..Len(t) : p[i] = t[i]
      /\ p[Len(t) + 1] = leaf
  BY <1>1
<1>3. Append(t, leaf) = p
  BY <1>1, AppendIsConcat
<1> HIDE DEF p
<1>4. SubSeq(p, 1, Len(t)) = t
  <2>1. /\ SubSeq(p, 1, Len(t)) \in Seq(Segment) /\ Len(SubSeq(p, 1, Len(t))) = Len(t)
        /\ \A i \in 1..Len(t) : SubSeq(p, 1, Len(t))[i] = p[i]
    <3>1. \A i \in 1..Len(t) : p[i] \in Segment
      BY <1>1, <1>2
    <3> QED BY <1>1, <3>1, SubSeqProperties
  <2> QED BY <1>1, <1>2, <2>1, SeqEqual
<1>5. Last(p) = leaf /\ Front(p) = t
  BY <1>1, <1>2, <1>4 DEF Last, Front
<1>6. NameOf(p) = NameOf(t)
  BY <1>1, <1>2 DEF NameOf
<1> QED BY <1>1, <1>2, <1>3, <1>5, <1>6 DEF p, Path

Parent == {Trimmed(q) : q \in Parents}

LEMMA ParentClean ==
    ASSUME NEW t \in Parent
    PROVE  Clean(t) /\ Trimmed(t) = t
<1>1. PICK q \in Parents : t = Trimmed(q)
  BY DEF Parent
<1>2. q \in Path /\ Trimmed(q) # <<>>
  BY ProjectsAssumption, NamesAssumption DEF Path, Segment
<1> QED BY <1>1, <1>2, TrimmedClean, CleanTrimmed

---------------------------------------------------------------------------
(* The store: what is in it belongs to a project that is there. *)

ItemRecord == [made : {"item", Bundle}, at : Parent, meta : BOOLEAN, deprecated : BOOLEAN]

LeafPaths == {LeafPath(t, name, kind) : t \in Parent, name \in ItemNames, kind \in Kinds \cup {Bundle}}

KindOk(i, made) ==
    /\ made = Bundle => Last(Last(i)) = Bundle
    /\ Lower[Last(Last(i))] \in ReservedKinds => made = Bundle

SpacesInv == spaces \subseteq Path /\ \A s \in spaces : \E p \in Ids : Under(s, p)

\* Where an item lies is a project's that is there.
Homed(i) == \E p \in Ids : Under(items[i].at, p)

ItemsInv ==
    /\ items \in [DOMAIN items -> ItemRecord]
    /\ \A i \in DOMAIN items : Homed(i) /\ i \in LeafPaths /\ KindOk(i, items[i].made)
    /\ \A m \in members : m[1] \in DOMAIN items /\ m[2] \in DOMAIN items

SnapshotsInv == snapshots \in Seq([project : Nat, content : SUBSET Path])

Store == SpacesInv /\ ItemsInv /\ guards \subseteq Ids /\ SnapshotsInv

LEMMA LeafShape ==
    ASSUME NEW name \in ItemNames, NEW kind \in Kinds \cup {Bundle}
    PROVE  /\ name \o <<kind>> \in Segment /\ name \o <<kind>> # <<>>
           /\ Last(name \o <<kind>>) = kind /\ Front(name \o <<kind>>) = name
<1> DEFINE leaf == name \o <<kind>>
<1>1. name \in Seq(STRING) /\ kind \in STRING
  <2>1. ItemNames \subseteq Seq(STRING) /\ Kinds \cup {Bundle} \subseteq STRING
    BY Zenon, NamesAssumption
  <2> QED BY Zenon, <2>1
<1>2. /\ leaf \in Seq(STRING) /\ Len(leaf) = Len(name) + 1 /\ Len(name) \in Nat
      /\ leaf[Len(name) + 1] = kind /\ \A i \in 1..Len(name) : leaf[i] = name[i]
  BY <1>1
<1> HIDE DEF leaf
<1>3. SubSeq(leaf, 1, Len(name)) = name
  <2>1. \A i \in 1..Len(name) : leaf[i] \in STRING
    BY <1>2
  <2>2. /\ SubSeq(leaf, 1, Len(name)) \in Seq(STRING)
        /\ Len(SubSeq(leaf, 1, Len(name))) = Len(name)
        /\ \A i \in 1..Len(name) : SubSeq(leaf, 1, Len(name))[i] = leaf[i]
    BY <1>2, <2>1, SubSeqProperties
  <2> QED BY <1>1, <1>2, <2>2, SeqEqual
<1>4. Last(leaf) = kind /\ Front(leaf) = name /\ leaf # <<>>
  BY <1>2, <1>3 DEF Last, Front
<1> QED BY Zenon, <1>2, <1>4 DEF leaf, Segment

LEMMA LeafAbove ==
    ASSUME NEW t \in Parent, NEW name \in ItemNames, NEW kind \in Kinds \cup {Bundle}
    PROVE  /\ LeafPath(t, name, kind) = t \o <<name \o <<kind>>>>
           /\ LeafPath(t, name, kind) \in Path
           /\ Last(LeafPath(t, name, kind)) = name \o <<kind>>
           /\ Front(LeafPath(t, name, kind)) = t
           /\ NameOf(LeafPath(t, name, kind)) = NameOf(t)
<1> DEFINE leaf == name \o <<kind>>
<1>1. Clean(t) /\ Trimmed(t) = t
  BY Zenon, ParentClean
<1>2. leaf \in Segment
  BY Zenon, LeafShape
<1>3. LeafPath(t, name, kind) = t \o <<leaf>>
  BY Zenon, <1>1 DEF LeafPath
<1> HIDE DEF leaf
<1>4. t \in Path /\ t # <<>>
  BY Zenon, <1>1 DEF Clean
<1>5. /\ t \o <<leaf>> \in Path /\ Last(t \o <<leaf>>) = leaf /\ Front(t \o <<leaf>>) = t
      /\ NameOf(t \o <<leaf>>) = NameOf(t)
  BY Zenon, <1>2, <1>4, BelowPath
<1> QED BY Zenon, <1>3, <1>5 DEF leaf

\* What has the name of a project that is there is under it.
LEMMA ParentHolds ==
    ASSUME NEW x, ParentExists(x), NEW y, NameOf(y) = NameOf(x)
    PROVE  \E p \in Ids : Under(y, p)
<1>1. PICK p \in Ids : projects[p].name = NameOf(x) /\ projects[p].status \in {"active"}
  BY DEF ParentExists, Named
<1> QED BY <1>1 DEF Under, Exists

\* Projects keep their names, and stay when nothing is destroyed.
Stay == Ids \subseteq Ids' /\ \A p \in Ids : projects'[p].name = projects[p].name
                                             /\ (Exists(p) => Exists(p)')

LEMMA UnderStays ==
    ASSUME Stay, NEW x, \E p \in Ids : Under(x, p)
    PROVE  \E p \in Ids' : Under(x, p)'
BY DEF Stay, Under

LEMMA HomedStays ==
    ASSUME Stay, NEW i, Homed(i), items'[i].at = items[i].at
    PROVE  Homed(i)'
<1>1. PICK a : a = items[i].at
  OBVIOUS
<1>2. PICK p \in Ids : Under(a, p)
  BY <1>1 DEF Homed
<1>3. p \in Ids' /\ Under(a, p)'
  BY <1>2 DEF Stay, Under
<1> QED BY <1>1, <1>3 DEF Homed, Under

LEMMA SteadyStore ==
    ASSUME Inv, Store, Stay, UNCHANGED <<spaces, items, members>>, guards' \subseteq Ids',
           SnapshotsInv'
    PROVE  Store'
<1>1. SpacesInv'
  BY UnderStays DEF Store, SpacesInv
<1>2. ItemsInv'
  <2>1. \A i \in DOMAIN items : Homed(i)'
    BY HomedStays DEF Store, ItemsInv
  <2> QED BY <2>1 DEF Store, ItemsInv
<1> QED BY <1>1, <1>2 DEF Store

LEMMA SameProjectsStay == UNCHANGED projects => Stay
BY DEF Stay, Ids, Exists

---------------------------------------------------------------------------
(* What the RPCs make of the store. *)

LEMMA CreateProjectStores ==
    ASSUME Inv, Store, NEW name \in Names, CreateProjectRpc(name)
    PROVE  Store' /\ Ids \subseteq Ids' /\ Len(projects') \in Ids' /\ UNCHANGED snapshots
<1> DEFINE r == [name |-> name, status |-> "active", public |-> FALSE]
<1>1. /\ projects \in Seq(ProjectRecord) /\ projects' = Append(projects, r)
      /\ UNCHANGED <<spaces, items, members, snapshots, guards>>
  BY DEF Inv, CreateProjectRpc
<1>2. r \in ProjectRecord
  BY DEF ProjectRecord
<1> HIDE DEF r
<1>3. /\ Len(projects) \in Nat /\ Len(projects') = Len(projects) + 1
      /\ \A p \in 1..Len(projects) : projects'[p] = projects[p]
  BY <1>1, <1>2
<1>4. Ids \subseteq Ids' /\ Len(projects') \in Ids' /\ \A p \in Ids : projects'[p] = projects[p]
  BY <1>3 DEF Ids
<1>5. Stay
  BY <1>4 DEF Stay, Exists
<1>6. SnapshotsInv' /\ guards' \subseteq Ids'
  BY <1>1, <1>4 DEF Store, SnapshotsInv
<1>7. Store'
  BY <1>1, <1>5, <1>6, SteadyStore
<1> QED BY <1>1, <1>4, <1>7

LEMMA UpdateProjectStores ==
    ASSUME Inv, Store, NEW p,
           \/ UpdateProjectRpc(p, "public", TRUE)
           \/ \E status \in {"active", "archived"} : UpdateProjectRpc(p, "status", status)
    PROVE  Store' /\ Ids' = Ids /\ UNCHANGED snapshots
<1>1. /\ p \in Ids /\ projects \in Seq(ProjectRecord) /\ Ids = 1..Len(projects)
      /\ UNCHANGED <<spaces, items, members, snapshots, guards>>
      /\ projects[p].status \in {"active", "archived"}
  BY DEF UpdateProjectRpc, Exists, Inv, Ids
<1>2. PICK r \in ProjectRecord : /\ projects' = [projects EXCEPT ![p] = r]
                                 /\ r.name = projects[p].name
                                 /\ r.status \in {"active", "archived"}
  <2>1. projects[p] \in ProjectRecord
    BY <1>1
  <2>2. CASE UpdateProjectRpc(p, "public", TRUE)
    <3> DEFINE r == [projects[p] EXCEPT !.public = TRUE]
    <3>1. projects' = [projects EXCEPT ![p] = r]
      BY <2>2 DEF UpdateProjectRpc
    <3>2. r \in ProjectRecord /\ r.name = projects[p].name /\ r.status = projects[p].status
      BY <2>1 DEF ProjectRecord
    <3> HIDE DEF r
    <3> QED BY <1>1, <3>1, <3>2
  <2>3. ASSUME NEW status \in {"active", "archived"}, UpdateProjectRpc(p, "status", status)
        PROVE  \E r \in ProjectRecord : /\ projects' = [projects EXCEPT ![p] = r]
                                        /\ r.name = projects[p].name
                                        /\ r.status \in {"active", "archived"}
    <3> DEFINE r == [projects[p] EXCEPT !.status = status]
    <3>1. projects' = [projects EXCEPT ![p] = r]
      BY <2>3 DEF UpdateProjectRpc
    <3>2. r \in ProjectRecord /\ r.name = projects[p].name /\ r.status = status
      BY <2>1 DEF ProjectRecord
    <3> HIDE DEF r
    <3> QED BY <3>1, <3>2
  <2> QED BY <2>2, <2>3
<1>3. /\ Ids' = Ids
      /\ \A i \in Ids : projects'[i] = IF i = p THEN r ELSE projects[i]
  BY <1>1, <1>2 DEF Ids
<1>4. Stay
  BY <1>2, <1>3 DEF Stay, Exists
<1>5. SnapshotsInv' /\ guards' \subseteq Ids'
  BY <1>1, <1>3 DEF Store, SnapshotsInv
<1> QED BY <1>1, <1>3, <1>4, <1>5, SteadyStore

\* A project that is destroyed takes what lies under it along, and nothing else.
LEMMA DestroyStores ==
    ASSUME Inv, Store, NEW p, Exists(p), NEW how \in {"forced", "destroyed"}, Destroy(p, how)
    PROVE  Store' /\ Ids' = Ids /\ UNCHANGED snapshots
<1> DEFINE r == [projects[p] EXCEPT !.status = how]
<1>1. /\ p \in Ids /\ projects \in Seq(ProjectRecord) /\ Ids = 1..Len(projects)
      /\ projects' = [projects EXCEPT ![p] = r]
      /\ spaces' = {s \in spaces : ~Under(s, p)}
      /\ items' = [i \in DOMAIN items \ Held(p) |-> items[i]]
      /\ members' = {m \in members : m[1] \notin Held(p) /\ m[2] \notin Held(p)}
      /\ guards' = guards \ {p} /\ UNCHANGED snapshots
  BY DEF Exists, Destroy, DropItems, Inv, Ids
<1> HIDE DEF r
<1>2. Ids' = Ids /\ \A i \in Ids : i # p => projects'[i] = projects[i]
  BY <1>1 DEF Ids
<1>3. ASSUME NEW x, \E i \in Ids : Under(x, i), ~Under(x, p)
      PROVE  \E i \in Ids' : Under(x, i)'
  <2>1. PICK i \in Ids : Under(x, i) /\ i # p
    BY <1>3
  <2> QED BY <1>2, <2>1 DEF Under, Exists
<1>4. SpacesInv'
  BY <1>1, <1>3 DEF Store, SpacesInv
<1>5. ItemsInv'
  <2>1. /\ DOMAIN items' = DOMAIN items \ Held(p)
        /\ \A i \in DOMAIN items' : items'[i] = items[i] /\ items[i] \in ItemRecord
    BY <1>1 DEF Store, ItemsInv
  <2>2. items' \in [DOMAIN items' -> ItemRecord]
    BY <1>1, <2>1
  <2>3. ASSUME NEW i \in DOMAIN items'
        PROVE  Homed(i)' /\ i \in LeafPaths /\ KindOk(i, items'[i].made)
    <3>1. PICK a : a = items[i].at /\ a = items'[i].at
      BY <2>1
    <3>2. ~Under(a, p) /\ \E q \in Ids : Under(a, q)
      BY <2>1, <3>1 DEF Held, Store, ItemsInv, Homed
    <3>3. \E q \in Ids' : Under(a, q)'
      BY <1>3, <3>2
    <3>4. Homed(i)'
      BY <3>1, <3>3 DEF Homed, Under
    <3> QED BY <2>1, <3>4 DEF Store, ItemsInv
  <2>4. \A m \in members' : m[1] \in DOMAIN items' /\ m[2] \in DOMAIN items'
    BY <1>1, <2>1 DEF Store, ItemsInv
  <2> QED BY <2>2, <2>3, <2>4 DEF ItemsInv
<1>6. guards' \subseteq Ids' /\ SnapshotsInv'
  BY <1>1, <1>2 DEF Store, SnapshotsInv
<1> QED BY <1>1, <1>2, <1>4, <1>5, <1>6 DEF Store

LEMMA DeleteProjectStores ==
    ASSUME Inv, Store, NEW p, NEW force \in BOOLEAN, DeleteProjectRpc(p, force)
    PROVE  Store' /\ Ids' = Ids /\ UNCHANGED snapshots
<1>1. CASE force = TRUE
  BY <1>1, DestroyStores DEF DeleteProjectRpc
<1>2. CASE force = FALSE
  BY <1>2, UpdateProjectStores DEF DeleteProjectRpc
<1> QED BY <1>1, <1>2

LEMMA HardDeleteStores ==
    ASSUME Inv, Store, NEW p, NEW snap, HardDeleteProjectRpc(p, snap, TRUE)
    PROVE  Store' /\ Ids' = Ids /\ UNCHANGED snapshots
BY DestroyStores DEF HardDeleteProjectRpc, Accepts, Exists

LEMMA LeafIn ==
    ASSUME NEW t \in Parent, NEW name \in ItemNames, NEW kind \in Kinds \cup {Bundle}
    PROVE  LeafPath(t, name, kind) \in LeafPaths
BY DEF LeafPaths

LEMMA LeafTyped ==
    ASSUME NEW i \in LeafPaths
    PROVE  i \in Path /\ Last(i) # <<>> /\ Front(i) \in Parent
<1>1. PICK t \in Parent, name \in ItemNames, kind \in Kinds \cup {Bundle} : i = LeafPath(t, name, kind)
  BY DEF LeafPaths
<1>2. name \o <<kind>> # <<>>
  BY Zenon, LeafShape
<1>3. /\ LeafPath(t, name, kind) \in Path /\ Last(LeafPath(t, name, kind)) = name \o <<kind>>
      /\ Front(LeafPath(t, name, kind)) = t
  BY Zenon, LeafAbove
<1> QED BY Zenon, <1>1, <1>2, <1>3

LEMMA AnalyzeStores ==
    ASSUME Inv, Store, NEW p, AnalyzeProjectDeletionRpc(p)
    PROVE  /\ Store' /\ Ids' = Ids
           /\ Len(snapshots) \in Nat /\ Len(snapshots') = Len(snapshots) + 1
<1> DEFINE s == [project |-> p, content |-> Content(p)]
<1>1. /\ p \in Ids /\ snapshots' = Append(snapshots, s)
      /\ UNCHANGED <<projects, spaces, items, members, guards>>
  BY DEF AnalyzeProjectDeletionRpc, Exists
<1>2. s \in [project : Nat, content : SUBSET Path]
  <2>1. p \in Nat
    BY <1>1 DEF Ids, Inv
  <2>2. Content(p) \subseteq Path
    BY LeafTyped DEF Content, Held, Store, SpacesInv, ItemsInv
  <2> QED BY <2>1, <2>2
<1> HIDE DEF s
<1>3. SnapshotsInv' /\ Len(snapshots) \in Nat /\ Len(snapshots') = Len(snapshots) + 1
  BY <1>1, <1>2 DEF Store, SnapshotsInv
<1>4. Ids' = Ids /\ Stay
  BY <1>1, SameProjectsStay DEF Ids
<1>5. guards' \subseteq Ids'
  BY <1>1, <1>4 DEF Store
<1> QED BY <1>1, <1>3, <1>4, <1>5, SteadyStore

LEMMA GuardStores ==
    ASSUME Inv, Store, NEW p, NEW set, GuardRpc(p, set)
    PROVE  Store' /\ Ids' = Ids /\ UNCHANGED snapshots
<1>1. /\ p \in Ids /\ guards' \subseteq guards \cup {p}
      /\ UNCHANGED <<projects, spaces, items, members, snapshots>>
  BY DEF GuardRpc, Exists
<1>2. Ids' = Ids /\ Stay
  BY <1>1, SameProjectsStay DEF Ids
<1>3. guards' \subseteq Ids' /\ SnapshotsInv'
  BY <1>1, <1>2 DEF Store, SnapshotsInv
<1> QED BY <1>1, <1>2, <1>3, SteadyStore

Below == UNCHANGED <<projects, snapshots, guards>>

\* Nothing of the projects has changed: it is enough to look at what is in them.
LEMMA ContentStores ==
    ASSUME Inv, Store, Below, SpacesInv', ItemsInv'
    PROVE  Store' /\ Ids' = Ids /\ UNCHANGED snapshots
BY DEF Below, Store, SnapshotsInv, Ids

LEMMA SpacesSteady ==
    ASSUME Store, UNCHANGED projects, spaces' \subseteq spaces
    PROVE  SpacesInv'
<1>1. Stay
  BY SameProjectsStay
<1> QED BY <1>1, UnderStays DEF Store, SpacesInv

LEMMA ItemsSteady ==
    ASSUME Store, UNCHANGED <<projects, items, members>>
    PROVE  ItemsInv'
<1>1. Stay
  BY SameProjectsStay
<1>2. \A i \in DOMAIN items : Homed(i)'
  BY <1>1, HomedStays DEF Store, ItemsInv
<1> QED BY <1>2 DEF Store, ItemsInv

LEMMA CreateSpaceStores ==
    ASSUME Inv, Store, NEW parent, Trimmed(parent) \in Parent, NEW segment \in Segment,
           CreateSpaceRpc(parent, segment)
    PROVE  Store' /\ Ids' = Ids /\ UNCHANGED snapshots
<1> DEFINE t == Trimmed(parent)
           path == Append(t, segment)
<1>1. /\ ParentExists(t) /\ spaces' = spaces \cup {path} /\ Below /\ UNCHANGED <<items, members>>
  BY DEF CreateSpaceRpc, Below
<1>2. Clean(t)
  BY ParentClean
<1>3. path \in Path /\ NameOf(path) = NameOf(t)
  BY <1>2, BelowPath DEF Clean
<1>4. \E p \in Ids : Under(path, p)
  BY Zenon, <1>1, <1>3, ParentHolds
<1> HIDE DEF path, t
<1>5. Stay
  BY <1>1, SameProjectsStay DEF Below
<1>6. \A s \in spaces' : s \in Path /\ \E p \in Ids' : Under(s, p)'
  <2>1. ASSUME NEW s \in spaces \cup {path} PROVE s \in Path /\ \E p \in Ids : Under(s, p)
    BY <1>3, <1>4 DEF Store, SpacesInv
  <2> QED BY <1>1, <1>5, <2>1, UnderStays
<1>7. SpacesInv'
  BY <1>6 DEF SpacesInv
<1>8. ItemsInv'
  BY <1>1, ItemsSteady DEF Below
<1> QED BY <1>1, <1>7, <1>8, ContentStores

LEMMA CreateStores ==
    ASSUME Inv, Store, NEW path \in LeafPaths, NEW made \in {"item", Bundle}, KindOk(path, made),
           CreateRpc(path, made)
    PROVE  Store' /\ Ids' = Ids /\ UNCHANGED snapshots
<1> DEFINE r == NewItem(made, Front(path))
<1>1. /\ ParentExists(Front(path)) /\ Below /\ UNCHANGED <<spaces, members>>
      /\ items' = [i \in DOMAIN items \cup {path} |-> IF i = path THEN r ELSE items[i]]
      /\ path \notin DOMAIN items
  BY DEF CreateRpc, Below
<1>2. r \in ItemRecord /\ r.made = made /\ r.at = Front(path)
  BY LeafTyped DEF NewItem, ItemRecord
<1> HIDE DEF r
<1>3. PICK a : a = Front(path)
  OBVIOUS
<1>4. \E p \in Ids : Under(a, p)
  BY <1>1, <1>3, ParentHolds
<1>5. Stay
  BY <1>1, SameProjectsStay DEF Below
<1>6. ItemsInv'
  <2>1. /\ DOMAIN items' = DOMAIN items \cup {path}
        /\ \A i \in DOMAIN items : items'[i] = items[i] /\ items[i] \in ItemRecord
        /\ items'[path] = r
    BY <1>1 DEF Store, ItemsInv
  <2>2. \A i \in DOMAIN items' : items'[i] \in ItemRecord
    BY <1>2, <2>1
  <2>3. items' \in [DOMAIN items' -> ItemRecord]
    BY <1>1, <2>2
  <2>4. \A i \in DOMAIN items' : i \in LeafPaths /\ KindOk(i, items'[i].made)
    BY <1>2, <2>1 DEF Store, ItemsInv
  <2>5. ASSUME NEW i \in DOMAIN items' PROVE Homed(i)'
    <3>1. CASE i = path
      <4>1. items'[i].at = a /\ \E p \in Ids' : Under(a, p)'
        BY <1>2, <1>3, <1>4, <1>5, <2>1, <3>1, UnderStays
      <4> QED BY <4>1 DEF Homed, Under
    <3>2. CASE i # path
      BY <1>5, <2>1, <3>2, HomedStays DEF Store, ItemsInv
    <3> QED BY <3>1, <3>2
  <2>6. \A m \in members' : m[1] \in DOMAIN items' /\ m[2] \in DOMAIN items'
    BY <1>1, <2>1 DEF Store, ItemsInv
  <2> QED BY <2>3, <2>4, <2>5, <2>6 DEF ItemsInv
<1>7. SpacesInv'
  BY <1>1, SpacesSteady DEF Below
<1> QED BY <1>1, <1>6, <1>7, ContentStores

LEMMA CreateItemStores ==
    ASSUME Inv, Store, NEW parent, Trimmed(parent) \in Parent, NEW name \in ItemNames,
           \/ \E kind \in Kinds : ~Reserved(kind) /\ CreateItemRpc(parent, name, kind)
           \/ CreateBundleRpc(parent, name)
    PROVE  Store' /\ Ids' = Ids /\ UNCHANGED snapshots
<1>1. PICK kind \in Kinds \cup {Bundle}, made \in {"item", Bundle} :
        /\ CreateRpc(LeafPath(parent, name, kind), made)
        /\ made = Bundle => kind = Bundle
        /\ Lower[kind] \in ReservedKinds => made = Bundle
  <2>1. CASE \E kind \in Kinds : ~Reserved(kind) /\ CreateItemRpc(parent, name, kind)
    BY <2>1 DEF CreateItemRpc, Reserved, Bundle
  <2>2. CASE CreateBundleRpc(parent, name)
    BY <2>2 DEF CreateBundleRpc
  <2> QED BY <2>1, <2>2
<1> DEFINE t == Trimmed(parent)
           path == LeafPath(t, name, kind)
           leaf == name \o <<kind>>
<1>2. Trimmed(t) = t
  BY ParentClean
<1>3. LeafPath(parent, name, kind) = path
  BY Zenon, <1>2 DEF LeafPath
<1>4. path \in LeafPaths
  BY Zenon, LeafIn
<1>5. Last(path) = leaf /\ Last(leaf) = kind
  BY Zenon, LeafShape, LeafAbove
<1> HIDE DEF path, leaf
<1>6. KindOk(path, made)
  BY Zenon, <1>1, <1>5 DEF KindOk
<1>7. CreateRpc(path, made)
  BY Zenon, <1>1, <1>3
<1> QED BY <1>4, <1>6, <1>7, CreateStores

LEMMA UpdateItemStores ==
    ASSUME Inv, Store, NEW path, NEW field, UpdateItemRpc(path, field)
    PROVE  Store' /\ Ids' = Ids /\ UNCHANGED snapshots
<1>1. /\ path \in DOMAIN items /\ Below /\ UNCHANGED <<spaces, members>>
      /\ items[path] \in ItemRecord
  BY DEF UpdateItemRpc, Below, Store, ItemsInv
<1>2. PICK r \in ItemRecord : /\ r.made = items[path].made /\ r.at = items[path].at
                              /\ items' = [items EXCEPT ![path] = r]
  <2>1. CASE items' = [items EXCEPT ![path].meta = TRUE]
    <3> DEFINE r == [items[path] EXCEPT !.meta = TRUE]
    <3>1. r \in ItemRecord /\ r.made = items[path].made /\ r.at = items[path].at
      BY <1>1 DEF ItemRecord
    <3> QED BY <2>1, <3>1
  <2>2. CASE items' = [items EXCEPT ![path].deprecated = ~@]
    <3> DEFINE r == [items[path] EXCEPT !.deprecated = ~@]
    <3>1. r \in ItemRecord /\ r.made = items[path].made /\ r.at = items[path].at
      BY <1>1 DEF ItemRecord
    <3> QED BY <2>2, <3>1
  <2> QED BY <2>1, <2>2 DEF UpdateItemRpc
<1>3. /\ DOMAIN items' = DOMAIN items /\ items' \in [DOMAIN items -> ItemRecord]
      /\ \A i \in DOMAIN items : items'[i] = IF i = path THEN r ELSE items[i]
  BY <1>1, <1>2 DEF Store, ItemsInv
<1>4. \A i \in DOMAIN items : items'[i].made = items[i].made /\ items'[i].at = items[i].at
  BY <1>2, <1>3
<1>5. Stay
  BY <1>1, SameProjectsStay DEF Below
<1>6. ItemsInv'
  <2>1. \A i \in DOMAIN items : Homed(i)'
    BY <1>4, <1>5, HomedStays DEF Store, ItemsInv
  <2> QED BY <1>1, <1>3, <1>4, <2>1 DEF Store, ItemsInv
<1>7. SpacesInv'
  BY <1>1, SpacesSteady DEF Below
<1> QED BY <1>1, <1>6, <1>7, ContentStores

LEMMA DropStores ==
    ASSUME Inv, Store, NEW gone, DropItems(gone), Below, spaces' \subseteq spaces
    PROVE  Store' /\ Ids' = Ids /\ UNCHANGED snapshots
<1>1. /\ items' = [i \in DOMAIN items \ gone |-> items[i]]
      /\ members' = {m \in members : m[1] \notin gone /\ m[2] \notin gone}
  BY DEF DropItems
<1>2. Stay
  BY SameProjectsStay DEF Below
<1>3. ItemsInv'
  <2>1. /\ DOMAIN items' = DOMAIN items \ gone
        /\ \A i \in DOMAIN items' : items'[i] = items[i] /\ items[i] \in ItemRecord
    BY <1>1 DEF Store, ItemsInv
  <2>2. items' \in [DOMAIN items' -> ItemRecord]
    BY <1>1, <2>1
  <2>3. \A i \in DOMAIN items' : Homed(i)' /\ i \in LeafPaths /\ KindOk(i, items'[i].made)
    BY <1>2, <2>1, HomedStays DEF Store, ItemsInv
  <2>4. \A m \in members' : m[1] \in DOMAIN items' /\ m[2] \in DOMAIN items'
    BY <1>1, <2>1 DEF Store, ItemsInv
  <2> QED BY <2>2, <2>3, <2>4 DEF ItemsInv
<1>4. SpacesInv'
  BY SpacesSteady DEF Below
<1> QED BY <1>3, <1>4, ContentStores

LEMMA DeleteItemStores ==
    ASSUME Inv, Store, NEW path, DeleteItemRpc(path)
    PROVE  Store' /\ Ids' = Ids /\ UNCHANGED snapshots
BY DropStores DEF DeleteItemRpc, Below

LEMMA DeleteSpaceStores ==
    ASSUME Inv, Store, NEW path, NEW force, DeleteSpaceRpc(path, force)
    PROVE  Store' /\ Ids' = Ids /\ UNCHANGED snapshots
<1>1. PICK gone : DropItems(gone) /\ Below /\ spaces' \subseteq spaces
  BY DEF DeleteSpaceRpc, Below
<1> QED BY <1>1, DropStores

\* An item keeps its reference when it moves, and its place in bundles.
LEMMA MoveStores ==
    ASSUME Inv, Store, NEW path, NEW space \in Parent, MoveItemRpc(path, space)
    PROVE  Store' /\ Ids' = Ids /\ UNCHANGED snapshots
<1>1. /\ path \in DOMAIN items /\ ParentExists(space)
      /\ items' = [items EXCEPT ![path].at = space]
      /\ Below /\ UNCHANGED <<spaces, members>>
  BY DEF MoveItemRpc, Below
<1>2. PICK r \in ItemRecord : /\ r.made = items[path].made /\ r.at = space
                              /\ items' = [items EXCEPT ![path] = r]
  <2> DEFINE r == [items[path] EXCEPT !.at = space]
  <2>1. items[path] \in ItemRecord
    BY <1>1 DEF Store, ItemsInv
  <2>2. r \in ItemRecord /\ r.made = items[path].made /\ r.at = space
    BY <2>1 DEF ItemRecord
  <2> QED BY <1>1, <2>2
<1>3. /\ DOMAIN items' = DOMAIN items /\ items' \in [DOMAIN items -> ItemRecord]
      /\ \A i \in DOMAIN items : items'[i] = IF i = path THEN r ELSE items[i]
  BY <1>1, <1>2 DEF Store, ItemsInv
<1>4. Stay
  BY <1>1, SameProjectsStay DEF Below
<1>5. ASSUME NEW i \in DOMAIN items PROVE Homed(i)' /\ items'[i].made = items[i].made
  <2>1. CASE i = path
    <3>1. \E p \in Ids : Under(space, p)
      BY <1>1, ParentHolds
    <3>2. items'[i].at = space /\ \E p \in Ids' : Under(space, p)'
      BY <1>2, <1>3, <1>4, <2>1, <3>1, UnderStays
    <3>3. Homed(i)'
      BY <3>2 DEF Homed, Under
    <3> QED BY <1>2, <1>3, <2>1, <3>3
  <2>2. CASE i # path
    BY <1>3, <1>4, <2>2, HomedStays DEF Store, ItemsInv
  <2> QED BY <2>1, <2>2
<1>6. ItemsInv'
  BY <1>1, <1>3, <1>5 DEF Store, ItemsInv
<1>7. SpacesInv'
  BY <1>1, SpacesSteady DEF Below
<1> QED BY <1>1, <1>6, <1>7, ContentStores

LEMMA MemberStores ==
    ASSUME Inv, Store, NEW b, NEW i, AddMemberRpc(b, i) \/ RemoveMemberRpc(b, i)
    PROVE  Store' /\ Ids' = Ids /\ UNCHANGED snapshots
<1>1. /\ Below /\ UNCHANGED <<spaces, items>>
      /\ \A m \in members' : m \in members \/ (m = <<b, i>> /\ {b, i} \subseteq DOMAIN items)
  BY DEF AddMemberRpc, RemoveMemberRpc, Below
<1>2. \A m \in members' : m[1] \in DOMAIN items' /\ m[2] \in DOMAIN items'
  BY <1>1 DEF Store, ItemsInv
<1>3. Stay
  BY <1>1, SameProjectsStay DEF Below
<1>4. ItemsInv'
  <2>1. \A j \in DOMAIN items : Homed(j)'
    BY <1>1, <1>3, HomedStays DEF Store, ItemsInv
  <2> QED BY <1>1, <1>2, <2>1 DEF Store, ItemsInv
<1>5. SpacesInv'
  BY <1>1, SpacesSteady DEF Below
<1> QED BY <1>1, <1>4, <1>5, ContentStores

---------------------------------------------------------------------------
(* What the application and the call hold is of the store. *)

CreateOps == {"create_space", "create_bundle", "create_item"}

\* Where a call creates is a parent, until it has created; and what looks for a space or
\* deletes has found its project.
Placed(t) ==
    /\ t.op \in CreateOps /\ t.pc \in {"find", "space", "create"} => t.path \in Parent
    /\ t.pc \in {"space", "delete"} => t.id # 0

AppInv == /\ app = [id |-> app.id, archived |-> app.archived, impacts |-> app.impacts]
          /\ app.id \in {0} \cup Ids /\ app.archived \in BOOLEAN
SeenInv == seen \cup app.impacts \subseteq 1..Len(snapshots)
ToolInv == tool.id \in {0} \cup Ids /\ Placed(tool)
Counted == writes \in 0..MaxWrites /\ faults \in 0..MaxFaults

Holders == AppInv /\ SeenInv /\ ToolInv /\ Counted

LEMMA FindIs ==
    ASSUME NEW name, NEW archived
    PROVE  Find(name, archived) \in {0} \cup Ids
<1> DEFINE s == Named(name, IF archived THEN {"active", "archived"} ELSE {"active"})
<1>1. s \subseteq Ids /\ Find(name, archived) = One(s)
  BY Zenon DEF Find, Named
<1> HIDE DEF s
<1>2. One(s) \in {0} \cup s
  BY DEF One
<1> QED BY <1>1, <1>2

LEMMA LastSegment ==
    ASSUME NEW t \in Parent
    PROVE  Last(t) \in Segment
<1>1. t \in Seq(Segment) /\ t # <<>>
  BY ParentClean DEF Clean, Path
<1> HIDE DEF Segment
<1> QED BY <1>1 DEF Last

LEMMA SameStore ==
    ASSUME Inv, Store, UNCHANGED server
    PROVE  Store' /\ Ids' = Ids /\ UNCHANGED snapshots
<1>1. UNCHANGED <<projects, spaces, items, members, snapshots, guards>>
  BY DEF server
<1>2. Stay /\ Ids' = Ids
  BY <1>1, SameProjectsStay DEF Ids
<1>3. SnapshotsInv' /\ guards' \subseteq Ids'
  BY <1>1, <1>2 DEF Store, SnapshotsInv
<1> QED BY <1>1, <1>2, <1>3, SteadyStore

LEMMA CountsWrite ==
    ASSUME Counted, Write
    PROVE  writes' \in 0..MaxWrites
BY ProjectsAssumption DEF Counted, Write

LEMMA CountsFault ==
    ASSUME Counted, Fault
    PROVE  faults' \in 0..MaxFaults
BY ProjectsAssumption DEF Counted, Fault

\* The application's own steps: its object, and the impacts it is given.
LEMMA AppHolds ==
    ASSUME Inv, Holders, Ids \subseteq Ids', NEW p \in {0} \cup Ids', NEW a \in BOOLEAN,
           NEW more, app.impacts \cup more \subseteq 1..Len(snapshots'),
           app' = [id |-> p, archived |-> a, impacts |-> app.impacts \cup more],
           Len(snapshots) \in Nat, Len(snapshots') \in Nat, Len(snapshots) <= Len(snapshots'),
           UNCHANGED <<tool, seen>>, Counted'
    PROVE  Holders'
<1>1. app'.id = p /\ app'.archived = a /\ app'.impacts = app.impacts \cup more
  OBVIOUS
<1>2. AppInv'
  BY <1>1 DEF AppInv
<1>3. SeenInv'
  BY <1>1 DEF Holders, SeenInv
<1>4. ToolInv'
  BY DEF Holders, ToolInv, Placed
<1> QED BY <1>2, <1>3, <1>4 DEF Holders

LEMMA AppKeeps ==
    ASSUME Inv, Store, Holders, Store', Ids' = Ids, UNCHANGED snapshots,
           AppWrites, NEW a \in BOOLEAN, UNCHANGED app \/ app' = [app EXCEPT !.archived = a]
    PROVE  Holders'
<1>1. /\ UNCHANGED <<tool, seen, faults>> /\ Counted'
  BY CountsWrite DEF AppWrites, Holders, Counted
<1>2. Len(snapshots) \in Nat
  BY DEF Store, SnapshotsInv
<1>3. app = [id |-> app.id, archived |-> app.archived, impacts |-> app.impacts]
      /\ app.id \in {0} \cup Ids /\ app.archived \in BOOLEAN
  BY DEF Holders, AppInv
<1>4. app.impacts \cup {} \subseteq 1..Len(snapshots') /\ app.impacts \cup {} = app.impacts
  BY DEF Holders, SeenInv
<1>5. PICK b \in BOOLEAN : app' = [id |-> app.id, archived |-> b, impacts |-> app.impacts \cup {}]
  <2>1. CASE UNCHANGED app
    BY <1>3, <1>4, <2>1
  <2>2. CASE app' = [app EXCEPT !.archived = a]
    <3>1. app' = [id |-> app.id, archived |-> a, impacts |-> app.impacts]
      BY <1>3, <2>2
    <3> QED BY <1>4, <3>1
  <2> QED BY <2>1, <2>2
<1>6. Ids \subseteq Ids' /\ app.id \in {0} \cup Ids' /\ UNCHANGED <<tool, seen>>
  BY <1>1, <1>3
<1>7. Len(snapshots') \in Nat /\ Len(snapshots) <= Len(snapshots')
  BY <1>2
<1> QED BY Zenon, <1>1, <1>2, <1>4, <1>5, <1>6, <1>7, AppHolds

LEMMA AppGetsHolds ==
    ASSUME Inv, Store, Holders, AppGets
    PROVE  Store' /\ Holders'
<1>1. /\ UNCHANGED server /\ UNCHANGED <<tool, seen>> /\ Counted'
  BY DEF AppGets, Holders, Counted
<1>2. Store' /\ Ids' = Ids /\ UNCHANGED snapshots
  BY <1>1, SameStore
<1>3. PICK name \in Names, archived \in BOOLEAN :
        app' = [app EXCEPT !.id = Find(name, archived),
                           !.archived = projects[Find(name, archived)].status = "archived"]
  BY DEF AppGets
<1> DEFINE p == Find(name, archived)
           a == (projects[p].status = "archived")
<1>4. p \in {0} \cup Ids'
  BY Zenon, <1>2, FindIs
<1>5. a \in BOOLEAN
  OBVIOUS
<1> HIDE DEF p, a
<1>6. app = [id |-> app.id, archived |-> app.archived, impacts |-> app.impacts]
  BY DEF Holders, AppInv
<1>7. app' = [app EXCEPT !.id = p, !.archived = a]
  BY Zenon, <1>3 DEF p, a
<1>8. app' = [id |-> p, archived |-> a, impacts |-> app.impacts \cup {}]
  <2>1. app.impacts \cup {} = app.impacts
    OBVIOUS
  <2> QED BY <1>6, <1>7, <2>1
<1>9. /\ app.impacts \cup {} \subseteq 1..Len(snapshots') /\ Ids \subseteq Ids'
      /\ Len(snapshots) \in Nat /\ Len(snapshots') \in Nat /\ Len(snapshots) <= Len(snapshots')
  BY <1>2 DEF Holders, SeenInv, Store, SnapshotsInv
<1> QED BY Zenon, <1>1, <1>2, <1>4, <1>5, <1>8, <1>9, AppHolds

LEMMA AnalyzeDeletionHolds ==
    ASSUME Inv, Store, Holders, AnalyzeDeletion
    PROVE  Store' /\ Holders'
<1>1. /\ UNCHANGED <<tool, seen, faults>> /\ Counted'
  BY CountsWrite DEF AnalyzeDeletion, AppWrites, Holders, Counted
<1>2. /\ Store' /\ Ids' = Ids
      /\ Len(snapshots) \in Nat /\ Len(snapshots') = Len(snapshots) + 1
  BY AnalyzeStores DEF AnalyzeDeletion
<1>3. /\ app = [id |-> app.id, archived |-> app.archived, impacts |-> app.impacts]
      /\ app.id \in {0} \cup Ids' /\ app.archived \in BOOLEAN
  BY <1>2 DEF Holders, AppInv
<1>4. app' = [app EXCEPT !.impacts = @ \cup {Len(snapshots')}]
  BY DEF AnalyzeDeletion
<1>5. app' = [id |-> app.id, archived |-> app.archived, impacts |-> app.impacts \cup {Len(snapshots')}]
  BY <1>3, <1>4
<1>6. app.impacts \cup {Len(snapshots')} \subseteq 1..Len(snapshots')
  <2>1. app.impacts \subseteq 1..Len(snapshots)
    BY DEF Holders, SeenInv
  <2> QED BY <1>2, <2>1
<1>7. /\ Ids \subseteq Ids' /\ Len(snapshots') \in Nat /\ Len(snapshots) <= Len(snapshots')
      /\ UNCHANGED <<tool, seen>>
  BY <1>1, <1>2
<1> QED BY Zenon, <1>1, <1>2, <1>3, <1>5, <1>6, <1>7, AppHolds

LEMMA AppCreatesProjectHolds ==
    ASSUME Inv, Store, Holders, AppCreatesProject
    PROVE  Store' /\ Holders'
<1>1. UNCHANGED <<tool, seen>> /\ Counted'
  BY CountsWrite DEF AppCreatesProject, Holders, Counted
<1>2. Store' /\ Ids \subseteq Ids' /\ Len(projects') \in Ids' /\ UNCHANGED snapshots
  BY CreateProjectStores DEF AppCreatesProject
<1>3. app = [id |-> app.id, archived |-> app.archived, impacts |-> app.impacts]
  BY DEF Holders, AppInv
<1>4. app' = [id |-> Len(projects'), archived |-> FALSE, impacts |-> app.impacts \cup {}]
  <2>1. app.impacts \cup {} = app.impacts
    OBVIOUS
  <2> QED BY <1>3, <2>1 DEF AppCreatesProject
<1>5. /\ app.impacts \cup {} \subseteq 1..Len(snapshots')
      /\ Len(snapshots) \in Nat /\ Len(snapshots') \in Nat /\ Len(snapshots) <= Len(snapshots')
  BY <1>2 DEF Holders, SeenInv, Store, SnapshotsInv
<1>6. Len(projects') \in {0} \cup Ids'
  BY <1>2
<1>7. FALSE \in BOOLEAN
  OBVIOUS
<1> QED BY Zenon, <1>1, <1>2, <1>4, <1>5, <1>6, <1>7, AppHolds

\* Every other step of the application: one RPC on what it has at hand.
LEMMA AppStepHolds ==
    ASSUME Inv, Store, Holders, AppStep
    PROVE  Store' /\ Holders'
<1> DEFINE Keeps == /\ Store' /\ Ids' = Ids /\ UNCHANGED snapshots /\ AppWrites
                    /\ \E a \in BOOLEAN : UNCHANGED app \/ app' = [app EXCEPT !.archived = a]
<1>1. CASE Keeps
  BY <1>1, AppKeeps
<1>2. CASE Deprecate
  <2>1. /\ AppWrites /\ UpdateProjectRpc(app.id, "status", "archived")
        /\ app' = [app EXCEPT !.archived = TRUE]
    BY <1>2 DEF Deprecate
  <2>2. Store' /\ Ids' = Ids /\ UNCHANGED snapshots
    BY <2>1, UpdateProjectStores
  <2> QED BY <1>1, <2>1, <2>2
<1>3. CASE Restore
  <2>1. /\ AppWrites /\ UpdateProjectRpc(app.id, "status", "active")
        /\ app' = [app EXCEPT !.archived = FALSE]
    BY <1>3 DEF Restore
  <2>2. Store' /\ Ids' = Ids /\ UNCHANGED snapshots
    BY <2>1, UpdateProjectStores
  <2> QED BY <1>1, <2>1, <2>2
<1>4. CASE SetPublic
  BY <1>1, <1>4, UpdateProjectStores DEF SetPublic
<1>5. CASE ForceDelete
  BY <1>1, <1>5, DeleteProjectStores DEF ForceDelete
<1>6. CASE Guard
  BY <1>1, <1>6, GuardStores DEF Guard
<1>7. CASE HardDelete
  BY <1>1, <1>7, HardDeleteStores DEF HardDelete
<1>8. CASE AppCreatesSpace
  <2>1. PICK parent \in Parents, path \in Parent :
          /\ CreateSpaceRpc(parent, Last(path)) \/ SpaceCreatesSpace(Trimmed(parent), Last(path))
    BY <1>8 DEF AppCreatesSpace, Parent
  <2>2. Trimmed(parent) \in Parent /\ Trimmed(Trimmed(parent)) \in Parent
    <3>1. Trimmed(parent) \in Parent
      BY DEF Parent
    <3> QED BY <3>1, ParentClean
  <2>3. Last(path) \in Segment
    BY LastSegment
  <2>4. Store' /\ Ids' = Ids /\ UNCHANGED snapshots
    BY <2>1, <2>2, <2>3, CreateSpaceStores DEF SpaceCreatesSpace
  <2> QED BY <1>1, <1>8, <2>4 DEF AppCreatesSpace
<1>9. CASE AppCreatesItem
  <2>1. PICK parent \in Parents, name \in ItemNames, kind \in Kinds :
          ~Reserved(kind) /\ CreateItemRpc(parent, name, kind)
    BY <1>9 DEF AppCreatesItem
  <2>2. Trimmed(parent) \in Parent
    BY DEF Parent
  <2>3. Store' /\ Ids' = Ids /\ UNCHANGED snapshots
    BY <2>1, <2>2, CreateItemStores
  <2> QED BY <1>1, <1>9, <2>3 DEF AppCreatesItem
<1>10. CASE AppCreatesBundle
  <2>1. PICK parent \in Parents, name \in ItemNames : CreateBundleRpc(parent, name)
    BY <1>10 DEF AppCreatesBundle
  <2>2. Trimmed(parent) \in Parent
    BY DEF Parent
  <2>3. Store' /\ Ids' = Ids /\ UNCHANGED snapshots
    BY <2>1, <2>2, CreateItemStores
  <2> QED BY <1>1, <1>10, <2>3 DEF AppCreatesBundle
<1>11. CASE AppMovesItem
  <2>1. PICK i \in DOMAIN items, q \in Parents : MoveItemRpc(i, Trimmed(q))
    BY <1>11 DEF AppMovesItem
  <2>2. Trimmed(q) \in Parent
    BY DEF Parent
  <2>3. Store' /\ Ids' = Ids /\ UNCHANGED snapshots
    BY <2>1, <2>2, MoveStores
  <2> QED BY <1>1, <1>11, <2>3 DEF AppMovesItem
<1>12. CASE AppDeletesItem
  BY <1>1, <1>12, DeleteItemStores DEF AppDeletesItem
<1>13. CASE AppDeletesSpace
  BY <1>1, <1>13, DeleteSpaceStores DEF AppDeletesSpace
<1>14. CASE AppSetsMetadata \/ AppDeprecatesItem
  BY <1>1, <1>14, UpdateItemStores DEF AppSetsMetadata, AppDeprecatesItem
<1>15. CASE AppAddsMember \/ AppRemovesMember
  BY <1>1, <1>15, MemberStores DEF AppAddsMember, AppRemovesMember
<1> QED BY <1>2, <1>3, <1>4, <1>5, <1>6, <1>7, <1>8, <1>9, <1>10, <1>11, <1>12, <1>13, <1>14,
           <1>15, AppGetsHolds, AnalyzeDeletionHolds, AppCreatesProjectHolds DEF AppStep

---------------------------------------------------------------------------
(* The steps of a call. *)

\* Everything but the call's own record.
LEMMA ToolFrame ==
    ASSUME Inv, Store, Holders, Ids \subseteq Ids', UNCHANGED <<app, seen>>, UNCHANGED snapshots,
           Counted', tool'.id \in {0} \cup Ids', Placed(tool')
    PROVE  Holders'
<1>1. AppInv'
  BY DEF Holders, AppInv
<1>2. SeenInv'
  BY DEF Holders, SeenInv
<1>3. ToolInv'
  BY DEF ToolInv, Placed
<1> QED BY <1>1, <1>2, <1>3 DEF Holders

LEMMA ReadHolds ==
    ASSUME Inv, Store, Holders, NEW t, Goes(t), t.id \in {0} \cup Ids, Placed(t)
    PROVE  Store' /\ Holders'
<1>1. UNCHANGED server /\ UNCHANGED <<app, seen>> /\ Counted' /\ tool' = t
  BY DEF Goes, Holders, Counted
<1>2. Store' /\ Ids' = Ids /\ UNCHANGED snapshots
  BY <1>1, SameStore
<1> QED BY <1>1, <1>2, ToolFrame

LEMMA FailKeeps ==
    ASSUME Fail
    PROVE  tool'.id = 0 /\ tool'.pc = "idle" /\ Placed(tool')
<1>1. tool'.id = 0 /\ tool'.pc = "idle"
  BY DEF Fail, IdleTool
<1> QED BY <1>1 DEF Placed

LEMMA WroteHolds ==
    ASSUME Inv, Store, Holders, NEW did, NEW next, Wrote(did, next),
           Store', Ids \subseteq Ids', UNCHANGED snapshots,
           \A t : t = [next EXCEPT !.did = @ \cup did] =>
             t.id \in {0} \cup Ids' /\ t.pc \in {"done", "extra"}
    PROVE  Holders'
<1>1. UNCHANGED <<app, seen>> /\ writes' \in 0..MaxWrites
  BY CountsWrite DEF Wrote, Holders
<1>2. CASE tool' = [next EXCEPT !.did = @ \cup did] /\ UNCHANGED faults
  <2>1. Counted' /\ tool'.id \in {0} \cup Ids' /\ tool'.pc \in {"done", "extra"}
    BY <1>1, <1>2 DEF Holders, Counted
  <2>2. Placed(tool')
    BY <2>1 DEF Placed
  <2> QED BY <1>1, <2>1, <2>2, ToolFrame
<1>3. CASE Fault /\ Fail
  <2>1. Counted'
    BY <1>1, <1>3, CountsFault DEF Holders, Counted
  <2>2. tool'.id \in {0} \cup Ids' /\ Placed(tool')
    BY <1>3, FailKeeps
  <2> QED BY <1>1, <2>1, <2>2, ToolFrame
<1> QED BY <1>2, <1>3 DEF Wrote

LEMMA AnswerHolds ==
    ASSUME Inv, Store, Holders, NEW did, Wrote(did, Answer),
           Store', Ids \subseteq Ids', UNCHANGED snapshots
    PROVE  Holders'
<1>1. Shape(tool) /\ tool.id \in {0} \cup Ids
  BY DEF Inv, Call1, Holders, ToolInv
<1>2. \A t : t = [Answer EXCEPT !.did = @ \cup did] => t.id = tool.id /\ t.pc = "done"
  BY <1>1 DEF Answer, Shape
<1> QED BY <1>1, <1>2, WroteHolds

\* A new call holds no project.
LEMMA IdleHolds == IdleTool.id = 0 /\ IdleTool.pc = "idle"
BY DEF IdleTool

LEMMA CallToolHolds ==
    ASSUME Inv, Store, Holders, CallTool
    PROVE  Store' /\ Holders'
<1> DEFINE Begins(t) == Call(t) /\ t.id = 0 /\ Placed(t)
<1>1. ASSUME NEW t, Begins(t) PROVE Store' /\ Holders'
  BY <1>1, ReadHolds DEF Call
<1>2. CASE \E name \in Names, flag \in BOOLEAN :
             Call([IdleTool EXCEPT !.pc = "create", !.op = "create_project",
                                   !.path = <<<<name>>>>, !.flag = flag])
  <2>1. PICK flag, path, t :
          /\ Call(t)
          /\ t = [IdleTool EXCEPT !.pc = "create", !.op = "create_project",
                                  !.path = path, !.flag = flag]
    BY <1>2
  <2>2. t.id = 0 /\ t.op = "create_project" /\ t.pc = "create"
    BY <2>1 DEF IdleTool
  <2>3. Placed(t)
    BY <2>2 DEF Placed, CreateOps
  <2> QED BY <1>1, <2>1, <2>2, <2>3
<1>3. CASE \E op \in {"create_space", "create_bundle", "create_item"}, q \in Parents,
                flag \in BOOLEAN :
             /\ flag => op = "create_item"
             /\ Call([IdleTool EXCEPT !.pc = "find", !.op = op, !.path = Trimmed(q), !.flag = flag])
  <2>1. PICK op, path, flag, t :
          /\ path \in Parent /\ Call(t)
          /\ t = [IdleTool EXCEPT !.pc = "find", !.op = op, !.path = path, !.flag = flag]
    <3>1. PICK op \in {"create_space", "create_bundle", "create_item"}, q \in Parents,
               flag \in BOOLEAN :
            Call([IdleTool EXCEPT !.pc = "find", !.op = op, !.path = Trimmed(q), !.flag = flag])
      BY <1>3
    <3>2. Trimmed(q) \in Parent
      BY DEF Parent
    <3> QED BY <3>1, <3>2
  <2>2. t.id = 0 /\ t.path = path /\ t.pc = "find"
    BY <2>1 DEF IdleTool
  <2>3. Placed(t)
    BY <2>1, <2>2 DEF Placed
  <2> QED BY <1>1, <2>1, <2>2, <2>3
<1>4. CASE \E name \in Names, snap \in seen \cup {0}, flag \in BOOLEAN :
             /\ snap # 0 => flag
             /\ Call([IdleTool EXCEPT !.pc = "find", !.op = "delete_project",
                                      !.path = <<<<name>>>>, !.flag = flag, !.snap = snap])
  <2>1. PICK path, snap, flag, t :
          /\ Call(t)
          /\ t = [IdleTool EXCEPT !.pc = "find", !.op = "delete_project",
                                  !.path = path, !.flag = flag, !.snap = snap]
    BY <1>4
  <2>2. t.id = 0 /\ t.op = "delete_project" /\ t.pc = "find"
    BY <2>1 DEF IdleTool
  <2>3. Placed(t)
    BY <2>2 DEF Placed, CreateOps
  <2> QED BY <1>1, <2>1, <2>2, <2>3
<1>5. CASE \E s \in spaces, flag \in BOOLEAN :
             Call([IdleTool EXCEPT !.pc = "find", !.op = "delete_space", !.path = s, !.flag = flag])
  <2>1. PICK path, flag, t :
          /\ Call(t)
          /\ t = [IdleTool EXCEPT !.pc = "find", !.op = "delete_space", !.path = path, !.flag = flag]
    BY <1>5
  <2>2. t.id = 0 /\ t.op = "delete_space" /\ t.pc = "find"
    BY <2>1 DEF IdleTool
  <2>3. Placed(t)
    BY <2>2 DEF Placed, CreateOps
  <2> QED BY <1>1, <2>1, <2>2, <2>3
<1>6. CASE \E op \in {"delete_item", "deprecate_item"}, i \in DOMAIN items :
             Call([IdleTool EXCEPT !.pc = "item", !.op = op, !.path = i])
  <2>1. PICK op, path, t : Call(t) /\ t = [IdleTool EXCEPT !.pc = "item", !.op = op, !.path = path]
    BY <1>6
  <2>2. t.id = 0 /\ t.pc = "item"
    BY <2>1 DEF IdleTool
  <2>3. Placed(t)
    BY <2>2 DEF Placed
  <2> QED BY <1>1, <2>1, <2>2, <2>3
<1>7. CASE \E op \in {"add_member", "remove_member"}, b \in DOMAIN items, i \in DOMAIN items :
             /\ items[b].made = Bundle
             /\ Call([IdleTool EXCEPT !.pc = "bundle", !.op = op, !.path = b, !.with = i])
  <2>1. PICK op, path, with, t :
          /\ Call(t)
          /\ t = [IdleTool EXCEPT !.pc = "bundle", !.op = op, !.path = path, !.with = with]
    BY <1>7
  <2>2. t.id = 0 /\ t.pc = "bundle"
    BY <2>1 DEF IdleTool
  <2>3. Placed(t)
    BY <2>2 DEF Placed
  <2> QED BY <1>1, <2>1, <2>2, <2>3
<1> QED BY <1>2, <1>3, <1>4, <1>5, <1>6, <1>7 DEF CallTool

\* A status that says no leaves everything but the call as it was.
LEMMA DeclinedHolds ==
    ASSUME Inv, Store, Holders, Declined
    PROVE  Store' /\ Holders'
<1>1. UNCHANGED server /\ UNCHANGED <<app, seen, writes>> /\ Fault
  BY DEF Declined
<1>2. Store' /\ Ids' = Ids /\ UNCHANGED snapshots
  BY <1>1, SameStore
<1>3. Counted'
  BY <1>1, CountsFault DEF Holders, Counted
<1>4. Shape(tool) /\ tool.id \in {0} \cup Ids
  BY DEF Inv, Call1, Holders, ToolInv
<1>5. tool'.id = tool.id /\ tool'.pc = "done"
  BY <1>4 DEF Declined, Answer, Shape
<1>6. Placed(tool')
  BY <1>5 DEF Placed
<1> QED BY <1>1, <1>2, <1>3, <1>4, <1>5, <1>6, ToolFrame

\* Looking up keeps the path, and finds a project that is there.
LEMMA ToolFindsHolds ==
    ASSUME Inv, Store, Holders, FindProject \/ FindSpace \/ FindBundle \/ FindItem
    PROVE  Store' /\ Holders'
<1>1. /\ Shape(tool) /\ tool.id \in {0} \cup Ids /\ Placed(tool)
  BY DEF Inv, Call1, Holders, ToolInv
<1>2. CASE Goes(Refusal)
  <2>1. Refusal.id = 0 /\ Refusal.pc = "idle"
    BY IdleHolds DEF Refusal
  <2>2. Placed(Refusal)
    BY <2>1 DEF Placed
  <2> QED BY <1>2, <2>1, <2>2, ReadHolds
<1>3. ASSUME NEW p \in {0} \cup Ids, NEW pc, NEW t, Goes(t),
             \/ t = [tool EXCEPT !.pc = pc] /\ (pc \in {"space", "delete"} => tool.pc = "space")
             \/ t = [tool EXCEPT !.id = p, !.pc = pc] /\ p # 0,
             pc \in {"find", "space", "create"} => tool.pc \in {"find", "space"}
      PROVE  Store' /\ Holders'
  <2>1. /\ t.id \in {tool.id, p} /\ t.pc = pc /\ t.op = tool.op /\ t.path = tool.path
        /\ \/ t.id # 0
           \/ t.id = tool.id /\ (pc \in {"space", "delete"} => tool.pc = "space")
    <3>1. CASE /\ t = [tool EXCEPT !.pc = pc]
               /\ pc \in {"space", "delete"} => tool.pc = "space"
      <4>1. t.id = tool.id /\ t.pc = pc /\ t.op = tool.op /\ t.path = tool.path
        BY <1>1, <3>1 DEF Shape
      <4> QED BY <3>1, <4>1
    <3>2. CASE t = [tool EXCEPT !.id = p, !.pc = pc] /\ p # 0
      <4>1. t.id = p /\ t.pc = pc /\ t.op = tool.op /\ t.path = tool.path
        BY <1>1, <3>2 DEF Shape
      <4> QED BY <3>2, <4>1
    <3> QED BY <1>3, <3>1, <3>2
  <2>2. Placed(t)
    BY <1>1, <1>3, <2>1 DEF Placed
  <2> QED BY <1>1, <1>3, <2>1, <2>2, ReadHolds
<1>4. CASE FindProject
  <2> DEFINE p == Find(NameOf(tool.path), tool.op = "delete_project" /\ tool.flag)
  <2>1. p \in {0} \cup Ids
    BY Zenon, FindIs
  <2> HIDE DEF p
  <2>2. /\ tool.pc = "find"
        /\ \/ Goes(Refusal)
           \/ /\ p # 0
              /\ Goes([tool EXCEPT !.id = p,
                        !.pc = CASE tool.op = "delete_project" -> "delete"
                                 [] tool.op = "create_space" -> "create"
                                 [] OTHER -> "space"])
    BY <1>4 DEF FindProject, p
  <2> QED BY <1>2, <1>3, <2>1, <2>2
<1>5. CASE FindSpace
  <2>1. tool.pc = "space" /\ (Goes(Refusal) \/ Goes(At("delete")) \/ Goes(At("create")))
    BY <1>5 DEF FindSpace
  <2> QED BY <1>1, <1>2, <1>3, <2>1 DEF At
<1>6. CASE FindBundle \/ FindItem
  <2>1. Goes(Refusal) \/ Goes(At("again")) \/ Goes(At("item")) \/ Goes(At("act"))
    BY <1>6 DEF FindBundle, FindItem
  <2> QED BY <1>1, <1>2, <1>3, <2>1 DEF At
<1> QED BY <1>4, <1>5, <1>6

LEMMA ToolWritesHolds ==
    ASSUME Inv, Store, Holders,
           \/ ToolSetPublic \/ ToolCreateSpace \/ ToolSetMetadata \/ ToolCreateBundle
           \/ ToolArchiveProject \/ ToolHardDelete \/ ToolDeleteSpace \/ ToolDeleteItem
           \/ ToolDeprecateItem \/ ToolAddMember \/ ToolRemoveMember
    PROVE  Store' /\ Holders'
<1> DEFINE Writes(did) == Store' /\ Ids' = Ids /\ UNCHANGED snapshots /\ Wrote(did, Answer)
<1>1. ASSUME NEW did, Writes(did) PROVE Store' /\ Holders'
  BY <1>1, AnswerHolds
<1>2. CASE ToolSetPublic
  BY <1>1, <1>2, UpdateProjectStores DEF ToolSetPublic
<1>3. CASE ToolCreateSpace
  <2>1. /\ tool.path \in Parent
        /\ \E path \in Parent : CreateSpaceRpc(tool.path, Last(path))
        /\ Wrote({"created"}, Answer)
    BY <1>3 DEF ToolCreateSpace, Holders, ToolInv, Placed, CreateOps, Parent
  <2>2. Trimmed(tool.path) \in Parent
    BY <2>1, ParentClean
  <2>3. Store' /\ Ids' = Ids /\ UNCHANGED snapshots
    BY <2>1, <2>2, LastSegment, CreateSpaceStores
  <2> QED BY <1>1, <2>1, <2>3
<1>4. CASE ToolSetMetadata \/ ToolDeprecateItem
  BY <1>1, <1>4, DeclinedHolds, UpdateItemStores DEF ToolSetMetadata, ToolDeprecateItem
<1>5. CASE ToolCreateBundle
  <2>1. /\ tool.path \in Parent
        /\ \E name \in ItemNames : CreateBundleRpc(tool.path, name)
        /\ Wrote({"created"}, Answer)
    BY <1>5 DEF ToolCreateBundle, SpaceCreatesBundle, Holders, ToolInv, Placed, CreateOps
  <2>2. Trimmed(tool.path) \in Parent
    BY <2>1, ParentClean
  <2>3. Store' /\ Ids' = Ids /\ UNCHANGED snapshots
    BY <2>1, <2>2, CreateItemStores
  <2> QED BY <1>1, <2>1, <2>3
<1>6. CASE ToolArchiveProject
  BY <1>1, <1>6, DeclinedHolds, DeleteProjectStores DEF ToolArchiveProject
<1>7. CASE ToolHardDelete
  BY <1>1, <1>7, DeclinedHolds, HardDeleteStores DEF ToolHardDelete
<1>8. CASE ToolDeleteSpace
  BY <1>1, <1>8, DeclinedHolds, DeleteSpaceStores DEF ToolDeleteSpace
<1>9. CASE ToolDeleteItem
  BY <1>1, <1>9, DeclinedHolds, DeleteItemStores DEF ToolDeleteItem
<1>10. CASE ToolAddMember \/ ToolRemoveMember
  BY <1>1, <1>10, DeclinedHolds, MemberStores DEF ToolAddMember, ToolRemoveMember
<1> QED BY <1>2, <1>3, <1>4, <1>5, <1>6, <1>7, <1>8, <1>9, <1>10

LEMMA ToolCreateProjectHolds ==
    ASSUME Inv, Store, Holders, ToolCreateProject
    PROVE  Store' /\ Holders'
<1>1. Shape(tool) /\ tool.flag \in BOOLEAN /\ NameOf(tool.path) \in Names
  BY DEF ToolCreateProject, Inv, Call1
<1>2. Store' /\ Ids \subseteq Ids' /\ Len(projects') \in Ids' /\ UNCHANGED snapshots
  BY <1>1, CreateProjectStores DEF ToolCreateProject
<1> DEFINE p == Len(projects')
           extra == [tool EXCEPT !.pc = "extra", !.id = p]
           answer == [Answer EXCEPT !.id = p]
<1>3. Wrote({"created"}, extra) \/ Wrote({"created"}, answer)
  BY <1>1 DEF ToolCreateProject
<1> HIDE DEF p
<1>4. \A t : t = [extra EXCEPT !.did = @ \cup {"created"}] => t.id = p /\ t.pc = "extra"
  BY <1>1 DEF Shape
<1>5. \A t : t = [answer EXCEPT !.did = @ \cup {"created"}] => t.id = p /\ t.pc = "done"
  BY <1>1 DEF Shape, Answer
<1> HIDE DEF extra, answer
<1>6. p \in {0} \cup Ids'
  BY <1>2 DEF p
<1> QED BY <1>2, <1>3, <1>4, <1>5, <1>6, WroteHolds

LEMMA ToolCreateItemHolds ==
    ASSUME Inv, Store, Holders, ToolCreateItem
    PROVE  Store' /\ Holders'
<1>1. Shape(tool) /\ tool.flag \in BOOLEAN /\ tool.path \in Parent /\ tool.id \in {0} \cup Ids
  BY DEF ToolCreateItem, Inv, Call1, Holders, ToolInv, Placed, CreateOps
<1>2. PICK name \in ItemNames, kind \in Kinds :
        /\ ~Reserved(kind) /\ CreateItemRpc(tool.path, name, kind)
        /\ Wrote({"created"}, IF ~tool.flag THEN Answer
                              ELSE [tool EXCEPT !.pc = "extra", !.path = LeafPath(@, name, kind)])
  BY DEF ToolCreateItem, SpaceCreatesItem
<1>3. Trimmed(tool.path) \in Parent
  BY <1>1, ParentClean
<1>4. Store' /\ Ids' = Ids /\ UNCHANGED snapshots
  BY <1>2, <1>3, CreateItemStores
<1> DEFINE path == LeafPath(tool.path, name, kind)
           extra == [tool EXCEPT !.pc = "extra", !.path = path]
<1>5. Wrote({"created"}, Answer) \/ Wrote({"created"}, extra)
  BY <1>1, <1>2
<1> HIDE DEF path
<1>6. \A t : t = [extra EXCEPT !.did = @ \cup {"created"}] => t.id = tool.id /\ t.pc = "extra"
  BY <1>1 DEF Shape
<1> HIDE DEF extra
<1> QED BY <1>1, <1>4, <1>5, <1>6, AnswerHolds, WroteHolds

\* The caller is shown an impact that is there.
LEMMA ToolAnalyzeHolds ==
    ASSUME Inv, Store, Holders, ToolAnalyze
    PROVE  Store' /\ Holders'
<1>1. UNCHANGED app /\ writes' \in 0..MaxWrites
  BY CountsWrite DEF ToolAnalyze, Holders
<1>2. /\ Store' /\ Ids' = Ids
      /\ Len(snapshots) \in Nat /\ Len(snapshots') = Len(snapshots) + 1
  BY AnalyzeStores DEF ToolAnalyze
<1>3. /\ seen' \subseteq seen \cup {Len(snapshots')} /\ Counted'
      /\ tool'.id \in {0} \cup Ids /\ tool'.pc \in {"idle", "done"}
  <2>1. Shape(tool) /\ tool.id \in {0} \cup Ids
    BY DEF Inv, Call1, Holders, ToolInv
  <2>2. CASE Fault /\ Fail /\ UNCHANGED seen
    <3>1. Counted'
      BY <1>1, <2>2, CountsFault DEF Holders, Counted
    <3> QED BY <2>2, <3>1, FailKeeps
  <2>3. CASE /\ tool' = [Answer EXCEPT !.did = {"analyzed"}]
             /\ seen' = seen \cup {Len(snapshots')} /\ UNCHANGED faults
    <3>1. Counted'
      BY <1>1, <2>3 DEF Holders, Counted
    <3>2. tool'.id = tool.id /\ tool'.pc = "done"
      BY <2>1, <2>3 DEF Answer, Shape
    <3> QED BY <2>1, <2>3, <3>1, <3>2
  <2> QED BY <2>2, <2>3 DEF ToolAnalyze
<1>4. SeenInv'
  <2>1. seen \cup app.impacts \subseteq 1..Len(snapshots)
    BY DEF Holders, SeenInv
  <2> QED BY <1>1, <1>2, <1>3, <2>1 DEF SeenInv
<1>5. AppInv' /\ ToolInv'
  BY <1>1, <1>2, <1>3 DEF Holders, AppInv, ToolInv, Placed
<1> QED BY <1>2, <1>3, <1>4, <1>5 DEF Holders

LEMMA ToolStepHolds ==
    ASSUME Inv, Store, Holders, ToolStep
    PROVE  Store' /\ Holders'
<1>1. CASE RpcFails
  <2>1. Fail /\ Fault /\ UNCHANGED server /\ UNCHANGED <<app, seen, writes>>
    BY <1>1 DEF RpcFails
  <2>2. Store' /\ Ids' = Ids /\ UNCHANGED snapshots
    BY <2>1, SameStore
  <2>3. Counted'
    BY <2>1, CountsFault DEF Holders, Counted
  <2>4. tool'.id \in {0} \cup Ids' /\ Placed(tool')
    BY <2>1, <2>2, FailKeeps
  <2> QED BY <2>1, <2>2, <2>3, <2>4, ToolFrame
<1>2. CASE Return
  <2>1. Placed(IdleTool)
    BY IdleHolds DEF Placed
  <2> QED BY <1>2, <2>1, IdleHolds, ReadHolds DEF Return
<1> QED BY <1>1, <1>2, CallToolHolds, ToolFindsHolds, ToolWritesHolds, ToolCreateProjectHolds,
           ToolCreateItemHolds, ToolAnalyzeHolds DEF ToolStep

---------------------------------------------------------------------------

LEMMA InitHolds == Init => Store /\ Holders
<1> SUFFICES ASSUME Init PROVE Store /\ Holders
  OBVIOUS
<1>1. PICK name \in Names :
        /\ projects = <<[name |-> name, status |-> "active", public |-> FALSE]>>
        /\ spaces = {q \in Parent : Len(q) > 1 /\ NameOf(q) = name}
  BY DEF Init, Parent
<1> DEFINE r == [name |-> name, status |-> "active", public |-> FALSE]
<1>2. r.name = name /\ r.status = "active"
  OBVIOUS
<1> HIDE DEF r
<1>3. projects = <<r>>
  BY <1>1 DEF r
<1>4. Ids = {1} /\ projects[1] = r
  BY <1>3 DEF Ids
<1>5. \A x : NameOf(x) = name => Under(x, 1)
  BY <1>2, <1>4 DEF Under, Exists
<1>6. SpacesInv
  BY <1>1, <1>4, <1>5, ParentClean DEF SpacesInv, Clean
<1>7. ItemsInv
  <2>1. items = <<>> /\ members = {}
    BY DEF Init
  <2>2. DOMAIN items = {}
    BY <2>1
  <2>3. items \in [DOMAIN items -> ItemRecord]
    BY <2>1, <2>2
  <2> QED BY <2>1, <2>2, <2>3 DEF ItemsInv
<1>8. SnapshotsInv /\ guards \subseteq Ids
  BY EmptySeq DEF Init, SnapshotsInv
<1>9. AppInv /\ SeenInv
  <2>1. app = [id |-> 0, archived |-> FALSE, impacts |-> {}] /\ seen = {}
    BY DEF Init, NoProject
  <2>2. app.id = 0 /\ app.archived = FALSE /\ app.impacts = {}
    BY <2>1
  <2> QED BY <2>1, <2>2 DEF AppInv, SeenInv
<1>10. ToolInv /\ Counted
  BY IdleHolds, ProjectsAssumption DEF Init, ToolInv, Placed, Counted
<1> QED BY <1>6, <1>7, <1>8, <1>9, <1>10 DEF Store, Holders

\* What is stored belongs to a project that is there, members are items, and what the
\* application and the call hold is of the store, whatever is moved or destroyed.
THEOREM StoreInvariant == Spec => [](Store /\ Holders)
<1>1. Inv /\ Store /\ Holders /\ [Next]_vars => (Store /\ Holders)'
  <2> SUFFICES ASSUME Inv, Store, Holders, [Next]_vars PROVE Store' /\ Holders'
    OBVIOUS
  <2>1. CASE UNCHANGED vars
    <3>1. UNCHANGED server /\ UNCHANGED <<app, tool, seen, writes, faults>>
      BY <2>1 DEF vars
    <3>2. Store' /\ Ids' = Ids /\ UNCHANGED snapshots
      BY <3>1, SameStore
    <3>3. Counted' /\ tool'.id \in {0} \cup Ids' /\ Placed(tool')
      BY <3>1, <3>2 DEF Holders, Counted, ToolInv, Placed
    <3> QED BY <3>1, <3>2, <3>3, ToolFrame
  <2> QED BY <2>1, AppStepHolds, ToolStepHolds DEF Next
<1> QED BY <1>1, InitHolds, ProjectInvariant, PTL DEF Spec

\* Type correctness (client.py, project.py and the project tools of mcp_server.py).
THEOREM ProjectsTyped == Spec => []TypeOK
<1>1. Inv /\ Store /\ Holders => TypeOK
  <2> SUFFICES ASSUME Inv, Store, Holders PROVE TypeOK
    OBVIOUS
  <2>1. \A p \in Ids : /\ projects[p].name \in Names /\ projects[p].public \in BOOLEAN
                       /\ projects[p].status \in {"active", "archived", "destroyed", "forced"}
    <3>1. \A p \in Ids : projects[p] \in ProjectRecord
      BY DEF Inv, Ids
    <3> QED BY <3>1 DEF ProjectRecord
  <2>2. \A s \in spaces : \E p \in Ids : Under(s, p)
    BY DEF Store, SpacesInv
  <2>3. \A i \in DOMAIN items : (\E p \in Ids : Under(items[i].at, p)) /\ Last(i) # <<>>
    BY LeafTyped DEF Store, ItemsInv, Homed
  <2>4. \A m \in members : {m[1], m[2]} \subseteq DOMAIN items
    BY DEF Store, ItemsInv
  <2>5. guards \subseteq Ids /\ tool.snap \in {0} \cup seen
    BY DEF Inv, Store
  <2>6. /\ seen \cup app.impacts \subseteq 1..Len(snapshots)
        /\ app.id \in {0} \cup Ids /\ app.archived \in BOOLEAN /\ tool.id \in {0} \cup Ids
        /\ tool.pc \in {"space", "delete"} => tool.id # 0
        /\ writes \in 0..MaxWrites /\ faults \in 0..MaxFaults
    BY DEF Holders, SeenInv, AppInv, ToolInv, Placed, Counted
  <2> QED BY <2>1, <2>2, <2>3, <2>4, <2>5, <2>6 DEF TypeOK
<1> QED BY <1>1, ProjectInvariant, StoreInvariant, PTL

---------------------------------------------------------------------------
(* Every way of naming an item leads back to it. *)

LEMMA RefParts ==
    ASSUME NEW i
    PROVE  Ref(i).scheme = TRUE /\ Ref(i).path = i /\ Ref(i).query = <<>>
BY DEF Ref

\* A reference without a query, by what its segments are.
LEMMA PlainConstructs ==
    ASSUME NEW i \in Path, i # <<>>, i[1] # Blank,
           \A k \in 1..Len(i) : SegmentOk(i[k]) /\ ~Traverses(i[k])
    PROVE  Constructs(Ref(i))
<1> DEFINE q == Ref(i).query
           path == IF Ref(i).path[1] = <<"">> THEN Tail(Ref(i).path) ELSE Ref(i).path
<1>1. path = i
  BY Zenon, RefParts DEF Blank
<1>2. Len(q) = 0
  <2>1. q = <<>>
    BY Zenon, RefParts
  <2> QED BY <2>1
<1> HIDE DEF q, path
<1>3. Len(q) <= 2 /\ ~(Len(q) >= 1) /\ Len(q) # 2
  BY <1>2
<1>4. path # <<>> /\ \A k \in 1..Len(path) : SegmentOk(path[k]) /\ ~Traverses(path[k])
  BY Zenon, <1>1
<1> QED BY Zenon, <1>3, <1>4, RefParts DEF Constructs, q, path

\* The client's two ways to ask for an item: the server looks up the same path.
LEMMA RequestKeeps ==
    ASSUME NEW t, Clean(t), NEW leaf \in Segment
    PROVE  ServerItemKey(ItemRequest(Ref(t \o <<leaf>>))) = t \o <<leaf>>
<1> DEFINE i == t \o <<leaf>>
           r == Ref(i)
<1>1. t \in Path /\ t # <<>> /\ t[1] # Blank /\ Trimmed(t) = t
  BY CleanTrimmed DEF Clean
<1>2. /\ i \in Path /\ Last(i) = leaf /\ Front(i) = t /\ Len(i) = Len(t) + 1
      /\ Len(t) \in Nat \ {0} /\ \A k \in 1..Len(t) : i[k] = t[k]
  BY Zenon, <1>1, BelowPath
<1>3. r.path = i
  BY Zenon, RefParts
<1> HIDE DEF i, r
<1>4. i[1] = t[1] /\ i[1] \in Segment /\ i # <<>>
  BY <1>2 DEF Path
<1>5. ServerItemKey(ItemTuple(r)) = i
  <2>1. ItemTuple(r).parent = t /\ ItemTuple(r).leaf = <<leaf>>
    BY <1>2, <1>3 DEF ItemTuple
  <2> QED BY Zenon, <1>1, <2>1 DEF ServerItemKey, i
<1>6. ServerItemKey(ProjectTuple(r)) = i
  <2> DEFINE top == <<i[1]>>
  <2>1. ProjectTuple(r).parent = top /\ ProjectTuple(r).leaf = Tail(i)
    BY <1>3 DEF ProjectTuple
  <2>2. top \in Path /\ Len(top) = 1 /\ top[1] = i[1] /\ top # <<>>
    BY <1>4 DEF Path
  <2>3. top \o Tail(i) = i
    BY <1>2, <1>4 DEF Path
  <2> HIDE DEF top
  <2>4. Clean(top)
    BY Zenon, <1>1, <1>4, <2>2 DEF Clean
  <2>5. Trimmed(top) = top
    BY Zenon, <2>4, CleanTrimmed
  <2> QED BY Zenon, <2>1, <2>3, <2>5 DEF ServerItemKey
<1>7. ItemRequest(r) = ItemTuple(r)
  BY Zenon, <1>5, <1>6 DEF ItemRequest
<1> QED BY Zenon, <1>5, <1>7 DEF i, r

LEMMA ByKrefFinds ==
    ASSUME NEW t \in Parent, NEW name \in ItemNames, NEW kind \in Kinds \cup {Bundle}
    PROVE  ByKref(Ref(LeafPath(t, name, kind))) = LeafPath(t, name, kind)
<1> DEFINE leaf == name \o <<kind>>
           i == t \o <<leaf>>
<1>1. Clean(t)
  BY ParentClean
<1>2. /\ \A k \in 1..Len(t) : SegmentOk(t[k]) /\ ~Traverses(t[k])
      /\ name # <<>> /\ SegmentOk(leaf) /\ ~Traverses(leaf)
  BY NamesAssumption DEF Parent
<1>3. leaf \in Segment /\ Len(leaf) > 1
  <2>1. leaf \in Segment /\ Front(leaf) = name /\ leaf # <<>>
    BY Zenon, LeafShape
  <2> HIDE DEF leaf
  <2>2. Len(leaf) # 1
    BY <1>2, <2>1 DEF Front, Segment
  <2>3. Len(leaf) \in Nat /\ Len(leaf) # 0
    BY <2>1, EmptySeq DEF Segment
  <2> QED BY <2>1, <2>2, <2>3
<1>4. t \in Path /\ t # <<>> /\ t[1] # Blank
  BY Zenon, <1>1 DEF Clean
<1> HIDE DEF leaf
<1>5. /\ i \in Path /\ Last(i) = leaf /\ Len(i) = Len(t) + 1
      /\ Len(t) \in Nat \ {0} /\ \A k \in 1..Len(t) : i[k] = t[k]
  BY Zenon, <1>3, <1>4, BelowPath
<1> HIDE DEF i
<1>6. i[1] # Blank /\ i # <<>> /\ i[Len(i)] = leaf
  BY <1>4, <1>5 DEF Last
<1>7. \A k \in 1..Len(i) : SegmentOk(i[k]) /\ ~Traverses(i[k])
  <2>1. \A k \in 1..Len(i) : k \in 1..Len(t) \/ k = Len(i)
    BY <1>5
  <2> QED BY Zenon, <1>2, <1>5, <1>6, <2>1
<1>8. Constructs(Ref(i))
  BY Zenon, <1>5, <1>6, <1>7, PlainConstructs
<1>9. Splits(Ref(i))
  <2>1. Len(i) > 1
    BY <1>5
  <2> QED BY Zenon, <1>3, <1>5, <2>1, RefParts DEF Splits
<1>10. ServerItemKey(ItemRequest(Ref(i))) = i
  BY Zenon, <1>1, <1>3, RequestKeeps DEF i
<1>11. LeafPath(t, name, kind) = i
  BY Zenon, LeafAbove DEF i, leaf
<1> QED BY Zenon, <1>8, <1>9, <1>10, <1>11 DEF ByKref

LEMMA Cut ==
    ASSUME NEW p \in Path, NEW m \in Nat \ {0}, NEW n \in Nat, n <= Len(p), m <= n + 1
    PROVE  /\ SubSeq(p, m, n) \in Path /\ Len(SubSeq(p, m, n)) = n - m + 1
           /\ \A k \in 1..n - m + 1 : SubSeq(p, m, n)[k] = p[m + k - 1]
<1>1. /\ m \in Int /\ n \in Int /\ \A k \in m..n : p[k] \in Segment
  BY DEF Path
<1>2. /\ SubSeq(p, m, n) \in Seq(Segment)
      /\ Len(SubSeq(p, m, n)) = IF m <= n THEN n - m + 1 ELSE 0
      /\ \A k \in 1..n - m + 1 : SubSeq(p, m, n)[k] = p[m + k - 1]
  BY <1>1, SubSeqProperties
<1> QED BY <1>2 DEF Path

LEMMA Prepended ==
    ASSUME NEW x \in Segment, NEW p \in Path
    PROVE  /\ <<x>> \o p \in Path /\ Len(<<x>> \o p) = Len(p) + 1 /\ Len(p) \in Nat
           /\ \A k \in 1..Len(p) + 1 : (<<x>> \o p)[k] = IF k = 1 THEN x ELSE p[k - 1]
<1> HIDE DEF Segment
<1> QED BY DEF Path

\* The space is read back from the reference.
LEMMA SpaceReadBack ==
    ASSUME NEW i \in Path, Len(i) > 1
    PROVE  ItemGetSpace(i) = Front(i)
<1> DEFINE rest == SubSeq(i, 2, Len(i) - 1)
           front == SubSeq(i, 1, Len(i) - 1)
<1>1. i \in Seq(Segment) /\ Len(i) \in Nat /\ \A k \in 1..Len(i) : i[k] \in Segment
  BY DEF Path
<1>2. ItemGetSpace(i) = <<i[1]>> \o rest /\ Front(i) = front
  BY RefParts DEF ItemGetSpace, ProjectOf, SpaceOf, Front
<1>3. /\ rest \in Seq(Segment) /\ Len(rest) = Len(i) - 2
      /\ \A k \in 1..Len(i) - 2 : rest[k] = i[k + 1]
  <2>1. /\ rest \in Path /\ Len(rest) = Len(i) - 1 - 2 + 1
        /\ \A k \in 1..Len(i) - 1 - 2 + 1 : rest[k] = i[2 + k - 1]
    <3>1. 2 \in Nat \ {0} /\ Len(i) - 1 \in Nat /\ Len(i) - 1 <= Len(i) /\ 2 <= Len(i) - 1 + 1
      BY <1>1
    <3> QED BY Zenon, <3>1, Cut
  <2> HIDE DEF rest
  <2>2. Len(i) - 1 - 2 + 1 = Len(i) - 2 /\ \A k \in 1..Len(i) - 2 : 2 + k - 1 = k + 1
    BY <1>1
  <2>3. \A k \in 1..Len(i) - 2 : rest[k] = i[k + 1]
    BY Zenon, <2>1, <2>2
  <2> QED BY <2>1, <2>2, <2>3 DEF Path
<1>4. /\ front \in Seq(Segment) /\ Len(front) = Len(i) - 1
      /\ \A k \in 1..Len(i) - 1 : front[k] = i[k]
  BY <1>1, SubSeqProperties
<1> HIDE DEF rest, front
<1> DEFINE whole == <<i[1]>> \o rest
<1>5. /\ whole \in Seq(Segment) /\ Len(whole) = Len(i) - 1
      /\ \A k \in 1..Len(i) - 1 : whole[k] = IF k = 1 THEN i[1] ELSE rest[k - 1]
  <2>1. rest \in Path /\ i[1] \in Segment /\ Len(rest) + 1 = Len(i) - 1
    BY <1>1, <1>3 DEF Path
  <2>2. /\ whole \in Path /\ Len(whole) = Len(rest) + 1
        /\ \A k \in 1..Len(rest) + 1 : whole[k] = IF k = 1 THEN i[1] ELSE rest[k - 1]
    BY Zenon, <2>1, Prepended
  <2> QED BY Zenon, <2>1, <2>2 DEF Path
<1> HIDE DEF whole
<1>6. \A k \in 1..Len(i) - 1 : whole[k] = front[k]
  BY <1>1, <1>3, <1>4, <1>5
<1>7. whole = front
  <2>1. Len(whole) = Len(front) /\ \A k \in 1..Len(whole) : whole[k] = front[k]
    BY Zenon, <1>4, <1>5, <1>6
  <2> QED BY Zenon, <1>4, <1>5, <2>1, SeqEqual
<1> QED BY <1>2, <1>7 DEF whole

LEMMA LeafFound ==
    ASSUME NEW t \in Parent, NEW name \in ItemNames, NEW kind \in Kinds \cup {Bundle}
    PROVE  /\ LeafPath(t, name, kind) \in Found
           /\ SpaceGetItem(t, name, kind) = LeafPath(t, name, kind)
           /\ ItemGetSpace(LeafPath(t, name, kind)) = t
<1> DEFINE i == LeafPath(t, name, kind)
           leaf == name \o <<kind>>
<1>1. PICK r \in Parents : t = Trimmed(r)
  BY DEF Parent
<1>2. ByKref(Ref(i)) = i
  BY Zenon, ByKrefFinds
<1>3. i \in Path /\ Last(i) = leaf /\ Front(i) = t /\ i = t \o <<leaf>>
  BY Zenon, LeafAbove
<1>4. Last(leaf) = kind /\ Front(leaf) = name /\ leaf \in Segment
  BY Zenon, LeafShape
<1>5. Trimmed(t) = t /\ Clean(t)
  BY ParentClean
<1>6. ASSUME NEW q \in Parents, Trimmed(q) = t
      PROVE  ProjectGetItem(q, name, kind) = i
  <2>1. LeafPath(q, name, kind) = i
    BY Zenon, <1>5, <1>6 DEF LeafPath
  <2> HIDE DEF i
  <2> QED BY Zenon, <1>2, <2>1 DEF ProjectGetItem
<1>7. SpaceGetItem(t, name, kind) = i
  BY Zenon DEF SpaceGetItem
<1> HIDE DEF i, leaf
<1>8. ItemGetSpace(i) = t
  <2>1. t \in Path /\ t # <<>>
    BY Zenon, <1>5 DEF Clean
  <2>2. Len(t \o <<leaf>>) = Len(t) + 1 /\ Len(t) \in Nat \ {0}
    BY Zenon, <1>4, <2>1, BelowPath
  <2>3. Len(i) > 1
    BY <1>3, <2>2
  <2> QED BY Zenon, <1>3, <2>3, SpaceReadBack
<1>9. i \in {LeafPath(Trimmed(q), n, k) :
               q \in Parents, n \in ItemNames, k \in Kinds \cup {Bundle}}
  BY <1>1 DEF i
<1>10. /\ Front(Last(i)) = name /\ Last(Last(i)) = kind
  BY Zenon, <1>3, <1>4
<1>11. \A q \in Parents : Trimmed(q) = Front(i) =>
         ProjectGetItem(q, Front(Last(i)), Last(Last(i))) = i
  BY Zenon, <1>3, <1>6, <1>10
<1>12. i \in Found
  BY <1>2, <1>9, <1>11 DEF Found
<1> QED BY Zenon, <1>7, <1>8, <1>12 DEF i

\* An item is found again by its reference, wherever it has moved, and one that has not
\* through its space, which is the one read back from its reference (project.py, space.py,
\* item.py, kref.py).
THEOREM FoundByEveryName == Spec => []FoundAgain
<1>1. Store => FoundAgain
  <2> SUFFICES ASSUME Store, NEW i \in DOMAIN items
               PROVE  /\ i \in Found
                      /\ items[i].at = Front(i) =>
                           /\ SpaceGetItem(items[i].at, Front(Last(i)), Last(Last(i))) = i
                           /\ ItemGetSpace(i) = items[i].at
                      /\ Lower[Last(Last(i))] \in ReservedKinds => items[i].made = Bundle
                      /\ items[i].made = Bundle =>
                           /\ SpaceGetBundle(Front(i), Front(Last(i))) = i
                           /\ \A q \in Parents : Trimmed(q) = Front(i) =>
                                ProjectGetBundle(q, Front(Last(i))) = i
    BY DEF FoundAgain
  <2>1. i \in LeafPaths /\ KindOk(i, items[i].made)
    BY DEF Store, ItemsInv
  <2>2. PICK t \in Parent, name \in ItemNames, kind \in Kinds \cup {Bundle} :
          i = LeafPath(t, name, kind)
    BY <2>1 DEF LeafPaths
  <2>3. i \in Found /\ SpaceGetItem(t, name, kind) = i /\ ItemGetSpace(i) = t
    BY Zenon, <2>2, LeafFound
  <2>4. Last(i) = name \o <<kind>> /\ Front(i) = t
    BY Zenon, <2>2, LeafAbove
  <2>5. Last(name \o <<kind>>) = kind /\ Front(name \o <<kind>>) = name
    BY Zenon, LeafShape
  <2>6. Last(Last(i)) = kind /\ Front(Last(i)) = name
    BY Zenon, <2>4, <2>5
  <2>7. Trimmed(t) = t /\ ByKref(Ref(i)) = i
    <3>1. Trimmed(t) = t
      BY ParentClean
    <3> QED BY Zenon, <2>2, <3>1, ByKrefFinds
  <2>8. ASSUME items[i].made = Bundle, NEW q, Trimmed(q) = t
        PROVE  ProjectGetBundle(q, name) = i
    <3>1. kind = Bundle
      BY Zenon, <2>1, <2>6, <2>8 DEF KindOk
    <3>2. LeafPath(q, name, Bundle) = i
      BY Zenon, <2>2, <2>7, <2>8, <3>1 DEF LeafPath
    <3> QED BY Zenon, <2>6, <2>7, <3>1, <3>2 DEF ProjectGetBundle
  <2>9. items[i].made = Bundle =>
          /\ SpaceGetBundle(Front(i), Front(Last(i))) = i
          /\ \A q \in Parents : Trimmed(q) = Front(i) => ProjectGetBundle(q, Front(Last(i))) = i
    BY Zenon, <2>4, <2>6, <2>7, <2>8 DEF SpaceGetBundle
  <2>10. items[i].at = Front(i) =>
           /\ SpaceGetItem(items[i].at, Front(Last(i)), Last(Last(i))) = i
           /\ ItemGetSpace(i) = items[i].at
    BY Zenon, <2>3, <2>4, <2>6
  <2> QED BY Zenon, <2>1, <2>3, <2>9, <2>10 DEF KindOk
<1> QED BY <1>1, StoreInvariant, PTL
=============================================================================
