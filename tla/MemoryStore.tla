---------------------------- MODULE MemoryStore ----------------------------
(***************************************************************************)
(* tool_memory_store of the MCP server (python/kumiho/mcp_server.py): one  *)
(* memory is stored as a revision, given its artifact, tagged, filed in a  *)
(* bundle and linked to its sources.  Each of these is an RPC of its own,  *)
(* and tool calls run on threads, so calls interleave between RPCs.        *)
(*                                                                         *)
(* A call either names the item it revises (item_kref) or lets the search  *)
(* pick an item, or mints one; which item the search picks is left open.   *)
(* The Kumiho server is external: it numbers revisions, keeps one active   *)
(* `published` tag per item and freezes a revision once published.  Spaces *)
(* and the caches of this process are in module Spaces.                    *)
(***************************************************************************)
EXTENDS Integers, Sequences, FiniteSets

CONSTANTS
    Calls,      \* tool calls, each made once
    Items,      \* memories; one without revisions is not created yet
    Labels,     \* classification tags
    Published,  \* the tag recall resolves first
    TagLists,   \* the `tags` arguments callers pass
    Sources,    \* source_revision_krefs
    MaxFaults   \* bound: failed or unanswered RPCs

ASSUME MemoryAssumption ==
    /\ Items # {}
    /\ Published \notin Labels
    /\ TagLists \subseteq Seq(Labels \cup {Published})
    /\ MaxFaults \in Nat

VARIABLES
    revs,       \* server: item -> its revisions, by number
    published,  \* server: item -> number of its published revision, or None
    members,    \* server: items filed in a bundle
    edges,      \* server: provenance edges <<item, number, source>>
    call,       \* call -> its progress
    faults

server == <<revs, published, members, edges>>
vars == <<server, call, faults>>

None == 0

Tags == Labels \cup {Published}

NewRevision == [artifact |-> FALSE, tags |-> {}, frozen |-> FALSE]

Phases == {"idle", "published", "latest", "create", "artifact", "tags",
           "publish", "file", "link", "ok", "error"}

Fault == faults < MaxFaults /\ faults' = faults + 1

\* The call moves on to phase `pc`.
Goto(c, pc) == call' = [call EXCEPT ![c].pc = pc]

---------------------------------------------------------------------------
(* The server (external). *)

\* create_revision returns the next number of the item.
Append1(i) == revs' = [revs EXCEPT ![i] = Append(@, NewRevision)]

\* A published revision is frozen; publishing moves the item's one active tag.
TagRevision(i, n, t) ==
    /\ ~revs[i][n].frozen
    /\ revs' = [revs EXCEPT ![i][n].tags = @ \cup {t},
                            ![i][n].frozen = (t = Published)]
    /\ published' = IF t = Published THEN [published EXCEPT ![i] = n] ELSE published

\* An RPC whose effect is `effect` fails, before it took effect or after.
Fails(effect, unchanged) == Fault /\ (effect \/ unchanged)

---------------------------------------------------------------------------
(* The target, and what it supersedes. *)

\* The best-effort tags of a call: `published` unless the caller passed some, and
\* none by default when revising.
TagsToApply(revise, tags) ==
    IF ~revise /\ tags = <<>> THEN <<Published>> ELSE tags

\* A revise target must resolve (get_item); any other call goes straight to the
\* item that the search or the hash of its text names.
Begin(c, i, revise, tags) ==
    /\ call[c].pc = "idle"
    /\ revise => revs[i] # <<>>
    /\ call' = [call EXCEPT ![c] =
                  [@ EXCEPT !.pc = IF revise THEN "published" ELSE "create",
                            !.item = i, !.revise = revise, !.tags = tags,
                            !.todo = TagsToApply(revise, tags)]]
    /\ UNCHANGED <<server, faults>>

\* _previous_revision: the published revision decides whether the tag may move.
ReadPublished(c) ==
    /\ call[c].pc = "published"
    /\ LET p == published[call[c].item]
       IN  call' = [call EXCEPT ![c].prev = p,
                                ![c].was = (p # None),
                                ![c].pc = IF p # None THEN "create" ELSE "latest"]
    /\ UNCHANGED <<server, faults>>

\* ... and every exception of that read counts as "not published".
ReadPublishedFails(c) ==
    /\ call[c].pc = "published"
    /\ Fault
    /\ Goto(c, "latest")
    /\ UNCHANGED server

\* ... falling back to `latest`, which only the report uses.
ReadLatest(c) ==
    /\ call[c].pc = "latest"
    /\ \/ /\ call' = [call EXCEPT ![c].prev = Len(revs[call[c].item]), ![c].pc = "create"]
          /\ UNCHANGED faults
       \/ Fault /\ Goto(c, "create")
    /\ UNCHANGED server

---------------------------------------------------------------------------
(* The revision and its artifact. *)

\* Mutant: the number is read before the revision is appended.
CreateNumberedEarly(c) ==
    LET i == call[c].item
    IN  /\ call[c].pc = "create"
        /\ Append1(i)
        /\ call' = [call EXCEPT ![c].n = Len(revs[i]), ![c].pc = "artifact"]
        /\ UNCHANGED <<published, members, edges, faults>>

Create(c) ==
    LET i == call[c].item
    IN  /\ call[c].pc = "create"
        /\ Append1(i)
        /\ call' = [call EXCEPT ![c].n = Len(revs'[i]), ![c].pc = "artifact"]
        /\ UNCHANGED <<published, members, edges, faults>>

\* The answer of create_revision is lost and the channel's retry sends it again: the
\* revision it made stays, and the call goes on to make another.
CreateLost(c) ==
    /\ call[c].pc = "create"
    /\ Fault
    /\ Append1(call[c].item)
    /\ UNCHANGED <<published, members, edges, call>>

\* The exception leaves the tool, with or without a revision on the server.
CreateFails(c) ==
    /\ call[c].pc = "create"
    /\ Fails(Append1(call[c].item), UNCHANGED revs)
    /\ Goto(c, "error")
    /\ UNCHANGED <<published, members, edges>>

\* create_artifact, which a frozen revision refuses.
SetArtifact(c) ==
    /\ ~revs[call[c].item][call[c].n].frozen
    /\ revs' = [revs EXCEPT ![call[c].item][call[c].n].artifact = TRUE]

\* No location was given and the artifact file could not be written.
NoLocation(c) ==
    /\ call[c].pc = "artifact"
    /\ Fault
    /\ call' = [call EXCEPT ![c].located = FALSE, ![c].pc = "tags"]
    /\ UNCHANGED server

Artifact(c) ==
    /\ call[c].pc = "artifact"
    /\ SetArtifact(c)
    /\ Goto(c, "tags")
    /\ UNCHANGED <<published, members, edges, faults>>

\* Mutant: a failed create_artifact is a warning, like a failed file.
ArtifactFailsSilently(c) ==
    /\ call[c].pc = "artifact"
    /\ \/ Fails(SetArtifact(c), UNCHANGED revs)
       \/ revs[call[c].item][call[c].n].frozen /\ UNCHANGED <<revs, faults>>
    /\ Goto(c, "tags")
    /\ UNCHANGED <<published, members, edges>>

\* A failed artifact ends the call with an error: the revision stays untagged.
ArtifactFails(c) ==
    /\ call[c].pc = "artifact"
    /\ \/ Fails(SetArtifact(c), UNCHANGED revs)
       \/ revs[call[c].item][call[c].n].frozen /\ UNCHANGED <<revs, faults>>
    /\ Goto(c, "error")
    /\ UNCHANGED <<published, members, edges>>

---------------------------------------------------------------------------
(* Tags. *)

\* Mutant: the caller's own "published" is applied like any other tag.
SkipsNone(c, t) == FALSE

\* A revise never takes `published` from the caller's tags.
Skips(c, t) == call[c].revise /\ t = Published

\* The next best-effort tag, which a frozen revision refuses; then on.
Tag(c) ==
    LET i == call[c].item
        n == call[c].n
        t == Head(call[c].todo)
    IN  /\ call[c].pc = "tags" /\ call[c].todo # <<>>
        /\ call' = [call EXCEPT ![c].todo = Tail(@)]
        /\ \/ ~Skips(c, t) /\ TagRevision(i, n, t) /\ UNCHANGED faults
           \/ Skips(c, t) /\ UNCHANGED <<revs, published, faults>>
           \/ revs[i][n].frozen /\ UNCHANGED <<revs, published, faults>>
           \/ /\ ~Skips(c, t)
              /\ Fails(TagRevision(i, n, t), UNCHANGED <<revs, published>>)
        /\ UNCHANGED <<members, edges>>

\* Mutant: `published` is moved before the caller's tags have been applied.
TaggedTooEarly(c) ==
    /\ call[c].pc = "tags"
    /\ Goto(c, IF ~call[c].revise THEN "file"
               ELSE IF call[c].was THEN "publish" ELSE "link")
    /\ UNCHANGED <<server, faults>>

\* After the tags: carry `published` forward, or file a memory that was not named.
Tagged(c) ==
    /\ call[c].pc = "tags" /\ call[c].todo = <<>>
    /\ Goto(c, IF ~call[c].revise THEN "file"
               ELSE IF call[c].was THEN "publish" ELSE "link")
    /\ UNCHANGED <<server, faults>>

Publish(c) ==
    /\ call[c].pc = "publish"
    /\ TagRevision(call[c].item, call[c].n, Published)
    /\ Goto(c, "link")
    /\ UNCHANGED <<members, edges, faults>>

\* Mutant: a failed `published` is swallowed like any other tag.
PublishFailsSilently(c) ==
    /\ call[c].pc = "publish"
    /\ \/ Fails(TagRevision(call[c].item, call[c].n, Published),
                UNCHANGED <<revs, published>>)
       \/ /\ revs[call[c].item][call[c].n].frozen
          /\ UNCHANGED <<revs, published, faults>>
    /\ Goto(c, "link")
    /\ UNCHANGED <<members, edges>>

\* "Failed to move the published tag".
PublishFails(c) ==
    /\ call[c].pc = "publish"
    /\ \/ Fails(TagRevision(call[c].item, call[c].n, Published),
                UNCHANGED <<revs, published>>)
       \/ /\ revs[call[c].item][call[c].n].frozen
          /\ UNCHANGED <<revs, published, faults>>
    /\ Goto(c, "error")
    /\ UNCHANGED <<members, edges>>

---------------------------------------------------------------------------
(* Bundle and provenance, both best effort. *)

File(c) ==
    /\ call[c].pc = "file"
    /\ \/ members' = members \cup {call[c].item} /\ UNCHANGED faults
       \/ Fails(members' = members \cup {call[c].item}, UNCHANGED members)
    /\ Goto(c, "link")
    /\ UNCHANGED <<revs, published, edges>>

\* Edges to the sources that could be read and linked.
Link(c) ==
    /\ call[c].pc = "link"
    /\ \E linked \in SUBSET Sources :
          /\ edges' = edges \cup {<<call[c].item, call[c].n, s>> : s \in linked}
          /\ IF linked = Sources THEN UNCHANGED faults ELSE Fault
    /\ Goto(c, "ok")
    /\ UNCHANGED <<revs, published, members>>

\* Someone else approves a revision (tool_tag_revision).
Approve(i, n) ==
    /\ TagRevision(i, n, Published)
    /\ UNCHANGED <<members, edges, call, faults>>

---------------------------------------------------------------------------
Unpublished == <<[NewRevision EXCEPT !.artifact = TRUE]>>

Approved == <<[artifact |-> TRUE, tags |-> {Published}, frozen |-> TRUE]>>

Init ==
    /\ revs \in [Items -> {<<>>, Unpublished, Approved}]
    /\ published = [i \in Items |-> IF revs[i] = Approved THEN 1 ELSE None]
    /\ members = {}
    /\ edges = {}
    /\ call = [c \in Calls |->
                  [pc |-> "idle", item |-> CHOOSE i \in Items : TRUE, revise |-> FALSE,
                   tags |-> <<>>, todo |-> <<>>, prev |-> None, was |-> FALSE, n |-> 0,
                   located |-> TRUE]]
    /\ faults = 0

Step(c) ==
    \/ ReadPublished(c) \/ ReadPublishedFails(c) \/ ReadLatest(c)
    \/ Create(c) \/ CreateLost(c) \/ CreateFails(c)
    \/ NoLocation(c) \/ Artifact(c) \/ ArtifactFails(c)
    \/ Tag(c) \/ Tagged(c) \/ Publish(c) \/ PublishFails(c)
    \/ File(c) \/ Link(c)

Next ==
    \/ \E c \in Calls :
          \/ \E i \in Items, revise \in BOOLEAN, tags \in TagLists : Begin(c, i, revise, tags)
          \/ Step(c)
    \/ \E i \in Items : \E n \in DOMAIN revs[i] : Approve(i, n)

Spec == Init /\ [][Next]_vars

---------------------------------------------------------------------------
(* Properties *)

Revision == [artifact : BOOLEAN, tags : SUBSET Tags, frozen : BOOLEAN]

Progress == [pc : Phases, item : Items, revise : BOOLEAN, tags : Seq(Tags),
             todo : Seq(Tags), prev : Nat, was : BOOLEAN, n : Nat,
             located : BOOLEAN]

\* Phases in which the call has created its revision.
Created(c) == call[c].pc \in {"artifact", "tags", "publish", "file", "link", "ok"}

\* Phases after the artifact.
Attached(c) == call[c].pc \in {"tags", "publish", "file", "link", "ok"}

TypeOK ==
    /\ revs \in [Items -> Seq(Revision)]
    /\ published \in [Items -> Nat]
    /\ \A i \in Items : published[i] <= Len(revs[i])
    /\ members \subseteq Items
    /\ edges \subseteq Items \X Nat \X Sources
    /\ call \in [Calls -> Progress]
    /\ \A c \in Calls : Created(c) => call[c].n \in DOMAIN revs[call[c].item]
    /\ faults \in 0..MaxFaults

\* A store that was answered without an error moved `published` off the revision
\* it reports as corrected, if that one was published: whatever other calls,
\* failures and approvals happened, recall no longer returns that text
\* ("you get an error instead of a success that did not happen").
SuccessMeansMoved ==
    \A c \in Calls :
        call[c].pc = "ok" /\ call[c].was => published[call[c].item] # call[c].prev

\* A call that had an artifact to attach never publishes a memory without it:
\* frozen, the memory could not get its artifact any more.
PublishedIsComplete ==
    \A c \in Calls :
        LET rev == revs[call[c].item][call[c].n]
        IN  Attached(c) /\ call[c].located /\ rev.frozen => rev.artifact

\* When the tag was carried forward and no call failed, the caller's own tags are
\* all on the revision ("your own tags are applied first and published last").
CallerTagsLand ==
    \A c \in Calls :
        call[c].pc = "ok" /\ call[c].was /\ faults = 0
            => \A k \in DOMAIN call[c].tags :
                   call[c].tags[k] \in revs[call[c].item][call[c].n].tags

\* No step of a call that names its target publishes a memory that was not
\* published ("an unpublished memory stays unpublished when it is revised").
PublishesOnlyTheApproved ==
    \A c \in Calls :
        call[c].revise /\ call'[c] # call[c] =>
            \A i \in Items : published[i] = None => published'[i] = None

NothingPublishedOnItsOwn == [][PublishesOnlyTheApproved]_vars

\* RELEASE_NOTES.md on revising: "if the tag stays on the old revision, recall
\* keeps serving the text you just corrected. You get an error instead of a
\* success that did not happen": when a call that named its target answers without
\* an error, the revision it reports as corrected is not the published one.
AnswersTruthfully ==
    \A c \in Calls :
        call[c].pc = "link" /\ call'[c].pc = "ok" /\ call[c].revise
            => published[call[c].item] # call[c].prev \/ call[c].prev = None

CorrectedTextIsNotRecalled == [][AnswersTruthfully]_vars
===========================================================================
