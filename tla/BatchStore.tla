----------------------------- MODULE BatchStore -----------------------------
(***************************************************************************)
(* tool_memory_store_batch (python/kumiho/mcp_server.py): the captures of  *)
(* a batch are prepared one by one, the ones that survive become the rows  *)
(* of chunked BatchCreateRevisions calls, and each created revision is     *)
(* tagged.  Results are positional, so three numberings must agree: the    *)
(* capture's, its row's, and the row's within its chunk, which with the    *)
(* chunk's offset is also its idempotency key at the server (external).    *)
(* A batch that raised, or whose caller is not satisfied, is submitted     *)
(* again under the same prefix.                                            *)
(*                                                                         *)
(* A capture that names no memory to revise is stacked onto a memory that  *)
(* says much the same, if the search finds one, or else mints an item      *)
(* named after its own content.                                            *)
(***************************************************************************)
EXTENDS Integers, SequencesExt

CONSTANTS
    Batch,           \* the captures: [revises, item, publish, text, type]; `item` is
                     \* the one it revises or else the one its content names, and
                     \* `publish` when its tags are absent or list "published"
    Items,           \* memories a capture may land on
    Space,           \* item -> the path of its space
    Older,           \* item -> [text, type] of a revision older than the batch
    Texts,           \* titles and summaries
    Alike,           \* sets {left, right} of texts that overlap enough
    Score,           \* capture, item -> the similarity the search reports
    MiddleBand,      \* KUMIHO_STACK_MIDDLE_BAND
    Refused,         \* captures that fail every preparation (empty, credentials, space)
    Limit,           \* _BATCH_ROW_LIMIT
    MaxSubmissions,  \* bound
    MaxLookups,      \* bound: get_item calls that fail for a capture that names its item
    MaxFaults        \* bound: other failures

Captures == DOMAIN Batch

Scores == {"weak", "middle", "strong"}

ASSUME BatchAssumption ==
    /\ Batch \in Seq([revises : BOOLEAN, item : Items, publish : BOOLEAN, text : Texts,
                      type : STRING])
    /\ Space \in [Items -> Seq(STRING)]
    /\ Older \in [Items -> [text : Texts, type : STRING]]
    /\ Alike \subseteq SUBSET Texts
    /\ Score \in [Captures -> [Items -> Scores]]
    /\ MiddleBand \in BOOLEAN
    /\ Refused \subseteq Captures
    /\ Limit \in Nat \ {0}
    /\ MaxSubmissions \in Nat /\ MaxLookups \in Nat /\ MaxFaults \in Nat

VARIABLES
    revs,       \* server: item -> its revisions [of: capture, 0 if older; frozen]
    published,  \* server: item -> number of the published revision, or None
    replay,     \* server: idempotency key -> [item, n] it created
    members,    \* server: items filed in a bundle
    edges,      \* server: revisions linked to the batch's sources
    pc,
    results,    \* capture -> Open, Failed or the [item, n] reported
    rows,       \* the batch rows: [capture, item, was: item had a published revision]
    created,    \* row -> [item, n], or Failed where the server rejected it
    reply,      \* the same for the rows of the call under way that the server applied
    done,       \* the captures, and later the rows, dealt with
    submissions, lookups, faults

store == <<revs, published, replay>>
server == <<store, members, edges>>
counters == <<submissions, lookups, faults>>
vars == <<server, pc, results, rows, created, reply, done, counters>>

None == 0

Open == [item |-> None, n |-> 0]

Failed == [item |-> None, n |-> -1]

Fault == faults < MaxFaults /\ faults' = faults + 1

---------------------------------------------------------------------------
(* The server (external). *)

\* `published` freezes the revision and is the item's one active such tag.
TagPublished(r) ==
    /\ ~revs[r.item][r.n].frozen
    /\ revs' = [revs EXCEPT ![r.item][r.n].frozen = TRUE]
    /\ published' = [published EXCEPT ![r.item] = r.n]

---------------------------------------------------------------------------
\* The batch is submitted, with what the caller knows of it: nothing.
Submit ==
    /\ pc \in {"start", "raised", "returned"} /\ submissions < MaxSubmissions
    /\ pc' = "prep"
    /\ results' = [c \in Captures |-> Open]
    /\ rows' = <<>> /\ created' = <<>> /\ done' = 0
    /\ submissions' = submissions + 1
    /\ UNCHANGED <<server, reply, lookups, faults>>

\* Phase 1: an empty, unsafe or unplaceable capture is an error of its own.
Refuse ==
    LET c == done + 1
    IN  /\ pc = "prep" /\ c \in Refused
        /\ results' = [results EXCEPT ![c] = Failed]
        /\ done' = c
        /\ UNCHANGED <<server, pc, rows, created, reply, counters>>

\* ... as is one whose item cannot be resolved this time.
Unresolved ==
    LET c == done + 1
    IN  /\ pc = "prep" /\ c \in Captures \ Refused /\ Batch[c].revises
        /\ lookups < MaxLookups
        /\ results' = [results EXCEPT ![c] = Failed]
        /\ done' = c
        /\ lookups' = lookups + 1
        /\ UNCHANGED <<server, pc, rows, created, reply, submissions, faults>>

\* A failure that is not about this capture leaves the tool.
PrepareRaises ==
    /\ pc = "prep" /\ done < Len(Batch)
    /\ Fault
    /\ pc' = "raised"
    /\ UNCHANGED <<server, results, rows, created, reply, done, submissions, lookups>>

\* The row of capture c goes to item i.
Prepare(c, i, was) ==
    /\ pc = "prep" /\ c = done + 1 /\ c \in Captures \ Refused
    /\ rows' = Append(rows, [capture |-> c, item |-> i, was |-> was])
    /\ done' = c
    /\ UNCHANGED <<server, pc, results, created, reply, submissions, lookups>>

\* A correction goes to the item it names; whether that item has a published revision
\* is read now, and a read that fails is one that finds none (_previous_revision).
PrepareRevise(c) ==
    /\ Batch[c].revises
    /\ \/ Prepare(c, Batch[c].item, published[Batch[c].item] # None) /\ UNCHANGED faults
       \/ Prepare(c, Batch[c].item, FALSE) /\ Fault

\* The space a capture addresses holds the item, or a space under it does; the search
\* also returns items of spaces whose name merely starts the same way.
Within(c, i) == IsPrefix(Space[Batch[c].item], Space[i])

Says(i, n) == IF revs[i][n].of = 0 THEN Older[i] ELSE Batch[revs[i][n].of]

\* The revision a candidate is judged by: its published one, or the latest where there
\* is none or reading it fails.
Profile(i) == {published[i], Len(revs[i])} \ {None}

\* Symmetric; a text that is too thin overlaps no other.
Overlaps(left, right) == {left, right} \in Alike

\* Mutant: the lexical floor does not bind in the strong band.
ShouldStackOnScore(c, i, says) ==
    \/ Score[c][i] = "strong"
    \/ /\ MiddleBand /\ Score[c][i] = "middle" /\ says.type = Batch[c].type
       /\ Overlaps(Batch[c].text, says.text)

\* The gate: lexical overlap, and a high score or a fair one and the same type.
ShouldStack(c, i, says) ==
    /\ Overlaps(Batch[c].text, says.text)
    /\ \/ Score[c][i] = "strong"
       \/ MiddleBand /\ Score[c][i] = "middle" /\ says.type = Batch[c].type

\* What the search, which is tried twice, may put first in the space.
Candidates(c) == {i \in Items : Within(c, i) /\ revs[i] # <<>>}

\* The candidate passes the gate.
Stack(c, i) ==
    /\ ~Batch[c].revises
    /\ i \in Candidates(c)
    /\ \E n \in Profile(i) : ShouldStack(c, i, Says(i, n))
    /\ Prepare(c, i, FALSE) /\ UNCHANGED faults

\* The search fails both times, or what it puts first is not near enough.
Mint(c) ==
    /\ ~Batch[c].revises
    /\ Prepare(c, Batch[c].item, FALSE) /\ UNCHANGED faults

\* Nothing to write is an answer already.
Prepared ==
    /\ pc = "prep" /\ done = Len(Batch)
    /\ pc' = IF rows = <<>> THEN "returned" ELSE "write"
    /\ done' = 0
    /\ UNCHANGED <<server, results, rows, created, reply, counters>>

\* Phase 2: the next chunk of rows, from `start` on.
RowsFrom(start) ==
    SubSeq(rows, start + 1, IF start + Limit < Len(rows) THEN start + Limit ELSE Len(rows))

\* Mutant: every chunk is sent under the bare prefix.
ChunkWithoutOffset == [start |-> 0, rows |-> RowsFrom(Len(created))]

\* Mutant: every submission has a prefix of its own.
ChunkOfSubmission == [start |-> <<submissions, Len(created)>>, rows |-> RowsFrom(Len(created))]

Chunk == [start |-> Len(created), rows |-> RowsFrom(Len(created))]

\* One BatchCreateRevisions call.
Write ==
    /\ pc = "write" /\ Len(created) < Len(rows)
    /\ pc' = "serve"
    /\ reply' = <<>>
    /\ UNCHANGED <<server, results, rows, created, done, counters>>

\* The server (external) applies the rows of a call in order and commits them together.
Serve(k) == pc = "serve" /\ k \in DOMAIN Chunk.rows /\ k = Len(reply) + 1

Key(k) == <<Chunk.start, k>>

\* A known key replays what it created.
Replay(k) ==
    /\ Serve(k) /\ Key(k) \in DOMAIN replay
    /\ reply' = Append(reply, replay[Key(k)])
    /\ UNCHANGED <<server, pc, results, rows, created, done, counters>>

\* A rejected row creates nothing.
Reject(k) ==
    /\ Serve(k) /\ Key(k) \notin DOMAIN replay
    /\ Fault
    /\ reply' = Append(reply, Failed)
    /\ UNCHANGED <<server, pc, results, rows, created, done, submissions, lookups>>

\* Any other is the next revision of its item, which is created if need be.
Create(k) ==
    LET row == Chunk.rows[k]
        revision == [item |-> row.item, n |-> Len(revs[row.item]) + 1]
    IN  /\ Serve(k) /\ Key(k) \notin DOMAIN replay
        /\ revs' = [revs EXCEPT ![row.item] =
                        Append(@, [of |-> row.capture, frozen |-> FALSE])]
        /\ replay' = [key \in DOMAIN replay \cup {Key(k)} |->
                         IF key = Key(k) THEN revision ELSE replay[key]]
        /\ reply' = Append(reply, revision)
        /\ UNCHANGED <<published, members, edges, pc, results, rows, created, done,
                       counters>>

Served == pc = "serve" /\ Len(reply) = Len(Chunk.rows)

\* The results of a call are those of the rows from its offset on.
Receive ==
    /\ Served
    /\ created' = created \o reply
    /\ pc' = "write"
    /\ UNCHANGED <<server, results, rows, reply, done, counters>>

\* The answer is lost and the channel's retry sends the same keys again.
WriteLost ==
    /\ Served
    /\ Fault
    /\ pc' = "write"
    /\ UNCHANGED <<server, results, rows, created, reply, done, submissions, lookups>>

\* The call fails, or its answer is lost: the tool raises, the chunks stay written.
WriteRaises ==
    /\ Served \/ (pc = "write" /\ Len(created) < Len(rows))
    /\ Fault
    /\ pc' = "raised"
    /\ UNCHANGED <<server, results, rows, created, reply, done, submissions, lookups>>

Written ==
    /\ pc = "write" /\ Len(created) = Len(rows)
    /\ pc' = "post"
    /\ UNCHANGED <<server, results, rows, created, reply, done, counters>>

---------------------------------------------------------------------------
(* Phase 3: row by row. *)

Row == rows[done + 1]

Revision == created[done + 1]

\* The result of the row goes to its capture.
Answer(r) ==
    /\ results' = [results EXCEPT ![Row.capture] = r]
    /\ done' = done + 1
    /\ UNCHANGED <<replay, pc, rows, created, reply, submissions, lookups>>

AnswerRejected ==
    /\ pc = "post" /\ done < Len(rows) /\ Revision = Failed
    /\ Answer(Failed)
    /\ UNCHANGED <<revs, published, members, edges, faults>>

\* The bundle and the batch's sources, best effort.
Link(filed) == edges' = edges \cup {Revision} /\ members' = members \cup filed

\* The item the row was prepared for; a replayed row may have created another.
Filed == {Row.item} \ {i \in Items : revs[i] = <<>>}

LinkOrNot(filed) ==
    \/ Link(filed) /\ UNCHANGED faults
    \/ Fault /\ edges' \in {edges, edges \cup {Revision}}
             /\ members' \in {members, members \cup filed}

\* A capture without a target: tags (a frozen revision refuses them) and bundle, best
\* effort.
AnswerNew ==
    LET publish == Batch[Row.capture].publish
        frozen == revs[Revision.item][Revision.n].frozen
    IN  /\ pc = "post" /\ done < Len(rows) /\ Revision # Failed
        /\ ~Batch[Row.capture].revises
        /\ Answer(Revision)
        /\ \/ publish /\ TagPublished(Revision) /\ LinkOrNot(Filed)
           \/ ~publish /\ UNCHANGED <<revs, published>> /\ LinkOrNot(Filed)
           \/ frozen /\ UNCHANGED <<revs, published>> /\ LinkOrNot(Filed)
           \/ Fault /\ UNCHANGED <<revs, published>> /\ Link(Filed)

\* A correction: `published` is carried forward where it was, and only there.
AnswerRevised ==
    /\ pc = "post" /\ done < Len(rows) /\ Revision # Failed
    /\ Batch[Row.capture].revises
    /\ IF Row.was THEN TagPublished(Revision) ELSE UNCHANGED <<revs, published>>
    /\ Answer(Revision)
    /\ LinkOrNot({})

\* Mutant: a `published` that did not move is not an error.
NotMovedIsFine ==
    /\ pc = "post" /\ done < Len(rows) /\ Revision # Failed /\ Row.was
    /\ revs[Revision.item][Revision.n].frozen \/ Fault
    /\ Answer(Revision)
    /\ UNCHANGED <<revs, published, members, edges>>

\* "Failed to move the published tag".
AnswerNotMoved ==
    /\ pc = "post" /\ done < Len(rows) /\ Revision # Failed /\ Row.was
    /\ \/ revs[Revision.item][Revision.n].frozen /\ UNCHANGED <<revs, published, faults>>
       \/ Fault /\ (TagPublished(Revision) \/ UNCHANGED <<revs, published>>)
    /\ Answer(Failed)
    /\ UNCHANGED <<members, edges>>

Return ==
    /\ pc = "post" /\ done = Len(rows)
    /\ pc' = "returned"
    /\ UNCHANGED <<server, results, rows, created, reply, done, counters>>

---------------------------------------------------------------------------
OlderRevision(frozen) == <<[of |-> 0, frozen |-> frozen]>>

\* A capture that names its item names one that exists.
Init ==
    /\ revs \in [Items -> {<<>>, OlderRevision(FALSE), OlderRevision(TRUE)}]
    /\ \A c \in Captures : Batch[c].revises => revs[Batch[c].item] # <<>>
    /\ published = [i \in Items |-> IF revs[i] = OlderRevision(TRUE) THEN 1 ELSE None]
    /\ replay = <<>>
    /\ members = {} /\ edges = {}
    /\ pc = "start"
    /\ results = [c \in Captures |-> Open]
    /\ rows = <<>> /\ created = <<>> /\ reply = <<>> /\ done = 0
    /\ submissions = 0 /\ lookups = 0 /\ faults = 0

Next ==
    \/ Submit
    \/ Refuse \/ Unresolved \/ PrepareRaises \/ Prepared
    \/ \E c \in Captures : PrepareRevise(c) \/ Mint(c) \/ \E i \in Items : Stack(c, i)
    \/ Write \/ Receive \/ WriteLost \/ WriteRaises \/ Written
    \/ \E k \in 1..Limit : Replay(k) \/ Reject(k) \/ Create(k)
    \/ AnswerRejected \/ AnswerNew \/ AnswerRevised \/ AnswerNotMoved \/ Return

Spec == Init /\ [][Next]_vars

---------------------------------------------------------------------------
(* Properties *)

\* Submissions agree on their rows: none, or only one, failed to resolve a capture.
SameRows == submissions <= 1 \/ lookups = 0

\* The revision lies on the item the capture names, or above one that says much the
\* same, in the space the capture addresses.
OnItsItem(c, r) ==
    \/ r.item = Batch[c].item
    \/ /\ ~Batch[c].revises /\ Within(c, r.item)
       /\ \E n \in 1..(r.n - 1) : Overlaps(Batch[c].text, Says(r.item, n).text)

\* The answer of each capture is its own: a capture answered as stored is the content
\* of the revision it was answered with, which lies where the capture belongs, a refused
\* one is answered as failed, and a batch that returns leaves none open -- over chunks,
\* refused and unresolved captures, rejected rows and submissions that raised, and
\* though an earlier submission may have stacked a capture that this one mints.
AnswersAreOwn ==
    SameRows => \A c \in Captures :
        /\ results[c] \notin {Open, Failed} =>
              /\ c \notin Refused
              /\ revs[results[c].item][results[c].n].of = c
              /\ OnItsItem(c, results[c])
        /\ pc = "returned" => results[c] # Open

NoneTwice ==
    \A i, j \in Items : \A m \in DOMAIN revs[i], n \in DOMAIN revs[j] :
        revs[i][m].of = revs[j][n].of /\ revs[i][m].of # 0 => i = j /\ m = n

\* No capture is written twice, whatever was lost or rejected on the way, as long as
\* every submission finds the items its captures name.
WrittenOnce == SameRows => NoneTwice

\* "Re-submitting the same captures replays as a no-op", also when one of them could
\* not be resolved the first time.
ResubmissionIsNoOp == NoneTwice

\* When the batch returns, a correction answered as stored that was to carry
\* `published` forward is what recall finds, or else a later capture of the batch is.
CorrectionsAreRecalled ==
    pc = "returned" /\ SameRows =>
        \A k \in DOMAIN rows :
            LET i == rows[k].item
                c == rows[k].capture
            IN  rows[k].was /\ results[c] # Failed => revs[i][published[i]].of >= c
===========================================================================
