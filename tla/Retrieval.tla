------------------------------ MODULE Retrieval ------------------------------
(***************************************************************************)
(* tool_memory_retrieve (python/kumiho/mcp_server.py): which memories one  *)
(* call answers with, while others write, publish and delete.  A relevance *)
(* search proposes items; each is resolved to one revision, `published`    *)
(* before `latest`, in batches or one by one; bundles and a listing of the *)
(* spaces fill in.  A read of the server (external) is a step of its own   *)
(* and may fail; only the reads that find a bundle and list its members    *)
(* are one step.  Dates are the order of the writes; timestamps that       *)
(* cannot be parsed are left out.                                          *)
(***************************************************************************)
EXTENDS Integers, FiniteSets, SequencesExt, FiniteSetsExt

CONSTANTS
    Items,
    Contexts,    \* space paths callers name
    Prefixed,    \* context -> the items whose path begins with its text: the server's filter
    Within,      \* context -> those of them in the space or below (_within_contexts)
    Members,     \* the members of the bundle callers name
    Types,       \* memory types
    Requests,    \* the calls made
    Stores,      \* what the server holds at first: [project, created, revs, pub]
    Today,       \* the date of the first write
    Limit,       \* limit
    Window,      \* _latest_candidate_pool(limit)
    Strong,      \* hits that score above a bundle member's 0.5
    MaxRevs,     \* bound: revisions per item
    MaxWrites,   \* bound: writes
    MaxFailures    \* bound: failed reads

\* How a call is made: contexts in order, with search terms or not, ...
AllRequests == [mode : {"search", "latest", "first"}, contexts : SeqOf(Contexts, 2) \ {<<>>},
                query : BOOLEAN, packet : BOOLEAN, unroll : BOOLEAN, bundle : BOOLEAN,
                types : SUBSET Types]

ASSUME RetrievalAssumption ==
    /\ IsFiniteSet(Items)
    /\ Within \in [Contexts -> SUBSET Items] /\ Prefixed \in [Contexts -> SUBSET Items]
    /\ \A x \in Contexts : Within[x] \subseteq Prefixed[x]
    /\ Members \subseteq Items
    /\ Requests \subseteq AllRequests
    \* packet_mode needs a query, one revision per item and is not for mode "first"
    /\ \A r \in Requests : r.packet => r.query /\ ~r.unroll /\ r.mode # "first"
    /\ Limit \in Nat \ {0} /\ Window \in Nat /\ Limit * 2 <= Window /\ Strong \in Nat
    /\ Today \in Nat \ {0} /\ MaxRevs \in Nat /\ MaxWrites \in Nat /\ MaxFailures \in Nat

\* A project has items, an item revisions, and a revision may be published; no two writes
\* have one date.
ASSUME StoresAssumption ==
    \A s \in Stores :
        /\ s.project \in BOOLEAN
        /\ s.created \in [Items -> Nat] /\ s.pub \in [Items -> Nat]
        /\ s.revs \in [Items -> Seq([date : Nat, type : Types])]
        /\ \A i \in Items : s.pub[i] \in 0..Len(s.revs[i])
        /\ \A i \in Items : s.created[i] = 0 => s.revs[i] = <<>>
        /\ \A i \in Items : /\ s.created[i] < Today
                            /\ \A n \in DOMAIN s.revs[i] : s.revs[i][n].date < Today
        /\ \A i, j \in Items : i # j =>
              /\ s.created[i] = s.created[j] => s.created[i] = 0
              /\ \A n \in DOMAIN s.revs[i], m \in DOMAIN s.revs[j] :
                    s.revs[i][n].date # s.revs[j][m].date
        /\ \A i \in Items : \A n, m \in DOMAIN s.revs[i] :
              n # m => s.revs[i][n].date # s.revs[i][m].date

VARIABLES
    project,   \* server: the project exists
    created,   \* server: item -> its date, 0 before it is made
    revs,      \* server: item -> its revisions, [date, type] each
    pub,       \* server: item -> the number of the published revision, or 0
    gone,      \* server: deleted items
    date,
    backoff,   \* _batch_recall_backoff holds for this client
    req,       \* the request
    pc,
    rank,      \* the items that match the search terms, best first
    hits,      \* the hits so far
    source,    \* where the items to resolve come from: "hits", "bundle" or "list"
    todo,      \* what is left to resolve
    got,       \* what a batch has resolved: item -> revision, 0 for none
    results,   \* [item, rev, score]
    ctx,       \* the contexts not yet searched
    checked,   \* project_checked
    answer,    \* the answer, or an error
    seen,      \* history: item -> what was published in the course of the call
    spoiled,   \* history: items a read of which failed, or that were deleted or first written
    pool,      \* history: the items taken for resolution
    existed,   \* history: the project was there, or was missing, during the call
    writes, failures

store == <<project, created, revs, pub, gone, date, writes>>
locals == <<rank, hits, source, todo, got, results, ctx, checked>>
history == <<seen, spoiled, pool, existed>>
retrievalVars == <<store, backoff, req, pc, locals, answer, history, failures>>

None == [i \in Items |-> 0]
Pending == [status |-> "pending", found |-> <<>>]
Error(status) == [status |-> status, found |-> <<>>]

Alive(i) == created[i] # 0 /\ i \notin gone
Latest(i) == Len(revs[i])
InScope(i) == \E k \in DOMAIN req.contexts : i \in Within[req.contexts[k]]

\* _matches_memory_types
Matches(i, n) == req.types = {} \/ revs[i][n].type \in req.types

Modified(i) == IF revs[i] = <<>> THEN created[i] ELSE Last(revs[i]).date

\* The members of K in an order; equals come in any order.
Arranged(K, Less(_, _)) ==
    {s \in SetToSeqs(K) : \A k, l \in DOMAIN s : k < l => ~Less(s[l], s[k])}

\* The first n of K in that order.
First(K, n, Less(_, _)) == {k \in K : Cardinality({l \in K : Less(l, k)}) < n}

\* The rows of a sequence that pass a test, in their order.
RowsOf(s, Test(_)) ==
    {[k \in DOMAIN p |-> s[p[k]]] : p \in Arranged({k \in DOMAIN s : Test(s[k])}, <)}

\* Which items the listing resolves, and in which order: _most_recent_items,
\* _newest_revisions and _oldest_items_first.
Younger(i, j) == created[i] > created[j]
Older(i, j) == created[i] < created[j]
Fresher(i, j) == Modified(i) > Modified(j)
MostRecentItems(S) == Arranged(First(S, 2 * Limit, Younger), Younger)
NewestRevisions(S) == Arranged(First(S, Window, Fresher), Fresher)
OldestItemsFirst(S) == Arranged(S, Older)

\* A hit's score falls with its rank; a bundle member has 0.5, a listed item 0.
Position(i) == CHOOSE k \in 1..Len(rank) : rank[k] = i
HitScore(i) == (IF Position(i) <= Strong THEN 100 ELSE 50) - Position(i)
BundleScore == 50
ListScore == 0

Entry(i, n, score) == [item |-> i, rev |-> n, score |-> score]
Has(rs, i) == \E k \in DOMAIN rs : rs[k].item = i

Fail(status) ==
    /\ pc' = "done" /\ answer' = Error(status)
    /\ UNCHANGED <<locals, backoff>>

ReadFault == failures < MaxFailures /\ failures' = failures + 1

---------------------------------------------------------------------------
(* The call. *)

Frame == UNCHANGED <<store, req>>

\* The relevance search, the bundles and the listing follow each other.
Rest == IF req.bundle /\ Len(results) < Limit THEN "bundle" ELSE "fallback"

\* Outside packet mode the project is looked up first.
Retrieve(r) ==
    /\ pc = "idle"
    /\ req' = r /\ pc' = IF r.packet THEN "search" ELSE "project"
    /\ \E s \in UNION {SetToSeqs(S) : S \in SUBSET Items} : rank' = IF r.query THEN s ELSE <<>>
    /\ hits' = <<>> /\ source' = "hits" /\ todo' = <<>> /\ got' = None /\ results' = <<>>
    /\ ctx' = r.contexts /\ checked' = ~r.packet
    /\ answer' = Pending
    /\ seen' = [i \in Items |-> {pub[i]}] /\ spoiled' = gone /\ pool' = {}
    /\ existed' = {project}
    /\ UNCHANGED <<store, backoff, failures>>

GetProject ==
    /\ pc = "project" /\ Frame
    /\ \/ /\ project /\ pc' = IF req.query THEN "search"
                              ELSE IF req.mode = "first" THEN "list" ELSE Rest
          /\ UNCHANGED <<backoff, locals, answer, history, failures>>
       \/ /\ ~project /\ Fail("missing") /\ UNCHANGED <<history, failures>>
       \/ /\ ReadFault /\ Fail("raised") /\ UNCHANGED history

\* What a search of the context answers; deep search finds nothing on some servers.
Rows(x) == RowsOf(rank, LAMBDA i : i \in Prefixed[x] /\ Alive(i))

\* The revision an item stands for at this moment.
Best(i) == IF pub[i] # 0 THEN pub[i] ELSE Latest(i)

\* The search of the next context.  In packet mode its rows may carry revisions and
\* vouch for the project; if they do not vouch the project is looked up.
Search ==
    /\ pc \in {"search", "shallow"} /\ ctx # <<>> /\ Frame
    /\ UNCHANGED <<rank, source, todo, results, answer, history, backoff, failures>>
    /\ \E rows \in Rows(Head(ctx)) \cup (IF pc = "search" THEN {<<>>} ELSE {}) :
          /\ hits' = hits \o rows
          /\ ctx' = Tail(ctx)
          /\ \E carries \in IF req.packet THEN BOOLEAN ELSE {FALSE} :
                /\ got' = [i \in Items |-> IF carries /\ i \in Range(rows) THEN Best(i) ELSE got[i]]
                /\ checked' = (checked \/ (carries /\ project))
    /\ pc' = IF checked' THEN pc ELSE "check"

\* Any failure of the search: the call goes on without hits.
SearchLost ==
    /\ hits' = <<>> /\ ctx' = req.contexts
    /\ UNCHANGED <<checked, answer>>
    /\ pc' = IF req.mode = "first" THEN "list" ELSE IF checked THEN Rest ELSE "verify"

\* The project is looked up after all, and a missing one empties the hits.
CheckProject ==
    /\ pc = "check" /\ Frame
    /\ UNCHANGED <<rank, source, todo, got, results, history, backoff>>
    /\ \/ /\ project /\ checked' = TRUE /\ pc' = "search"
          /\ UNCHANGED <<hits, ctx, answer, failures>>
       \/ /\ ~project /\ checked' = TRUE /\ pc' = "done" /\ answer' = Error("missing")
          /\ UNCHANGED <<hits, ctx, failures>>
       \/ ReadFault /\ SearchLost

SearchFails ==
    /\ pc \in {"search", "shallow"} /\ ctx # <<>> /\ Frame
    /\ ReadFault /\ SearchLost
    /\ UNCHANGED <<rank, source, todo, got, results, history, backoff>>

\* The first hits by score, of them those in scope; what several contexts found stays double.
PoolSize == IF req.mode = "search" THEN 2 * Limit ELSE Window
Better(k, l) ==
    \/ Position(hits[k]) < Position(hits[l])
    \/ hits[k] = hits[l] /\ k < l
Candidates ==
    {[k \in DOMAIN p |-> hits[p[k]]] :
        p \in Arranged({k \in First(DOMAIN hits, PoolSize, Better) : InScope(hits[k])}, Better)}

\* Hits are unrolled if that is asked for.
NextItem(from) ==
    IF req.unroll /\ from = "hits" /\ req.mode # "first" THEN "revisions" ELSE "published"

\* All contexts searched: once more without revision metadata if nothing was found, ...
SearchAgain ==
    /\ pc = "search" /\ hits = <<>>
    /\ pc' = "shallow" /\ todo' = <<>> /\ UNCHANGED pool

\* ... or else the hits are resolved, in mode "first" each item once and by its age.
TakeHits ==
    /\ pc = "shallow" \/ hits # <<>>
    /\ \E found \in Candidates :
          /\ pool' = ToSet(found)
          /\ IF req.mode = "first" THEN todo' \in OldestItemsFirst(ToSet(found)) ELSE todo' = found
          /\ pc' = IF ~req.packet THEN NextItem("hits")
                   ELSE IF \A i \in ToSet(found) : got[i] # 0 THEN "take"
                   ELSE IF backoff THEN "published" ELSE "batch"

EndSearch ==
    /\ pc \in {"search", "shallow"} /\ ctx = <<>> /\ Frame
    /\ ctx' = req.contexts /\ source' = "hits"
    /\ SearchAgain \/ TakeHits
    /\ UNCHANGED <<rank, hits, got, results, checked, answer, seen, spoiled, existed, backoff, failures>>

---------------------------------------------------------------------------
(* Resolution in batches: two reads, then every item at once. *)

Unresolved == {i \in ToSet(todo) : got[i] = 0}

BatchRead(n) ==
    got' = [i \in Items |-> IF i \in Unresolved /\ Alive(i) THEN n[i] ELSE got[i]]

\* Mutant: what has no published revision is left out.
LatestOfMissingLeftOut == pc' = "take" /\ UNCHANGED got

BatchPublished ==
    /\ pc = "batch" /\ Frame
    /\ BatchRead(pub)
    /\ pc' = "batch2"
    /\ UNCHANGED <<rank, hits, source, todo, results, ctx, checked, answer, history, backoff, failures>>

\* Mutant: the latest revisions take the place of the published ones.
LatestOfMissingOrNot ==
    /\ got' = [i \in Items |-> IF i \in ToSet(todo) /\ Alive(i) THEN Latest(i) ELSE got[i]]
    /\ pc' = "take"

\* Only what is still missing is read by its latest revision.
LatestOfMissing == BatchRead([i \in Items |-> Latest(i)]) /\ pc' = "take"

BatchLatest ==
    /\ pc = "batch2" /\ Frame
    /\ LatestOfMissing
    /\ UNCHANGED <<rank, hits, source, todo, results, ctx, checked, answer, history, backoff, failures>>

\* A failed batch suspends batches for a minute; every item is then read on its own,
\* those the search had resolved included.
BatchFails ==
    /\ pc \in {"batch", "batch2"} /\ Frame /\ ReadFault
    /\ backoff' = TRUE
    /\ got' = None /\ pc' = "published"
    /\ UNCHANGED <<rank, hits, source, todo, results, ctx, checked, answer, history>>

Add(i, n) ==
    LET score == CASE source = "hits" -> HitScore(i) [] source = "bundle" -> BundleScore
                   [] OTHER -> ListScore
    IN  IF n # 0 /\ Matches(i, n) THEN results \o <<Entry(i, n, score)>> ELSE results

\* The results of a batch; the types are those of the revisions that were read.
TakeBatch ==
    /\ pc = "take" /\ Frame
    /\ \E found \in RowsOf(todo, LAMBDA i : got[i] # 0 /\ Matches(i, got[i])) :
          results' = [k \in DOMAIN found |-> Entry(found[k], got[found[k]], HitScore(found[k]))]
    /\ todo' = <<>> /\ pc' = "published"
    /\ UNCHANGED <<rank, hits, source, got, ctx, checked, answer, history, backoff, failures>>

---------------------------------------------------------------------------
(* Resolution one by one. *)

Skip == todo' = Tail(todo) /\ pc' = NextItem(source) /\ UNCHANGED <<results, answer>>

\* The next item is done with revision n, 0 for none.  Mode "first" stops at the first
\* item that passes, even one without any revision.
Resolved(i, n) ==
    IF req.mode = "first"
    THEN IF (n = 0 /\ req.types = {}) \/ (n # 0 /\ Matches(i, n))
         THEN /\ answer' = [status |-> "ok", found |-> <<Entry(i, n, ListScore)>>]
              /\ pc' = "done" /\ UNCHANGED <<todo, results>>
         ELSE Skip
    ELSE /\ results' = Add(i, n)
         /\ todo' = Tail(todo) /\ pc' = NextItem(source) /\ UNCHANGED answer

\* A bundle's members are resolved until there are twice as many results as wanted.
Enough == todo = <<>> \/ (source = "bundle" /\ Len(results) >= 2 * Limit)

\* get_revision_by_tag("published"); none for an item that is gone.  A member that is
\* gone cannot be read at all, and takes the members after it along.
ReadPublished ==
    LET i == Head(todo)
    IN  /\ pc = "published" /\ ~Enough /\ Frame
        /\ IF source = "bundle" /\ ~Alive(i)
           THEN todo' = <<>> /\ UNCHANGED <<pc, results, answer>>
           ELSE IF Alive(i) /\ pub[i] # 0 THEN Resolved(i, pub[i])
           ELSE pc' = "latest" /\ UNCHANGED <<todo, results, answer>>
        /\ UNCHANGED <<rank, hits, source, got, ctx, checked, history, backoff, failures>>

ReadLatest ==
    LET i == Head(todo)
    IN  /\ pc = "latest" /\ Frame
        /\ Resolved(i, IF Alive(i) THEN Latest(i) ELSE 0)
        /\ UNCHANGED <<rank, hits, source, got, ctx, checked, history, backoff, failures>>

\* All revisions of a hit that has several, or else its one revision by its tags.
ReadRevisions ==
    LET i == Head(todo)
    IN  /\ pc = "revisions" /\ todo # <<>> /\ Frame
        /\ IF Alive(i) /\ Latest(i) > 1
           THEN /\ \E ns \in Arranged({n \in 1..Latest(i) : Matches(i, n)}, <) :
                      results' = results \o [k \in DOMAIN ns |-> Entry(i, ns[k], HitScore(i))]
                /\ todo' = Tail(todo) /\ UNCHANGED pc
           ELSE pc' = "published" /\ UNCHANGED <<results, todo>>
        /\ UNCHANGED <<rank, hits, source, got, ctx, checked, answer, history, backoff, failures>>

\* A read that fails leaves its item out; in a bundle the members after it as well.
ReadFails ==
    /\ pc \in {"published", "latest", "revisions"} /\ (pc = "latest" \/ ~Enough) /\ Frame /\ ReadFault
    /\ spoiled' = spoiled \cup (IF source = "bundle" THEN ToSet(todo) ELSE {Head(todo)})
    /\ todo' = IF source = "bundle" THEN <<>> ELSE Tail(todo)
    /\ pc' = NextItem(source)
    /\ UNCHANGED <<rank, hits, source, got, results, ctx, checked, answer, seen, pool, existed, backoff>>

---------------------------------------------------------------------------
(* After the hits: bundles, and the listing if there is nothing yet. *)

EndItems ==
    /\ pc \in {"published", "revisions"} /\ Enough /\ Frame
    /\ todo' = <<>>
    /\ IF source = "hits"
       THEN /\ ctx' = req.contexts /\ hits' = <<>>
            /\ pc' = IF req.mode = "first" THEN "list" ELSE Rest
       ELSE /\ pc' = IF source = "list" /\ (ctx = <<>> \/ req.mode # "search") THEN "finish"
                     ELSE IF source = "list" THEN "list" ELSE "bundle"
            /\ UNCHANGED <<ctx, hits>>
    /\ UNCHANGED <<rank, source, got, results, checked, answer, history, backoff, failures>>

\* Mutant: a search that failed leaves the project unchecked.
VerifyProjectNot ==
    /\ pc = "verify" /\ Frame
    /\ pc' = Rest
    /\ UNCHANGED <<backoff, locals, answer, history, failures>>

\* A packet call whose search failed still looks the project up.
VerifyProject ==
    /\ pc = "verify" /\ Frame
    /\ \/ project /\ pc' = Rest /\ UNCHANGED <<backoff, locals, answer, history, failures>>
       \/ ~project /\ Fail("missing") /\ UNCHANGED <<history, failures>>
       \/ ReadFault /\ Fail("raised") /\ UNCHANGED history

\* The bundle by that name in the next context, if it has one, and its members in scope.
MembersIn(x) ==
    IF project /\ (\E i \in Prefixed[x] : Alive(i))
    THEN Arranged({i \in Members : InScope(i) /\ ~Has(results, i)}, Older)
    ELSE {<<>>}

\* A bundle or members that cannot be read are passed over; a search that fails raises.
Bundle ==
    /\ pc = "bundle" /\ Frame
    /\ \/ /\ ctx = <<>> /\ pc' = "fallback" /\ ctx' = req.contexts
          /\ UNCHANGED <<rank, hits, source, todo, got, results, checked, backoff, answer, history, failures>>
       \/ /\ ctx # <<>> /\ ctx' = Tail(ctx)
          /\ source' = "bundle" /\ pc' = "published"
          /\ todo' \in MembersIn(Head(ctx))
          /\ UNCHANGED <<rank, hits, got, results, checked, backoff, answer, history, failures>>
       \/ /\ ctx # <<>> /\ ReadFault /\ ctx' = Tail(ctx)
          /\ UNCHANGED <<pc, rank, hits, source, todo, got, results, checked, backoff, answer, history>>
       \/ ctx # <<>> /\ ReadFault /\ Fail("raised") /\ UNCHANGED history

Fallback ==
    /\ pc = "fallback" /\ Frame
    /\ pc' = IF results = <<>> THEN "list" ELSE "finish"
    /\ ctx' = req.contexts /\ hits' = <<>>
    /\ UNCHANGED <<rank, source, todo, got, results, checked, answer, history, backoff, failures>>

\* Mutant: the listing is taken as the server filters it, by the text of the path.
ListedByText(x) == {i \in Items : Alive(i) /\ i \in Prefixed[x]}

\* item_search of a context, and what of it lies in scope.
Listed(x) == {i \in Items : Alive(i) /\ i \in Prefixed[x] /\ InScope(i)}

\* The order in which listed items are resolved, and how many.
Ordered(items) ==
    CASE req.mode = "search" -> MostRecentItems(items)
      [] req.mode = "latest" -> NewestRevisions(items)
      [] req.mode = "first"  -> OldestItemsFirst(First(items, Window, Older))

\* Mode "search" resolves context by context, the others when all are listed.
ListItems ==
    LET items == Listed(Head(ctx)) \cup (IF req.mode = "search" THEN {} ELSE ToSet(hits))
        all == Tail(ctx) = <<>> \/ req.mode = "search"
    IN  /\ pc = "list" /\ ctx # <<>> /\ Frame
        /\ \/ /\ ctx' = Tail(ctx)
              /\ IF all THEN hits' = <<>> /\ todo' \in Ordered(items)
                 ELSE hits' \in OldestItemsFirst(items) /\ todo' = <<>>
              /\ pool' = (IF source = "list" THEN pool ELSE {}) \cup (IF all THEN ToSet(todo') ELSE {})
              /\ source' = "list"
              /\ pc' = IF all THEN "published" ELSE "list"
              /\ UNCHANGED <<rank, got, results, checked, backoff, answer, seen, spoiled, existed, failures>>
           \/ ReadFault /\ Fail("raised") /\ UNCHANGED history

---------------------------------------------------------------------------
(* The answer. *)

\* The first result of every item, or of every revision.
Deduped ==
    LET same(a, b) == a.item = b.item /\ (req.unroll => a.rev = b.rev)
    IN  {k \in DOMAIN results : \A l \in 1..(k - 1) : ~same(results[l], results[k])}

DateOf(e) == revs[e.item][e.rev].date

\* Newest first in mode "latest", by score otherwise; equals keep their order.
Before(a, b) ==
    IF req.mode = "latest" THEN DateOf(results[a]) > DateOf(results[b])
    ELSE \/ results[a].score > results[b].score
         \/ results[a].score = results[b].score /\ a < b

Finish ==
    /\ pc = "finish" /\ Frame
    /\ pc' = "done"
    /\ \E order \in Arranged(First(Deduped, Limit, Before), Before) :
          answer' = [status |-> "ok", found |-> [k \in DOMAIN order |-> results[order[k]]]]
    /\ UNCHANGED <<locals, history, backoff, failures>>

---------------------------------------------------------------------------
(* Others, at any moment of the call. *)

Calling == pc \notin {"idle", "done"}

Write ==
    /\ Calling /\ writes < MaxWrites /\ writes' = writes + 1
    /\ UNCHANGED <<req, pc, locals, answer, pool, backoff, failures>>

MakeProject ==
    /\ Write /\ ~project /\ project' = TRUE /\ existed' = existed \cup {TRUE}
    /\ UNCHANGED <<created, revs, pub, gone, date, seen, spoiled>>

MakeItem(i) ==
    /\ Write /\ project /\ created[i] = 0
    /\ created' = [created EXCEPT ![i] = date] /\ date' = date + 1
    /\ UNCHANGED <<project, revs, pub, gone, seen, spoiled, existed>>

AddRevision(i, t) ==
    /\ Write /\ Alive(i) /\ Latest(i) < MaxRevs
    /\ revs' = [revs EXCEPT ![i] = Append(@, [date |-> date, type |-> t])] /\ date' = date + 1
    /\ spoiled' = IF revs[i] = <<>> THEN spoiled \cup {i} ELSE spoiled
    /\ UNCHANGED <<project, created, pub, gone, seen, existed>>

Publish(i, n) ==
    /\ Write /\ Alive(i) /\ n \in 1..Latest(i) /\ n # pub[i]
    /\ pub' = [pub EXCEPT ![i] = n]
    /\ seen' = [seen EXCEPT ![i] = @ \cup {n}]
    /\ UNCHANGED <<project, created, revs, gone, date, spoiled, existed>>

\* A deleted item is no longer found; its revisions are kept here for their dates.
Delete(i) ==
    /\ Write /\ Alive(i)
    /\ gone' = gone \cup {i} /\ spoiled' = spoiled \cup {i}
    /\ UNCHANGED <<project, created, revs, pub, date, seen, existed>>

Elapse == /\ backoff /\ ~Calling /\ backoff' = FALSE
          /\ UNCHANGED <<store, req, pc, locals, answer, history, failures>>

RetrievalInit ==
    /\ \E s \in Stores : /\ project = s.project /\ created = s.created
                         /\ revs = s.revs /\ pub = s.pub
    /\ gone = {} /\ date = Today /\ writes = 0 /\ failures = 0
    /\ backoff \in BOOLEAN
    /\ pc = "idle" /\ req \in Requests
    /\ rank = <<>> /\ hits = <<>> /\ source = "hits" /\ todo = <<>> /\ got = None
    /\ results = <<>> /\ ctx = <<>> /\ checked = FALSE /\ answer = Pending
    /\ seen = [i \in Items |-> {}] /\ spoiled = {} /\ pool = {} /\ existed = {}

Step ==
    \/ GetProject \/ Search \/ CheckProject \/ SearchFails \/ EndSearch
    \/ BatchPublished \/ BatchLatest \/ BatchFails \/ TakeBatch
    \/ ReadPublished \/ ReadLatest \/ ReadRevisions \/ ReadFails \/ EndItems
    \/ VerifyProject \/ Bundle \/ Fallback \/ ListItems \/ Finish

Others ==
    \/ MakeProject \/ Elapse
    \/ \E i \in Items : MakeItem(i) \/ Delete(i)
    \/ \E i \in Items, t \in Types : AddRevision(i, t)
    \/ \E i \in Items, n \in 1..MaxRevs : Publish(i, n)

RetrievalNext == (\E r \in Requests : Retrieve(r)) \/ Step \/ Others

RetrievalSpec == RetrievalInit /\ [][RetrievalNext]_retrievalVars

---------------------------------------------------------------------------
(* Properties. *)

Answers == ToSet(answer.found)

\* Every memory of an answer lies in one of the spaces asked for, whichever path found
\* it and although the server compares paths as text.
AnswersInScope == \A e \in Answers : InScope(e.item)

\* An item that was published all through the call is answered with a revision that
\* was published at some moment of it, read on its own or in a batch, from the search's
\* rows or after a failed batch (except when all revisions are asked for, and in mode
\* "first", which may answer with an item that has just lost them all).
PublishedWins ==
    \A e \in Answers : ~req.unroll /\ e.rev # 0 /\ 0 \notin seen[e.item]
                          => e.rev \in seen[e.item]

\* An answer is about a project that was there in the course of the call, and a missing
\* project is only reported if it was missing, however the search ended.
ProjectIsChecked ==
    /\ answer.status = "ok" => TRUE \in existed
    /\ answer.status = "missing" => FALSE \in existed

\* The candidates of which all reads succeeded and that match whichever revision is
\* taken ...
Sure(i) == /\ i \in pool \ spoiled /\ revs[i] # <<>>
           /\ \A n \in 1..Latest(i) : Matches(i, n)

\* ... are in the answer, unless it is full of others that come before them: better
\* hits, newer revisions, or in mode "first" the one older item.
Precedes(e, i) ==
    CASE req.mode = "first"  -> created[e.item] < created[i]
      [] req.mode = "latest" -> \E n \in 1..Latest(i) : DateOf(e) > revs[i][n].date
      [] OTHER -> e.score = BundleScore \/ req.unroll
                    \/ IF source = "list" THEN created[e.item] > created[i] \/ Len(req.contexts) > 1
                       ELSE e.score > HitScore(i)

NothingHidden ==
    answer.status = "ok" =>
        \A i \in Items : Sure(i) /\ ~(\E e \in Answers : e.item = i)
            => /\ Len(answer.found) = IF req.mode = "first" THEN 1 ELSE Limit
               /\ \A e \in Answers : Precedes(e, i)
=============================================================================
