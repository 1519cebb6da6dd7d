# A formal model of Kumiho

Kumiho is a graph of versioned items (projects, spaces, items, revisions, artifacts, edges,
bundles) kept by a gRPC service and used as a memory by AI agents. This repository holds the
clients: five SDKs, an MCP server that gives agents memory tools, a command line, and a
dashboard that draws the graph while it changes. The service itself is not here; the models
treat it as an external actor and assume of it only what the clients rely on.

This directory holds TLA+ modules of the parts of these programs that keep state and run
concurrently, TLC runs that check them on small instances, and TLAPS proofs of what matters
most for every instance. `PROJECT.json` maps every definition to the lines it models and lists
components, hazards, runs, mutants, findings and theorems.

- Check one module: `tlc -config MCBrainStore.cfg MCBrain.tla`
- Check one module's proofs: `tlapm MemoryStoreProofs.tla`

## 1. Inventory

### 1.1 Components

| Component | Sources | State it keeps | Operations that change it | Model |
|---|---|---|---|---|
| Dashboard: graph store | `dashboard/src/model.rs` | nodes (tombstoned, never removed), edges and their de-duplicating set, spaces, two interning maps | `upsert`, `intern_space`, `add_edge`, `remove_item` | `GraphStore` |
| Dashboard: crawl, live feed, sockets, browser | `main.rs`, `fetch.rs`, `live.rs`, `static/brain.js` | stream cursor, event in progress, delayed edge checks, crawl results, the `ready` watch, the broadcast channel, each browser's copy of the graph | one per await of each task | `Brain` |
| Dashboard: traversal | `trace.rs` | none (walks a copy of the edges) | `bfs`, `shortest_path` | no |
| Dashboard: access, configuration, rendering | `access.rs`, `config.rs`, `static/gl.js` | flags | - | no |
| MCP: store one memory | `mcp_server.py` `tool_memory_store` | server-side revisions, tags, artifact, bundle, edges; the call's own locals | one per RPC | `MemoryStore` |
| MCP: store a batch | `mcp_server.py` 783-1298 and 1838-2190, `client.py` | rows, chunk results, idempotency keys at the server | prepare, stack, submit a chunk, tag, answer | `BatchStore` |
| MCP: spaces and their caches | `mcp_server.py` 485-700 | `_known_spaces`, `_space_registry_cache`, aliases on spaces | listing, caching, aliasing, ensuring | `Spaces` |
| MCP: retrieval | `mcp_server.py` 2160-2730 | hits, candidates, results of one call; the back-off of the batch lookup | search, batch and single look-ups, bundle, listing, trim | `Retrieval` |
| MCP: project, space, item, bundle and revision tools | `mcp_server.py` 2740-3480 | - (several RPCs each) | create, delete, tag, relate, summarise | `Projects`, `Revisions` |
| MCP: dispatch, profiles, hosting, watchdog | `mcp_server.py`, `request_context.py` | tenant binding of a request | bind, release | in `Sessions` |
| Python client: RPC chain | `client.py` interceptors | header fixed at construction; attempt, resent flag | retry, metadata, auto-login | `RpcChain` |
| Python client: credentials | `auth_cli.py`, `_token_loader.py`, `_bootstrap.py` | `~/.kumiho/kumiho_authentication.json`, shared by processes | `ensure_token`, `_save_credentials` | in `RpcChain` (headless) |
| Python client: discovery | `discovery.py` | region cache file and its temporary file | resolve, store | `Discovery` |
| Python client: module level and context | `__init__.py` | `_default_client`, the context variable | configure, get, bind | `Sessions` |
| Python client: objects | `project.py`, `space.py`, `item.py`, `revision.py`, `artifact.py`, `bundle.py`, `edge.py` | copies of what the server answered, with the time of the copy | one per method | `Projects`, `Revisions` |
| kref grammar | `kref.py`, `spec/kref` | - | parse, validate, select | `Kref` |
| Rust, Go, Dart, C++ SDKs | `rust/`, `go/`, `dart/`, `cpp/` | as the Python client | same protocol | no |
| Python CLI | `python/kumiho-cli` | - | prints what RPCs return | no |
| Kumiho server | not in the repository | the graph, tags, event log | gRPC | external, in every module |

### 1.2 How they interact

- An agent's tool calls reach the MCP server, which runs each on a thread. All threads share
  the process-wide caches and one client; every RPC is a point at which the others may run.
  `tool_memory_store` resolves a space (`Spaces`), creates or stacks a revision, attaches an
  artifact, tags, files it in a bundle and links its sources (`MemoryStore`);
  `tool_memory_store_batch` does the same for many captures in chunks (`BatchStore`);
  `tool_memory_retrieve` reads them back while others write (`Retrieval`). The remaining tools
  find a project, a space, an item or a revision by name or by reference and then act on it
  (`Projects`, `Revisions`).
- Which client a tool works with is decided per call: the one a hosting layer bound to the
  request, or the process's default client, which is configured anew through discovery
  (`Sessions`). Discovery keeps one file for all threads and processes (`Discovery`).
- Every RPC of the Python client goes through three interceptors (`RpcChain`): retry outside,
  then the metadata of the client, then the login layer, which on a login error refreshes the
  token in the credentials file and sends the call once more.
- A reference is read in several places by different code: the grammar's kernel, which the
  server shares, an older pattern in the `Kref` constructor, a split by hand in the client and
  a search for `?r=` in a tool (`Kref`, used by `Projects` and `Revisions`).
- The server emits an event per revision and per deletion. The dashboard's feed task turns
  events into changes of the graph store while its crawl loads what was there before; both
  write under one lock. Every change is broadcast to socket tasks, which send each browser one
  snapshot and then deltas; a socket that cannot keep up loses messages and is resynchronised.

### 1.3 What is hard here

Interleavings between a read and the write it decides (published or not, known or not, listed
or not, shown or changed since), deltas racing snapshots, a bounded broadcast that drops, a
stream that breaks, calls whose answers are lost and are sent again, operations of several RPCs
that fail half-way, best-effort steps whose failures are swallowed, files rewritten by several
threads and processes, copies that age, caches that outlive the login they were made under,
keys by position. `PROJECT.json` `hazards` lists forty with their lines and the properties that
would catch them; section 5.2 names those considered besides.

### 1.4 What makes each component correct

- Graph store: the maps, the node vector, the edge list and the set always agree; an id names
  one memory for ever; an edge joins live nodes and leaves only with one of them.
- Dashboard: nothing that happened while feed and crawl ran is missed; a browser at rest shows
  the store; every socket comes to rest.
- Memory store: an answer without an error is true of the published memory; nothing is
  published that was not; nothing is frozen half-built.
- Spaces: a listing is never older than its time to live; stores that follow each other do not
  split one space into variants.
- Batch: each capture gets its own answer; nothing is written twice; corrections are recalled.
- Retrieval: only memories in the spaces asked for; the published text before newer drafts;
  none left out for another that should come after it; a missing project is told from an empty
  one.
- Projects and items: success means that every RPC of the call took effect, unless the server
  answered with a status that says no, which the tools do not read; whatever was created is
  found again by its reference and by its name, wherever it has moved; a deletion takes what
  its caller was shown.
- Revisions: the attribute of an object is the server's, unless somebody else wrote it since;
  its tags are as recent as documented; all readers of a reference agree; a summary never
  fails for one dependency, and omits only what is gone or could not be shown.
- Sessions: no client is routed by another hint's record or serves another tenant's request; a
  cached handle is of a project that its own server has had; no expired record is answered.
  That the project is still there is not promised: the cache of handles
  (`mcp_server.py:493-507`) is never invalidated, and `tool_delete_project` does not drop the
  handle of what it archives or destroys.
- RPC chain: what costs money happens at most once; an expired login is repaired; calls end.

## 2. Modules

| Module | Models | Source |
|---|---|---|
| `GraphStore` | the abstract store and at the same time the code of `model.rs`: one action per method | `dashboard/src/model.rs` |
| `Brain` | the concurrent dashboard; INSTANCEs `GraphStore` and calls its actions | `dashboard/src/{main,fetch,live}.rs`, `brain.js` |
| `MemoryStore` | concurrent `tool_memory_store` calls, approvers and the server's tags | `mcp_server.py` |
| `Spaces` | hint resolution, caches, creation and deletion of spaces | `mcp_server.py` |
| `BatchStore` | one batch, submitted again after failures | `mcp_server.py`, `client.py` |
| `Retrieval` | one call of `tool_memory_retrieve` beside writers | `mcp_server.py` |
| `Kref` | operators: the readings of a reference | `kref.py`, `client.py`, `mcp_server.py` |
| `Revisions` | Revision objects and a tool call on one item's revisions; EXTENDS `Kref` | `revision.py`, `item.py`, `artifact.py`, `edge.py`, `client.py`, `mcp_server.py` |
| `Projects` | a Project object and a tool call on projects, spaces, items and bundles; EXTENDS `Kref` | `project.py`, `space.py`, `item.py`, `bundle.py`, `client.py`, `mcp_server.py` |
| `RpcChain` | processes that share one credentials file, calling through the interceptors | `client.py`, `auth_cli.py` |
| `Discovery` | the resolution of an endpoint through the cache file | `discovery.py` |
| `Sessions` | composition: which client a call gets, built through `Discovery`, and cached handles | `__init__.py`, `mcp_server.py`, `request_context.py` |
| `GraphStoreProofs`, `BrainProofs`, `MemoryStoreProofs`, `McpProofs`, `BatchStoreProofs`, `RevisionsProofs`, `ProjectsProofs`, `ClientProofs` | theorems; `McpProofs` about `Spaces` and `Retrieval`, `ClientProofs` about `Sessions` and `RpcChain` | |
| `MC*` | constants for TLC | |

Every module's header names its actors and what it abstracts. An action stands for what one
task, thread or process does between two points at which another may run: an await, an RPC,
a released lock, a write to a shared file.

### 2.1 GraphStore

State: the six fields of the struct. Ids count from 1. The display fields of a node (title,
summary, kind, created) are one content number `ver`; `revs` keeps the maximum, as the code
does. `edges` forgets the order of the vector and keeps how often each edge occurs, so that a
duplicate would be seen. Actions: `Upsert`, `AddEdge`, `RemoveItem`. Self-loops are included.

### 2.2 Brain

| State | Code |
|---|---|
| `stream`, `job` | `LiveFeed::run` and `handle`: subscription, cursor, and the event being handled, at the await it waits in |
| `diffs` | `LiveEdgeCheck`: the immediate check the feed waits for, and the delayed ones it spawns |
| `crawl` | `load_snapshot`: enumeration, the item tasks, the application under the write lock |
| `lock` | the `RwLock` of the store; the crawl and an edge check make several calls under it |
| `chan` | the tokio broadcast channel, per receiver: full means the oldest message is lost and `Lagged` is reported first |
| `web` | the socket task and the browser's graph; `late` is history |
| `revs`, `links`, `log` | the server and its event log (external) |
| `covered` | history: no event since the enumeration was or will be skipped |

The creation of an edge emits no event, which is why the code checks twice. A revision's
content is the position of its event in the log, so that newer content is larger. Edges from an
item to itself are covered by `GraphStore` and not created here; the deletion of a single
revision is not modelled. The crawl asks for the edges of each item in a `get_edges` RPC of its
own and passes over one that fails (`fetch.rs:112-122`); `LoadEdges` takes them together and
leaves the failure out, which only withholds edges from the crawl.

`Brain` implements `GraphStore`: `StoreImplemented == Store!Spec`. The store's variables are
shared, so the refinement mapping is the identity on them; what it shows is that each task's
steps are store operations one at a time, whatever lock, lists and messages they hold.

### 2.3 MemoryStore

A call is a record with a phase per RPC: read `published`, read `latest`, create, artifact,
tags one by one, publish, file, link. Any RPC may fail (`Fault`, bounded) and a `Create` may
take effect with its answer lost and be repeated by the channel (`CreateLost`). Approvers
publish at any time (`Approve`). Freezing is the server's: a revision that was tagged
`published` takes no more tags or artifacts. Which item a call without a target stacks onto is
left open, which covers every outcome of the similarity search. Each call runs once. Here and
in `BatchStore` and `Spaces` a server that does not do what an RPC asks raises an error; answers
that decline without one are in `Revisions` and `Projects`.

### 2.4 Spaces

One project of one tenant; a path is a sequence of numbers in alphabetical order of the names;
`Stem` is what `_stem_slug` leaves. The stem matching of hints is off by default in the code
(`KUMIHO_MEMORY_SPACE_STEM_MATCH`) and on in the model, where it matters. A deletion is one
with `force`. `before` and `apart` are history variables of the property about back-to-back
stores: which spaces were ensured before a call looked its hint up, and which were created and
ensured with no other store under way.

### 2.5 BatchStore

Preparation drops refused captures and those whose item cannot be looked up; the rest are rows.
A capture that revises nothing is stacked onto an item that the search offers, if the item's
revision says much the same (`ShouldStack`: score bands, overlap, types), or mints the item its
content names; the decision is made when the row is prepared, before any row is written. A read
of `published` that fails there counts as unpublished (`mcp_server.py:1291`). Rows are written
`Limit` per call with the key `<prefix>:<chunk offset>:<index>`, replayed by the server when it
has seen the key; the server takes the rows of a call one at a time and may reject any, and the
answer may be lost with part of the rows written (`reply`). Then each row is tagged and
answered. A non-empty prefix is assumed and other writers are left out (they are in
`MemoryStore`). `Limit` stands for 200. Texts are told apart by which of them overlap
(`Alike`), candidates by the band of their score (`Score`).

### 2.6 RpcChain

A caller is a process that boots (`bootstrap_default_client`, which reads a token and ensures
it), then runs calls. The chain is taken apart where another process, the server or time can
come between: sent, login, refresh, open file, write file. A token is only none, expired or
valid, so time needs no bound: `Expire` turns every token there is into an expired one. The
credentials file is opened with truncation and then written; another process can read it in
between, and two writers can leave neither's text. Headless only: with nobody to prompt, a
failed refresh ends the login. A start whose login is valid but whose control-plane token has
run out uses the latter if the exchange for a new one fails (`auth_cli.py:249`). Refresh tokens
do not rotate, and tokens from the environment are not modelled. `charged` counts executions of
the current `Evaluate`, the one method the code never retries. What `evaluate` looks at before
it sends anything (an empty query, an unknown mode, a fragment id that is missing or occurs
twice, a reserved or untyped question) is in `Requests`, and so is what it makes of the answer:
judgments come back by position and are looked up by fragment id, which is why ids must be
distinct.

### 2.7 Discovery and Sessions

`Discovery` takes `resolve` apart where another thread, the control plane or time comes in: the
cache is loaded, a candidate token asks the control plane, and a served record is stored in
four steps (read the file again, open `<cache>.tmp`, write it, rename it). All threads use the
same temporary file, so files are inodes: a rename moves one from `tmp` to `path`, and a thread
that still has it open writes into what is now the cache. A thread that opens a file empties
it. `Retries` bounds the attempts at the rename. Every exception other than a `DiscoveryError`
ends the resolution ("broken"); a `DiscoveryError` leads to the record kept, or to the next
token candidate. The mapping of records says for whom each was issued, as history.

`Sessions` EXTENDS it with the process: the default client, the client bound to a hosted
request, the cached project handles keyed by `_tenant_scope`. A local tool call configures the
default client anew, and several threads can be at any stage of it; a hosted call gets its
client bound. A tool call that stores takes its project from the cache, finds it on the server
of its client or creates it there (`_get_project_cached`); one that deletes archives it, or
destroys an archived one (`tool_delete_project`); the confirmation protocol of a deletion is in
`Projects`, and an archived project is not restored. `projects` is what has become of the
project on each server, and the cache outlives it. `Login` changes the tokens of the machine,
`Restart` loses the process with what it has open, `Tick` is the clock. A process is hosted or
not for life. A hosted call always has a client bound; that `_ensure_configured` raises without
one (`mcp_server.py:269-277`) is left out.

### 2.8 Kref

A reference is a path of segments of pieces and a query of pairs; pieces are words, pieces that
start with a dash, and the rest. Four readers are translated apart: the kernel (`Read`), the
constructor's pattern (`Constructs`), the accessors (`RevisionOf`, `ArtifactOf`, `SpaceOf`,
`ProjectOf`), and the request a client makes of it (`ItemRequest`, `Selects`). It has no
state; its properties are `ReferencesAgree` in `Revisions` and `FoundAgain` in `Projects`, which
ask whether the readers agree where they are used: on the same server, about the same thing.
The readers' alternatives are exclusive by construction (`IF`, one test after the other, in the
order of the code): the proof of `ReferencesAgree` failed on an earlier `CASE` with overlapping
guards, of which TLC takes the first and TLA+ leaves the choice open.

### 2.9 Revisions

An object is a copy with an age. A method of `Revision` that edits the copy after its RPC is two
steps, the RPC (`Sends`, `Writes`) and the edit (`EditCopy`), and others come in between. An
answer may be lost, or say without an error that nothing was done: `tag`, `untag`, `deprecate`
and the default artifact edit the copy all the same, `set_attribute` and `delete_attribute` do
not. `set_metadata`, `Artifact.set_default` and whatever a tool does change the server past the
copy. `age` is counted from the answer or from the last `tag` or `untag`, and stops at
`Fresh + 1`, where the copy is stale.

Three fields are history. `wrong` counts for how long the tags of the copy have differed from
the server's: `TagsAreRecent` says that what the `tags` property shows was true within the five
seconds, and is stated for objects that have not tagged themselves (`edited`), for the reason in
section 5.1. `touched` says that the attribute was written past the copy: by another object, a
tool, `set_metadata`, or a call of this object whose answer was lost. `AttributeIsTrue` speaks
of the others, and of the copy as it will be once the call under way has edited it.

A tool call resolves its reference in one RPC and acts in the next. A provenance summary
traverses once, within limits of depth and number (`mcp_server.py:2767`, any subset of what is
reached), and fetches one by one; a dependency is skipped when its fetch fails for whatever
reason (`:2797`) or when it has none of the metadata looked for (`:2791`). An artifact's
reference is read by what stands before `&a=` (`BeforeArtifact`), whatever the order of the
query's parts. `QueriesAssumption` says which queries the comparison of the readers is about.
After the deletion of the latest revision the server may leave `latest` on none, as `item.py`
expects of older ones.

### 2.10 Projects

The application's Project object, with its copy of the status and the impacts it was given, and
one tool call at a time. A tool call is a record with a phase per RPC; `did` is what took
effect. A fault is an RPC that fails, one whose answer is lost after it took effect, or one that
is answered without an error and with a status that says no (`Declined`): the client hands that
status on (`client.py:2254`, `:2292`), and the tools that delete, deprecate, add or remove do
not read it (`mcp_server.py:3269`, `:3429`, `:3448`). A tool call begins only while the bound on
writes leaves it one.

An item keeps its reference, the path it was made under, when it moves (`item.py:270`,
`client.py:1233`), and `at` is the space it lies in now, of whichever project. It is moved to a
space of another project, which is what `move_to` is documented for, and may come back. What
reads the reference (`Item.get_space`, `Space.get_parent_space`) says nothing of `at`; section
5.1. Deletion is the server's protocol of analysis and confirmation: what the confirmed call
destroys is compared with what the impact listed (`DestroyedAsShown`). Names of projects are
unique among those not deleted, so a name can pass to another project between the two calls.
Paths are built by the code of each method and resolved by `ServerItemKey` of `Kref`.
`NamesAssumption` takes names that the grammar takes; one that it refuses makes no reference.

### 2.11 Retrieval

One call, in each mode of `AllRequests`: searches per context, a shallow one if they found
nothing, resolution of the candidates in batches or one at a time, the bundle's members, the
fallback listing, trimming. Others write, publish and delete between any two reads, and a read
may fail. The reads of one bundle, of its members and of a member's revision
(`mcp_server.py:2601`, `:2610`, `:2611`, `:2621`) are one step; when one of them fails the code
goes on with the next bundle (`:2626`), and so does the model. The search ranks items
arbitrarily (`rank`), its hits above `Strong` beat the constant score of bundle members.
`Prefixed` is the server's textual filter, `Within` the spaces meant. `seen`, `spoiled`, `pool`
and `existed` are history: what was published when, which items cannot be blamed on the code,
what was considered, and whether the project existed. What the code sorts and cuts is a choice
of sets: `First` is the part of a set that the code keeps, `Arranged` the sequences that list a
set in an order, equals in any order. What the server holds at first is given by
`StoresAssumption`: only published revisions that exist, and none of an item that was not made.
A date is the place of a write in the order of the writes, so no two writes have one date,
neither those of the call's time, which begin at `Today`, nor the earlier ones; equal
timestamps, which the code tells apart by the reference (`mcp_server.py:1227`, `:2498`) or
leaves in the order it had them, are not modelled.

## 3. Runs

| Run | Distinct states | What it asks |
|---|---|---|
| `graph_store` | 4.0 k | every order of upserts, removals and edges of 3 items in 2 spaces keeps the maps, the lists and the set in agreement |
| `brain_store` | 677 k | crawl, feed and edge checks interleave: is the store driven only through its methods, and is nothing missed? |
| `brain_web` | 224 k | a browser joins before or after the crawl is announced, lags, leaves and returns: does it end with the store's graph, and does it end? |
| `memory_store` | 1.7 M | two stores, approvers, one fault: are answers true, is nothing published by accident, are tags complete? |
| `spaces` | 2.9 M | two threads, three stores, a deletion, a fault and the clock: does the listing age out, do later stores find what earlier ones made? |
| `batch_store` | 1.2 M | four captures in two chunks, of which one may stack onto an item that is there, two submissions, two faults, one failed lookup: is every answer its capture's own, is nothing written twice? |
| `rpc_chain` | 475 k | two processes, sound and malformed evaluations, two attempts, any server answers, crashes and expiry: is a charge made once, is a login repaired, do calls end? |
| `revisions` | 701 k | an object and a tool work on the same revisions while time passes and answers are lost, and eighteen forms of reference are read by every reader |
| `projects` | 1.9 M | an application works beside a tool call of several RPCs, with a lost, failed or declined RPC and an item that moves to another project: is success complete, is everything found again, is only what was shown destroyed? |
| `sessions` | 2.7 M | two threads build clients through the cache file and use cached handles, local and hosted, over expiry, logins, refusals, restarts and deletions of the project |
| `retrieval` | 1.0 M | eight kinds of retrieval over three stores with two writes and one failed read |
| `memory_recall` | violation | section 5: a correction that is answered as a success and not recalled |

### 3.1 Bounds and why they are enough

- `graph_store` is unbounded in length: the content and count sets are finite, so TLC visits
  every reachable state of three items and two spaces. Three items are the smallest number with
  two in one space and an edge that does not touch the removed one.
- `brain_store`: two items, initially each with or without a revision; two writes cover create
  then delete and delete then create, during and after the crawl; one edge and one fault (a
  dropped stream, a failed read, a failed check). `brain_web` starts from loaded states (one
  item, two, or two linked; `MCBrain!Loaded`), announced as ready or about to be, so that its
  bound is spent on the browser, one that waits for the announcement included: capacity 2 lets
  two messages of one event overflow the channel. The third item has a kind the dashboard does
  not show. The safety part was also checked once with three writes (1.0 M states).
- `memory_store`: one item is where calls meet; two calls and the approver give every
  interleaving of two writers of the tag. Tag lists have `published` absent, last, first.
  Symmetric in the calls, which differ in nothing.
- `spaces`: a third store is needed for one that comes after two overlapping ones. Two variants
  and one space inside a variant exercise alias, parent and prefix deletion. `TTL = 1` of
  `MaxTime = 2` lets a listing age while it is fetched. A path of three levels, which takes two
  creations and can lose its parent between them, is too much for the run beside the rest; it
  was checked once without faults (3.8 M states), and the proof covers every depth.
- `batch_store`: two corrections of one memory around a capture that may stack onto it, one
  refused in front, so that rows and captures are numbered apart; three rows at two per call
  make two chunks. Two of the four texts overlap, and the candidates' scores are of all three
  bands.
- `rpc_chain`: two processes race for the file; two attempts are one retry; seven requests are
  a sound one with two fragments and one for each check that `evaluate` makes. Nothing else is
  bounded.
- `revisions`: three revisions are a tagged one, one it moves from and a latest one; three
  writes move a tag away and back, write an attribute behind a copy, or delete a revision
  between resolution and use. One object: objects do not see each other but through the server,
  which the tool changes as well. The queries have each selector, each pair of selectors that
  can meet, and each malformation that the readers treat apart (no `=`, leading zero, zero, too
  large, unknown key, two selectors).
- `projects`: two projects, which can have one name after the other or two, so that a name can
  pass on and an item can move from one project to the other; a space with and without a
  trailing slash; an item name with a dot; a reserved kind spelled otherwise. Four writes are
  archive, analysis, a change and the confirmation.
- `sessions`: two users of whom one's default tenant is the other's hinted one, so that a wrong
  record is a wrong tenant; a record that is fresh, to be refreshed and expired within three
  moments of the clock; two calls, which meet at every stage of the file, the caches and the
  deletion of the project; one login and one fault.
- `retrieval`: `c` lies in a space whose name begins with the other's, so the server's filter
  and the scope differ; a limit of one with three items makes every cut bite; two writes let a
  memory be corrected and approved, or written and deleted, during the call.

### 3.2 Fairness

`Brain!Fairness`: weak fairness of connecting, the feed, the edge checks, the crawl and each
socket task. They are tokio tasks that never wait for anything but their own I/O, the channel
or the store's lock, and the lock is held for finitely many steps without an await; the code
reconnects in a loop. Writers, faults and browsers get none. `RpcChain!FairSpec`: weak fairness
of a caller's own steps: every RPC has a deadline and every login request a timeout, so each
is answered or fails; starting, crashing and expiry get none. The other runs check safety:
their calls are sequences of RPCs of which each ends for the same reason, and a liveness property
would only repeat that.

### 3.3 Deadlock

Off where the program may stop: bounds exhausted and all calls or writers done. It is on in
`graph_store` and `rpc_chain`, whose systems run for ever.

## 4. Proofs

Checked by TLAPS for every value of the constants, under the modules' named assumptions
(`...Assumption`): sets are disjoint from their "none" values, bounds are numbers, lifetimes
are ordered, names and queries are of the shapes the grammar takes, no two writes have one
date. 38 of the 40 properties of the passing runs are proved, every safety property among them.
Each inductive invariant was model-checked before it was proved.

**GraphStoreProofs.** `StoreInv` conjoins the agreement of index, spaces and edges with the
typing of the store. None is inductive alone: an upsert keeps the index in agreement only if
the interned space is in the vector, and a removal prunes the right edges only if the edge set
and the edge list have the same elements. From it: ids are stable, and an edge leaves only with
one of its ends.

**BrainProofs.** `CoreTypes` (server, feed, crawl) gives every upsert a well-typed seed and
every edge call items it may name; each action of `Brain` is then an action of `GraphStore` or
a stutter, which proves `StoreIsImplemented` for any number of items, writes, edges and faults,
and `BrainStoreInv`: the store's invariant in the whole dashboard, by composing with the first
module's theorem. `NoGap` (`NothingMissed`) needs to know where each item is on its way:
`GapInv` says that an item the server has is in the store, or in the part of the log the feed
has not handled, in the event it is handling, or on the crawl's list, in its results or among
its seeds (`NoneForgotten`); the other conjuncts place the feed's cursor and the crawl's
phase (`FeedIsPlaced`, `CrawlIsPlaced`), say that a deletion met by either is followed by its
event (`DeletionsAreFollowed`), and that one immediate edge check runs at a time. It was
model-checked as an invariant, with and without cursors, before it was proved.

The second half of the module is about browsers. The channel is a queue per receiver. For one
memory, `RightMsgs` are the messages that tell its present state and `NodeMsgs` those that
change what a browser shows of it. A browser is `Told` of it if the last message of that kind in
its queue is right, or if there is none and it shows the right thing already, or is about to be
resynchronised. `WatchInv` says that every browser that joined after the crawl is told of every
memory and of every edge, except of what the feed still owes it (`OwedIsCurrent`). Losing the
oldest message keeps this: what is lost was not last, or the receiver is marked as lagged and a
snapshot follows. Appending keeps it by the order in which the code sends: store first, then
broadcast. From it `BrowsersConverge` (`NodesConverge`) and `InterlinksReach` (`EdgesReach`),
for any capacity.

**MemoryStoreProofs.** `Inv` has four parts: what the server holds, types, and for each call
that its revision exists (`HasRevision`) and that what it saw published is frozen and, past the
move, displaced (`SawPublished`, `Displaced`). Displacement is stable because `published` moves
only onto a revision that is not yet frozen (`KeepsPublished`), and frozen revisions stay so
(`Grows`); these two lemmas carry every action. From it: a success is real, whatever is
published with an artifact to attach has it, and a revise publishes nothing on its own.
`TagsLand` adds what is left of a call's tag list (`Landing`): without a fault, a tag the caller
asked for is on the revision or still to be set, unless an approval froze the revision first, and
then the move of `published` fails and with it the call.

**McpProofs.** Its first half is about `Spaces`. `ListingIsRecent` rests on `CacheInv` and
`CallInv`: what a listing begun at some moment offers was there then, or was deleted since
(`Offered`), whoever holds the listing and however long it took. `StoresConverge` needs the way
of a space from the store that makes it to the listings of later ones. `Standing` are the
spaces made with no other store under way and not deleted since. `RegistryInv`: the cached
listing offers each of them, unless the store that made it is still creating what lies below
and will drop the listing after that (`Making`); `Promise`: a call that resolves its hint has
in its hands all that were known when it began, so it goes where one of them is. The proof
failed first, and rightly: if a creation of three levels fails because somebody deleted its
parent in between, the listing is not dropped and lacks what was made above
(`mcp_server.py:549`, section 5.2). The property now speaks of spaces in which nothing was
deleted (`Kept`).

The second half is about `Retrieval`, with which the stores share no state. `RetrievalInv` adds
to the types what a call knows at each of its reads. `ScopeInv`: what waits to be resolved, and
what has been, lies in a space asked for; the hits themselves may not, until they are picked.
`PublishedInv`: the latest revision of an item is only taken when the item was seen without a
published one, or is deleted (`Unpublished`); a resolved revision therefore stands for the item
if it was published all through the call (`Stands`), whichever of the batch, the single look-up
and the listing resolved it. `ProjectInv`: past the look-up the project was there, and the one
search that may run before the look-up, the first of a packet call, is followed by it before
anything that it found is resolved. From them: `AnswersInScope`, `PublishedWins` and
`ProjectIsChecked`, for stores of any size, any ranking, any limits and any number of writes
and failed reads. The lemmas about `Arranged`, `First` and `RowsOf` say that sorting, cutting
and filtering add nothing; none of these three needs more of an order than that.

`NothingHidden` does: an item that is left out must be outweighed by a full answer of better
ones. `CompleteInv` follows a candidate all the way. `CoverInv`: one that is sure (all its
reads succeeded, and whichever revision is taken matches) waits in `todo` or has a result; once
bundle members are resolved it has one by its own score, since members that have a result are
not taken again. `EntryInv`: a result is an existing revision, and its score is that of what
found it, so hits have scores of their own (`HitScores`). `SortedInv`: mode "first" resolves by
age, and the listing of one space is resolved, and so answered, the youngest first. `FoundInv`,
`PhaseInv` and `DatesInv` say what a call holds when, and that later writes have later dates.
At the end, the first of the results under a strict order are exactly `Limit` if one is left
out, and all come before it (`FirstFull`, by counting predecessors; `ArrangedOnto`: sorting
loses nothing). The order is strict because dates differ and equal scores are told apart by
position (`BeforeStrict`). A write may make no candidate sure that was not (`WriteComplete`): a
first revision spoils its item, and a further one only adds what must match too. Hence
`NothingHidden`, whatever is written, deleted or lost between the reads.

**BatchStoreProofs.** Chunk offsets are multiples of the limit (`Starts`), so a key determines
the number of a row (`Number`), and, as long as no capture went unresolved, the row's number is
the capture's rank among those not refused (`Rank`): a key belongs to one capture (`KeysInv`).
Every recorded location is a revision of some capture's content on an item that is its own or
that overlaps it (`Stored`), every row of a chunk is answered by what its key records (`Owned`),
and every capture is answered or still has its turn (`Accounted`, `Answered`). From it:
`OwnAnswers` and `OnceWritten`. For `CorrectionsRecalled`, `RecalledInv` says that a correction
answered as stored is what `published` shows, or a later capture is; rows are tagged in their
order, so what displaces a row's revision comes after it.

**RevisionsProofs.** A copy is not wrong for longer than it is old unless the object edited it
(`ObjectsInv`), which is `TagsAreRecent` before it is shown. A dependency of a summary that is
neither found, skipped nor waiting is gone, and stays gone (`ToolInv`). `AttributeTrue` follows
a copy through its call: what it shows, or will show once edited, is the server's from the
answer on, and whoever writes the attribute meanwhile marks every other copy of that revision
(`Touched`); that the two steps of a call commute with everybody else's is what is proved.
That the newest of a set of revisions exists (`Greatest`) rests on the
library's well-foundedness of the natural numbers. `ReferencesAgreed` compares the readings of a
query by its pairs: one the constructor takes has at most a revision and then an artifact
(`ConstructedQuery`), and in one the kernel accepts no key occurs twice, so that every reader
finds the same value under a key wherever it looks (`AcceptedReads`). The queries may be of any
length; the assumption only says that a pair has a key and a value.

**ProjectsProofs.** `Call1` says what a call has done at each phase: nothing before its last
RPC but the creation that a second RPC completes, so an answer without an error comes only when
what the call promises has happened. An impact in a tool's hands was shown to its caller
(`tool.snap \in {0} \cup seen`), and the server destroys only on an impact that still matches;
snapshots are only added. So `DestroyedAsShown` holds whatever happened in between. A second
invariant types the store (`Store`) and says of what the application and the tool hold that it
was put there by the server (`Holders`). Its core is that every item lies at a path whose parts
are names the grammar takes (`LeafPaths`), and `FoundByEveryName` follows from that alone: such
a path is read back by each reader as it was written. Trimming of slashes is a choice of the
least and greatest place without one (`Least`, `Greatest`), and changes nothing that is clean
(`CleanTrimmed`). A move touches neither the path nor what is read from it, so it disturbs only
what is said of the space that holds the item: the store's types and the last clauses of
`FoundAgain` speak of `at`, the latter for items that lie where they were made. A declined RPC
ends the call with `declined` as all that it did, which `SuccessMeansComplete` excepts by name,
and not for creations and analyses.

**ClientProofs.** The invariant says of every place a record can be in - the cache, the
temporary file, any unlinked inode a thread still has open, the maps and records threads hold -
that what is under a hint was served for that hint (`Sound`, `DiskInv`), and that a name that
is renamed is never the one that stays (`path # tmp`). An inode nobody refers to is empty, so
that it can be reused. For clients: a bound client has its request's tenant, what a call works
with is the bound one or, in a local process, the default one. A handle is kept only by a call
whose client found or created the project, so its server has had the project; a deletion
changes what has become of it there and never makes it one that was not
(`HandlesHaveTheirProject`), and that is as far as the cache can be trusted. `AnswersKept`
follows from the check after a failed refresh.

The second half is about `RpcChain`, with which the sessions share no state. `ChargeAgrees`
ties the server's account of a call to the phase the call is in: nothing is executed before an
answer, and a call in the login layer was refused, so it may be sent again. `LoginAgrees` says
that a token obtained for a call is valid, or excused by the clock; `IdsDiffer`, that a request
which passed the client's checks has an id for every fragment, each its own. From it: attempts
are bounded, an Evaluate is executed at most once and its judgments are found by their ids, and
an expired login is repaired.

Left to TLC: liveness (`BrowserSettles`, `CallsEnd`), which the prover does not do, and
`memory_recall`, which is violated. No recursive operator is used in the modules with proofs.

## 5. Where code and documents differ

### 5.1 Divergences

One is a run. `memory_recall`: whether `published` moves is decided before the revision is
created. If the memory is approved in between, the call answers success and recall returns the
corrected text, which `RELEASE_NOTES.md:402` excludes.

The others are definitions of the modules that are checked by no run; each is a sentence of the
repository that the code keeps except in the case described. Those of `Revisions` and `Projects`
about `published`, moved items and members were each checked once by a run of their own, which
violates them within a few steps.

| Definition | Sentence | Case |
|---|---|---|
| `Brain!NoGhosts` | `main.rs:98`: overlap with the crawl is harmless | The crawl re-inserts a memory that the feed removed after the crawl had read it. It stays live until the process restarts. |
| `Brain!CrawlWritesCaptured` | `main.rs:97`: writes during the crawl are captured | The feed is spawned, not awaited, and has no cursor before its first event: a write between the crawl's read and the subscription is in neither. |
| `BatchStore!ResubmissionIsNoOp` | `mcp_server.py:2103`: the same captures replay as a no-op | Keys count surviving rows. A capture that fails to resolve in one submission shifts the keys of those behind it, and the second submission writes them again. |
| `RpcChain!RetriesHaveFreshAuth` | `client.py:472`: a retry has fresh auth | A retried attempt starts with the header the client was built with, not the refreshed one. |
| `Revisions!TagsAreAlwaysRecent` | `revision.py:53`: `tags` refreshes when older than five seconds | `tag` and `untag` make the whole copy count as just fetched, so a client that tags every few seconds never sees the tags others moved. |
| `Projects!PublicIsReported` | `project.py:82`: `allow_public` tells whether access is enabled | `tool_create_project` answers with the object from before the second RPC (`mcp_server.py:3117`). |
| `Revisions!PublishedIsShown` | `revision.py:69`: `published` tells whether the revision is published | `tag("published")` edits the tags of the copy, not its `published` (`revision.py:329`), and makes the copy count as just fetched. |
| `Projects!SpaceContainsItem` | `item.py:245`: `get_space` gets the space that contains the item | The space is read from the reference, which `move_to` leaves as it was (`item.py:255`, `:264-275`). |
| `Projects!MembersAreChanged` | `bundle.py:268`: `success` tells whether the operation succeeded | `tool_add_bundle_member` and `tool_remove_bundle_member` answer `added` and `removed` without reading it (`mcp_server.py:3429`, `:3448`). |
| `Sessions!RoutedHome` | `__init__.py:339`: a client without a hint is sent to the user's default tenant | The cache is keyed by hint, not by login: the record of an earlier login routes the client of the next. |

The comment at `space.py:461` says that the parent of a space at the top of a project is `None`;
the code returns the project's path, and `FoundAgain` asks nothing of a parent. `add_member` of
`bundle.py` documents a `ValueError` for a bundle added to itself; the client sends the call, and
leaves the refusal to the server.

Observed while modelling, and not promised otherwise by any line: a deleted project stays in the
cache of handles, and the next call that uses it fails at the server; a crawl puts older content
back over newer; a delta sent before a snapshot was taken can reach the browser after it, so a
browser may keep an interlink that the store has dropped (`EdgesReach` is an inclusion for this
reason); two overlapping stores can re-cache a listing older than a space one of them made; two
unifications of one space at once lose an alias; a crash between opening and writing the
credentials file logs the user out, and two processes refreshing at once can leave a file that
is neither's; two threads that find a project missing both create it and one call fails.

### 5.2 Hazards besides the forty

Those that no property covers, or that a listed property covers in passing:

- dashboard: on a server without cursors a reconnect starts from now (`live.rs:36`;
  `HasCursors = FALSE` of `Brain`, in which `covered` becomes false); the status a browser is
  greeted with is read before it subscribes (`main.rs:570`, not modelled); an event whose read
  failed is not asked for again (`live.rs:107`); at the node cap a walk has already recorded
  the edge to the node it drops (`trace.rs:95`, not modelled);
- memory store: without a target the caller's tags after `published` are refused and dropped
  (`mcp_server.py:1811`); two corrections move `published` in the order of their last RPC
  (`:1799`); a deleted bundle stays in `_bundle_cache` (`:1090`);
- spaces: aliases are read and written back without a lock (`:666`); a deleted space stays known
  (`:546`); a nested creation that fails half-way neither knows nor invalidates what it made
  (`:549`); a creation whose answer was lost is retried into ALREADY_EXISTS (`:553`). The
  deletions, faults and interleavings are in `Spaces`, and `BackToBackStoresConverge` is stated
  for what they leave;
- batch: a replayed correction finds its revision frozen and is answered as failed though it is
  published (`:2140`); on resubmission a row may be prepared for another item than the one its
  replayed revision lies in, and is answered with that item's name (`:2177`); captures are
  stacked before any row is written, so two that would stack onto each other do not (`:2021`);
  two rows of one item write one artifact file, one after the other (`:2063`);
- retrieval: the pool is cut before hits out of scope are dropped (`:2549`); a bundle member
  that is gone ends the loop (`:2621`); in mode `first` an item that lost its revisions is
  answered without one (`:2450`). The first two only shrink the candidates, of which
  `NothingHidden` speaks; the third is excepted in `PublishedWins`;
- tools: `delete_item` on a reference with `?r=` deletes the item (`:3303`); the bundle and the
  item to add are resolved in two calls before a third (`:3429`);
- client: the default client is created lazily without a lock, so that two threads can each
  build one (`__init__.py:222`; in `Sessions`, where the one not kept serves its call); a tag
  with `=` in it is looked up by its first part (`client.py:1296`, excepted in
  `ReferencesAgree` by name); an artifact's default is read an RPC earlier (`:1764`); an item
  is created and its metadata set in a second RPC (`:899`); only a `DiscoveryError` leads to
  the kept record (`discovery.py:381`); an expired control-plane token is returned as usable
  when its exchange fails (`auth_cli.py:249`); some servers leave no revision marked latest
  (`item.py:239`).

## 6. Plan

Done: `GraphStore`, `Brain`, `MemoryStore`, `Spaces`, `BatchStore`, `RpcChain` with their runs
and first proofs; then `Kref`, `Revisions`, `Projects`, `Discovery`, `Sessions`, `Retrieval`
with theirs; then proofs of every safety and action property of a passing run.

What remains worth doing, in this order:

1. `Traversal`: `bfs` and `shortest_path` of `trace.rs` against reachability and distance.
2. The dashboard's status banner, in `Brain`; the bundle cache, in `Spaces`.
3. The event stream of the Python client, whose cursor follows the same protocol as the
   dashboard's.

## 7. Not modelled

- The service's own storage, search ranking and embeddings: not in the repository. Ranks,
  candidates of the similarity search and scores are free choices.
- Rendering, titles, colours and layout of the dashboard; request guards and flag parsing: no
  state of the graph depends on them. The traversal of the graph is a pure walk over a copy.
- Interactive login and the encryption of the discovery cache; a file that cannot be decrypted
  reads as one that cannot be decoded, which is modelled.
- The other SDKs, which repeat the same protocol in other languages, the generated protocol
  modules, and the command line, which prints what single RPCs return.
- Python methods and tools that return what one RPC answers: they keep nothing and relate
  nothing. Of paging, each page is such a call.
- Lengths in bytes and characters below the level of words in the reference grammar.

`PROJECT.json` gives the status and the reason per component.
