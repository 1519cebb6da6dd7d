------------------------------- MODULE Brain -------------------------------
(***************************************************************************)
(* The dashboard server (dashboard/src): a start-up crawl and a live feed  *)
(* that write one GraphStore, a broadcast channel, and the browsers that   *)
(* receive a snapshot followed by deltas (static/brain.js).                *)
(*                                                                         *)
(* Concurrent parties: writers of the Kumiho server (external), the feed   *)
(* task, the delayed edge checks it spawns, the crawl task, one socket     *)
(* task per browser.  A step is what a task does between two awaits; the   *)
(* crawl and the edge checks make several store calls under one write      *)
(* lock, so the lock is explicit and each call is a step.                  *)
(*                                                                         *)
(* A revision is <<item, number>>; its content is the position of its      *)
(* creation in the server's event log, so later content is larger.  An     *)
(* item exists on the server while it has a revision.                      *)
(***************************************************************************)
EXTENDS Integers, FiniteSets, Sequences

CONSTANTS
    Items, Types, Spaces, SpaceOf,  \* as in GraphStore
    Memory,         \* the items whose kind the dashboard shows (Config::classify)
    Clients,        \* browsers
    Capacity,       \* of the broadcast channel, per receiver (4096 in main.rs)
    EdgeRevs,       \* --edge-revs: newest revisions scanned for edges, 0 for all
    HasCursors,     \* whether the tenant's tier puts cursors on events
    MaxWrites,      \* bound: events ever written to the server's log
    MaxLinks,       \* bound: edges on the server at once
    MaxFaults       \* bound: failed calls, dropped streams, closed sockets

ASSUME BrainAssumption ==
    /\ SpaceOf \in [Items -> Spaces]
    /\ Memory \subseteq Items
    /\ Capacity \in Nat \ {0}
    /\ EdgeRevs \in Nat
    /\ HasCursors \in BOOLEAN
    /\ MaxWrites \in Nat /\ MaxLinks \in Nat /\ MaxFaults \in Nat

VARIABLES
    nodes, edges, spaces, by_item, by_space, edge_set,  \* the GraphStore
    revs,       \* server: item -> contents of its revisions, by number
    links,      \* server: edges between revisions
    log,        \* server: the event log behind EventStream
    stream,     \* the feed's subscription: [connected, at, cursor]
    job,        \* what the feed task is doing with the current event
    diffs,      \* edge checks in flight (the feed's own and the spawned ones)
    crawl,      \* the crawl task: [pc, todo, read, seeds, raw]
    ready,      \* watch channel: the snapshot is loaded
    lock,       \* write lock of the store: "free", "diff" or "crawl"
    chan,       \* browser -> its receiver: [q, lagged]
    web,        \* browser -> [pc, sent, nodes, edges]; history: late
    covered,    \* history: no event since the enumeration was or will be skipped
    faults      \* faults so far

\* The bounds on contents and counts are those of MaxWrites.
Store == INSTANCE GraphStore
           WITH Contents <- 0..MaxWrites, Counts <- 0..MaxWrites + 1

storeVars == <<nodes, edges, spaces, by_item, by_space, edge_set>>
serverVars == <<revs, links, log>>
feedVars == <<stream, job>>
webVars == <<chan, web>>
vars == <<storeVars, serverVars, feedVars, diffs, crawl, ready, lock, webVars,
          covered, faults>>

NoCursor == -1

Idle == [pc |-> "recv"]

LiveNodes == [id \in Store!LiveIds |-> nodes[id]]

Fault == faults < MaxFaults /\ faults' = faults + 1

---------------------------------------------------------------------------
(* The Kumiho server (external). *)

Event(t, i, n) == [t |-> t, item |-> i, n |-> n]

\* A writer appends a revision; `revision.created` is emitted.
CreateRevision(i) ==
    /\ Len(log) < MaxWrites
    /\ log' = Append(log, Event("created", i, Len(revs[i]) + 1))
    /\ revs' = [revs EXCEPT ![i] = Append(@, Len(log) + 1)]
    /\ UNCHANGED <<storeVars, links, feedVars, diffs, crawl, ready, lock,
                   webVars, covered, faults>>

\* A writer deletes an item with its revisions and their edges.
DeleteItem(i) ==
    /\ Len(log) < MaxWrites
    /\ revs[i] # <<>>
    /\ log' = Append(log, Event("deleted", i, 0))
    /\ revs' = [revs EXCEPT ![i] = <<>>]
    /\ links' = {l \in links : l.src[1] # i /\ l.dst[1] # i}
    /\ UNCHANGED <<storeVars, feedVars, diffs, crawl, ready, lock, webVars,
                   covered, faults>>

\* A writer links the newest revisions of two items; no event is emitted.
CreateEdge(i, j, t) ==
    /\ Cardinality(links) < MaxLinks
    /\ i # j /\ revs[i] # <<>> /\ revs[j] # <<>>
    /\ LET l == [src |-> <<i, Len(revs[i])>>, dst |-> <<j, Len(revs[j])>>, ty |-> t]
       IN  l \notin links /\ links' = links \cup {l}
    /\ UNCHANGED <<storeVars, revs, log, feedVars, diffs, crawl, ready, lock,
                   webVars, covered, faults>>

\* GetEdges of one revision, both directions, as item-level triples.
EdgesOf(i, n) ==
    {<<l.src[1], l.dst[1], l.ty>> : l \in {k \in links : <<i, n>> \in {k.src, k.dst}}}

---------------------------------------------------------------------------
(* The broadcast channel: a full receiver loses its oldest message and is   *)
(* told so (Lagged) before it reads the rest.                               *)

Deliver(ch, msg) ==
    IF Len(ch.q) < Capacity
      THEN [ch EXCEPT !.q = Append(@, msg)]
      ELSE [q |-> Append(Tail(ch.q), msg), lagged |-> TRUE]

Send(msg) ==
    chan' = [c \in Clients |->
               IF web[c].pc = "off" THEN chan[c] ELSE Deliver(chan[c], msg)]

---------------------------------------------------------------------------
(* LiveFeed::run *)

\* Mutant: every reconnect asks for new events only.
ConnectAfresh ==
    /\ ~stream.connected
    /\ stream' = [stream EXCEPT !.connected = TRUE, !.at = Len(log)]
    /\ UNCHANGED <<storeVars, serverVars, job, diffs, crawl, ready, lock,
                   webVars, covered, faults>>

\* event_stream(cursor, from_beginning = false): after the cursor, else from now.
Connect ==
    /\ ~stream.connected
    /\ stream' = [stream EXCEPT !.connected = TRUE,
                      !.at = IF stream.cursor = NoCursor THEN Len(log) ELSE stream.cursor]
    /\ UNCHANGED <<storeVars, serverVars, job, diffs, crawl, ready, lock,
                   webVars, covered, faults>>

\* The stream breaks between two events; without a cursor the gap is lost.
Disconnect ==
    /\ stream.connected /\ job = Idle
    /\ Fault
    /\ stream' = [stream EXCEPT !.connected = FALSE]
    /\ covered' = (covered /\ stream.cursor # NoCursor)
    /\ UNCHANGED <<storeVars, serverVars, job, diffs, crawl, ready, lock, webVars>>

\* The next event: the cursor moves first, then handle() dispatches on its kind.
Receive ==
    /\ stream.connected /\ job = Idle
    /\ stream.at < Len(log)
    /\ LET k == stream.at + 1
           ev == log[k]
       IN  /\ stream' = [stream EXCEPT !.at = k,
                              !.cursor = IF HasCursors THEN k ELSE stream.cursor]
           /\ job' = CASE ev.t = "deleted" -> [pc |-> "remove", item |-> ev.item]
                       [] ev.t = "created" /\ ev.item \in Memory ->
                            [pc |-> "get", item |-> ev.item, n |-> ev.n, at |-> k]
                       [] OTHER -> Idle
    /\ UNCHANGED <<storeVars, serverVars, diffs, crawl, ready, lock, webVars,
                   covered, faults>>

\* get_revision: the revision as it is now, or NOT_FOUND and the event is dropped.
GetRevision ==
    /\ job.pc = "get"
    /\ job' = IF job.n \in DOMAIN revs[job.item]
                THEN [pc |-> "upsert", at |-> job.at, n |-> job.n,
                      seed |-> [item |-> job.item, ver |-> revs[job.item][job.n],
                                revs |-> job.n]]
                ELSE Idle
    /\ UNCHANGED <<storeVars, serverVars, stream, diffs, crawl, ready, lock,
                   webVars, covered, faults>>

\* get_revision fails for any other reason: the event is dropped all the same.
GetRevisionFails ==
    /\ job.pc = "get"
    /\ Fault
    /\ job' = Idle
    /\ covered' = FALSE
    /\ UNCHANGED <<storeVars, serverVars, stream, diffs, crawl, ready, lock, webVars>>

\* The upsert under the write lock, which is released before the broadcast.
UpsertNode ==
    /\ job.pc = "upsert" /\ lock = "free"
    /\ Store!Upsert(job.seed)
    /\ job' = [pc |-> "send", at |-> job.at, n |-> job.n, item |-> job.seed.item,
               node |-> nodes'[by_item'[job.seed.item]]]
    /\ UNCHANGED <<serverVars, stream, diffs, crawl, ready, lock, webVars,
                   covered, faults>>

\* NodeAdded or NodeUpdated (a browser treats both alike), then the first check.
SendNode ==
    /\ job.pc = "send"
    /\ Send([t |-> "node", id |-> by_item[job.item], node |-> job.node])
    /\ diffs' = diffs \cup {[at |-> job.at, when |-> "now", item |-> job.item,
                             n |-> job.n, stage |-> "fetch", raw |-> {}]}
    /\ job' = [pc |-> "diff"]
    /\ UNCHANGED <<storeVars, serverVars, stream, crawl, ready, lock, web,
                   covered, faults>>

\* Mutant: the tombstone is set without pruning the node's edges.
RemoveNodeKeepsEdges ==
    /\ job.pc = "remove" /\ lock = "free"
    /\ IF Store!CanRemove(job.item)
         THEN /\ nodes' = [nodes EXCEPT ![by_item[job.item]].dead = TRUE]
              /\ UNCHANGED <<edges, spaces, by_item, by_space, edge_set>>
              /\ job' = [pc |-> "gone", id |-> by_item[job.item]]
         ELSE UNCHANGED storeVars /\ job' = Idle
    /\ UNCHANGED <<serverVars, stream, diffs, crawl, ready, lock, webVars,
                   covered, faults>>

\* on_item_deleted: the removal under the write lock.
RemoveNode ==
    /\ job.pc = "remove" /\ lock = "free"
    /\ IF Store!CanRemove(job.item)
         THEN /\ Store!RemoveItem(job.item)
              /\ job' = [pc |-> "gone", id |-> by_item[job.item]]
         ELSE UNCHANGED storeVars /\ job' = Idle
    /\ UNCHANGED <<serverVars, stream, diffs, crawl, ready, lock, webVars,
                   covered, faults>>

\* on_item_deleted: the broadcast, after the lock was released.
SendRemoved ==
    /\ job.pc = "gone"
    /\ Send([t |-> "removed", id |-> job.id])
    /\ job' = Idle
    /\ UNCHANGED <<storeVars, serverVars, stream, diffs, crawl, ready, lock,
                   web, covered, faults>>

---------------------------------------------------------------------------
(* LiveEdgeCheck::diff.  The feed waits for its immediate check ("now") and *)
(* then spawns the delayed one ("later"), which any number of events may    *)
(* precede.                                                                 *)

\* The set of checks and the feed's job once check `d` is over.
Finish(d) ==
    /\ diffs' = (diffs \ {d}) \cup
                  (IF d.when = "now"
                     THEN {[d EXCEPT !.when = "later", !.stage = "fetch", !.raw = {}]}
                     ELSE {})
    /\ job' = IF d.when = "now" THEN Idle ELSE job

\* get_edges, outside the lock; nothing found (or an error) ends the check.
FetchEdges(d) ==
    /\ d.stage = "fetch"
    /\ LET raw == EdgesOf(d.item, d.n)
       IN  IF raw = {}
             THEN Finish(d)
             ELSE /\ diffs' = (diffs \ {d}) \cup {[d EXCEPT !.stage = "wait", !.raw = raw]}
                  /\ UNCHANGED job
    /\ UNCHANGED <<storeVars, serverVars, stream, crawl, ready, lock, webVars,
                   covered, faults>>

FetchEdgesFails(d) ==
    /\ d.stage = "fetch"
    /\ Fault
    /\ Finish(d)
    /\ UNCHANGED <<storeVars, serverVars, stream, crawl, ready, lock, webVars,
                   covered>>

\* Under the lock: store one fetched edge and broadcast it if it is news.
StoreEdge(d, x) ==
    /\ \/ d.stage = "wait" /\ lock = "free"
       \/ d.stage = "hold"
    /\ x \in d.raw
    /\ IF Store!CanAddEdge(x[1], x[2], x[3])
         THEN /\ Store!AddEdge(x[1], x[2], x[3])
              /\ Send([t |-> "edge", edge |-> Store!EdgeBetween(x[1], x[2], x[3])])
         ELSE UNCHANGED <<storeVars, chan>>
    /\ IF d.raw = {x}
         THEN Finish(d) /\ lock' = "free"
         ELSE /\ diffs' = (diffs \ {d}) \cup
                            {[d EXCEPT !.stage = "hold", !.raw = @ \ {x}]}
              /\ lock' = "diff"
              /\ UNCHANGED job
    /\ UNCHANGED <<serverVars, stream, crawl, ready, web, covered, faults>>

---------------------------------------------------------------------------
(* load_snapshot, run once per process; a failed enumeration is retried     *)
(* from the start, which is the same as staying before Enumerate.           *)

\* item_search per kind.
Enumerate ==
    /\ crawl.pc = "enum"
    /\ crawl' = [crawl EXCEPT !.pc = "load",
                              !.todo = {i \in Memory : revs[i] # <<>>}]
    /\ covered' = (stream.connected \/ stream.cursor # NoCursor)
    /\ UNCHANGED <<storeVars, serverVars, feedVars, diffs, ready, lock, webVars, faults>>

\* get_revisions of one item; an item without revisions gives no seed.
LoadRevisions(i) ==
    /\ crawl.pc = "load" /\ i \in crawl.todo
    /\ crawl' = [crawl EXCEPT
                   !.todo = @ \ {i},
                   !.read = @ \cup
                     (IF revs[i] = <<>> THEN {}
                      ELSE {[item |-> i, ver |-> revs[i][Len(revs[i])],
                             revs |-> Len(revs[i])]})]
    /\ UNCHANGED <<storeVars, serverVars, feedVars, diffs, ready, lock, webVars,
                   covered, faults>>

\* get_revisions fails: the item is skipped.
LoadRevisionsFails(i) ==
    /\ crawl.pc = "load" /\ i \in crawl.todo
    /\ Fault
    /\ crawl' = [crawl EXCEPT !.todo = @ \ {i}]
    /\ covered' = FALSE
    /\ UNCHANGED <<storeVars, serverVars, feedVars, diffs, ready, lock, webVars>>

\* edges_of: the newest EdgeRevs of the revisions just read.  The code asks for them one
\* by one and passes over a revision whose read fails; here all are read, at once.
LoadEdges(s) ==
    /\ crawl.pc = "load" /\ s \in crawl.read
    /\ crawl' = [crawl EXCEPT
                   !.read = @ \ {s},
                   !.seeds = @ \cup {s},
                   !.raw = @ \cup UNION {EdgesOf(s.item, n) :
                              n \in {k \in 1..s.revs : EdgeRevs = 0 \/ k > s.revs - EdgeRevs}}]
    /\ UNCHANGED <<storeVars, serverVars, feedVars, diffs, ready, lock, webVars,
                   covered, faults>>

\* Apply: take the write lock ...
ApplyBegin ==
    /\ crawl.pc = "load" /\ crawl.todo = {} /\ crawl.read = {}
    /\ lock = "free"
    /\ lock' = "crawl"
    /\ crawl' = [crawl EXCEPT !.pc = "apply"]
    /\ UNCHANGED <<storeVars, serverVars, feedVars, diffs, ready, webVars,
                   covered, faults>>

\* ... upsert the seeds, in the order the item tasks ended ...
ApplyNode(s) ==
    /\ crawl.pc = "apply" /\ s \in crawl.seeds
    /\ Store!Upsert(s)
    /\ crawl' = [crawl EXCEPT !.seeds = @ \ {s}]
    /\ UNCHANGED <<serverVars, feedVars, diffs, ready, lock, webVars, covered, faults>>

\* ... then add the edges ...
ApplyEdge(x) ==
    /\ crawl.pc = "apply" /\ crawl.seeds = {} /\ x \in crawl.raw
    /\ IF Store!CanAddEdge(x[1], x[2], x[3])
         THEN Store!AddEdge(x[1], x[2], x[3])
         ELSE UNCHANGED storeVars
    /\ crawl' = [crawl EXCEPT !.raw = @ \ {x}]
    /\ UNCHANGED <<serverVars, feedVars, diffs, ready, lock, webVars, covered, faults>>

\* ... release the lock and announce that the snapshot is ready.
ApplyEnd ==
    /\ crawl.pc = "apply" /\ crawl.seeds = {} /\ crawl.raw = {}
    /\ lock' = "free"
    /\ ready' = TRUE
    /\ crawl' = [crawl EXCEPT !.pc = "done"]
    /\ UNCHANGED <<storeVars, serverVars, feedVars, diffs, webVars, covered, faults>>

---------------------------------------------------------------------------
(* ws_conn and brain.js.  What a socket task has sent counts as applied:    *)
(* the browser applies it in the same order.                                *)

EmptyChan == [q |-> <<>>, lagged |-> FALSE]

\* The broadcast the feed still owes, if any, agrees with the store.
OwedIsCurrent ==
    /\ job.pc = "send" => job.node = nodes[by_item[job.item]]
    /\ job.pc = "gone" => nodes[job.id].dead

\* A socket opens and subscribes to the channel; with the snapshot ready, it
\* serializes one before it enters its loop.
Join(c) ==
    /\ web[c].pc = "off"
    /\ chan' = [chan EXCEPT ![c] = EmptyChan]
    /\ web' = [web EXCEPT ![c].pc = IF ready THEN "joining" ELSE "open",
                          ![c].sent = FALSE, ![c].late = ready /\ OwedIsCurrent]
    /\ UNCHANGED <<storeVars, serverVars, feedVars, diffs, crawl, ready, lock,
                   covered, faults>>

\* applySnapshot replaces the browser's graph.
WithSnapshot(w) ==
    [w EXCEPT !.pc = "open", !.sent = TRUE, !.nodes = LiveNodes, !.edges = DOMAIN edges]

\* Mutant: a socket that finds the snapshot ready waits for it to turn ready.
SendSnapshotOnChange(c) ==
    /\ lock = "free"
    /\ web[c].pc = "open" /\ ~web[c].sent /\ ready
    /\ web' = [web EXCEPT ![c] = WithSnapshot(web[c])]
    /\ UNCHANGED <<storeVars, serverVars, feedVars, diffs, crawl, ready, lock, chan,
                   covered, faults>>

\* The snapshot of a socket: on joining, or when `ready` turns true.
SendSnapshot(c) ==
    /\ lock = "free"
    /\ \/ web[c].pc = "joining"
       \/ web[c].pc = "open" /\ ~web[c].sent /\ ready
    /\ web' = [web EXCEPT ![c] = WithSnapshot(web[c])]
    /\ UNCHANGED <<storeVars, serverVars, feedVars, diffs, crawl, ready, lock, chan,
                   covered, faults>>

\* Mutant: addEdge ignores an edge with an end it does not know yet.
ApplyKnownEnds(w, msg) ==
    CASE msg.t = "node" ->
           [w EXCEPT !.nodes = [id \in DOMAIN w.nodes \cup {msg.id} |->
                                  IF id = msg.id THEN msg.node ELSE w.nodes[id]]]
      [] msg.t = "edge" /\ {msg.edge.src, msg.edge.dst} \subseteq DOMAIN w.nodes ->
           [w EXCEPT !.edges = @ \cup {msg.edge}]
      [] msg.t = "removed" /\ msg.id \in DOMAIN w.nodes ->
           [w EXCEPT !.nodes = [id \in DOMAIN w.nodes \ {msg.id} |-> w.nodes[id]],
                     !.edges = {e \in @ : ~Store!Touches(e, msg.id)}]
      [] OTHER -> w

\* upsertNode, addEdge and removeNode: the last does nothing for an unknown id.
Apply(w, msg) ==
    CASE msg.t = "node" ->
           [w EXCEPT !.nodes = [id \in DOMAIN w.nodes \cup {msg.id} |->
                                  IF id = msg.id THEN msg.node ELSE w.nodes[id]]]
      [] msg.t = "edge" -> [w EXCEPT !.edges = @ \cup {msg.edge}]
      [] msg.t = "removed" /\ msg.id \in DOMAIN w.nodes ->
           [w EXCEPT !.nodes = [id \in DOMAIN w.nodes \ {msg.id} |-> w.nodes[id]],
                     !.edges = {e \in @ : ~Store!Touches(e, msg.id)}]
      [] OTHER -> w

\* The socket loop forwards the next message.
Forward(c) ==
    /\ web[c].pc = "open" /\ ~chan[c].lagged /\ chan[c].q # <<>>
    /\ web' = [web EXCEPT ![c] = Apply(web[c], Head(chan[c].q))]
    /\ chan' = [chan EXCEPT ![c].q = Tail(@)]
    /\ UNCHANGED <<storeVars, serverVars, feedVars, diffs, crawl, ready, lock,
                   covered, faults>>

\* Mutant: a lagged receiver goes on with what is left.
ResyncSkipped(c) ==
    /\ web[c].pc = "open" /\ chan[c].lagged /\ lock = "free"
    /\ chan' = [chan EXCEPT ![c].lagged = FALSE]
    /\ UNCHANGED <<storeVars, serverVars, feedVars, diffs, crawl, ready, lock, web,
                   covered, faults>>

\* RecvError::Lagged: a fresh snapshot; the retained messages follow it.
Resync(c) ==
    /\ web[c].pc = "open" /\ chan[c].lagged /\ lock = "free"
    /\ web' = [web EXCEPT ![c].nodes = LiveNodes, ![c].edges = DOMAIN edges]
    /\ chan' = [chan EXCEPT ![c].lagged = FALSE]
    /\ UNCHANGED <<storeVars, serverVars, feedVars, diffs, crawl, ready, lock,
                   covered, faults>>

\* The socket closes; the page keeps its graph and will reconnect.
Leave(c) ==
    /\ web[c].pc # "off"
    /\ Fault
    /\ web' = [web EXCEPT ![c].pc = "off", ![c].sent = FALSE]
    /\ chan' = [chan EXCEPT ![c] = EmptyChan]
    /\ UNCHANGED <<storeVars, serverVars, feedVars, diffs, crawl, ready, lock, covered>>

---------------------------------------------------------------------------
Init ==
    /\ Store!Init
    /\ revs \in [Items -> {<<>>, <<0>>}]
    /\ links = {}
    /\ log = <<>>
    /\ stream = [connected |-> FALSE, at |-> 0, cursor |-> NoCursor]
    /\ job = Idle
    /\ diffs = {}
    /\ crawl = [pc |-> "enum", todo |-> {}, read |-> {}, seeds |-> {}, raw |-> {}]
    /\ ready = FALSE
    /\ lock = "free"
    /\ chan = [c \in Clients |-> EmptyChan]
    /\ web = [c \in Clients |-> [pc |-> "off", sent |-> FALSE, nodes |-> [id \in {} |-> 0],
                                 edges |-> {}, late |-> FALSE]]
    /\ covered = FALSE
    /\ faults = 0

Server ==
    \/ \E i \in Items : CreateRevision(i) \/ DeleteItem(i)
    \/ \E i \in Items, j \in Items, t \in Types : CreateEdge(i, j, t)

Feed == Receive \/ GetRevision \/ UpsertNode \/ SendNode \/ RemoveNode \/ SendRemoved

EdgeChecks == \E d \in diffs : FetchEdges(d) \/ \E x \in d.raw : StoreEdge(d, x)

Crawl ==
    \/ Enumerate \/ ApplyBegin \/ ApplyEnd
    \/ \E i \in crawl.todo : LoadRevisions(i)
    \/ \E s \in crawl.read : LoadEdges(s)
    \/ \E s \in crawl.seeds : ApplyNode(s)
    \/ \E x \in crawl.raw : ApplyEdge(x)

Faults ==
    \/ Disconnect \/ GetRevisionFails
    \/ \E d \in diffs : FetchEdgesFails(d)
    \/ \E i \in crawl.todo : LoadRevisionsFails(i)
    \/ \E c \in Clients : Leave(c)

Socket(c) == SendSnapshot(c) \/ Forward(c) \/ Resync(c)

Next ==
    \/ Server \/ Connect \/ Feed \/ EdgeChecks \/ Crawl \/ Faults
    \/ \E c \in Clients : Join(c) \/ Socket(c)

Spec == Init /\ [][Next]_vars

\* Every task runs on when it can; writers, faults and browsers are free.
Fairness ==
    /\ WF_vars(Connect) /\ WF_vars(Feed) /\ WF_vars(EdgeChecks) /\ WF_vars(Crawl)
    /\ \A c \in Clients : WF_vars(Socket(c))

FairSpec == Spec /\ Fairness

---------------------------------------------------------------------------
(* Properties *)

RawEdge == Items \X Items \X Types

Number == 1..MaxWrites + 1

Link == [src : Items \X Number, dst : Items \X Number, ty : Types]

EdgeCheck == [at : Nat, when : {"now", "later"}, item : Items, n : Number,
              stage : {"fetch", "wait", "hold"}, raw : SUBSET RawEdge]

LogEvent == [t : {"created", "deleted"}, item : Items, n : 0..MaxWrites + 1]

ServerTypeOK ==
    /\ log \in Seq(LogEvent)
    /\ Len(log) <= MaxWrites
    /\ \A k \in 1..Len(log) : log[k].t = "created" => log[k].n \in Number
    /\ revs \in [Items -> Seq(0..MaxWrites)]
    /\ \A i \in Items : Len(revs[i]) <= Len(log) + 1
    /\ links \subseteq Link

FeedTypeOK ==
    /\ stream \in [connected : BOOLEAN, at : Nat, cursor : Nat \cup {NoCursor}]
    /\ stream.at <= Len(log) /\ stream.cursor <= Len(log)
    /\ job.pc \in {"recv", "get", "upsert", "send", "diff", "remove", "gone"}
    /\ job.pc = "get" => job.item \in Items /\ job.n \in Number /\ job.at \in Nat
    /\ job.pc = "upsert" => job.seed \in Store!Seed /\ job.n \in Number /\ job.at \in Nat
    /\ job.pc = "send" => job.item \in Items /\ job.n \in Number /\ job.at \in Nat
    /\ job.pc = "remove" => job.item \in Items
    /\ diffs \subseteq EdgeCheck

CrawlTypeOK ==
    /\ crawl \in [pc : {"enum", "load", "apply", "done"}, todo : SUBSET Memory,
                  read : SUBSET Store!Seed, seeds : SUBSET Store!Seed,
                  raw : SUBSET RawEdge]
    /\ ready \in BOOLEAN /\ covered \in BOOLEAN
    /\ lock \in {"free", "diff", "crawl"}

\* The state outside the store and the browsers.
CoreTypeOK == ServerTypeOK /\ FeedTypeOK /\ CrawlTypeOK

\* The feed, its edge checks and the crawl touch the store only through the
\* methods of GraphStore, one at a time: the store's own specification holds,
\* and with it every invariant proved of it.
StoreImplemented == Store!Spec

\* Nothing is on its way to browser c: all it will get without another event.
Quiet(c) ==
    /\ web[c].pc = "open" /\ web[c].sent
    /\ chan[c] = EmptyChan
    /\ job.pc \notin {"send", "gone"}

\* The feed has handled every event so far.
CaughtUp == stream.connected /\ stream.at = Len(log) /\ job = Idle

\* A browser that joined after the crawl (late: also no broadcast of a state the
\* crawl overwrote was still owed) shows exactly the store's live nodes, with
\* their current content, whenever nothing is on its way to it: neither the race
\* of snapshot and deltas nor a lagged receiver loses or resurrects a node
\* (main.rs ws_conn).
NodesConverge ==
    \A c \in Clients : Quiet(c) /\ web[c].late => web[c].nodes = LiveNodes

\* ... and it shows every interlink of the store.
EdgesReach ==
    \A c \in Clients : Quiet(c) /\ web[c].late => DOMAIN edges \subseteq web[c].edges

\* If the feed was subscribed before the enumeration and skipped nothing since,
\* then every memory item of the server has a live node once the feed caught up:
\* crawl and feed together leave no gap (main.rs "Live feed first").
NothingMissed ==
    ready /\ covered /\ CaughtUp =>
        \A i \in Memory : revs[i] # <<>> =>
            by_item[i] # Store!NoId /\ ~nodes[by_item[i]].dead

\* A browser that stays connected gets its snapshot and is up to date at last.
BrowserSettles ==
    \A c \in Clients : web[c].pc # "off" ~> (web[c].pc = "off" \/ Quiet(c))

\* main.rs on the order of feed and crawl: "overlap with the crawl is harmless".
\* Once the feed has handled every event, no live node stands for an item the
\* server no longer has.
NoGhosts ==
    ready /\ covered /\ CaughtUp =>
        \A id \in Store!LiveIds : revs[nodes[id].kref] # <<>>

\* main.rs: "writes that land during the crawl are still captured".
CrawlWritesCaptured ==
    ready /\ CaughtUp /\ faults = 0 =>
        \A i \in Memory : revs[i] # <<>> => by_item[i] # Store!NoId
===========================================================================
