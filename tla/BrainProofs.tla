---------------------------- MODULE BrainProofs ----------------------------
(* For any items, browsers and bounds: the dashboard server touches its    *)
(* store only as GraphStore allows, and its crawl and its feed together    *)
(* miss no item; and for any capacity of the channel a browser that joined *)
(* after the crawl converges to the store, through snapshots, deltas,      *)
(* lagged receivers and reconnects.                                        *)
EXTENDS Brain, TLAPS

\* What GetEdges returns are item-level triples.
LEMMA EdgesOfType ==
    ASSUME ServerTypeOK, NEW i, NEW n
    PROVE  EdgesOf(i, n) \in SUBSET RawEdge
<1> SUFFICES ASSUME NEW x \in EdgesOf(i, n) PROVE x \in RawEdge
  OBVIOUS
<1>1. PICK l \in links : x = <<l.src[1], l.dst[1], l.ty>>
  BY DEF EdgesOf
<1>2. l \in Link
  BY DEF ServerTypeOK
<1> QED BY <1>1, <1>2 DEF Link, RawEdge

\* The writers keep the server's state typed.
LEMMA ServerKeepsType ==
    ASSUME BrainAssumption, CoreTypeOK, Server
    PROVE  CoreTypeOK'
<1>1. UNCHANGED <<feedVars, diffs, crawl, ready, lock, covered>>
  BY DEF Server, CreateRevision, DeleteItem, CreateEdge
<1>2. ServerTypeOK' /\ Len(log') >= Len(log)
  <2>1. CASE \E i \in Items : CreateRevision(i)
    <3> PICK i \in Items : CreateRevision(i)
      BY <2>1
    <3> DEFINE ev == Event("created", i, Len(revs[i]) + 1)
    <3>1. /\ log' = Append(log, ev)
          /\ revs' = [revs EXCEPT ![i] = Append(revs[i], Len(log) + 1)]
          /\ Len(log) < MaxWrites
          /\ links' = links
      BY DEF CreateRevision
    <3>2. /\ revs[i] \in Seq(0..MaxWrites)
          /\ Len(revs[i]) <= Len(log) + 1
          /\ Len(log) \in Nat /\ MaxWrites \in Nat
          /\ Len(revs[i]) \in Nat
      BY DEF CoreTypeOK, ServerTypeOK, BrainAssumption
    <3>3. /\ ev \in LogEvent
          /\ ev.t = "created" /\ ev.n \in Number
      BY <3>1, <3>2 DEF Event, Number, LogEvent
    <3>4. /\ log' \in Seq(LogEvent)
          /\ Len(log') = Len(log) + 1
          /\ log'[Len(log')] = ev
          /\ \A k \in 1..Len(log) : log'[k] = log[k]
      BY <3>1, <3>3 DEF CoreTypeOK, ServerTypeOK
    <3>5. Append(revs[i], Len(log) + 1) \in Seq(0..MaxWrites)
      BY <3>1, <3>2
    <3>6. Len(Append(revs[i], Len(log) + 1)) <= Len(log') + 1
      BY <3>2, <3>4
    <3>7. /\ revs' \in [Items -> Seq(0..MaxWrites)]
          /\ \A j \in Items : Len(revs'[j]) <= Len(log') + 1
      <4>1. \A j \in Items : Len(revs[j]) \in Nat
        BY DEF CoreTypeOK, ServerTypeOK
      <4> QED BY <3>1, <3>2, <3>4, <3>5, <3>6, <4>1 DEF CoreTypeOK, ServerTypeOK
    <3>8. \A k \in 1..Len(log') : log'[k].t = "created" => log'[k].n \in Number
      <4>1. \A k \in 1..Len(log') : k \in 1..Len(log) \/ k = Len(log')
        BY <3>2, <3>4
      <4>2. log'[Len(log')].n \in Number
        BY <3>3, <3>4
      <4>3. \A k \in 1..Len(log) : log'[k].t = "created" => log'[k].n \in Number
        BY <3>4 DEF CoreTypeOK, ServerTypeOK
      <4> QED BY <4>1, <4>2, <4>3
    <3>9. Len(log') <= MaxWrites /\ Len(log') >= Len(log)
      BY <3>1, <3>2, <3>4
    <3> QED BY <3>1, <3>4, <3>7, <3>8, <3>9 DEF CoreTypeOK, ServerTypeOK, Number
  <2>2. CASE \E i \in Items : DeleteItem(i)
    <3> PICK i \in Items : DeleteItem(i)
      BY <2>2
    <3> DEFINE ev == Event("deleted", i, 0)
    <3>1. /\ log' = Append(log, ev)
          /\ revs' = [revs EXCEPT ![i] = <<>>]
          /\ Len(log) < MaxWrites
          /\ links' \subseteq links
      BY DEF DeleteItem
    <3>2. Len(log) \in Nat /\ MaxWrites \in Nat
      BY DEF CoreTypeOK, ServerTypeOK, BrainAssumption
    <3>3. /\ ev \in LogEvent
          /\ ev.t = "deleted"
      BY <3>2 DEF Event, LogEvent
    <3>4. /\ log' \in Seq(LogEvent)
          /\ Len(log') = Len(log) + 1
          /\ log'[Len(log')] = ev
          /\ \A k \in 1..Len(log) : log'[k] = log[k]
      BY <3>1, <3>3 DEF CoreTypeOK, ServerTypeOK
    <3>5. /\ revs' \in [Items -> Seq(0..MaxWrites)]
          /\ \A j \in Items : Len(revs'[j]) <= Len(log') + 1
      <4>1. <<>> \in Seq(0..MaxWrites) /\ Len(<<>>) = 0
        OBVIOUS
      <4>2. \A j \in Items : Len(revs[j]) \in Nat
        BY DEF CoreTypeOK, ServerTypeOK
      <4> QED BY <3>1, <3>2, <3>4, <4>1, <4>2 DEF CoreTypeOK, ServerTypeOK
    <3>6. \A k \in 1..Len(log') : log'[k].t = "created" => log'[k].n \in Number
      <4>1. \A k \in 1..Len(log') : k \in 1..Len(log) \/ k = Len(log')
        BY <3>2, <3>4
      <4>2. log'[Len(log')].t # "created"
        BY <3>3, <3>4
      <4>3. \A k \in 1..Len(log) : log'[k].t = "created" => log'[k].n \in Number
        BY <3>4 DEF CoreTypeOK, ServerTypeOK
      <4> QED BY <4>1, <4>2, <4>3
    <3> QED BY <3>1, <3>2, <3>4, <3>5, <3>6 DEF CoreTypeOK, ServerTypeOK, Number
  <2>3. CASE \E i \in Items, j \in Items, t \in Types : CreateEdge(i, j, t)
    <3> PICK i \in Items, j \in Items, t \in Types : CreateEdge(i, j, t)
      BY <2>3
    <3> DEFINE l == [src |-> <<i, Len(revs[i])>>, dst |-> <<j, Len(revs[j])>>, ty |-> t]
    <3>1. /\ revs[i] # <<>> /\ revs[j] # <<>>
          /\ links' = links \cup {l}
          /\ UNCHANGED <<revs, log>>
      BY DEF CreateEdge
    <3>2. /\ revs[i] \in Seq(0..MaxWrites) /\ revs[j] \in Seq(0..MaxWrites)
          /\ Len(revs[i]) <= Len(log) + 1 /\ Len(revs[j]) <= Len(log) + 1
          /\ Len(log) \in Nat /\ Len(log) <= MaxWrites /\ MaxWrites \in Nat
      BY DEF CoreTypeOK, ServerTypeOK, BrainAssumption
    <3>3. Len(revs[i]) \in Number /\ Len(revs[j]) \in Number
      BY <3>1, <3>2 DEF Number
    <3>4. l \in Link
      BY <3>3 DEF Link
    <3>5. links' \subseteq Link
      BY <3>1, <3>4 DEF CoreTypeOK, ServerTypeOK
    <3>6. ServerTypeOK'
      BY <3>1, <3>5 DEF CoreTypeOK, ServerTypeOK
    <3> QED BY <3>1, <3>2, <3>6
  <2> QED BY <2>1, <2>2, <2>3 DEF Server
<1>3. FeedTypeOK'
  <2>1. Len(log) \in Nat /\ Len(log') \in Nat
    BY <1>2 DEF CoreTypeOK, ServerTypeOK
  <2>2. stream' = stream /\ job' = job /\ diffs' = diffs
    BY <1>1 DEF feedVars
  <2>3. stream.at \in Nat /\ stream.cursor \in Nat \cup {-1}
    BY DEF CoreTypeOK, FeedTypeOK, NoCursor
  <2>4. stream'.at <= Len(log') /\ stream'.cursor <= Len(log')
    BY <1>2, <2>1, <2>2, <2>3 DEF CoreTypeOK, FeedTypeOK
  <2> QED BY <2>2, <2>4 DEF CoreTypeOK, FeedTypeOK
<1>4. CrawlTypeOK'
  BY <1>1 DEF CoreTypeOK, CrawlTypeOK
<1> QED BY <1>2, <1>3, <1>4 DEF CoreTypeOK

\* The feed and its edge checks keep their state typed, and what they hand to
\* the store are seeds and edges it accepts.
LEMMA FeedKeepsType ==
    ASSUME BrainAssumption, CoreTypeOK, Connect \/ Feed \/ Disconnect \/ GetRevisionFails
    PROVE  CoreTypeOK'
<1> USE DEF CoreTypeOK
<1>1. /\ ServerTypeOK' /\ Len(log) \in Nat
      /\ log' = log
  BY DEF Connect, Feed, Disconnect, GetRevisionFails, Receive, GetRevision, UpsertNode,
         SendNode, RemoveNode, SendRemoved, serverVars, ServerTypeOK
<1>2. CrawlTypeOK'
  <2>1. UNCHANGED <<crawl, ready, lock>>
    BY DEF Connect, Feed, Disconnect, GetRevisionFails, Receive, GetRevision, UpsertNode,
           SendNode, RemoveNode, SendRemoved
  <2>2. covered' \in BOOLEAN
    BY DEF Connect, Feed, Disconnect, GetRevisionFails, Receive, GetRevision, UpsertNode,
           SendNode, RemoveNode, SendRemoved, CrawlTypeOK
  <2> QED BY <2>1, <2>2 DEF CrawlTypeOK
<1>3. /\ stream \in [connected : BOOLEAN, at : Nat, cursor : Nat \cup {NoCursor}]
      /\ stream.at <= Len(log) /\ stream.cursor <= Len(log)
  BY DEF FeedTypeOK
<1>4. FeedTypeOK'
  <2>1. CASE Connect
    <3> DEFINE at == IF stream.cursor = NoCursor THEN Len(log) ELSE stream.cursor
    <3>1. /\ stream' = [stream EXCEPT !.connected = TRUE, !.at = at]
          /\ UNCHANGED <<job, diffs>>
      BY <2>1 DEF Connect
    <3>2. at \in Nat /\ at <= Len(log)
      BY <1>1, <1>3
    <3>3. /\ stream' \in [connected : BOOLEAN, at : Nat, cursor : Nat \cup {NoCursor}]
          /\ stream'.at <= Len(log) /\ stream'.cursor <= Len(log)
      BY <1>3, <3>1, <3>2
    <3> QED BY <1>1, <3>1, <3>3 DEF FeedTypeOK
  <2>2. CASE Disconnect
    <3>1. /\ stream' = [stream EXCEPT !.connected = FALSE]
          /\ UNCHANGED <<job, diffs>>
      BY <2>2 DEF Disconnect
    <3>2. /\ stream' \in [connected : BOOLEAN, at : Nat, cursor : Nat \cup {NoCursor}]
          /\ stream'.at <= Len(log) /\ stream'.cursor <= Len(log)
      BY <1>3, <3>1
    <3> QED BY <1>1, <3>1, <3>2 DEF FeedTypeOK
  <2>3. CASE Receive
    <3> DEFINE k == stream.at + 1
               ev == log[k]
    <3>1. /\ stream.at < Len(log)
          /\ stream' = [stream EXCEPT !.at = k,
                             !.cursor = IF HasCursors THEN k ELSE stream.cursor]
          /\ job' = CASE ev.t = "deleted" -> [pc |-> "remove", item |-> ev.item]
                      [] ev.t = "created" /\ ev.item \in Memory ->
                           [pc |-> "get", item |-> ev.item, n |-> ev.n, at |-> k]
                      [] OTHER -> Idle
          /\ diffs' = diffs
      BY <2>3 DEF Receive
    <3>2. k \in Nat /\ k \in 1..Len(log)
      BY <1>1, <1>3, <3>1
    <3>3. /\ ev \in LogEvent
          /\ ev.t \in {"created", "deleted"} /\ ev.item \in Items
      <4>1. log[k] \in LogEvent
        BY <3>2 DEF ServerTypeOK
      <4> QED BY <4>1 DEF LogEvent
    <3>4. ev.t = "created" => ev.n \in Number
      BY <3>2 DEF ServerTypeOK
    <3>5. /\ stream' \in [connected : BOOLEAN, at : Nat, cursor : Nat \cup {NoCursor}]
          /\ stream'.at <= Len(log) /\ stream'.cursor <= Len(log)
      <4> DEFINE cur == IF HasCursors THEN k ELSE stream.cursor
      <4>1. cur \in Nat \cup {NoCursor} /\ cur <= Len(log)
        BY <1>3, <3>2
      <4>2. k \in Nat /\ k <= Len(log)
        BY <1>1, <3>2
      <4>3. stream' = [stream EXCEPT !.at = k, !.cursor = cur]
        BY <3>1
      <4> HIDE DEF cur, k
      <4> QED BY <1>3, <4>1, <4>2, <4>3
    <3>6. \/ job' = [pc |-> "remove", item |-> ev.item]
          \/ job' = [pc |-> "get", item |-> ev.item, n |-> ev.n, at |-> k]
               /\ ev.n \in Number
          \/ job' = Idle
      BY <3>1, <3>3, <3>4
    <3>7. CASE job' = [pc |-> "remove", item |-> ev.item]
      BY <1>1, <3>1, <3>3, <3>5, <3>7 DEF FeedTypeOK
    <3>8. CASE job' = [pc |-> "get", item |-> ev.item, n |-> ev.n, at |-> k]
               /\ ev.n \in Number
      BY <1>1, <3>1, <3>2, <3>3, <3>5, <3>8 DEF FeedTypeOK
    <3>9. CASE job' = Idle
      BY <1>1, <3>1, <3>5, <3>9 DEF FeedTypeOK, Idle
    <3> QED BY <3>6, <3>7, <3>8, <3>9
  <2>4. CASE GetRevision
    <3>1. stream' = stream /\ diffs' = diffs /\ job.pc = "get"
      BY <2>4 DEF GetRevision
    <3>2. /\ job.item \in Items /\ job.n \in Number /\ job.at \in Nat
      BY <3>1 DEF FeedTypeOK
    <3>3. CASE job.n \in DOMAIN revs[job.item]
      <4> DEFINE seed == [item |-> job.item, ver |-> revs[job.item][job.n], revs |-> job.n]
      <4>1. job' = [pc |-> "upsert", at |-> job.at, n |-> job.n, seed |-> seed]
        BY <2>4, <3>3 DEF GetRevision
      <4>2. revs[job.item] \in Seq(0..MaxWrites)
        BY <3>2 DEF ServerTypeOK
      <4>3. revs[job.item][job.n] \in 0..MaxWrites
        BY <3>3, <4>2
      <4>4. job.n \in 0..MaxWrites + 1
        BY <3>2 DEF Number, BrainAssumption
      <4>5. seed \in Store!Seed
        BY <3>2, <4>3, <4>4 DEF Store!Seed
      <4> HIDE DEF seed
      <4> QED BY <1>1, <1>3, <3>1, <3>2, <4>1, <4>5 DEF FeedTypeOK
    <3>4. CASE job.n \notin DOMAIN revs[job.item]
      <4>1. job' = Idle
        BY <2>4, <3>4 DEF GetRevision
      <4> QED BY <1>1, <1>3, <3>1, <4>1 DEF FeedTypeOK, Idle
    <3> QED BY <3>3, <3>4
  <2>5. CASE GetRevisionFails \/ SendRemoved
    <3>1. stream' = stream /\ diffs' = diffs /\ job' = Idle
      BY <2>5 DEF GetRevisionFails, SendRemoved
    <3> QED BY <1>1, <3>1 DEF FeedTypeOK, Idle
  <2>6. CASE UpsertNode
    <3>1. /\ stream' = stream /\ diffs' = diffs /\ job.pc = "upsert"
          /\ job' = [pc |-> "send", at |-> job.at, n |-> job.n, item |-> job.seed.item,
                     node |-> nodes'[by_item'[job.seed.item]]]
      BY <2>6 DEF UpsertNode
    <3>2. job.seed.item \in Items /\ job.n \in Number /\ job.at \in Nat
      BY <3>1 DEF FeedTypeOK, Store!Seed
    <3> QED BY <1>1, <3>1, <3>2 DEF FeedTypeOK
  <2>7. CASE SendNode
    <3> DEFINE d == [at |-> job.at, when |-> "now", item |-> job.item,
                     n |-> job.n, stage |-> "fetch", raw |-> {}]
    <3>1. /\ stream' = stream /\ job.pc = "send"
          /\ diffs' = diffs \cup {d}
          /\ job' = [pc |-> "diff"]
      BY <2>7 DEF SendNode
    <3>2. d \in EdgeCheck
      BY <3>1 DEF FeedTypeOK, EdgeCheck
    <3> QED BY <1>1, <3>1, <3>2 DEF FeedTypeOK
  <2>8. CASE RemoveNode
    <3>1. /\ stream' = stream /\ diffs' = diffs
          /\ job' = [pc |-> "gone", id |-> by_item[job.item]] \/ job' = Idle
      BY <2>8 DEF RemoveNode
    <3> QED BY <1>1, <3>1 DEF FeedTypeOK, Idle
  <2> QED BY <2>1, <2>2, <2>3, <2>4, <2>5, <2>6, <2>7, <2>8 DEF Feed
<1> QED BY <1>1, <1>2, <1>4

\* Ending an edge check leaves typed checks and at most frees the feed.
LEMMA FinishType ==
    ASSUME CoreTypeOK, NEW d \in diffs, Finish(d)
    PROVE  diffs' \subseteq EdgeCheck /\ job' \in {job, Idle}
<1>1. d \in EdgeCheck
  BY DEF CoreTypeOK, FeedTypeOK
<1>2. [d EXCEPT !.when = "later", !.stage = "fetch", !.raw = {}] \in EdgeCheck
  BY <1>1 DEF EdgeCheck
<1> QED BY <1>2 DEF Finish, CoreTypeOK, FeedTypeOK

LEMMA ChecksKeepType ==
    ASSUME BrainAssumption, CoreTypeOK,
           NEW d \in diffs,
           \/ FetchEdges(d) \/ FetchEdgesFails(d)
           \/ \E x \in d.raw : StoreEdge(d, x)
    PROVE  CoreTypeOK'
<1>1. UNCHANGED <<serverVars, stream, crawl, ready, covered>>
  BY DEF FetchEdges, FetchEdgesFails, StoreEdge
<1>2. ServerTypeOK'
  BY <1>1 DEF serverVars, CoreTypeOK, ServerTypeOK
<1>3. d \in EdgeCheck
  BY DEF CoreTypeOK, FeedTypeOK
<1>4. diffs' \subseteq EdgeCheck /\ job' \in {job, Idle}
  <2>1. CASE Finish(d)
    BY <2>1, FinishType
  <2>2. CASE FetchEdges(d) /\ ~Finish(d)
    <3> DEFINE raw == EdgesOf(d.item, d.n)
    <3>1. /\ diffs' = (diffs \ {d}) \cup {[d EXCEPT !.stage = "wait", !.raw = raw]}
          /\ job' = job
      BY <2>2 DEF FetchEdges
    <3>2. raw \in SUBSET RawEdge
      BY EdgesOfType DEF CoreTypeOK
    <3> HIDE DEF raw
    <3>3. [d EXCEPT !.stage = "wait", !.raw = raw] \in EdgeCheck
      BY <1>3, <3>2 DEF EdgeCheck
    <3> QED BY <3>1, <3>3 DEF CoreTypeOK, FeedTypeOK
  <2>3. CASE (\E x \in d.raw : StoreEdge(d, x)) /\ ~Finish(d)
    <3> PICK x \in d.raw : StoreEdge(d, x)
      BY <2>3
    <3>1. /\ diffs' = (diffs \ {d}) \cup {[d EXCEPT !.stage = "hold", !.raw = d.raw \ {x}]}
          /\ job' = job
      BY <2>3 DEF StoreEdge
    <3>2. [d EXCEPT !.stage = "hold", !.raw = d.raw \ {x}] \in EdgeCheck
      BY <1>3 DEF EdgeCheck
    <3> QED BY <3>1, <3>2 DEF CoreTypeOK, FeedTypeOK
  <2>4. FetchEdgesFails(d) => Finish(d)
    BY DEF FetchEdgesFails
  <2> QED BY <2>1, <2>2, <2>3, <2>4
<1>5. FeedTypeOK'
  <2>1. log' = log /\ stream' = stream
    BY <1>1 DEF serverVars
  <2> QED BY <1>4, <2>1 DEF CoreTypeOK, FeedTypeOK, Idle
<1>6. CrawlTypeOK'
  <2>1. lock' \in {"free", "diff", "crawl"}
    BY DEF FetchEdges, FetchEdgesFails, StoreEdge, CoreTypeOK, CrawlTypeOK
  <2> QED BY <1>1, <2>1 DEF CoreTypeOK, CrawlTypeOK
<1> QED BY <1>2, <1>5, <1>6 DEF CoreTypeOK

\* The crawl collects seeds and edges the store accepts.
LEMMA CrawlKeepsType ==
    ASSUME BrainAssumption, CoreTypeOK,
           Crawl \/ \E i \in crawl.todo : LoadRevisionsFails(i)
    PROVE  CoreTypeOK'
<1> DEFINE CrawlRec == [pc : {"enum", "load", "apply", "done"}, todo : SUBSET Memory,
                        read : SUBSET Store!Seed, seeds : SUBSET Store!Seed,
                        raw : SUBSET RawEdge]
<1>1. UNCHANGED <<serverVars, feedVars, diffs>>
  BY DEF Crawl, Enumerate, ApplyBegin, ApplyEnd, LoadRevisions, LoadEdges, ApplyNode,
         ApplyEdge, LoadRevisionsFails
<1>2. ServerTypeOK' /\ FeedTypeOK'
  BY <1>1 DEF serverVars, feedVars, CoreTypeOK, ServerTypeOK, FeedTypeOK
<1>3. crawl \in CrawlRec
  BY DEF CoreTypeOK, CrawlTypeOK
<1>4. crawl' \in CrawlRec
  <2>1. CASE Enumerate \/ ApplyBegin \/ ApplyEnd
    <3>1. CASE Enumerate
      BY <1>3, <3>1 DEF Enumerate
    <3>2. CASE ApplyBegin
      BY <1>3, <3>2 DEF ApplyBegin
    <3>3. CASE ApplyEnd
      BY <1>3, <3>3 DEF ApplyEnd
    <3> QED BY <2>1, <3>1, <3>2, <3>3
  <2>2. CASE \E i \in crawl.todo : LoadRevisions(i)
    <3> PICK i \in crawl.todo : LoadRevisions(i)
      BY <2>2
    <3> DEFINE new == IF revs[i] = <<>> THEN {}
                      ELSE {[item |-> i, ver |-> revs[i][Len(revs[i])],
                             revs |-> Len(revs[i])]}
    <3>1. crawl' = [crawl EXCEPT !.todo = crawl.todo \ {i}, !.read = crawl.read \cup new]
      BY DEF LoadRevisions
    <3>2. i \in Items
      BY <1>3 DEF BrainAssumption
    <3>3. new \subseteq Store!Seed
      <4>1. CASE revs[i] = <<>>
        BY <4>1
      <4>2. CASE revs[i] # <<>>
        <5>1. /\ revs[i] \in Seq(0..MaxWrites) /\ Len(revs[i]) <= Len(log) + 1
              /\ Len(log) <= MaxWrites /\ Len(log) \in Nat /\ MaxWrites \in Nat
          BY <3>2 DEF CoreTypeOK, ServerTypeOK, BrainAssumption
        <5>2. Len(revs[i]) \in 1..Len(revs[i]) /\ Len(revs[i]) \in 0..MaxWrites + 1
          BY <4>2, <5>1
        <5>3. revs[i][Len(revs[i])] \in 0..MaxWrites
          BY <5>1, <5>2
        <5> QED BY <3>2, <5>2, <5>3 DEF Store!Seed
      <4> QED BY <4>1, <4>2
    <3> HIDE DEF new
    <3> QED BY <1>3, <3>1, <3>3
  <2>3. CASE \E i \in crawl.todo : LoadRevisionsFails(i)
    BY <1>3, <2>3 DEF LoadRevisionsFails
  <2>4. CASE \E s \in crawl.read : LoadEdges(s)
    <3> PICK s \in crawl.read : LoadEdges(s)
      BY <2>4
    <3> DEFINE new == UNION {EdgesOf(s.item, n) :
                               n \in {k \in 1..s.revs : EdgeRevs = 0 \/ k > s.revs - EdgeRevs}}
    <3>1. crawl' = [crawl EXCEPT !.read = crawl.read \ {s},
                                 !.seeds = crawl.seeds \cup {s},
                                 !.raw = crawl.raw \cup new]
      BY DEF LoadEdges
    <3>2. new \subseteq RawEdge
      BY EdgesOfType DEF CoreTypeOK
    <3> HIDE DEF new
    <3> QED BY <1>3, <3>1, <3>2
  <2>5. CASE \E s \in crawl.seeds : ApplyNode(s)
    BY <1>3, <2>5 DEF ApplyNode
  <2>6. CASE \E x \in crawl.raw : ApplyEdge(x)
    BY <1>3, <2>6 DEF ApplyEdge
  <2> QED BY <2>1, <2>2, <2>3, <2>4, <2>5, <2>6 DEF Crawl
<1>5. ready' \in BOOLEAN /\ covered' \in BOOLEAN /\ lock' \in {"free", "diff", "crawl"}
  BY DEF Crawl, Enumerate, ApplyBegin, ApplyEnd, LoadRevisions, LoadEdges, ApplyNode,
         ApplyEdge, LoadRevisionsFails, CoreTypeOK, CrawlTypeOK, FeedTypeOK
<1>6. CrawlTypeOK'
  BY <1>4, <1>5 DEF CrawlTypeOK
<1> QED BY <1>2, <1>6 DEF CoreTypeOK

\* Browsers and their sockets touch none of it.
LEMMA WebKeepsType ==
    ASSUME CoreTypeOK,
           \E c \in Clients : Join(c) \/ Socket(c) \/ Leave(c)
    PROVE  CoreTypeOK' /\ UNCHANGED storeVars
<1>1. UNCHANGED <<storeVars, serverVars, feedVars, diffs, crawl, ready, lock, covered>>
  BY DEF Join, Socket, SendSnapshot, Forward, Resync, Leave
<1> QED BY <1>1 DEF serverVars, feedVars, CoreTypeOK, ServerTypeOK, FeedTypeOK, CrawlTypeOK

LEMMA InitType == BrainAssumption /\ Init => CoreTypeOK
<1> SUFFICES ASSUME BrainAssumption, Init PROVE CoreTypeOK
  OBVIOUS
<1>1. ServerTypeOK
  <2>1. <<>> \in Seq(0..MaxWrites) /\ <<0>> \in Seq(0..MaxWrites)
        /\ Len(<<>>) = 0 /\ Len(<<0>>) = 1 /\ <<>> \in Seq(LogEvent)
    BY DEF BrainAssumption
  <2>2. revs \in [Items -> {<<>>, <<0>>}]
    BY DEF Init
  <2>3. \A i \in Items : revs[i] \in Seq(0..MaxWrites) /\ Len(revs[i]) <= 1
    <3> SUFFICES ASSUME NEW i \in Items
                 PROVE  revs[i] \in Seq(0..MaxWrites) /\ Len(revs[i]) <= 1
      OBVIOUS
    <3>1. revs[i] = <<>> \/ revs[i] = <<0>>
      BY <2>2
    <3>2. CASE revs[i] = <<>>
      BY <2>1, <3>2
    <3>3. CASE revs[i] = <<0>>
      BY <2>1, <3>3
    <3> QED BY <3>1, <3>2, <3>3
  <2>4. revs \in [Items -> Seq(0..MaxWrites)]
    BY <2>2, <2>3
  <2>5. log \in Seq(LogEvent) /\ Len(log) = 0 /\ links = {}
    BY <2>1 DEF Init
  <2> QED BY <2>3, <2>4, <2>5 DEF ServerTypeOK, BrainAssumption
<1>2. FeedTypeOK
  BY DEF Init, FeedTypeOK, Idle, NoCursor
<1>3. CrawlTypeOK
  BY DEF Init, CrawlTypeOK
<1> QED BY <1>1, <1>2, <1>3 DEF CoreTypeOK

\* Every value the tasks hand to each other is of the kind the next one expects,
\* whatever the writers do and whichever calls fail.
THEOREM CoreTypes == Spec => []CoreTypeOK
<1>1. CoreTypeOK /\ [Next]_vars => CoreTypeOK'
  <2> SUFFICES ASSUME CoreTypeOK, [Next]_vars PROVE CoreTypeOK'
    OBVIOUS
  <2> USE BrainAssumption
  <2>1. CASE UNCHANGED vars
    BY <2>1 DEF vars, serverVars, feedVars, CoreTypeOK, ServerTypeOK, FeedTypeOK, CrawlTypeOK
  <2>2. CASE Server
    BY <2>2, ServerKeepsType
  <2>3. CASE Connect \/ Feed \/ Disconnect \/ GetRevisionFails
    BY <2>3, FeedKeepsType
  <2>4. CASE EdgeChecks \/ \E d \in diffs : FetchEdgesFails(d)
    BY <2>4, ChecksKeepType DEF EdgeChecks
  <2>5. CASE Crawl \/ \E i \in crawl.todo : LoadRevisionsFails(i)
    BY <2>5, CrawlKeepsType
  <2>6. CASE \E c \in Clients : Join(c) \/ Socket(c) \/ Leave(c)
    BY <2>6, WebKeepsType
  <2> QED BY <2>1, <2>2, <2>3, <2>4, <2>5, <2>6 DEF Next, Faults
<1> QED BY <1>1, InitType, BrainAssumption, PTL DEF Spec

\* The dashboard server implements the store's specification: under any
\* interleaving of feed, edge checks and crawl, each step makes at most one call
\* of a GraphStore method and changes the store in no other way.
THEOREM StoreIsImplemented == Spec => StoreImplemented
<1>1. Init => Store!Init
  BY DEF Init
<1>2. CoreTypeOK /\ [Next]_vars => [Store!Next]_(Store!store)
  <2> SUFFICES ASSUME CoreTypeOK, [Next]_vars
               PROVE  Store!Next \/ UNCHANGED storeVars
    BY DEF Store!store, storeVars
  <2>1. CASE UNCHANGED vars
    BY <2>1 DEF vars
  <2>2. CASE Server
    BY <2>2 DEF Server, CreateRevision, DeleteItem, CreateEdge
  <2>3. CASE UpsertNode
    <3>1. job.seed \in Store!Seed /\ Store!Upsert(job.seed)
      BY <2>3 DEF UpsertNode, CoreTypeOK, FeedTypeOK
    <3> QED BY <3>1 DEF Store!Next
  <2>4. CASE RemoveNode
    <3>1. job.item \in Items
      BY <2>4 DEF RemoveNode, CoreTypeOK, FeedTypeOK
    <3> QED BY <2>4, <3>1 DEF RemoveNode, Store!Next
  <2>5. CASE Connect \/ Receive \/ GetRevision \/ SendNode \/ SendRemoved
             \/ Disconnect \/ GetRevisionFails
    BY <2>5 DEF Connect, Receive, GetRevision, SendNode, SendRemoved, Disconnect,
                GetRevisionFails
  <2>6. ASSUME NEW d \in diffs, FetchEdges(d) \/ FetchEdgesFails(d)
        PROVE  UNCHANGED storeVars
    BY <2>6 DEF FetchEdges, FetchEdgesFails
  <2>7. ASSUME NEW d \in diffs, NEW x \in d.raw, StoreEdge(d, x)
        PROVE  Store!Next \/ UNCHANGED storeVars
    <3>1. x \in RawEdge
      BY <2>7 DEF CoreTypeOK, FeedTypeOK, EdgeCheck
    <3>2. x[1] \in Items /\ x[2] \in Items /\ x[3] \in Types
      BY <3>1 DEF RawEdge
    <3>3. Store!AddEdge(x[1], x[2], x[3]) \/ UNCHANGED storeVars
      BY <2>7 DEF StoreEdge
    <3> QED BY <3>2, <3>3 DEF Store!Next
  <2>8. ASSUME NEW s \in crawl.seeds, ApplyNode(s)
        PROVE  Store!Next
    <3>1. s \in Store!Seed
      BY <2>8 DEF CoreTypeOK, CrawlTypeOK
    <3> QED BY <2>8, <3>1 DEF ApplyNode, Store!Next
  <2>9. ASSUME NEW x \in crawl.raw, ApplyEdge(x)
        PROVE  Store!Next \/ UNCHANGED storeVars
    <3>1. x \in RawEdge
      BY <2>9 DEF CoreTypeOK, CrawlTypeOK
    <3>2. x[1] \in Items /\ x[2] \in Items /\ x[3] \in Types
      BY <3>1 DEF RawEdge
    <3> QED BY <2>9, <3>2 DEF ApplyEdge, Store!Next
  <2>10. CASE \/ Enumerate \/ ApplyBegin \/ ApplyEnd
              \/ \E i \in crawl.todo : LoadRevisions(i) \/ LoadRevisionsFails(i)
              \/ \E s \in crawl.read : LoadEdges(s)
    BY <2>10 DEF Enumerate, ApplyBegin, ApplyEnd, LoadRevisions, LoadRevisionsFails, LoadEdges
  <2>11. CASE \E c \in Clients : Join(c) \/ Socket(c) \/ Leave(c)
    BY <2>11, WebKeepsType
  <2> QED
    BY <2>1, <2>2, <2>3, <2>4, <2>5, <2>6, <2>7, <2>8, <2>9, <2>10, <2>11
       DEF Next, Feed, EdgeChecks, Crawl, Faults
<1> QED BY <1>1, <1>2, CoreTypes, PTL DEF Spec, StoreImplemented, Store!Spec

StoreProofs == INSTANCE GraphStoreProofs
                 WITH Contents <- 0..MaxWrites, Counts <- 0..MaxWrites + 1

\* Hence no interlink of the running dashboard ever touches a tombstone, and its
\* maps agree with its lists.
THEOREM BrainStoreInv == Spec => []Store!StoreInv
<1>1. StoreProofs!Spec => []StoreProofs!StoreInv
  BY BrainAssumption, StoreProofs!StoreInvariant DEF BrainAssumption
<1>2. Store!Init => StoreProofs!Init
  BY DEF Store!Init, StoreProofs!Init, Store!NoId, StoreProofs!NoId
<1>3. [Store!Next]_(Store!store) => [StoreProofs!Next]_(StoreProofs!store)
  BY DEF Store!Upsert, StoreProofs!Upsert, Store!AddEdge, StoreProofs!AddEdge,
             Store!RemoveItem, StoreProofs!RemoveItem,
             Store!InternSpace, StoreProofs!InternSpace,
             Store!Refreshed, StoreProofs!Refreshed,
             Store!EdgeBetween, StoreProofs!EdgeBetween,
             Store!CanAddEdge, StoreProofs!CanAddEdge, Store!Push,
             StoreProofs!Push, Store!Retain, StoreProofs!Retain,
             Store!CanRemove, StoreProofs!CanRemove, Store!Seed,
             StoreProofs!Seed, Store!Larger, StoreProofs!Larger,
             Store!Touches, StoreProofs!Touches, Store!NoId,
             StoreProofs!NoId, Store!Next, StoreProofs!Next,
             Store!store, StoreProofs!store
<1>4. StoreProofs!StoreInv => Store!StoreInv
  BY DEF Store!StoreInv, StoreProofs!StoreInv, Store!TypeOK,
             StoreProofs!TypeOK, Store!IndexAgrees,
             StoreProofs!IndexAgrees, Store!SpacesAgree,
             StoreProofs!SpacesAgree, Store!EdgesAgree,
             StoreProofs!EdgesAgree, Store!EdgesJoinLiveNodes,
             StoreProofs!EdgesJoinLiveNodes, Store!Edge,
             StoreProofs!Edge, Store!Node, StoreProofs!Node,
             Store!Ids, StoreProofs!Ids, Store!LiveIds,
             StoreProofs!LiveIds, Store!NoId, StoreProofs!NoId
<1> QED
  BY <1>1, <1>2, <1>3, <1>4, StoreIsImplemented, PTL
     DEF StoreImplemented, Store!Spec, StoreProofs!Spec
---------------------------------------------------------------------------
(* The gap between crawl and feed: why nothing is missed (NothingMissed).    *)

Live(i) == by_item[i] # Store!NoId /\ ~nodes[by_item[i]].dead

\* Event k announces a revision of item i that the server still has.
Announces(k, i) == log[k].t = "created" /\ log[k].item = i /\ log[k].n \in DOMAIN revs[i]

Deletes(k, i) == log[k].t = "deleted" /\ log[k].item = i

\* The event log tells of an item after its last deletion.
DeletionsAreFollowed ==
    \A i \in Items, d \in 1..Len(log) :
        Deletes(d, i) /\ revs[i] # <<>> => \E k \in d + 1..Len(log) : Announces(k, i)

\* Where the feed stands: the cursor, if any, is its position, and while it works
\* on an event it stays connected, at that event.
FeedIsPlaced ==
    /\ stream.cursor = NoCursor \/ (HasCursors /\ stream.cursor = stream.at)
    /\ job # Idle => stream.connected
    /\ job.pc = "remove" => stream.at \in 1..Len(log) /\ Deletes(stream.at, job.item)

\* The feed waits for its one immediate edge check.
OneCheckNow ==
    /\ \A d \in diffs : d.when = "now" => job.pc = "diff"
    /\ \A d \in diffs, e \in diffs : d.when = "now" /\ e.when = "now" => d = e

\* How far the crawl is, and what the history variable may claim.
CrawlIsPlaced ==
    /\ crawl.pc \in {"apply", "done"} => crawl.todo = {} /\ crawl.read = {}
    /\ crawl.pc = "done" => crawl.seeds = {}
    /\ ready => crawl.pc = "done"
    /\ covered => stream.connected \/ stream.cursor # NoCursor

\* The feed still owes item i to the store: an event ahead of it or its own job.
FeedOwes(i) ==
    \/ \E k \in stream.at + 1..Len(log) : Announces(k, i)
    \/ job.pc = "get" /\ job.item = i /\ job.n \in DOMAIN revs[i]
    \/ job.pc = "upsert" /\ job.seed.item = i

\* The crawl still owes it.
CrawlOwes(i) == i \in crawl.todo \/ \E s \in crawl.read \cup crawl.seeds : s.item = i

NoneForgotten == covered => \A i \in Memory : revs[i] # <<>> => Live(i) \/ FeedOwes(i) \/ CrawlOwes(i)

\* What every step keeps.
GapInv ==
    DeletionsAreFollowed /\ FeedIsPlaced /\ OneCheckNow /\ CrawlIsPlaced /\ NoneForgotten

\* An upsert leaves its item live and every live item live.
LEMMA UpsertLives ==
    ASSUME Store!StoreInv, NEW seed \in Store!Seed, Store!Upsert(seed),
           NEW i \in Items, i = seed.item \/ Live(i)
    PROVE  Live(i)'
<1> DEFINE id == by_item[seed.item]
<1>1. /\ nodes \in Seq(Store!Node)
      /\ by_item \in [Items -> 0..Len(nodes)]
      /\ seed.item \in Items
  BY DEF Store!StoreInv, Store!TypeOK, Store!Seed
<1>2. CASE id = Store!NoId
  <2> PICK node : /\ nodes' = Append(nodes, node)
                  /\ node.dead = FALSE
                  /\ by_item' = [by_item EXCEPT ![seed.item] = Len(nodes')]
    BY <1>2 DEF Store!Upsert
  <2>1. /\ Len(nodes') = Len(nodes) + 1 /\ Len(nodes) \in Nat
        /\ nodes'[Len(nodes) + 1] = node
        /\ \A k \in 1..Len(nodes) : nodes'[k] = nodes[k]
    BY <1>1
  <2>2. CASE i = seed.item
    <3>1. by_item'[i] = Len(nodes) + 1
      BY <1>1, <2>1, <2>2
    <3> QED BY <2>1, <3>1 DEF Live, Store!NoId
  <2>3. CASE i # seed.item
    <3>1. by_item'[i] = by_item[i] /\ by_item[i] \in 1..Len(nodes)
      BY <1>1, <2>3 DEF Live, Store!NoId
    <3>2. nodes'[by_item[i]] = nodes[by_item[i]]
      BY <2>1, <3>1
    <3> QED BY <2>3, <3>1, <3>2 DEF Live
  <2> QED BY <2>2, <2>3
<1>3. CASE id # Store!NoId
  <2>1. /\ nodes' = [nodes EXCEPT ![id] = Store!Refreshed(nodes[id], seed)]
        /\ by_item' = by_item
    BY <1>3 DEF Store!Upsert
  <2>2. id \in 1..Len(nodes) /\ DOMAIN nodes = 1..Len(nodes)
    BY <1>1, <1>3 DEF Store!NoId
  <2>3. Store!Refreshed(nodes[id], seed).dead = FALSE
    <3>1. nodes[id] \in Store!Node
      BY <1>1, <2>2
    <3> QED BY <3>1 DEF Store!Refreshed, Store!Node
  <2>4. nodes'[id].dead = FALSE
    BY <2>1, <2>2, <2>3
  <2>5. CASE by_item[i] = id
    BY <1>3, <2>1, <2>4, <2>5 DEF Live
  <2>6. CASE by_item[i] # id
    <3>1. Live(i)
      BY <2>6
    <3>2. by_item[i] \in 1..Len(nodes)
      BY <1>1, <3>1 DEF Live, Store!NoId
    <3>3. nodes'[by_item[i]] = nodes[by_item[i]]
      BY <2>1, <2>2, <2>6, <3>2
    <3> QED BY <2>1, <3>1, <3>3 DEF Live
  <2> QED BY <2>5, <2>6
<1> QED BY <1>2, <1>3

\* A removal leaves every other item live: two items never share a node.
LEMMA RemovalSpares ==
    ASSUME Store!StoreInv, NEW j \in Items, Store!RemoveItem(j),
           NEW i \in Items, i # j, Live(i)
    PROVE  Live(i)'
<1>1. /\ nodes' = [nodes EXCEPT ![by_item[j]].dead = TRUE]
      /\ by_item' = by_item
      /\ by_item[j] # Store!NoId
  BY DEF Store!RemoveItem, Store!CanRemove
<1>2. by_item[i] # by_item[j]
  BY <1>1 DEF Live, Store!StoreInv, Store!IndexAgrees
<1>3. by_item[i] \in 1..Len(nodes) /\ DOMAIN nodes = 1..Len(nodes)
  BY DEF Live, Store!NoId, Store!StoreInv, Store!TypeOK
<1>4. nodes'[by_item[i]] = nodes[by_item[i]]
  BY <1>1, <1>2, <1>3
<1> QED BY <1>1, <1>4 DEF Live

\* What moves neither the log, the feed nor the crawl, and kills no item, owes as before.
LEMMA GapFrame ==
    ASSUME GapInv, UNCHANGED <<log, revs, stream, job, diffs, crawl, ready, covered>>,
           \A i \in Memory : Live(i) => Live(i)'
    PROVE  GapInv'
<1>1. DeletionsAreFollowed'
  BY DEF GapInv, DeletionsAreFollowed, Deletes, Announces
<1>2. FeedIsPlaced' /\ OneCheckNow' /\ CrawlIsPlaced'
  BY DEF GapInv, FeedIsPlaced, Deletes, OneCheckNow, CrawlIsPlaced
<1>3. NoneForgotten'
  <2>1. \A i \in Memory : (FeedOwes(i) => FeedOwes(i)') /\ (CrawlOwes(i) => CrawlOwes(i)')
    BY DEF FeedOwes, CrawlOwes, Announces
  <2> QED BY <2>1 DEF GapInv, NoneForgotten
<1> QED BY <1>1, <1>2, <1>3 DEF GapInv

\* The writers: a new revision is announced ahead of the feed, and a deleted item
\* is owed to nobody.
LEMMA ServerKeepsGap ==
    ASSUME BrainAssumption, CoreTypeOK, GapInv, Server
    PROVE  GapInv'
<1>1. CASE \E i \in Items, j \in Items, t \in Types : CreateEdge(i, j, t)
  <2>1. UNCHANGED <<storeVars, log, revs, stream, job, diffs, crawl, ready, covered>>
    BY <1>1 DEF CreateEdge, feedVars
  <2>2. \A i \in Memory : Live(i) => Live(i)'
    BY <2>1 DEF Live, storeVars
  <2> QED BY <2>1, <2>2, GapFrame
<1>2. ASSUME NEW i \in Items, CreateRevision(i) \/ DeleteItem(i)
      PROVE  GapInv'
  <2>1. /\ UNCHANGED <<storeVars, stream, job, diffs, crawl, ready, covered>>
        /\ Len(log) \in Nat /\ stream.at \in Nat /\ stream.at <= Len(log)
    BY <1>2 DEF CreateRevision, DeleteItem, feedVars, CoreTypeOK, ServerTypeOK, FeedTypeOK
  <2>2. PICK new, ev : /\ new = Len(log) + 1
                       /\ log' = Append(log, ev)
                       /\ ev.item = i
                       /\ \/ ev.t = "deleted" /\ revs'[i] = <<>>
                          \/ ev.t = "created" /\ ev.n \in DOMAIN revs'[i]
                       /\ revs' = [revs EXCEPT ![i] = revs'[i]]
    <3>1. revs \in [Items -> Seq(0..MaxWrites)]
      BY DEF CoreTypeOK, ServerTypeOK
    <3>2. CASE CreateRevision(i)
      <4>1. /\ log' = Append(log, Event("created", i, Len(revs[i]) + 1))
            /\ revs' = [revs EXCEPT ![i] = Append(revs[i], Len(log) + 1)]
        BY <3>2 DEF CreateRevision
      <4>2. revs[i] \in Seq(0..MaxWrites)
        BY <3>1
      <4>3. revs'[i] = Append(revs[i], Len(log) + 1)
        BY <3>1, <4>1
      <4>4. Len(revs[i]) + 1 \in DOMAIN Append(revs[i], Len(log) + 1)
        BY <2>1, <4>2
      <4> QED BY <4>1, <4>3, <4>4 DEF Event
    <3>3. CASE DeleteItem(i)
      <4>1. /\ log' = Append(log, Event("deleted", i, 0))
            /\ revs' = [revs EXCEPT ![i] = <<>>]
        BY <3>3 DEF DeleteItem
      <4> QED BY <3>1, <4>1 DEF Event
    <3> QED BY <1>2, <3>2, <3>3
  <2>3. /\ Len(log') = new
        /\ log'[new] = ev
        /\ \A k \in 1..Len(log) : log'[k] = log[k]
        /\ \A k \in 1..new : k \in 1..Len(log) \/ k = new
    BY <2>1, <2>2 DEF CoreTypeOK, ServerTypeOK
  <2>4. \A j \in Items : j # i => revs'[j] = revs[j]
    BY <2>2 DEF CoreTypeOK, ServerTypeOK
  <2>5. \A j \in Items, k \in 1..Len(log) : j # i /\ Announces(k, j) => Announces(k, j)'
    BY <2>3, <2>4 DEF Announces
  <2>6. revs'[i] # <<>> => Announces(new, i)'
    BY <2>2, <2>3 DEF Announces
  <2>7. DeletionsAreFollowed'
    <3> SUFFICES ASSUME NEW j \in Items, NEW d \in 1..Len(log'),
                        Deletes(d, j)', revs'[j] # <<>>
                 PROVE  \E k \in d + 1..Len(log') : Announces(k, j)'
      BY DEF DeletionsAreFollowed
    <3>1. CASE j = i
      <4>1. Announces(new, i)'
        BY <2>6, <3>1
      <4>2. d # new
        BY <4>1 DEF Announces, Deletes
      <4>3. new \in d + 1..Len(log')
        BY <2>1, <2>2, <2>3, <4>2
      <4> QED BY <3>1, <4>1, <4>3
    <3>2. CASE j # i
      <4>1. d \in 1..Len(log) /\ Deletes(d, j)
        BY <2>2, <2>3, <3>2 DEF Deletes
      <4>2. PICK k \in d + 1..Len(log) : Announces(k, j)
        BY <2>4, <3>2, <4>1 DEF GapInv, DeletionsAreFollowed
      <4>3. k \in 1..Len(log) /\ k \in d + 1..Len(log')
        BY <2>1, <2>2, <2>3, <4>1
      <4> QED BY <2>5, <3>2, <4>2, <4>3
    <3> QED BY <3>1, <3>2
  <2>8. FeedIsPlaced'
    <3>1. stream.at \in 1..Len(log) => stream.at \in 1..Len(log') /\ log'[stream.at] = log[stream.at]
      BY <2>1, <2>2, <2>3
    <3> QED BY <2>1, <3>1 DEF GapInv, FeedIsPlaced, Deletes
  <2>9. OneCheckNow' /\ CrawlIsPlaced'
    BY <2>1 DEF GapInv, OneCheckNow, CrawlIsPlaced
  <2>10. NoneForgotten'
    <3> SUFFICES ASSUME covered, NEW j \in Memory, revs'[j] # <<>>
                 PROVE  Live(j)' \/ FeedOwes(j)' \/ CrawlOwes(j)'
      BY <2>1 DEF NoneForgotten
    <3>1. j \in Items
      BY DEF BrainAssumption
    <3>2. CASE j = i
      <4>1. new \in stream'.at + 1..Len(log')
        BY <2>1, <2>2, <2>3
      <4> QED BY <2>6, <3>2, <4>1 DEF FeedOwes
    <3>3. CASE j # i
      <4>1. Live(j) \/ FeedOwes(j) \/ CrawlOwes(j)
        BY <2>4, <3>1, <3>3 DEF GapInv, NoneForgotten
      <4>2. Live(j) => Live(j)'
        BY <2>1 DEF Live, storeVars
      <4>3. FeedOwes(j) => FeedOwes(j)'
        <5>1. ASSUME NEW k \in stream.at + 1..Len(log), Announces(k, j)
              PROVE  k \in stream'.at + 1..Len(log') /\ Announces(k, j)'
          <6>1. k \in 1..Len(log)
            BY <2>1
          <6>2. k \in stream'.at + 1..Len(log')
            BY <2>1, <2>2, <2>3
          <6> QED BY <2>5, <3>1, <3>3, <5>1, <6>1, <6>2
        <5>2. revs'[j] = revs[j]
          BY <2>4, <3>1, <3>3
        <5> QED BY <2>1, <5>1, <5>2 DEF FeedOwes
      <4>4. CrawlOwes(j) => CrawlOwes(j)'
        BY <2>1 DEF CrawlOwes
      <4> QED BY <4>1, <4>2, <4>3, <4>4
    <3> QED BY <3>2, <3>3
  <2> QED BY <2>7, <2>8, <2>9, <2>10 DEF GapInv
<1> QED BY <1>1, <1>2 DEF Server

\* What the feed has to show of a step that leaves the log and the crawl alone.
LEMMA FeedStep ==
    ASSUME CoreTypeOK, GapInv, UNCHANGED <<log, revs, crawl, ready>>,
           FeedIsPlaced', OneCheckNow',
           covered' => covered /\ (stream'.connected \/ stream'.cursor # NoCursor),
           \A i \in Memory : covered' /\ revs[i] # <<>> /\ (Live(i) \/ FeedOwes(i))
                                => Live(i)' \/ FeedOwes(i)'
    PROVE  GapInv'
<1>1. DeletionsAreFollowed'
  BY DEF GapInv, DeletionsAreFollowed, Deletes, Announces
<1>2. CrawlIsPlaced'
  BY DEF GapInv, CrawlIsPlaced
<1>3. \A i \in Memory : CrawlOwes(i) => CrawlOwes(i)'
  BY DEF CrawlOwes
<1>4. NoneForgotten'
  BY <1>3 DEF GapInv, NoneForgotten
<1> QED BY <1>1, <1>2, <1>4 DEF GapInv

\* The feed: a cursor resumes where it stopped, and an event is dropped only when
\* a later one tells of the item again.
LEMMA FeedKeepsGap ==
    ASSUME BrainAssumption, CoreTypeOK, Store!StoreInv, GapInv,
           Connect \/ Feed \/ Disconnect \/ GetRevisionFails
    PROVE  GapInv'
<1>1. UNCHANGED <<log, revs, crawl, ready>>
  BY DEF Connect, Feed, Disconnect, GetRevisionFails, Receive, GetRevision, UpsertNode,
         SendNode, RemoveNode, SendRemoved, serverVars
<1>2. /\ stream \in [connected : BOOLEAN, at : Nat, cursor : Nat \cup {NoCursor}]
      /\ Len(log) \in Nat /\ stream.at <= Len(log)
      /\ covered \in BOOLEAN
  BY DEF CoreTypeOK, ServerTypeOK, FeedTypeOK, CrawlTypeOK
<1>3. FeedIsPlaced /\ OneCheckNow /\ CrawlIsPlaced
  BY DEF GapInv
<1>4. CASE Connect
  <2>1. /\ stream' = [stream EXCEPT !.connected = TRUE,
                        !.at = IF stream.cursor = NoCursor THEN Len(log) ELSE stream.cursor]
        /\ ~stream.connected
        /\ UNCHANGED <<storeVars, job, diffs, covered>>
    BY <1>4 DEF Connect
  <2>2. /\ stream'.connected = TRUE
        /\ stream'.cursor = stream.cursor
        /\ stream'.at = IF stream.cursor = NoCursor THEN Len(log) ELSE stream.cursor
    BY <1>2, <2>1
  <2>3. job = Idle /\ job.pc # "remove"
    BY <1>3, <2>1 DEF FeedIsPlaced, Idle
  <2>4. FeedIsPlaced'
    BY <1>3, <2>1, <2>2, <2>3 DEF FeedIsPlaced
  <2>5. OneCheckNow'
    BY <1>3, <2>1 DEF OneCheckNow
  <2>6. covered => stream'.at = stream.at
    BY <1>3, <2>1, <2>2 DEF CrawlIsPlaced, FeedIsPlaced
  <2>7. \A i \in Memory : Live(i) => Live(i)'
    BY <2>1 DEF Live, storeVars
  <2>8. \A i \in Memory : covered /\ FeedOwes(i) => FeedOwes(i)'
    BY <1>1, <2>1, <2>6 DEF FeedOwes, Announces
  <2> QED BY <1>1, <2>1, <2>2, <2>4, <2>5, <2>7, <2>8, FeedStep
<1>5. CASE Disconnect
  <2>1. /\ stream' = [stream EXCEPT !.connected = FALSE]
        /\ job = Idle
        /\ UNCHANGED <<storeVars, job, diffs>>
        /\ covered' = (covered /\ stream.cursor # NoCursor)
    BY <1>5 DEF Disconnect
  <2>2. stream'.at = stream.at /\ stream'.cursor = stream.cursor
    BY <1>2, <2>1
  <2>3. FeedIsPlaced'
    BY <1>3, <2>1, <2>2 DEF FeedIsPlaced, Idle
  <2>4. OneCheckNow'
    BY <1>3, <2>1 DEF OneCheckNow
  <2>5. \A i \in Memory : (Live(i) => Live(i)') /\ (FeedOwes(i) => FeedOwes(i)')
    BY <1>1, <2>1, <2>2 DEF Live, storeVars, FeedOwes, Announces
  <2> QED BY <1>1, <2>1, <2>2, <2>3, <2>4, <2>5, FeedStep
<1>6. CASE Receive
  <2> DEFINE k == stream.at + 1
             ev == log[k]
  <2>1. /\ stream' = [stream EXCEPT !.at = k,
                        !.cursor = IF HasCursors THEN k ELSE stream.cursor]
        /\ job' = CASE ev.t = "deleted" -> [pc |-> "remove", item |-> ev.item]
                    [] ev.t = "created" /\ ev.item \in Memory ->
                         [pc |-> "get", item |-> ev.item, n |-> ev.n, at |-> k]
                    [] OTHER -> Idle
        /\ stream.connected /\ job = Idle /\ stream.at < Len(log)
        /\ UNCHANGED <<storeVars, diffs, covered>>
    BY <1>6 DEF Receive
  <2>2. /\ stream'.at = k /\ stream'.connected = stream.connected
        /\ stream'.cursor = IF HasCursors THEN k ELSE stream.cursor
        /\ k \in 1..Len(log)
    <3>1. stream' = [stream EXCEPT !.at = k,
                        !.cursor = IF HasCursors THEN k ELSE stream.cursor]
      BY <2>1
    <3>2. k \in 1..Len(log)
      BY <1>2, <2>1
    <3> HIDE DEF k
    <3> QED BY <1>2, <3>1, <3>2
  <2>3. ev.t \in {"created", "deleted"}
    <3>1. log \in Seq(LogEvent)
      BY DEF CoreTypeOK, ServerTypeOK
    <3>2. k \in 1..Len(log)
      BY <2>2
    <3> HIDE DEF k
    <3>3. log[k] \in LogEvent
      BY <3>1, <3>2
    <3> QED BY <3>3 DEF LogEvent
  <2>4. \/ ev.t = "deleted" /\ job' = [pc |-> "remove", item |-> ev.item]
        \/ /\ ev.t = "created" /\ ev.item \in Memory
           /\ job' = [pc |-> "get", item |-> ev.item, n |-> ev.n, at |-> k]
        \/ ev.t = "created" /\ ev.item \notin Memory /\ job' = Idle
    BY <2>1, <2>3
  <2>5. FeedIsPlaced'
    <3>1. stream'.cursor = NoCursor \/ (HasCursors /\ stream'.cursor = stream'.at)
      BY <1>3, <2>2 DEF FeedIsPlaced, BrainAssumption
    <3>2. job'.pc = "remove" => stream'.at \in 1..Len(log) /\ Deletes(stream.at + 1, job'.item)
      BY <2>2, <2>4 DEF Deletes, Idle
    <3> QED BY <1>1, <2>1, <2>2, <3>1, <3>2 DEF FeedIsPlaced, Deletes
  <2>6. OneCheckNow'
    BY <1>3, <2>1 DEF OneCheckNow, Idle
  <2>7. \A i \in Memory : Live(i) => Live(i)'
    BY <2>1 DEF Live, storeVars
  <2>8. ASSUME NEW i \in Memory, FeedOwes(i)
        PROVE  FeedOwes(i)'
    <3>1. PICK m \in stream.at + 1..Len(log) : Announces(m, i)
      BY <2>1, <2>8 DEF FeedOwes, Idle
    <3>2. CASE m = k
      BY <1>1, <2>4, <3>1, <3>2 DEF Announces, FeedOwes
    <3>3. CASE m # k
      <4>1. m \in stream'.at + 1..Len(log')
        BY <1>1, <1>2, <2>2, <3>3
      <4> QED BY <1>1, <3>1, <4>1 DEF FeedOwes, Announces
    <3> QED BY <3>2, <3>3
  <2>9. covered' => covered /\ (stream'.connected \/ stream'.cursor # NoCursor)
    BY <2>1, <2>2
  <2> QED BY <1>1, <2>5, <2>6, <2>7, <2>8, <2>9, FeedStep
<1>7. CASE GetRevision \/ GetRevisionFails \/ SendRemoved
  <2>1. /\ UNCHANGED <<storeVars, stream, diffs>>
        /\ job.pc \in {"get", "gone"}
        /\ \/ job' = Idle
           \/ job'.pc = "upsert" /\ job'.seed.item = job.item
    BY <1>7 DEF GetRevision, GetRevisionFails, SendRemoved
  <2>2. job # Idle
    BY <2>1 DEF Idle
  <2>3. FeedIsPlaced'
    BY <1>3, <2>1, <2>2 DEF FeedIsPlaced, Idle
  <2>4. OneCheckNow'
    BY <1>3, <2>1 DEF OneCheckNow
  <2>5. covered' => covered /\ (stream'.connected \/ stream'.cursor # NoCursor)
    BY <1>3, <1>7, <2>1 DEF GetRevision, GetRevisionFails, SendRemoved, CrawlIsPlaced
  <2>6. \A i \in Memory : Live(i) => Live(i)'
    BY <2>1 DEF Live, storeVars
  <2>7. ASSUME NEW i \in Memory, covered', FeedOwes(i)
        PROVE  FeedOwes(i)'
    <3>1. ~GetRevisionFails
      BY <2>7 DEF GetRevisionFails
    <3>2. CASE \E k \in stream.at + 1..Len(log) : Announces(k, i)
      BY <1>1, <2>1, <3>2 DEF FeedOwes, Announces
    <3>3. CASE job.pc = "get" /\ job.item = i /\ job.n \in DOMAIN revs[i]
      <4>1. GetRevision
        BY <1>7, <3>1, <3>3 DEF SendRemoved
      <4>2. job'.pc = "upsert" /\ job'.seed.item = i
        BY <3>3, <4>1 DEF GetRevision
      <4> QED BY <4>2 DEF FeedOwes
    <3> QED BY <2>1, <2>7, <3>2, <3>3 DEF FeedOwes
  <2> QED BY <1>1, <2>3, <2>4, <2>5, <2>6, <2>7, FeedStep
<1>8. CASE UpsertNode
  <2>1. /\ UNCHANGED <<stream, diffs, covered>>
        /\ job.pc = "upsert" /\ job'.pc = "send"
        /\ Store!Upsert(job.seed) /\ job.seed \in Store!Seed
    BY <1>8 DEF UpsertNode, CoreTypeOK, FeedTypeOK
  <2>2. job # Idle
    BY <2>1 DEF Idle
  <2>3. FeedIsPlaced'
    BY <1>3, <2>1, <2>2 DEF FeedIsPlaced
  <2>4. OneCheckNow'
    BY <1>3, <2>1 DEF OneCheckNow
  <2>5. ASSUME NEW i \in Memory, Live(i) \/ FeedOwes(i)
        PROVE  Live(i)' \/ FeedOwes(i)'
    <3>1. i \in Items
      BY DEF BrainAssumption
    <3>2. CASE Live(i) \/ job.seed.item = i
      BY <2>1, <3>1, <3>2, UpsertLives
    <3>3. CASE \E k \in stream.at + 1..Len(log) : Announces(k, i)
      BY <1>1, <2>1, <3>3 DEF FeedOwes, Announces
    <3> QED BY <2>1, <2>5, <3>2, <3>3 DEF FeedOwes
  <2> QED BY <1>1, <1>3, <2>1, <2>3, <2>4, <2>5, FeedStep DEF CrawlIsPlaced
<1>9. CASE SendNode
  <2> DEFINE d == [at |-> job.at, when |-> "now", item |-> job.item,
                   n |-> job.n, stage |-> "fetch", raw |-> {}]
  <2>1. /\ UNCHANGED <<storeVars, stream, covered>>
        /\ job.pc = "send" /\ job' = [pc |-> "diff"]
        /\ diffs' = diffs \cup {d}
    BY <1>9 DEF SendNode
  <2>2. job # Idle
    BY <2>1 DEF Idle
  <2>3. FeedIsPlaced'
    BY <1>3, <2>1, <2>2 DEF FeedIsPlaced
  <2>4. OneCheckNow'
    BY <1>3, <2>1 DEF OneCheckNow
  <2>5. \A i \in Memory : (Live(i) => Live(i)') /\ (FeedOwes(i) => FeedOwes(i)')
    BY <1>1, <2>1 DEF Live, storeVars, FeedOwes, Announces
  <2> QED BY <1>1, <1>3, <2>1, <2>3, <2>4, <2>5, FeedStep DEF CrawlIsPlaced
<1>10. CASE RemoveNode
  <2>1. /\ UNCHANGED <<stream, diffs, covered>>
        /\ job.pc = "remove" /\ job.item \in Items
        /\ job' = Idle \/ job'.pc = "gone"
        /\ Store!RemoveItem(job.item) \/ UNCHANGED storeVars
    BY <1>10 DEF RemoveNode, CoreTypeOK, FeedTypeOK
  <2>2. job # Idle
    BY <2>1 DEF Idle
  <2>3. FeedIsPlaced'
    BY <1>3, <2>1, <2>2 DEF FeedIsPlaced, Idle
  <2>4. OneCheckNow'
    BY <1>3, <2>1 DEF OneCheckNow
  <2>5. ASSUME NEW i \in Memory, revs[i] # <<>>, Live(i) \/ FeedOwes(i)
        PROVE  Live(i)' \/ FeedOwes(i)'
    <3>1. i \in Items
      BY DEF BrainAssumption
    <3>2. CASE \E k \in stream.at + 1..Len(log) : Announces(k, i)
      BY <1>1, <2>1, <3>2 DEF FeedOwes, Announces
    <3>3. CASE i = job.item
      <4>1. stream.at \in 1..Len(log) /\ Deletes(stream.at, i)
        BY <1>3, <2>1, <3>3 DEF FeedIsPlaced
      <4>2. \E k \in stream.at + 1..Len(log) : Announces(k, i)
        BY <2>5, <3>1, <4>1 DEF GapInv, DeletionsAreFollowed
      <4> QED BY <3>2, <4>2
    <3>4. CASE i # job.item /\ Live(i)
      <4>1. CASE Store!RemoveItem(job.item)
        BY <2>1, <3>1, <3>4, <4>1, RemovalSpares
      <4>2. CASE UNCHANGED storeVars
        BY <3>4, <4>2 DEF Live, storeVars
      <4> QED BY <2>1, <4>1, <4>2
    <3> QED BY <2>1, <2>5, <3>2, <3>3, <3>4 DEF FeedOwes
  <2> QED BY <1>1, <1>3, <2>1, <2>3, <2>4, <2>5, FeedStep DEF CrawlIsPlaced
<1> QED BY <1>4, <1>5, <1>6, <1>7, <1>8, <1>9, <1>10 DEF Feed

\* The edge checks add edges only, and free the feed from nothing but its wait.
LEMMA ChecksKeepGap ==
    ASSUME BrainAssumption, CoreTypeOK, GapInv,
           NEW d \in diffs,
           \/ FetchEdges(d) \/ FetchEdgesFails(d)
           \/ \E x \in d.raw : StoreEdge(d, x)
    PROVE  GapInv'
<1>1. UNCHANGED <<log, revs, stream, crawl, ready, covered, nodes, by_item>>
  BY DEF FetchEdges, FetchEdgesFails, StoreEdge, serverVars, storeVars, Store!AddEdge
<1>2. d \in EdgeCheck
  BY DEF CoreTypeOK, FeedTypeOK
<1>3. \/ Finish(d)
      \/ job' = job /\ \E r : r.when = d.when /\ diffs' = (diffs \ {d}) \cup {r}
  <2>1. CASE FetchEdges(d) /\ ~Finish(d)
    <3> DEFINE r == [d EXCEPT !.stage = "wait", !.raw = EdgesOf(d.item, d.n)]
    <3>1. job' = job /\ diffs' = (diffs \ {d}) \cup {r}
      BY <2>1 DEF FetchEdges
    <3>2. r.when = d.when
      BY <1>2 DEF EdgeCheck
    <3> QED BY <3>1, <3>2
  <2>2. CASE (\E x \in d.raw : StoreEdge(d, x)) /\ ~Finish(d)
    <3> PICK x \in d.raw : StoreEdge(d, x)
      BY <2>2
    <3> DEFINE r == [d EXCEPT !.stage = "hold", !.raw = d.raw \ {x}]
    <3>1. job' = job /\ diffs' = (diffs \ {d}) \cup {r}
      BY <2>2 DEF StoreEdge
    <3>2. r.when = d.when
      BY <1>2 DEF EdgeCheck
    <3> QED BY <3>1, <3>2
  <2> QED BY <2>1, <2>2 DEF FetchEdgesFails
<1>4. FeedIsPlaced' /\ OneCheckNow'
  <2>1. FeedIsPlaced /\ OneCheckNow
    BY DEF GapInv
  <2>2. CASE Finish(d) /\ d.when = "now"
    <3> DEFINE r == [d EXCEPT !.when = "later", !.stage = "fetch", !.raw = {}]
    <3>1. job' = Idle /\ diffs' = (diffs \ {d}) \cup {r}
      BY <2>2 DEF Finish
    <3>2. r.when = "later"
      BY <1>2 DEF EdgeCheck
    <3> HIDE DEF r
    <3>3. \A e \in diffs' : e.when # "now"
      BY <2>1, <2>2, <3>1, <3>2 DEF OneCheckNow
    <3> QED BY <1>1, <2>1, <3>1, <3>3 DEF OneCheckNow, FeedIsPlaced, Idle
  <2>3. CASE Finish(d) /\ d.when # "now"
    <3>1. job' = job /\ diffs' = diffs \ {d}
      BY <2>3 DEF Finish
    <3> QED BY <1>1, <2>1, <3>1 DEF OneCheckNow, FeedIsPlaced, Deletes
  <2>4. CASE job' = job /\ \E r : r.when = d.when /\ diffs' = (diffs \ {d}) \cup {r}
    <3> PICK r : r.when = d.when /\ diffs' = (diffs \ {d}) \cup {r}
      BY <2>4
    <3> QED BY <1>1, <2>1, <2>4 DEF OneCheckNow, FeedIsPlaced, Deletes
  <2> QED BY <1>3, <2>2, <2>3, <2>4
<1>5. \A i \in Memory : Live(i) => Live(i)'
  BY <1>1 DEF Live
<1>6. \A i \in Memory : FeedOwes(i) => FeedOwes(i)'
  <2>1. job' = job \/ job.pc = "diff"
    BY <1>3 DEF Finish, GapInv, OneCheckNow
  <2> QED BY <1>1, <2>1 DEF FeedOwes, Announces
<1> QED BY <1>1, <1>4, <1>5, <1>6, FeedStep DEF GapInv, CrawlIsPlaced

\* The crawl: what it enumerates it owes until it has stored it, or it says that
\* it skipped it.
LEMMA CrawlKeepsGap ==
    ASSUME BrainAssumption, CoreTypeOK, Store!StoreInv, GapInv,
           Crawl \/ \E i \in crawl.todo : LoadRevisionsFails(i)
    PROVE  GapInv'
<1>1. UNCHANGED <<log, revs, stream, job, diffs>>
  BY DEF Crawl, Enumerate, ApplyBegin, ApplyEnd, LoadRevisions, LoadEdges, ApplyNode,
         ApplyEdge, LoadRevisionsFails, serverVars, feedVars
<1>2. crawl \in [pc : {"enum", "load", "apply", "done"}, todo : SUBSET Memory,
                 read : SUBSET Store!Seed, seeds : SUBSET Store!Seed, raw : SUBSET RawEdge]
  BY DEF CoreTypeOK, CrawlTypeOK
<1>3. DeletionsAreFollowed' /\ FeedIsPlaced' /\ OneCheckNow'
  BY <1>1 DEF GapInv, DeletionsAreFollowed, Deletes, Announces, FeedIsPlaced, OneCheckNow
<1>4. CrawlIsPlaced /\ NoneForgotten
  BY DEF GapInv
<1>5. \A i \in Memory : FeedOwes(i) => FeedOwes(i)'
  BY <1>1 DEF FeedOwes, Announces
<1>6. CASE Enumerate
  <2>1. /\ crawl.pc = "enum" /\ ready' = ready
        /\ crawl' = [crawl EXCEPT !.pc = "load", !.todo = {i \in Memory : revs[i] # <<>>}]
        /\ covered' = (stream.connected \/ stream.cursor # NoCursor)
    BY <1>6 DEF Enumerate
  <2>2. crawl'.pc = "load" /\ crawl'.todo = {i \in Memory : revs[i] # <<>>}
    BY <1>2, <2>1
  <2>3. CrawlIsPlaced'
    BY <1>1, <1>4, <2>1, <2>2 DEF CrawlIsPlaced
  <2>4. NoneForgotten'
    BY <1>1, <2>2 DEF NoneForgotten, CrawlOwes
  <2> QED BY <1>3, <2>3, <2>4 DEF GapInv
<1>7. CASE \E i \in crawl.todo : LoadRevisions(i)
  <2> PICK i \in crawl.todo : LoadRevisions(i)
    BY <1>7
  <2> DEFINE new == IF revs[i] = <<>> THEN {}
                    ELSE {[item |-> i, ver |-> revs[i][Len(revs[i])], revs |-> Len(revs[i])]}
  <2>1. /\ crawl' = [crawl EXCEPT !.todo = crawl.todo \ {i}, !.read = crawl.read \cup new]
        /\ crawl.pc = "load"
        /\ UNCHANGED <<storeVars, ready, covered>>
    BY DEF LoadRevisions
  <2>2. revs[i] # <<>> => \E s \in new : s.item = i
    OBVIOUS
  <2> HIDE DEF new
  <2>3. /\ crawl'.pc = crawl.pc /\ crawl'.todo = crawl.todo \ {i}
        /\ crawl'.read = crawl.read \cup new /\ crawl'.seeds = crawl.seeds
    BY <1>2, <2>1
  <2>4. CrawlIsPlaced'
    BY <1>1, <1>4, <2>1, <2>3 DEF CrawlIsPlaced
  <2>5. \A j \in Memory : Live(j) => Live(j)'
    BY <2>1 DEF Live, storeVars
  <2>6. \A j \in Memory : revs[j] # <<>> /\ CrawlOwes(j) => CrawlOwes(j)'
    BY <2>2, <2>3 DEF CrawlOwes
  <2>7. NoneForgotten'
    BY <1>1, <1>4, <1>5, <2>1, <2>5, <2>6 DEF NoneForgotten
  <2> QED BY <1>3, <2>4, <2>7 DEF GapInv
<1>8. CASE \E i \in crawl.todo : LoadRevisionsFails(i)
  <2> PICK i \in crawl.todo : LoadRevisionsFails(i)
    BY <1>8
  <2>1. /\ crawl' = [crawl EXCEPT !.todo = crawl.todo \ {i}]
        /\ crawl.pc = "load" /\ ready' = ready /\ covered' = FALSE
    BY DEF LoadRevisionsFails
  <2>2. crawl'.pc = crawl.pc
    BY <1>2, <2>1
  <2> QED BY <1>3, <1>4, <2>1, <2>2 DEF GapInv, CrawlIsPlaced, NoneForgotten
<1>9. CASE \E s \in crawl.read : LoadEdges(s)
  <2> PICK s \in crawl.read : LoadEdges(s)
    BY <1>9
  <2>1. /\ \E raw : crawl' = [crawl EXCEPT !.read = crawl.read \ {s},
                                            !.seeds = crawl.seeds \cup {s}, !.raw = raw]
        /\ crawl.pc = "load"
        /\ UNCHANGED <<storeVars, ready, covered>>
    BY DEF LoadEdges
  <2>2. /\ crawl'.pc = crawl.pc /\ crawl'.todo = crawl.todo
        /\ crawl'.read = crawl.read \ {s} /\ crawl'.seeds = crawl.seeds \cup {s}
    BY <1>2, <2>1
  <2>3. CrawlIsPlaced'
    BY <1>1, <1>4, <2>1, <2>2 DEF CrawlIsPlaced
  <2>4. \A j \in Memory : (Live(j) => Live(j)') /\ (CrawlOwes(j) => CrawlOwes(j)')
    BY <2>1, <2>2 DEF Live, storeVars, CrawlOwes
  <2>5. NoneForgotten'
    BY <1>1, <1>4, <1>5, <2>1, <2>4 DEF NoneForgotten
  <2> QED BY <1>3, <2>3, <2>5 DEF GapInv
<1>10. CASE ApplyBegin
  <2>1. /\ crawl' = [crawl EXCEPT !.pc = "apply"]
        /\ crawl.pc = "load" /\ crawl.todo = {} /\ crawl.read = {}
        /\ UNCHANGED <<storeVars, ready, covered>>
    BY <1>10 DEF ApplyBegin
  <2>2. /\ crawl'.pc = "apply" /\ crawl'.todo = crawl.todo
        /\ crawl'.read = crawl.read /\ crawl'.seeds = crawl.seeds
    BY <1>2, <2>1
  <2>3. CrawlIsPlaced'
    BY <1>1, <1>4, <2>1, <2>2 DEF CrawlIsPlaced
  <2>4. \A j \in Memory : (Live(j) => Live(j)') /\ (CrawlOwes(j) => CrawlOwes(j)')
    BY <2>1, <2>2 DEF Live, storeVars, CrawlOwes
  <2>5. NoneForgotten'
    BY <1>1, <1>4, <1>5, <2>1, <2>4 DEF NoneForgotten
  <2> QED BY <1>3, <2>3, <2>5 DEF GapInv
<1>11. CASE \E s \in crawl.seeds : ApplyNode(s)
  <2> PICK s \in crawl.seeds : ApplyNode(s)
    BY <1>11
  <2>1. /\ crawl' = [crawl EXCEPT !.seeds = crawl.seeds \ {s}]
        /\ crawl.pc = "apply" /\ s \in Store!Seed /\ Store!Upsert(s)
        /\ UNCHANGED <<ready, covered>>
    BY <1>2 DEF ApplyNode
  <2>2. /\ crawl'.pc = crawl.pc /\ crawl'.todo = crawl.todo
        /\ crawl'.read = crawl.read /\ crawl'.seeds = crawl.seeds \ {s}
    BY <1>2, <2>1
  <2>3. CrawlIsPlaced'
    BY <1>1, <1>4, <2>1, <2>2 DEF CrawlIsPlaced
  <2>4. \A j \in Memory : Live(j) \/ j = s.item => Live(j)'
    BY <2>1, UpsertLives DEF BrainAssumption
  <2>5. \A j \in Memory : CrawlOwes(j) => CrawlOwes(j)' \/ j = s.item
    BY <2>2 DEF CrawlOwes
  <2>6. NoneForgotten'
    BY <1>1, <1>4, <1>5, <2>1, <2>4, <2>5 DEF NoneForgotten
  <2> QED BY <1>3, <2>3, <2>6 DEF GapInv
<1>12. CASE (\E x \in crawl.raw : ApplyEdge(x)) \/ ApplyEnd
  <2>1. /\ \/ \E raw : crawl' = [crawl EXCEPT !.raw = raw] /\ ready' = ready
           \/ crawl' = [crawl EXCEPT !.pc = "done"]
        /\ crawl.pc = "apply" /\ crawl.seeds = {}
        /\ UNCHANGED <<nodes, by_item, covered>>
    BY <1>12 DEF ApplyEdge, ApplyEnd, storeVars, Store!AddEdge
  <2>2. /\ crawl'.todo = crawl.todo /\ crawl'.read = crawl.read /\ crawl'.seeds = crawl.seeds
        /\ crawl'.pc = "done" \/ (crawl'.pc = "apply" /\ ready' = ready)
    BY <1>2, <2>1
  <2>3. CrawlIsPlaced'
    BY <1>1, <1>4, <2>1, <2>2 DEF CrawlIsPlaced
  <2>4. \A j \in Memory : (Live(j) => Live(j)') /\ (CrawlOwes(j) => CrawlOwes(j)')
    BY <2>1, <2>2 DEF Live, CrawlOwes
  <2>5. NoneForgotten'
    BY <1>1, <1>4, <1>5, <2>1, <2>4 DEF NoneForgotten
  <2> QED BY <1>3, <2>3, <2>5 DEF GapInv
<1> QED BY <1>6, <1>7, <1>8, <1>9, <1>10, <1>11, <1>12 DEF Crawl

\* No step of any task loses track of an item that is owed to the store.
LEMMA GapInvariant == Spec => []GapInv
<1>1. Init => GapInv
  <2> SUFFICES ASSUME Init PROVE GapInv
    OBVIOUS
  <2>1. DeletionsAreFollowed
    BY DEF Init, DeletionsAreFollowed
  <2> QED
    BY <2>1 DEF Init, GapInv, FeedIsPlaced, OneCheckNow, CrawlIsPlaced, NoneForgotten, Idle
<1>2. CoreTypeOK /\ Store!StoreInv /\ GapInv /\ [Next]_vars => GapInv'
  <2> SUFFICES ASSUME CoreTypeOK, Store!StoreInv, GapInv, [Next]_vars PROVE GapInv'
    OBVIOUS
  <2> USE BrainAssumption
  <2>1. CASE UNCHANGED <<storeVars, log, revs, stream, job, diffs, crawl, ready, covered>>
    <3>1. \A i \in Memory : Live(i) => Live(i)'
      BY <2>1 DEF Live, storeVars
    <3> QED BY <2>1, <3>1, GapFrame
  <2>2. CASE Server
    BY <2>2, ServerKeepsGap
  <2>3. CASE Connect \/ Feed \/ Disconnect \/ GetRevisionFails
    BY <2>3, FeedKeepsGap
  <2>4. CASE EdgeChecks \/ \E d \in diffs : FetchEdgesFails(d)
    BY <2>4, ChecksKeepGap DEF EdgeChecks
  <2>5. CASE Crawl \/ \E i \in crawl.todo : LoadRevisionsFails(i)
    BY <2>5, CrawlKeepsGap
  <2>6. CASE \E c \in Clients : Join(c) \/ Socket(c) \/ Leave(c)
    <3>1. UNCHANGED <<storeVars, log, revs, stream, job, diffs, crawl, ready, covered>>
      BY <2>6 DEF Join, Socket, SendSnapshot, Forward, Resync, Leave, serverVars, feedVars
    <3> QED BY <2>1, <3>1
  <2>7. CASE UNCHANGED vars
    BY <2>1, <2>7 DEF vars, serverVars, feedVars
  <2> QED BY <2>2, <2>3, <2>4, <2>5, <2>6, <2>7 DEF Next, Faults
<1> QED BY <1>1, <1>2, CoreTypes, BrainStoreInv, PTL DEF Spec

\* Crawl and feed leave no gap (main.rs "Live feed first", live.rs, snapshot.rs): when the
\* feed was subscribed before the enumeration, resumed from its cursor ever since and no
\* read of a revision failed, every memory item of the server has a live node once the
\* crawl is over and the feed caught up, however writers, feed, edge checks and crawl
\* interleaved.
THEOREM NoGap == Spec => []NothingMissed
<1>1. CoreTypeOK /\ GapInv => NothingMissed
  <2> SUFFICES ASSUME CoreTypeOK, GapInv, ready, covered, CaughtUp,
                      NEW i \in Memory, revs[i] # <<>>
               PROVE  Live(i)
    BY DEF NothingMissed, Live
  <2>1. Live(i) \/ FeedOwes(i) \/ CrawlOwes(i)
    BY DEF GapInv, NoneForgotten
  <2>2. ~CrawlOwes(i)
    BY DEF GapInv, CrawlIsPlaced, CrawlOwes
  <2>3. ~FeedOwes(i)
    <3>1. stream.at = Len(log) /\ Len(log) \in Nat /\ job.pc = "recv"
      BY DEF CaughtUp, Idle, CoreTypeOK, ServerTypeOK
    <3>2. stream.at + 1..Len(log) = {}
      BY <3>1
    <3> QED BY <3>1, <3>2 DEF FeedOwes
  <2> QED BY <2>1, <2>2, <2>3
<1> QED BY <1>1, CoreTypes, GapInvariant, PTL

---------------------------------------------------------------------------
(* The browsers.                                                           *)

\* What is broadcast (delta messages of protocol.rs).
Message ==
    [t : {"node"}, id : Nat, node : Store!Node]
      \cup [t : {"edge"}, edge : Store!Edge]
      \cup [t : {"removed"}, id : Nat]

Receiver == [q : Seq(Message), lagged : BOOLEAN]

\* A browser's nodes: a function from ids.
Shown == UNION {[S -> Store!Node] : S \in SUBSET Nat}

Browser == [pc : {"off", "joining", "open"}, sent : BOOLEAN, nodes : Shown,
            edges : SUBSET Store!Edge, late : BOOLEAN]

WebTypeOK ==
    /\ chan \in [Clients -> Receiver]
    /\ web \in [Clients -> Browser]
    /\ job.pc = "send" => Live(job.item) /\ job.node \in Store!Node
    /\ job.pc = "gone" => job.id \in Nat

---------------------------------------------------------------------------
(* What a browser has been told.  For one node or one edge, `Good` are the   *)
(* messages that tell the store's present state of it and `Rel` those that   *)
(* would change what the browser shows of it.                                *)

\* The queue ends, as far as it matters, with a good message.
Tells(q, Good, Rel) ==
    \E k \in 1..Len(q) : q[k] \in Good /\ \A j \in k + 1..Len(q) : q[j] \notin Rel

\* The queue has nothing that matters.
Silent(q, Rel) == \A k \in 1..Len(q) : q[k] \notin Rel

\* A browser w with receiver r will show it, once it has drained its queue or been
\* resynced.
Told(r, w, Good, Rel, shown) ==
    \/ Tells(r.q, Good, Rel)
    \/ Silent(r.q, Rel) /\ (w.pc = "open" /\ ~r.lagged => shown)

NodeMsgs(id) == {m \in Message : m.t \in {"node", "removed"} /\ m.id = id}

RightMsgs(id) ==
    {m \in NodeMsgs(id) : IF m.t = "node" THEN id \in Store!LiveIds /\ m.node = nodes[id]
                                          ELSE id \notin Store!LiveIds}

EdgeMsgs(e) == {m \in Message : m.t = "edge" /\ m.edge = e}

CutMsgs(e) == {m \in Message : m.t = "removed" /\ Store!Touches(e, m.id)}

\* Browser w shows node id as the store has it.
ShowsNode(w, id) ==
    IF id \in Store!LiveIds
      THEN id \in DOMAIN w.nodes /\ w.nodes[id] = nodes[id]
      ELSE id \notin DOMAIN w.nodes

\* The feed has changed node id and not yet broadcast it.
OwedNode(id) ==
    \/ job.pc = "send" /\ by_item[job.item] = id
    \/ job.pc = "gone" /\ job.id = id

NodesTold(c) ==
    \A id \in Nat : \/ OwedNode(id)
                    \/ Told(chan[c], web[c], RightMsgs(id), NodeMsgs(id), ShowsNode(web[c], id))

EdgesTold(c) ==
    \A e \in edge_set : Told(chan[c], web[c], EdgeMsgs(e), CutMsgs(e), e \in web[c].edges)

\* A socket that joined after the crawl, with nothing stale owed.
Watching(c) == web[c].pc # "off" /\ web[c].late

\* What every step keeps.
WatchInv ==
    \A c \in Clients : Watching(c) => ready /\ OwedIsCurrent /\ NodesTold(c) /\ EdgesTold(c)

---------------------------------------------------------------------------
(* The channel *)

\* A delivery appends, and drops the oldest message of a full queue.
LEMMA Delivered ==
    ASSUME BrainAssumption, NEW ch \in Receiver, NEW m \in Message
    PROVE  /\ Deliver(ch, m) \in Receiver
           /\ \E o \in {0, 1} :
                 /\ Len(Deliver(ch, m).q) = Len(ch.q) + 1 - o
                 /\ Deliver(ch, m).q[Len(ch.q) + 1 - o] = m
                 /\ \A k \in 1..Len(ch.q) - o : Deliver(ch, m).q[k] = ch.q[k + o]
                 /\ o = 1 => Deliver(ch, m).lagged = TRUE /\ Len(ch.q) >= 1
                 /\ o = 0 => Deliver(ch, m).lagged = ch.lagged
<1>1. /\ ch.q \in Seq(Message) /\ Len(ch.q) \in Nat /\ ch.lagged \in BOOLEAN
      /\ Capacity \in Nat \ {0}
  BY DEF Receiver, BrainAssumption
<1>2. CASE Len(ch.q) < Capacity
  <2>1. Deliver(ch, m) = [ch EXCEPT !.q = Append(ch.q, m)]
    BY <1>2 DEF Deliver
  <2>2. Append(ch.q, m) \in Seq(Message)
    BY <1>1
  <2>3. /\ Deliver(ch, m).q = Append(ch.q, m) /\ Deliver(ch, m).lagged = ch.lagged
        /\ Deliver(ch, m) \in Receiver
    BY <2>1, <2>2 DEF Receiver
  <2>4. /\ Len(Append(ch.q, m)) = Len(ch.q) + 1 - 0
        /\ Append(ch.q, m)[Len(ch.q) + 1 - 0] = m
        /\ \A k \in 1..Len(ch.q) - 0 : Append(ch.q, m)[k] = ch.q[k + 0]
    BY <1>1
  <2> QED BY <2>3, <2>4
<1>3. CASE ~(Len(ch.q) < Capacity)
  <2>1. Deliver(ch, m) = [q |-> Append(Tail(ch.q), m), lagged |-> TRUE]
    BY <1>3 DEF Deliver
  <2>2. ch.q # <<>> /\ Len(ch.q) >= 1
    BY <1>1, <1>3
  <2>3. /\ Tail(ch.q) \in Seq(Message) /\ Len(Tail(ch.q)) = Len(ch.q) - 1
        /\ \A k \in 1..Len(ch.q) - 1 : Tail(ch.q)[k] = ch.q[k + 1]
    BY <1>1, <2>2
  <2>4. /\ Append(Tail(ch.q), m) \in Seq(Message)
        /\ Len(Append(Tail(ch.q), m)) = Len(ch.q) + 1 - 1
        /\ Append(Tail(ch.q), m)[Len(ch.q) + 1 - 1] = m
        /\ \A k \in 1..Len(ch.q) - 1 : Append(Tail(ch.q), m)[k] = ch.q[k + 1]
    BY <1>1, <2>2, <2>3
  <2>5. /\ Deliver(ch, m).q = Append(Tail(ch.q), m) /\ Deliver(ch, m).lagged = TRUE
        /\ Deliver(ch, m) \in Receiver
    BY <2>1, <2>4 DEF Receiver
  <2> QED BY <2>2, <2>4, <2>5
<1> QED BY <1>2, <1>3

\* A good message tells; one that does not matter leaves a telling queue telling,
\* unless the good message was dropped, and then the receiver has lagged.
LEMMA DeliveryTells ==
    ASSUME BrainAssumption, NEW ch \in Receiver, NEW m \in Message, NEW Good, NEW Rel
    PROVE  /\ m \in Good => Tells(Deliver(ch, m).q, Good, Rel)
           /\ m \notin Rel /\ Tells(ch.q, Good, Rel) =>
                \/ Tells(Deliver(ch, m).q, Good, Rel)
                \/ Silent(Deliver(ch, m).q, Rel) /\ Deliver(ch, m).lagged
           /\ m \notin Rel /\ Silent(ch.q, Rel) =>
                /\ Silent(Deliver(ch, m).q, Rel)
                /\ Deliver(ch, m).lagged \/ Deliver(ch, m).lagged = ch.lagged
<1> DEFINE r == Deliver(ch, m)
<1>1. Len(ch.q) \in Nat /\ r \in Receiver /\ r.lagged \in BOOLEAN
  <2>1. r \in Receiver
    BY Delivered
  <2> HIDE DEF r
  <2> QED BY <2>1 DEF Receiver
<1> PICK o \in {0, 1} : /\ Len(r.q) = Len(ch.q) + 1 - o
                        /\ r.q[Len(ch.q) + 1 - o] = m
                        /\ \A k \in 1..Len(ch.q) - o : r.q[k] = ch.q[k + o]
                        /\ o = 1 => r.lagged = TRUE /\ Len(ch.q) >= 1
                        /\ o = 0 => r.lagged = ch.lagged
  BY Delivered
<1> HIDE DEF r
<1>2. \A k \in 1..Len(r.q) : k = Len(r.q) \/ (k \in 1..Len(ch.q) - o /\ k + o \in 1..Len(ch.q))
  BY <1>1
<1>3. m \in Good => Tells(r.q, Good, Rel)
  <2>1. Len(r.q) \in 1..Len(r.q) /\ Len(r.q) + 1..Len(r.q) = {}
    BY <1>1
  <2> QED BY <2>1 DEF Tells
<1>4. ASSUME m \notin Rel, Tells(ch.q, Good, Rel)
      PROVE  Tells(r.q, Good, Rel) \/ (Silent(r.q, Rel) /\ r.lagged)
  <2> PICK k \in 1..Len(ch.q) : /\ ch.q[k] \in Good
                                /\ \A j \in k + 1..Len(ch.q) : ch.q[j] \notin Rel
    BY <1>4 DEF Tells
  <2>1. CASE k > o
    <3>1. k - o \in 1..Len(ch.q) - o /\ k - o + o = k /\ k - o \in 1..Len(r.q)
      BY <1>1, <2>1
    <3>2. r.q[k - o] \in Good
      BY <3>1
    <3>3. ASSUME NEW j \in k - o + 1..Len(r.q) PROVE r.q[j] \notin Rel
      <4>1. j \in 1..Len(r.q) /\ j + o \in k + 1..Len(ch.q) + 1
        BY <1>1, <2>1
      <4>2. CASE j = Len(r.q)
        BY <1>4, <4>2
      <4>3. CASE j # Len(r.q)
        <5>1. j \in 1..Len(ch.q) - o /\ j + o \in k + 1..Len(ch.q)
          BY <1>1, <1>2, <4>1, <4>3
        <5> QED BY <5>1
      <4> QED BY <4>2, <4>3
    <3> QED BY <3>1, <3>2, <3>3 DEF Tells
  <2>2. CASE ~(k > o)
    <3>1. k = 1 /\ o = 1
      BY <2>2
    <3>2. ASSUME NEW j \in 1..Len(r.q) PROVE r.q[j] \notin Rel
      <4>1. CASE j = Len(r.q)
        BY <1>4, <4>1
      <4>2. CASE j # Len(r.q)
        <5>1. j \in 1..Len(ch.q) - o /\ j + o \in k + 1..Len(ch.q)
          BY <1>1, <1>2, <3>1, <4>2
        <5> QED BY <5>1
      <4> QED BY <4>1, <4>2
    <3> QED BY <3>1, <3>2 DEF Silent
  <2> QED BY <2>1, <2>2
<1>5. ASSUME m \notin Rel, Silent(ch.q, Rel)
      PROVE  Silent(r.q, Rel) /\ (r.lagged \/ r.lagged = ch.lagged)
  <2>1. ASSUME NEW j \in 1..Len(r.q) PROVE r.q[j] \notin Rel
    BY <1>2, <1>5 DEF Silent
  <2> QED BY <2>1 DEF Silent
<1> QED BY <1>3, <1>4, <1>5 DEF r

\* Reading one message: a good one that leaves the queue leaves a silent queue.
LEMMA ReadingTells ==
    ASSUME NEW q \in Seq(Message), q # <<>>, NEW Good, NEW Rel
    PROVE  /\ Tells(q, Good, Rel) =>
                \/ Tells(Tail(q), Good, Rel)
                \/ Head(q) \in Good /\ Silent(Tail(q), Rel)
           /\ Silent(q, Rel) => Silent(Tail(q), Rel) /\ Head(q) \notin Rel
<1>1. /\ Len(q) \in Nat /\ Len(q) >= 1 /\ Len(Tail(q)) = Len(q) - 1
      /\ Head(q) = q[1]
      /\ \A k \in 1..Len(q) - 1 : Tail(q)[k] = q[k + 1]
  OBVIOUS
<1>2. ASSUME Tells(q, Good, Rel)
      PROVE  Tells(Tail(q), Good, Rel) \/ (Head(q) \in Good /\ Silent(Tail(q), Rel))
  <2> PICK k \in 1..Len(q) : q[k] \in Good /\ \A j \in k + 1..Len(q) : q[j] \notin Rel
    BY <1>2 DEF Tells
  <2>1. \A j \in 1..Len(Tail(q)) : j >= k => Tail(q)[j] \notin Rel
    <3> SUFFICES ASSUME NEW j \in 1..Len(Tail(q)), j >= k PROVE Tail(q)[j] \notin Rel
      OBVIOUS
    <3>1. j \in 1..Len(q) - 1 /\ j + 1 \in k + 1..Len(q)
      BY <1>1
    <3> QED BY <1>1, <3>1
  <2>2. CASE k = 1
    BY <1>1, <2>1, <2>2 DEF Silent
  <2>3. CASE k # 1
    <3>1. k - 1 \in 1..Len(q) - 1 /\ k - 1 + 1 = k /\ k - 1 \in 1..Len(Tail(q))
      BY <1>1, <2>3
    <3>2. Tail(q)[k - 1] \in Good
      BY <1>1, <3>1
    <3>3. \A j \in k - 1 + 1..Len(Tail(q)) : j \in 1..Len(Tail(q)) /\ j >= k
      BY <1>1
    <3> QED BY <2>1, <3>1, <3>2, <3>3 DEF Tells
  <2> QED BY <2>2, <2>3
<1>3. ASSUME Silent(q, Rel)
      PROVE  Silent(Tail(q), Rel) /\ Head(q) \notin Rel
  <2>1. \A j \in 1..Len(Tail(q)) : Tail(q)[j] = q[j + 1] /\ j + 1 \in 1..Len(q)
    BY <1>1
  <2>2. 1 \in 1..Len(q)
    BY <1>1
  <2> QED BY <1>1, <1>3, <2>1, <2>2 DEF Silent
<1> QED BY <1>2, <1>3

\* A broadcast tells every connected browser what it told before and what is new.
LEMMA BroadcastTells ==
    ASSUME BrainAssumption, WebTypeOK, NEW m \in Message, Send(m),
           NEW c \in Clients, web[c].pc # "off", NEW Good, NEW Rel, NEW shown
    PROVE  m \in Good \/ (m \notin Rel /\ Told(chan[c], web[c], Good, Rel, shown))
             => Told(chan'[c], web[c], Good, Rel, shown)
<1>1. chan'[c] = Deliver(chan[c], m)
  BY DEF Send
<1>2. chan[c] \in Receiver
  BY DEF WebTypeOK
<1>3. Deliver(chan[c], m) \in Receiver
  BY <1>2, Delivered
<1>4. chan'[c].lagged \in BOOLEAN /\ chan[c].lagged \in BOOLEAN
  BY <1>1, <1>2, <1>3 DEF Receiver
<1>5. /\ m \in Good => Tells(chan'[c].q, Good, Rel)
      /\ m \notin Rel /\ Tells(chan[c].q, Good, Rel) =>
           \/ Tells(chan'[c].q, Good, Rel)
           \/ Silent(chan'[c].q, Rel) /\ chan'[c].lagged
      /\ m \notin Rel /\ Silent(chan[c].q, Rel) =>
           /\ Silent(chan'[c].q, Rel)
           /\ chan'[c].lagged \/ chan'[c].lagged = chan[c].lagged
  <2> DEFINE ch == chan[c]
             r == chan'[c]
  <2>1. ch \in Receiver /\ r = Deliver(ch, m)
    BY <1>1, <1>2
  <2> HIDE DEF ch, r
  <2>2. /\ m \in Good => Tells(r.q, Good, Rel)
        /\ m \notin Rel /\ Tells(ch.q, Good, Rel) =>
             Tells(r.q, Good, Rel) \/ (Silent(r.q, Rel) /\ r.lagged)
        /\ m \notin Rel /\ Silent(ch.q, Rel) =>
             Silent(r.q, Rel) /\ (r.lagged \/ r.lagged = ch.lagged)
    BY <2>1, DeliveryTells
  <2> QED BY <2>2 DEF ch, r
<1> QED BY <1>4, <1>5 DEF Told

LEMMA BroadcastType ==
    ASSUME BrainAssumption, WebTypeOK, NEW m \in Message, Send(m)
    PROVE  chan' \in [Clients -> Receiver]
<1>1. \A c \in Clients : Deliver(chan[c], m) \in Receiver /\ chan[c] \in Receiver
  BY Delivered DEF WebTypeOK
<1> QED BY <1>1 DEF Send

---------------------------------------------------------------------------
(* The steps *)

\* A step that touches neither store, channel nor browsers, and owes no broadcast.
Aside ==
    /\ UNCHANGED <<storeVars, chan, web>>
    /\ ready => ready'
    /\ job' = job \/ (job.pc \notin {"send", "gone"} /\ job'.pc \notin {"send", "gone"})

LEMMA AsideSteps ==
    ASSUME CoreTypeOK, GapInv,
           \/ UNCHANGED vars \/ Server \/ Connect \/ Receive \/ GetRevision
           \/ Disconnect \/ GetRevisionFails
           \/ \E d \in diffs : FetchEdges(d) \/ FetchEdgesFails(d)
           \/ Enumerate \/ ApplyBegin \/ ApplyEnd
           \/ \E i \in crawl.todo : LoadRevisions(i) \/ LoadRevisionsFails(i)
           \/ \E s \in crawl.read : LoadEdges(s)
    PROVE  Aside
<1>1. CASE UNCHANGED vars
  BY <1>1 DEF vars, feedVars, webVars, Aside
<1>2. CASE Server
  <2>1. UNCHANGED <<storeVars, feedVars, ready, webVars>>
    BY <1>2 DEF Server, CreateRevision, DeleteItem, CreateEdge
  <2> QED BY <2>1 DEF feedVars, webVars, Aside
<1>3. CASE Connect \/ Disconnect
  BY <1>3 DEF Connect, Disconnect, webVars, Aside
<1>4. CASE Receive
  <2>1. /\ job.pc = "recv" /\ UNCHANGED <<storeVars, chan, web, ready>>
        /\ job' \in {job'}
    BY <1>4 DEF Receive, webVars, Idle
  <2>2. job'.pc \in {"recv", "remove", "get"}
    <3> DEFINE ev == log[stream.at + 1]
    <3>1. job' = CASE ev.t = "deleted" -> [pc |-> "remove", item |-> ev.item]
                   [] ev.t = "created" /\ ev.item \in Memory ->
                        [pc |-> "get", item |-> ev.item, n |-> ev.n, at |-> stream.at + 1]
                   [] OTHER -> Idle
      BY <1>4 DEF Receive
    <3>2. \/ ev.t = "deleted" /\ ev.t # "created"
          \/ ev.t = "created" /\ ev.t # "deleted"
          \/ ev.t \notin {"created", "deleted"}
      OBVIOUS
    <3> HIDE DEF ev
    <3> QED BY <3>1, <3>2 DEF Idle
  <2> QED BY <2>1, <2>2 DEF Aside
<1>5. CASE GetRevision \/ GetRevisionFails
  BY <1>5 DEF GetRevision, GetRevisionFails, Idle, webVars, Aside
<1>6. CASE \E d \in diffs : FetchEdges(d) \/ FetchEdgesFails(d)
  <2> PICK d \in diffs : FetchEdges(d) \/ FetchEdgesFails(d)
    BY <1>6
  <2>1. UNCHANGED <<storeVars, chan, web, ready>>
    BY DEF FetchEdges, FetchEdgesFails, webVars
  <2>2. job' = job \/ (d.when = "now" /\ job' = Idle)
    BY DEF FetchEdges, FetchEdgesFails, Finish
  <2>3. d.when = "now" => job.pc = "diff"
    BY DEF GapInv, OneCheckNow
  <2> QED BY <2>1, <2>2, <2>3 DEF Aside, Idle
<1>7. CASE \/ Enumerate \/ ApplyBegin \/ ApplyEnd
           \/ \E i \in crawl.todo : LoadRevisions(i) \/ LoadRevisionsFails(i)
           \/ \E s \in crawl.read : LoadEdges(s)
  <2>1. UNCHANGED <<storeVars, feedVars, webVars>> /\ (ready' = ready \/ ready' = TRUE)
    BY <1>7 DEF Enumerate, ApplyBegin, ApplyEnd, LoadRevisions, LoadRevisionsFails, LoadEdges
  <2> QED BY <2>1 DEF feedVars, webVars, Aside
<1> QED BY <1>1, <1>2, <1>3, <1>4, <1>5, <1>6, <1>7

LEMMA AsideKeeps ==
    ASSUME WebTypeOK, WatchInv, Aside
    PROVE  WebTypeOK' /\ WatchInv'
<1>1. /\ UNCHANGED <<nodes, edge_set, by_item, chan, web>>
      /\ job' = job \/ (job.pc \notin {"send", "gone"} /\ job'.pc \notin {"send", "gone"})
      /\ ready => ready'
  BY DEF Aside, storeVars
<1>2. WebTypeOK'
  BY <1>1 DEF WebTypeOK, Live
<1>3. ASSUME NEW c \in Clients, Watching(c)'
      PROVE  ready' /\ OwedIsCurrent' /\ NodesTold(c)' /\ EdgesTold(c)'
  <2>1. Watching(c) /\ ready /\ OwedIsCurrent /\ NodesTold(c) /\ EdgesTold(c)
    BY <1>1, <1>3 DEF Watching, WatchInv
  <2>2. OwedIsCurrent'
    BY <1>1, <2>1 DEF OwedIsCurrent
  <2>3. EdgesTold(c)'
    BY <1>1, <2>1 DEF EdgesTold, EdgeMsgs, CutMsgs, Message, Store!Node, Store!Edge
  <2>4. NodesTold(c)'
    <3> SUFFICES ASSUME NEW id \in Nat, ~OwedNode(id)'
                 PROVE  Told(chan[c], web[c], RightMsgs(id), NodeMsgs(id), ShowsNode(web[c], id))'
      BY DEF NodesTold
    <3>1. ~OwedNode(id)
      BY <1>1 DEF OwedNode
    <3>2. Told(chan[c], web[c], RightMsgs(id), NodeMsgs(id), ShowsNode(web[c], id))
      BY <2>1, <3>1 DEF NodesTold
    <3>3. /\ RightMsgs(id)' = RightMsgs(id) /\ NodeMsgs(id)' = NodeMsgs(id)
          /\ ShowsNode(web[c], id)' = ShowsNode(web[c], id)
      BY <1>1 DEF RightMsgs, NodeMsgs, ShowsNode, Message, Store!LiveIds, Store!Ids
    <3> QED BY <1>1, <3>2, <3>3 DEF Told
  <2> QED BY <1>1, <2>1, <2>2, <2>3, <2>4
<1> QED BY <1>2, <1>3 DEF WatchInv

\* An upsert changes the node of its item and no other.
LEMMA UpsertElsewhere ==
    ASSUME Store!StoreInv, NEW seed \in Store!Seed, Store!Upsert(seed),
           NEW id \in Nat, id # by_item'[seed.item]
    PROVE  /\ id \in Store!LiveIds' <=> id \in Store!LiveIds
           /\ id \in Store!LiveIds => nodes'[id] = nodes[id]
<1> DEFINE x == by_item[seed.item]
<1>1. /\ nodes \in Seq(Store!Node) /\ Len(nodes) \in Nat
      /\ by_item \in [Items -> 0..Len(nodes)]
      /\ seed.item \in Items
  BY DEF Store!StoreInv, Store!TypeOK, Store!Seed
<1>2. CASE x = Store!NoId
  <2> PICK node : /\ nodes' = Append(nodes, node)
                  /\ by_item' = [by_item EXCEPT ![seed.item] = Len(nodes')]
    BY <1>2 DEF Store!Upsert
  <2>1. /\ Len(nodes') = Len(nodes) + 1
        /\ \A k \in 1..Len(nodes) : nodes'[k] = nodes[k]
    BY <1>1
  <2>2. id # Len(nodes) + 1
    BY <1>1, <2>1
  <2>3. id \in 1..Len(nodes') <=> id \in 1..Len(nodes)
    BY <1>1, <2>1, <2>2
  <2> QED BY <2>1, <2>3 DEF Store!LiveIds, Store!Ids
<1>3. CASE x # Store!NoId
  <2>1. /\ nodes' = [nodes EXCEPT ![x] = Store!Refreshed(nodes[x], seed)]
        /\ by_item' = by_item
    BY <1>3 DEF Store!Upsert
  <2>2. Len(nodes') = Len(nodes) /\ DOMAIN nodes = 1..Len(nodes)
    BY <1>1, <2>1
  <2>3. \A k \in 1..Len(nodes) : k # x => nodes'[k] = nodes[k]
    BY <2>1, <2>2
  <2> QED BY <2>1, <2>2, <2>3 DEF Store!LiveIds, Store!Ids
<1> QED BY <1>2, <1>3

\* A removal changes the node of its item, which is dead then, and no other.
LEMMA RemovalElsewhere ==
    ASSUME Store!StoreInv, NEW i \in Items, Store!RemoveItem(i)
    PROVE  /\ by_item[i] \in Nat /\ by_item[i] \notin Store!LiveIds'
           /\ nodes'[by_item[i]].dead
           /\ \A id \in Nat : id # by_item[i] =>
                /\ id \in Store!LiveIds' <=> id \in Store!LiveIds
                /\ id \in Store!LiveIds => nodes'[id] = nodes[id]
<1>1. /\ nodes \in Seq(Store!Node) /\ Len(nodes) \in Nat
      /\ by_item[i] \in 1..Len(nodes)
      /\ nodes' = [nodes EXCEPT ![by_item[i]].dead = TRUE]
  BY DEF Store!StoreInv, Store!TypeOK, Store!RemoveItem, Store!CanRemove, Store!NoId
<1>2. Len(nodes') = Len(nodes) /\ DOMAIN nodes = 1..Len(nodes)
  BY <1>1
<1>3. nodes'[by_item[i]].dead = TRUE
  <2>1. nodes[by_item[i]] \in Store!Node
    BY <1>1
  <2>2. nodes'[by_item[i]] = [nodes[by_item[i]] EXCEPT !.dead = TRUE]
    BY <1>1, <1>2
  <2> QED BY <2>1, <2>2 DEF Store!Node
<1>4. \A k \in 1..Len(nodes) : k # by_item[i] => nodes'[k] = nodes[k]
  BY <1>1, <1>2
<1> QED BY <1>1, <1>2, <1>3, <1>4 DEF Store!LiveIds, Store!Ids

\* The feed's upsert: the node it changed is owed until it is sent.
LEMMA UpsertKeepsWatch ==
    ASSUME BrainAssumption, CoreTypeOK, Store!StoreInv, Store!StoreInv',
           WebTypeOK, WatchInv, UpsertNode
    PROVE  WebTypeOK' /\ WatchInv'
<1> PICK i, x : i = job.seed.item /\ x = by_item'[i]
  OBVIOUS
<1>1. /\ UNCHANGED <<chan, web, ready, edge_set>>
      /\ job.pc = "upsert" /\ job.seed \in Store!Seed /\ Store!Upsert(job.seed)
      /\ job' = [pc |-> "send", at |-> job.at, n |-> job.n, item |-> i, node |-> nodes'[x]]
  BY DEF UpsertNode, CoreTypeOK, FeedTypeOK, webVars, Store!Upsert
<1>2. i \in Items /\ Live(i)'
  <2>1. i \in Items
    BY <1>1 DEF Store!Seed
  <2> QED BY <1>1, <2>1, UpsertLives
<1>3. job'.pc = "send" /\ job'.item = i /\ job'.node = nodes'[x]
  BY <1>1
<1>4. nodes'[x] \in Store!Node
  <2>1. nodes' \in Seq(Store!Node) /\ by_item' \in [Items -> 0..Len(nodes')]
    BY DEF Store!StoreInv, Store!TypeOK, Store!Node
  <2>2. x \in 1..Len(nodes')
    BY <1>2, <2>1 DEF Live, Store!NoId
  <2> QED BY <2>1, <2>2
<1>5. WebTypeOK'
  <2>1. Live(job.item)'
    BY <1>2, <1>3 DEF Live
  <2>2. job'.node \in Store!Node
    BY <1>3, <1>4
  <2> QED BY <1>1, <1>3, <2>1, <2>2 DEF WebTypeOK, Store!Node
<1>6. ASSUME NEW c \in Clients, Watching(c)'
      PROVE  ready' /\ OwedIsCurrent' /\ NodesTold(c)' /\ EdgesTold(c)'
  <2>1. Watching(c) /\ ready /\ NodesTold(c) /\ EdgesTold(c)
    BY <1>1, <1>6 DEF Watching, WatchInv
  <2>2. OwedIsCurrent'
    BY <1>3 DEF OwedIsCurrent
  <2>3. EdgesTold(c)'
    BY <1>1, <2>1 DEF EdgesTold, EdgeMsgs, CutMsgs, Message, Store!Node, Store!Edge
  <2>4. NodesTold(c)'
    <3> SUFFICES ASSUME NEW id \in Nat, ~OwedNode(id)'
                 PROVE  Told(chan[c], web[c], RightMsgs(id), NodeMsgs(id), ShowsNode(web[c], id))'
      BY DEF NodesTold
    <3>1. id # x
      BY <1>3 DEF OwedNode
    <3>2. ~OwedNode(id)
      BY <1>1 DEF OwedNode
    <3>3. Told(chan[c], web[c], RightMsgs(id), NodeMsgs(id), ShowsNode(web[c], id))
      BY <2>1, <3>2 DEF NodesTold
    <3>4. /\ id \in Store!LiveIds' <=> id \in Store!LiveIds
          /\ id \in Store!LiveIds => nodes'[id] = nodes[id]
      BY <1>1, <3>1, UpsertElsewhere
    <3>5. /\ RightMsgs(id)' = RightMsgs(id) /\ NodeMsgs(id)' = NodeMsgs(id)
          /\ ShowsNode(web[c], id)' = ShowsNode(web[c], id)
      BY <1>1, <3>4 DEF RightMsgs, NodeMsgs, ShowsNode, Message
    <3> QED BY <1>1, <3>3, <3>5 DEF Told
  <2> QED BY <1>1, <2>1, <2>2, <2>3, <2>4
<1> QED BY <1>5, <1>6 DEF WatchInv

\* The broadcast of a changed node is right, and after it nothing is owed.
LEMMA SendNodeKeepsWatch ==
    ASSUME BrainAssumption, CoreTypeOK, Store!StoreInv, WebTypeOK, WatchInv, SendNode
    PROVE  WebTypeOK' /\ WatchInv'
<1> PICK x, m : x = by_item[job.item] /\ m = [t |-> "node", id |-> x, node |-> job.node]
  OBVIOUS
<1>1. /\ UNCHANGED <<nodes, edge_set, ready, web>>
      /\ job.pc = "send" /\ job'.pc = "diff" /\ job.item \in Items
      /\ Send(m)
  BY DEF SendNode, storeVars, CoreTypeOK, FeedTypeOK
<1>2. x \in Nat /\ x \in Store!LiveIds
  BY <1>1 DEF WebTypeOK, Live, Store!StoreInv, Store!TypeOK, Store!LiveIds, Store!Ids, Store!NoId
<1>3. m \in Message /\ m.t = "node" /\ m.id = x /\ m.node = job.node
  BY <1>1, <1>2 DEF Message, WebTypeOK
<1>4. WebTypeOK'
  BY <1>1, <1>3, BroadcastType DEF WebTypeOK
<1>5. ASSUME NEW c \in Clients, Watching(c)'
      PROVE  ready' /\ OwedIsCurrent' /\ NodesTold(c)' /\ EdgesTold(c)'
  <2>1. /\ Watching(c) /\ ready /\ NodesTold(c) /\ EdgesTold(c)
        /\ job.node = nodes[x] /\ web[c].pc # "off"
    BY <1>1, <1>5 DEF Watching, WatchInv, OwedIsCurrent
  <2>2. OwedIsCurrent'
    BY <1>1 DEF OwedIsCurrent
  <2>3. EdgesTold(c)'
    <3> SUFFICES ASSUME NEW e \in edge_set
                 PROVE  Told(chan'[c], web[c], EdgeMsgs(e), CutMsgs(e), e \in web[c].edges)
      BY <1>1 DEF EdgesTold, EdgeMsgs, CutMsgs, Message, Store!Node, Store!Edge
    <3>1. m \notin CutMsgs(e)
      BY <1>3 DEF CutMsgs
    <3> QED BY <1>1, <1>3, <2>1, <3>1, BroadcastTells DEF EdgesTold
  <2>4. NodesTold(c)'
    <3> SUFFICES ASSUME NEW id \in Nat
                 PROVE  Told(chan'[c], web[c], RightMsgs(id), NodeMsgs(id), ShowsNode(web[c], id))
      <4>1. \A id \in Nat : /\ RightMsgs(id)' = RightMsgs(id) /\ NodeMsgs(id)' = NodeMsgs(id)
                            /\ ShowsNode(web[c], id)' = ShowsNode(web[c], id)
        BY <1>1 DEF RightMsgs, NodeMsgs, ShowsNode, Message, Store!LiveIds, Store!Ids
      <4> QED BY <1>1, <4>1 DEF NodesTold, Told
    <3>1. CASE id = x
      <4>1. m \in RightMsgs(id)
        BY <1>2, <1>3, <2>1, <3>1 DEF RightMsgs, NodeMsgs
      <4> QED BY <1>1, <1>3, <2>1, <4>1, BroadcastTells
    <3>2. CASE id # x
      <4>1. m \notin NodeMsgs(id) /\ ~OwedNode(id)
        BY <1>1, <1>3, <3>2 DEF NodeMsgs, OwedNode
      <4> QED BY <1>1, <1>3, <2>1, <4>1, BroadcastTells DEF NodesTold
    <3> QED BY <3>1, <3>2
  <2> QED BY <1>1, <2>1, <2>2, <2>3, <2>4
<1> QED BY <1>4, <1>5 DEF WatchInv

\* A removal: the tombstone is owed until it is sent, and its edges are gone.
LEMMA RemoveKeepsWatch ==
    ASSUME BrainAssumption, CoreTypeOK, Store!StoreInv, WebTypeOK, WatchInv, RemoveNode
    PROVE  WebTypeOK' /\ WatchInv'
<1> PICK i, x : i = job.item /\ x = by_item[i]
  OBVIOUS
<1>1. /\ UNCHANGED <<chan, web, ready>>
      /\ job.pc = "remove" /\ i \in Items
      /\ \/ UNCHANGED storeVars /\ job' = Idle
         \/ Store!RemoveItem(i) /\ job' = [pc |-> "gone", id |-> x]
  BY DEF RemoveNode, webVars, CoreTypeOK, FeedTypeOK
<1>2. CASE UNCHANGED storeVars /\ job' = Idle
  BY <1>1, <1>2, AsideKeeps DEF Aside, Idle
<1>3. CASE Store!RemoveItem(i) /\ job' = [pc |-> "gone", id |-> x]
  <2>1. /\ x \in Nat /\ nodes'[x].dead
        /\ \A id \in Nat : id # x =>
             /\ id \in Store!LiveIds' <=> id \in Store!LiveIds
             /\ id \in Store!LiveIds => nodes'[id] = nodes[id]
        /\ edge_set' \subseteq edge_set
    <3>1. edge_set' \subseteq edge_set
      BY <1>3 DEF Store!RemoveItem
    <3>2. /\ by_item[i] \in Nat /\ nodes'[by_item[i]].dead
          /\ \A id \in Nat : id # by_item[i] =>
               /\ id \in Store!LiveIds' <=> id \in Store!LiveIds
               /\ id \in Store!LiveIds => nodes'[id] = nodes[id]
      BY <1>1, <1>3, RemovalElsewhere
    <3>3. x = by_item[i]
      OBVIOUS
    <3> QED BY <3>1, <3>2, <3>3
  <2>2. job'.pc = "gone" /\ job'.id = x
    BY <1>3
  <2>3. WebTypeOK'
    BY <1>1, <2>1, <2>2 DEF WebTypeOK
  <2>4. ASSUME NEW c \in Clients, Watching(c)'
        PROVE  ready' /\ OwedIsCurrent' /\ NodesTold(c)' /\ EdgesTold(c)'
    <3>1. Watching(c) /\ ready /\ NodesTold(c) /\ EdgesTold(c)
      BY <1>1, <2>4 DEF Watching, WatchInv
    <3>2. OwedIsCurrent'
      BY <2>1, <2>2 DEF OwedIsCurrent
    <3>3. EdgesTold(c)'
      BY <1>1, <2>1, <3>1 DEF EdgesTold, EdgeMsgs, CutMsgs, Message, Store!Node, Store!Edge
    <3>4. NodesTold(c)'
      <4> SUFFICES ASSUME NEW id \in Nat, ~OwedNode(id)'
                   PROVE  Told(chan[c], web[c], RightMsgs(id), NodeMsgs(id), ShowsNode(web[c], id))'
        BY DEF NodesTold
      <4>1. id # x /\ ~OwedNode(id)
        BY <1>1, <2>2 DEF OwedNode
      <4>2. Told(chan[c], web[c], RightMsgs(id), NodeMsgs(id), ShowsNode(web[c], id))
        BY <3>1, <4>1 DEF NodesTold
      <4>3. /\ RightMsgs(id)' = RightMsgs(id) /\ NodeMsgs(id)' = NodeMsgs(id)
            /\ ShowsNode(web[c], id)' = ShowsNode(web[c], id)
        BY <1>1, <2>1, <4>1 DEF RightMsgs, NodeMsgs, ShowsNode, Message
      <4> QED BY <1>1, <4>2, <4>3 DEF Told
    <3> QED BY <1>1, <3>1, <3>2, <3>3, <3>4
  <2> QED BY <2>3, <2>4 DEF WatchInv
<1> QED BY <1>1, <1>2, <1>3

\* The broadcast of a tombstone is right, and cuts no edge of the store.
LEMMA SendRemovedKeepsWatch ==
    ASSUME BrainAssumption, CoreTypeOK, Store!StoreInv, WebTypeOK, WatchInv, SendRemoved
    PROVE  WebTypeOK' /\ WatchInv'
<1> PICK x, m : x = job.id /\ m = [t |-> "removed", id |-> x]
  OBVIOUS
<1>1. /\ UNCHANGED <<nodes, edge_set, ready, web>>
      /\ job.pc = "gone" /\ job'.pc = "recv"
      /\ Send(m)
  BY DEF SendRemoved, storeVars, Idle
<1>2. m \in Message /\ m.t = "removed" /\ m.id = x
  BY <1>1 DEF Message, WebTypeOK
<1>3. WebTypeOK'
  BY <1>1, <1>2, BroadcastType DEF WebTypeOK
<1>4. ASSUME NEW c \in Clients, Watching(c)'
      PROVE  ready' /\ OwedIsCurrent' /\ NodesTold(c)' /\ EdgesTold(c)'
  <2>1. /\ Watching(c) /\ ready /\ NodesTold(c) /\ EdgesTold(c)
        /\ nodes[x].dead /\ web[c].pc # "off"
    BY <1>1, <1>4 DEF Watching, WatchInv, OwedIsCurrent
  <2>2. x \notin Store!LiveIds
    BY <2>1 DEF Store!LiveIds
  <2>3. OwedIsCurrent'
    BY <1>1 DEF OwedIsCurrent
  <2>4. EdgesTold(c)'
    <3> SUFFICES ASSUME NEW e \in edge_set
                 PROVE  Told(chan'[c], web[c], EdgeMsgs(e), CutMsgs(e), e \in web[c].edges)
      BY <1>1 DEF EdgesTold, EdgeMsgs, CutMsgs, Message, Store!Node, Store!Edge
    <3>1. m \notin CutMsgs(e)
      BY <1>2, <2>2 DEF CutMsgs, Store!Touches, Store!StoreInv, Store!EdgesJoinLiveNodes
    <3> QED BY <1>1, <1>2, <2>1, <3>1, BroadcastTells DEF EdgesTold
  <2>5. NodesTold(c)'
    <3> SUFFICES ASSUME NEW id \in Nat
                 PROVE  Told(chan'[c], web[c], RightMsgs(id), NodeMsgs(id), ShowsNode(web[c], id))
      <4>1. \A id \in Nat : /\ RightMsgs(id)' = RightMsgs(id) /\ NodeMsgs(id)' = NodeMsgs(id)
                            /\ ShowsNode(web[c], id)' = ShowsNode(web[c], id)
        BY <1>1 DEF RightMsgs, NodeMsgs, ShowsNode, Message, Store!LiveIds, Store!Ids
      <4> QED BY <1>1, <4>1 DEF NodesTold, Told
    <3>1. CASE id = x
      <4>1. m \in RightMsgs(id)
        BY <1>2, <2>2, <3>1 DEF RightMsgs, NodeMsgs
      <4> QED BY <1>1, <1>2, <2>1, <4>1, BroadcastTells
    <3>2. CASE id # x
      <4>1. m \notin NodeMsgs(id) /\ ~OwedNode(id)
        BY <1>1, <1>2, <3>2 DEF NodeMsgs, OwedNode
      <4> QED BY <1>1, <1>2, <2>1, <4>1, BroadcastTells DEF NodesTold
    <3> QED BY <3>1, <3>2
  <2> QED BY <1>1, <2>1, <2>3, <2>4, <2>5
<1> QED BY <1>3, <1>4 DEF WatchInv

\* A stored edge is broadcast in the same step.
LEMMA EdgeKeepsWatch ==
    ASSUME BrainAssumption, CoreTypeOK, Store!StoreInv, GapInv, WebTypeOK, WatchInv,
           NEW d \in diffs, NEW y \in d.raw, StoreEdge(d, y)
    PROVE  WebTypeOK' /\ WatchInv'
<1> PICK e0, m : e0 = Store!EdgeBetween(y[1], y[2], y[3]) /\ m = [t |-> "edge", edge |-> e0]
  OBVIOUS
<1>1. /\ UNCHANGED <<ready, web>>
      /\ \/ UNCHANGED <<storeVars, chan>>
         \/ Store!AddEdge(y[1], y[2], y[3]) /\ Send(m)
      /\ job' = job \/ (d.when = "now" /\ job' = Idle)
  BY DEF StoreEdge, Finish
<1>2. job' = job \/ (job.pc = "diff" /\ job' = Idle)
  BY <1>1 DEF GapInv, OneCheckNow
<1>3. CASE UNCHANGED <<storeVars, chan>>
  BY <1>1, <1>2, <1>3, AsideKeeps DEF Aside, Idle
<1>4. CASE Store!AddEdge(y[1], y[2], y[3]) /\ Send(m)
  <2>1. UNCHANGED <<nodes, by_item>> /\ edge_set' = edge_set \cup {e0}
    BY <1>4 DEF Store!AddEdge
  <2>2. e0 \in Store!Edge
    <3>1. y \in RawEdge
      BY DEF CoreTypeOK, FeedTypeOK, EdgeCheck
    <3>2. y[1] \in Items /\ y[2] \in Items /\ y[3] \in Types
      BY <3>1 DEF RawEdge
    <3>3. by_item[y[1]] \in Nat /\ by_item[y[2]] \in Nat
      BY <3>2 DEF Store!StoreInv, Store!TypeOK
    <3>4. e0 = [src |-> by_item[y[1]], dst |-> by_item[y[2]], ty |-> y[3]]
      BY DEF Store!EdgeBetween
    <3> QED BY <3>2, <3>3, <3>4 DEF Store!Edge
  <2>3. m \in Message /\ m.t = "edge" /\ m.edge = e0
    BY <2>2 DEF Message
  <2>4. WebTypeOK'
    <3>1. chan' \in [Clients -> Receiver]
      BY <1>4, <2>3, BroadcastType
    <3> QED BY <1>1, <1>2, <2>1, <3>1 DEF WebTypeOK, Idle, Live
  <2>5. ASSUME NEW c \in Clients, Watching(c)'
        PROVE  ready' /\ OwedIsCurrent' /\ NodesTold(c)' /\ EdgesTold(c)'
    <3>1. /\ Watching(c) /\ ready /\ OwedIsCurrent /\ NodesTold(c) /\ EdgesTold(c)
          /\ web[c].pc # "off"
      BY <1>1, <2>5 DEF Watching, WatchInv
    <3>2. OwedIsCurrent'
      BY <1>2, <2>1, <3>1 DEF OwedIsCurrent, Idle
    <3>3. EdgesTold(c)'
      <4> SUFFICES ASSUME NEW e \in edge_set \cup {e0}
                   PROVE  Told(chan'[c], web[c], EdgeMsgs(e), CutMsgs(e), e \in web[c].edges)
        BY <1>1, <2>1 DEF EdgesTold, EdgeMsgs, CutMsgs, Message, Store!Node, Store!Edge
      <4>1. m \notin CutMsgs(e)
        BY <2>3 DEF CutMsgs
      <4>2. CASE e = e0
        <5>1. m \in EdgeMsgs(e)
          BY <2>3, <4>2 DEF EdgeMsgs
        <5> QED BY <1>4, <2>3, <3>1, <5>1, BroadcastTells
      <4>3. CASE e \in edge_set
        BY <1>4, <2>3, <3>1, <4>1, <4>3, BroadcastTells DEF EdgesTold
      <4> QED BY <4>2, <4>3
    <3>4. NodesTold(c)'
      <4> SUFFICES ASSUME NEW id \in Nat, ~OwedNode(id)'
                   PROVE  Told(chan'[c], web[c], RightMsgs(id), NodeMsgs(id), ShowsNode(web[c], id))
        <5>1. \A id \in Nat : /\ RightMsgs(id)' = RightMsgs(id) /\ NodeMsgs(id)' = NodeMsgs(id)
                              /\ ShowsNode(web[c], id)' = ShowsNode(web[c], id)
          BY <1>1, <2>1 DEF RightMsgs, NodeMsgs, ShowsNode, Message, Store!LiveIds, Store!Ids
        <5> QED BY <1>1, <5>1 DEF NodesTold, Told
      <4>1. m \notin NodeMsgs(id) /\ ~OwedNode(id)
        BY <1>2, <2>1, <2>3 DEF NodeMsgs, OwedNode
      <4> QED BY <1>4, <2>3, <3>1, <4>1, BroadcastTells DEF NodesTold
    <3> QED BY <1>1, <3>1, <3>2, <3>3, <3>4
  <2> QED BY <2>4, <2>5 DEF WatchInv
<1> QED BY <1>1, <1>3, <1>4

\* While the crawl applies what it read, no browser counts as late.
LEMMA ApplyKeepsWatch ==
    ASSUME BrainAssumption, CoreTypeOK, Store!StoreInv, GapInv, WebTypeOK, WatchInv,
           (\E s \in crawl.seeds : ApplyNode(s)) \/ (\E y \in crawl.raw : ApplyEdge(y))
    PROVE  WebTypeOK' /\ WatchInv'
<1>1. UNCHANGED <<job, chan, web, ready>> /\ crawl.pc = "apply"
  BY DEF ApplyNode, ApplyEdge, feedVars, webVars
<1>2. \A i \in Items : Live(i) => Live(i)'
  <2>1. CASE \E s \in crawl.seeds : ApplyNode(s)
    <3> PICK s \in crawl.seeds : ApplyNode(s)
      BY <2>1
    <3>1. s \in Store!Seed /\ Store!Upsert(s)
      BY DEF ApplyNode, CoreTypeOK, CrawlTypeOK
    <3> QED BY <3>1, UpsertLives
  <2>2. CASE \E y \in crawl.raw : ApplyEdge(y)
    BY <2>2 DEF ApplyEdge, storeVars, Store!AddEdge, Live
  <2> QED BY <2>1, <2>2
<1>3. WebTypeOK'
  <2>1. job.pc = "send" => Live(job.item)'
    <3>1. job.pc = "send" => job.item \in Items /\ Live(job.item)
      BY DEF CoreTypeOK, FeedTypeOK, WebTypeOK
    <3> QED BY <1>1, <1>2, <3>1 DEF Live
  <2> QED BY <1>1, <2>1 DEF WebTypeOK
<1>4. ~ready
  BY <1>1 DEF GapInv, CrawlIsPlaced
<1>5. \A c \in Clients : ~Watching(c)'
  BY <1>1, <1>4 DEF WatchInv, Watching
<1> QED BY <1>3, <1>5 DEF WatchInv

---------------------------------------------------------------------------
(* The sockets *)

\* A snapshot is a browser's state.
LEMMA SnapshotType ==
    ASSUME Store!StoreInv
    PROVE  LiveNodes \in Shown /\ DOMAIN edges \subseteq Store!Edge
<1>1. /\ nodes \in Seq(Store!Node) /\ Len(nodes) \in Nat
      /\ DOMAIN edges \subseteq Store!Edge
  BY DEF Store!StoreInv, Store!TypeOK
<1>2. Store!LiveIds \subseteq Nat /\ \A id \in Store!LiveIds : nodes[id] \in Store!Node
  BY <1>1 DEF Store!LiveIds, Store!Ids
<1>3. LiveNodes \in [Store!LiveIds -> Store!Node]
  BY <1>2 DEF LiveNodes
<1> QED BY <1>1, <1>2, <1>3 DEF Shown

\* A browser that shows the store's snapshot shows every node and edge as it is.
LEMMA SnapshotShows ==
    ASSUME Store!StoreInv, NEW w, w.nodes = LiveNodes, w.edges = DOMAIN edges
    PROVE  /\ \A id \in Nat : ShowsNode(w, id)
           /\ \A e \in edge_set : e \in w.edges
<1>1. DOMAIN LiveNodes = Store!LiveIds /\ \A id \in Store!LiveIds : LiveNodes[id] = nodes[id]
  BY DEF LiveNodes
<1>2. DOMAIN edges = edge_set
  BY DEF Store!StoreInv, Store!EdgesAgree
<1> QED BY <1>1, <1>2 DEF ShowsNode

\* A socket's own step disturbs no other browser, and its own need not be told more
\* than its new state shows.
LEMMA SocketStep ==
    ASSUME WebTypeOK, WatchInv, NEW c \in Clients, NEW r \in Receiver, NEW w \in Browser,
           UNCHANGED <<nodes, edges, edge_set, by_item, job, ready>>,
           chan' = [chan EXCEPT ![c] = r], web' = [web EXCEPT ![c] = w],
           w.pc # "off" /\ w.late =>
             /\ ready /\ OwedIsCurrent
             /\ \A id \in Nat : \/ OwedNode(id)
                                \/ Told(r, w, RightMsgs(id), NodeMsgs(id), ShowsNode(w, id))
             /\ \A e \in edge_set : Told(r, w, EdgeMsgs(e), CutMsgs(e), e \in w.edges)
    PROVE  WebTypeOK' /\ WatchInv'
<1>1. /\ chan' \in [Clients -> Receiver] /\ web' \in [Clients -> Browser]
      /\ chan'[c] = r /\ web'[c] = w
      /\ \A b \in Clients : b # c => chan'[b] = chan[b] /\ web'[b] = web[b]
  BY DEF WebTypeOK
<1>2. WebTypeOK'
  BY <1>1 DEF WebTypeOK, Live
<1>3. \A id \in Nat : /\ RightMsgs(id)' = RightMsgs(id) /\ NodeMsgs(id)' = NodeMsgs(id)
                      /\ OwedNode(id)' <=> OwedNode(id)
  BY DEF RightMsgs, NodeMsgs, Message, Store!LiveIds, Store!Ids, OwedNode
<1>4. \A e \in edge_set : EdgeMsgs(e)' = EdgeMsgs(e) /\ CutMsgs(e)' = CutMsgs(e)
  BY DEF EdgeMsgs, CutMsgs, Message, Store!Node, Store!Edge
<1>5. ASSUME NEW b \in Clients, Watching(b)'
      PROVE  ready' /\ OwedIsCurrent' /\ NodesTold(b)' /\ EdgesTold(b)'
  <2>1. OwedIsCurrent' <=> OwedIsCurrent
    BY DEF OwedIsCurrent
  <2>2. CASE b = c
    <3>1. w.pc # "off" /\ w.late
      BY <1>1, <1>5, <2>2 DEF Watching
    <3>2. EdgesTold(b)'
      BY <1>1, <1>4, <2>2, <3>1 DEF EdgesTold
    <3>3. NodesTold(b)'
      <4>1. \A id \in Nat : ShowsNode(web[b], id)' = ShowsNode(w, id)
        BY <1>1, <2>2 DEF ShowsNode, Store!LiveIds, Store!Ids
      <4> QED BY <1>1, <1>3, <2>2, <3>1, <4>1 DEF NodesTold
    <3> QED BY <2>1, <3>1, <3>2, <3>3
  <2>3. CASE b # c
    <3>1. ready /\ OwedIsCurrent /\ NodesTold(b) /\ EdgesTold(b)
      BY <1>1, <1>5, <2>3 DEF Watching, WatchInv
    <3>2. EdgesTold(b)'
      BY <1>1, <1>4, <2>3, <3>1 DEF EdgesTold
    <3>3. NodesTold(b)'
      <4>1. \A id \in Nat : ShowsNode(web[b], id)' = ShowsNode(web[b], id)
        BY <1>1, <2>3 DEF ShowsNode, Store!LiveIds, Store!Ids
      <4> QED BY <1>1, <1>3, <2>3, <3>1, <4>1 DEF NodesTold
    <3> QED BY <2>1, <3>1, <3>2, <3>3
  <2> QED BY <2>2, <2>3
<1> QED BY <1>2, <1>5 DEF WatchInv

\* Joining: nothing is queued yet, and the snapshot is still to come.
LEMMA JoinKeepsWatch ==
    ASSUME CoreTypeOK, WebTypeOK, WatchInv, NEW c \in Clients, Join(c)
    PROVE  WebTypeOK' /\ WatchInv'
<1> DEFINE w == [web[c] EXCEPT !.pc = IF ready THEN "joining" ELSE "open",
                               !.sent = FALSE, !.late = ready /\ OwedIsCurrent]
<1>1. /\ UNCHANGED <<nodes, edges, edge_set, by_item, job, ready>>
      /\ chan' = [chan EXCEPT ![c] = EmptyChan]
  BY DEF Join, storeVars, feedVars
<1>2. web[c] \in Browser /\ web \in [Clients -> Browser]
  BY DEF WebTypeOK
<1>3. web' = [web EXCEPT ![c] = w]
  BY <1>2 DEF Join, Browser
<1>4. EmptyChan \in Receiver /\ EmptyChan.q = <<>>
  BY DEF EmptyChan, Receiver
<1>5. /\ w \in Browser
      /\ w.pc = IF ready THEN "joining" ELSE "open"
      /\ w.late = (ready /\ OwedIsCurrent)
  BY <1>2 DEF Browser
<1> HIDE DEF w
<1>6. ASSUME NEW Good, NEW Rel, NEW shown, w.late
      PROVE  Told(EmptyChan, w, Good, Rel, shown)
  <2>1. w.pc = "joining"
    BY <1>5, <1>6
  <2>2. Silent(<<>>, Rel)
    BY DEF Silent
  <2> QED BY <1>4, <2>1, <2>2 DEF Told
<1>7. w.pc # "off" /\ w.late =>
        /\ ready /\ OwedIsCurrent
        /\ \A id \in Nat : \/ OwedNode(id)
                           \/ Told(EmptyChan, w, RightMsgs(id), NodeMsgs(id), ShowsNode(w, id))
        /\ \A e \in edge_set : Told(EmptyChan, w, EdgeMsgs(e), CutMsgs(e), e \in w.edges)
  BY <1>5, <1>6
<1> QED BY <1>1, <1>3, <1>4, <1>5, <1>7, SocketStep

LEMMA LeaveKeepsWatch ==
    ASSUME WebTypeOK, WatchInv, NEW c \in Clients, Leave(c)
    PROVE  WebTypeOK' /\ WatchInv'
<1> DEFINE w == [web[c] EXCEPT !.pc = "off", !.sent = FALSE]
<1>1. /\ UNCHANGED <<nodes, edges, edge_set, by_item, job, ready>>
      /\ chan' = [chan EXCEPT ![c] = EmptyChan]
  BY DEF Leave, storeVars, feedVars
<1>2. web[c] \in Browser /\ web \in [Clients -> Browser]
  BY DEF WebTypeOK
<1>3. web' = [web EXCEPT ![c] = w]
  BY <1>2 DEF Leave, Browser
<1>4. EmptyChan \in Receiver
  BY DEF EmptyChan, Receiver
<1>5. w \in Browser /\ w.pc = "off"
  BY <1>2 DEF Browser
<1> HIDE DEF w
<1> QED BY <1>1, <1>3, <1>4, <1>5, SocketStep

\* A snapshot, first or after a lag, shows everything; what is still queued ends
\* with the same.
LEMMA SnapshotKeepsWatch ==
    ASSUME Store!StoreInv, WebTypeOK, WatchInv, NEW c \in Clients,
           SendSnapshot(c) \/ Resync(c)
    PROVE  WebTypeOK' /\ WatchInv'
<1>1. UNCHANGED <<nodes, edges, edge_set, by_item, job, ready>> /\ web[c].pc # "off"
  BY DEF SendSnapshot, Resync, storeVars, feedVars
<1>2. /\ web[c] \in Browser /\ chan[c] \in Receiver
      /\ web \in [Clients -> Browser] /\ chan \in [Clients -> Receiver]
      /\ LiveNodes \in Shown /\ DOMAIN edges \in SUBSET Store!Edge
  BY SnapshotType DEF WebTypeOK
<1>3. PICK r \in Receiver, w \in Browser :
        /\ chan' = [chan EXCEPT ![c] = r] /\ web' = [web EXCEPT ![c] = w]
        /\ r.q = chan[c].q /\ w.late = web[c].late
        /\ w.nodes = LiveNodes /\ w.edges = DOMAIN edges
  <2>1. CASE SendSnapshot(c)
    <3> DEFINE w == WithSnapshot(web[c])
    <3>1. web' = [web EXCEPT ![c] = w] /\ chan' = chan
      BY <2>1 DEF SendSnapshot
    <3>2. /\ w \in Browser /\ w.late = web[c].late
          /\ w.nodes = LiveNodes /\ w.edges = DOMAIN edges
      BY <1>2 DEF WithSnapshot, Browser
    <3> HIDE DEF w
    <3>3. chan' = [chan EXCEPT ![c] = chan[c]]
      BY <1>2, <3>1
    <3> QED BY <1>2, <3>1, <3>2, <3>3
  <2>2. CASE Resync(c)
    <3> DEFINE w == [web[c] EXCEPT !.nodes = LiveNodes, !.edges = DOMAIN edges]
               r == [chan[c] EXCEPT !.lagged = FALSE]
    <3>1. web' = [web EXCEPT ![c] = w] /\ chan' = [chan EXCEPT ![c] = r]
      BY <1>2, <2>2 DEF Resync, Browser, Receiver
    <3>2. /\ w \in Browser /\ w.late = web[c].late
          /\ w.nodes = LiveNodes /\ w.edges = DOMAIN edges
      BY <1>2 DEF Browser
    <3>3. r \in Receiver /\ r.q = chan[c].q
      BY <1>2 DEF Receiver
    <3> HIDE DEF w, r
    <3> QED BY <3>1, <3>2, <3>3
  <2> QED BY <2>1, <2>2
<1>4. /\ \A id \in Nat : ShowsNode(w, id)
      /\ \A e \in edge_set : e \in w.edges
  BY <1>3, SnapshotShows
<1>5. ASSUME NEW Good, NEW Rel, NEW shown, NEW old, shown,
             Told(chan[c], web[c], Good, Rel, old)
      PROVE  Told(r, w, Good, Rel, shown)
  BY <1>3, <1>5 DEF Told
<1>6. ASSUME w.late
      PROVE  /\ ready /\ OwedIsCurrent
             /\ \A id \in Nat : \/ OwedNode(id)
                                \/ Told(r, w, RightMsgs(id), NodeMsgs(id), ShowsNode(w, id))
             /\ \A e \in edge_set : Told(r, w, EdgeMsgs(e), CutMsgs(e), e \in w.edges)
  <2>1. ready /\ OwedIsCurrent /\ NodesTold(c) /\ EdgesTold(c)
    BY <1>1, <1>3, <1>6 DEF Watching, WatchInv
  <2>2. ASSUME NEW id \in Nat, ~OwedNode(id)
        PROVE  Told(r, w, RightMsgs(id), NodeMsgs(id), ShowsNode(w, id))
    BY <1>4, <1>5, <2>1, <2>2 DEF NodesTold
  <2>3. ASSUME NEW e \in edge_set
        PROVE  Told(r, w, EdgeMsgs(e), CutMsgs(e), e \in w.edges)
    BY <1>4, <1>5, <2>1 DEF EdgesTold
  <2> QED BY <2>1, <2>2, <2>3
<1> QED BY <1>1, <1>3, <1>6, SocketStep

\* What applying a message makes of a browser.
LEMMA ApplyType ==
    ASSUME NEW w \in Browser, NEW m \in Message
    PROVE  Apply(w, m) \in Browser /\ Apply(w, m).pc = w.pc /\ Apply(w, m).late = w.late
<1>1. PICK S \in SUBSET Nat : w.nodes \in [S -> Store!Node]
  BY DEF Browser, Shown
<1>2. CASE m.t = "node"
  <2> DEFINE f == [id \in DOMAIN w.nodes \cup {m.id} |->
                     IF id = m.id THEN m.node ELSE w.nodes[id]]
  <2>1. Apply(w, m) = [w EXCEPT !.nodes = f]
    BY <1>2 DEF Apply
  <2>2. m.id \in Nat /\ m.node \in Store!Node
    BY <1>2 DEF Message
  <2>3. f \in [S \cup {m.id} -> Store!Node] /\ S \cup {m.id} \in SUBSET Nat
    BY <1>1, <2>2
  <2> HIDE DEF f
  <2>4. f \in Shown
    BY <2>3 DEF Shown
  <2> QED BY <2>1, <2>4 DEF Browser
<1>3. CASE m.t = "edge"
  <2>1. Apply(w, m) = [w EXCEPT !.edges = w.edges \cup {m.edge}]
    BY <1>3 DEF Apply
  <2>2. m.edge \in Store!Edge
    BY <1>3 DEF Message
  <2> QED BY <2>1, <2>2 DEF Browser
<1>4. CASE m.t = "removed" /\ m.id \in DOMAIN w.nodes
  <2> DEFINE f == [id \in DOMAIN w.nodes \ {m.id} |-> w.nodes[id]]
             E == {e \in w.edges : ~Store!Touches(e, m.id)}
  <2>1. Apply(w, m) = [w EXCEPT !.nodes = f, !.edges = E]
    BY <1>4 DEF Apply
  <2>2. f \in [S \ {m.id} -> Store!Node] /\ S \ {m.id} \in SUBSET Nat
    BY <1>1
  <2>3. E \in SUBSET Store!Edge
    BY DEF Browser
  <2> HIDE DEF f, E
  <2>4. f \in Shown
    BY <2>2 DEF Shown
  <2> QED BY <2>1, <2>3, <2>4 DEF Browser
<1>5. CASE m.t = "removed" /\ m.id \notin DOMAIN w.nodes
  BY <1>5 DEF Apply
<1> QED BY <1>2, <1>3, <1>4, <1>5 DEF Message

\* Applying a right message shows its node, and one about another node changes
\* nothing of it.
LEMMA ApplyShowsNode ==
    ASSUME NEW w \in Browser, NEW m \in Message, NEW id \in Nat
    PROVE  /\ m \in RightMsgs(id) => ShowsNode(Apply(w, m), id)
           /\ m \notin NodeMsgs(id) /\ ShowsNode(w, id) => ShowsNode(Apply(w, m), id)
<1>1. CASE m.t = "node"
  <2> DEFINE f == [x \in DOMAIN w.nodes \cup {m.id} |->
                     IF x = m.id THEN m.node ELSE w.nodes[x]]
  <2>1. Apply(w, m).nodes = f
    BY <1>1 DEF Apply, Browser
  <2>2. /\ DOMAIN f = DOMAIN w.nodes \cup {m.id} /\ f[m.id] = m.node
        /\ \A x \in DOMAIN w.nodes : x # m.id => f[x] = w.nodes[x]
    OBVIOUS
  <2> HIDE DEF f
  <2> QED BY <1>1, <2>1, <2>2 DEF RightMsgs, NodeMsgs, ShowsNode
<1>2. CASE m.t = "edge"
  <2>1. Apply(w, m).nodes = w.nodes
    BY <1>2 DEF Apply, Browser
  <2> QED BY <1>2, <2>1 DEF RightMsgs, NodeMsgs, ShowsNode
<1>3. CASE m.t = "removed" /\ m.id \in DOMAIN w.nodes
  <2> DEFINE f == [x \in DOMAIN w.nodes \ {m.id} |-> w.nodes[x]]
  <2>1. Apply(w, m).nodes = f
    BY <1>3 DEF Apply, Browser
  <2>2. /\ DOMAIN f = DOMAIN w.nodes \ {m.id}
        /\ \A x \in DOMAIN f : f[x] = w.nodes[x]
    OBVIOUS
  <2> HIDE DEF f
  <2> QED BY <1>3, <2>1, <2>2 DEF RightMsgs, NodeMsgs, ShowsNode
<1>4. CASE m.t = "removed" /\ m.id \notin DOMAIN w.nodes
  <2>1. Apply(w, m) = w
    BY <1>4 DEF Apply
  <2> QED BY <1>4, <2>1 DEF RightMsgs, NodeMsgs, ShowsNode
<1> QED BY <1>1, <1>2, <1>3, <1>4 DEF Message

LEMMA ApplyShowsEdge ==
    ASSUME NEW w \in Browser, NEW m \in Message, NEW e
    PROVE  /\ m \in EdgeMsgs(e) => e \in Apply(w, m).edges
           /\ m \notin CutMsgs(e) /\ e \in w.edges => e \in Apply(w, m).edges
<1>1. CASE m.t = "edge"
  <2>1. Apply(w, m).edges = w.edges \cup {m.edge}
    BY <1>1 DEF Apply, Browser
  <2> QED BY <2>1 DEF EdgeMsgs
<1>2. CASE m.t = "node"
  <2>1. Apply(w, m).edges = w.edges
    BY <1>2 DEF Apply, Browser
  <2> QED BY <1>2, <2>1 DEF EdgeMsgs
<1>3. CASE m.t = "removed" /\ m.id \in DOMAIN w.nodes
  <2>1. Apply(w, m).edges = {x \in w.edges : ~Store!Touches(x, m.id)}
    BY <1>3 DEF Apply, Browser
  <2> QED BY <1>3, <2>1 DEF EdgeMsgs, CutMsgs
<1>4. CASE m.t = "removed" /\ m.id \notin DOMAIN w.nodes
  BY <1>4 DEF Apply, EdgeMsgs
<1> QED BY <1>1, <1>2, <1>3, <1>4 DEF Message

\* A browser applies the next message.
LEMMA ForwardKeepsWatch ==
    ASSUME WebTypeOK, WatchInv, NEW c \in Clients, Forward(c)
    PROVE  WebTypeOK' /\ WatchInv'
<1> DEFINE q == chan[c].q
           m == Head(q)
           r == [chan[c] EXCEPT !.q = Tail(q)]
           w == Apply(web[c], m)
<1>1. /\ UNCHANGED <<nodes, edges, edge_set, by_item, job, ready>>
      /\ web[c].pc = "open" /\ ~chan[c].lagged /\ q # <<>>
      /\ web' = [web EXCEPT ![c] = w]
  BY DEF Forward, storeVars, feedVars
<1>2. /\ web[c] \in Browser /\ chan[c] \in Receiver /\ chan \in [Clients -> Receiver]
  BY DEF WebTypeOK
<1>3. chan' = [chan EXCEPT ![c] = r]
  BY <1>2 DEF Forward, Receiver
<1>4. q \in Seq(Message)
  BY <1>2 DEF Receiver
<1>5. m \in Message /\ Tail(q) \in Seq(Message)
  BY <1>1, <1>4
<1>6. r \in Receiver /\ r.q = Tail(q) /\ r.lagged = chan[c].lagged
  BY <1>2, <1>5 DEF Receiver
<1>7. w \in Browser /\ w.pc = "open" /\ w.late = web[c].late
  BY <1>1, <1>2, <1>5, ApplyType
<1> HIDE DEF q, m, r, w
<1>8. ASSUME NEW Good, NEW Rel, NEW shown, NEW now,
             m \in Good => now, m \notin Rel /\ shown => now,
             Told(chan[c], web[c], Good, Rel, shown)
      PROVE  Told(r, w, Good, Rel, now)
  <2>1. /\ Tells(q, Good, Rel) => Tells(Tail(q), Good, Rel) \/ (m \in Good /\ Silent(Tail(q), Rel))
        /\ Silent(q, Rel) => Silent(Tail(q), Rel) /\ m \notin Rel
    BY <1>1, <1>4, ReadingTells DEF m
  <2>2. \/ Tells(q, Good, Rel)
        \/ Silent(q, Rel) /\ shown
    BY <1>1, <1>8 DEF Told, q
  <2> QED BY <1>6, <1>8, <2>1, <2>2 DEF Told
<1>9. ASSUME w.late
      PROVE  /\ ready /\ OwedIsCurrent
             /\ \A id \in Nat : \/ OwedNode(id)
                                \/ Told(r, w, RightMsgs(id), NodeMsgs(id), ShowsNode(w, id))
             /\ \A e \in edge_set : Told(r, w, EdgeMsgs(e), CutMsgs(e), e \in w.edges)
  <2>1. ready /\ OwedIsCurrent /\ NodesTold(c) /\ EdgesTold(c)
    BY <1>1, <1>7, <1>9 DEF Watching, WatchInv
  <2>2. ASSUME NEW id \in Nat, ~OwedNode(id)
        PROVE  Told(r, w, RightMsgs(id), NodeMsgs(id), ShowsNode(w, id))
    <3>1. Told(chan[c], web[c], RightMsgs(id), NodeMsgs(id), ShowsNode(web[c], id))
      BY <2>1, <2>2 DEF NodesTold
    <3>2. /\ m \in RightMsgs(id) => ShowsNode(w, id)
          /\ m \notin NodeMsgs(id) /\ ShowsNode(web[c], id) => ShowsNode(w, id)
      BY <1>2, <1>5, ApplyShowsNode DEF w
    <3> QED BY <1>8, <3>1, <3>2
  <2>3. ASSUME NEW e \in edge_set
        PROVE  Told(r, w, EdgeMsgs(e), CutMsgs(e), e \in w.edges)
    <3>1. Told(chan[c], web[c], EdgeMsgs(e), CutMsgs(e), e \in web[c].edges)
      BY <2>1 DEF EdgesTold
    <3>2. /\ m \in EdgeMsgs(e) => e \in w.edges
          /\ m \notin CutMsgs(e) /\ e \in web[c].edges => e \in w.edges
      BY <1>2, <1>5, ApplyShowsEdge DEF w
    <3> QED BY <1>8, <3>1, <3>2
  <2> QED BY <2>1, <2>2, <2>3
<1> QED BY <1>1, <1>3, <1>6, <1>7, <1>9, SocketStep

---------------------------------------------------------------------------
(* The theorems *)

\* What the channel and the browsers hold, and what each browser has been told.
LEMMA WatchInvariant == Spec => [](WebTypeOK /\ WatchInv)
<1>1. Init => WebTypeOK /\ WatchInv
  <2> SUFFICES ASSUME Init PROVE WebTypeOK /\ WatchInv
    OBVIOUS
  <2> DEFINE w == [pc |-> "off", sent |-> FALSE, nodes |-> [id \in {} |-> 0],
                   edges |-> {}, late |-> FALSE]
  <2>1. EmptyChan \in Receiver
    BY DEF EmptyChan, Receiver
  <2>2. w \in Browser
    <3>1. [id \in {} |-> 0] \in [{} -> Store!Node]
      OBVIOUS
    <3>2. [id \in {} |-> 0] \in Shown
      BY <3>1 DEF Shown
    <3> QED BY <3>2 DEF Browser
  <2>3. w.pc = "off"
    OBVIOUS
  <2> HIDE DEF w
  <2>4. chan = [c \in Clients |-> EmptyChan] /\ web = [c \in Clients |-> w] /\ job = Idle
    BY DEF Init, w
  <2>5. WebTypeOK
    BY <2>1, <2>2, <2>4 DEF WebTypeOK, Idle
  <2>6. WatchInv
    BY <2>3, <2>4 DEF WatchInv, Watching
  <2> QED BY <2>5, <2>6
<1>2. /\ CoreTypeOK /\ Store!StoreInv /\ Store!StoreInv' /\ GapInv
      /\ WebTypeOK /\ WatchInv /\ [Next]_vars
      => WebTypeOK' /\ WatchInv'
  <2> SUFFICES ASSUME CoreTypeOK, Store!StoreInv, Store!StoreInv', GapInv,
                      WebTypeOK, WatchInv, [Next]_vars
               PROVE  WebTypeOK' /\ WatchInv'
    OBVIOUS
  <2> USE BrainAssumption
  <2>1. CASE \/ UNCHANGED vars \/ Server \/ Connect \/ Receive \/ GetRevision
             \/ Disconnect \/ GetRevisionFails
             \/ \E d \in diffs : FetchEdges(d) \/ FetchEdgesFails(d)
             \/ Enumerate \/ ApplyBegin \/ ApplyEnd
             \/ \E i \in crawl.todo : LoadRevisions(i) \/ LoadRevisionsFails(i)
             \/ \E s \in crawl.read : LoadEdges(s)
    BY <2>1, AsideSteps, AsideKeeps
  <2>2. CASE UpsertNode
    BY <2>2, UpsertKeepsWatch
  <2>3. CASE SendNode
    BY <2>3, SendNodeKeepsWatch
  <2>4. CASE RemoveNode
    BY <2>4, RemoveKeepsWatch
  <2>5. CASE SendRemoved
    BY <2>5, SendRemovedKeepsWatch
  <2>6. CASE \E d \in diffs : \E x \in d.raw : StoreEdge(d, x)
    BY <2>6, EdgeKeepsWatch
  <2>7. CASE (\E s \in crawl.seeds : ApplyNode(s)) \/ (\E x \in crawl.raw : ApplyEdge(x))
    BY <2>7, ApplyKeepsWatch
  <2>8. CASE \E c \in Clients : Join(c)
    BY <2>8, JoinKeepsWatch
  <2>9. CASE \E c \in Clients : Leave(c)
    BY <2>9, LeaveKeepsWatch
  <2>10. CASE \E c \in Clients : Forward(c)
    BY <2>10, ForwardKeepsWatch
  <2>11. CASE \E c \in Clients : SendSnapshot(c) \/ Resync(c)
    BY <2>11, SnapshotKeepsWatch
  <2>12. CASE Server \/ Connect \/ Feed \/ EdgeChecks
    BY <2>1, <2>2, <2>3, <2>4, <2>5, <2>6, <2>12 DEF Feed, EdgeChecks
  <2>13. CASE Crawl \/ Faults
    BY <2>1, <2>7, <2>9, <2>13 DEF Crawl, Faults
  <2>14. CASE \E c \in Clients : Join(c) \/ Socket(c)
    BY <2>8, <2>10, <2>11, <2>14 DEF Socket
  <2> QED BY <2>1, <2>12, <2>13, <2>14 DEF Next
<1> QED BY <1>1, <1>2, CoreTypes, BrainStoreInv, GapInvariant, PTL DEF Spec

\* A browser with nothing on its way shows all it has been told.
LEMMA QuietShows ==
    ASSUME WatchInv, NEW c \in Clients, Quiet(c), web[c].late
    PROVE  /\ \A id \in Nat : ShowsNode(web[c], id)
           /\ \A e \in edge_set : e \in web[c].edges
<1>1. /\ NodesTold(c) /\ EdgesTold(c) /\ web[c].pc = "open"
      /\ chan[c].q = <<>> /\ chan[c].lagged = FALSE
      /\ job.pc \notin {"send", "gone"}
  BY DEF WatchInv, Watching, Quiet, EmptyChan
<1>2. \A Good, Rel : ~Tells(chan[c].q, Good, Rel)
  BY <1>1 DEF Tells
<1>3. \A id \in Nat : ShowsNode(web[c], id)
  BY <1>1, <1>2 DEF NodesTold, OwedNode, Told
<1>4. \A e \in edge_set : e \in web[c].edges
  BY <1>1, <1>2 DEF EdgesTold, Told
<1> QED BY <1>3, <1>4

\* Every browser that joined after the crawl shows exactly the store's live nodes with
\* their present content whenever nothing is on its way to it: for any number of
\* browsers and any capacity of the channel, through the race of snapshot and deltas,
\* lagged receivers and resyncs (main.rs ws_conn, static/brain.js).
THEOREM BrowsersConverge == Spec => []NodesConverge
<1>1. WebTypeOK /\ WatchInv => NodesConverge
  <2> SUFFICES ASSUME WebTypeOK, WatchInv, NEW c \in Clients, Quiet(c), web[c].late
               PROVE  web[c].nodes = LiveNodes
    BY DEF NodesConverge
  <2>1. \A id \in Nat : ShowsNode(web[c], id)
    BY QuietShows
  <2>2. PICK S \in SUBSET Nat : web[c].nodes \in [S -> Store!Node]
    <3>1. web[c] \in Browser
      BY DEF WebTypeOK
    <3> QED BY <3>1 DEF Browser, Shown
  <2>3. Store!LiveIds \subseteq Nat
    BY DEF Store!LiveIds, Store!Ids
  <2>4. S = Store!LiveIds
    BY <2>1, <2>2, <2>3 DEF ShowsNode
  <2>5. \A id \in S : web[c].nodes[id] = nodes[id]
    BY <2>1, <2>4 DEF ShowsNode
  <2> QED BY <2>2, <2>4, <2>5 DEF LiveNodes
<1> QED BY <1>1, WatchInvariant, PTL

\* ... and every interlink of the store.
THEOREM InterlinksReach == Spec => []EdgesReach
<1>1. Store!StoreInv /\ WatchInv => EdgesReach
  <2> SUFFICES ASSUME Store!StoreInv, WatchInv, NEW c \in Clients, Quiet(c), web[c].late
               PROVE  DOMAIN edges \subseteq web[c].edges
    BY DEF EdgesReach
  <2>1. \A e \in edge_set : e \in web[c].edges
    BY QuietShows
  <2> QED BY <2>1 DEF Store!StoreInv, Store!EdgesAgree
<1> QED BY <1>1, WatchInvariant, BrainStoreInv, PTL
============================================================================
