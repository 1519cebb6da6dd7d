---------------------------- MODULE ClientProofs ----------------------------
(* TLAPS proofs about the Python client.  First its sessions (Discovery and  *)
(* Sessions), for any threads, users, hints and tenants, any lifetimes of a  *)
(* record and any number of faults; then the RPC chain (RpcChain), for any   *)
(* callers and any number of attempts.  The two share no state.              *)
EXTENDS Sessions, RpcChain, FiniteSetTheorems, TLAPS

Resolutions == [pc : Phases, user : Users \cup {NoUser}, key : Keys, cached : Records,
                fresh : Records, left : Seq(Users), map : [Keys -> Records],
                fd : Inodes \cup {NoInode}, tries : Nat]

\* What a resolution under way holds: records of its own hint, a fresh one once it was
\* fetched, a candidate as long as it asks, the temporary file only while it writes.
Sound(r) ==
    /\ \A k \in Keys : IsServed(r.map[k], k)
    /\ IsServed(r.cached, r.key) /\ IsServed(r.fresh, r.key)
    /\ r.pc \in {"read", "open", "write", "replace"} => r.fresh # NoRecord
    /\ r.pc \in {"load", "fetch"} => r.left # <<>>
    /\ r.fd # NoInode <=> r.pc = "write"

ResolutionInv ==
    /\ now \in 0..MaxTime
    /\ tokens \in [env : Users \cup {NoUser}, file : Users \cup {NoUser}]
    /\ res \in [Threads -> Resolutions]
    /\ \A t \in Threads : Sound(res[t])

DiskInv ==
    /\ path \in Inodes \cup {NoInode} /\ tmp \in Inodes \cup {NoInode}
    /\ path # NoInode => path # tmp
    /\ data \in [Inodes -> Contents]
    /\ \A i \in Inodes : ~InUse(i) => data[i] = Empty
    /\ \A i \in Inodes : \A k \in Keys : IsServed(data[i].map[k], k)

DiscoveryInv == ResolutionInv /\ DiskInv

---------------------------------------------------------------------------

LEMMA ConstantsTyped ==
    /\ NoRecord \in Records /\ NoRecords \in [Keys -> Records]
    /\ Empty \in Contents /\ Torn \in Contents
    /\ \A k \in Keys : IsServed(NoRecord, k)
    /\ \A k \in Keys : NoRecords[k] = NoRecord
    /\ Quiet \in Resolutions /\ Sound(Quiet) /\ Quiet.fd = NoInode
    /\ NoInode \notin Inodes
<1>1. 0 \in 0..MaxTime /\ NoHint \in Keys
  BY DiscoveryAssumption DEF Keys
<1>2. NoRecord \in Records
  BY <1>1 DEF NoRecord, Records
<1>3. NoRecords \in [Keys -> Records] /\ \A k \in Keys : NoRecords[k] = NoRecord
  BY <1>2 DEF NoRecords
<1>4. Empty \in Contents /\ Torn \in Contents
  BY <1>3 DEF Empty, Torn, Contents
<1>5. \A k \in Keys : IsServed(NoRecord, k)
  BY DEF IsServed
<1>6. Quiet \in Resolutions
  BY <1>1, <1>2, <1>3 DEF Quiet, Resolutions, Phases
<1>7. Sound(Quiet) /\ Quiet.fd = NoInode
  BY <1>1, <1>3, <1>5 DEF Sound, Quiet
<1>8. NoInode \notin Inodes
  BY DEF NoInode, Inodes
<1> QED BY <1>2, <1>3, <1>4, <1>5, <1>6, <1>7, <1>8

\* One thread's resolution changes, to r.
LEMMA ToResolution ==
    ASSUME res \in [Threads -> Resolutions], NEW t \in Threads, NEW r, To(t, r),
           r \in Resolutions, Sound(r), \A u \in Threads : Sound(res[u])
    PROVE  /\ res' \in [Threads -> Resolutions]
           /\ res'[t] = r
           /\ \A u \in Threads : u # t => res'[u] = res[u]
           /\ \A u \in Threads : Sound(res[u])'
<1>1. /\ res' \in [Threads -> Resolutions] /\ res'[t] = r
      /\ \A u \in Threads : u # t => res'[u] = res[u]
  BY DEF To
<1>2. \A u \in Threads : Sound(res'[u])
  BY <1>1
<1> QED BY <1>1, <1>2 DEF Sound, IsServed

\* What the cache file is read as.
LEMMA ReadAllSound ==
    ASSUME DiskInv
    PROVE  ReadAll \in [Keys -> Records] /\ \A k \in Keys : IsServed(ReadAll[k], k)
<1>1. CASE path = NoInode
  BY <1>1, ConstantsTyped DEF ReadAll
<1>2. CASE path # NoInode
  <2>1. path \in Inodes /\ data[path] \in Contents
    BY <1>2 DEF DiskInv
  <2>2. data[path].map \in [Keys -> Records]
    BY <2>1 DEF Contents
  <2> QED BY <1>2, <2>1, <2>2 DEF ReadAll, DiskInv
<1> QED BY <1>1, <1>2

\* A resolution's answer is well-formed.
LEMMA AnswerSound ==
    ASSUME ResolutionInv, NEW t \in Threads, NEW r \in Records, IsServed(r, res[t].key),
           Answer(t, r)
    PROVE  /\ res' \in [Threads -> Resolutions]
           /\ \A u \in Threads : Sound(res[u])'
           /\ res'[t].fresh = r /\ res'[t].pc = "resolved" /\ res'[t].fd = NoInode
           /\ \A u \in Threads : u # t => res'[u] = res[u]
<1> DEFINE q == [Quiet EXCEPT !.pc = "resolved", !.user = res[t].user,
                              !.key = res[t].key, !.fresh = r]
<1>1. res[t] \in Resolutions
  BY DEF ResolutionInv
<1>2. res[t].user \in Users \cup {NoUser} /\ res[t].key \in Keys
  BY <1>1 DEF Resolutions
<1>3. /\ q.pc = "resolved" /\ q.key = res[t].key /\ q.fresh = r /\ q.cached = NoRecord
      /\ q.map = NoRecords /\ q.fd = NoInode
  BY DEF Quiet
<1>4. q \in Resolutions
  BY <1>2, ConstantsTyped DEF Resolutions, Phases
<1> HIDE DEF q
<1>5. Sound(q)
  BY <1>2, <1>3, ConstantsTyped DEF Sound
<1>6. To(t, q)
  BY DEF Answer, q
<1>7. /\ res' \in [Threads -> Resolutions] /\ res'[t] = q
      /\ \A u \in Threads : u # t => res'[u] = res[u]
      /\ \A u \in Threads : Sound(res[u])'
  BY <1>4, <1>5, <1>6, ToResolution DEF ResolutionInv
<1> QED BY <1>3, <1>7

LEMMA RaiseSound ==
    ASSUME ResolutionInv, NEW t \in Threads, NEW pc \in {"refused", "broken"}, Raise(t, pc)
    PROVE  /\ res' \in [Threads -> Resolutions]
           /\ \A u \in Threads : Sound(res[u])'
           /\ res'[t].pc = pc /\ res'[t].fd = NoInode
           /\ \A u \in Threads : u # t => res'[u] = res[u]
<1> DEFINE q == [Quiet EXCEPT !.pc = pc, !.user = res[t].user, !.key = res[t].key]
<1>1. res[t] \in Resolutions
  BY DEF ResolutionInv
<1>2. res[t].user \in Users \cup {NoUser} /\ res[t].key \in Keys
  BY <1>1 DEF Resolutions
<1>3. /\ q.pc = pc /\ q.key = res[t].key /\ q.fresh = NoRecord /\ q.cached = NoRecord
      /\ q.map = NoRecords /\ q.fd = NoInode
  BY DEF Quiet
<1>4. q \in Resolutions
  BY <1>2, ConstantsTyped DEF Resolutions, Phases
<1> HIDE DEF q
<1>5. Sound(q)
  BY <1>2, <1>3, ConstantsTyped DEF Sound
<1>6. To(t, q)
  BY DEF Raise, q
<1>7. /\ res' \in [Threads -> Resolutions] /\ res'[t] = q
      /\ \A u \in Threads : u # t => res'[u] = res[u]
      /\ \A u \in Threads : Sound(res[u])'
  BY <1>4, <1>5, <1>6, ToResolution DEF ResolutionInv
<1> QED BY <1>3, <1>7

\* The files are left alone, and no resolution opens or closes one.
LEMMA DiskSteady ==
    ASSUME DiskInv, UNCHANGED disk, \A u \in Threads : res'[u].fd = res[u].fd
    PROVE  DiskInv'
<1>1. \A i \in Inodes : InUse(i)' <=> InUse(i)
  BY DEF disk, InUse, Opened
<1> QED BY <1>1 DEF DiskInv, disk, IsServed

\* A record just issued is served for its hint.
LEMMA IssuedIsServed ==
    ASSUME ResolutionInv, NEW u \in Users, NEW k \in Keys, Serves[u][k] # NoTenant
    PROVE  /\ Record(u, k) \in Records /\ IsServed(Record(u, k), k)
           /\ Record(u, k) # NoRecord
<1>1. Serves[u][k] \in Tenants
  BY DiscoveryAssumption
<1>2. /\ Record(u, k) = [user |-> u, key |-> k, tenant |-> Serves[u][k], issued |-> now]
      /\ now \in 0..MaxTime
  BY DEF Record, ResolutionInv
<1>3. Record(u, k) \in Records
  BY <1>1, <1>2 DEF Records
<1>4. IsServed(Record(u, k), k)
  BY <1>2 DEF IsServed
<1>5. Record(u, k) # NoRecord
  BY <1>2 DEF NoRecord
<1> QED BY <1>3, <1>4, <1>5

---------------------------------------------------------------------------
(* The steps of a resolution. *)

LEMMA LoadPreserves ==
    ASSUME DiscoveryInv, NEW t \in Threads, Load(t)
    PROVE  /\ DiscoveryInv'
           /\ res'[t].pc = "resolved" => res'[t].fresh # NoRecord /\ ~Expired(res'[t].fresh)
           /\ \A u \in Threads : u # t => res'[u] = res[u]
<1> DEFINE cached == ReadAll[CacheKey(res[t].key)]
           usable == cached # NoRecord /\ ~Expired(cached)
<1>1. /\ res[t] \in Resolutions /\ Sound(res[t]) /\ res[t].pc = "load"
      /\ res[t].key \in Keys /\ res[t].left \in Seq(Users) /\ res[t].fd = NoInode
      /\ UNCHANGED <<now, tokens, disk>>
  BY DEF DiscoveryInv, ResolutionInv, Resolutions, Sound, Load
<1>2. cached \in Records /\ IsServed(cached, res[t].key)
  BY <1>1, ReadAllSound DEF DiscoveryInv, CacheKey
<1>3. CASE usable /\ ~ShouldRefresh(cached)
  <2>1. Answer(t, cached)
    BY <1>3 DEF Load
  <2>2. /\ res' \in [Threads -> Resolutions]
        /\ \A u \in Threads : Sound(res[u])'
        /\ res'[t].fresh = cached /\ res'[t].fd = NoInode
        /\ \A u \in Threads : u # t => res'[u] = res[u]
    BY <1>2, <2>1, AnswerSound DEF DiscoveryInv
  <2>3. ResolutionInv'
    BY <1>1, <2>2 DEF DiscoveryInv, ResolutionInv
  <2>4. DiskInv'
    BY <1>1, <2>2, DiskSteady DEF DiscoveryInv
  <2> QED BY <1>3, <2>2, <2>3, <2>4 DEF DiscoveryInv
<1>4. CASE ~(usable /\ ~ShouldRefresh(cached))
  <2> DEFINE kept == IF usable THEN cached ELSE NoRecord
             q == [res[t] EXCEPT !.pc = "fetch", !.cached = kept]
  <2>1. To(t, q)
    BY <1>4 DEF Load
  <2>2. kept \in Records /\ IsServed(kept, res[t].key)
    BY <1>1, <1>2, ConstantsTyped
  <2> HIDE DEF kept, cached
  <2>3. q \in Resolutions
    BY <1>1, <2>2 DEF Resolutions, Phases
  <2>4. /\ q.pc = "fetch" /\ q.key = res[t].key /\ q.fresh = res[t].fresh /\ q.cached = kept
        /\ q.map = res[t].map /\ q.fd = res[t].fd /\ q.left = res[t].left
    BY <1>1 DEF Resolutions
  <2> HIDE DEF q
  <2>5. Sound(q)
    BY <1>1, <2>2, <2>4 DEF Sound
  <2>6. /\ res' \in [Threads -> Resolutions] /\ res'[t] = q
        /\ \A u \in Threads : u # t => res'[u] = res[u]
        /\ \A u \in Threads : Sound(res[u])'
    BY <2>1, <2>3, <2>5, ToResolution DEF DiscoveryInv, ResolutionInv
  <2>7. ResolutionInv'
    BY <1>1, <2>6 DEF DiscoveryInv, ResolutionInv
  <2>8. DiskInv'
    BY <1>1, <2>4, <2>6, DiskSteady DEF DiscoveryInv
  <2> QED BY <2>4, <2>6, <2>7, <2>8 DEF DiscoveryInv
<1> QED BY <1>3, <1>4

LEMMA FetchServedPreserves ==
    ASSUME DiscoveryInv, NEW t \in Threads, FetchServed(t)
    PROVE  DiscoveryInv' /\ res'[t].pc = "read" /\ \A u \in Threads : u # t => res'[u] = res[u]
<1> DEFINE u == Head(res[t].left)
           fresh == Record(u, res[t].key)
           q == [res[t] EXCEPT !.pc = "read", !.fresh = fresh]
<1>1. /\ res[t] \in Resolutions /\ Sound(res[t]) /\ res[t].pc = "fetch"
      /\ res[t].key \in Keys /\ res[t].left \in Seq(Users) /\ res[t].left # <<>>
      /\ res[t].fd = NoInode
      /\ Serves[u][res[t].key] # NoTenant /\ To(t, q) /\ UNCHANGED <<now, tokens, disk>>
  BY DEF DiscoveryInv, ResolutionInv, Resolutions, Sound, FetchServed
<1>2. u \in Users
  BY <1>1
<1>3. fresh \in Records /\ IsServed(fresh, res[t].key) /\ fresh # NoRecord
  BY <1>1, <1>2, IssuedIsServed DEF DiscoveryInv
<1> HIDE DEF fresh, u
<1>4. q \in Resolutions
  BY <1>1, <1>3 DEF Resolutions, Phases
<1>5. /\ q.pc = "read" /\ q.key = res[t].key /\ q.fresh = fresh /\ q.cached = res[t].cached
      /\ q.map = res[t].map /\ q.fd = res[t].fd
  BY <1>1 DEF Resolutions
<1> HIDE DEF q
<1>6. Sound(q)
  BY <1>1, <1>3, <1>5 DEF Sound
<1>7. /\ res' \in [Threads -> Resolutions] /\ res'[t] = q
      /\ \A v \in Threads : v # t => res'[v] = res[v]
      /\ \A v \in Threads : Sound(res[v])'
  BY <1>1, <1>4, <1>6, ToResolution DEF DiscoveryInv, ResolutionInv
<1>8. ResolutionInv'
  BY <1>1, <1>7 DEF DiscoveryInv, ResolutionInv
<1>9. DiskInv'
  BY <1>1, <1>5, <1>7, DiskSteady DEF DiscoveryInv
<1> QED BY <1>5, <1>7, <1>8, <1>9 DEF DiscoveryInv

\* A resolution that ends, with an answer or an exception, leaves everything in order if
\* the files are and it had none of them open.
LEMMA EndPreserves ==
    ASSUME DiscoveryInv, NEW t \in Threads, UNCHANGED <<now, tokens, disk>>,
           res[t].fd = NoInode,
           \/ \E r \in Records : IsServed(r, res[t].key) /\ Answer(t, r)
           \/ \E pc \in {"refused", "broken"} : Raise(t, pc)
    PROVE  DiscoveryInv' /\ \A u \in Threads : u # t => res'[u] = res[u]
<1>1. /\ res' \in [Threads -> Resolutions]
      /\ \A u \in Threads : Sound(res[u])'
      /\ res'[t].fd = NoInode
      /\ \A u \in Threads : u # t => res'[u] = res[u]
  <2>1. CASE \E r \in Records : IsServed(r, res[t].key) /\ Answer(t, r)
    BY <2>1, AnswerSound DEF DiscoveryInv
  <2>2. CASE \E pc \in {"refused", "broken"} : Raise(t, pc)
    BY <2>2, RaiseSound DEF DiscoveryInv
  <2> QED BY <2>1, <2>2
<1>2. ResolutionInv'
  BY <1>1 DEF DiscoveryInv, ResolutionInv
<1>3. DiskInv'
  BY <1>1, DiskSteady DEF DiscoveryInv
<1> QED BY <1>1, <1>2, <1>3 DEF DiscoveryInv

LEMMA FetchRefusedPreserves ==
    ASSUME DiscoveryInv, NEW t \in Threads, FetchRefused(t)
    PROVE  /\ DiscoveryInv'
           /\ res'[t].pc = "resolved" => res'[t].fresh # NoRecord /\ ~Expired(res'[t].fresh)
           /\ res'[t].pc # "idle"
           /\ \A u \in Threads : u # t => res'[u] = res[u]
<1> DEFINE left == Tail(res[t].left)
           cached == res[t].cached
<1>1. /\ res[t] \in Resolutions /\ Sound(res[t]) /\ res[t].pc = "fetch"
      /\ res[t].key \in Keys /\ res[t].left \in Seq(Users) /\ res[t].left # <<>>
      /\ res[t].fd = NoInode /\ cached \in Records /\ IsServed(cached, res[t].key)
      /\ UNCHANGED <<now, tokens, disk>>
  BY DEF DiscoveryInv, ResolutionInv, Resolutions, Sound, FetchRefused, Refusal
<1>2. CASE left # <<>>
  <2> DEFINE q == [res[t] EXCEPT !.left = left]
  <2>1. To(t, q)
    BY <1>2 DEF FetchRefused
  <2>2. left \in Seq(Users)
    BY <1>1
  <2> HIDE DEF left
  <2>3. q \in Resolutions
    BY <1>1, <2>2 DEF Resolutions
  <2>4. /\ q.pc = res[t].pc /\ q.key = res[t].key /\ q.fresh = res[t].fresh
        /\ q.cached = cached /\ q.map = res[t].map /\ q.fd = res[t].fd /\ q.left = left
    BY <1>1 DEF Resolutions
  <2> HIDE DEF q
  <2>5. Sound(q)
    BY <1>1, <1>2, <2>4 DEF Sound
  <2>6. /\ res' \in [Threads -> Resolutions] /\ res'[t] = q
        /\ \A u \in Threads : u # t => res'[u] = res[u]
        /\ \A u \in Threads : Sound(res[u])'
    BY <2>1, <2>3, <2>5, ToResolution DEF DiscoveryInv, ResolutionInv
  <2>7. ResolutionInv'
    BY <1>1, <2>6 DEF DiscoveryInv, ResolutionInv
  <2>8. DiskInv'
    BY <1>1, <2>4, <2>6, DiskSteady DEF DiscoveryInv
  <2> QED BY <1>1, <2>4, <2>6, <2>7, <2>8 DEF DiscoveryInv
<1>3. CASE left = <<>> /\ cached # NoRecord /\ ~Expired(cached)
  <2>1. Answer(t, cached)
    BY <1>3 DEF FetchRefused
  <2>2. res'[t].fresh = cached /\ res'[t].pc = "resolved"
    BY <1>1, <2>1, AnswerSound DEF DiscoveryInv
  <2> QED BY <1>1, <1>3, <2>1, <2>2, EndPreserves
<1>4. CASE left = <<>> /\ ~(cached # NoRecord /\ ~Expired(cached))
  <2>1. Raise(t, "refused")
    BY <1>4 DEF FetchRefused
  <2>2. res'[t].pc = "refused"
    BY <2>1, RaiseSound DEF DiscoveryInv
  <2> QED BY <1>1, <2>1, <2>2, EndPreserves
<1> QED BY <1>2, <1>3, <1>4

LEMMA FetchBrokenPreserves ==
    ASSUME DiscoveryInv, NEW t \in Threads, FetchBroken(t)
    PROVE  DiscoveryInv' /\ res'[t].pc = "broken" /\ \A u \in Threads : u # t => res'[u] = res[u]
<1>1. res[t].fd = NoInode /\ Raise(t, "broken") /\ UNCHANGED <<now, tokens, disk>>
  BY DEF DiscoveryInv, ResolutionInv, Sound, FetchBroken
<1>2. res'[t].pc = "broken"
  BY <1>1, RaiseSound DEF DiscoveryInv
<1> QED BY <1>1, <1>2, EndPreserves

LEMMA ReadForStorePreserves ==
    ASSUME DiscoveryInv, NEW t \in Threads, ReadForStore(t)
    PROVE  DiscoveryInv' /\ res'[t].pc = "open" /\ \A u \in Threads : u # t => res'[u] = res[u]
<1> DEFINE map == [ReadAll EXCEPT ![CacheKey(res[t].key)] = res[t].fresh]
           q == [res[t] EXCEPT !.pc = "open", !.map = map]
<1>1. /\ res[t] \in Resolutions /\ Sound(res[t]) /\ res[t].pc = "read"
      /\ res[t].key \in Keys /\ res[t].fresh \in Records /\ res[t].fd = NoInode
      /\ To(t, q) /\ UNCHANGED <<now, tokens, disk>>
  BY DEF DiscoveryInv, ResolutionInv, Resolutions, Sound, ReadForStore
<1>2. ReadAll \in [Keys -> Records] /\ \A k \in Keys : IsServed(ReadAll[k], k)
  BY ReadAllSound DEF DiscoveryInv
<1>3. map \in [Keys -> Records] /\ \A k \in Keys : IsServed(map[k], k)
  BY <1>1, <1>2 DEF CacheKey, Sound
<1> HIDE DEF map
<1>4. q \in Resolutions
  BY <1>1, <1>3 DEF Resolutions, Phases
<1>5. /\ q.pc = "open" /\ q.key = res[t].key /\ q.fresh = res[t].fresh
      /\ q.cached = res[t].cached /\ q.map = map /\ q.fd = res[t].fd
  BY <1>1 DEF Resolutions
<1> HIDE DEF q
<1>6. Sound(q)
  BY <1>1, <1>3, <1>5 DEF Sound
<1>7. /\ res' \in [Threads -> Resolutions] /\ res'[t] = q
      /\ \A u \in Threads : u # t => res'[u] = res[u]
      /\ \A u \in Threads : Sound(res[u])'
  BY <1>1, <1>4, <1>6, ToResolution DEF DiscoveryInv, ResolutionInv
<1>8. ResolutionInv'
  BY <1>1, <1>7 DEF DiscoveryInv, ResolutionInv
<1>9. DiskInv'
  BY <1>1, <1>5, <1>7, DiskSteady DEF DiscoveryInv
<1> QED BY <1>5, <1>7, <1>8, <1>9 DEF DiscoveryInv

\* There are as many inodes as threads and one more, and each thread that is not about to
\* open one takes up at most one: one is free.
LEMMA FreeInode ==
    ASSUME DiskInv, NEW t \in Threads, res[t].fd = NoInode, tmp = NoInode
    PROVE  \E j \in Inodes : ~InUse(j)
<1> DEFINE others == Threads \ {t}
           fd == [u \in others |-> res[u].fd]
           fds == {fd[u] : u \in others}
<1>1. IsFiniteSet(others) /\ Cardinality(others) = Cardinality(Threads) - 1
  BY FS_RemoveElement, DiscoveryAssumption
<1>2. fd \in Surjection(others, fds)
  BY DEF Surjection
<1> HIDE DEF fd, fds, others
<1>3. IsFiniteSet(fds) /\ Cardinality(fds) <= Cardinality(others)
  BY <1>1, <1>2, FS_Surjection
<1>4. IsFiniteSet(fds \cup {path}) /\ Cardinality(fds \cup {path}) <= Cardinality(fds) + 1
  <2>1. Cardinality(fds) \in Nat
    BY <1>3, FS_CardinalityType
  <2>2. /\ IsFiniteSet(fds \cup {path})
        /\ Cardinality(fds \cup {path})
             = IF path \in fds THEN Cardinality(fds) ELSE Cardinality(fds) + 1
    BY <1>3, FS_AddElement, Zenon
  <2> QED BY <2>1, <2>2
<1>5. Cardinality(Threads) \in Nat /\ Cardinality(others) \in Nat /\ Cardinality(fds) \in Nat
      /\ Cardinality(fds \cup {path}) \in Nat
  BY <1>1, <1>3, <1>4, FS_CardinalityType, DiscoveryAssumption
<1>6. IsFiniteSet(Inodes) /\ Cardinality(Inodes) = Cardinality(Threads) + 1
  <2> DEFINE n == Cardinality(Threads) + 1
  <2>1. n \in Int /\ ~(1 > n) /\ n - 1 + 1 = n
    BY <1>5
  <2>2. Inodes = 1..n
    BY DEF Inodes
  <2> HIDE DEF n
  <2>3. IsFiniteSet(1..n) /\ Cardinality(1..n) = IF 1 > n THEN 0 ELSE n - 1 + 1
    BY <2>1, FS_Interval
  <2>4. IsFiniteSet(Inodes) /\ Cardinality(Inodes) = n
    BY <2>1, <2>2, <2>3
  <2> QED BY <2>4 DEF n
<1>7. SUFFICES ASSUME \A j \in Inodes : InUse(j) PROVE FALSE
  OBVIOUS
<1>8. Inodes \subseteq fds \cup {path}
  <2> SUFFICES ASSUME NEW j \in Inodes PROVE j \in fds \cup {path}
    OBVIOUS
  <2>1. j # NoInode
    BY ConstantsTyped
  <2>2. CASE j \in {path, tmp}
    BY <2>1, <2>2
  <2>3. CASE Opened(j)
    <3>1. PICK u \in Threads : res[u].fd = j
      BY <2>3 DEF Opened
    <3>2. u \in others /\ fd[u] = j
      BY <2>1, <3>1 DEF fd, others
    <3> QED BY <3>2 DEF fds
  <2> QED BY <1>7, <2>2, <2>3 DEF InUse
<1>9. Cardinality(Inodes) <= Cardinality(fds \cup {path})
  BY <1>4, <1>8, FS_Subset
<1> QED BY <1>1, <1>3, <1>4, <1>5, <1>6, <1>9

LEMMA OpenTmpPreserves ==
    ASSUME DiscoveryInv, NEW t \in Threads, OpenTmp(t)
    PROVE  DiscoveryInv' /\ res'[t].pc = "write" /\ \A u \in Threads : u # t => res'[u] = res[u]
<1>1. PICK i \in Inodes :
        /\ IF tmp # NoInode THEN i = tmp ELSE i = CHOOSE j \in Inodes : ~InUse(j)
        /\ tmp' = i
        /\ data' = [data EXCEPT ![i] = Empty]
        /\ To(t, [res[t] EXCEPT !.pc = "write", !.fd = i])
  BY DEF OpenTmp
<1> DEFINE q == [res[t] EXCEPT !.pc = "write", !.fd = i]
<1>2. /\ res[t] \in Resolutions /\ Sound(res[t]) /\ res[t].pc = "open"
      /\ res[t].fresh # NoRecord /\ res[t].fd = NoInode
      /\ UNCHANGED <<now, tokens, path, faults>>
  BY DEF DiscoveryInv, ResolutionInv, Resolutions, Sound, OpenTmp
<1>3. i # NoInode /\ (path # NoInode => i # path)
  <2>1. CASE tmp # NoInode
    BY <1>1, <2>1 DEF DiscoveryInv, DiskInv
  <2>2. CASE tmp = NoInode
    BY <1>1, <1>2, <2>2, FreeInode, ConstantsTyped DEF DiscoveryInv, InUse
  <2> QED BY <2>1, <2>2
<1>4. q \in Resolutions
  BY <1>2 DEF Resolutions, Phases
<1>5. /\ q.pc = "write" /\ q.key = res[t].key /\ q.fresh = res[t].fresh
      /\ q.cached = res[t].cached /\ q.map = res[t].map /\ q.fd = i
  BY <1>2 DEF Resolutions
<1>6. To(t, q)
  BY <1>1
<1> HIDE DEF q
<1>7. Sound(q)
  BY <1>2, <1>3, <1>5 DEF Sound
<1>8. /\ res' \in [Threads -> Resolutions] /\ res'[t] = q
      /\ \A u \in Threads : u # t => res'[u] = res[u]
      /\ \A u \in Threads : Sound(res[u])'
  BY <1>4, <1>6, <1>7, ToResolution DEF DiscoveryInv, ResolutionInv
<1>9. ResolutionInv'
  BY <1>2, <1>8 DEF DiscoveryInv, ResolutionInv
<1>10. DiskInv'
  <2>1. data' \in [Inodes -> Contents] /\ data'[i] = Empty
        /\ \A j \in Inodes : j # i => data'[j] = data[j]
    BY <1>1, ConstantsTyped DEF DiscoveryInv, DiskInv
  <2>2. \A j \in Inodes : j # i /\ ~InUse(j)' => ~InUse(j) \/ j = tmp
    BY <1>1, <1>2, <1>8, ConstantsTyped DEF InUse, Opened
  <2>3. \A j \in Inodes : ~InUse(j)' => data'[j] = Empty
    <3> TAKE j \in Inodes
    <3>1. CASE tmp # NoInode
      BY <1>1, <2>1, <2>2, <3>1 DEF DiscoveryInv, DiskInv
    <3>2. CASE tmp = NoInode
      BY <2>1, <2>2, <3>2, ConstantsTyped DEF DiscoveryInv, DiskInv
    <3> QED BY <3>1, <3>2
  <2>4. \A j \in Inodes : \A k \in Keys : IsServed(data'[j].map[k], k)
    <3>1. \A k \in Keys : Empty.map[k] = NoRecord
      BY ConstantsTyped DEF Empty
    <3> QED BY <2>1, <3>1, ConstantsTyped DEF DiscoveryInv, DiskInv
  <2>5. /\ path' \in Inodes \cup {NoInode} /\ tmp' \in Inodes \cup {NoInode}
        /\ path' # NoInode => path' # tmp'
    BY <1>1, <1>2, <1>3 DEF DiscoveryInv, DiskInv
  <2> QED BY <2>1, <2>3, <2>4, <2>5 DEF DiskInv, IsServed
<1> QED BY <1>5, <1>8, <1>9, <1>10 DEF DiscoveryInv

LEMMA WriteTmpPreserves ==
    ASSUME DiscoveryInv, NEW t \in Threads, WriteTmp(t)
    PROVE  DiscoveryInv' /\ res'[t].pc = "replace" /\ \A u \in Threads : u # t => res'[u] = res[u]
<1> DEFINE i == res[t].fd
           own == Json(res[t].map)
           kept == i \in {path, tmp} \/ \E u \in Threads \ {t} : res[u].fd = i
           q == [res[t] EXCEPT !.pc = "replace", !.fd = NoInode, !.map = NoRecords]
<1>1. PICK c \in {own, Torn} :
        data' = [data EXCEPT ![i] = IF kept THEN c ELSE Empty]
  BY DEF WriteTmp
<1>2. /\ res[t] \in Resolutions /\ Sound(res[t]) /\ res[t].pc = "write"
      /\ i \in Inodes /\ res[t].map \in [Keys -> Records]
      /\ To(t, q) /\ UNCHANGED <<now, tokens, path, tmp>>
  BY DEF DiscoveryInv, ResolutionInv, Resolutions, Sound, WriteTmp
<1>3. q \in Resolutions
  BY <1>2, ConstantsTyped DEF Resolutions, Phases
<1>4. /\ q.pc = "replace" /\ q.key = res[t].key /\ q.fresh = res[t].fresh
      /\ q.cached = res[t].cached /\ q.map = NoRecords /\ q.fd = NoInode
  BY <1>2 DEF Resolutions
<1> HIDE DEF q
<1>5. Sound(q)
  BY <1>2, <1>4, ConstantsTyped DEF Sound
<1>6. /\ res' \in [Threads -> Resolutions] /\ res'[t] = q
      /\ \A u \in Threads : u # t => res'[u] = res[u]
      /\ \A u \in Threads : Sound(res[u])'
  BY <1>2, <1>3, <1>5, ToResolution DEF DiscoveryInv, ResolutionInv
<1>7. ResolutionInv'
  BY <1>2, <1>6 DEF DiscoveryInv, ResolutionInv
<1>8. own \in Contents /\ own.map = res[t].map
  BY <1>2 DEF Json, Contents
<1>9. /\ c \in Contents /\ \A k \in Keys : IsServed(c.map[k], k)
      /\ Empty \in Contents /\ \A k \in Keys : IsServed(Empty.map[k], k)
  BY <1>2, <1>8, ConstantsTyped DEF Sound, Torn, Empty
<1>10. DiskInv'
  <2>1. \A j \in Inodes : j # i => (InUse(j)' <=> InUse(j))
    BY <1>2, <1>4, <1>6, ConstantsTyped DEF InUse, Opened
  <2>2. data' \in [Inodes -> Contents]
    BY <1>1, <1>2, <1>9 DEF DiscoveryInv, DiskInv
  <2>3. /\ data'[i] \in {c, Empty} /\ \A j \in Inodes : j # i => data'[j] = data[j]
        /\ ~kept => data'[i] = Empty
    BY <1>1, <1>2 DEF DiscoveryInv, DiskInv
  <2>4. \A j \in Inodes : ~InUse(j)' => data'[j] = Empty
    <3> SUFFICES ASSUME NEW j \in Inodes, ~InUse(j)' PROVE data'[j] = Empty
      OBVIOUS
    <3>1. CASE j = i
      BY <1>2, <1>6, <2>3, <3>1 DEF InUse, Opened
    <3>2. CASE j # i
      BY <2>1, <2>3, <3>2 DEF DiscoveryInv, DiskInv
    <3> QED BY <3>1, <3>2
  <2>5. \A j \in Inodes : \A k \in Keys : IsServed(data'[j].map[k], k)
    BY <1>9, <2>3 DEF DiscoveryInv, DiskInv
  <2>6. /\ path' \in Inodes \cup {NoInode} /\ tmp' \in Inodes \cup {NoInode}
        /\ path' # NoInode => path' # tmp'
    BY <1>2 DEF DiscoveryInv, DiskInv
  <2> QED BY <2>2, <2>4, <2>5, <2>6 DEF DiskInv, IsServed
<1> QED BY <1>4, <1>6, <1>7, <1>10 DEF DiscoveryInv

LEMMA ReplacePreserves ==
    ASSUME DiscoveryInv, NEW t \in Threads, Replace(t)
    PROVE  /\ DiscoveryInv'
           /\ res'[t].pc = "resolved" => res'[t].fresh # NoRecord /\ res'[t].fresh = res[t].fresh
           /\ res'[t].pc # "idle"
           /\ \A u \in Threads : u # t => res'[u] = res[u]
<1>1. /\ res[t] \in Resolutions /\ Sound(res[t]) /\ res[t].pc = "replace"
      /\ res[t].fresh \in Records /\ IsServed(res[t].fresh, res[t].key)
      /\ res[t].fresh # NoRecord /\ res[t].fd = NoInode /\ res[t].tries \in Nat
      /\ UNCHANGED <<now, tokens>>
  BY DEF DiscoveryInv, ResolutionInv, Resolutions, Sound, Replace
<1>2. CASE tmp # NoInode
  <2>1. Rename /\ Answer(t, res[t].fresh)
    BY <1>2 DEF Replace
  <2>2. /\ res' \in [Threads -> Resolutions]
        /\ \A u \in Threads : Sound(res[u])'
        /\ res'[t].fresh = res[t].fresh /\ res'[t].pc = "resolved" /\ res'[t].fd = NoInode
        /\ \A u \in Threads : u # t => res'[u] = res[u]
    BY <1>1, <2>1, AnswerSound DEF DiscoveryInv
  <2>3. ResolutionInv'
    BY <1>1, <2>2 DEF DiscoveryInv, ResolutionInv
  <2>4. /\ path' = tmp /\ tmp' = NoInode
        /\ data' = [i \in Inodes |-> IF i = path /\ ~Opened(i) THEN Empty ELSE data[i]]
    BY <2>1 DEF Rename
  <2>5. \A i \in Inodes : Opened(i)' <=> Opened(i)
    BY <1>1, <2>2, ConstantsTyped DEF Opened
  <2>6. data' \in [Inodes -> Contents]
    BY <2>4, ConstantsTyped DEF DiscoveryInv, DiskInv
  <2>7. \A i \in Inodes : ~InUse(i)' => data'[i] = Empty
    BY <2>4, <2>5 DEF DiscoveryInv, DiskInv, InUse
  <2>8. \A i \in Inodes : \A k \in Keys : IsServed(data'[i].map[k], k)
    <3>1. \A k \in Keys : IsServed(Empty.map[k], k)
      BY ConstantsTyped DEF Empty
    <3> QED BY <2>4, <3>1 DEF DiscoveryInv, DiskInv
  <2>9. /\ path' \in Inodes \cup {NoInode} /\ tmp' \in Inodes \cup {NoInode}
        /\ path' # NoInode => path' # tmp'
    BY <2>4 DEF DiscoveryInv, DiskInv
  <2>10. DiskInv'
    BY <2>6, <2>7, <2>8, <2>9 DEF DiskInv, IsServed
  <2> QED BY <1>1, <2>2, <2>3, <2>10 DEF DiscoveryInv
<1>3. CASE tmp = NoInode /\ res[t].tries + 1 < Retries
  <2> DEFINE q == [res[t] EXCEPT !.tries = @ + 1]
  <2>1. To(t, q) /\ UNCHANGED disk
    BY <1>3 DEF Replace
  <2>2. q \in Resolutions
    BY <1>1 DEF Resolutions
  <2>3. /\ q.pc = res[t].pc /\ q.key = res[t].key /\ q.fresh = res[t].fresh
        /\ q.cached = res[t].cached /\ q.map = res[t].map /\ q.fd = res[t].fd
    BY <1>1 DEF Resolutions
  <2> HIDE DEF q
  <2>4. Sound(q)
    BY <1>1, <2>3 DEF Sound
  <2>5. /\ res' \in [Threads -> Resolutions] /\ res'[t] = q
        /\ \A u \in Threads : u # t => res'[u] = res[u]
        /\ \A u \in Threads : Sound(res[u])'
    BY <2>1, <2>2, <2>4, ToResolution DEF DiscoveryInv, ResolutionInv
  <2>6. ResolutionInv'
    BY <1>1, <2>5 DEF DiscoveryInv, ResolutionInv
  <2>7. DiskInv'
    BY <2>1, <2>3, <2>5, DiskSteady DEF DiscoveryInv
  <2> QED BY <1>1, <2>3, <2>5, <2>6, <2>7 DEF DiscoveryInv
<1>4. CASE tmp = NoInode /\ ~(res[t].tries + 1 < Retries)
  <2>1. Raise(t, "broken") /\ UNCHANGED disk
    BY <1>4 DEF Replace
  <2>2. res'[t].pc = "broken"
    BY <2>1, RaiseSound DEF DiscoveryInv
  <2> QED BY <1>1, <2>1, <2>2, EndPreserves
<1> QED BY <1>2, <1>3, <1>4

\* A resolution begins for a user whose token is there.
LEMMA ResolvePreserves ==
    ASSUME DiscoveryInv, NEW t \in Threads, NEW k \in Keys, NEW force \in BOOLEAN,
           Bearer # NoUser, Resolve(t, Bearer, k, force), UNCHANGED <<now, tokens, disk>>
    PROVE  /\ DiscoveryInv' /\ res'[t].pc \in {"load", "fetch"}
           /\ \A u \in Threads : u # t => res'[u] = res[u]
<1> DEFINE pc == IF force THEN "fetch" ELSE "load"
           left == Candidates(Bearer)
           q == [Quiet EXCEPT !.pc = pc, !.user = Bearer, !.key = k, !.left = left]
<1>1. Bearer \in Users /\ tokens.file \in Users \cup {NoUser}
  BY DEF Bearer, DiscoveryInv, ResolutionInv
<1>2. left \in Seq(Users) /\ left # <<>>
  BY <1>1 DEF Candidates
<1>3. /\ res[t] \in Resolutions /\ Sound(res[t]) /\ res[t].pc = "idle" /\ res[t].fd = NoInode
      /\ To(t, q)
  BY DEF Resolve, DiscoveryInv, ResolutionInv, Sound
<1>4. pc \in {"load", "fetch"}
  OBVIOUS
<1> HIDE DEF left, pc
<1>5. q \in Resolutions
  BY <1>1, <1>2, <1>4, ConstantsTyped DEF Resolutions, Phases
<1>6. /\ q.pc = pc /\ q.key = k /\ q.fresh = NoRecord /\ q.cached = NoRecord
      /\ q.map = NoRecords /\ q.fd = NoInode /\ q.left = left
  BY DEF Quiet
<1> HIDE DEF q
<1>7. Sound(q)
  BY <1>2, <1>4, <1>6, ConstantsTyped DEF Sound
<1>8. /\ res' \in [Threads -> Resolutions] /\ res'[t] = q
      /\ \A u \in Threads : u # t => res'[u] = res[u]
      /\ \A u \in Threads : Sound(res[u])'
  BY <1>3, <1>5, <1>7, ToResolution DEF DiscoveryInv, ResolutionInv
<1>9. ResolutionInv'
  BY <1>8 DEF DiscoveryInv, ResolutionInv
<1>10. DiskInv'
  BY <1>3, <1>6, <1>8, DiskSteady DEF DiscoveryInv
<1> QED BY <1>4, <1>6, <1>8, <1>9, <1>10 DEF DiscoveryInv

\* The caller has taken the outcome.
LEMMA QuietPreserves ==
    ASSUME DiscoveryInv, NEW t \in Threads, To(t, Quiet), UNCHANGED <<now, tokens, disk>>,
           res[t].pc # "write"
    PROVE  DiscoveryInv' /\ res'[t].pc = "idle" /\ \A u \in Threads : u # t => res'[u] = res[u]
<1>1. res[t].fd = NoInode
  BY DEF DiscoveryInv, ResolutionInv, Sound
<1>2. /\ res' \in [Threads -> Resolutions] /\ res'[t] = Quiet
      /\ \A u \in Threads : u # t => res'[u] = res[u]
      /\ \A u \in Threads : Sound(res[u])'
  BY ConstantsTyped, ToResolution DEF DiscoveryInv, ResolutionInv
<1>3. ResolutionInv'
  BY <1>2 DEF DiscoveryInv, ResolutionInv
<1>4. DiskInv'
  BY <1>1, <1>2, ConstantsTyped, DiskSteady DEF DiscoveryInv
<1>5. Quiet.pc = "idle"
  BY DEF Quiet
<1> QED BY <1>2, <1>3, <1>4, <1>5 DEF DiscoveryInv

LEMMA DiscoveryStepPreserves ==
    ASSUME DiscoveryInv, NEW t \in Threads, DiscoveryStep(t)
    PROVE  /\ DiscoveryInv'
           /\ res[t].pc # "idle"
           /\ \A u \in Threads : u # t => res'[u] = res[u]
           /\ res'[t].pc = "resolved" =>
                /\ res'[t].fresh # NoRecord
                /\ ~Expired(res'[t].fresh) \/ res'[t].fresh = res[t].fresh
<1>1. CASE Load(t)
  BY <1>1, LoadPreserves DEF Load
<1>2. CASE FetchServed(t)
  BY <1>2, FetchServedPreserves DEF FetchServed
<1>3. CASE FetchRefused(t)
  BY <1>3, FetchRefusedPreserves DEF FetchRefused, Refusal
<1>4. CASE FetchBroken(t)
  BY <1>4, FetchBrokenPreserves DEF FetchBroken
<1>5. CASE ReadForStore(t)
  BY <1>5, ReadForStorePreserves DEF ReadForStore
<1>6. CASE OpenTmp(t)
  BY <1>6, OpenTmpPreserves DEF OpenTmp
<1>7. CASE WriteTmp(t)
  BY <1>7, WriteTmpPreserves DEF WriteTmp
<1>8. CASE Replace(t)
  BY <1>8, ReplacePreserves DEF Replace
<1> QED BY <1>1, <1>2, <1>3, <1>4, <1>5, <1>6, <1>7, <1>8 DEF DiscoveryStep

---------------------------------------------------------------------------
(* Calls. *)

CallRecord == [pc : Stages, kind : {"none", "tool", "delete", "script", "info"}, client : Clients,
               info : Records]
Statuses == {"none", "active", "archived", "destroyed"}

CallsInv ==
    /\ call \in [Threads -> CallRecord]
    /\ bound \in [Threads -> Clients]
    /\ default \in Clients /\ handles \in [Scopes -> Clients]
    /\ projects \in [Servers -> Statuses]
    /\ \A t \in Threads : res[t].pc # "idle" => call[t].pc \in {"configure", "boot"}
    /\ \A t \in Threads : call[t].info # NoRecord => IsServed(call[t].info, call[t].info.key)

\* In a hosted server a call never goes through the default client, and what it uses is of
\* the tenant it is bound to, down to the cache it shares with the others.
HostedInv ==
    hosted =>
      /\ \A t \in Threads :
           /\ call[t].pc \in {"idle", "cached", "look", "create", "get", "find", "archive",
                              "destroy", "done", "failed"}
           /\ bound[t] # NoClient => bound[t].tenant \in Tenants
           /\ call[t].pc \in {"cached", "look", "create", "get"} => bound[t] # NoClient
           /\ call[t].client # NoClient /\ bound[t] # NoClient
                => call[t].client.tenant = bound[t].tenant
      /\ \A s \in Scopes : handles[s] # NoClient => handles[s].tenant = s

SessionInv == DiscoveryInv /\ CallsInv /\ HostedInv /\ HandlesHaveTheirProject

\* Servers forget no project that they have had.
ProjectsKept ==
    /\ projects' \in [Servers -> Statuses]
    /\ \A s \in Servers : projects[s] # "none" => projects'[s] # "none"

LEMMA ClientsTyped ==
    /\ NoClient \in Clients /\ Tokenless \in Clients
    /\ \A u \in Users \cup {NoUser} : Unrouted(u, "legacy") \in Clients
    /\ \A u \in Users \cup {NoUser}, r \in Records :
         Client(u, r) \in Clients /\ Client(u, r).tenant = r.tenant
    /\ NoCall \in CallRecord /\ NoCall.client = NoClient /\ NoCall.info = NoRecord
    /\ NoCall.pc = "idle" /\ Local \in Scopes
<1>1. NoHint \in Keys
  BY DEF Keys
<1>2. \A u \in Users \cup {NoUser}, at \in {"region", "local", "legacy", "none"} :
        Unrouted(u, at) \in Clients
  BY <1>1 DEF Unrouted, Clients, Targets
<1>3. NoClient \in Clients /\ Tokenless \in Clients
  BY <1>2 DEF NoClient, Tokenless
<1>4. \A u \in Users \cup {NoUser}, r \in Records :
         Client(u, r) \in Clients /\ Client(u, r).tenant = r.tenant
  BY DEF Client, Clients, Records, Targets
<1>5. NoCall \in CallRecord
  BY <1>3, ConstantsTyped DEF NoCall, CallRecord, Stages
<1>6. NoCall.client = NoClient /\ NoCall.info = NoRecord /\ NoCall.pc = "idle"
  BY DEF NoCall
<1> QED BY <1>2, <1>3, <1>4, <1>5, <1>6 DEF Scopes

LEMMA AtTyped ==
    ASSUME call \in [Threads -> CallRecord], NEW t \in Threads, NEW pc \in Stages, At(t, pc)
    PROVE  /\ call' \in [Threads -> CallRecord]
           /\ call'[t].pc = pc /\ call'[t].client = call[t].client
           /\ call'[t].info = call[t].info /\ call'[t].kind = call[t].kind
           /\ \A u \in Threads : u # t => call'[u] = call[u]
BY DEF At, CallRecord

LEMMA WithTyped ==
    ASSUME call \in [Threads -> CallRecord], NEW t \in Threads, NEW pc \in Stages,
           NEW c \in Clients, With(t, pc, c)
    PROVE  /\ call' \in [Threads -> CallRecord]
           /\ call'[t].pc = pc /\ call'[t].client = c
           /\ call'[t].info = call[t].info /\ call'[t].kind = call[t].kind
           /\ \A u \in Threads : u # t => call'[u] = call[u]
BY DEF With, CallRecord

LEMMA ServerTyped == \A c \in Clients : Server(c) \in Servers
BY DEF Clients, Server, Servers

LEMMA ProjectsSteady ==
    ASSUME CallsInv, UNCHANGED projects
    PROVE  ProjectsKept
BY DEF CallsInv, ProjectsKept

LEMMA CurrentTyped ==
    ASSUME CallsInv, NEW t \in Threads
    PROVE  Current(t) \in Clients
BY DEF CallsInv, Current

\* A call of one thread takes a step: what must hold of its own record, of its binding and
\* of the handle it leaves in the cache.
LEMMA ThreadStep ==
    ASSUME SessionInv, DiscoveryInv', NEW t \in Threads, UNCHANGED hosted,
           call' \in [Threads -> CallRecord], \A u \in Threads : u # t => call'[u] = call[u],
           bound' \in [Threads -> Clients], \A u \in Threads : u # t => bound'[u] = bound[u],
           default' \in Clients, handles' \in [Scopes -> Clients],
           \A u \in Threads : u # t => res'[u] = res[u],
           res'[t].pc # "idle" => call'[t].pc \in {"configure", "boot"},
           call'[t].info # NoRecord => IsServed(call'[t].info, call'[t].info.key),
           UNCHANGED projects \/ ProjectsKept,
           \A s \in Scopes :
              \/ handles'[s] = handles[s]
              \/ projects'[Server(handles'[s])] # "none" /\ (hosted => handles'[s].tenant = s),
           hosted =>
              /\ call'[t].pc \in {"idle", "cached", "look", "create", "get", "find", "archive",
                                 "destroy", "done", "failed"}
              /\ bound'[t] # NoClient => bound'[t].tenant \in Tenants
              /\ call'[t].pc \in {"cached", "look", "create", "get"} => bound'[t] # NoClient
              /\ call'[t].client # NoClient /\ bound'[t] # NoClient
                   => call'[t].client.tenant = bound'[t].tenant
    PROVE  SessionInv'
<1>0. ProjectsKept
  BY ProjectsSteady DEF SessionInv
<1>1. CallsInv'
  <2>1. \A u \in Threads : res'[u].pc # "idle" => call'[u].pc \in {"configure", "boot"}
    BY DEF SessionInv, CallsInv
  <2>2. \A u \in Threads : call'[u].info # NoRecord
                              => IsServed(call'[u].info, call'[u].info.key)
    BY DEF SessionInv, CallsInv
  <2> QED BY <1>0, <2>1, <2>2 DEF CallsInv, IsServed, ProjectsKept
<1>2. HostedInv'
  BY DEF SessionInv, HostedInv
<1>3. HandlesHaveTheirProject'
  <2>1. \A s \in Scopes : Server(handles[s]) \in Servers
    BY ServerTyped DEF SessionInv, CallsInv
  <2>2. \A s \in Scopes : handles[s] # NoClient => projects'[Server(handles[s])] # "none"
    BY <1>0, <2>1 DEF SessionInv, HandlesHaveTheirProject, ProjectsKept
  <2> QED BY <2>2 DEF HandlesHaveTheirProject, Server
<1> QED BY <1>1, <1>2, <1>3 DEF SessionInv

\* No step of a call of a hosted server waits for discovery.
LEMMA HostedIsQuiet ==
    ASSUME SessionInv, NEW t \in Threads,
           res[t].pc # "idle" \/ call[t].pc \in {"configure", "boot", "assign", "return"}
    PROVE  ~hosted
BY DEF SessionInv, CallsInv, HostedInv

\* With nothing of the discovery touched, its invariant is not either.
LEMMA DiscoverySteady ==
    ASSUME DiscoveryInv, UNCHANGED <<now, tokens, disk, res>>
    PROVE  DiscoveryInv'
<1>1. ResolutionInv'
  BY DEF DiscoveryInv, ResolutionInv, Sound, IsServed
<1>2. DiskInv'
  BY DiskSteady DEF DiscoveryInv
<1> QED BY <1>1, <1>2 DEF DiscoveryInv

\* A call begins with record c while its thread resolves nothing.
LEMMA NewCall ==
    ASSUME CallsInv, NEW t \in Threads, NEW c \in CallRecord, call' = [call EXCEPT ![t] = c]
    PROVE  /\ call' \in [Threads -> CallRecord] /\ call'[t] = c
           /\ \A u \in Threads : u # t => call'[u] = call[u]
BY DEF CallsInv

\* A thread between two calls has no resolution under way.
LEMMA BeginsQuiet ==
    ASSUME CallsInv, NEW t \in Threads, call[t].pc \in {"idle", "done", "failed"}
    PROVE  res[t].pc = "idle"
BY DEF CallsInv

LEMMA HostedCallPreserves ==
    ASSUME SessionInv, NEW t \in Threads, NEW u \in Users, NEW kind \in {"tool", "delete"},
           HostedCall(t, u, kind)
    PROVE  SessionInv'
<1> DEFINE tenant == Serves[u][NoHint]
           r == [NoRecord EXCEPT !.tenant = tenant, !.user = u]
           c == [NoCall EXCEPT !.pc = Begun(kind), !.kind = kind]
<1>1. /\ hosted /\ tenant # NoTenant /\ call[t].pc \in {"idle", "done", "failed"}
      /\ bound' = [bound EXCEPT ![t] = Client(u, r)]
      /\ call' = [call EXCEPT ![t] = c]
      /\ UNCHANGED <<hosted, now, tokens, disk, res, default, handles, projects>>
  BY DEF HostedCall, Begins, discovery
<1>2. tenant \in Tenants
  BY <1>1, DiscoveryAssumption DEF Keys
<1>3. r \in Records /\ r.tenant = tenant
  BY <1>2, ConstantsTyped DEF Records, NoRecord
<1>4. Client(u, r) \in Clients /\ Client(u, r).tenant = tenant
  BY <1>3, ClientsTyped
<1>5. /\ c \in CallRecord /\ c.pc \in {"cached", "get"} /\ c.client = NoClient
      /\ c.info = NoRecord
  BY ClientsTyped DEF CallRecord, Stages, NoCall, Begun
<1> HIDE DEF c, r
<1>6. /\ call' \in [Threads -> CallRecord] /\ call'[t] = c
      /\ \A v \in Threads : v # t => call'[v] = call[v]
  BY <1>1, <1>5, NewCall DEF SessionInv
<1>7. /\ bound' \in [Threads -> Clients] /\ bound'[t] = Client(u, r)
      /\ \A v \in Threads : v # t => bound'[v] = bound[v]
  BY <1>1, <1>4 DEF SessionInv, CallsInv
<1>8. DiscoveryInv'
  BY <1>1, DiscoverySteady DEF SessionInv
<1>9. bound'[t] # NoClient
  BY <1>2, <1>4, <1>7, DiscoveryAssumption DEF NoClient, Unrouted
<1>10. res'[t].pc = "idle"
  BY <1>1, BeginsQuiet DEF SessionInv
<1>11. default' \in Clients /\ handles' \in [Scopes -> Clients]
  BY <1>1 DEF SessionInv, CallsInv
<1> QED BY <1>1, <1>2, <1>4, <1>5, <1>6, <1>7, <1>8, <1>9, <1>10, <1>11, ThreadStep

LEMMA AutoConfigurePreserves ==
    ASSUME SessionInv, NEW t \in Threads, NEW kind \in {"tool", "delete", "script"}, NEW k \in Keys,
           NEW force \in BOOLEAN, AutoConfigure(t, kind, k, force)
    PROVE  SessionInv'
<1> DEFINE c == [NoCall EXCEPT !.pc = IF Bearer # NoUser THEN "configure" ELSE Begun(kind),
                               !.kind = kind]
<1>1. /\ ~hosted /\ call[t].pc \in {"idle", "done", "failed"}
      /\ call' = [call EXCEPT ![t] = c]
      /\ UNCHANGED <<hosted, now, tokens, disk, bound, handles, projects>>
  BY DEF AutoConfigure, Begins
<1>2. /\ c \in CallRecord /\ c.info = NoRecord
      /\ Bearer # NoUser => c.pc = "configure"
  BY ClientsTyped DEF CallRecord, Stages, NoCall, Begun
<1> HIDE DEF c
<1>3. /\ call' \in [Threads -> CallRecord] /\ call'[t] = c
      /\ \A v \in Threads : v # t => call'[v] = call[v]
  BY <1>1, <1>2, NewCall DEF SessionInv
<1>4. /\ bound' \in [Threads -> Clients] /\ handles' \in [Scopes -> Clients]
      /\ res[t].pc = "idle"
  BY <1>1, BeginsQuiet DEF SessionInv, CallsInv
<1>5. /\ DiscoveryInv' /\ default' \in Clients
      /\ \A u \in Threads : u # t => res'[u] = res[u]
      /\ res'[t].pc # "idle" => c.pc \in {"configure", "boot"}
  <2>1. CASE Bearer # NoUser
    <3>1. Resolve(t, Bearer, k, force) /\ UNCHANGED default
      BY <2>1 DEF AutoConfigure
    <3>2. DiscoveryInv' /\ \A u \in Threads : u # t => res'[u] = res[u]
      BY <1>1, <2>1, <3>1, ResolvePreserves DEF SessionInv
    <3> QED BY <1>2, <2>1, <3>1, <3>2 DEF SessionInv, CallsInv
  <2>2. CASE Bearer = NoUser
    <3>1. UNCHANGED res /\ default' \in {default, Tokenless}
      BY <2>2 DEF AutoConfigure
    <3>2. DiscoveryInv'
      BY <1>1, <3>1, DiscoverySteady DEF SessionInv
    <3> QED BY <1>4, <3>1, <3>2, ClientsTyped DEF SessionInv, CallsInv
  <2> QED BY <2>1, <2>2
<1> QED BY <1>1, <1>2, <1>3, <1>4, <1>5, ThreadStep

\* What a resolution leaves behind makes a client.
LEMMA ResolvedTyped ==
    ASSUME DiscoveryInv, NEW t \in Threads
    PROVE  /\ Client(res[t].user, res[t].fresh) \in Clients
           /\ Unrouted(res[t].user, "legacy") \in Clients
<1>1. res[t] \in Resolutions
  BY DEF DiscoveryInv, ResolutionInv
<1>2. res[t].user \in Users \cup {NoUser} /\ res[t].fresh \in Records
  BY <1>1 DEF Resolutions
<1> QED BY <1>2, ClientsTyped

LEMMA ConfigurePreserves ==
    ASSUME SessionInv, NEW t \in Threads, Configure(t)
    PROVE  SessionInv'
<1> DEFINE pc == Begun(call[t].kind)
<1>1. /\ call[t].pc = "configure" /\ res[t].pc \in {"resolved", "refused", "broken"}
      /\ default' \in {Client(res[t].user, res[t].fresh), default}
      /\ To(t, Quiet) /\ At(t, pc)
      /\ UNCHANGED <<hosted, now, tokens, disk, bound, handles, projects>>
  BY DEF Configure
<1>2. ~hosted
  BY <1>1, HostedIsQuiet
<1>3. pc \in Stages
  BY DEF Stages, Begun
<1>4. /\ call' \in [Threads -> CallRecord] /\ call'[t].info = call[t].info
      /\ \A u \in Threads : u # t => call'[u] = call[u]
  BY <1>1, <1>3, AtTyped DEF SessionInv, CallsInv
<1>5. /\ DiscoveryInv' /\ res'[t].pc = "idle"
      /\ \A u \in Threads : u # t => res'[u] = res[u]
  BY <1>1, QuietPreserves DEF SessionInv
<1>6. /\ default' \in Clients /\ bound' \in [Threads -> Clients]
      /\ handles' \in [Scopes -> Clients]
  BY <1>1, ResolvedTyped DEF SessionInv, CallsInv
<1>7. call'[t].info # NoRecord => IsServed(call'[t].info, call'[t].info.key)
  BY <1>4 DEF SessionInv, CallsInv
<1> QED BY <1>1, <1>2, <1>4, <1>5, <1>6, <1>7, ThreadStep

LEMMA ScriptCallPreserves ==
    ASSUME SessionInv, NEW t \in Threads, ScriptCall(t)
    PROVE  SessionInv'
<1> DEFINE c == [NoCall EXCEPT !.pc = "get", !.kind = "script"]
<1>1. /\ ~hosted /\ call[t].pc \in {"idle", "done", "failed"}
      /\ call' = [call EXCEPT ![t] = c]
      /\ UNCHANGED <<hosted, now, tokens, disk, res, default, bound, handles, projects>>
  BY DEF ScriptCall, Begins, discovery
<1>2. c \in CallRecord /\ c.info = NoRecord
  BY ClientsTyped DEF CallRecord, Stages, NoCall
<1> HIDE DEF c
<1>3. /\ call' \in [Threads -> CallRecord] /\ call'[t] = c
      /\ \A v \in Threads : v # t => call'[v] = call[v]
  BY <1>1, <1>2, NewCall DEF SessionInv
<1>4. DiscoveryInv' /\ res'[t].pc = "idle"
  BY <1>1, DiscoverySteady, BeginsQuiet DEF SessionInv
<1> QED BY <1>1, <1>2, <1>3, <1>4, ThreadStep DEF SessionInv, CallsInv

LEMMA TenantInfoPreserves ==
    ASSUME SessionInv, NEW t \in Threads, NEW k \in Keys, TenantInfo(t, k)
    PROVE  SessionInv'
<1> DEFINE r == ReadAll[k]
           c == [NoCall EXCEPT !.pc = "done", !.kind = "info", !.info = r]
<1>1. /\ ~hosted /\ call[t].pc \in {"idle", "done", "failed"} /\ r # NoRecord
      /\ call' = [call EXCEPT ![t] = c]
      /\ UNCHANGED <<hosted, now, tokens, disk, res, default, bound, handles, projects>>
  BY DEF TenantInfo, Begins, discovery
<1>2. r \in Records /\ IsServed(r, k)
  BY ReadAllSound DEF SessionInv, DiscoveryInv
<1>3. IsServed(r, r.key)
  BY <1>1, <1>2 DEF IsServed
<1> HIDE DEF r
<1>4. c \in CallRecord /\ c.info = r
  BY <1>2, ClientsTyped DEF CallRecord, Stages, NoCall
<1> HIDE DEF c
<1>5. /\ call' \in [Threads -> CallRecord] /\ call'[t] = c
      /\ \A v \in Threads : v # t => call'[v] = call[v]
  BY <1>1, <1>4, NewCall DEF SessionInv
<1>6. DiscoveryInv' /\ res'[t].pc = "idle"
  BY <1>1, DiscoverySteady, BeginsQuiet DEF SessionInv
<1> QED BY <1>1, <1>3, <1>4, <1>5, <1>6, ThreadStep DEF SessionInv, CallsInv

LEMMA ExitPreserves ==
    ASSUME SessionInv, NEW t \in Threads, Exit(t)
    PROVE  SessionInv'
<1>1. /\ call[t].pc \in {"idle", "done", "failed"}
      /\ bound' = [bound EXCEPT ![t] = NoClient] /\ call' = [call EXCEPT ![t] = NoCall]
      /\ UNCHANGED <<hosted, now, tokens, disk, res, default, handles, projects>>
  BY DEF Exit, discovery
<1>2. /\ call' \in [Threads -> CallRecord] /\ call'[t] = NoCall
      /\ \A v \in Threads : v # t => call'[v] = call[v]
  BY <1>1, ClientsTyped, NewCall DEF SessionInv
<1>3. /\ bound' \in [Threads -> Clients] /\ bound'[t] = NoClient
      /\ \A v \in Threads : v # t => bound'[v] = bound[v]
  BY <1>1, ClientsTyped DEF SessionInv, CallsInv
<1>4. DiscoveryInv' /\ res'[t].pc = "idle"
  BY <1>1, DiscoverySteady, BeginsQuiet DEF SessionInv
<1>5. /\ default' \in Clients /\ handles' \in [Scopes -> Clients]
      /\ NoCall.info = NoRecord /\ NoCall.pc = "idle"
  BY <1>1, ClientsTyped DEF SessionInv, CallsInv
<1> QED BY <1>1, <1>2, <1>3, <1>4, <1>5, ThreadStep

\* A call moves on, with a client of its choice, while nothing is resolved for it.
LEMMA CallMoves ==
    ASSUME SessionInv, NEW t \in Threads, NEW pc \in Stages, NEW c \in Clients,
           With(t, pc, c), UNCHANGED <<hosted, now, tokens, disk, res, bound>>,
           default' \in Clients, handles' \in [Scopes -> Clients],
           UNCHANGED projects \/ ProjectsKept, res[t].pc = "idle",
           \A s \in Scopes :
              \/ handles'[s] = handles[s]
              \/ projects'[Server(handles'[s])] # "none" /\ (hosted => handles'[s].tenant = s),
           hosted => /\ pc \in {"look", "create", "find", "archive", "destroy", "done", "failed"}
                     /\ pc \in {"look", "create"} => bound[t] # NoClient
                     /\ c # NoClient /\ bound[t] # NoClient => c.tenant = bound[t].tenant
    PROVE  SessionInv'
<1>1. /\ call' \in [Threads -> CallRecord]
      /\ call'[t].pc = pc /\ call'[t].client = c /\ call'[t].info = call[t].info
      /\ \A u \in Threads : u # t => call'[u] = call[u]
  BY WithTyped DEF SessionInv, CallsInv
<1>2. DiscoveryInv'
  BY DiscoverySteady DEF SessionInv
<1>3. /\ bound' \in [Threads -> Clients]
      /\ call'[t].info # NoRecord => IsServed(call'[t].info, call'[t].info.key)
  BY <1>1 DEF SessionInv, CallsInv
<1>4. hosted => (bound'[t] # NoClient => bound'[t].tenant \in Tenants)
  BY DEF SessionInv, HostedInv
<1> QED BY <1>1, <1>2, <1>3, <1>4, ThreadStep

\* At is With the client the call has.
LEMMA AtIsWith ==
    ASSUME CallsInv, NEW t \in Threads, NEW pc \in Stages, At(t, pc)
    PROVE  With(t, pc, call[t].client) /\ call[t].client \in Clients
BY DEF CallsInv, At, With, CallRecord

LEMMA GetClientPreserves ==
    ASSUME SessionInv, NEW t \in Threads, GetClient(t)
    PROVE  SessionInv'
<1>1. /\ call[t].pc = "get"
      /\ UNCHANGED <<hosted, now, tokens, disk, default, bound, handles, projects>>
  BY DEF GetClient
<1>2. /\ res[t].pc = "idle"
      /\ hosted => bound[t] # NoClient /\ Current(t) = bound[t]
  BY <1>1 DEF SessionInv, CallsInv, HostedInv, Current
<1>3. /\ default' \in Clients /\ handles' \in [Scopes -> Clients]
      /\ bound' \in [Threads -> Clients]
  BY <1>1 DEF SessionInv, CallsInv
<1>4. CASE Current(t) # NoClient
  <2>1. With(t, After(t), Current(t)) /\ UNCHANGED res
    BY <1>4 DEF GetClient
  <2>2. /\ After(t) \in Stages /\ After(t) \in {"done", "find", "look"}
        /\ Current(t) \in Clients
    BY CurrentTyped DEF After, Stages, SessionInv
  <2> QED BY <1>1, <1>2, <1>3, <2>1, <2>2, CallMoves
<1>5. CASE Current(t) = NoClient /\ Bearer = NoUser
  <2>1. With(t, "assign", Tokenless) /\ UNCHANGED res
    BY <1>5 DEF GetClient
  <2>2. "assign" \in Stages /\ ~hosted
    BY <1>2, <1>5 DEF Stages
  <2> QED BY <1>1, <1>2, <1>3, <2>1, <2>2, ClientsTyped, CallMoves
<1>6. CASE Current(t) = NoClient /\ Bearer # NoUser
  <2>1. Resolve(t, Bearer, NoHint, FALSE) /\ At(t, "boot")
    BY <1>6 DEF GetClient
  <2>2. ~hosted /\ DiscoveryInv' /\ \A u \in Threads : u # t => res'[u] = res[u]
    BY <1>1, <1>2, <1>6, <2>1, ResolvePreserves DEF SessionInv, Keys
  <2>3. /\ call' \in [Threads -> CallRecord]
        /\ call'[t].pc = "boot" /\ call'[t].info = call[t].info
        /\ \A u \in Threads : u # t => call'[u] = call[u]
    BY <2>1, AtTyped DEF SessionInv, CallsInv, Stages
  <2>4. call'[t].info # NoRecord => IsServed(call'[t].info, call'[t].info.key)
    BY <2>3 DEF SessionInv, CallsInv
  <2> QED BY <1>1, <1>2, <1>3, <2>2, <2>3, <2>4, ThreadStep
<1> QED BY <1>4, <1>5, <1>6

LEMMA BootPreserves ==
    ASSUME SessionInv, NEW t \in Threads, Boot(t)
    PROVE  SessionInv'
<1>1. /\ call[t].pc = "boot" /\ res[t].pc \in {"resolved", "refused", "broken"}
      /\ \E c \in {Client(res[t].user, res[t].fresh), Unrouted(res[t].user, "legacy")} :
            With(t, "assign", c)
      /\ To(t, Quiet)
      /\ UNCHANGED <<hosted, now, tokens, disk, default, bound, handles, projects>>
  BY DEF Boot
<1>2. ~hosted
  BY <1>1, HostedIsQuiet
<1>3. PICK c \in Clients : With(t, "assign", c)
  BY <1>1, ResolvedTyped DEF SessionInv
<1>4. /\ call' \in [Threads -> CallRecord] /\ call'[t].info = call[t].info
      /\ \A u \in Threads : u # t => call'[u] = call[u]
  BY <1>3, WithTyped DEF SessionInv, CallsInv, Stages
<1>5. /\ DiscoveryInv' /\ res'[t].pc = "idle"
      /\ \A u \in Threads : u # t => res'[u] = res[u]
  BY <1>1, QuietPreserves DEF SessionInv
<1>6. call'[t].info # NoRecord => IsServed(call'[t].info, call'[t].info.key)
  BY <1>4 DEF SessionInv, CallsInv
<1> QED BY <1>1, <1>2, <1>4, <1>5, <1>6, ThreadStep DEF SessionInv, CallsInv

LEMMA AssignDefaultPreserves ==
    ASSUME SessionInv, NEW t \in Threads, AssignDefault(t)
    PROVE  SessionInv'
<1>1. /\ call[t].pc = "assign" /\ default' = call[t].client /\ At(t, "return")
      /\ UNCHANGED <<hosted, now, tokens, disk, res, bound, handles, projects>>
  BY DEF AssignDefault, discovery
<1>2. ~hosted /\ res[t].pc = "idle" /\ handles' \in [Scopes -> Clients]
  BY <1>1, HostedIsQuiet DEF SessionInv, CallsInv
<1>3. "return" \in Stages
  BY DEF Stages
<1>4. With(t, "return", call[t].client) /\ call[t].client \in Clients
  BY <1>1, <1>3, AtIsWith DEF SessionInv
<1> QED BY <1>1, <1>2, <1>3, <1>4, CallMoves

LEMMA ReturnDefaultPreserves ==
    ASSUME SessionInv, NEW t \in Threads, ReturnDefault(t)
    PROVE  SessionInv'
<1>1. /\ call[t].pc = "return" /\ With(t, After(t), default)
      /\ UNCHANGED <<hosted, now, tokens, disk, res, default, bound, handles, projects>>
  BY DEF ReturnDefault, discovery
<1>2. ~hosted /\ res[t].pc = "idle" /\ handles' \in [Scopes -> Clients] /\ default \in Clients
  BY <1>1, HostedIsQuiet DEF SessionInv, CallsInv
<1>3. After(t) \in Stages
  BY DEF After, Stages
<1> QED BY <1>1, <1>2, <1>3, CallMoves

\* The scope a call's handle is cached under: in a hosted server its tenant.
LEMMA ScopeTyped ==
    ASSUME SessionInv, NEW t \in Threads, hosted => bound[t] # NoClient
    PROVE  Scope(t) \in Scopes /\ (hosted => Scope(t) = bound[t].tenant)
BY DEF Scope, Scopes, SessionInv, HostedInv

LEMMA CachedProjectPreserves ==
    ASSUME SessionInv, NEW t \in Threads, CachedProject(t)
    PROVE  SessionInv'
<1> DEFINE h == handles[Scope(t)]
<1>1. /\ call[t].pc = "cached"
      /\ UNCHANGED <<hosted, now, tokens, disk, res, default, bound, handles, projects>>
  BY DEF CachedProject, discovery
<1>2. /\ res[t].pc = "idle" /\ default' \in Clients /\ handles' \in [Scopes -> Clients]
      /\ hosted => bound[t] # NoClient
  BY <1>1 DEF SessionInv, CallsInv, HostedInv
<1>3. Scope(t) \in Scopes /\ (hosted => Scope(t) = bound[t].tenant)
  BY <1>2, ScopeTyped
<1>4. h \in Clients /\ (hosted /\ h # NoClient => h.tenant = bound[t].tenant)
  BY <1>3 DEF SessionInv, CallsInv, HostedInv
<1>5. CASE h # NoClient
  <2>1. With(t, "done", h) /\ "done" \in Stages
    BY <1>5 DEF CachedProject, Stages
  <2> HIDE DEF h
  <2> QED BY <1>1, <1>2, <1>4, <2>1, CallMoves
<1>6. CASE h = NoClient
  <2> DEFINE pc == IF Current(t) = NoClient THEN "get" ELSE "look"
  <2>1. At(t, pc) /\ pc \in Stages
    BY <1>6 DEF CachedProject, Stages
  <2>2. hosted => pc = "look"
    BY <1>2 DEF Current
  <2> HIDE DEF pc
  <2>3. With(t, pc, call[t].client) /\ call[t].client \in Clients
    BY <2>1, AtIsWith DEF SessionInv
  <2>4. hosted => (call[t].client # NoClient => call[t].client.tenant = bound[t].tenant)
    BY <1>2 DEF SessionInv, HostedInv
  <2> QED BY <1>1, <1>2, <2>1, <2>2, <2>3, <2>4, CallMoves
<1> QED BY <1>5, <1>6

\* A project found or made where the current client sends leaves a good handle.
LEMMA KeepPreserves ==
    ASSUME SessionInv, NEW t \in Threads, Keep(t, Current(t)), call[t].pc \in {"look", "create"},
           UNCHANGED <<hosted, now, tokens, disk, res, default, bound>>,
           UNCHANGED projects \/ ProjectsKept, projects'[Server(Current(t))] # "none"
    PROVE  SessionInv'
<1>1. /\ res[t].pc = "idle" /\ default' \in Clients
      /\ hosted => bound[t] # NoClient
  BY DEF SessionInv, CallsInv, HostedInv
<1>2. Scope(t) \in Scopes /\ (hosted => Scope(t) = bound[t].tenant)
  BY <1>1, ScopeTyped
<1>3. Current(t) \in Clients /\ (hosted => Current(t) = bound[t])
  BY <1>1, CurrentTyped DEF SessionInv, Current
<1>4. /\ handles' \in [Scopes -> Clients]
      /\ \A s \in Scopes : handles'[s] = IF s = Scope(t) THEN Current(t) ELSE handles[s]
  BY <1>2, <1>3 DEF Keep, SessionInv, CallsInv
<1>5. With(t, "done", Current(t)) /\ "done" \in Stages
  BY DEF Keep, Stages
<1>6. \A s \in Scopes :
        \/ handles'[s] = handles[s]
        \/ projects'[Server(handles'[s])] # "none" /\ (hosted => handles'[s].tenant = s)
  BY <1>2, <1>3, <1>4
<1>7. hosted => Current(t).tenant = bound[t].tenant
  BY <1>3
<1> QED BY <1>1, <1>3, <1>4, <1>5, <1>6, <1>7, CallMoves

LEMMA GetProjectPreserves ==
    ASSUME SessionInv, NEW t \in Threads, GetProject(t)
    PROVE  SessionInv'
<1>1. /\ call[t].pc = "look"
      /\ UNCHANGED <<hosted, now, tokens, disk, res, default, bound, projects>>
  BY DEF GetProject, discovery
<1>2. CASE projects[Server(Current(t))] = "active"
  <2>1. Keep(t, Current(t))
    BY <1>2 DEF GetProject
  <2> QED BY <1>1, <1>2, <2>1, KeepPreserves
<1>3. CASE projects[Server(Current(t))] # "active"
  <2>1. With(t, "create", Current(t)) /\ UNCHANGED handles /\ "create" \in Stages
    BY <1>3 DEF GetProject, Stages
  <2>2. /\ res[t].pc = "idle" /\ default' \in Clients /\ handles' \in [Scopes -> Clients]
        /\ hosted => bound[t] # NoClient
    BY <1>1, <2>1 DEF SessionInv, CallsInv, HostedInv
  <2>3. Current(t) \in Clients /\ (hosted => Current(t) = bound[t])
    BY <2>2, CurrentTyped DEF SessionInv, Current
  <2>4. hosted => Current(t).tenant = bound[t].tenant
    BY <2>3
  <2> QED BY <1>1, <2>1, <2>2, <2>3, <2>4, CallMoves
<1> QED BY <1>2, <1>3

LEMMA CreateProjectPreserves ==
    ASSUME SessionInv, NEW t \in Threads, CreateProject(t)
    PROVE  SessionInv'
<1>1. /\ call[t].pc = "create"
      /\ UNCHANGED <<hosted, now, tokens, disk, res, default, bound>>
  BY DEF CreateProject, discovery
<1>2. CASE projects[Server(Current(t))] \notin {"active", "archived"}
  <2>1. Found(Server(Current(t))) /\ Keep(t, Current(t))
    BY <1>2 DEF CreateProject
  <2>2. Server(Current(t)) \in Servers
    BY CurrentTyped, ServerTyped DEF SessionInv
  <2>3. ProjectsKept /\ projects'[Server(Current(t))] # "none"
    BY <2>1, <2>2 DEF Found, ProjectsKept, SessionInv, CallsInv, Statuses
  <2> QED BY <1>1, <2>1, <2>3, KeepPreserves
<1>3. CASE projects[Server(Current(t))] \in {"active", "archived"}
  <2>1. At(t, "failed") /\ UNCHANGED <<handles, projects>> /\ "failed" \in Stages
    BY <1>3 DEF CreateProject, Stages
  <2>2. With(t, "failed", call[t].client) /\ call[t].client \in Clients
    BY <2>1, AtIsWith DEF SessionInv
  <2>3. /\ res[t].pc = "idle" /\ default' \in Clients /\ handles' \in [Scopes -> Clients]
        /\ hosted => bound[t] # NoClient
    BY <1>1, <2>1 DEF SessionInv, CallsInv, HostedInv
  <2>4. hosted => (call[t].client # NoClient => call[t].client.tenant = bound[t].tenant)
    BY <2>3 DEF SessionInv, HostedInv
  <2> QED BY <1>1, <2>1, <2>2, <2>3, <2>4, CallMoves
<1> QED BY <1>2, <1>3

\* A tool that deletes moves on: no handle is touched.
LEMMA DeletePreserves ==
    ASSUME SessionInv, NEW t \in Threads, FindDeleted(t) \/ DropProject(t)
    PROVE  SessionInv'
<1>1. /\ call[t].pc \in {"find", "archive", "destroy"}
      /\ \E pc \in {"archive", "destroy", "done", "failed"} : At(t, pc)
      /\ UNCHANGED <<hosted, now, tokens, disk, res, default, bound, handles>>
  BY DEF FindDeleted, DropProject, discovery
<1>2. PICK pc \in {"archive", "destroy", "done", "failed"} : At(t, pc)
  BY <1>1
<1>3. pc \in Stages
  BY DEF Stages
<1>4. With(t, pc, call[t].client) /\ call[t].client \in Clients
  BY <1>2, <1>3, AtIsWith DEF SessionInv
<1>5. UNCHANGED projects \/ ProjectsKept
  <2> DEFINE server == Server(call[t].client)
  <2>1. server \in Servers
    BY <1>4, ServerTyped
  <2> HIDE DEF server
  <2>2. \/ UNCHANGED projects
        \/ \E status \in {"archived", "destroyed"} :
              projects' = [projects EXCEPT ![server] = status]
    BY DEF FindDeleted, DropProject, server
  <2> QED BY <2>1, <2>2 DEF ProjectsKept, SessionInv, CallsInv, Statuses
<1>6. /\ res[t].pc = "idle" /\ default' \in Clients /\ handles' \in [Scopes -> Clients]
      /\ hosted => (call[t].client # NoClient /\ bound[t] # NoClient
                      => call[t].client.tenant = bound[t].tenant)
  BY <1>1 DEF SessionInv, CallsInv, HostedInv
<1> QED BY <1>1, <1>3, <1>4, <1>5, <1>6, CallMoves

LEMMA ResolutionPreserves ==
    ASSUME SessionInv, NEW t \in Threads, Resolution(t)
    PROVE  SessionInv'
<1>1. DiscoveryStep(t) /\ UNCHANGED <<hosted, default, bound, handles, projects, call>>
  BY DEF Resolution, session
<1>2. /\ DiscoveryInv' /\ res[t].pc # "idle"
      /\ \A u \in Threads : u # t => res'[u] = res[u]
  BY <1>1, DiscoveryStepPreserves DEF SessionInv
<1>3. ~hosted /\ call[t].pc \in {"configure", "boot"}
  BY <1>2, HostedIsQuiet DEF SessionInv, CallsInv
<1> QED BY <1>1, <1>2, <1>3, ThreadStep DEF SessionInv, CallsInv

\* The clock and a login touch nothing that is remembered.
LEMMA SurroundingsPreserve ==
    ASSUME SessionInv,
           \/ Tick
           \/ \E l \in Logins : Login(l)
    PROVE  SessionInv'
<1>1. now' \in 0..MaxTime
  BY DiscoveryAssumption DEF Tick, Login, SessionInv, DiscoveryInv, ResolutionInv
<1>2. tokens' \in [env : Users \cup {NoUser}, file : Users \cup {NoUser}]
  BY SessionsAssumption DEF Tick, Login, SessionInv, DiscoveryInv, ResolutionInv
<1>3. UNCHANGED <<disk, res, hosted, default, bound, handles, projects, call>>
  BY DEF Tick, Login, session
<1>4. DiskInv'
  BY <1>3, DiskSteady DEF SessionInv, DiscoveryInv
<1>5. ResolutionInv'
  BY <1>1, <1>2, <1>3 DEF SessionInv, DiscoveryInv, ResolutionInv, Sound, IsServed
<1>6. CallsInv' /\ HostedInv' /\ HandlesHaveTheirProject'
  BY <1>3 DEF SessionInv, CallsInv, HostedInv, HandlesHaveTheirProject, IsServed
<1> QED BY <1>4, <1>5, <1>6 DEF SessionInv, DiscoveryInv

\* A process that has just started: nothing resolved, bound, cached or under way.
LEMMA FreshProcess ==
    ASSUME res = [t \in Threads |-> Quiet],
           call = [t \in Threads |-> NoCall], bound = [t \in Threads |-> NoClient],
           default = NoClient, handles = [s \in Scopes |-> NoClient],
           projects \in [Servers -> Statuses]
    PROVE  /\ res \in [Threads -> Resolutions] /\ \A t \in Threads : Sound(res[t])
           /\ CallsInv /\ HostedInv /\ HandlesHaveTheirProject
<1>1. res \in [Threads -> Resolutions] /\ \A t \in Threads : Sound(res[t])
  BY ConstantsTyped
<1>2. \A t \in Threads : res[t].pc = "idle"
  BY DEF Quiet
<1>3. CallsInv
  BY <1>2, ClientsTyped DEF CallsInv
<1>4. HostedInv
  BY ClientsTyped DEF HostedInv
<1>5. HandlesHaveTheirProject
  BY DEF HandlesHaveTheirProject
<1> QED BY <1>1, <1>3, <1>4, <1>5

LEMMA RestartPreserves ==
    ASSUME SessionInv, Restart
    PROVE  SessionInv'
<1>1. /\ res' = [t \in Threads |-> Quiet]
      /\ call' = [t \in Threads |-> NoCall] /\ bound' = [t \in Threads |-> NoClient]
      /\ default' = NoClient /\ handles' = [s \in Scopes |-> NoClient]
      /\ data' = [i \in Inodes |-> IF i \in {path, tmp} THEN data[i] ELSE Empty]
      /\ UNCHANGED <<now, tokens, path, tmp, projects>>
  BY DEF Restart
<1>2. res' \in [Threads -> Resolutions] /\ \A t \in Threads : Sound(res'[t])
  BY <1>1, ConstantsTyped
<1>3. \A t \in Threads : res'[t].pc = "idle"
  BY <1>1 DEF Quiet
<1>4. CallsInv'
  BY <1>1, <1>3, ClientsTyped DEF SessionInv, CallsInv
<1>5. HostedInv'
  BY <1>1, ClientsTyped DEF HostedInv
<1>6. HandlesHaveTheirProject'
  BY <1>1 DEF HandlesHaveTheirProject
<1>7. ResolutionInv'
  BY <1>1, <1>2 DEF SessionInv, DiscoveryInv, ResolutionInv, Sound, IsServed
<1>8. DiskInv'
  <2>1. data' \in [Inodes -> Contents]
    BY <1>1, ConstantsTyped DEF SessionInv, DiscoveryInv, DiskInv
  <2>2. \A i \in Inodes : ~InUse(i)' => data'[i] = Empty
    BY <1>1 DEF InUse
  <2>3. \A i \in Inodes : \A k \in Keys : IsServed(data'[i].map[k], k)
    <3>1. \A k \in Keys : IsServed(Empty.map[k], k)
      BY ConstantsTyped DEF Empty
    <3> QED BY <1>1, <3>1 DEF SessionInv, DiscoveryInv, DiskInv
  <2> QED BY <1>1, <2>1, <2>2, <2>3 DEF SessionInv, DiscoveryInv, DiskInv, IsServed
<1> QED BY <1>4, <1>5, <1>6, <1>7, <1>8 DEF SessionInv, DiscoveryInv

LEMMA SessionInit ==
    ASSUME Init
    PROVE  SessionInv
<1>1. /\ res \in [Threads -> Resolutions] /\ \A t \in Threads : Sound(res[t])
      /\ CallsInv /\ HostedInv /\ HandlesHaveTheirProject
  BY FreshProcess DEF Init, DiscoveryInit, Statuses
<1>2. ResolutionInv
  BY <1>1, DiscoveryAssumption, SessionsAssumption DEF Init, DiscoveryInit, ResolutionInv
<1>3. DiskInv
  <2>1. \A k \in Keys : IsServed(Empty.map[k], k)
    BY ConstantsTyped DEF Empty
  <2> QED BY <2>1, ConstantsTyped DEF Init, DiscoveryInit, DiskInv
<1> QED BY <1>1, <1>2, <1>3 DEF SessionInv, DiscoveryInv

LEMMA SessionStep ==
    ASSUME SessionInv, [Next]_vars
    PROVE  SessionInv'
<1>1. ASSUME NEW t \in Threads, Step(t) PROVE SessionInv'
  BY <1>1, ResolutionPreserves, ConfigurePreserves, GetClientPreserves, BootPreserves,
     AssignDefaultPreserves, ReturnDefaultPreserves, CachedProjectPreserves,
     GetProjectPreserves, CreateProjectPreserves, DeletePreserves DEF Step
<1>2. ASSUME NEW t \in Threads, Start(t) PROVE SessionInv'
  <2>1. CASE \E kind \in {"tool", "delete"}, u \in Users : HostedCall(t, u, kind)
    BY <2>1, HostedCallPreserves
  <2>2. CASE \/ \E kind \in {"tool", "delete"} : ToolCall(t, kind)
             \/ \E k \in Keys, force \in BOOLEAN : ConfigureCall(t, k, force)
    <3>1. NoHint \in Keys
      BY DEF Keys
    <3> QED BY <2>2, <3>1, AutoConfigurePreserves DEF ToolCall, ConfigureCall
  <2>3. CASE ScriptCall(t) \/ Exit(t) \/ \E k \in Keys : TenantInfo(t, k)
    BY <2>3, ScriptCallPreserves, ExitPreserves, TenantInfoPreserves
  <2> QED BY <1>2, <2>1, <2>2, <2>3 DEF Start
<1>3. ASSUME UNCHANGED vars PROVE SessionInv'
  <2>1. /\ UNCHANGED <<now, tokens, disk, res>>
        /\ UNCHANGED <<hosted, default, bound, handles, projects, call>>
    BY <1>3 DEF vars, discovery, session
  <2>2. DiscoveryInv'
    BY <2>1, DiscoverySteady DEF SessionInv
  <2>3. CallsInv' /\ HostedInv' /\ HandlesHaveTheirProject'
    BY <2>1 DEF SessionInv, CallsInv, HostedInv, HandlesHaveTheirProject, IsServed
  <2> QED BY <2>2, <2>3 DEF SessionInv
<1> QED BY <1>1, <1>2, <1>3, SurroundingsPreserve, RestartPreserves DEF Next

---------------------------------------------------------------------------
(* The theorems. *)

\* Whatever the threads, users and tenants: the cache file, the resolutions under way and
\* the calls keep the invariant the properties below follow from.
THEOREM SessionInvariant == Spec => []SessionInv
BY SessionInit, SessionStep, PTL DEF Spec

\* Every value has its type, and the two names of the cache never share an inode.
THEOREM SessionsTyped == Spec => []TypeOK
<1>1. SessionInv => TypeOK
  BY DEF SessionInv, DiscoveryInv, ResolutionInv, DiskInv, CallsInv, TypeOK, Resolutions,
         CallRecord, Statuses
<1> QED BY <1>1, SessionInvariant, PTL

\* A record is found only under the hint it was served for, however many threads write the
\* shared temporary file, and however their texts mix there.
THEOREM RecordsKept == Spec => []RecordsKeepTheirHint
<1>1. SessionInv => RecordsKeepTheirHint
  BY DEF SessionInv, DiscoveryInv, DiskInv, CallsInv, RecordsKeepTheirHint
<1> QED BY <1>1, SessionInvariant, PTL

\* A call of a hosted server works with a client of its own tenant.
THEOREM TenantsKept == Spec => []HostedCallsKeepTheirTenant
<1>1. SessionInv => HostedCallsKeepTheirTenant
  BY DEF SessionInv, HostedInv, HostedCallsKeepTheirTenant
<1> QED BY <1>1, SessionInvariant, PTL

\* A cached handle's project has been where the handle's client sends, whatever has been
\* deleted since.
THEOREM HandlesKept == Spec => []HandlesHaveTheirProject
<1>1. SessionInv => HandlesHaveTheirProject
  BY DEF SessionInv
<1> QED BY <1>1, SessionInvariant, PTL

\* A resolution that begins, or whose outcome is taken, is not one that is resolved.
LEMMA ResolveBegins ==
    ASSUME DiscoveryInv, NEW t \in Threads, NEW u \in Threads,
           \/ To(u, Quiet)
           \/ \E k \in Keys, force \in BOOLEAN : Resolve(u, Bearer, k, force)
    PROVE  res'[t] = res[t] \/ res'[t].pc \in {"idle", "load", "fetch"}
<1>1. CASE To(u, Quiet)
  BY <1>1 DEF To, Quiet, DiscoveryInv, ResolutionInv
<1>2. CASE \E k \in Keys, force \in BOOLEAN : Resolve(u, Bearer, k, force)
  <2>1. PICK k \in Keys, force \in BOOLEAN : Resolve(u, Bearer, k, force)
    BY <1>2
  <2> DEFINE q == [Quiet EXCEPT !.pc = IF force THEN "fetch" ELSE "load", !.user = Bearer,
                                !.key = k, !.left = Candidates(Bearer)]
  <2>2. To(u, q)
    BY <2>1 DEF Resolve
  <2>3. q.pc \in {"load", "fetch"}
    BY DEF Quiet
  <2> HIDE DEF q
  <2> QED BY <2>2, <2>3 DEF To, DiscoveryInv, ResolutionInv
<1> QED BY <1>1, <1>2

\* No resolution comes to be resolved with a record that has run out.
THEOREM AnswersKept == Spec => AnswersAreCurrent
<1> DEFINE AnswersCurrent == \A t \in Threads :
                  res'[t].pc = "resolved" /\ res[t].pc # "resolved"
                     => res'[t].fresh # NoRecord /\
                        (~Expired(res'[t].fresh) \/ res'[t].fresh = res[t].fresh)
<1>1. ASSUME SessionInv, [Next]_vars PROVE AnswersCurrent
  <2> SUFFICES ASSUME NEW t \in Threads, res'[t].pc = "resolved", res[t].pc # "resolved"
               PROVE  res'[t].fresh # NoRecord /\
                      (~Expired(res'[t].fresh) \/ res'[t].fresh = res[t].fresh)
    OBVIOUS
  <2>1. CASE \E u \in Threads : Resolution(u)
    <3>1. PICK u \in Threads : DiscoveryStep(u)
      BY <2>1 DEF Resolution
    <3> QED BY <1>1, <3>1, DiscoveryStepPreserves DEF SessionInv
  <2>2. CASE \E u \in Threads : Step(u) /\ ~Resolution(u)
    <3>1. PICK u \in Threads : Step(u) /\ ~Resolution(u)
      BY <2>2
    <3>2. UNCHANGED res \/ To(u, Quiet) \/ Resolve(u, Bearer, NoHint, FALSE)
      BY <3>1 DEF Step, Configure, GetClient, Boot, AssignDefault, ReturnDefault,
                  CachedProject, GetProject, CreateProject, FindDeleted, DropProject, discovery
    <3>3. res'[t] = res[t] \/ res'[t].pc \in {"idle", "load", "fetch"}
      BY <1>1, <3>2, ResolveBegins DEF SessionInv, Keys
    <3> QED BY <3>3
  <2>3. CASE \E u \in Threads : Start(u)
    <3>1. PICK u \in Threads : Start(u)
      BY <2>3
    <3>2. UNCHANGED res \/ \E k \in Keys, force \in BOOLEAN : Resolve(u, Bearer, k, force)
      BY <3>1 DEF Start, HostedCall, ToolCall, ConfigureCall, AutoConfigure, ScriptCall,
                  Exit, TenantInfo, discovery, Keys
    <3>3. res'[t] = res[t] \/ res'[t].pc \in {"idle", "load", "fetch"}
      BY <1>1, <3>2, ResolveBegins DEF SessionInv, Keys
    <3> QED BY <3>3
  <2>4. CASE Tick \/ UNCHANGED vars \/ \E l \in Logins : Login(l)
    BY <2>4 DEF Tick, Login, vars, discovery
  <2>5. CASE Restart
    BY <2>5 DEF Restart, Quiet
  <2> QED BY <1>1, <2>1, <2>2, <2>3, <2>4, <2>5 DEF Next
<1>2. SessionInv /\ [Next]_vars => [AnswersCurrent]_vars
  BY <1>1
<1> QED BY <1>2, SessionInvariant, PTL DEF Spec, AnswersAreCurrent

---------------------------------------------------------------------------
(* The RPC chain: its inductive invariant.                                   *)

Ended(c) == rpc[c].pc \in {"answered", "done"}

\* What the server executed is known from where the call is: nothing before the
\* answer, and then what the answer says; a call that goes to the login layer was
\* refused.
ChargeAgrees(c) ==
    /\ charged[c] \in {0, 1}
    /\ charged[c] = 1 => Ended(c) /\ rpc[c].method = "evaluate"
    /\ Ended(c) /\ rpc[c].method = "evaluate" =>
          /\ rpc[c].answer = "ok" /\ rpc[c].result.status # "withheld" => charged[c] = 1
          /\ rpc[c].answer \in {"denied", "unauthenticated", "keys", "refused"}
                => charged[c] = 0
    /\ rpc[c].pc \in {"login", "refresh"} /\ rpc[c].method # "boot"
          => rpc[c].answer \in LoginErrors

\* A token the login layer obtained for a call is valid, or ran out since.
LoginAgrees(c) ==
    /\ rpc[c].pc \in {"open", "write"} /\ rpc[c].method # "boot" /\ rpc[c].fresh # "valid"
          => excused[c]
    /\ rpc[c].pc = "sent" /\ rpc[c].resent =>
          /\ rpc[c].token = rpc[c].fresh
          /\ rpc[c].token # "valid" => excused[c]
    /\ Ended(c) /\ rpc[c].answer = "unauthenticated" => excused[c]

\* No two fragments of a request that was sent have one id.
IdsDiffer(c) ==
    \A j, k \in DOMAIN rpc[c].fragments :
        rpc[c].fragments[j] = rpc[c].fragments[k] => j = k

CallOK(c) == ChargeAgrees(c) /\ LoginAgrees(c) /\ IdsDiffer(c)

RpcInv == ChainTypeOK /\ \A c \in Callers : CallOK(c)

---------------------------------------------------------------------------
(* One caller's step leaves the others alone.                                *)

\* The step is c's own.
Own(c) ==
    /\ \A d \in Callers \ {c} :
          rpc'[d] = rpc[d] /\ charged'[d] = charged[d] /\ excused'[d] = excused[d]
    /\ file' \in Tokens
    /\ built' \in [Callers -> Tokens]
    /\ rpc' \in [Callers -> Call]
    /\ charged' \in [Callers -> Nat]
    /\ excused' \in [Callers -> BOOLEAN]

\* What a step of c leaves to show is c's.
LEMMA OwnSuffices ==
    ASSUME RpcInv, NEW c \in Callers, Own(c), CallOK(c)'
    PROVE  RpcInv'
<1>1. ChainTypeOK'
  BY DEF Own, ChainTypeOK
<1>2. ASSUME NEW d \in Callers \ {c}
      PROVE  CallOK(d)'
  BY <1>2 DEF RpcInv, Own, CallOK, ChargeAgrees, LoginAgrees, IdsDiffer, Ended
<1> QED
  BY <1>1, <1>2 DEF RpcInv

\* The types, entry by entry.
LEMMA CallFacts ==
    ASSUME RpcInv, NEW c \in Callers
    PROVE  /\ rpc[c] \in Call /\ built[c] \in Tokens /\ file \in Tokens
           /\ charged[c] \in Nat /\ excused[c] \in BOOLEAN
           /\ CallOK(c)
           /\ rpc = [d \in Callers |-> rpc[d]]
BY DEF RpcInv, ChainTypeOK

\* A caller's call is replaced by another.
LEMMA EditFacts ==
    ASSUME RpcInv, NEW c \in Callers, NEW next \in Call, rpc' = [rpc EXCEPT ![c] = next]
    PROVE  /\ rpc' \in [Callers -> Call]
           /\ rpc'[c] = next
           /\ \A d \in Callers \ {c} : rpc'[d] = rpc[d]
BY DEF RpcInv, ChainTypeOK

\* A caller's call changes its phase.
LEMMA NowFacts ==
    ASSUME RpcInv, NEW c \in Callers, NEW pc \in RpcPhases, Now(c, pc)
    PROVE  /\ rpc' \in [Callers -> Call]
           /\ rpc'[c] = [rpc[c] EXCEPT !.pc = pc]
           /\ \A d \in Callers \ {c} : rpc'[d] = rpc[d]
<1>1. [rpc[c] EXCEPT !.pc = pc] \in Call
  BY CallFacts DEF Call
<1>2. rpc' = [rpc EXCEPT ![c] = [rpc[c] EXCEPT !.pc = pc]]
  BY DEF Now
<1> QED
  BY <1>1, <1>2, EditFacts

LEMMA WithheldFacts == Withheld \in Result /\ Withheld.status = "withheld"
BY DEF Withheld, Result

LEMMA NoRpcFacts ==
    /\ NoRpc \in Call /\ NoRpc.pc = "down" /\ NoRpc.method = "boot"
    /\ NoRpc.fragments = <<>> /\ ~NoRpc.resent /\ NoRpc.fresh = "none"
<1>1. 0 \in 0..MaxAttempts
  BY RpcAssumption
<1>2. <<>> \in Seq(Ids)
  OBVIOUS
<1> QED
  BY <1>1, <1>2, WithheldFacts DEF NoRpc, Call, RpcPhases, Methods, Tokens, Answers

\* An attempt is a well-typed call that nothing is known of yet.
LEMMA SentFacts ==
    ASSUME RpcInv, NEW c \in Callers, NEW m \in Methods, NEW f \in Seq(Ids),
           NEW n \in 0..MaxAttempts
    PROVE  /\ Sent(c, m, f, n) \in Call
           /\ Sent(c, m, f, n).pc = "sent" /\ Sent(c, m, f, n).method = m
           /\ Sent(c, m, f, n).fragments = f
           /\ ~Sent(c, m, f, n).resent
BY NoRpcFacts, CallFacts DEF Sent, Call, RpcPhases

\* A step that keeps the request keeps its ids.
LEMMA SameIds ==
    ASSUME RpcInv, NEW c \in Callers, rpc'[c].fragments = rpc[c].fragments
    PROVE  IdsDiffer(c)'
BY CallFacts DEF CallOK, IdsDiffer

---------------------------------------------------------------------------
(* The retry layer.                                                          *)

\* What a call starts with.
LEMMA StartPreserves ==
    ASSUME RpcInv, NEW c \in Callers, NEW first \in Call, StartRpc(c, first),
           \/ first.pc = "sent" /\ ~first.resent
           \/ first.pc = "done" /\ first.answer = "refused",
           \A j, k \in DOMAIN first.fragments :
               first.fragments[j] = first.fragments[k] => j = k
    PROVE  RpcInv'
<1>1. rpc' = [rpc EXCEPT ![c] = first]
  BY DEF StartRpc
<1>2. Own(c)
  BY <1>1, EditFacts DEF StartRpc, Own, RpcInv, ChainTypeOK
<1>3. rpc'[c] = first /\ charged'[c] = 0
  BY <1>1, EditFacts DEF StartRpc, RpcInv, ChainTypeOK
<1>4. CallOK(c)'
  BY <1>3 DEF CallOK, ChargeAgrees, LoginAgrees, IdsDiffer, Ended
<1> QED
  BY <1>2, <1>4, OwnSuffices

LEMMA BeginPreserves ==
    ASSUME RpcInv, NEW c \in Callers, Begin(c)
    PROVE  RpcInv'
<1>1. 1 \in 0..MaxAttempts /\ "other" \in Methods /\ <<>> \in Seq(Ids)
  BY RpcAssumption DEF Methods
<1> DEFINE first == Sent(c, "other", <<>>, 1)
<1>2. /\ first \in Call /\ first.pc = "sent" /\ ~first.resent
      /\ first.fragments = <<>>
  <2>1. \A f \in Seq(Ids) : LET sent == Sent(c, "other", f, 1)
                           IN  /\ sent \in Call /\ sent.pc = "sent" /\ ~sent.resent
                               /\ sent.fragments = f
    BY <1>1, SentFacts
  <2> QED
    BY <1>1, <2>1, Zenon
<1>3. \A j, k \in DOMAIN first.fragments : first.fragments[j] = first.fragments[k] => j = k
  BY <1>2
<1> QED
  BY <1>2, <1>3, StartPreserves DEF Begin

\* A request that passes the client's checks has an id for every fragment, each its own.
LEMMA ValidFacts ==
    ASSUME NEW r \in Requests, Valid(r)
    PROVE  /\ r.fragments \in Seq(Ids)
           /\ \A j, k \in DOMAIN r.fragments : r.fragments[j] = r.fragments[k] => j = k
<1> DEFINE f == r.fragments
<1>1. f \in Seq(FragmentIds)
  BY RpcAssumption DEF Request
<1>2. \A k \in DOMAIN f : f[k] \in Ids
  BY <1>1 DEF Valid, HasIds, FragmentIds
<1>3. f \in Seq(Ids)
  BY <1>1, <1>2
<1>4. \A k \in DOMAIN f : \A j \in 1..(k - 1) : f[j] # f[k]
  BY DEF Valid
<1>5. \A j, k \in DOMAIN f : f[j] = f[k] => j = k
  <2> SUFFICES ASSUME NEW j \in DOMAIN f, NEW k \in DOMAIN f, j # k
               PROVE  f[j] # f[k]
    OBVIOUS
  <2>1. j \in Nat \ {0} /\ k \in Nat \ {0}
    BY <1>1
  <2>2. j \in 1..(k - 1) \/ k \in 1..(j - 1)
    BY <2>1
  <2> QED
    BY <2>2, <1>4
<1> QED
  BY <1>3, <1>5

LEMMA BeginEvaluatePreserves ==
    ASSUME RpcInv, NEW c \in Callers, NEW r \in Requests, BeginEvaluate(c, r)
    PROVE  RpcInv'
<1> DEFINE refused == [NoRpc EXCEPT !.pc = "done", !.method = "evaluate",
                                     !.answer = "refused"]
<1>1. 1 \in 0..MaxAttempts /\ 0 \in 0..MaxAttempts /\ "evaluate" \in Methods
  BY RpcAssumption DEF Methods
<1>2. CASE Valid(r)
  <2>1. StartRpc(c, Sent(c, "evaluate", r.fragments, 1))
    BY <1>2 DEF BeginEvaluate
  <2> QED
    BY <1>1, <1>2, <2>1, ValidFacts, SentFacts, StartPreserves
<1>3. CASE ~Valid(r)
  <2>1. StartRpc(c, refused)
    BY <1>3 DEF BeginEvaluate
  <2>2. /\ refused \in Call
        /\ refused.pc = "done" /\ refused.answer = "refused" /\ refused.fragments = <<>>
    BY <1>1, NoRpcFacts DEF Call, RpcPhases, Methods, Answers
  <2>3. \A j, k \in DOMAIN refused.fragments :
           refused.fragments[j] = refused.fragments[k] => j = k
    BY <2>2
  <2> QED
    BY <2>1, <2>2, <2>3, StartPreserves
<1> QED
  BY <1>2, <1>3

LEMMA RetryPreserves ==
    ASSUME RpcInv, NEW c \in Callers, Retry(c)
    PROVE  RpcInv'
<1> DEFINE next == Sent(c, rpc[c].method, rpc[c].fragments, rpc[c].attempt + 1)
<1>1. /\ rpc[c].attempt + 1 \in 0..MaxAttempts
      /\ rpc[c].method \in Methods /\ rpc[c].fragments \in Seq(Ids)
  BY CallFacts, RpcAssumption DEF Retry, Again, Call
<1>2. /\ next \in Call /\ next.pc = "sent" /\ ~next.resent
      /\ next.fragments = rpc[c].fragments
  BY <1>1, SentFacts
<1>3. rpc' = [rpc EXCEPT ![c] = next]
  BY CallFacts DEF Retry
<1>4. Own(c)
  BY <1>2, <1>3 DEF Retry, Own, RpcInv, ChainTypeOK
<1>5. rpc'[c] = next /\ charged'[c] = charged[c]
  BY <1>3 DEF Retry, RpcInv, ChainTypeOK
<1>6. charged[c] = 0
  BY CallFacts DEF Retry, Again, CallOK, ChargeAgrees
<1>7. CallOK(c)'
  BY <1>2, <1>5, <1>6, CallFacts DEF CallOK, ChargeAgrees, LoginAgrees, IdsDiffer, Ended
<1> QED
  BY <1>4, <1>7, OwnSuffices

LEMMA FinishPreserves ==
    ASSUME RpcInv, NEW c \in Callers, Finish(c)
    PROVE  RpcInv'
<1>1. rpc'[c] = [rpc[c] EXCEPT !.pc = "done"]
  BY DEF Finish, Now, RpcInv, ChainTypeOK
<1>2. Own(c)
  BY NowFacts DEF Finish, Own, RpcInv, ChainTypeOK, RpcPhases
<1>3. /\ rpc'[c].pc = "done" /\ rpc'[c].method = rpc[c].method
      /\ rpc'[c].answer = rpc[c].answer /\ rpc'[c].result = rpc[c].result
      /\ rpc'[c].fragments = rpc[c].fragments
      /\ charged'[c] = charged[c] /\ excused'[c] = excused[c]
  BY <1>1, CallFacts DEF Finish, Call
<1>4. CallOK(c)'
  BY <1>3, SameIds, CallFacts DEF Finish, CallOK, ChargeAgrees, LoginAgrees, Ended
<1> QED
  BY <1>2, <1>4, OwnSuffices

---------------------------------------------------------------------------
(* The login layer and the server.                                           *)

\* What an answer does to the call.
LEMMA AnswerFacts ==
    ASSUME RpcInv, NEW c \in Callers, NEW answer \in Answers, NEW result \in Result,
           Respond(c, answer, result)
    PROVE  /\ rpc' \in [Callers -> Call]
           /\ \A d \in Callers \ {c} : rpc'[d] = rpc[d]
           /\ rpc'[c].method = rpc[c].method /\ rpc'[c].answer = answer
           /\ rpc'[c].result = result /\ rpc'[c].fragments = rpc[c].fragments
           /\ rpc'[c].pc = IF LoginNeeded(c, answer) THEN "login" ELSE "answered"
<1> DEFINE next == [rpc[c] EXCEPT !.answer = answer, !.result = result,
                                 !.pc = IF LoginNeeded(c, answer) THEN "login" ELSE "answered"]
<1>1. rpc' = [rpc EXCEPT ![c] = next]
  BY DEF Respond
<1>2. /\ next \in Call
      /\ next.method = rpc[c].method /\ next.answer = answer
      /\ next.result = result /\ next.fragments = rpc[c].fragments
      /\ next.pc = IF LoginNeeded(c, answer) THEN "login" ELSE "answered"
  BY CallFacts DEF Call, RpcPhases
<1> QED
  BY <1>1, <1>2, EditFacts

\* Judgments are typed, and they are not withheld.
LEMMA JudgedFacts ==
    ASSUME NEW f \in Seq(Ids), NEW entries \in [DOMAIN f -> Entries]
    PROVE  Judged(entries) \in Result
<1>1. entries \in Seq(Entries)
  OBVIOUS
<1> QED
  BY <1>1 DEF Judged, Result

\* An executed call that was answered, or whose answer was lost, is over; what it was
\* charged must be in the answer.
LEMMA AnsweredPreserves ==
    ASSUME RpcInv, NEW c \in Callers, rpc[c].pc = "sent",
           NEW answer \in {"ok", "transient"}, NEW result \in Result,
           Respond(c, answer, result),
           charged'[c] \in {0, 1}, charged' \in [Callers -> Nat],
           \A d \in Callers \ {c} : charged'[d] = charged[d],
           charged'[c] = 1 => rpc[c].method = "evaluate",
           /\ rpc[c].method = "evaluate" /\ answer = "ok" /\ result.status # "withheld"
               => charged'[c] = 1,
           UNCHANGED <<file, built, excused>>
    PROVE  RpcInv'
<1>1. answer \in Answers /\ ~LoginNeeded(c, answer)
  BY DEF Answers, Transient, LoginNeeded, LoginErrors
<1>2. /\ rpc' \in [Callers -> Call]
      /\ \A d \in Callers \ {c} : rpc'[d] = rpc[d]
      /\ rpc'[c].method = rpc[c].method /\ rpc'[c].answer = answer
      /\ rpc'[c].result = result /\ rpc'[c].fragments = rpc[c].fragments
      /\ rpc'[c].pc = "answered"
  BY <1>1, AnswerFacts
<1>3. Own(c)
  BY <1>2 DEF Own, RpcInv, ChainTypeOK
<1>4. CallOK(c)'
  BY <1>2, CallFacts DEF CallOK, ChargeAgrees, LoginAgrees, IdsDiffer, Ended
<1> QED
  BY <1>3, <1>4, OwnSuffices

LEMMA ExecutePreserves ==
    ASSUME RpcInv, NEW c \in Callers, Execute(c) \/ Evaluate(c) \/ Withhold(c)
    PROVE  RpcInv'
<1>1. rpc[c].pc = "sent" /\ charged[c] = 0
  BY CallFacts DEF Execute, Evaluate, Withhold, CallOK, ChargeAgrees, Ended
<1>2. charged \in [Callers -> Nat]
  BY DEF RpcInv, ChainTypeOK
<1>3. CASE Execute(c) \/ Withhold(c)
  <2>1. PICK answer \in {"ok", "transient"} : Respond(c, answer, Withheld)
    BY <1>3 DEF Execute, Withhold
  <2>2. UNCHANGED <<file, built, charged, excused>>
    BY <1>3 DEF Execute, Withhold
  <2> QED
    BY <1>1, <1>2, <2>1, <2>2, WithheldFacts, AnsweredPreserves
<1>4. CASE Evaluate(c)
  <2>1. rpc[c].method = "evaluate" /\ UNCHANGED <<file, built, excused>>
    BY <1>4 DEF Evaluate
  <2>2. charged' = [charged EXCEPT ![c] = 1]
    BY <1>1, <1>2, <1>4 DEF Evaluate
  <2>3. PICK answer \in {"ok", "transient"}, result \in Result : Respond(c, answer, result)
    BY <1>4, CallFacts, JudgedFacts, WithheldFacts DEF Evaluate, Call
  <2> QED
    BY <1>1, <1>2, <2>1, <2>2, <2>3, AnsweredPreserves
<1> QED
  BY <1>3, <1>4

LEMMA RefusePreserves ==
    ASSUME RpcInv, NEW c \in Callers, Refuse(c)
    PROVE  RpcInv'
<1>1. PICK answer \in Transient \cup {"denied", "unauthenticated"} :
          /\ Respond(c, answer, Withheld)
          /\ answer = "unauthenticated" => rpc[c].token # "valid"
  BY DEF Refuse, Transient
<1>2. answer \in Answers
  BY DEF Answers, Transient
<1>3. /\ rpc' \in [Callers -> Call]
      /\ \A d \in Callers \ {c} : rpc'[d] = rpc[d]
      /\ rpc'[c].method = rpc[c].method /\ rpc'[c].answer = answer
      /\ rpc'[c].result = Withheld /\ rpc'[c].fragments = rpc[c].fragments
      /\ rpc'[c].pc = IF LoginNeeded(c, answer) THEN "login" ELSE "answered"
  BY <1>1, <1>2, WithheldFacts, AnswerFacts
<1>4. charged'[c] = 0 /\ excused'[c] = excused[c]
  BY CallFacts DEF Refuse, CallOK, ChargeAgrees, Ended
<1>5. Own(c)
  BY <1>3 DEF Refuse, Own, RpcInv, ChainTypeOK
<1>6. ChargeAgrees(c)'
  BY <1>3, <1>4 DEF ChargeAgrees, Ended, LoginNeeded, Transient
<1>7. LoginAgrees(c)'
  <2>1. answer = "unauthenticated" /\ rpc'[c].pc = "answered" => excused[c]
    BY <1>1, <1>3, CallFacts DEF LoginNeeded, LoginErrors, Refuse, CallOK, LoginAgrees
  <2> QED
    BY <2>1, <1>3, <1>4 DEF LoginAgrees, Ended
<1>8. IdsDiffer(c)'
  BY <1>3, CallFacts DEF CallOK, IdsDiffer
<1> QED
  BY <1>5, <1>6, <1>7, <1>8, OwnSuffices DEF CallOK

---------------------------------------------------------------------------
(* ensure_token.                                                             *)

\* A call that is not refreshed ends with the login error it had.
LEMMA UnrefreshedPreserves ==
    ASSUME RpcInv, NEW c \in Callers, rpc[c].pc \in {"login", "refresh"}, Unrefreshed(c),
           UNCHANGED <<file, charged>>
    PROVE  RpcInv'
<1>1. charged'[c] = 0
  BY CallFacts DEF CallOK, ChargeAgrees, Ended
<1>2. CASE rpc[c].method = "boot"
  <2>1. rpc'[c] = [rpc[c] EXCEPT !.pc = "idle"]
    BY <1>2 DEF Unrefreshed, Now, RpcInv, ChainTypeOK
  <2>2. Own(c)
    <3>1. /\ Now(c, "idle") /\ built' = [built EXCEPT ![c] = rpc[c].token]
          /\ excused' = excused /\ file' = file /\ charged' = charged
      BY <1>2 DEF Unrefreshed
    <3>2. rpc' \in [Callers -> Call] /\ \A d \in Callers \ {c} : rpc'[d] = rpc[d]
      BY <3>1, NowFacts DEF RpcPhases
    <3>3. built' \in [Callers -> Tokens]
      BY <3>1, CallFacts DEF RpcInv, ChainTypeOK, Call
    <3> QED BY <3>1, <3>2, <3>3 DEF Own, RpcInv, ChainTypeOK
  <2>3. CallOK(c)'
    BY <1>1, <2>1, CallFacts DEF CallOK, ChargeAgrees, LoginAgrees, IdsDiffer, Ended, Call
  <2> QED
    BY <2>2, <2>3, OwnSuffices
<1>3. CASE rpc[c].method # "boot"
  <2>1. rpc'[c] = [rpc[c] EXCEPT !.pc = "answered"] /\ excused'[c]
    BY <1>3 DEF Unrefreshed, Now, RpcInv, ChainTypeOK
  <2>2. Own(c)
    BY <1>3, NowFacts DEF Unrefreshed, Own, RpcInv, ChainTypeOK, RpcPhases
  <2>3. rpc[c].answer \in LoginErrors
    BY <1>3, CallFacts DEF CallOK, ChargeAgrees
  <2>4. CallOK(c)'
    BY <1>1, <2>1, <2>3, CallFacts
    DEF CallOK, ChargeAgrees, LoginAgrees, IdsDiffer, Ended, LoginErrors, Call
  <2> QED
    BY <2>2, <2>4, OwnSuffices
<1> QED
  BY <1>2, <1>3

LEMMA LoginLoadPreserves ==
    ASSUME RpcInv, NEW c \in Callers, LoadFile(c)
    PROVE  RpcInv'
<1>1. charged'[c] = 0
  BY CallFacts DEF LoadFile, CallOK, ChargeAgrees, Ended
<1>2. CASE Unrefreshed(c)
  BY <1>2, UnrefreshedPreserves DEF LoadFile
<1>3. CASE rpc[c].method = "boot" /\ Content(c) /\ UNCHANGED excused
  <2>1. PICK next \in Call : /\ rpc' = [rpc EXCEPT ![c] = next]
                             /\ next.pc \in {"idle", "open"} /\ next.method = "boot"
                             /\ next.fragments = rpc[c].fragments
    <3>1. [rpc[c] EXCEPT !.pc = "idle"] \in Call
      BY CallFacts DEF Call, RpcPhases
    <3>2. [rpc[c] EXCEPT !.pc = "open", !.fresh = file] \in Call
      BY CallFacts DEF Call, RpcPhases
    <3> QED
      BY <1>3, <3>1, <3>2, CallFacts DEF Content, Now, Call
  <2>2. Own(c)
    <3>1. built' \in [Callers -> Tokens]
      BY <1>3, CallFacts DEF Content, RpcInv, ChainTypeOK, Tokens
    <3>2. /\ file' \in Tokens /\ charged' \in [Callers -> Nat]
          /\ charged' = charged /\ excused' = excused /\ excused' \in [Callers -> BOOLEAN]
      BY <1>3 DEF LoadFile, RpcInv, ChainTypeOK
    <3> QED
      BY <2>1, <3>1, <3>2, EditFacts DEF Own
  <2>3. CallOK(c)'
    <3>1. rpc'[c] = next
      BY <2>1, EditFacts
    <3> QED
      BY <1>1, <2>1, <3>1, CallFacts DEF CallOK, ChargeAgrees, LoginAgrees, IdsDiffer, Ended
  <2> QED
    BY <2>2, <2>3, OwnSuffices
<1>4. CASE Now(c, "refresh") /\ UNCHANGED <<built, excused>>
  <2>1. rpc'[c] = [rpc[c] EXCEPT !.pc = "refresh"]
    BY <1>4 DEF Now, RpcInv, ChainTypeOK
  <2>2. Own(c)
    BY <1>4, NowFacts DEF LoadFile, Own, RpcInv, ChainTypeOK, RpcPhases
  <2>3. CallOK(c)'
    BY <1>1, <2>1, CallFacts DEF LoadFile, CallOK, ChargeAgrees, LoginAgrees, IdsDiffer, Ended, Call
  <2> QED
    BY <2>2, <2>3, OwnSuffices
<1> QED
  BY <1>2, <1>3, <1>4 DEF LoadFile

LEMMA RefreshPreserves ==
    ASSUME RpcInv, NEW c \in Callers, Refresh(c)
    PROVE  RpcInv'
<1> DEFINE next == [rpc[c] EXCEPT !.pc = "open", !.fresh = "valid"]
<1>1. /\ next \in Call /\ next.pc = "open" /\ next.fresh = "valid"
      /\ next.fragments = rpc[c].fragments
  <2>1. rpc[c] \in Call
    BY CallFacts
  <2> QED
    BY <2>1 DEF Call, RpcPhases, Tokens
<1>2. rpc' = [rpc EXCEPT ![c] = next]
  BY DEF Refresh
<1>3. rpc'[c] = next
  BY <1>1, <1>2, EditFacts
<1>4. Own(c)
  BY <1>1, <1>2, EditFacts DEF Refresh, Own, RpcInv, ChainTypeOK
<1>5. charged'[c] = 0
  BY CallFacts DEF Refresh, CallOK, ChargeAgrees, Ended
<1>6. ChargeAgrees(c)' /\ LoginAgrees(c)'
  BY <1>1, <1>3, <1>5 DEF ChargeAgrees, LoginAgrees, Ended
<1> QED
  BY <1>1, <1>3, <1>4, <1>6, SameIds, OwnSuffices DEF CallOK

LEMMA RefreshFailsPreserves ==
    ASSUME RpcInv, NEW c \in Callers, RefreshFails(c)
    PROVE  RpcInv'
BY UnrefreshedPreserves DEF RefreshFails

LEMMA OpenFilePreserves ==
    ASSUME RpcInv, NEW c \in Callers, OpenFile(c)
    PROVE  RpcInv'
<1>1. rpc'[c] = [rpc[c] EXCEPT !.pc = "write"]
  BY DEF OpenFile, Now, RpcInv, ChainTypeOK
<1>2. Own(c)
  BY NowFacts DEF OpenFile, Own, RpcInv, ChainTypeOK, RpcPhases, Tokens
<1>3. CallOK(c)'
  BY <1>1, CallFacts DEF OpenFile, CallOK, ChargeAgrees, LoginAgrees, IdsDiffer, Ended, Call
<1> QED
  BY <1>2, <1>3, OwnSuffices

LEMMA WriteFilePreserves ==
    ASSUME RpcInv, NEW c \in Callers, WriteFile(c)
    PROVE  RpcInv'
<1>1. file' \in Tokens
  BY CallFacts DEF WriteFile, Call, Tokens
<1>2. charged'[c] = 0
  BY CallFacts DEF WriteFile, CallOK, ChargeAgrees, Ended
<1>3. CASE rpc[c].method = "boot"
  <2>1. rpc'[c] = [rpc[c] EXCEPT !.pc = "idle"]
    BY <1>3 DEF WriteFile, Now, RpcInv, ChainTypeOK
  <2>2. Own(c)
    <3>1. built' \in [Callers -> Tokens]
      BY <1>3, CallFacts DEF WriteFile, RpcInv, ChainTypeOK, Call
    <3> QED
      BY <1>1, <1>3, <3>1, NowFacts DEF WriteFile, Own, RpcInv, ChainTypeOK, RpcPhases
  <2>3. CallOK(c)'
    BY <1>2, <2>1, CallFacts DEF CallOK, ChargeAgrees, LoginAgrees, IdsDiffer, Ended, Call
  <2> QED
    BY <2>2, <2>3, OwnSuffices
<1>4. CASE rpc[c].method # "boot"
  <2>1. rpc'[c] = [rpc[c] EXCEPT !.pc = "sent", !.token = rpc[c].fresh,
                                   !.resent = TRUE, !.answer = "open"]
    BY <1>4 DEF WriteFile, RpcInv, ChainTypeOK
  <2>2. rpc'[c] \in Call
    BY <2>1, CallFacts DEF Call, RpcPhases, Answers
  <2>3. Own(c)
    BY <1>1, <1>4, <2>2 DEF WriteFile, Own, RpcInv, ChainTypeOK
  <2>4. excused'[c] = excused[c] /\ (rpc[c].fresh # "valid" => excused[c])
    BY <1>4, CallFacts DEF WriteFile, CallOK, LoginAgrees
  <2>5. CallOK(c)'
    BY <1>2, <2>1, <2>4, CallFacts DEF CallOK, ChargeAgrees, LoginAgrees, IdsDiffer, Ended, Call
  <2> QED
    BY <2>3, <2>5, OwnSuffices
<1> QED
  BY <1>3, <1>4

---------------------------------------------------------------------------
(* Processes and time.                                                       *)

LEMMA ProcessPreserves ==
    ASSUME RpcInv, NEW c \in Callers, Bootstrap(c) \/ Crash(c)
    PROVE  RpcInv'
<1>1. NoRpc \in Call /\ [NoRpc EXCEPT !.pc = "login", !.token = file] \in Call
  BY NoRpcFacts, CallFacts DEF Call, RpcPhases
<1>2. PICK next \in Call : /\ rpc' = [rpc EXCEPT ![c] = next]
                           /\ next.pc \in {"down", "login"} /\ next.method = "boot"
                           /\ next.fragments = <<>>
  BY <1>1, NoRpcFacts DEF Bootstrap, Crash, Call
<1>3. Own(c)
  <2>1. /\ file' \in Tokens /\ built' \in [Callers -> Tokens]
        /\ charged' \in [Callers -> Nat] /\ excused' \in [Callers -> BOOLEAN]
        /\ \A d \in Callers \ {c} : charged'[d] = charged[d] /\ excused'[d] = excused[d]
    <3>1. CASE Bootstrap(c)
      BY <3>1 DEF Bootstrap, RpcInv, ChainTypeOK
    <3>2. CASE Crash(c)
      BY <3>2 DEF Crash, RpcInv, ChainTypeOK, Tokens
    <3> QED
      BY <3>1, <3>2
  <2> QED
    BY <1>2, <2>1, EditFacts DEF Own
<1>4. charged'[c] = 0
  BY CallFacts DEF Bootstrap, Crash, CallOK, ChargeAgrees, Ended, RpcInv, ChainTypeOK
<1>5. CallOK(c)'
  <2>1. rpc'[c] = next
    BY <1>2, EditFacts
  <2> QED
    BY <1>2, <1>4, <2>1 DEF CallOK, ChargeAgrees, LoginAgrees, IdsDiffer, Ended
<1> QED
  BY <1>3, <1>5, OwnSuffices

\* Time excuses whoever it takes a fresh token from.
LEMMA ExpirePreserves ==
    ASSUME RpcInv, Expire
    PROVE  RpcInv'
<1>1. \A token \in Tokens : Aged(token) \in Tokens /\ Aged(token) # "valid"
  BY DEF Aged, Tokens
<1>2. \A c \in Callers :
         rpc'[c] = [rpc[c] EXCEPT !.token = Aged(rpc[c].token),
                                    !.fresh = Aged(rpc[c].fresh)]
  BY CallFacts DEF Expire
<1>3. ASSUME NEW c \in Callers
      PROVE  rpc'[c] \in Call
  <2>1. /\ rpc[c] \in Call
        /\ Aged(rpc[c].token) \in Tokens /\ Aged(rpc[c].fresh) \in Tokens
    BY <1>1, CallFacts DEF Call
  <2> QED
    BY <1>2, <2>1 DEF Call
<1>4. ChainTypeOK'
  BY <1>1, <1>3 DEF Expire, RpcInv, ChainTypeOK
<1>5. ASSUME NEW c \in Callers
      PROVE  CallOK(c)'
  <2>1. /\ rpc'[c].pc = rpc[c].pc /\ rpc'[c].method = rpc[c].method
        /\ rpc'[c].answer = rpc[c].answer /\ rpc'[c].resent = rpc[c].resent
        /\ rpc'[c].token = Aged(rpc[c].token) /\ rpc'[c].fresh = Aged(rpc[c].fresh)
        /\ rpc'[c].fragments = rpc[c].fragments /\ rpc'[c].result = rpc[c].result
    BY <1>2, CallFacts DEF Call
  <2>2. charged'[c] = charged[c]
    BY DEF Expire
  <2>3. excused'[c] = (excused[c] \/ rpc[c].fresh = "valid")
    BY DEF Expire
  <2>4. ChargeAgrees(c)'
    BY <2>1, <2>2, CallFacts DEF CallOK, ChargeAgrees, Ended
  <2>5. LoginAgrees(c)'
    BY <2>1, <2>3, CallFacts DEF CallOK, LoginAgrees, Ended
  <2>6. IdsDiffer(c)'
    BY <2>1, CallFacts DEF CallOK, IdsDiffer
  <2> QED
    BY <2>4, <2>5, <2>6 DEF CallOK
<1> QED
  BY <1>4, <1>5 DEF RpcInv

---------------------------------------------------------------------------
(* The theorems about the RPC chain.                                         *)

LEMMA RpcInitial == ChainInit => RpcInv
BY NoRpcFacts
DEF ChainInit, RpcInv, ChainTypeOK, CallOK, ChargeAgrees, LoginAgrees, IdsDiffer, Ended, Tokens

LEMMA RpcInductive == RpcInv /\ [ChainNext]_chainVars => RpcInv'
<1> SUFFICES ASSUME RpcInv, [ChainNext]_chainVars
             PROVE  RpcInv'
  OBVIOUS
<1>1. ASSUME NEW c \in Callers, CallerStep(c)
      PROVE  RpcInv'
  BY <1>1, RetryPreserves, FinishPreserves, ExecutePreserves, RefusePreserves, LoginLoadPreserves,
     RefreshPreserves, RefreshFailsPreserves, OpenFilePreserves, WriteFilePreserves DEF CallerStep
<1>2. CASE UNCHANGED chainVars
  BY <1>2 DEF chainVars, RpcInv, ChainTypeOK, CallOK, ChargeAgrees, LoginAgrees, IdsDiffer, Ended
<1> QED
  BY <1>1, <1>2, BeginPreserves, BeginEvaluatePreserves, ProcessPreserves, ExpirePreserves
  DEF ChainNext

\* The server's account of a call and the caller's agree, and no login that was
\* refreshed is lost without an excuse.
THEOREM RpcInvariant == ChainSpec => []RpcInv
BY RpcInitial, RpcInductive, PTL DEF ChainSpec

\* Every state of a call is one its thread can be in; attempts never exceed the bound.
THEOREM AttemptsAreBounded == ChainSpec => []ChainTypeOK
<1>1. RpcInv => ChainTypeOK
  BY DEF RpcInv
<1> QED
  BY <1>1, RpcInvariant, PTL

\* Each id finds its own fragment's entry.
LEMMA FoundById ==
    ASSUME NEW c \in Callers, IdsDiffer(c), NEW k \in DOMAIN rpc[c].fragments,
           rpc[c].fragments \in Seq(Ids)
    PROVE  ById(c)[rpc[c].fragments[k]] = rpc[c].result.entries[k]
<1> DEFINE f == rpc[c].fragments
           IsLast(j) == /\ f[j] = f[k]
                        /\ \A i \in DOMAIN f : f[i] = f[k] => i <= j
<1>1. DOMAIN f = 1..Len(f) /\ Len(f) \in Nat
  OBVIOUS
<1>2. \A j \in DOMAIN f : IsLast(j) <=> j = k
  BY <1>1 DEF IdsDiffer
<1>3. (CHOOSE j \in DOMAIN f : IsLast(j)) = k
  BY <1>2
<1>4. f[k] \in {f[j] : j \in DOMAIN f}
  OBVIOUS
<1> QED
  BY <1>3, <1>4 DEF ById

\* Whatever is retried, refreshed, lost or crashes, one Evaluate is charged at most
\* once: once when it is judged and not at all when it is refused; and every judgment
\* is found under the id of its fragment.
THEOREM EvaluateIsChargedOnce == ChainSpec => []ChargedOnce
<1>1. RpcInv => ChargedOnce
  <2> SUFFICES ASSUME RpcInv PROVE ChargedOnce
    OBVIOUS
  <2>1. ASSUME NEW c \in Callers
        PROVE  /\ ChargeAgrees(c) /\ charged[c] <= 1
               /\ \A k \in DOMAIN rpc[c].fragments :
                     ById(c)[rpc[c].fragments[k]] = rpc[c].result.entries[k]
    <3>1. CallOK(c) /\ rpc[c].fragments \in Seq(Ids)
      BY CallFacts DEF Call
    <3>2. charged[c] <= 1
      <4>1. charged[c] \in {0, 1}
        BY <3>1 DEF CallOK, ChargeAgrees
      <4> QED BY <4>1
    <3>3. \A k \in DOMAIN rpc[c].fragments :
             ById(c)[rpc[c].fragments[k]] = rpc[c].result.entries[k]
      BY <3>1, FoundById DEF CallOK
    <3> QED
      BY <3>1, <3>2, <3>3 DEF CallOK
  <2> QED
    BY <2>1 DEF ChargedOnce, ChargeAgrees, Ended
<1> QED
  BY <1>1, RpcInvariant, PTL

\* An expired login is repaired by the chain, or there was nothing to repair it with.
THEOREM ExpiredLoginsAreRepaired == ChainSpec => []ExpiryIsRepaired
<1>1. RpcInv => ExpiryIsRepaired
  BY DEF RpcInv, CallOK, LoginAgrees, Ended, ExpiryIsRepaired
<1> QED
  BY <1>1, RpcInvariant, PTL
=============================================================================
