------------------------------ MODULE McpProofs -------------------------------
(* Proofs about Spaces and Retrieval.  For any number of threads, spaces and   *)
(* stores, and any time to live: a listing is never older than it may be, and  *)
(* stores that follow each other do not split a space.  For any items, spaces, *)
(* requests and server, and any number of writes of others and of failures:    *)
(* what one retrieval answers with is in scope, is the published revision      *)
(* where there is one all along, and is of a project that was there.           *)
EXTENDS Spaces, Retrieval, NaturalsInduction, WellFoundedInduction, FiniteSetTheorems, TLAPS

---------------------------------------------------------------------------
(* The inductive invariant of the spaces. *)

Progress ==
    [pc : {"idle", "list", "cache", "resolve", "alias", "record", "ensure", "item", "ok", "error"},
     hint : Paths \cup {<<>>}, path : Paths \cup {<<>>}, hinted : BOOLEAN, at : Nat,
     listed : SUBSET Paths, read : SUBSET Nat, depth : Nat, made : BOOLEAN,
     before : SUBSET Paths]

Busy == {"list", "cache", "resolve", "alias", "record", "ensure", "item"}

\* A call under way has a path, and has made nothing of it before it is resolved.
Sane(t) ==
    /\ t.pc \in Busy => t.hint \in Paths /\ t.path \in Paths
    /\ t.pc \in {"list", "cache", "resolve", "alias", "record"} => t.depth = 0

SpaceTypes ==
    /\ spaces \subseteq Paths /\ known \subseteq Paths /\ apart \subseteq Paths
    /\ aliases \in [Paths -> SUBSET Nat]
    /\ deletedAt \in [Paths -> Nat]
    /\ registry \in [at : Nat, paths : SUBSET Paths]
    /\ now \in Nat \ {0} /\ faults \in Nat
    /\ call \in [Calls -> Progress]
    /\ \A c \in Calls : Sane(call[c])

Gone(p) == deletedAt[p] # Never

\* The space was created once.
Was(p) == p \in spaces \/ Gone(p)

\* What a listing begun at some moment offers was there then, or later.
Since(p, at) == p \in spaces \/ (Gone(p) /\ deletedAt[p] >= at)

Offered(at, paths) == at <= now /\ \A p \in paths : Since(p, at)

\* The part of its path that a store has ensured.
Made(c) == {SubSeq(call[c].path, 1, k) : k \in 1..call[c].depth}

\* Whatever a call or a cache has heard of was created once.
CallInv(c) ==
    /\ Offered(call[c].at, call[c].listed)
    /\ \A p \in call[c].before : Was(p)
    /\ call[c].pc = "ensure" =>
          call[c].depth <= Len(call[c].path) /\ \A p \in Made(c) : Was(p)

CacheInv ==
    /\ Offered(registry.at, registry.paths)
    /\ \A p \in known \cup apart : Was(p)

\* The spaces that were made with no other store under way and are still whole.
Standing == {q \in apart : Kept(q)}

\* A store that will drop the listing when it is through with the path.
Making(c) == call[c].pc = "ensure" /\ call[c].made

\* The listing offers every such space, unless the store that made it is not through;
\* and it offers those that are known in any case.
RegistryInv ==
    registry # NoListing =>
        /\ \A q \in Standing : q \in registry.paths \/ \E c \in Calls : Making(c) /\ q \in Made(c)
        /\ Standing \cap known \subseteq registry.paths

\* What a store was given to resolve its hint by, and what it made of it.
Promise(t) ==
    /\ t.pc = "cache" => Standing \subseteq t.listed
    /\ t.pc = "resolve" => t.before \cap Standing \subseteq t.listed
    /\ t.hinted /\ t.pc \in {"alias", "record", "ensure"} =>
          Was(t.path) \/ t.before \cap Standing \cap Variants(t.path, Paths) = {}

SpacesInv ==
    /\ SpaceTypes /\ CacheInv /\ \A c \in Calls : CallInv(c)
    /\ faults = 0 => RegistryInv /\ \A c \in Calls : Promise(call[c])

---------------------------------------------------------------------------
(* Paths. *)

LEMMA Least ==
    ASSUME NEW s \in SUBSET Nat, s # {}
    PROVE  \E n \in s : \A m \in s : n <= m
<1> DEFINE R == OpToRel(<, Nat)
<1>1. R = {p \in Nat \X Nat : p[1] < p[2]}
  BY Zenon DEF OpToRel
<1>2. IsWellFoundedOn(R, Nat)
  BY Zenon, NatLessThanWellFounded
<1> HIDE DEF R
<1>3. \A x, y \in Nat : y < x => <<y, x>> \in R
  BY <1>1
<1>4. PICK x \in s : \A y \in s : ~(<<y, x>> \in R)
  BY Zenon, <1>2, WFMin
<1>5. \A y \in s : ~(y < x)
  BY <1>3, <1>4
<1> QED BY <1>4, <1>5

LEMMA PathFacts ==
    ASSUME NEW p \in Paths
    PROVE  /\ p \in Seq(Nat) /\ Len(p) \in Nat \ {0}
           /\ \A n \in 1..Len(p) : SubSeq(p, 1, n) \in Paths
           /\ SubSeq(p, 1, Len(p)) = p
<1>1. p \in Seq(Nat) /\ p # <<>>
  BY SpacesAssumption
<1>2. Len(p) \in Nat \ {0}
  BY <1>1
<1>3. SubSeq(p, 1, Len(p)) = p
  BY <1>1
<1> QED
  BY <1>1, <1>2, <1>3, SpacesAssumption

LEMMA PrefixFacts ==
    ASSUME NEW p \in Paths, NEW d \in 1..Len(p), NEW k \in 1..d
    PROVE  IsPrefix(SubSeq(p, 1, k), SubSeq(p, 1, d))
<1>1. p \in Seq(Nat) /\ Len(p) \in Nat
  BY PathFacts
<1> DEFINE s == SubSeq(p, 1, k)
           t == SubSeq(p, 1, d)
<1>2. s \in Seq(Nat) /\ Len(s) = k /\ \A i \in 1..k : s[i] = p[i]
  BY <1>1
<1>3. t \in Seq(Nat) /\ Len(t) = d /\ \A i \in 1..d : t[i] = p[i]
  BY <1>1
<1> HIDE DEF s, t
<1>4. /\ SubSeq(s, 1, k) \in Seq(Nat) /\ Len(SubSeq(s, 1, k)) = k
      /\ \A i \in 1..k : SubSeq(s, 1, k)[i] = s[i]
  BY <1>2
<1>5. /\ SubSeq(t, 1, k) \in Seq(Nat) /\ Len(SubSeq(t, 1, k)) = k
      /\ \A i \in 1..k : SubSeq(t, 1, k)[i] = t[i]
  BY <1>3
<1>6. SubSeq(s, 1, k) = SubSeq(t, 1, k)
  BY <1>2, <1>3, <1>4, <1>5
<1>7. IsPrefix(s, t)
  BY <1>2, <1>3, <1>6 DEF IsPrefix
<1> QED
  BY <1>7 DEF s, t

\* A whole space is its own prefix, and was not deleted.
LEMMA KeptNotGone ==
    ASSUME NEW q \in Paths, Kept(q)
    PROVE  ~Gone(q)
<1>1. Len(q) \in Nat /\ SubSeq(q, 1, Len(q)) = q
  BY PathFacts
<1>2. IsPrefix(q, q)
  BY <1>1 DEF IsPrefix
<1> QED
  BY <1>2 DEF Kept, Gone

LEMMA ParentFacts ==
    ASSUME NEW p \in Paths, NEW d \in 1..(Len(p) - 1)
    PROVE  Parents(SubSeq(p, 1, d + 1)) = {SubSeq(p, 1, d)}
<1>1. p \in Seq(Nat) /\ Len(p) \in Nat
  BY PathFacts
<1> DEFINE t == SubSeq(p, 1, d + 1)
<1>2. t \in Seq(Nat) /\ Len(t) = d + 1 /\ \A i \in 1..(d + 1) : t[i] = p[i]
  BY <1>1
<1> HIDE DEF t
<1>3. /\ SubSeq(t, 1, d) \in Seq(Nat) /\ Len(SubSeq(t, 1, d)) = d
      /\ \A i \in 1..d : SubSeq(t, 1, d)[i] = t[i]
  BY <1>2
<1>4. /\ SubSeq(p, 1, d) \in Seq(Nat) /\ Len(SubSeq(p, 1, d)) = d
      /\ \A i \in 1..d : SubSeq(p, 1, d)[i] = p[i]
  BY <1>1
<1>5. SubSeq(t, 1, d) = SubSeq(p, 1, d)
  BY <1>2, <1>3, <1>4
<1>6. Len(t) # 1 /\ Len(t) - 1 = d
  BY <1>2
<1>7. Parents(t) = {SubSeq(p, 1, d)}
  BY <1>5, <1>6 DEF Parents, Front
<1> QED
  BY <1>7 DEF t

LEMMA MadeTyped ==
    ASSUME SpaceTypes, NEW c \in Calls, CallInv(c), call[c].pc = "ensure"
    PROVE  Made(c) \subseteq Paths
<1>1. /\ call[c].path \in Paths /\ call[c].depth \in Nat
      /\ call[c].depth <= Len(call[c].path) /\ Len(call[c].path) \in Nat
  BY PathFacts DEF SpaceTypes, Progress, Busy, Sane, CallInv
<1>2. \A n \in 1..Len(call[c].path) : SubSeq(call[c].path, 1, n) \in Paths
  BY <1>1, PathFacts
<1>3. 1..call[c].depth \subseteq 1..Len(call[c].path)
  BY <1>1
<1> QED BY <1>2, <1>3 DEF Made

\* A space that would have to be made a second time was deleted, or one above it was.
LEMMA LostParent ==
    ASSUME SpaceTypes, NEW c \in Calls, CallInv(c), call[c].pc = "ensure",
           call[c].depth < Len(call[c].path),
           ~(Parents(SubSeq(call[c].path, 1, call[c].depth + 1)) \subseteq spaces)
    PROVE  \A q \in Made(c) : ~Kept(q)
<1> DEFINE p == call[c].path
           d == call[c].depth
<1>1. p \in Paths /\ d \in Nat /\ Len(p) \in Nat
  BY PathFacts DEF SpaceTypes, Busy, Progress, Sane
<1>2. CASE d = 0
  BY <1>2, <1>1 DEF Made
<1>3. CASE d # 0
  <2>1. d \in 1..(Len(p) - 1) /\ d \in 1..Len(p)
    BY <1>1, <1>3
  <2> HIDE DEF p, d
  <2>2. SubSeq(p, 1, d) \notin spaces
    BY <2>1, <1>1, ParentFacts DEF p, d
  <2>3. SubSeq(p, 1, d) \in Made(c)
    BY <2>1 DEF Made, p, d
  <2>4. Gone(SubSeq(p, 1, d)) /\ SubSeq(p, 1, d) \in Paths
    BY <2>1, <2>2, <2>3, <1>1, PathFacts DEF CallInv, Was
  <2>5. ASSUME NEW k \in 1..d PROVE ~Kept(SubSeq(p, 1, k))
    BY <2>1, <2>4, <1>1, PrefixFacts DEF Kept, Gone
  <2> QED BY <2>5 DEF Made, p, d
<1> QED
  BY <1>2, <1>3

---------------------------------------------------------------------------
(* What every step keeps. *)

Onward ==
    /\ now <= now'
    /\ \A p \in Paths : (Was(p) => Was(p)') /\ (Kept(p)' => Kept(p))
    /\ \A p \in Paths : \A at \in Nat : at <= now /\ Since(p, at) => Since(p, at)'

LEMMA GrowsOnward ==
    ASSUME SpaceTypes, spaces \subseteq spaces', deletedAt' = deletedAt, now' \in {now, now + 1}
    PROVE  Onward
<1>1. now <= now'
  BY DEF SpaceTypes
<1> QED
  BY <1>1 DEF Onward, Was, Gone, Kept, Since

LEMMA DeleteOnward ==
    ASSUME SpaceTypes, NEW q \in Paths, DeleteSpace(q)
    PROVE  Onward
<1> DEFINE dropped == {r \in spaces : IsPrefix(q, r)}
<1>1. /\ spaces' = spaces \ dropped /\ now' = now
      /\ deletedAt' = [r \in Paths |-> IF r \in dropped THEN now ELSE deletedAt[r]]
  BY DEF DeleteSpace
<1> HIDE DEF dropped
<1>2. \A r \in Paths : deletedAt'[r] = IF r \in dropped THEN now ELSE deletedAt[r]
  BY <1>1
<1>3. now \in Nat /\ now # Never /\ \A r \in Paths : deletedAt[r] \in Nat
  BY DEF SpaceTypes, Never
<1>4. \A r \in Paths : deletedAt'[r] = Never => deletedAt[r] = Never
  BY <1>2, <1>3
<1>5. \A r \in Paths : Kept(r)' => Kept(r)
  BY <1>4 DEF Kept
<1>6. \A r \in Paths : Was(r) => Was(r)'
  BY <1>1, <1>2, <1>3 DEF Was, Gone
<1>7. ASSUME NEW r \in Paths, NEW at \in Nat, at <= now, Since(r, at)
      PROVE  Since(r, at)'
  <2>1. CASE r \in dropped
    BY <1>2, <1>3, <1>7, <2>1 DEF Since, Gone
  <2>2. CASE r \notin dropped
    BY <1>1, <1>2, <1>7, <2>2 DEF Since, Gone
  <2> QED BY <2>1, <2>2
<1> QED
  BY <1>1, <1>3, <1>5, <1>6, <1>7 DEF Onward

LEMMA OfferedKept ==
    ASSUME Onward, now \in Nat, now' \in Nat, NEW at \in Nat, NEW paths \in SUBSET Paths,
           Offered(at, paths)
    PROVE  Offered(at, paths)'
  BY DEF Onward, Offered

\* A call that takes no step.
LEMMA CallKept ==
    ASSUME SpaceTypes, SpaceTypes', Onward, NEW c \in Calls, CallInv(c), call'[c] = call[c]
    PROVE  CallInv(c)'
<1>1. /\ call[c].at \in Nat /\ call[c].listed \subseteq Paths /\ call[c].before \subseteq Paths
      /\ call[c].depth \in Nat /\ now \in Nat /\ now' \in Nat
      /\ call[c].pc = "ensure" => call[c].path \in Paths
  BY DEF SpaceTypes, Progress, Busy, Sane
<1>2. Offered(call[c].at, call[c].listed)'
  <2>1. \A p \in call[c].listed : Since(p, call[c].at) => Since(p, call[c].at)'
    BY <1>1 DEF Onward, CallInv, Offered, Since
  <2>2. call[c].at <= now'
    BY <1>1 DEF Offered, Onward, CallInv
  <2> QED BY <1>1, <2>1, <2>2 DEF Offered, CallInv
<1>3. \A p \in call[c].before : Was(p)'
  BY <1>1 DEF CallInv, Onward
<1>4. ASSUME call[c].pc = "ensure"
      PROVE  call[c].depth <= Len(call[c].path) /\ \A p \in Made(c)' : Was(p)'
  <2>1. Made(c)' = Made(c)
    BY DEF Made
  <2>2. Made(c) \subseteq Paths
    BY <1>4, MadeTyped
  <2>3. call[c].depth <= Len(call[c].path) /\ \A p \in Made(c) : Was(p)
    BY <1>4 DEF CallInv
  <2>4. \A p \in Made(c) : Was(p)'
    BY <2>2, <2>3 DEF Onward
  <2> QED BY <2>1, <2>3, <2>4
<1> QED
  BY <1>2, <1>3, <1>4 DEF CallInv

LEMMA CacheKept ==
    ASSUME SpaceTypes, SpaceTypes', Onward, CacheInv, registry' = registry,
           known' \subseteq known, apart' \subseteq apart
    PROVE  CacheInv'
<1>1. Offered(registry.at, registry.paths)'
  <2>1. registry.at \in Nat /\ registry.paths \subseteq Paths /\ now \in Nat /\ now' \in Nat
    BY DEF SpaceTypes
  <2>2. registry.at <= now /\ \A p \in registry.paths : Since(p, registry.at)
    BY DEF CacheInv, Offered
  <2>3. registry.at <= now'
    BY <2>1, <2>2 DEF Onward
  <2>4. \A p \in registry.paths : Since(p, registry.at)'
    BY <2>1, <2>2 DEF Onward
  <2> QED BY <2>3, <2>4 DEF Offered
<1>2. \A p \in known \cup apart : Was(p)'
  BY DEF CacheInv, Onward, SpaceTypes
<1> QED
  BY <1>1, <1>2 DEF CacheInv

LEMMA StandingKept ==
    ASSUME SpaceTypes, Onward, apart' \subseteq apart
    PROVE  Standing' \subseteq Standing
  BY DEF Standing, Onward, SpaceTypes

LEMMA PromiseKept ==
    ASSUME SpaceTypes, Onward, NEW c \in Calls, Promise(call[c]), call'[c] = call[c],
           Standing' \subseteq Standing
    PROVE  Promise(call[c])'
<1>1. call[c].hinted /\ call[c].pc \in {"alias", "record", "ensure"} /\ Was(call[c].path)
        => Was(call[c].path)'
  BY DEF SpaceTypes, Busy, Onward, Sane
<1> QED
  BY <1>1 DEF Promise

\* The listing stays, or is dropped.
LEMMA RegistryKept ==
    ASSUME SpaceTypes, Onward, RegistryInv, Standing' \subseteq Standing, registry' = registry,
           known' = known,
           \A c \in Calls : \A q \in Standing' :
               Making(c) /\ q \in Made(c) => Making(c)' /\ q \in Made(c)'
    PROVE  RegistryInv'
  BY DEF RegistryInv

\* The places a step of one call leaves alone.
LEMMA StepKeeps ==
    ASSUME SpacesInv, SpaceTypes', Onward, faults' = 0 => faults = 0,
           NEW c \in Calls, \A d \in Calls \ {c} : call'[d] = call[d],
           CallInv(c)', CacheInv', faults' = 0 => RegistryInv' /\ Promise(call[c])',
           Standing' \subseteq Standing
    PROVE  SpacesInv'
<1>1. \A d \in Calls : CallInv(d)'
  BY CallKept DEF SpacesInv
<1>2. faults' = 0 => \A d \in Calls : Promise(call[d])'
  BY PromiseKept DEF SpacesInv
<1> QED
  BY <1>1, <1>2 DEF SpacesInv

---------------------------------------------------------------------------
(* The steps. *)

\* What a step makes of one call's progress.
LEMMA ProgressKept ==
    ASSUME SpaceTypes, NEW c \in Calls, NEW t \in Progress, call' = [call EXCEPT ![c] = t], Sane(t)
    PROVE  /\ call' \in [Calls -> Progress]
           /\ call'[c] = t /\ \A d \in Calls \ {c} : call'[d] = call[d]
           /\ \A d \in Calls : Sane(call'[d])
<1>1. /\ call' \in [Calls -> Progress]
      /\ call'[c] = t /\ \A d \in Calls \ {c} : call'[d] = call[d]
  BY DEF SpaceTypes
<1> QED BY <1>1 DEF SpaceTypes

\* A step of one call that neither makes a space nor ends its making.
LEMMA QuietStep ==
    ASSUME SpacesInv, NEW c \in Calls, NEW t \in Progress, call' = [call EXCEPT ![c] = t], Sane(t),
           UNCHANGED <<spaces, deletedAt, known, registry, now, apart>>,
           aliases' \in [Paths -> SUBSET Nat],
           faults' \in {faults, faults + 1},
           Offered(t.at, t.listed), \A p \in t.before : Was(p), t.pc = "ensure" => t.depth = 0,
           faults' = 0 => Promise(t), Making(c) => Made(c) = {}
    PROVE  SpacesInv'
<1>1. /\ call' \in [Calls -> Progress]
      /\ call'[c] = t /\ \A d \in Calls \ {c} : call'[d] = call[d]
      /\ \A d \in Calls : Sane(call'[d])
  BY ProgressKept DEF SpacesInv
<1>2. SpaceTypes'
  BY <1>1 DEF SpacesInv, SpaceTypes, Sane
<1>3. Onward
  BY GrowsOnward DEF SpacesInv, SpaceTypes
<1>4. Standing' \subseteq Standing
  BY <1>3, StandingKept DEF SpacesInv
<1>5. CacheInv'
  BY <1>2, <1>3, CacheKept DEF SpacesInv
<1>6. faults' = 0 => faults = 0
  BY DEF SpacesInv, SpaceTypes
<1>7. CallInv(c)'
  <2>1. Offered(call[c].at, call[c].listed)'
    BY <1>1 DEF Offered, Since, Gone
  <2>2. \A p \in call'[c].before : Was(p)'
    BY <1>1 DEF Was, Gone
  <2>3. call'[c].pc = "ensure" => call'[c].depth = 0 /\ Len(call'[c].path) \in Nat
    BY <1>1, PathFacts DEF Sane, Busy
  <2> QED BY <2>1, <2>2, <2>3 DEF CallInv, Made
<1>8. faults' = 0 => RegistryInv'
  <2>1. SUFFICES ASSUME faults' = 0 PROVE RegistryInv'
    OBVIOUS
  <2>2. ASSUME NEW d \in Calls, NEW q, Making(d) /\ q \in Made(d)
        PROVE  Making(d)' /\ q \in Made(d)'
    <3>1. d # c
      BY <2>1, <2>2
    <3> QED BY <1>1, <3>1, <2>2 DEF Making, Made
  <2> QED BY <1>3, <1>4, <1>6, <2>1, <2>2, RegistryKept DEF SpacesInv
<1>9. faults' = 0 => Promise(call[c])'
  <2>1. Promise(t) => Promise(call[c])'
    BY <1>1 DEF Promise, Standing, Kept, Was, Gone
  <2> QED BY <2>1
<1> QED
  BY <1>1, <1>2, <1>3, <1>4, <1>5, <1>6, <1>7, <1>8, <1>9, StepKeeps

LEMMA Known ==
    ASSUME SpacesInv, NEW c \in Calls
    PROVE  /\ call[c] \in Progress /\ Sane(call[c])
           /\ Offered(call[c].at, call[c].listed) /\ \A p \in call[c].before : Was(p)
           /\ faults = 0 => Promise(call[c])
  BY DEF SpacesInv, SpaceTypes, CallInv

LEMMA CreateItemKeeps ==
    ASSUME SpacesInv, NEW c \in Calls, CreateItem(c)
    PROVE  SpacesInv'
<1>1. PICK end \in {"ok", "error"} : call' = [call EXCEPT ![c] = [Idle EXCEPT !.pc = end]]
  BY DEF CreateItem, Done
<1> DEFINE t == [Idle EXCEPT !.pc = end]
<1>2. /\ t \in Progress /\ t.pc = end /\ t.at = Never /\ t.listed = {}
      /\ t.before = {} /\ t.hinted = FALSE
  BY DEF Idle, Progress, Never
<1>3. call' = [call EXCEPT ![c] = t]
  BY <1>1
<1> HIDE DEF t
<1>4. Sane(t) /\ Offered(t.at, t.listed) /\ Promise(t)
  BY <1>2 DEF Sane, Busy, Offered, Promise, Never, SpacesInv, SpaceTypes
<1>5. /\ call[c].pc = "item"
      /\ UNCHANGED <<spaces, aliases, deletedAt, known, registry, now, apart, faults>>
  BY DEF CreateItem, server, cache
<1> QED
  BY <1>2, <1>3, <1>4, <1>5, QuietStep DEF Making, SpacesInv, SpaceTypes

LEMMA KnownSpaceKeeps ==
    ASSUME SpacesInv, NEW c \in Calls, KnownSpace(c)
    PROVE  SpacesInv'
<1> DEFINE t == [call[c] EXCEPT !.pc = "item"]
<1>1. /\ call[c].pc = "ensure" /\ call[c].depth = 0
      /\ call' = [call EXCEPT ![c] = t]
      /\ UNCHANGED <<spaces, aliases, deletedAt, known, registry, now, apart, faults>>
  BY DEF KnownSpace, server, cache
<1>2. /\ t \in Progress /\ t.pc = "item" /\ t.hint = call[c].hint /\ t.path = call[c].path
      /\ t.at = call[c].at /\ t.listed = call[c].listed /\ t.before = call[c].before
  BY Known DEF Progress
<1> HIDE DEF t
<1>3. Sane(t) /\ Offered(t.at, t.listed) /\ (\A p \in t.before : Was(p)) /\ Promise(t)
  BY <1>1, <1>2, Known DEF Sane, Busy, Promise
<1>4. call[c].depth = 0 => Made(c) = {}
  BY DEF Made
<1> QED
  BY <1>1, <1>2, <1>3, <1>4, QuietStep DEF SpacesInv, SpaceTypes

LEMMA ListKeeps ==
    ASSUME SpacesInv, NEW c \in Calls, List(c)
    PROVE  SpacesInv'
<1> DEFINE t == [call[c] EXCEPT !.listed = spaces, !.pc = "cache"]
           u == [call[c] EXCEPT !.pc = "ensure"]
<1>1. /\ call[c].pc = "list"
      /\ \/ call' = [call EXCEPT ![c] = t] /\ faults' = faults
         \/ call' = [call EXCEPT ![c] = u] /\ faults' = faults + 1
      /\ UNCHANGED <<spaces, aliases, deletedAt, known, registry, now, apart>>
  BY Zenon DEF List, Fault, server, cache
<1>2. /\ t \in Progress /\ t.pc = "cache" /\ t.hint = call[c].hint /\ t.path = call[c].path
      /\ t.at = call[c].at /\ t.listed = spaces /\ t.before = call[c].before /\ t.depth = call[c].depth
  <2>1. spaces \in SUBSET Paths
    BY DEF SpacesInv, SpaceTypes
  <2>2. call[c] \in Progress
    BY Known
  <2> QED BY <2>1, <2>2 DEF Progress
<1>3. /\ u \in Progress /\ u.pc = "ensure" /\ u.hint = call[c].hint /\ u.path = call[c].path
      /\ u.at = call[c].at /\ u.listed = call[c].listed /\ u.before = call[c].before
      /\ u.depth = call[c].depth
  BY Known DEF Progress
<1> HIDE DEF t, u
<1>4. /\ Offered(call[c].at, call[c].listed) /\ (\A p \in call[c].before : Was(p))
      /\ call[c].depth = 0 /\ Sane(call[c]) /\ ~Making(c)
      /\ faults \in Nat /\ aliases \in [Paths -> SUBSET Nat]
  BY <1>1, Known DEF Sane, Making, SpacesInv, SpaceTypes
<1>5. CASE call' = [call EXCEPT ![c] = t] /\ faults' = faults
  <2>1. Sane(t) /\ Offered(t.at, t.listed) /\ (\A p \in t.before : Was(p))
    BY <1>1, <1>2, <1>4 DEF Sane, Busy, Offered, Since
  <2>2. Promise(t)
    <3>1. ASSUME NEW q \in Standing PROVE q \in spaces
      BY KeptNotGone DEF Standing, SpacesInv, CacheInv, Was, SpaceTypes
    <3> QED BY <1>2, <3>1 DEF Promise
  <2> QED
    BY <1>1, <1>2, <1>4, <1>5, <2>1, <2>2, QuietStep
<1>6. CASE call' = [call EXCEPT ![c] = u] /\ faults' = faults + 1
  <2>1. Sane(u) /\ Offered(u.at, u.listed) /\ (\A p \in u.before : Was(p))
    BY <1>1, <1>3, <1>4 DEF Sane, Busy
  <2>2. faults' # 0
    BY <1>4, <1>6
  <2> QED
    BY <1>1, <1>3, <1>4, <1>6, <2>1, <2>2, QuietStep
<1> QED
  BY <1>1, <1>5, <1>6

\* Fields of one call set one by one.
LEMMA CallEdits ==
    ASSUME NEW c, NEW x, NEW y, NEW z
    PROVE  [call EXCEPT ![c].path = x, ![c].listed = y, ![c].pc = z]
             = [call EXCEPT ![c] = [call[c] EXCEPT !.path = x, !.listed = y, !.pc = z]]
OBVIOUS

LEMMA ReadEdits ==
    ASSUME NEW c, NEW x, NEW z
    PROVE  [call EXCEPT ![c].read = x, ![c].pc = z]
             = [call EXCEPT ![c] = [@ EXCEPT !.pc = z, !.read = x]]
OBVIOUS

LEMMA PhaseEdits ==
    ASSUME NEW c, NEW z
    PROVE  [call EXCEPT ![c].pc = z]
             = [call EXCEPT ![c] = [@ EXCEPT !.pc = z, !.read = call[c].read]]
OBVIOUS

\* Some variant comes first.
LEMMA FirstVariant ==
    ASSUME NEW s \in SUBSET Paths, s # {}
    PROVE  \E q \in s : \A r \in s : Last(q) <= Last(r)
<1> DEFINE N == {Last(q) : q \in s}
<1>1. \A q \in s : Last(q) \in Nat
  BY PathFacts DEF Last
<1>2. N \in SUBSET Nat /\ N # {}
  BY <1>1
<1> HIDE DEF N
<1>3. PICK n \in N : \A m \in N : n <= m
  BY Zenon, <1>2, Least
<1> QED
  BY <1>3 DEF N

LEMMA ResolveKeeps ==
    ASSUME SpacesInv, NEW c \in Calls, Resolve(c)
    PROVE  SpacesInv'
<1> DEFINE p == call[c].hint
           listed == call[c].listed
           variants == Variants(p, listed)
           first == CHOOSE q \in variants : \A r \in variants : Last(q) <= Last(r)
           unify == p \notin listed /\ variants # {}
           next == IF unify THEN "alias" ELSE "ensure"
           path == IF unify THEN first ELSE p
           t == [call[c] EXCEPT !.path = path, !.listed = {}, !.pc = next]
<1>1. /\ call[c].pc = "resolve" /\ call' = [call EXCEPT ![c] = t]
      /\ UNCHANGED <<spaces, aliases, deletedAt, known, registry, now, apart, faults>>
  <2>1. /\ call[c].pc = "resolve"
        /\ call' = [call EXCEPT ![c].path = path, ![c].listed = {}, ![c].pc = next]
        /\ UNCHANGED <<spaces, aliases, deletedAt, known, registry, now, apart, faults>>
    BY Zenon DEF Resolve, server, cache
  <2> HIDE DEF path, next
  <2>2. [call EXCEPT ![c].path = path, ![c].listed = {}, ![c].pc = next] = [call EXCEPT ![c] = t]
    BY CallEdits
  <2> QED BY <2>1, <2>2
<1>2. /\ p \in Paths /\ listed \in SUBSET Paths /\ call[c].depth = 0 /\ ~Making(c)
      /\ call[c].before \in SUBSET Paths
  BY <1>1, Known DEF Sane, Busy, Progress, Making
<1>3. variants \in SUBSET listed /\ variants \in SUBSET Paths
  BY <1>2 DEF Variants
<1>4. unify => first \in variants
  <2> HIDE DEF variants
  <2>1. variants # {} => \E q \in variants : \A r \in variants : Last(q) <= Last(r)
    BY <1>3, FirstVariant
  <2> QED BY Zenon, <2>1
<1>5. path \in Paths
  BY <1>2, <1>3, <1>4
<1>6. Was(path) \/ call[c].before \cap Standing \cap Variants(path, Paths) = {} \/ faults # 0
  <2>1. SUFFICES ASSUME faults = 0, ~Was(path)
                 PROVE  call[c].before \cap Standing \cap Variants(path, Paths) = {}
    OBVIOUS
  <2>2. call[c].before \cap Standing \subseteq listed
    BY <1>1, <2>1, Known DEF Promise
  <2>3. \A q \in listed : Was(q)
    BY Known DEF Offered, Since, Was
  <2>4. path \notin listed
    BY <2>1, <2>3
  <2>5. path = p /\ variants = {}
    BY <1>3, <1>4, <2>4
  <2>6. Variants(path, Paths) \cap listed = {}
    BY <2>5, <1>2 DEF Variants
  <2> QED BY <2>2, <2>6
<1> HIDE DEF first, unify, path, variants
<1>7. /\ t \in Progress /\ t.pc = next /\ t.hint = call[c].hint /\ t.path = path
      /\ t.at = call[c].at /\ t.listed = {} /\ t.before = call[c].before /\ t.depth = call[c].depth
  BY <1>5, Known DEF Progress
<1> HIDE DEF t
<1>8. Sane(t) /\ Offered(t.at, t.listed) /\ (\A q \in t.before : Was(q))
  BY <1>2, <1>5, <1>7, Known DEF Sane, Busy, Offered
<1>9. faults' = 0 => Promise(t)
  BY <1>1, <1>6, <1>7 DEF Promise
<1> QED
  BY <1>1, <1>2, <1>7, <1>8, <1>9, QuietStep DEF SpacesInv, SpaceTypes

LEMMA AliasMovesKeep ==
    ASSUME SpacesInv, NEW c \in Calls, call[c].pc \in {"alias", "record"},
           NEW next \in {"ensure", "record"}, NEW read \in SUBSET Nat,
           \/ call' = [call EXCEPT ![c].read = read, ![c].pc = next]
           \/ call' = [call EXCEPT ![c].pc = next],
           aliases' \in [Paths -> SUBSET Nat], faults' \in {faults, faults + 1},
           UNCHANGED <<spaces, deletedAt, known, registry, now, apart>>
    PROVE  SpacesInv'
<1> PICK new \in SUBSET Nat : call' = [call EXCEPT ![c] = [@ EXCEPT !.pc = next, !.read = new]]
  <2>1. CASE call' = [call EXCEPT ![c].read = read, ![c].pc = next]
    <3>1. call' = [call EXCEPT ![c] = [@ EXCEPT !.pc = next, !.read = read]]
      BY <2>1, ReadEdits
    <3> QED BY <3>1
  <2>2. CASE call' = [call EXCEPT ![c].pc = next]
    <3>1. call[c].read \in SUBSET Nat
      BY Known DEF Progress
    <3>2. call' = [call EXCEPT ![c] = [@ EXCEPT !.pc = next, !.read = call[c].read]]
      BY <2>2, PhaseEdits
    <3> QED BY <3>1, <3>2
  <2> QED BY <2>1, <2>2
<1> DEFINE t == [call[c] EXCEPT !.pc = next, !.read = new]
<1>1. call' = [call EXCEPT ![c] = t]
  BY DEF SpacesInv, SpaceTypes
<1>2. /\ t \in Progress /\ t.pc = next /\ t.hint = call[c].hint /\ t.path = call[c].path
      /\ t.at = call[c].at /\ t.listed = call[c].listed /\ t.before = call[c].before
      /\ t.depth = call[c].depth /\ t.hinted = call[c].hinted
  BY Known DEF Progress
<1> HIDE DEF t
<1>3. Sane(t) /\ Offered(t.at, t.listed) /\ (\A q \in t.before : Was(q)) /\ t.depth = 0
  BY <1>2, Known DEF Sane, Busy
<1>4. faults' = 0 => Promise(t)
  BY <1>2, Known DEF Promise, SpacesInv, SpaceTypes
<1> QED
  BY <1>1, <1>2, <1>3, <1>4, QuietStep DEF Making

LEMMA ReadAliasesKeeps ==
    ASSUME SpacesInv, NEW c \in Calls, ReadAliases(c)
    PROVE  SpacesInv'
<1> DEFINE p == call[c].path
           next == IF Last(call[c].hint) \in aliases[p] THEN "ensure" ELSE "record"
<1>1. /\ call[c].pc = "alias"
      /\ \/ call' = [call EXCEPT ![c].read = aliases[p], ![c].pc = next] /\ faults' = faults
         \/ call' = [call EXCEPT ![c].pc = "ensure"] /\ faults' \in {faults, faults + 1}
      /\ UNCHANGED <<spaces, aliases, deletedAt, known, registry, now, apart>>
  BY Zenon DEF ReadAliases, Fault, server, cache
<1>2. p \in Paths /\ aliases \in [Paths -> SUBSET Nat] /\ call[c].read \in SUBSET Nat
  BY <1>1, Known DEF Sane, Busy, SpacesInv, SpaceTypes, Progress
<1>3. /\ next \in {"ensure", "record"} /\ aliases[p] \in SUBSET Nat
  BY <1>2
<1> HIDE DEF p, next
<1> QED
  BY <1>1, <1>2, <1>3, AliasMovesKeep

LEMMA RecordAliasKeeps ==
    ASSUME SpacesInv, NEW c \in Calls, RecordAlias(c)
    PROVE  SpacesInv'
<1> DEFINE p == call[c].path
           new == call[c].read \cup {Last(call[c].hint)}
<1>1. /\ call[c].pc = "record"
      /\ aliases' = [aliases EXCEPT ![p] = new] \/ aliases' = aliases
      /\ faults' \in {faults, faults + 1}
      /\ call' = [call EXCEPT ![c].pc = "ensure"]
      /\ UNCHANGED <<spaces, deletedAt, known, registry, now, apart>>
  BY Zenon DEF RecordAlias, Fault, cache
<1>2. /\ p \in Paths /\ call[c].hint \in Paths /\ aliases \in [Paths -> SUBSET Nat]
      /\ call[c].read \in SUBSET Nat
  BY <1>1, Known DEF Sane, Busy, SpacesInv, SpaceTypes, Progress
<1>3. new \in SUBSET Nat
  BY <1>2, PathFacts DEF Last
<1>4. aliases' \in [Paths -> SUBSET Nat]
  BY <1>1, <1>2, <1>3
<1> HIDE DEF p
<1> QED
  BY <1>1, <1>2, <1>4, AliasMovesKeep

LEMMA BeginKeeps ==
    ASSUME SpacesInv, NEW c \in Calls, NEW p \in Paths, NEW hinted \in BOOLEAN, Begin(c, p, hinted)
    PROVE  SpacesInv'
<1> DEFINE fresh == registry # NoListing /\ now - registry.at < TTL
           next == IF ~hinted THEN "ensure" ELSE IF fresh THEN "resolve" ELSE "list"
           at == IF hinted /\ ~fresh THEN now ELSE Never
           listed == IF hinted /\ fresh THEN registry.paths ELSE {}
           before == IF hinted THEN known \cap spaces ELSE {}
           t == [Idle EXCEPT !.pc = next, !.hint = p, !.path = p, !.hinted = hinted, !.at = at,
                             !.listed = listed, !.before = before]
<1>1. /\ call[c].pc \in {"idle", "ok", "error"} /\ call' = [call EXCEPT ![c] = t]
      /\ UNCHANGED <<spaces, aliases, deletedAt, known, registry, now, apart, faults>>
  BY Zenon DEF Begin, server, cache
<1>2. /\ next \in {"ensure", "resolve", "list"} /\ at \in {now, Never}
      /\ listed \in {registry.paths, {}} /\ before \in SUBSET (known \cap spaces)
      /\ next = "resolve" => fresh /\ before = known \cap spaces /\ listed = registry.paths
      /\ listed # {} => at = Never
      /\ next = "ensure" => ~hinted
  OBVIOUS
<1>3. /\ registry.paths \in SUBSET Paths /\ now \in Nat /\ known \subseteq Paths
  BY DEF SpacesInv, SpaceTypes
<1>4. fresh => registry # NoListing
  OBVIOUS
<1> HIDE DEF fresh, next, at, listed, before
<1>5. /\ t.pc = next /\ t.hint = p /\ t.path = p /\ t.hinted = hinted /\ t.at = at
      /\ t.listed = listed /\ t.before = before /\ t.depth = 0
      /\ t \in Progress
  <2>1. at \in Nat /\ listed \in SUBSET Paths /\ before \in SUBSET Paths
    BY <1>2, <1>3 DEF Never
  <2> DEFINE u == [Idle EXCEPT !.pc = next, !.hint = p, !.path = p]
  <2>2. /\ u \in Progress /\ u.pc = next /\ u.hint = p /\ u.path = p /\ u.depth = 0
    BY <1>2 DEF Idle, Progress, Never
  <2>3. t = [u EXCEPT !.hinted = hinted, !.at = at, !.listed = listed, !.before = before]
    OBVIOUS
  <2> HIDE DEF t, u
  <2> QED BY <2>1, <2>2, <2>3 DEF Progress
<1> HIDE DEF t
<1>6. Sane(t)
  BY <1>5 DEF Sane
<1>7. Offered(t.at, t.listed)
  <2>1. \A q \in registry.paths : Since(q, Never)
    <3>1. \A q \in registry.paths : q \in spaces \/ (Gone(q) /\ deletedAt[q] \in Nat)
      BY <1>3 DEF SpacesInv, CacheInv, Offered, Since, SpaceTypes
    <3> QED BY <3>1 DEF Since, Never
  <2>2. at <= now
    BY <1>2, <1>3 DEF Never
  <2> QED BY <1>2, <1>5, <2>1, <2>2 DEF Offered
<1>8. \A q \in t.before : Was(q)
  BY <1>2, <1>5 DEF Was
<1>9. faults' = 0 => Promise(t)
  <2>1. SUFFICES ASSUME faults = 0 PROVE Promise(t)
    BY <1>1
  <2>2. next = "resolve" => Standing \cap known \subseteq listed
    BY <2>1, <1>2, <1>4 DEF SpacesInv, RegistryInv
  <2> QED BY <2>2, <1>2, <1>5 DEF Promise
<1> QED
  BY <1>1, <1>5, <1>6, <1>7, <1>8, <1>9, QuietStep DEF Making, SpacesInv, SpaceTypes

LEMMA CacheListingKeeps ==
    ASSUME SpacesInv, NEW c \in Calls, CacheListing(c)
    PROVE  SpacesInv'
<1> DEFINE t == [call[c] EXCEPT !.pc = "resolve"]
<1>1. /\ call[c].pc = "cache" /\ registry' = [at |-> call[c].at, paths |-> call[c].listed]
      /\ call' = [call EXCEPT ![c] = t]
      /\ UNCHANGED <<spaces, aliases, deletedAt, known, now, apart, faults>>
  BY DEF CacheListing, server
<1>2. /\ t \in Progress /\ t.pc = "resolve" /\ t.hint = call[c].hint /\ t.path = call[c].path
      /\ t.at = call[c].at /\ t.listed = call[c].listed /\ t.before = call[c].before
      /\ t.depth = call[c].depth
  BY Known DEF Progress
<1> HIDE DEF t
<1>3. Sane(t) /\ Sane(call[c]) /\ call[c] \in Progress
  BY <1>1, <1>2, Known DEF Sane, Busy
<1>4. /\ call' \in [Calls -> Progress]
      /\ call'[c] = t /\ \A d \in Calls \ {c} : call'[d] = call[d]
      /\ \A d \in Calls : Sane(call'[d])
  BY <1>1, <1>2, <1>3, ProgressKept DEF SpacesInv
<1>5. registry' \in [at : Nat, paths : SUBSET Paths]
  BY <1>1, <1>3 DEF Progress
<1>6. SpaceTypes'
  BY <1>1, <1>4, <1>5 DEF SpacesInv, SpaceTypes, Sane
<1>7. Onward
  BY <1>1, GrowsOnward DEF SpacesInv, SpaceTypes
<1>8. Standing' = Standing
  BY <1>1 DEF Standing, Kept
<1>9. Offered(call[c].at, call[c].listed) /\ \A q \in call[c].before : Was(q)
  BY Known
<1>10. CacheInv'
  <2>1. Offered(registry.at, registry.paths)'
    BY <1>1, <1>9 DEF Offered, Since, Gone
  <2>2. \A q \in known' \cup apart' : Was(q)'
    BY <1>1 DEF SpacesInv, CacheInv, Was, Gone
  <2> QED BY <2>1, <2>2 DEF CacheInv
<1>11. CallInv(c)'
  BY <1>1, <1>2, <1>4, <1>9 DEF CallInv, Offered, Since, Was, Gone
<1>12. ASSUME faults' = 0 PROVE RegistryInv' /\ Promise(call[c])'
  <2>1. Standing \subseteq call[c].listed
    BY <1>1, <1>12, Known DEF Promise
  <2>2. RegistryInv'
    BY <1>1, <1>8, <2>1 DEF RegistryInv
  <2>3. Promise(call[c])'
    BY <1>2, <1>4, <1>8, <2>1 DEF Promise
  <2> QED BY <2>2, <2>3
<1> QED
  BY <1>1, <1>4, <1>6, <1>7, <1>8, <1>10, <1>11, <1>12, StepKeeps

\* The next space of a path is made, or found.
LEMMA MakeFacts ==
    ASSUME SpacesInv, NEW c \in Calls, call[c].pc = "ensure", call[c].depth < Len(call[c].path)
    PROVE  LET p == SubSeq(call[c].path, 1, call[c].depth + 1)
           IN  /\ p \in Paths /\ call[c].path \in Paths /\ call[c] \in Progress
               /\ call[c].depth \in Nat
               /\ call[c].depth + 1 \in 1..Len(call[c].path)
               /\ Len(call[c].path) \in Nat
<1>1. call[c] \in Progress /\ call[c].path \in Paths
  BY Known DEF Sane, Busy
<1>2. call[c].depth \in Nat /\ Len(call[c].path) \in Nat
  BY <1>1, PathFacts DEF Progress
<1>3. call[c].depth + 1 \in 1..Len(call[c].path)
  BY <1>2
<1> QED
  BY <1>1, <1>2, <1>3, PathFacts

LEMMA MakeSpaceKeeps ==
    ASSUME SpacesInv, NEW c \in Calls, MakeSpace(c)
    PROVE  SpacesInv'
<1>0. PICK p : p = SubSeq(call[c].path, 1, call[c].depth + 1)
  OBVIOUS
<1> DEFINE made == call[c].made \/ p \notin spaces
           t == [call[c] EXCEPT !.depth = @ + 1, !.made = made]
<1>1. /\ call[c].pc = "ensure" /\ call[c].depth < Len(call[c].path)
      /\ spaces' = spaces \cup {p}
      /\ apart' = IF Alone(c) THEN apart \cup ({p} \ spaces) ELSE apart
      /\ UNCHANGED <<aliases, deletedAt, known, registry, now, faults>>
  BY <1>0 DEF MakeSpace, cache
<1>2. call' = [call EXCEPT ![c] = t]
  BY <1>0 DEF MakeSpace
<1>3. /\ p \in Paths /\ call[c].path \in Paths /\ call[c] \in Progress /\ call[c].depth \in Nat
      /\ call[c].depth + 1 \in 1..Len(call[c].path) /\ Len(call[c].path) \in Nat
  BY <1>0, <1>1, MakeFacts
<1>4. /\ t \in Progress /\ t.pc = "ensure" /\ t.hint = call[c].hint /\ t.path = call[c].path
      /\ t.at = call[c].at /\ t.listed = call[c].listed /\ t.before = call[c].before
      /\ t.depth = call[c].depth + 1 /\ t.hinted = call[c].hinted
      /\ t.made = made
  <2>1. made \in BOOLEAN
    BY <1>3 DEF Progress
  <2> HIDE DEF made
  <2>2. call[c].depth + 1 \in Nat
    BY <1>3
  <2>3. t \in Progress
    BY <2>1, <2>2, <1>3 DEF Progress
  <2>4. /\ t.pc = call[c].pc /\ t.hint = call[c].hint /\ t.path = call[c].path
        /\ t.at = call[c].at /\ t.listed = call[c].listed /\ t.before = call[c].before
        /\ t.hinted = call[c].hinted /\ t.depth = call[c].depth + 1 /\ t.made = made
    BY <1>3 DEF Progress
  <2> QED BY <2>3, <2>4, <1>1
<1> HIDE DEF t
<1>5. Sane(t)
  BY <1>1, <1>4, Known DEF Sane, Busy
<1>6. /\ call' \in [Calls -> Progress]
      /\ call'[c] = t /\ \A d \in Calls \ {c} : call'[d] = call[d]
      /\ \A d \in Calls : Sane(call'[d])
  BY <1>2, <1>4, <1>5, ProgressKept DEF SpacesInv
<1>7. SpaceTypes'
  BY <1>1, <1>3, <1>6 DEF SpacesInv, SpaceTypes, Sane
<1>8. Onward
  BY <1>1, GrowsOnward DEF SpacesInv, SpaceTypes
<1>9. Was(p)'
  BY <1>1 DEF Was
<1>10. CacheInv'
  <2>1. CacheInv /\ now \in Nat /\ registry.at \in Nat /\ registry.paths \subseteq Paths
        /\ known \cup apart \subseteq Paths
    BY DEF SpacesInv, SpaceTypes
  <2>2. Offered(registry.at, registry.paths)'
    BY <1>1, <2>1 DEF CacheInv, Offered, Since, Gone
  <2>3. known' \cup apart' \subseteq known \cup apart \cup {p}
    BY <1>1
  <2>4. \A q \in known' \cup apart' : Was(q)'
    BY <1>8, <1>9, <2>1, <2>3 DEF CacheInv, Onward
  <2> QED BY <2>2, <2>4 DEF CacheInv
<1>11. Made(c)' = Made(c) \cup {p}
  <2>1. 1..(call[c].depth + 1) = 1..call[c].depth \cup {call[c].depth + 1}
    BY <1>3
  <2> QED BY <1>0, <1>4, <1>6, <2>1 DEF Made
<1>12. \A d \in Calls \ {c} : CallInv(d)'
  BY <1>6, <1>7, <1>8, CallKept DEF SpacesInv
<1>13. CallInv(c)'
  <2>1. Offered(call[c].at, call[c].listed)'
    <3>1. Offered(call[c].at, call[c].listed)
      BY Known
    <3> QED BY <1>1, <1>4, <1>6, <3>1 DEF Offered, Since, Gone
  <2>2. \A q \in call'[c].before : Was(q)'
    BY <1>1, <1>4, <1>6, Known DEF Was, Gone
  <2>3. call'[c].depth <= Len(call'[c].path)
    BY <1>1, <1>3, <1>4, <1>6
  <2>4. \A q \in Made(c) : Was(q)
    BY <1>1 DEF SpacesInv, CallInv
  <2>5. \A q \in Made(c)' : Was(q)'
    BY <1>1, <1>9, <1>11, <2>4 DEF Was, Gone
  <2> QED BY <2>1, <2>2, <2>3, <2>5 DEF CallInv
<1>14. \A q \in Standing' : q \in Standing \/ (Alone(c) /\ q = p /\ p \notin spaces /\ ~Was(p))
  <2>1. ASSUME NEW q \in Standing', q \notin apart
        PROVE  Alone(c) /\ q = p /\ p \notin spaces
    BY <1>1, <2>1 DEF Standing
  <2>2. ASSUME NEW q \in Standing' PROVE Kept(q)
    BY <1>1, <2>2 DEF Standing, Kept
  <2>3. ASSUME NEW q \in Standing', q = p PROVE ~Gone(p)
    BY <1>3, <2>2, <2>3, KeptNotGone
  <2> QED BY <2>1, <2>2, <2>3 DEF Standing, Was
<1>15. ASSUME faults = 0 PROVE RegistryInv'
  <2>1. \A d \in Calls : \A q \in Made(d) : Making(d) => Making(d)' /\ q \in Made(d)'
    <3>1. ASSUME Making(c) PROVE Making(c)' /\ \A q \in Made(c) : q \in Made(c)'
      BY <1>4, <1>6, <1>11, <3>1 DEF Making
    <3>2. \A d \in Calls \ {c} : Making(d)' = Making(d) /\ Made(d)' = Made(d)
      BY <1>6 DEF Making, Made
    <3> QED BY <3>1, <3>2
  <2>2. p \notin spaces => Making(c)' /\ p \in Made(c)'
    BY <1>4, <1>6, <1>11 DEF Making
  <2>3. ~Was(p) => p \notin known
    BY DEF SpacesInv, CacheInv
  <2>4. SUFFICES ASSUME registry # NoListing
                 PROVE  /\ \A q \in Standing' : q \in registry.paths
                                  \/ \E d \in Calls : Making(d)' /\ q \in Made(d)'
                        /\ Standing' \cap known \subseteq registry.paths
    BY <1>1 DEF RegistryInv
  <2>5. /\ \A q \in Standing : q \in registry.paths \/ \E d \in Calls : Making(d) /\ q \in Made(d)
        /\ Standing \cap known \subseteq registry.paths
    BY <1>15, <2>4 DEF SpacesInv, RegistryInv
  <2>6. \A q \in Standing : q \in registry.paths \/ \E d \in Calls : Making(d)' /\ q \in Made(d)'
    BY <2>1, <2>5
  <2> QED BY <1>14, <2>2, <2>3, <2>5, <2>6
<1>16. ASSUME faults = 0, NEW d \in Calls PROVE Promise(call[d])'
  <2>1. Promise(call[d]) /\ \A q \in call[d].before : Was(q)
    BY <1>16, Known
  <2>2. call[d].before \cap Standing' \subseteq call[d].before \cap Standing
    BY <1>14, <2>1
  <2>3. CASE d = c
    <3>1. Was(call[c].path) => Was(call[c].path)'
      BY <1>4, <1>6, <1>3, <1>8 DEF Onward
    <3> QED BY <1>1, <1>4, <1>6, <2>1, <2>2, <2>3, <3>1 DEF Promise
  <2>4. CASE d # c
    <3>1. call'[d] = call[d]
      BY <1>6, <2>4
    <3>2. call[d].pc = "cache" => Standing' \subseteq Standing
      BY <1>14, <2>4 DEF Alone
    <3>3. call[d].pc \in Busy /\ Was(call[d].path) => Was(call[d].path)'
      BY <3>1, Known, <1>8 DEF Sane, Onward
    <3> QED BY <2>1, <2>2, <3>1, <3>2, <3>3 DEF Promise, Busy
  <2> QED BY <2>3, <2>4
<1> QED
  BY <1>1, <1>7, <1>10, <1>12, <1>13, <1>15, <1>16 DEF SpacesInv

LEMMA MakeSpaceLostKeeps ==
    ASSUME SpacesInv, NEW c \in Calls, MakeSpaceLost(c)
    PROVE  SpacesInv'
<1>1. PICK p \in Paths : spaces' = spaces \cup {p}
  BY MakeFacts DEF MakeSpaceLost
<1>2. /\ faults' = faults + 1
      /\ UNCHANGED <<aliases, deletedAt, known, registry, now, call, apart>>
  BY DEF MakeSpaceLost, Fault, cache
<1>3. SpaceTypes' /\ faults' # 0
  BY <1>1, <1>2 DEF SpacesInv, SpaceTypes, Sane
<1>4. Onward
  BY <1>1, <1>2, GrowsOnward DEF SpacesInv, SpaceTypes
<1>5. CacheInv' /\ Standing' \subseteq Standing
  BY <1>2, <1>3, <1>4, CacheKept, StandingKept DEF SpacesInv
<1>6. CallInv(c)'
  BY <1>2, <1>3, <1>4, CallKept DEF SpacesInv
<1> QED
  BY <1>2, <1>3, <1>4, <1>5, <1>6, StepKeeps

LEMMA MakeSpaceFailsKeeps ==
    ASSUME SpacesInv, NEW c \in Calls, MakeSpaceFails(c)
    PROVE  SpacesInv'
<1> DEFINE t == [Idle EXCEPT !.pc = "error"]
<1>0. PICK p : p = SubSeq(call[c].path, 1, call[c].depth + 1)
  OBVIOUS
<1>1. /\ call[c].pc = "ensure" /\ call[c].depth < Len(call[c].path)
      /\ \/ ~(Parents(p) \subseteq spaces) /\ spaces' = spaces /\ faults' = faults
         \/ faults' = faults + 1 /\ (spaces' = spaces \/ spaces' = spaces \cup {p})
      /\ UNCHANGED <<aliases, deletedAt, known, registry, now, apart>>
  BY <1>0 DEF MakeSpaceFails, Fault, cache
<1>2. call' = [call EXCEPT ![c] = t]
  BY DEF MakeSpaceFails, Done
<1>3. p \in Paths
  BY <1>0, <1>1, MakeFacts
<1>4. /\ t \in Progress /\ t.pc = "error" /\ t.at = Never /\ t.listed = {}
      /\ t.before = {} /\ t.hinted = FALSE
  BY DEF Idle, Progress, Never
<1> HIDE DEF t
<1>5. Sane(t)
  BY <1>4 DEF Sane, Busy
<1>6. /\ call' \in [Calls -> Progress]
      /\ call'[c] = t /\ \A d \in Calls \ {c} : call'[d] = call[d]
      /\ \A d \in Calls : Sane(call'[d])
  BY <1>2, <1>4, <1>5, ProgressKept DEF SpacesInv
<1>7. SpaceTypes'
  BY <1>1, <1>3, <1>6 DEF SpacesInv, SpaceTypes
<1>8. Onward
  BY <1>1, GrowsOnward DEF SpacesInv, SpaceTypes
<1>9. CacheInv' /\ Standing' \subseteq Standing
  BY <1>1, <1>7, <1>8, CacheKept, StandingKept DEF SpacesInv
<1>10. CallInv(c)'
  BY <1>4, <1>6, <1>7 DEF CallInv, Offered, Never, SpaceTypes
<1>11. faults' = 0 => faults = 0
  BY <1>1 DEF SpacesInv, SpaceTypes
<1>12. ASSUME faults' = 0 PROVE RegistryInv' /\ Promise(call[c])'
  <2>1. Promise(call[c])'
    BY <1>4, <1>6 DEF Promise
  <2>2. ~(Parents(p) \subseteq spaces)
    BY <1>1, <1>12 DEF SpacesInv, SpaceTypes
  <2>3. \A q \in Made(c) : ~Kept(q)
    BY <1>0, <1>1, <2>2, LostParent DEF SpacesInv
  <2>4. ASSUME NEW d \in Calls, NEW q \in Standing', Making(d) /\ q \in Made(d)
        PROVE  Making(d)' /\ q \in Made(d)'
    <3>1. Kept(q)
      BY <1>9 DEF Standing
    <3>2. d # c
      BY <2>3, <2>4, <3>1
    <3> QED BY <1>6, <2>4, <3>2 DEF Making, Made
  <2>5. RegistryInv'
    BY <1>1, <1>8, <1>9, <1>11, <1>12, <2>4, RegistryKept DEF SpacesInv
  <2> QED BY <2>1, <2>5
<1> QED
  BY <1>6, <1>7, <1>8, <1>9, <1>10, <1>11, <1>12, StepKeeps

LEMMA EnsuredKeeps ==
    ASSUME SpacesInv, NEW c \in Calls, Ensured(c)
    PROVE  SpacesInv'
<1> DEFINE t == [call[c] EXCEPT !.pc = "item"]
<1>0. PICK p : p = call[c].path
  OBVIOUS
<1>1. /\ call[c].pc = "ensure" /\ call[c].depth = Len(p)
      /\ known' = known \cup {p}
      /\ registry' = IF call[c].made THEN NoListing ELSE registry
      /\ call' = [call EXCEPT ![c] = t]
      /\ apart' = IF Alone(c) THEN apart ELSE apart \ {p}
      /\ UNCHANGED <<spaces, aliases, deletedAt, now, faults>>
  BY <1>0 DEF Ensured, server
<1>2. p \in Paths /\ call[c] \in Progress
  BY <1>0, <1>1, Known DEF Sane, Busy
<1>3. /\ t \in Progress /\ t.pc = "item" /\ t.hint = call[c].hint /\ t.path = p
      /\ t.at = call[c].at /\ t.listed = call[c].listed /\ t.before = call[c].before
  BY <1>0, <1>2 DEF Progress
<1> HIDE DEF t
<1>4. Sane(t)
  BY <1>0, <1>1, <1>3, Known DEF Sane, Busy
<1>5. /\ call' \in [Calls -> Progress]
      /\ call'[c] = t /\ \A d \in Calls \ {c} : call'[d] = call[d]
      /\ \A d \in Calls : Sane(call'[d])
  BY <1>1, <1>3, <1>4, ProgressKept DEF SpacesInv
<1>6. NoListing \in [at : Nat, paths : SUBSET Paths]
  BY DEF NoListing, Never
<1>7. SpaceTypes'
  BY <1>1, <1>2, <1>5, <1>6 DEF SpacesInv, SpaceTypes
<1>8. Onward
  BY <1>1, GrowsOnward DEF SpacesInv, SpaceTypes
<1>9. Standing' \subseteq Standing
  BY <1>1, <1>8, StandingKept DEF SpacesInv
<1>10. p \in Made(c) /\ Was(p)
  <2>1. Len(p) \in 1..Len(p) /\ SubSeq(p, 1, Len(p)) = p
    BY <1>2, PathFacts
  <2>2. p \in Made(c)
    BY <1>0, <1>1, <2>1 DEF Made
  <2> QED BY <1>1, <2>2 DEF SpacesInv, CallInv
<1>11. CacheInv'
  <2>1. Offered(registry.at, registry.paths)'
    <3>1. CASE call[c].made
      BY <1>1, <1>7, <3>1 DEF Offered, NoListing, Never, SpaceTypes
    <3>2. CASE ~call[c].made
      BY <1>1, <3>2 DEF SpacesInv, CacheInv, Offered, Since, Gone
    <3> QED BY <3>1, <3>2
  <2>2. \A q \in known' \cup apart' : Was(q)'
    BY <1>1, <1>10 DEF SpacesInv, CacheInv, Was, Gone
  <2> QED BY <2>1, <2>2 DEF CacheInv
<1>12. CallInv(c)'
  BY <1>1, <1>3, <1>5, Known DEF CallInv, Offered, Since, Was, Gone
<1>13. ASSUME faults = 0 PROVE RegistryInv' /\ Promise(call[c])'
  <2>1. Promise(call[c])'
    BY <1>3, <1>5 DEF Promise
  <2>2. CASE call[c].made
    BY <1>1, <2>1, <2>2 DEF RegistryInv
  <2>3. CASE ~call[c].made /\ registry # NoListing
    <3>1. registry' = registry
      BY <1>1, <2>3
    <3>2. \A d \in Calls : Making(d) => d # c
      BY <2>3 DEF Making
    <3>3. \A d \in Calls : Making(d) => Making(d)' /\ Made(d)' = Made(d)
      BY <1>5, <3>2 DEF Making, Made
    <3>4. /\ \A q \in Standing : q \in registry.paths \/ \E d \in Calls : Making(d) /\ q \in Made(d)
          /\ Standing \cap known \subseteq registry.paths
      BY <1>13, <2>3 DEF SpacesInv, RegistryInv
    <3>5. ASSUME p \in Standing' PROVE p \in registry.paths
      <4>1. Alone(c)
        BY <1>1, <3>5 DEF Standing
      <4>2. \A d \in Calls : ~Making(d)
        BY <3>2, <4>1 DEF Alone, Making
      <4> QED BY <1>9, <3>4, <3>5, <4>2
    <3>6. Standing' \cap known' \subseteq registry.paths
      BY <1>1, <1>9, <3>4, <3>5
    <3>7. \A q \in Standing' : q \in registry.paths \/ \E d \in Calls : Making(d)' /\ q \in Made(d)'
      BY <1>9, <3>3, <3>4
    <3> QED BY <2>1, <3>1, <3>6, <3>7 DEF RegistryInv
  <2>4. CASE registry = NoListing
    BY <1>1, <2>1, <2>4 DEF RegistryInv
  <2> QED BY <2>2, <2>3, <2>4
<1> QED
  BY <1>1, <1>5, <1>7, <1>8, <1>9, <1>11, <1>12, <1>13, StepKeeps

\* Steps that are not of a call.
LEMMA OutsideKeeps ==
    ASSUME SpacesInv, SpaceTypes', Onward, UNCHANGED <<known, registry, call, apart, faults>>
    PROVE  SpacesInv'
<1>1. Standing' \subseteq Standing
  BY StandingKept DEF SpacesInv
<1>2. CacheInv' /\ \A c \in Calls : CallInv(c)'
  BY CacheKept, CallKept DEF SpacesInv
<1>3. ASSUME faults = 0 PROVE RegistryInv' /\ \A c \in Calls : Promise(call[c])'
  <2>1. \A c \in Calls : Making(c)' = Making(c) /\ Made(c)' = Made(c)
    BY DEF Making, Made
  <2>2. RegistryInv'
    BY <1>1, <1>3, <2>1, RegistryKept DEF SpacesInv
  <2>3. \A c \in Calls : Promise(call[c])'
    BY <1>1, <1>3, PromiseKept DEF SpacesInv
  <2> QED BY <2>2, <2>3
<1> QED
  BY <1>2, <1>3 DEF SpacesInv

LEMMA DeleteSpaceKeeps ==
    ASSUME SpacesInv, NEW p \in Paths, DeleteSpace(p)
    PROVE  SpacesInv'
<1>1. Onward
  BY DeleteOnward DEF SpacesInv
<1>2. /\ spaces' \subseteq spaces /\ deletedAt' \in [Paths -> Nat] /\ aliases' \in [Paths -> SUBSET Nat]
      /\ UNCHANGED <<known, registry, now, call, apart, faults>>
  BY DEF DeleteSpace, cache, SpacesInv, SpaceTypes
<1>3. SpaceTypes'
  BY <1>2 DEF SpacesInv, SpaceTypes
<1> QED
  BY <1>1, <1>2, <1>3, OutsideKeeps

LEMMA TickKeeps ==
    ASSUME SpacesInv, Tick
    PROVE  SpacesInv'
<1>1. now' = now + 1 /\ UNCHANGED <<spaces, aliases, deletedAt, known, registry, call, apart, faults>>
  BY DEF Tick, server, cache
<1>2. SpaceTypes' /\ Onward
  BY <1>1, GrowsOnward DEF SpacesInv, SpaceTypes
<1> QED
  BY <1>1, <1>2, OutsideKeeps

LEMMA InitInv == Init => SpacesInv
<1> SUFFICES ASSUME Init PROVE SpacesInv
  OBVIOUS
<1>1. /\ Idle \in Progress /\ Idle.pc = "idle" /\ Idle.at = Never /\ Idle.listed = {}
      /\ Idle.before = {} /\ Idle.hinted = FALSE
  BY DEF Idle, Progress, Never
<1>2. NoListing \in [at : Nat, paths : SUBSET Paths] /\ NoListing.at = Never /\ NoListing.paths = {}
  BY DEF NoListing, Never
<1>3. \A c \in Calls : call[c] = Idle
  BY DEF Init
<1>4. SpaceTypes
  BY <1>1, <1>2, <1>3 DEF Init, SpaceTypes, Sane, Busy, Never
<1>5. CacheInv
  BY <1>2 DEF Init, CacheInv, Offered, Never
<1>6. \A c \in Calls : CallInv(c) /\ Promise(call[c])
  BY <1>1, <1>3 DEF Init, CallInv, Offered, Promise, Never
<1>7. RegistryInv
  BY DEF Init, RegistryInv
<1> QED
  BY <1>4, <1>5, <1>6, <1>7 DEF SpacesInv

LEMMA InvStep == SpacesInv /\ [Next]_vars => SpacesInv'
<1> SUFFICES ASSUME SpacesInv, [Next]_vars PROVE SpacesInv'
  OBVIOUS
<1>1. ASSUME NEW c \in Calls, \E p \in Paths, hinted \in BOOLEAN : Begin(c, p, hinted) PROVE SpacesInv'
  BY <1>1, BeginKeeps
<1>2. ASSUME NEW c \in Calls,
             \/ List(c) \/ CacheListing(c) \/ Resolve(c) \/ ReadAliases(c) \/ RecordAlias(c)
      PROVE  SpacesInv'
  BY <1>2, ListKeeps, CacheListingKeeps, ResolveKeeps, ReadAliasesKeeps, RecordAliasKeeps
<1>3. ASSUME NEW c \in Calls,
             \/ KnownSpace(c) \/ MakeSpace(c) \/ MakeSpaceLost(c) \/ MakeSpaceFails(c) \/ Ensured(c)
             \/ CreateItem(c)
      PROVE  SpacesInv'
  BY <1>3, KnownSpaceKeeps, MakeSpaceKeeps, MakeSpaceLostKeeps, MakeSpaceFailsKeeps, EnsuredKeeps,
     CreateItemKeeps
<1>4. ASSUME NEW p \in Paths, DeleteSpace(p) PROVE SpacesInv'
  BY <1>4, DeleteSpaceKeeps
<1>5. CASE Tick
  BY <1>5, TickKeeps
<1>6. CASE UNCHANGED vars
  <2>1. SpaceTypes' /\ Onward /\ UNCHANGED <<known, registry, call, apart, faults>>
    BY <1>6, GrowsOnward DEF SpacesInv, SpaceTypes, vars, server, cache
  <2> QED BY <2>1, OutsideKeeps
<1> QED
  BY <1>1, <1>2, <1>3, <1>4, <1>5, <1>6 DEF Next

---------------------------------------------------------------------------
(* What the spaces promise. *)

\* Whatever a call or a cache has heard of the spaces was so once, and its age is known.
THEOREM SpacesInvariant == Spec => []SpacesInv
  BY InitInv, InvStep, PTL DEF Spec

\* A listing is never used for longer than its time to live, however long it took to
\* arrive: its age counts from before it was asked for.
THEOREM ListingAges == Spec => []ListingIsRecent
<1>1. SpacesInv => ListingIsRecent
  <2>1. SUFFICES ASSUME SpacesInv, now - registry.at < TTL, NEW p \in registry.paths
                 PROVE  p \in spaces \/ now - deletedAt[p] < TTL
    BY DEF ListingIsRecent
  <2>2. /\ p \in spaces \/ deletedAt[p] >= registry.at
        /\ deletedAt[p] \in Nat /\ registry.at \in Nat /\ now \in Nat /\ TTL \in Nat
    <3>1. p \in Paths
      BY <2>1 DEF SpacesInv, SpaceTypes
    <3>2. p \in spaces \/ deletedAt[p] >= registry.at
      BY <2>1 DEF SpacesInv, CacheInv, Offered, Since
    <3> QED BY <2>1, <3>1, <3>2, SpacesAssumption DEF SpacesInv, SpaceTypes
  <2> QED BY <2>1, <2>2
<1> QED
  BY SpacesInvariant, <1>1, PTL

\* A hint creates no space beside a variant that an earlier store made and ensured on its
\* own, whatever other stores, listings, deletions elsewhere and the clock did meanwhile.
THEOREM StoresConverge == Spec => BackToBackStoresConverge
<1>1. SpacesInv /\ [Next]_vars => SeesBackToBack \/ UNCHANGED vars
  <2>1. SUFFICES ASSUME SpacesInv, Next, NEW c \in Calls, call[c].hinted, faults = 0,
                        NEW p \in spaces' \ spaces,
                        NEW q \in call[c].before \cap apart \cap spaces,
                        call'[c].depth # call[c].depth, p = call[c].path,
                        deletedAt[p] = Never, Kept(q)
                 PROVE  q \notin Variants(p, spaces)
    BY DEF SeesBackToBack
  <2>2. \E d \in Calls : MakeSpace(d) \/ MakeSpaceLost(d) \/ MakeSpaceFails(d)
    <3>1. ASSUME NEW d \in Calls, NEW r \in Paths, NEW hinted \in BOOLEAN, Begin(d, r, hinted)
          PROVE  FALSE
      BY <2>1, <3>1 DEF Begin, server
    <3>2. ASSUME NEW d \in Calls,
                 \/ List(d) \/ CacheListing(d) \/ Resolve(d) \/ ReadAliases(d) \/ RecordAlias(d)
          PROVE  FALSE
      BY <2>1, <3>2 DEF List, CacheListing, Resolve, ReadAliases, RecordAlias, server
    <3>3. ASSUME NEW d \in Calls, KnownSpace(d) \/ Ensured(d) \/ CreateItem(d)
          PROVE  FALSE
      BY <2>1, <3>3 DEF KnownSpace, Ensured, CreateItem, server
    <3>4. ASSUME NEW r \in Paths, DeleteSpace(r) PROVE FALSE
      BY <2>1, <3>4 DEF DeleteSpace
    <3>5. ~Tick
      BY <2>1 DEF Tick, server
    <3> QED BY <2>1, <3>1, <3>2, <3>3, <3>4, <3>5 DEF Next
  <2>3. PICK d \in Calls : MakeSpace(d) \/ MakeSpaceLost(d) \/ MakeSpaceFails(d)
    BY <2>2
  <2>4. call[d].pc = "ensure" /\ \A e \in Calls \ {d} : call'[e] = call[e]
    <3>1. CASE MakeSpace(d)
      BY <3>1, <2>1 DEF MakeSpace, SpacesInv, SpaceTypes
    <3>2. CASE MakeSpaceLost(d)
      BY <3>2, <2>1 DEF MakeSpaceLost
    <3>3. CASE MakeSpaceFails(d)
      BY <3>3, <2>1 DEF MakeSpaceFails, Done, SpacesInv, SpaceTypes
    <3> QED BY <2>3, <3>1, <3>2, <3>3
  <2>5. call[c].pc = "ensure"
    BY <2>1, <2>4
  <2>6. Was(p) \/ call[c].before \cap Standing \cap Variants(p, Paths) = {}
    <3>1. Promise(call[c]) /\ p = call[c].path
      BY <2>1, Known
    <3> QED BY <2>1, <2>5, <3>1 DEF Promise
  <2>7. ~Was(p)
    BY <2>1 DEF Was, Gone
  <2>8. q \in Standing
    BY <2>1 DEF Standing
  <2>9. q \notin Variants(p, Paths)
    <3>1. call[c].before \cap Standing \cap Variants(p, Paths) = {}
      BY <2>6, <2>7
    <3>2. q \in call[c].before
      BY <2>1
    <3> QED BY <2>8, <3>1, <3>2
  <2> QED BY <2>1, <2>9 DEF Variants, SpacesInv, SpaceTypes
<1> QED
  BY SpacesInvariant, <1>1, PTL DEF Spec, BackToBackStoresConverge

---------------------------------------------------------------------------
(* The inductive invariant of a retrieval. *)

Scores == {HitScore(i) : i \in Items} \cup {BundleScore, ListScore}
Entries == [item : Items, rev : Nat, score : Scores]

\* What the server holds: only items that were made have revisions.
StoreInv ==
    /\ project \in BOOLEAN /\ created \in [Items -> Nat] /\ pub \in [Items -> Nat]
    /\ revs \in [Items -> Seq([date : Nat, type : Types])]
    /\ gone \subseteq Items /\ date \in Nat
    /\ \A i \in Items : pub[i] \in 0..Len(revs[i]) /\ (created[i] = 0 => revs[i] = <<>>)

LocalsInv ==
    /\ pc \in {"idle", "project", "search", "shallow", "check", "verify", "batch", "batch2", "take",
               "published", "latest", "revisions", "bundle", "fallback", "list", "finish", "done"}
    /\ req \in Requests /\ backoff \in BOOLEAN /\ checked \in BOOLEAN
    /\ source \in {"hits", "bundle", "list"}
    /\ rank \in Seq(Items) /\ hits \in Seq(Items) /\ todo \in Seq(Items) /\ ctx \in Seq(Contexts)
    /\ got \in [Items -> Nat] /\ results \in Seq(Entries)
    /\ seen \in [Items -> SUBSET Nat]
    /\ pc \in {"project", "search", "shallow", "check"} => source = "hits"
    /\ pc = "latest" => todo # <<>>
    /\ pc = "revisions" => req.unroll
    /\ answer.status \in {"pending", "missing", "raised", "ok"}

\* Whatever is to be resolved lies in scope, and what was resolved.
ScopeInv ==
    /\ \A k \in DOMAIN todo : InScope(todo[k])
    /\ source = "list" \/ pc \in {"project", "list"} => \A k \in DOMAIN hits : InScope(hits[k])
    /\ \A k \in DOMAIN results : InScope(results[k].item)
    /\ \A e \in Answers : e.item \in Items /\ InScope(e.item)

\* Revision n may stand for an item that was published all through the call.
Stands(i, n) == n # 0 /\ 0 \notin seen[i] => n \in seen[i]

\* An item without a published revision was seen so, or is deleted.
Unpublished(i) == 0 \in seen[i] \/ i \in gone

PublishedInv ==
    /\ pc # "idle" => \A i \in Items : pub[i] \in seen[i]
    /\ \A i \in Items : Stands(i, got[i])
    /\ pc = "batch2" => \A i \in Items : got[i] = 0 /\ i \in ToSet(todo) => Unpublished(i)
    /\ pc = "latest" => Unpublished(Head(todo))
    /\ ~req.unroll => \A k \in DOMAIN results : Stands(results[k].item, results[k].rev)
    /\ ~req.unroll => \A e \in Answers : Stands(e.item, e.rev)

\* Past the look-up the project was there, whoever did it; the first search of a packet
\* call runs before it.
ProjectInv ==
    /\ pc # "idle" => project \in existed
    /\ pc # "idle" /\ ~checked => req.packet
    /\ pc \in {"search", "shallow"} =>
          \/ checked /\ TRUE \in existed
          \/ ~checked /\ pc = "search" /\ ctx = req.contexts
    /\ pc = "project" => checked
    /\ pc = "check" => ~checked
    /\ pc \in {"batch", "batch2", "take", "published", "latest", "revisions", "bundle", "fallback",
               "list", "finish"} => TRUE \in existed
    /\ ProjectIsChecked

RetrievalInv == StoreInv /\ LocalsInv /\ ScopeInv /\ PublishedInv /\ ProjectInv

---------------------------------------------------------------------------
(* Arrangements. *)

LEMMA ArrangedIn ==
    ASSUME NEW K, NEW s \in SetToSeqs(K)
    PROVE  \A k \in DOMAIN s : s[k] \in K
BY DEF SetToSeqs

LEMMA ArrangedSeq ==
    ASSUME NEW S, NEW K, K \subseteq S, IsFiniteSet(K), NEW s \in SetToSeqs(K)
    PROVE  s \in Seq(S)
<1>1. Cardinality(K) \in Nat
  BY FS_CardinalityType
<1>2. s \in [1..Cardinality(K) -> K]
  BY DEF SetToSeqs
<1> QED BY <1>1, <1>2

LEMMA RowsTyped ==
    ASSUME NEW S, NEW s \in Seq(S), NEW K, K \subseteq DOMAIN s, NEW p \in SetToSeqs(K)
    PROVE  /\ [k \in DOMAIN p |-> s[p[k]]] \in Seq(S)
           /\ \A k \in DOMAIN p : p[k] \in K /\ p[k] \in DOMAIN s
<1>1. IsFiniteSet(K)
  <2>1. IsFiniteSet(1..Len(s))
    BY FS_Interval
  <2> QED BY <2>1, FS_Subset
<1>2. p \in Seq(K) /\ \A k \in DOMAIN p : p[k] \in K
  BY <1>1, ArrangedSeq, ArrangedIn
<1>3. DOMAIN p = 1..Len(p) /\ Len(p) \in Nat
  BY <1>2
<1>4. \A k \in DOMAIN p : s[p[k]] \in S
  BY <1>2
<1> QED BY <1>2, <1>3, <1>4

LEMMA RowsSeq ==
    ASSUME NEW x, RetrievalInv, NEW r \in Rows(x)
    PROVE  r \in Seq(Items)
<1>1. PICK p \in SetToSeqs({k \in DOMAIN rank : rank[k] \in Prefixed[x] /\ Alive(rank[k])}) :
         r = [k \in DOMAIN p |-> rank[p[k]]]
  BY DEF Rows, RowsOf, Arranged
<1>2. rank \in Seq(Items)
  BY DEF RetrievalInv, LocalsInv
<1> QED BY <1>1, <1>2, RowsTyped

LEMMA CandidatesTyped ==
    ASSUME RetrievalInv, NEW f \in Candidates
    PROVE  f \in Seq(Items) /\ \A k \in DOMAIN f : InScope(f[k])
<1> DEFINE K == {k \in First(DOMAIN hits, PoolSize, Better) : InScope(hits[k])}
<1>1. PICK p \in SetToSeqs(K) : f = [k \in DOMAIN p |-> hits[p[k]]]
  BY DEF Candidates, Arranged
<1>2. hits \in Seq(Items) /\ K \subseteq DOMAIN hits
  BY DEF RetrievalInv, LocalsInv, First
<1>3. f \in Seq(Items) /\ \A k \in DOMAIN p : p[k] \in K
  BY <1>1, <1>2, RowsTyped
<1> QED BY <1>1, <1>3

LEMMA OldestTyped ==
    ASSUME NEW S \in SUBSET Items, NEW s \in OldestItemsFirst(S)
    PROVE  s \in Seq(Items) /\ \A k \in DOMAIN s : s[k] \in S
<1>1. s \in SetToSeqs(S)
  BY DEF OldestItemsFirst, Arranged
<1>2. IsFiniteSet(S)
  BY FS_Subset, RetrievalAssumption
<1> QED BY <1>1, <1>2, ArrangedSeq, ArrangedIn

LEMMA OrderedTyped ==
    ASSUME RetrievalInv, NEW S \in SUBSET Items, NEW s \in Ordered(S)
    PROVE  s \in Seq(Items) /\ \A k \in DOMAIN s : s[k] \in S
<1>1. PICK K \in SUBSET S : s \in SetToSeqs(K)
  <2>1. req.mode \in {"search", "latest", "first"}
    BY RetrievalAssumption DEF RetrievalInv, LocalsInv, AllRequests
  <2>2. First(S, 2 * Limit, Younger) \subseteq S
    BY DEF First
  <2>3. First(S, Window, Fresher) \subseteq S
    BY DEF First
  <2>4. First(S, Window, Older) \subseteq S
    BY DEF First
  <2>5. CASE req.mode = "search"
    <3>1. s \in SetToSeqs(First(S, 2 * Limit, Younger))
      BY <2>5 DEF Ordered, MostRecentItems, Arranged
    <3> QED BY <3>1, <2>2
  <2>6. CASE req.mode = "latest"
    <3>1. s \in SetToSeqs(First(S, Window, Fresher))
      BY <2>6 DEF Ordered, NewestRevisions, Arranged
    <3> QED BY <3>1, <2>3
  <2>7. CASE req.mode = "first"
    <3>1. s \in SetToSeqs(First(S, Window, Older))
      BY <2>7 DEF Ordered, OldestItemsFirst, Arranged
    <3> QED BY <3>1, <2>4
  <2> QED BY <2>1, <2>5, <2>6, <2>7
<1>2. IsFiniteSet(K) /\ K \subseteq Items
  BY FS_Subset, RetrievalAssumption
<1> QED BY <1>1, <1>2, ArrangedSeq, ArrangedIn

---------------------------------------------------------------------------
(* Steps of the call. *)

LEMMA ScoreIn ==
    \A i \in Items : HitScore(i) \in Scores /\ BundleScore \in Scores /\ ListScore \in Scores
BY DEF Scores

LEMMA EntryTyped ==
    ASSUME NEW i \in Items, NEW n \in Nat, NEW score \in Scores
    PROVE  /\ Entry(i, n, score) \in Entries
           /\ Entry(i, n, score).item = i /\ Entry(i, n, score).rev = n
BY DEF Entry, Entries

\* A request names contexts, and a packet one revision of each item.
LEMMA Asked ==
    ASSUME RetrievalInv
    PROVE  /\ req.contexts \in Seq(Contexts) /\ req.contexts # <<>>
           /\ req.packet \in BOOLEAN /\ req.query \in BOOLEAN /\ req.unroll \in BOOLEAN
           /\ req.mode \in {"search", "latest", "first"}
           /\ req.packet => req.query /\ ~req.unroll /\ req.mode # "first"
<1>1. req \in AllRequests /\ (req.packet => req.query /\ ~req.unroll /\ req.mode # "first")
  BY RetrievalAssumption DEF RetrievalInv, LocalsInv
<1>2. req.contexts \in SeqOf(Contexts, 2) \ {<<>>}
  BY <1>1 DEF AllRequests
<1>3. req.contexts \in Seq(Contexts) /\ req.contexts # <<>>
  <2>1. PICK m \in 0..2 : req.contexts \in [1..m -> Contexts]
    BY <1>2 DEF SeqOf
  <2> QED BY <1>2, <2>1
<1> QED BY <1>1, <1>3 DEF AllRequests

\* Whatever is in scope is an item.
LEMMA ScopeItems ==
    ASSUME NEW i, InScope(i), RetrievalInv
    PROVE  i \in Items
BY Asked, RetrievalAssumption DEF InScope

LEMMA ScoresKept ==
    ASSUME UNCHANGED rank
    PROVE  Scores' = Scores /\ Entries' = Entries
BY DEF Scores, Entries, HitScore, Position, BundleScore, ListScore

LEMMA ScopeKept ==
    ASSUME UNCHANGED req
    PROVE  \A i : InScope(i)' = InScope(i)
BY DEF InScope

\* A step of the call that leaves the results and the answer alone.
LEMMA QuietRead ==
    ASSUME RetrievalInv, Frame, UNCHANGED <<rank, results, answer, seen, existed>>
    PROVE  /\ StoreInv'
           /\ Entries' = Entries /\ results' \in Seq(Entries)
           /\ \A i : InScope(i)' = InScope(i)
           /\ \A k \in DOMAIN results' : InScope(results'[k].item)
           /\ \A e \in Answers' : e.item \in Items /\ InScope(e.item)
           /\ \A i, n : Stands(i, n)' = Stands(i, n)
           /\ \A i : Unpublished(i)' = Unpublished(i)
           /\ ~req'.unroll => /\ \A k \in DOMAIN results' : Stands(results'[k].item, results'[k].rev)
                              /\ \A e \in Answers' : Stands(e.item, e.rev)
           /\ pc # "idle" => (\A i \in Items : pub'[i] \in seen'[i]) /\ project' \in existed'
<1>1. UNCHANGED <<project, created, revs, pub, gone, date, req>>
  BY DEF Frame, store
<1>2. StoreInv'
  BY <1>1 DEF RetrievalInv, StoreInv
<1>3. Entries' = Entries /\ \A i : InScope(i)' = InScope(i)
  BY <1>1, ScoresKept, ScopeKept
<1>4. \A i : Unpublished(i)' = Unpublished(i) /\ \A n : Stands(i, n)' = Stands(i, n)
  BY <1>1 DEF Unpublished, Stands
<1>5. Answers' = Answers
  BY DEF Answers
<1> QED BY <1>1, <1>2, <1>3, <1>4, <1>5 DEF RetrievalInv, LocalsInv, ScopeInv, PublishedInv, ProjectInv

\* ... and which resolves nothing, either.
LEMMA StillStep ==
    ASSUME RetrievalInv, Frame, UNCHANGED <<rank, results, answer, seen, existed>>, pc # "idle",
           UNCHANGED <<got, todo>>, pc' \notin {"batch2", "latest"}
    PROVE  /\ PublishedInv'
           /\ \A k \in DOMAIN todo' : InScope(todo'[k])
           /\ got' \in [Items -> Nat] /\ todo' \in Seq(Items) /\ seen' \in [Items -> SUBSET Nat]
<1>1. /\ \A i, n : Stands(i, n)' = Stands(i, n)
      /\ \A i \in Items : pub'[i] \in seen'[i]
      /\ ~req'.unroll => /\ \A k \in DOMAIN results' : Stands(results'[k].item, results'[k].rev)
                         /\ \A e \in Answers' : Stands(e.item, e.rev)
      /\ req' = req
  BY QuietRead DEF Frame
<1>2. Answers' = Answers /\ results' = results
  BY DEF Answers
<1>3. PublishedInv'
  BY <1>1, <1>2 DEF RetrievalInv, PublishedInv
<1> QED BY <1>3 DEF RetrievalInv, LocalsInv, ScopeInv

LEMMA RetrieveInv ==
    ASSUME RetrievalInv, NEW r \in Requests, Retrieve(r)
    PROVE  RetrievalInv'
<1>1. /\ UNCHANGED <<project, created, revs, pub, gone, date, backoff>>
      /\ pc = "idle" /\ req' = r /\ pc' = IF r.packet THEN "search" ELSE "project"
      /\ hits' = <<>> /\ source' = "hits" /\ todo' = <<>> /\ got' = None /\ results' = <<>>
      /\ ctx' = r.contexts /\ checked' = ~r.packet /\ answer' = Pending
      /\ seen' = [i \in Items |-> {pub[i]}] /\ existed' = {project}
  BY DEF Retrieve, store
<1>2. rank' \in Seq(Items)
  <2>0. PICK s \in UNION {SetToSeqs(S) : S \in SUBSET Items} : rank' = IF r.query THEN s ELSE <<>>
    BY DEF Retrieve
  <2>1. PICK S \in SUBSET Items : s \in SetToSeqs(S)
    OBVIOUS
  <2>2. s \in Seq(Items)
    BY FS_Subset, RetrievalAssumption, ArrangedSeq
  <2> QED BY <2>0, <2>2
<1>3. r.packet \in BOOLEAN /\ r.contexts \in Seq(Contexts) /\ r.contexts # <<>>
  <2>1. r \in AllRequests
    BY RetrievalAssumption
  <2>2. PICK m \in 0..2 : r.contexts \in [1..m -> Contexts]
    BY <2>1 DEF AllRequests, SeqOf
  <2> QED BY <2>1, <2>2 DEF AllRequests
<1>4. StoreInv'
  BY <1>1 DEF RetrievalInv, StoreInv
<1>5. Answers' = {}
  BY <1>1 DEF Answers, Pending, ToSet
<1>6. LocalsInv'
  BY <1>1, <1>2, <1>3 DEF RetrievalInv, LocalsInv, StoreInv, None, Pending
<1>7. ScopeInv'
  BY <1>1, <1>5 DEF ScopeInv
<1>8. PublishedInv'
  BY <1>1, <1>5 DEF PublishedInv, Stands, None
<1>9. ProjectInv'
  BY <1>1, <1>3 DEF RetrievalInv, StoreInv, ProjectInv, ProjectIsChecked, Pending
<1> QED BY <1>4, <1>6, <1>7, <1>8, <1>9 DEF RetrievalInv

\* The call ends with an error.
LEMMA FailInv ==
    ASSUME RetrievalInv, Frame, pc # "idle", UNCHANGED history,
           NEW status \in {"missing", "raised"}, Fail(status),
           status = "missing" => ~project
    PROVE  RetrievalInv'
<1>1. /\ UNCHANGED <<project, created, revs, pub, gone, date, req, backoff, seen, existed,
                     rank, hits, source, todo, got, results, ctx, checked>>
      /\ pc' = "done" /\ answer'.status = status /\ Answers' = {}
  BY DEF Frame, Fail, store, history, locals, Error, Answers, ToSet
<1>2. Entries' = Entries /\ \A i : InScope(i)' = InScope(i)
  BY <1>1, ScoresKept, ScopeKept
<1>3. StoreInv'
  BY <1>1 DEF RetrievalInv, StoreInv
<1>4. LocalsInv'
  BY <1>1, <1>2 DEF RetrievalInv, LocalsInv
<1>5. ScopeInv'
  BY <1>1, <1>2 DEF RetrievalInv, ScopeInv
<1>6. PublishedInv'
  BY <1>1 DEF RetrievalInv, PublishedInv, Stands
<1>7. ProjectInv'
  BY <1>1 DEF RetrievalInv, StoreInv, ProjectInv, ProjectIsChecked
<1> QED BY <1>3, <1>4, <1>5, <1>6, <1>7 DEF RetrievalInv

LEMMA GetProjectInv ==
    ASSUME RetrievalInv, GetProject
    PROVE  RetrievalInv'
<1>1. CASE /\ project /\ pc' = IF req.query THEN "search"
                               ELSE IF req.mode = "first" THEN "list" ELSE Rest
           /\ UNCHANGED <<backoff, locals, answer, history, failures>>
  <2>1. /\ UNCHANGED <<rank, hits, source, todo, got, results, ctx, checked, answer, seen, existed>>
        /\ UNCHANGED <<project, req, backoff>> /\ Frame /\ pc = "project"
        /\ pc' \in {"search", "list", "bundle", "fallback"}
    BY <1>1 DEF GetProject, locals, history, Frame, store, Rest
  <2>2. checked /\ TRUE \in existed
    BY <1>1, <2>1 DEF RetrievalInv, StoreInv, ProjectInv
  <2>3. LocalsInv'
    BY <2>1, QuietRead DEF RetrievalInv, LocalsInv
  <2>4. ScopeInv'
    BY <2>1, QuietRead DEF RetrievalInv, ScopeInv
  <2>5. ProjectInv'
    BY <2>1, <2>2 DEF RetrievalInv, ProjectInv, ProjectIsChecked
  <2> QED BY <2>1, <2>3, <2>4, <2>5, QuietRead, StillStep DEF RetrievalInv
<1>2. CASE ~project /\ Fail("missing") /\ UNCHANGED history
  BY <1>2, FailInv DEF GetProject
<1>3. CASE Fail("raised") /\ UNCHANGED history
  BY <1>3, FailInv DEF GetProject
<1> QED BY <1>1, <1>2, <1>3 DEF GetProject

\* The rows of a search; those that carry revisions give what is best at the moment.
LEMMA SearchInv ==
    ASSUME RetrievalInv, Search
    PROVE  RetrievalInv'
<1>1. /\ pc \in {"search", "shallow"} /\ ctx # <<>> /\ Frame
      /\ UNCHANGED <<rank, source, todo, results, answer, seen, existed, backoff>>
      /\ UNCHANGED <<project, created, revs, pub, gone, req>>
      /\ ctx' = Tail(ctx) /\ pc' = IF checked' THEN pc ELSE "check"
  BY DEF Search, history, Frame, store
<1>2. PICK rows \in Rows(Head(ctx)) \cup {<<>>}, carries \in BOOLEAN :
        /\ hits' = hits \o rows
        /\ got' = [i \in Items |-> IF carries /\ i \in Range(rows) THEN Best(i) ELSE got[i]]
        /\ checked' = (checked \/ (carries /\ project))
  <2>1. PICK rows \in Rows(Head(ctx)) \cup (IF pc = "search" THEN {<<>>} ELSE {}) :
          /\ hits' = hits \o rows
          /\ \E carries \in IF req.packet THEN BOOLEAN ELSE {FALSE} :
               /\ got' = [i \in Items |-> IF carries /\ i \in Range(rows) THEN Best(i) ELSE got[i]]
               /\ checked' = (checked \/ (carries /\ project))
    BY DEF Search
  <2>2. rows \in Rows(Head(ctx)) \cup {<<>>}
    OBVIOUS
  <2>3. PICK carries \in BOOLEAN :
          /\ got' = [i \in Items |-> IF carries /\ i \in Range(rows) THEN Best(i) ELSE got[i]]
          /\ checked' = (checked \/ (carries /\ project))
    BY <2>1
  <2> QED BY <2>1, <2>2, <2>3
<1>3. rows \in Seq(Items)
  <2>1. CASE rows \in Rows(Head(ctx))
    BY <2>1, RowsSeq
  <2>2. CASE rows = <<>>
    BY <2>2
  <2>3. rows \in Rows(Head(ctx)) \/ rows = <<>>
    BY <1>2
  <2> QED BY <2>1, <2>2, <2>3
<1>4. \A i \in Items : Best(i) \in Nat /\ Stands(i, Best(i))
  <2>1. \A i \in Items : pub[i] \in Nat /\ Latest(i) \in Nat /\ pub[i] \in seen[i]
    BY <1>1 DEF RetrievalInv, StoreInv, PublishedInv, Latest
  <2> QED BY <2>1 DEF Best, Stands
<1>5. got' \in [Items -> Nat] /\ \A i \in Items : Stands(i, got'[i])
  <2>1. got \in [Items -> Nat] /\ \A i \in Items : Stands(i, got[i])
    BY DEF RetrievalInv, LocalsInv, PublishedInv
  <2> QED BY <1>2, <1>4, <2>1
<1>6. checked' \in BOOLEAN /\ (checked => checked') /\ (checked' => checked \/ project)
  BY <1>2 DEF RetrievalInv, LocalsInv, StoreInv
<1>7. /\ hits' \in Seq(Items) /\ ctx' \in Seq(Contexts)
      /\ pc' \in {"search", "shallow", "check"} /\ source' = "hits"
  BY <1>1, <1>2, <1>3 DEF RetrievalInv, LocalsInv
<1>8. /\ StoreInv' /\ Entries' = Entries /\ results' \in Seq(Entries)
      /\ \A i : InScope(i)' = InScope(i)
      /\ \A i, n : Stands(i, n)' = Stands(i, n)
  BY <1>1, QuietRead
<1>9. LocalsInv'
  BY <1>1, <1>5, <1>6, <1>7, <1>8 DEF RetrievalInv, LocalsInv
<1>10. ScopeInv'
  BY <1>1, <1>7, QuietRead DEF RetrievalInv, ScopeInv
<1>11. PublishedInv'
  BY <1>1, <1>5, <1>7, <1>8, QuietRead DEF PublishedInv
<1>12. ProjectInv'
  <2>1. checked' => TRUE \in existed'
    BY <1>1, <1>6 DEF RetrievalInv, StoreInv, ProjectInv
  <2>2. ~checked' => pc' = "check" /\ ~checked
    BY <1>1, <1>6
  <2> QED BY <1>1, <1>6, <1>7, <2>1, <2>2 DEF RetrievalInv, ProjectInv, ProjectIsChecked
<1> QED BY <1>8, <1>9, <1>10, <1>11, <1>12 DEF RetrievalInv

\* A search that failed: the call goes on without hits, and looks the project up if
\* that is not done.
LEMMA SearchLostInv ==
    ASSUME RetrievalInv, Frame, pc \in {"search", "shallow", "check"}, SearchLost,
           UNCHANGED <<rank, source, todo, got, results, history, backoff>>
    PROVE  RetrievalInv'
<1>1. /\ UNCHANGED <<rank, source, todo, got, results, answer, seen, existed, backoff>>
      /\ UNCHANGED <<project, req, checked>>
      /\ hits' = <<>> /\ ctx' = req.contexts
      /\ pc' = IF req.mode = "first" THEN "list" ELSE IF checked THEN Rest ELSE "verify"
      /\ Rest \in {"bundle", "fallback"}
  BY DEF SearchLost, Frame, history, store, Rest
<1>2. /\ StoreInv' /\ Entries' = Entries /\ results' \in Seq(Entries) /\ PublishedInv'
      /\ \A i : InScope(i)' = InScope(i)
      /\ \A k \in DOMAIN todo' : InScope(todo'[k])
      /\ got' \in [Items -> Nat] /\ todo' \in Seq(Items) /\ seen' \in [Items -> SUBSET Nat]
  BY <1>1, QuietRead, StillStep
<1>3. LocalsInv'
  BY <1>1, <1>2, Asked DEF RetrievalInv, LocalsInv
<1>4. ScopeInv'
  BY <1>1, <1>2, QuietRead DEF RetrievalInv, ScopeInv
<1>5. ProjectInv'
  <2>1. checked => TRUE \in existed
    BY DEF RetrievalInv, ProjectInv
  <2>2. ~checked => req.mode # "first"
    BY Asked DEF RetrievalInv, ProjectInv
  <2> QED BY <1>1, <2>1, <2>2 DEF RetrievalInv, ProjectInv, ProjectIsChecked
<1> QED BY <1>2, <1>3, <1>4, <1>5 DEF RetrievalInv

LEMMA CheckProjectInv ==
    ASSUME RetrievalInv, CheckProject
    PROVE  RetrievalInv'
<1>1. /\ UNCHANGED <<rank, source, todo, got, results, seen, existed, backoff>>
      /\ UNCHANGED <<project, req>> /\ Frame /\ pc = "check"
      /\ UNCHANGED <<rank, source, todo, got, results, history, backoff>>
  BY DEF CheckProject, history, Frame, store
<1>2. CASE project /\ checked' = TRUE /\ pc' = "search" /\ UNCHANGED <<hits, ctx, answer>>
  <2>1. TRUE \in existed'
    BY <1>1, <1>2 DEF RetrievalInv, StoreInv, ProjectInv
  <2>2. StoreInv' /\ PublishedInv'
    BY <1>1, <1>2, QuietRead, StillStep
  <2>3. LocalsInv'
    BY <1>1, <1>2, QuietRead DEF RetrievalInv, LocalsInv
  <2>4. ScopeInv'
    BY <1>1, <1>2, QuietRead, StillStep DEF RetrievalInv, LocalsInv, ScopeInv
  <2>5. ProjectInv'
    BY <1>1, <1>2, <2>1 DEF RetrievalInv, ProjectInv, ProjectIsChecked
  <2> QED BY <2>2, <2>3, <2>4, <2>5 DEF RetrievalInv
<1>3. CASE ~project /\ checked' = TRUE /\ pc' = "done" /\ answer' = Error("missing") /\ UNCHANGED <<hits, ctx>>
  <2>1. Answers' = {} /\ answer'.status = "missing"
    BY <1>3 DEF Answers, Error, ToSet
  <2>2. Entries' = Entries /\ \A i : InScope(i)' = InScope(i)
    BY <1>1, ScoresKept, ScopeKept
  <2>3. StoreInv'
    BY <1>1 DEF RetrievalInv, StoreInv, Frame, store
  <2>4. LocalsInv'
    BY <1>1, <1>3, <2>1, <2>2 DEF RetrievalInv, LocalsInv
  <2>5. ScopeInv'
    BY <1>1, <1>3, <2>1, <2>2 DEF RetrievalInv, LocalsInv, ScopeInv
  <2>6. PublishedInv'
    BY <1>1, <1>3, <2>1 DEF RetrievalInv, PublishedInv, Stands, Frame, store
  <2>7. ProjectInv'
    BY <1>1, <1>3, <2>1 DEF RetrievalInv, StoreInv, ProjectInv, ProjectIsChecked
  <2> QED BY <2>3, <2>4, <2>5, <2>6, <2>7 DEF RetrievalInv
<1>4. CASE SearchLost
  BY <1>1, <1>4, SearchLostInv
<1> QED BY <1>2, <1>3, <1>4 DEF CheckProject

LEMMA SearchFailsInv ==
    ASSUME RetrievalInv, SearchFails
    PROVE  RetrievalInv'
BY SearchLostInv DEF SearchFails

LEMMA EndSearchInv ==
    ASSUME RetrievalInv, EndSearch
    PROVE  RetrievalInv'
<1>1. /\ pc \in {"search", "shallow"} /\ ctx = <<>> /\ Frame
      /\ ctx' = req.contexts /\ source' = "hits"
      /\ UNCHANGED <<rank, hits, got, results, checked, answer, seen, existed, backoff>>
      /\ UNCHANGED <<project, req>>
  BY DEF EndSearch, Frame, store
<1>2. checked /\ TRUE \in existed
  BY <1>1, Asked DEF RetrievalInv, ProjectInv
<1>3. /\ todo' \in Seq(Items) /\ \A k \in DOMAIN todo' : InScope(todo'[k])
      /\ pc' \in {"shallow", "take", "published", "batch", "revisions"}
      /\ pc' = "revisions" => req.unroll
  <2>1. CASE SearchAgain
    BY <2>1 DEF SearchAgain
  <2>2. CASE TakeHits
    <3>1. PICK found \in Candidates :
            /\ IF req.mode = "first" THEN todo' \in OldestItemsFirst(ToSet(found)) ELSE todo' = found
            /\ pc' = IF ~req.packet THEN NextItem("hits")
                     ELSE IF \A i \in ToSet(found) : got[i] # 0 THEN "take"
                     ELSE IF backoff THEN "published" ELSE "batch"
      BY <2>2 DEF TakeHits
    <3>2. found \in Seq(Items) /\ \A k \in DOMAIN found : InScope(found[k])
      BY CandidatesTyped
    <3>3. ToSet(found) \in SUBSET Items /\ \A i \in ToSet(found) : InScope(i)
      BY <3>2 DEF ToSet
    <3>4. todo' \in Seq(Items) /\ \A k \in DOMAIN todo' : InScope(todo'[k])
      <4>1. CASE req.mode = "first"
        BY <3>1, <3>3, <4>1, OldestTyped
      <4>2. CASE req.mode # "first"
        BY <3>1, <3>2, <4>2
      <4> QED BY <4>1, <4>2
    <3> QED BY <3>1, <3>4 DEF NextItem
  <2> QED BY <2>1, <2>2 DEF EndSearch
<1>4. /\ StoreInv' /\ Entries' = Entries /\ results' \in Seq(Entries)
      /\ \A i : InScope(i)' = InScope(i)
      /\ \A i, n : Stands(i, n)' = Stands(i, n)
  BY <1>1, QuietRead
<1>5. LocalsInv'
  BY <1>1, <1>3, <1>4, Asked DEF RetrievalInv, LocalsInv
<1>6. ScopeInv'
  BY <1>1, <1>3, <1>4, QuietRead DEF RetrievalInv, ScopeInv
<1>7. PublishedInv'
  BY <1>1, <1>3, <1>4, QuietRead DEF RetrievalInv, PublishedInv
<1>8. ProjectInv'
  BY <1>1, <1>2, <1>3 DEF RetrievalInv, ProjectInv, ProjectIsChecked
<1> QED BY <1>4, <1>5, <1>6, <1>7, <1>8 DEF RetrievalInv

---------------------------------------------------------------------------
(* Resolution. *)

Past == {"batch", "batch2", "take", "published", "latest", "revisions", "bundle", "fallback",
         "list", "finish"}

\* Past the look-up nothing but the answer is left to say of the project.
LEMMA PastStep ==
    ASSUME ProjectInv, pc \in Past, pc' \in Past \cup {"done"},
           UNCHANGED <<project, existed, checked, req>>,
           answer'.status \in {answer.status, "ok"}
    PROVE  ProjectInv'
<1>1. TRUE \in existed' /\ pc # "idle"
  BY DEF ProjectInv, Past
<1>2. ProjectIsChecked'
  BY <1>1 DEF ProjectInv, ProjectIsChecked
<1>3. pc' \notin {"idle", "search", "shallow", "check", "project"}
  BY DEF Past
<1> QED BY <1>1, <1>2, <1>3 DEF ProjectInv

\* A batch resolves what is unresolved; nothing else of the call changes.
LEMMA BatchInv ==
    ASSUME RetrievalInv, pc \in {"batch", "batch2"}, Frame, NEW n \in [Items -> Nat], BatchRead(n),
           \A i \in Items : got[i] = 0 /\ i \in ToSet(todo) /\ Alive(i) => Stands(i, n[i]),
           pc' \in {"batch2", "take"},
           pc' = "batch2" => \A i \in Items : n[i] = pub[i],
           UNCHANGED <<rank, hits, source, todo, results, ctx, checked, answer, history, backoff>>
    PROVE  RetrievalInv'
<1>1. /\ UNCHANGED <<rank, hits, source, todo, results, ctx, checked, answer, seen, existed, backoff>>
      /\ UNCHANGED <<project, req, gone>>
      /\ got' = [i \in Items |-> IF got[i] = 0 /\ i \in ToSet(todo) /\ Alive(i) THEN n[i] ELSE got[i]]
  BY DEF history, Frame, store, BatchRead, Unresolved
<1>2. /\ StoreInv' /\ Entries' = Entries /\ results' \in Seq(Entries)
      /\ \A i : InScope(i)' = InScope(i)
      /\ \A i, k : Stands(i, k)' = Stands(i, k)
      /\ \A i : Unpublished(i)' = Unpublished(i)
  BY <1>1, QuietRead
<1>3. got' \in [Items -> Nat] /\ \A i \in Items : Stands(i, got'[i])
  <2>1. got \in [Items -> Nat] /\ \A i \in Items : Stands(i, got[i])
    BY DEF RetrievalInv, LocalsInv, PublishedInv
  <2> QED BY <1>1, <2>1
<1>4. pc' = "batch2" => \A i \in Items : got'[i] = 0 /\ i \in ToSet(todo') => Unpublished(i)'
  <2>1. ASSUME pc' = "batch2", NEW i \in Items, got'[i] = 0, i \in ToSet(todo')
        PROVE  0 \in seen[i] \/ i \in gone
    <3>1. got[i] = 0 /\ i \in ToSet(todo)
      BY <1>1, <1>3, <2>1 DEF RetrievalInv, LocalsInv
    <3>2. ~Alive(i) \/ pub[i] = 0
      BY <1>1, <2>1, <3>1
    <3>3. i \notin gone /\ ~Alive(i) => pub[i] = 0
      BY DEF RetrievalInv, StoreInv, Alive
    <3>4. pub[i] \in seen[i]
      BY DEF RetrievalInv, PublishedInv
    <3> QED BY <3>2, <3>3, <3>4
  <2> QED BY <2>1, <1>1 DEF Unpublished
<1>5. LocalsInv'
  BY <1>1, <1>2, <1>3 DEF RetrievalInv, LocalsInv
<1>6. ScopeInv'
  BY <1>1, <1>2, QuietRead DEF RetrievalInv, ScopeInv
<1>7. PublishedInv'
  <2>1. \A i \in Items : Stands(i, got[i])'
    BY <1>2, <1>3
  <2>2. /\ pc' # "idle" => \A i \in Items : pub'[i] \in seen'[i]
        /\ ~req'.unroll => \A k \in DOMAIN results' : Stands(results[k].item, results[k].rev)'
        /\ ~req'.unroll => \A e \in Answers' : Stands(e.item, e.rev)'
    BY <1>1, <1>2, QuietRead
  <2>3. pc' # "latest"
    OBVIOUS
  <2> QED BY <1>4, <2>1, <2>2, <2>3 DEF PublishedInv
<1>8. ProjectInv'
  BY <1>1, PastStep DEF RetrievalInv, Past
<1> QED BY <1>2, <1>5, <1>6, <1>7, <1>8 DEF RetrievalInv

LEMMA BatchPublishedInv ==
    ASSUME RetrievalInv, BatchPublished
    PROVE  RetrievalInv'
<1>1. pc = "batch" /\ pub \in [Items -> Nat] /\ \A i \in Items : Stands(i, pub[i])
  BY DEF BatchPublished, RetrievalInv, StoreInv, PublishedInv, Stands
<1> QED BY <1>1, BatchInv DEF BatchPublished

\* What a batch did not find published was seen so.
LEMMA BatchLatestInv ==
    ASSUME RetrievalInv, BatchLatest
    PROVE  RetrievalInv'
<1> DEFINE n == [i \in Items |-> Latest(i)]
<1>1. pc = "batch2" /\ n \in [Items -> Nat]
  BY DEF BatchLatest, RetrievalInv, StoreInv, Latest
<1>2. ASSUME NEW i \in Items, got[i] = 0, i \in ToSet(todo), Alive(i)
      PROVE  Stands(i, n[i])
  BY <1>1, <1>2 DEF RetrievalInv, PublishedInv, Unpublished, Stands, Alive
<1>3. BatchRead(n) /\ pc' = "take"
  BY DEF BatchLatest, LatestOfMissing
<1> HIDE DEF n
<1> QED BY <1>1, <1>2, <1>3, BatchInv DEF BatchLatest

LEMMA BatchFailsInv ==
    ASSUME RetrievalInv, BatchFails
    PROVE  RetrievalInv'
<1>1. /\ UNCHANGED <<rank, hits, source, todo, results, ctx, checked, answer, seen, existed>>
      /\ UNCHANGED <<project, req>> /\ Frame
      /\ backoff' = TRUE /\ got' = None /\ pc' = "published" /\ pc \in {"batch", "batch2"}
  BY DEF BatchFails, history, Frame, store
<1>2. /\ StoreInv' /\ Entries' = Entries /\ results' \in Seq(Entries)
      /\ \A i : InScope(i)' = InScope(i)
  BY <1>1, QuietRead
<1>3. LocalsInv'
  BY <1>1, <1>2 DEF RetrievalInv, LocalsInv, None
<1>4. ScopeInv'
  BY <1>1, <1>2, QuietRead DEF RetrievalInv, ScopeInv
<1>5. PublishedInv'
  BY <1>1, QuietRead DEF PublishedInv, Stands, None
<1>6. ProjectInv'
  BY <1>1, PastStep DEF RetrievalInv, Past
<1> QED BY <1>2, <1>3, <1>4, <1>5, <1>6 DEF RetrievalInv

LEMMA TakeBatchInv ==
    ASSUME RetrievalInv, TakeBatch
    PROVE  RetrievalInv'
<1>1. /\ UNCHANGED <<rank, hits, source, got, ctx, checked, answer, seen, existed, backoff>>
      /\ UNCHANGED <<project, revs, pub, gone, created, date, req>> /\ Frame
      /\ pc = "take" /\ todo' = <<>> /\ pc' = "published"
  BY DEF TakeBatch, history, Frame, store
<1>2. PICK found \in RowsOf(todo, LAMBDA i : got[i] # 0 /\ Matches(i, got[i])) :
        results' = [k \in DOMAIN found |-> Entry(found[k], got[found[k]], HitScore(found[k]))]
  BY DEF TakeBatch
<1>3. found \in Seq(Items) /\ \A k \in DOMAIN found : InScope(found[k])
  <2> DEFINE K == {k \in DOMAIN todo : got[todo[k]] # 0 /\ Matches(todo[k], got[todo[k]])}
  <2>1. PICK p \in SetToSeqs(K) : found = [k \in DOMAIN p |-> todo[p[k]]]
    BY DEF RowsOf, Arranged
  <2>2. todo \in Seq(Items) /\ \A k \in DOMAIN todo : InScope(todo[k])
    BY DEF RetrievalInv, LocalsInv, ScopeInv
  <2>3. found \in Seq(Items) /\ \A k \in DOMAIN p : p[k] \in DOMAIN todo
    BY <2>1, <2>2, RowsTyped
  <2> QED BY <2>1, <2>2, <2>3
<1>4. \A k \in DOMAIN found :
        /\ Entry(found[k], got[found[k]], HitScore(found[k])) \in Entries
        /\ Entry(found[k], got[found[k]], HitScore(found[k])).item = found[k]
        /\ Entry(found[k], got[found[k]], HitScore(found[k])).rev = got[found[k]]
  <2>1. ASSUME NEW k \in DOMAIN found
        PROVE  found[k] \in Items /\ got[found[k]] \in Nat
    BY <1>3 DEF RetrievalInv, LocalsInv
  <2> QED BY <2>1, ScoreIn, EntryTyped
<1>5. /\ results' \in Seq(Entries) /\ DOMAIN results' = DOMAIN found
      /\ \A k \in DOMAIN results' : results'[k].item = found[k] /\ results'[k].rev = got[found[k]]
  <2>1. Len(found) \in Nat /\ DOMAIN found = 1..Len(found)
    BY <1>3
  <2>2. results' \in [1..Len(found) -> Entries]
    BY <1>2, <1>4, <2>1
  <2> QED BY <1>2, <1>4, <2>1, <2>2
<1>6. /\ Entries' = Entries /\ \A i : InScope(i)' = InScope(i)
      /\ \A i, n : Stands(i, n)' = Stands(i, n)
      /\ Answers' = Answers
  BY <1>1, ScopeKept, ScoresKept DEF Stands, Answers
<1>7. \A k \in DOMAIN results' : InScope(results'[k].item) /\ Stands(results'[k].item, results'[k].rev)
  <2>1. \A k \in DOMAIN found : Stands(found[k], got[found[k]])
    BY <1>3 DEF RetrievalInv, PublishedInv
  <2> QED BY <1>3, <1>5, <2>1
<1>8. StoreInv'
  BY <1>1 DEF RetrievalInv, StoreInv
<1>9. LocalsInv'
  BY <1>1, <1>5, <1>6 DEF RetrievalInv, LocalsInv
<1>10. ScopeInv'
  BY <1>1, <1>6, <1>7 DEF RetrievalInv, ScopeInv
<1>11. PublishedInv'
  BY <1>1, <1>6, <1>7 DEF RetrievalInv, PublishedInv
<1>12. ProjectInv'
  BY <1>1, PastStep DEF RetrievalInv, Past
<1> QED BY <1>8, <1>9, <1>10, <1>11, <1>12 DEF RetrievalInv

\* A result is added for the item that was resolved.
LEMMA AddTyped ==
    ASSUME RetrievalInv, NEW i \in Items, InScope(i), NEW n \in Nat, ~req.unroll => Stands(i, n)
    PROVE  /\ Add(i, n) \in Seq(Entries)
           /\ \A k \in DOMAIN Add(i, n) :
                 /\ InScope(Add(i, n)[k].item)
                 /\ ~req.unroll => Stands(Add(i, n)[k].item, Add(i, n)[k].rev)
<1> DEFINE score == CASE source = "hits" -> HitScore(i) [] source = "bundle" -> BundleScore
                     [] OTHER -> ListScore
           e == Entry(i, n, score)
<1>1. Add(i, n) = IF n # 0 /\ Matches(i, n) THEN results \o <<e>> ELSE results
  BY DEF Add
<1>2. score \in Scores
  BY ScoreIn
<1> HIDE DEF score
<1>3. e \in Entries /\ e.item = i /\ e.rev = n
  BY <1>2, EntryTyped
<1> HIDE DEF e
<1>4. /\ results \in Seq(Entries)
      /\ \A k \in DOMAIN results : /\ InScope(results[k].item)
                                   /\ ~req.unroll => Stands(results[k].item, results[k].rev)
  BY DEF RetrievalInv, LocalsInv, ScopeInv, PublishedInv
<1>5. CASE n # 0 /\ Matches(i, n)
  <2>1. Add(i, n) = results \o <<e>> /\ <<e>> \in Seq(Entries)
    BY <1>1, <1>3, <1>5
  <2>2. \A k \in DOMAIN (results \o <<e>>) :
           (results \o <<e>>)[k] = IF k <= Len(results) THEN results[k] ELSE e
    BY <1>4
  <2>3. \A k \in DOMAIN (results \o <<e>>) : k <= Len(results) => k \in DOMAIN results
    BY <1>4
  <2>4. results \o <<e>> \in Seq(Entries)
    BY <1>4, <2>1
  <2> QED BY <1>3, <1>4, <2>1, <2>2, <2>3, <2>4
<1>6. CASE ~(n # 0 /\ Matches(i, n))
  BY <1>1, <1>4, <1>6
<1> QED BY <1>5, <1>6

\* The items left are resolved, and what has been added or answered may stand.
LEMMA ResolveStep ==
    ASSUME RetrievalInv, Frame, pc \in {"published", "latest", "revisions"},
           UNCHANGED <<rank, hits, source, got, ctx, checked, history, backoff>>,
           pc' \in {"published", "latest", "revisions", "done"},
           todo' \in Seq(Items), \A k \in DOMAIN todo' : InScope(todo'[k]),
           pc' = "latest" => todo' # <<>> /\ Unpublished(Head(todo')),
           pc' = "revisions" => req.unroll,
           results' \in Seq(Entries),
           \A k \in DOMAIN results' :
              InScope(results'[k].item) /\ (~req.unroll => Stands(results'[k].item, results'[k].rev)),
           answer' = answer \/
              \E e \in Entries :
                 /\ answer' = [status |-> "ok", found |-> <<e>>] /\ InScope(e.item)
                 /\ ~req.unroll => Stands(e.item, e.rev)
    PROVE  RetrievalInv'
<1>1. /\ UNCHANGED <<rank, hits, source, got, ctx, checked, seen, existed, backoff, req>>
      /\ UNCHANGED <<project, created, revs, pub, gone, date>>
  BY DEF history, Frame, store
<1>2. /\ Entries' = Entries /\ \A i : InScope(i)' = InScope(i)
      /\ \A i, n : Stands(i, n)' = Stands(i, n)
      /\ \A i : Unpublished(i)' = Unpublished(i)
  BY <1>1, ScoresKept, ScopeKept DEF Stands, Unpublished
<1>3. /\ \A e \in Answers' : /\ e.item \in Items /\ InScope(e.item)
                             /\ ~req.unroll => Stands(e.item, e.rev)
      /\ answer'.status = answer.status \/ answer'.status = "ok"
  <2>1. CASE answer' = answer
    BY <2>1 DEF RetrievalInv, ScopeInv, PublishedInv, Answers
  <2>2. ASSUME NEW e \in Entries, answer' = [status |-> "ok", found |-> <<e>>], InScope(e.item),
               ~req.unroll => Stands(e.item, e.rev)
        PROVE  <1>3!1 /\ answer'.status = "ok"
    <3>1. Answers' = {e} /\ e.item \in Items
      BY <2>2 DEF Answers, ToSet, Entries
    <3> QED BY <2>2, <3>1
  <2> QED BY <2>1, <2>2
<1>4. StoreInv'
  BY <1>1 DEF RetrievalInv, StoreInv
<1>5. LocalsInv'
  BY <1>1, <1>2, <1>3 DEF RetrievalInv, LocalsInv
<1>6. ScopeInv'
  BY <1>1, <1>2, <1>3 DEF RetrievalInv, ScopeInv
<1>7. PublishedInv'
  BY <1>1, <1>2, <1>3 DEF RetrievalInv, PublishedInv
<1>8. ProjectInv'
  BY <1>1, <1>3, PastStep DEF RetrievalInv, Past
<1> QED BY <1>4, <1>5, <1>6, <1>7, <1>8 DEF RetrievalInv

\* The next item is in scope, and so is the rest.
LEMMA NextTyped ==
    ASSUME RetrievalInv, todo # <<>>
    PROVE  /\ Head(todo) \in Items /\ InScope(Head(todo))
           /\ Tail(todo) \in Seq(Items) /\ \A k \in DOMAIN Tail(todo) : InScope(Tail(todo)[k])
<1>1. todo \in Seq(Items) /\ \A k \in DOMAIN todo : InScope(todo[k])
  BY DEF RetrievalInv, LocalsInv, ScopeInv
<1>2. \A k \in DOMAIN Tail(todo) : k + 1 \in DOMAIN todo /\ Tail(todo)[k] = todo[k + 1]
  BY <1>1
<1> QED BY <1>1, <1>2

LEMMA ResultsKept ==
    ASSUME RetrievalInv
    PROVE  /\ results \in Seq(Entries) /\ todo \in Seq(Items)
           /\ \A k \in DOMAIN todo : InScope(todo[k])
           /\ \A k \in DOMAIN results :
                 InScope(results[k].item) /\ (~req.unroll => Stands(results[k].item, results[k].rev))
BY DEF RetrievalInv, LocalsInv, ScopeInv, PublishedInv

LEMMA NextItemIn ==
    /\ NextItem(source) \in {"revisions", "published"}
    /\ NextItem(source) = "revisions" => req.unroll
BY DEF NextItem

LEMMA ResolvedInv ==
    ASSUME RetrievalInv, Frame, pc \in {"published", "latest"}, todo # <<>>, NEW n \in Nat,
           ~req.unroll => Stands(Head(todo), n), Resolved(Head(todo), n),
           UNCHANGED <<rank, hits, source, got, ctx, checked, history, backoff>>
    PROVE  RetrievalInv'
<1> DEFINE i == Head(todo)
<1>1. i \in Items /\ InScope(i) /\ (~req.unroll => Stands(i, n))
  BY NextTyped
<1>2. CASE Skip
  BY <1>2, NextTyped, NextItemIn, ResultsKept, ResolveStep DEF Skip
<1>3. CASE /\ answer' = [status |-> "ok", found |-> <<Entry(i, n, ListScore)>>]
           /\ pc' = "done" /\ UNCHANGED <<todo, results>>
  <2>1. /\ Entry(i, n, ListScore) \in Entries
        /\ Entry(i, n, ListScore).item = i /\ Entry(i, n, ListScore).rev = n
    BY <1>1, ScoreIn, EntryTyped
  <2> QED BY <1>1, <1>3, <2>1, ResultsKept, ResolveStep
<1>4. CASE results' = Add(i, n) /\ todo' = Tail(todo) /\ pc' = NextItem(source) /\ UNCHANGED answer
  <2> HIDE DEF i
  <2>1. /\ results' \in Seq(Entries)
        /\ \A k \in DOMAIN results' :
             InScope(results'[k].item) /\ (~req.unroll => Stands(results'[k].item, results'[k].rev))
    BY <1>1, <1>4, AddTyped
  <2>2. todo' \in Seq(Items) /\ \A k \in DOMAIN todo' : InScope(todo'[k])
    BY <1>4, NextTyped
  <2>3. pc' \in {"published", "revisions"} /\ (pc' = "revisions" => req.unroll)
    BY <1>4, NextItemIn
  <2> QED BY <1>4, <2>1, <2>2, <2>3, ResolveStep
<1> QED BY <1>2, <1>3, <1>4 DEF Resolved

LEMMA ReadPublishedInv ==
    ASSUME RetrievalInv, ReadPublished
    PROVE  RetrievalInv'
<1> DEFINE i == Head(todo)
<1>1. /\ pc = "published" /\ todo # <<>> /\ Frame
      /\ UNCHANGED <<rank, hits, source, got, ctx, checked, history, backoff>>
  BY DEF ReadPublished, Enough
<1>2. i \in Items /\ pub[i] \in Nat /\ pub[i] \in seen[i]
  BY <1>1, NextTyped DEF RetrievalInv, StoreInv, PublishedInv
<1>3. CASE todo' = <<>> /\ UNCHANGED <<pc, results, answer>>
  BY <1>1, <1>3, ResultsKept, ResolveStep
<1>4. CASE Resolved(i, pub[i])
  BY <1>1, <1>2, <1>4, ResolvedInv DEF Stands
<1>5. CASE ~(Alive(i) /\ pub[i] # 0) /\ pc' = "latest" /\ UNCHANGED <<todo, results, answer>>
  <2>1. Unpublished(i)
    BY <1>2, <1>5 DEF RetrievalInv, StoreInv, Alive, Unpublished
  <2> QED BY <1>1, <1>5, <2>1, ResultsKept, ResolveStep
<1> QED BY <1>3, <1>4, <1>5 DEF ReadPublished

\* Only what was seen unpublished, or is deleted, is read by its latest revision.
LEMMA ReadLatestInv ==
    ASSUME RetrievalInv, ReadLatest
    PROVE  RetrievalInv'
<1> DEFINE i == Head(todo)
           n == IF Alive(i) THEN Latest(i) ELSE 0
<1>1. /\ pc = "latest" /\ todo # <<>> /\ Frame /\ Unpublished(i) /\ Resolved(i, n)
      /\ UNCHANGED <<rank, hits, source, got, ctx, checked, history, backoff>>
  BY DEF ReadLatest, RetrievalInv, LocalsInv, PublishedInv
<1>2. n \in Nat
  BY <1>1, NextTyped DEF RetrievalInv, StoreInv, Latest
<1>3. Stands(i, n)
  BY <1>1 DEF Unpublished, Stands, Alive
<1> HIDE DEF n
<1> QED BY <1>1, <1>2, <1>3, ResolvedInv

LEMMA ReadRevisionsInv ==
    ASSUME RetrievalInv, ReadRevisions
    PROVE  RetrievalInv'
<1> DEFINE i == Head(todo)
<1>1. /\ pc = "revisions" /\ todo # <<>> /\ Frame /\ req.unroll
      /\ UNCHANGED <<rank, hits, source, got, ctx, checked, answer, history, backoff>>
  BY DEF ReadRevisions, RetrievalInv, LocalsInv
<1>2. CASE pc' = "published" /\ UNCHANGED <<results, todo>>
  BY <1>1, <1>2, ResultsKept, ResolveStep
<1>3. CASE /\ \E ns \in Arranged({n \in 1..Latest(i) : Matches(i, n)}, <) :
                 results' = results \o [k \in DOMAIN ns |-> Entry(i, ns[k], HitScore(i))]
           /\ todo' = Tail(todo) /\ UNCHANGED pc
  <2>1. PICK ns \in SetToSeqs({n \in 1..Latest(i) : Matches(i, n)}) :
           results' = results \o [k \in DOMAIN ns |-> Entry(i, ns[k], HitScore(i))]
    BY <1>3 DEF Arranged
  <2>2. i \in Items /\ InScope(i) /\ Latest(i) \in Nat
    <3>1. i \in Items /\ InScope(i)
      BY <1>1, NextTyped
    <3>2. revs \in [Items -> Seq([date : Nat, type : Types])]
      BY DEF RetrievalInv, StoreInv
    <3> QED BY <3>1, <3>2 DEF Latest
  <2>3. ns \in Seq(Nat) /\ \A k \in DOMAIN ns : ns[k] \in Nat
    <3>1. IsFiniteSet({n \in 1..Latest(i) : Matches(i, n)})
      <4>1. IsFiniteSet(1..Latest(i))
        BY <2>2, FS_Interval
      <4> QED BY <4>1, FS_Subset
    <3>2. {n \in 1..Latest(i) : Matches(i, n)} \subseteq Nat
      BY <2>2
    <3>3. ns \in Seq(Nat)
      BY <3>1, <3>2, ArrangedSeq
    <3> QED BY <3>3
  <2> DEFINE more == [k \in DOMAIN ns |-> Entry(i, ns[k], HitScore(i))]
  <2>4. \A k \in DOMAIN ns : more[k] \in Entries /\ more[k].item = i
    BY <2>2, <2>3, ScoreIn, EntryTyped
  <2>5. more \in Seq(Entries) /\ \A k \in DOMAIN more : more[k].item = i
    <3>1. Len(ns) \in Nat /\ DOMAIN ns = 1..Len(ns)
      BY <2>3
    <3>2. more \in [1..Len(ns) -> Entries]
      BY <2>4, <3>1
    <3> QED BY <2>4, <3>1, <3>2
  <2>6. results' = results \o more
    BY <2>1
  <2> HIDE DEF more, i
  <2>7. results' \in Seq(Entries) /\ \A k \in DOMAIN results' : InScope(results'[k].item)
    <3>1. results \in Seq(Entries) /\ \A k \in DOMAIN results : InScope(results[k].item)
      BY ResultsKept
    <3>2. \A k \in DOMAIN results' :
             \/ k \in DOMAIN results /\ results'[k] = results[k]
             \/ k - Len(results) \in DOMAIN more /\ results'[k] = more[k - Len(results)]
      BY <2>5, <2>6, <3>1
    <3> QED BY <2>2, <2>5, <2>6, <3>1, <3>2
  <2> QED BY <1>1, <1>3, <2>7, NextTyped, ResolveStep
<1> QED BY <1>2, <1>3 DEF ReadRevisions

LEMMA ReadFailsInv ==
    ASSUME RetrievalInv, ReadFails
    PROVE  RetrievalInv'
<1>1. /\ pc \in {"published", "latest", "revisions"} /\ Frame /\ todo # <<>>
      /\ todo' \in {<<>>, Tail(todo)} /\ pc' = NextItem(source)
      /\ UNCHANGED <<rank, hits, source, got, results, ctx, checked, answer, seen, existed, backoff>>
      /\ UNCHANGED <<project, req>>
  BY DEF ReadFails, Enough, Frame, store, RetrievalInv, LocalsInv
<1>2. todo' \in Seq(Items) /\ \A k \in DOMAIN todo' : InScope(todo'[k])
  <2>1. CASE todo' = <<>>
    BY <2>1
  <2>2. CASE todo' = Tail(todo)
    BY <1>1, <2>2, NextTyped
  <2> QED BY <1>1, <2>1, <2>2
<1>3. pc' \in {"published", "revisions"} /\ (pc' = "revisions" => req.unroll)
  BY <1>1, NextItemIn
<1>4. /\ StoreInv' /\ Entries' = Entries /\ results' \in Seq(Entries)
      /\ \A i : InScope(i)' = InScope(i)
      /\ \A i, n : Stands(i, n)' = Stands(i, n)
  BY <1>1, QuietRead
<1>5. LocalsInv'
  BY <1>1, <1>2, <1>3, <1>4 DEF RetrievalInv, LocalsInv
<1>6. ScopeInv'
  BY <1>1, <1>2, <1>3, <1>4, QuietRead DEF RetrievalInv, ScopeInv
<1>7. PublishedInv'
  BY <1>1, <1>3, <1>4, QuietRead DEF RetrievalInv, PublishedInv
<1>8. ProjectInv'
  BY <1>1, <1>3, PastStep DEF RetrievalInv, Past
<1> QED BY <1>4, <1>5, <1>6, <1>7, <1>8 DEF RetrievalInv

---------------------------------------------------------------------------
(* Bundles, listings, the answer. *)

LEMMA EndItemsInv ==
    ASSUME RetrievalInv, EndItems
    PROVE  RetrievalInv'
<1>1. /\ pc \in {"published", "revisions"} /\ Frame /\ todo' = <<>>
      /\ UNCHANGED <<rank, source, got, results, checked, answer, seen, existed, backoff>>
      /\ UNCHANGED <<project, req>>
      /\ Rest \in {"bundle", "fallback"}
  BY DEF EndItems, Frame, store, history, Rest
<1>2. /\ pc' \in {"list", "bundle", "fallback", "finish"}
      /\ \/ source = "hits" /\ ctx' = req.contexts /\ hits' = <<>>
         \/ source # "hits" /\ UNCHANGED <<ctx, hits>> /\ (pc' = "list" => source = "list")
  BY <1>1 DEF EndItems
<1>3. /\ StoreInv' /\ Entries' = Entries /\ results' \in Seq(Entries)
      /\ \A i : InScope(i)' = InScope(i)
      /\ \A i, n : Stands(i, n)' = Stands(i, n)
  BY <1>1, QuietRead
<1>8. ctx' \in Seq(Contexts) /\ hits' \in Seq(Items) /\ todo' \in Seq(Items)
  <2>1. ctx \in Seq(Contexts) /\ hits \in Seq(Items)
    BY DEF RetrievalInv, LocalsInv
  <2>2. req.contexts \in Seq(Contexts)
    BY Asked
  <2>3. CASE ctx' = req.contexts /\ hits' = <<>>
    BY <1>1, <2>2, <2>3
  <2>4. CASE UNCHANGED <<ctx, hits>>
    BY <1>1, <2>1, <2>4
  <2> QED BY <1>2, <2>3, <2>4
<1>4. LocalsInv'
  BY <1>1, <1>2, <1>3, <1>8 DEF RetrievalInv, LocalsInv
<1>5. ScopeInv'
  BY <1>1, <1>2, <1>3, QuietRead DEF RetrievalInv, ScopeInv
<1>6. PublishedInv'
  BY <1>1, <1>2, <1>3, QuietRead DEF RetrievalInv, PublishedInv
<1>7. ProjectInv'
  BY <1>1, <1>2, PastStep DEF RetrievalInv, Past
<1> QED BY <1>3, <1>4, <1>5, <1>6, <1>7 DEF RetrievalInv

LEMMA VerifyProjectInv ==
    ASSUME RetrievalInv, VerifyProject
    PROVE  RetrievalInv'
<1>1. CASE project /\ pc' = Rest /\ UNCHANGED <<backoff, locals, answer, history>>
  <2>1. /\ UNCHANGED <<rank, hits, source, todo, got, results, ctx, checked, answer, seen, existed>>
        /\ UNCHANGED <<project, req, backoff>> /\ Frame /\ pc = "verify"
        /\ pc' \in {"bundle", "fallback"}
    BY <1>1 DEF VerifyProject, locals, history, Frame, store, Rest
  <2>2. TRUE \in existed
    BY <1>1, <2>1 DEF RetrievalInv, StoreInv, ProjectInv
  <2>3. LocalsInv'
    BY <2>1, QuietRead DEF RetrievalInv, LocalsInv
  <2>4. ScopeInv'
    BY <2>1, QuietRead DEF RetrievalInv, ScopeInv
  <2>5. ProjectInv'
    BY <2>1, <2>2 DEF RetrievalInv, ProjectInv, ProjectIsChecked
  <2> QED BY <2>1, <2>3, <2>4, <2>5, QuietRead, StillStep DEF RetrievalInv
<1>2. CASE ~project /\ Fail("missing") /\ UNCHANGED history
  BY <1>2, FailInv DEF VerifyProject
<1>3. CASE Fail("raised") /\ UNCHANGED history
  BY <1>3, FailInv DEF VerifyProject
<1> QED BY <1>1, <1>2, <1>3 DEF VerifyProject

LEMMA MembersTyped ==
    ASSUME RetrievalInv, NEW x, NEW s \in MembersIn(x)
    PROVE  s \in Seq(Items) /\ \A k \in DOMAIN s : InScope(s[k])
<1> DEFINE K == {i \in Members : InScope(i) /\ ~Has(results, i)}
<1>1. s = <<>> \/ s \in SetToSeqs(K)
  BY DEF MembersIn, Arranged
<1>2. IsFiniteSet(K) /\ K \subseteq Items
  BY RetrievalAssumption, FS_Subset
<1>3. \A i \in K : InScope(i)
  OBVIOUS
<1> HIDE DEF K
<1>4. CASE s \in SetToSeqs(K)
  <2>1. s \in Seq(Items)
    BY <1>2, <1>4, ArrangedSeq
  <2>2. \A k \in DOMAIN s : s[k] \in K
    BY <1>4, ArrangedIn
  <2> QED BY <1>3, <2>1, <2>2
<1>5. CASE s = <<>>
  BY <1>5
<1> QED BY <1>1, <1>4, <1>5

LEMMA BundleInv ==
    ASSUME RetrievalInv, Bundle
    PROVE  RetrievalInv'
<1>1. CASE Fail("raised") /\ UNCHANGED history
  BY <1>1, FailInv DEF Bundle
<1>2. CASE \/ ctx = <<>> /\ pc' = "fallback" /\ ctx' = req.contexts /\ UNCHANGED <<source, todo>>
           \/ ctx # <<>> /\ ctx' = Tail(ctx) /\ UNCHANGED <<pc, source, todo>>
           \/ /\ ctx # <<>> /\ ctx' = Tail(ctx) /\ source' = "bundle" /\ pc' = "published"
              /\ todo' \in MembersIn(Head(ctx))
  <2> SUFFICES ASSUME UNCHANGED <<rank, hits, got, results, checked, backoff, answer, history>>
               PROVE  RetrievalInv'
    BY <1>1 DEF Bundle
  <2>1. /\ pc = "bundle" /\ Frame /\ UNCHANGED <<project, req, seen, existed>>
    BY DEF Bundle, Frame, store, history
  <2>2. todo' \in Seq(Items) /\ \A k \in DOMAIN todo' : InScope(todo'[k])
    <3>1. CASE UNCHANGED todo
      BY <3>1, ResultsKept
    <3>2. CASE todo' \in MembersIn(Head(ctx))
      BY <3>2, MembersTyped
    <3> QED BY <1>2, <3>1, <3>2
  <2>3. /\ ctx' \in Seq(Contexts) /\ pc' \in {"fallback", "published", "bundle"}
        /\ source' = source \/ source' = "bundle"
    <3>1. ctx \in Seq(Contexts)
      BY DEF RetrievalInv, LocalsInv
    <3> QED BY <1>2, <2>1, <3>1, Asked
  <2>4. /\ StoreInv' /\ Entries' = Entries /\ results' \in Seq(Entries)
        /\ \A i : InScope(i)' = InScope(i)
        /\ \A i, n : Stands(i, n)' = Stands(i, n)
    BY <2>1, QuietRead
  <2>5. LocalsInv'
    BY <2>1, <2>2, <2>3, <2>4 DEF RetrievalInv, LocalsInv
  <2>6. ScopeInv'
    BY <2>1, <2>2, <2>3, <2>4, QuietRead DEF RetrievalInv, ScopeInv
  <2>7. PublishedInv'
    BY <2>1, <2>3, <2>4, QuietRead DEF RetrievalInv, PublishedInv
  <2>8. ProjectInv'
    BY <2>1, <2>3, PastStep DEF RetrievalInv, Past
  <2> QED BY <2>4, <2>5, <2>6, <2>7, <2>8 DEF RetrievalInv
<1> QED BY <1>1, <1>2 DEF Bundle

LEMMA FallbackInv ==
    ASSUME RetrievalInv, Fallback
    PROVE  RetrievalInv'
<1>1. /\ pc = "fallback" /\ Frame /\ pc' \in {"list", "finish"} /\ ctx' = req.contexts /\ hits' = <<>>
      /\ UNCHANGED <<rank, source, todo, got, results, checked, answer, seen, existed, backoff>>
      /\ UNCHANGED <<project, req>>
  BY DEF Fallback, Frame, store, history
<1>2. /\ StoreInv' /\ PublishedInv' /\ Entries' = Entries /\ \A i : InScope(i)' = InScope(i)
  BY <1>1, QuietRead, StillStep
<1>3. LocalsInv'
  BY <1>1, <1>2, Asked DEF RetrievalInv, LocalsInv
<1>4. ScopeInv'
  BY <1>1, <1>2, QuietRead, StillStep DEF RetrievalInv, ScopeInv
<1>5. ProjectInv'
  BY <1>1, PastStep DEF RetrievalInv, Past
<1> QED BY <1>2, <1>3, <1>4, <1>5 DEF RetrievalInv

LEMMA ListItemsInv ==
    ASSUME RetrievalInv, ListItems
    PROVE  RetrievalInv'
<1> DEFINE items == Listed(Head(ctx)) \cup (IF req.mode = "search" THEN {} ELSE ToSet(hits))
           all == Tail(ctx) = <<>> \/ req.mode = "search"
<1>1. CASE Fail("raised") /\ UNCHANGED history
  BY <1>1, FailInv DEF ListItems
<1>2. CASE /\ ctx' = Tail(ctx)
           /\ IF all THEN hits' = <<>> /\ todo' \in Ordered(items)
              ELSE hits' \in OldestItemsFirst(items) /\ todo' = <<>>
           /\ source' = "list"
           /\ pc' = IF all THEN "published" ELSE "list"
           /\ UNCHANGED <<rank, got, results, checked, backoff, answer, seen, spoiled, existed, failures>>
  <2>1. /\ pc = "list" /\ ctx # <<>> /\ Frame /\ UNCHANGED <<project, req>>
    BY DEF ListItems, Frame, store
  <2>2. items \in SUBSET Items /\ \A i \in items : InScope(i)
    <3>1. hits \in Seq(Items) /\ \A k \in DOMAIN hits : InScope(hits[k])
      BY <2>1 DEF RetrievalInv, LocalsInv, ScopeInv
    <3>2. ToSet(hits) \subseteq Items /\ \A i \in ToSet(hits) : InScope(i)
      BY <3>1 DEF ToSet
    <3> QED BY <3>2 DEF Listed
  <2> HIDE DEF items
  <2>3. /\ hits' \in Seq(Items) /\ \A k \in DOMAIN hits' : InScope(hits'[k])
        /\ todo' \in Seq(Items) /\ \A k \in DOMAIN todo' : InScope(todo'[k])
    <3>1. CASE all
      <4>1. hits' = <<>> /\ todo' \in Ordered(items)
        BY <1>2, <3>1
      <4>2. todo' \in Seq(Items) /\ \A k \in DOMAIN todo' : todo'[k] \in items
        BY <2>2, <4>1, OrderedTyped
      <4> QED BY <2>2, <4>1, <4>2
    <3>2. CASE ~all
      <4>1. todo' = <<>> /\ hits' \in OldestItemsFirst(items)
        BY <1>2, <3>2
      <4>2. hits' \in Seq(Items) /\ \A k \in DOMAIN hits' : hits'[k] \in items
        BY <2>2, <4>1, OldestTyped
      <4> QED BY <2>2, <4>1, <4>2
    <3> QED BY <3>1, <3>2
  <2>4. ctx' \in Seq(Contexts) /\ pc' \in {"published", "list"}
    BY <1>2, <2>1 DEF RetrievalInv, LocalsInv
  <2>5. /\ StoreInv' /\ Entries' = Entries /\ results' \in Seq(Entries)
        /\ \A i : InScope(i)' = InScope(i)
        /\ \A i, n : Stands(i, n)' = Stands(i, n)
    BY <1>2, <2>1, QuietRead
  <2>6. LocalsInv'
    BY <1>2, <2>1, <2>3, <2>4, <2>5 DEF RetrievalInv, LocalsInv
  <2>7. ScopeInv'
    BY <1>2, <2>1, <2>3, <2>5, QuietRead DEF RetrievalInv, ScopeInv
  <2>8. PublishedInv'
    BY <1>2, <2>1, <2>4, <2>5, QuietRead DEF RetrievalInv, PublishedInv
  <2>9. ProjectInv'
    BY <1>2, <2>1, <2>4, PastStep DEF RetrievalInv, Past
  <2> QED BY <2>5, <2>6, <2>7, <2>8, <2>9 DEF RetrievalInv
<1> QED BY <1>1, <1>2 DEF ListItems

\* The answer is made of results.
LEMMA FinishInv ==
    ASSUME RetrievalInv, Finish
    PROVE  RetrievalInv'
<1>1. /\ pc = "finish" /\ Frame /\ pc' = "done"
      /\ UNCHANGED <<rank, hits, source, todo, got, results, ctx, checked, seen, existed, backoff>>
      /\ UNCHANGED <<project, created, revs, pub, gone, date, req>>
  BY DEF Finish, Frame, store, locals, history
<1>2. PICK order \in SetToSeqs(First(Deduped, Limit, Before)) :
        answer' = [status |-> "ok", found |-> [k \in DOMAIN order |-> results[order[k]]]]
  BY DEF Finish, Arranged
<1>3. \A k \in DOMAIN order : order[k] \in DOMAIN results
  <2>1. First(Deduped, Limit, Before) \subseteq DOMAIN results
    BY DEF First, Deduped
  <2> QED BY <2>1, ArrangedIn
<1>4. \A e \in Answers' : \E k \in DOMAIN results : e = results[k]
  BY <1>2, <1>3 DEF Answers, ToSet
<1>5. \A e \in Answers' : /\ e.item \in Items /\ InScope(e.item)
                          /\ ~req.unroll => Stands(e.item, e.rev)
  <2>1. \A k \in DOMAIN results :
           /\ results[k].item \in Items /\ InScope(results[k].item)
           /\ ~req.unroll => Stands(results[k].item, results[k].rev)
    <3>1. \A k \in DOMAIN results : results[k] \in Entries
      BY ResultsKept
    <3>2. \A e \in Entries : e.item \in Items
      BY DEF Entries
    <3> QED BY <3>1, <3>2, ResultsKept
  <2> QED BY <1>4, <2>1
<1>6. /\ Entries' = Entries /\ \A i : InScope(i)' = InScope(i)
      /\ \A i, n : Stands(i, n)' = Stands(i, n)
  BY <1>1, ScoresKept, ScopeKept DEF Stands
<1>7. StoreInv'
  BY <1>1 DEF RetrievalInv, StoreInv
<1>8. LocalsInv'
  BY <1>1, <1>2, <1>6 DEF RetrievalInv, LocalsInv
<1>9. ScopeInv'
  BY <1>1, <1>5, <1>6 DEF RetrievalInv, ScopeInv
<1>10. PublishedInv'
  BY <1>1, <1>5, <1>6 DEF RetrievalInv, PublishedInv
<1>11. ProjectInv'
  BY <1>1, <1>2, PastStep DEF RetrievalInv, Past
<1> QED BY <1>7, <1>8, <1>9, <1>10, <1>11 DEF RetrievalInv

---------------------------------------------------------------------------
(* Others. *)

LEMMA ElapseInv ==
    ASSUME RetrievalInv, Elapse
    PROVE  RetrievalInv'
<1>1. /\ UNCHANGED <<rank, hits, source, todo, got, results, ctx, checked, answer, seen, existed>>
      /\ UNCHANGED <<project, created, revs, pub, gone, date, req, pc>> /\ backoff' = FALSE
  BY DEF Elapse, store, locals, history
<1>2. /\ Entries' = Entries /\ \A i : InScope(i)' = InScope(i)
      /\ \A i, n : Stands(i, n)' = Stands(i, n)
      /\ \A i : Unpublished(i)' = Unpublished(i) /\ Answers' = Answers
  BY <1>1, ScoresKept, ScopeKept DEF Stands, Unpublished, Answers
<1>3. StoreInv'
  BY <1>1 DEF RetrievalInv, StoreInv
<1>4. LocalsInv'
  BY <1>1, <1>2 DEF RetrievalInv, LocalsInv
<1>5. ScopeInv'
  BY <1>1, <1>2 DEF RetrievalInv, ScopeInv
<1>6. PublishedInv'
  BY <1>1, <1>2 DEF RetrievalInv, PublishedInv
<1>7. ProjectInv'
  BY <1>1 DEF RetrievalInv, ProjectInv, ProjectIsChecked
<1> QED BY <1>3, <1>4, <1>5, <1>6, <1>7 DEF RetrievalInv

\* A write of others: what was seen stays seen, and more may be.
LEMMA WriteInv ==
    ASSUME RetrievalInv, Write, StoreInv', gone \subseteq gone',
           seen' \in [Items -> SUBSET Nat],
           \A i \in Items : /\ seen[i] \subseteq seen'[i] /\ pub'[i] \in seen'[i]
                            /\ 0 \in seen'[i] => 0 \in seen[i],
           project' \in existed', existed \subseteq existed'
    PROVE  RetrievalInv'
<1>1. /\ UNCHANGED <<rank, hits, source, todo, got, results, ctx, checked, answer, backoff>>
      /\ UNCHANGED <<req, pc>>
  BY DEF Write, locals
<1>2. /\ Entries' = Entries /\ \A i : InScope(i)' = InScope(i)
      /\ Answers' = Answers
  BY <1>1, ScoresKept, ScopeKept DEF Answers
<1>3. /\ \A i \in Items : \A n : Stands(i, n) => Stands(i, n)'
      /\ \A i \in Items : Unpublished(i) => Unpublished(i)'
  BY DEF Stands, Unpublished
<1>4. LocalsInv'
  BY <1>1, <1>2 DEF RetrievalInv, LocalsInv
<1>5. ScopeInv'
  BY <1>1, <1>2 DEF RetrievalInv, ScopeInv
<1>6. PublishedInv'
  <2>1. \A i \in Items : Stands(i, got[i])'
    BY <1>1 DEF RetrievalInv, PublishedInv, Stands
  <2>2. pc' = "batch2" => \A i \in Items : got'[i] = 0 /\ i \in ToSet(todo') => Unpublished(i)'
    BY <1>1, <1>3 DEF RetrievalInv, PublishedInv
  <2>3. pc' = "latest" => Unpublished(Head(todo))'
    <3>1. pc = "latest" => Head(todo) \in Items /\ Unpublished(Head(todo))
      BY NextTyped DEF RetrievalInv, LocalsInv, PublishedInv
    <3> QED BY <1>1, <3>1 DEF Unpublished
  <2>4. ~req'.unroll => \A k \in DOMAIN results' : Stands(results[k].item, results[k].rev)'
    <3>1. \A k \in DOMAIN results : results[k].item \in Items
      <4>1. \A k \in DOMAIN results : results[k] \in Entries
        BY ResultsKept
      <4> QED BY <4>1 DEF Entries
    <3>2. ~req.unroll => \A k \in DOMAIN results : Stands(results[k].item, results[k].rev)
      BY ResultsKept
    <3> QED BY <1>1, <3>1, <3>2 DEF Stands
  <2>5. ~req'.unroll => \A e \in Answers' : Stands(e.item, e.rev)'
    <3>1. \A e \in Answers : e.item \in Items
      BY DEF RetrievalInv, ScopeInv
    <3>2. ~req.unroll => \A e \in Answers : Stands(e.item, e.rev)
      BY DEF RetrievalInv, PublishedInv
    <3> QED BY <1>1, <1>2, <3>1, <3>2 DEF Stands
  <2>6. pc' # "idle" => \A i \in Items : pub'[i] \in seen'[i]
    OBVIOUS
  <2> QED BY <2>1, <2>2, <2>3, <2>4, <2>5, <2>6 DEF PublishedInv
<1>7. ProjectInv'
  BY <1>1 DEF RetrievalInv, ProjectInv, ProjectIsChecked
<1> QED BY <1>4, <1>5, <1>6, <1>7 DEF RetrievalInv

\* A write that publishes nothing.
LEMMA PlainWriteInv ==
    ASSUME RetrievalInv, Write, StoreInv', gone \subseteq gone', UNCHANGED <<pub, seen>>,
           \/ UNCHANGED <<project, existed>>
           \/ project' = TRUE /\ existed' = existed \cup {TRUE}
    PROVE  RetrievalInv'
<1>1. pc # "idle"
  BY DEF Write, Calling
<1>2. /\ seen \in [Items -> SUBSET Nat] /\ \A i \in Items : pub[i] \in seen[i]
      /\ project \in existed
  BY <1>1 DEF RetrievalInv, LocalsInv, PublishedInv, ProjectInv
<1> QED BY <1>2, WriteInv

LEMMA OthersInv ==
    ASSUME RetrievalInv, Others
    PROVE  RetrievalInv'
<1>1. CASE MakeProject
  <2>1. StoreInv'
    BY <1>1 DEF MakeProject, RetrievalInv, StoreInv
  <2> QED BY <1>1, <2>1, PlainWriteInv DEF MakeProject
<1>2. CASE Elapse
  BY <1>2, ElapseInv
<1>3. ASSUME NEW i \in Items, MakeItem(i)
      PROVE  RetrievalInv'
  <2>1. StoreInv'
    <3>1. /\ created' = [created EXCEPT ![i] = date] /\ date' = date + 1 /\ created[i] = 0
          /\ UNCHANGED <<project, revs, pub, gone>>
      BY <1>3 DEF MakeItem
    <3>2. created \in [Items -> Nat] /\ date \in Nat
      BY DEF RetrievalInv, StoreInv
    <3>3. /\ created' \in [Items -> Nat] /\ date' \in Nat
          /\ \A j \in Items : created'[j] = 0 => created[j] = 0
      BY <3>1, <3>2
    <3> QED BY <3>1, <3>3 DEF RetrievalInv, StoreInv
  <2> QED BY <1>3, <2>1, PlainWriteInv DEF MakeItem
<1>4. ASSUME NEW i \in Items, Delete(i)
      PROVE  RetrievalInv'
  <2>1. StoreInv' /\ gone \subseteq gone'
    BY <1>4 DEF Delete, RetrievalInv, StoreInv
  <2> QED BY <1>4, <2>1, PlainWriteInv DEF Delete
<1>5. ASSUME NEW i \in Items, NEW t \in Types, AddRevision(i, t)
      PROVE  RetrievalInv'
  <2> DEFINE r == [date |-> date, type |-> t]
  <2>1. /\ revs' = [revs EXCEPT ![i] = Append(@, r)] /\ created[i] # 0
        /\ UNCHANGED <<project, created, pub, gone>> /\ date' = date + 1
    BY <1>5 DEF AddRevision, Alive
  <2>2. r \in [date : Nat, type : Types]
    BY DEF RetrievalInv, StoreInv
  <2> HIDE DEF r
  <2>3. /\ revs' \in [Items -> Seq([date : Nat, type : Types])]
        /\ \A j \in Items : Len(revs[j]) <= Len(revs'[j]) /\ (j # i => revs'[j] = revs[j])
    <3>1. revs \in [Items -> Seq([date : Nat, type : Types])]
      BY DEF RetrievalInv, StoreInv
    <3> DEFINE R == [date : Nat, type : Types]
    <3>2. r \in R
      BY <2>2
    <3> HIDE DEF R
    <3>3. revs \in [Items -> Seq(R)]
      BY <3>1 DEF R
    <3>4. Append(revs[i], r) \in Seq(R) /\ Len(Append(revs[i], r)) = Len(revs[i]) + 1
      BY <3>2, <3>3
    <3>5. /\ revs' \in [Items -> Seq(R)]
          /\ \A j \in Items : revs'[j] = IF j = i THEN Append(revs[i], r) ELSE revs[j]
      BY <2>1, <3>3, <3>4
    <3>6. \A j \in Items : Len(revs[j]) <= Len(revs'[j]) /\ (j # i => revs'[j] = revs[j])
      BY <3>3, <3>4, <3>5
    <3> QED BY <3>5, <3>6 DEF R
  <2>4. StoreInv'
    <3>1. /\ revs \in [Items -> Seq([date : Nat, type : Types])] /\ pub \in [Items -> Nat]
          /\ \A j \in Items : pub[j] \in 0..Len(revs[j]) /\ (created[j] = 0 => revs[j] = <<>>)
      BY DEF RetrievalInv, StoreInv
    <3>2. \A j \in Items : Len(revs[j]) \in Nat /\ Len(revs'[j]) \in Nat
      BY <2>3, <3>1
    <3>3. \A j \in Items : pub'[j] \in 0..Len(revs'[j]) /\ (created'[j] = 0 => revs'[j] = <<>>)
      BY <2>1, <2>3, <3>1, <3>2
    <3>4. /\ project' \in BOOLEAN /\ created' \in [Items -> Nat] /\ pub' \in [Items -> Nat]
          /\ gone' \subseteq Items /\ date' \in Nat
      BY <2>1 DEF RetrievalInv, StoreInv
    <3> QED BY <2>3, <3>3, <3>4 DEF StoreInv
  <2> QED BY <1>5, <2>4, PlainWriteInv DEF AddRevision
<1>6. ASSUME NEW i \in Items, NEW n \in 1..MaxRevs, Publish(i, n)
      PROVE  RetrievalInv'
  <2>1. /\ n \in 1..Len(revs[i]) /\ pub' = [pub EXCEPT ![i] = n] /\ n \in Nat /\ n # 0
        /\ seen' = [seen EXCEPT ![i] = @ \cup {n}]
        /\ UNCHANGED <<project, created, revs, gone, date, existed>>
        /\ Write /\ pc # "idle"
    BY <1>6 DEF Publish, Latest, Write, Calling
  <2>2. StoreInv'
    <3>1. /\ pub \in [Items -> Nat]
          /\ \A j \in Items : pub[j] \in 0..Len(revs[j])
      BY DEF RetrievalInv, StoreInv
    <3>2. pub' \in [Items -> Nat] /\ \A j \in Items : pub'[j] = IF j = i THEN n ELSE pub[j]
      BY <2>1, <3>1
    <3>3. \A j \in Items : pub'[j] \in 0..Len(revs[j])
      BY <2>1, <3>1, <3>2
    <3> QED BY <2>1, <3>2, <3>3 DEF RetrievalInv, StoreInv
  <2>3. \A j \in Items : pub'[j] = (IF j = i THEN n ELSE pub[j]) /\ pub[j] \in seen[j]
    BY <2>1 DEF RetrievalInv, StoreInv, PublishedInv
  <2>4. /\ seen' \in [Items -> SUBSET Nat]
        /\ \A j \in Items : seen'[j] = IF j = i THEN seen[j] \cup {n} ELSE seen[j]
    BY <2>1 DEF RetrievalInv, LocalsInv
  <2>5. project' \in existed'
    BY <2>1 DEF RetrievalInv, ProjectInv
  <2> QED BY <2>1, <2>2, <2>3, <2>4, <2>5, WriteInv
<1> QED BY <1>1, <1>2, <1>3, <1>4, <1>5, <1>6 DEF Others

---------------------------------------------------------------------------
(* What a retrieval promises. *)

LEMMA RetrievalStarts ==
    ASSUME RetrievalInit
    PROVE  RetrievalInv
<1>1. StoreInv
  <2>1. PICK s \in Stores : project = s.project /\ created = s.created /\ revs = s.revs /\ pub = s.pub
    BY DEF RetrievalInit
  <2>2. /\ project \in BOOLEAN /\ created \in [Items -> Nat] /\ pub \in [Items -> Nat]
        /\ revs \in [Items -> Seq([date : Nat, type : Types])]
        /\ \A i \in Items : pub[i] \in 0..Len(revs[i]) /\ (created[i] = 0 => revs[i] = <<>>)
    <3>1. /\ s.project \in BOOLEAN
          /\ s.created \in [Items -> Nat] /\ s.pub \in [Items -> Nat]
          /\ s.revs \in [Items -> Seq([date : Nat, type : Types])]
          /\ \A i \in Items : s.pub[i] \in 0..Len(s.revs[i])
          /\ \A i \in Items : s.created[i] = 0 => s.revs[i] = <<>>
      BY StoresAssumption
    <3> QED BY <2>1, <3>1
  <2>3. gone = {} /\ date \in Nat
    BY RetrievalAssumption DEF RetrievalInit
  <2> QED BY <2>2, <2>3 DEF StoreInv
<1>2. Answers = {}
  BY DEF RetrievalInit, Answers, Pending, ToSet
<1>3. LocalsInv
  <2>1. /\ pc = "idle" /\ req \in Requests /\ backoff \in BOOLEAN /\ checked = FALSE
        /\ source = "hits" /\ rank = <<>> /\ hits = <<>> /\ todo = <<>> /\ ctx = <<>>
        /\ results = <<>> /\ answer = Pending
    BY DEF RetrievalInit
  <2>2. got \in [Items -> Nat] /\ seen \in [Items -> SUBSET Nat]
    BY DEF RetrievalInit, None
  <2>3. /\ rank \in Seq(Items) /\ hits \in Seq(Items) /\ todo \in Seq(Items)
        /\ ctx \in Seq(Contexts) /\ results \in Seq(Entries)
    BY <2>1
  <2>4. answer.status = "pending"
    BY <2>1 DEF Pending
  <2> QED BY <2>1, <2>2, <2>3, <2>4 DEF LocalsInv
<1>4. ScopeInv
  BY <1>2 DEF RetrievalInit, ScopeInv
<1>5. PublishedInv
  BY <1>2 DEF RetrievalInit, PublishedInv, Stands, None
<1>6. ProjectInv
  BY DEF RetrievalInit, ProjectInv, ProjectIsChecked, Pending
<1> QED BY <1>1, <1>3, <1>4, <1>5, <1>6 DEF RetrievalInv

LEMMA RetrievalStutters ==
    ASSUME RetrievalInv, UNCHANGED retrievalVars
    PROVE  RetrievalInv'
<1>1. /\ UNCHANGED <<rank, hits, source, todo, got, results, ctx, checked, answer, seen, existed, backoff>>
      /\ UNCHANGED <<project, created, revs, pub, gone, date, req, pc>>
  BY DEF retrievalVars, store, locals, history
<1>2. /\ Entries' = Entries /\ \A i : InScope(i)' = InScope(i)
      /\ \A i, n : Stands(i, n)' = Stands(i, n)
      /\ \A i : Unpublished(i)' = Unpublished(i) /\ Answers' = Answers
  BY <1>1, ScoresKept, ScopeKept DEF Stands, Unpublished, Answers
<1>3. StoreInv'
  BY <1>1 DEF RetrievalInv, StoreInv
<1>4. LocalsInv'
  BY <1>1, <1>2 DEF RetrievalInv, LocalsInv
<1>5. ScopeInv'
  BY <1>1, <1>2 DEF RetrievalInv, ScopeInv
<1>6. PublishedInv'
  BY <1>1, <1>2 DEF RetrievalInv, PublishedInv
<1>7. ProjectInv'
  BY <1>1 DEF RetrievalInv, ProjectInv, ProjectIsChecked
<1> QED BY <1>3, <1>4, <1>5, <1>6, <1>7 DEF RetrievalInv

LEMMA StepInv ==
    ASSUME RetrievalInv, Step
    PROVE  RetrievalInv'
BY GetProjectInv, SearchInv, CheckProjectInv, SearchFailsInv, EndSearchInv, BatchPublishedInv,
   BatchLatestInv, BatchFailsInv, TakeBatchInv, ReadPublishedInv, ReadLatestInv,
   ReadRevisionsInv, ReadFailsInv, EndItemsInv, VerifyProjectInv, BundleInv, FallbackInv,
   ListItemsInv, FinishInv DEF Step

\* What is on its way to the answer lies in scope and was published if it could be, and
\* past the look-up the project was there.
THEOREM RetrievalInvariant == RetrievalSpec => []RetrievalInv
<1>1. RetrievalInit => RetrievalInv
  BY RetrievalStarts
<1>2. RetrievalInv /\ [RetrievalNext]_retrievalVars => RetrievalInv'
  BY RetrieveInv, StepInv, OthersInv, RetrievalStutters DEF RetrievalNext
<1> QED BY <1>1, <1>2, PTL DEF RetrievalSpec

\* A retrieval answers only with memories of the spaces asked for: what the server filters
\* by the text of the path is filtered again, on every path to the answer.
THEOREM AnswersStayInScope == RetrievalSpec => []AnswersInScope
<1>1. RetrievalInv => AnswersInScope
  BY DEF RetrievalInv, ScopeInv, AnswersInScope
<1> QED BY <1>1, RetrievalInvariant, PTL

\* The latest revision is only taken of an item that was unpublished at some moment of
\* the call, also when a batch failed half way and its items are read once more.
THEOREM PublishedIsAnswered == RetrievalSpec => []PublishedWins
<1>1. RetrievalInv => PublishedWins
  BY DEF RetrievalInv, PublishedInv, PublishedWins, Stands
<1> QED BY <1>1, RetrievalInvariant, PTL

\* Nothing is answered before the project was found, though the first search of a packet
\* call runs ahead of it; and what is called missing was missing.
THEOREM ProjectStaysChecked == RetrievalSpec => []ProjectIsChecked
<1>1. RetrievalInv => ProjectIsChecked
  BY DEF RetrievalInv, ProjectInv
<1> QED BY <1>1, RetrievalInvariant, PTL

---------------------------------------------------------------------------
(* The inductive invariant of what an answer holds. *)

\* Writes have dates of their own, in their order.
DatesInv ==
    /\ \A i \in Items : /\ created[i] < date
                        /\ \A n \in DOMAIN revs[i] : revs[i][n].date < date
    /\ \A i, j \in Items : i # j =>
          /\ created[i] = created[j] => created[i] = 0
          /\ \A n \in DOMAIN revs[i], m \in DOMAIN revs[j] : revs[i][n].date # revs[j][m].date
    /\ \A i \in Items : \A n, m \in DOMAIN revs[i] :
          n # m => revs[i][n].date # revs[i][m].date

\* What a call holds in which phase.
PhaseInv ==
    /\ date # 0
    /\ pc # "done" => answer = Pending
    /\ pc \in {"idle", "project", "search", "shallow", "check", "verify"} =>
          pool = {} /\ results = <<>> /\ todo = <<>> /\ source = "hits"
    /\ pc \in {"bundle", "fallback", "list", "finish"} => todo = <<>>
    /\ pc \in {"bundle", "fallback"} => source # "list"
    /\ pc \in {"batch", "batch2", "take"} => source = "hits" /\ results = <<>>
    /\ pc = "revisions" => source = "hits"
    /\ req.mode = "first" =>
          /\ results = <<>> /\ source # "bundle"
          /\ pc \notin {"verify", "batch", "batch2", "take", "revisions", "bundle", "fallback"}
    /\ req.mode # "first" /\ pc = "list" /\ source # "list" => results = <<>> /\ ctx = req.contexts

\* Items are resolved after they were made, hits are ranked.
FoundInv ==
    /\ \A i \in ToSet(hits) : created[i] # 0
    /\ source # "bundle" => \A i \in ToSet(todo) : created[i] # 0
    /\ source = "hits" => ToSet(hits) \cup ToSet(todo) \subseteq ToSet(rank)

\* A result is a revision, with the score of what found it.
EntryInv ==
    /\ \A k \in DOMAIN results : results[k].rev \in 1..Latest(results[k].item)
    /\ \A i \in Items : got[i] <= Latest(i)
    /\ \A k \in DOMAIN results :
          /\ source = "list" => results[k].score = ListScore
          /\ source # "list" /\ results[k].score # BundleScore =>
                results[k].item \in ToSet(rank) /\ results[k].score = HitScore(results[k].item)
          /\ source = "hits" =>
                results[k].item \in ToSet(rank) /\ results[k].score = HitScore(results[k].item)

\* A sure candidate waits or has a result, after the hits by its own score.
CoverInv ==
    /\ gone \subseteq spoiled
    /\ \A i \in Items : Sure(i) =>
          /\ i \in ToSet(todo) \/ Has(results, i)
          /\ pc = "take" /\ i \in ToSet(todo) => got[i] # 0
          /\ source = "bundle" =>
                /\ i \notin ToSet(todo)
                /\ \A k \in DOMAIN results : results[k].item = i => results[k].score = HitScore(i)

\* Mode "first" goes by age, and so does the listing of one space, the youngest first.
SortedInv ==
    /\ req.mode = "first" => \A k, l \in DOMAIN todo : k < l => ~Older(todo[l], todo[k])
    /\ req.mode = "search" /\ source = "list" /\ Len(req.contexts) = 1 =>
          /\ ctx = <<>>
          /\ \A k, l \in DOMAIN todo : k < l => Younger(todo[k], todo[l])
          /\ \A k, l \in DOMAIN results : k < l => Younger(results[k].item, results[l].item)
          /\ \A k \in DOMAIN results : \A i \in ToSet(todo) : Younger(results[k].item, i)

CompleteInv == DatesInv /\ PhaseInv /\ FoundInv /\ EntryInv /\ CoverInv /\ SortedInv /\ NothingHidden

---------------------------------------------------------------------------
(* The first of an order. *)

\* An arrangement leaves nothing out.
LEMMA ArrangedOnto ==
    ASSUME NEW K, IsFiniteSet(K), NEW s \in SetToSeqs(K)
    PROVE  /\ Len(s) = Cardinality(K) /\ DOMAIN s = 1..Cardinality(K) /\ ToSet(s) = K
           /\ \A k, l \in DOMAIN s : k # l => s[k] # s[l]
<1> DEFINE C == Cardinality(K)
<1>1. C \in Nat
  BY FS_CardinalityType
<1>2. s \in [1..C -> K] /\ \A k, l \in 1..C : k # l => s[k] # s[l]
  BY DEF SetToSeqs
<1>3. s \in Injection(1..C, K)
  BY <1>2 DEF Injection, IsInjective
<1>4. Cardinality(1..C) = C
  BY <1>1, FS_Interval
<1>5. s \in Surjection(1..C, K)
  BY <1>3, <1>4, FS_Injection
<1>6. ToSet(s) = K
  BY <1>2, <1>5 DEF Surjection, ToSet
<1> QED BY <1>1, <1>2, <1>6

\* L[k] are those of K before k in a strict order: if n precede one of K then the first n are
\* n, and all precede it.
LEMMA FirstFull ==
    ASSUME NEW K, IsFiniteSet(K), NEW L \in [K -> SUBSET K], NEW n \in Nat, NEW a \in K,
           \A k \in K : k \notin L[k],
           \A k, l \in K : k # l => k \in L[l] \/ l \in L[k],
           \A k, l, m \in K : k \in L[l] /\ l \in L[m] => k \in L[m],
           n <= Cardinality(L[a]),
           NEW F \in SUBSET K, \A k \in K : k \in F <=> Cardinality(L[k]) < n
    PROVE  Cardinality(F) = n /\ F \subseteq L[a]
<1> DEFINE C == Cardinality(K)
           rk == [k \in K |-> Cardinality(L[k])]
<1>1. C \in Nat
  BY FS_CardinalityType
<1>2. /\ \A k \in K : IsFiniteSet(L[k]) /\ rk[k] = Cardinality(L[k]) /\ rk[k] \in Nat
      /\ rk \in [K -> Nat]
  BY FS_Subset, FS_CardinalityType
<1>7. F \subseteq K /\ (\A k \in K : k \in F <=> rk[k] < n) /\ n <= rk[a]
  OBVIOUS
<1> HIDE DEF rk
<1>3. ASSUME NEW k \in K, NEW l \in K, k \in L[l]
      PROVE  rk[k] < rk[l]
  <2>1. L[k] \in SUBSET L[l] /\ k \in L[l] /\ k \notin L[k]
    BY <1>3
  <2>2. Cardinality(L[k]) <= Cardinality(L[l]) /\ Cardinality(L[k]) # Cardinality(L[l])
    BY <1>2, <2>1, FS_Subset
  <2> QED BY <1>2, <2>2
<1>4. ASSUME NEW k \in K
      PROVE  rk[k] < C
  <2>1. L[k] \in SUBSET K /\ k \notin L[k]
    OBVIOUS
  <2>2. Cardinality(L[k]) <= C /\ Cardinality(L[k]) # C
    BY <2>1, FS_Subset
  <2>3. rk[k] <= C /\ rk[k] # C
    BY <1>2, <2>2
  <2> HIDE DEF C
  <2> QED BY <1>1, <1>2, <2>3
<1> HIDE DEF C
<1>5. rk \in Injection(K, 0..(C - 1))
  <2>1. rk \in [K -> 0..(C - 1)]
    BY <1>1, <1>2, <1>4
  <2>2. \A k, l \in K : rk[k] = rk[l] => k = l
    <3> SUFFICES ASSUME NEW k \in K, NEW l \in K, k # l  PROVE rk[k] # rk[l]
      OBVIOUS
    <3>1. rk[k] < rk[l] \/ rk[l] < rk[k]
      BY <1>3
    <3> QED BY <1>2, <3>1
  <2> QED BY <2>1, <2>2 DEF Injection, IsInjective
<1>6. rk \in Surjection(K, 0..(C - 1))
  <2>1. IsFiniteSet(0..(C - 1)) /\ Cardinality(0..(C - 1)) = C
    <3>1. C # 0
      BY <1>1, <1>2, <1>4
    <3> QED BY <1>1, <3>1, FS_Interval
  <2> QED BY <1>5, <2>1, FS_Injection DEF C
<1>10. \A k \in F : k \in K /\ rk[k] \in 0..(n - 1)
  BY <1>2, <1>7
<1>8. Cardinality(F) = n
  <2> DEFINE g == [k \in F |-> rk[k]]
  <2>1. g \in Injection(F, 0..(n - 1))
    <3>1. g \in [F -> 0..(n - 1)]
      BY <1>10
    <3>2. \A k, l \in F : g[k] = g[l] => k = l
      BY <1>5, <1>7 DEF Injection, IsInjective
    <3> QED BY <3>1, <3>2 DEF Injection, IsInjective
  <2>2. g \in Surjection(F, 0..(n - 1))
    <3>1. ASSUME NEW m \in 0..(n - 1)
          PROVE  \E k \in F : g[k] = m
      <4>1. m \in 0..(C - 1) /\ m < n
        BY <1>1, <1>2, <1>4, <1>7
      <4>2. PICK k \in K : rk[k] = m
        BY <1>6, <4>1 DEF Surjection
      <4>3. k \in F
        BY <1>7, <4>1, <4>2
      <4> QED BY <4>2, <4>3
    <3>2. g \in [F -> 0..(n - 1)]
      BY <1>10
    <3> QED BY <3>1, <3>2 DEF Surjection
  <2>3. IsFiniteSet(0..(n - 1)) /\ Cardinality(0..(n - 1)) = n
    <3>1. 0 \in Int /\ n - 1 \in Int
      OBVIOUS
    <3>2. Cardinality(0..(n - 1)) = IF 0 > n - 1 THEN 0 ELSE (n - 1) - 0 + 1
      BY <3>1, FS_Interval
    <3> QED BY <3>1, <3>2, FS_Interval
  <2> QED BY <2>1, <2>2, <2>3, FS_Injection
<1>9. ASSUME NEW k \in F
      PROVE  k \in L[a]
  <2>1. k \in K /\ rk[k] < rk[a]
    BY <1>2, <1>7
  <2>2. ~(rk[a] < rk[k]) /\ k # a
    BY <1>2, <2>1
  <2> QED BY <1>3, <2>1, <2>2
<1> QED BY <1>8, <1>9

---------------------------------------------------------------------------
(* What steps leave alone. *)

LEMMA HeadTail ==
    ASSUME NEW S, NEW s \in Seq(S), s # <<>>
    PROVE  /\ ToSet(s) = {Head(s)} \cup ToSet(Tail(s)) /\ Tail(s) \in Seq(S) /\ Head(s) \in S
           /\ \A k \in DOMAIN Tail(s) : k + 1 \in DOMAIN s /\ Tail(s)[k] = s[k + 1]
           /\ 1 \in DOMAIN s /\ s[1] = Head(s)
<1>1. /\ Tail(s) \in Seq(S) /\ Head(s) = s[1] /\ Len(s) \in Nat /\ Len(s) # 0
      /\ DOMAIN s = 1..Len(s) /\ DOMAIN Tail(s) = 1..(Len(s) - 1)
      /\ \A k \in 1..(Len(s) - 1) : Tail(s)[k] = s[k + 1]
  OBVIOUS
<1>2. \A k \in DOMAIN Tail(s) : k + 1 \in DOMAIN s /\ Tail(s)[k] = s[k + 1]
  BY <1>1
<1>3. \A k \in DOMAIN s : k = 1 \/ (k - 1 \in DOMAIN Tail(s) /\ Tail(s)[k - 1] = s[k])
  BY <1>1
<1>4. 1 \in DOMAIN s
  BY <1>1
<1>5. ToSet(s) = {Head(s)} \cup ToSet(Tail(s))
  <2>1. ASSUME NEW x \in ToSet(s)
        PROVE  x = Head(s) \/ x \in ToSet(Tail(s))
    <3>1. PICK k \in DOMAIN s : x = s[k]
      BY DEF ToSet
    <3> QED BY <1>1, <1>3, <3>1 DEF ToSet
  <2>2. ASSUME NEW x \in ToSet(Tail(s))
        PROVE  x \in ToSet(s)
    BY <1>2, <2>2 DEF ToSet
  <2>3. Head(s) \in ToSet(s)
    BY <1>1, <1>4 DEF ToSet
  <2> QED BY <2>1, <2>2, <2>3
<1> QED BY <1>1, <1>2, <1>4, <1>5

LEMMA InSet ==
    ASSUME NEW S, NEW s \in Seq(S)
    PROVE  ToSet(s) \subseteq S
BY DEF ToSet

LEMMA EmptySet ==
    ToSet(<<>>) = {}
BY DEF ToSet

\* The modes and contexts of a request.
LEMMA Wanted ==
    ASSUME RetrievalInv
    PROVE  /\ req.mode \in {"search", "latest", "first"}
           /\ req.contexts \in Seq(Contexts) /\ Len(req.contexts) \in Nat \ {0}
BY Asked

LEMMA SameScore ==
    ASSUME UNCHANGED rank
    PROVE  \A i : HitScore(i)' = HitScore(i)
BY DEF HitScore, Position

LEMMA SureStays ==
    ASSUME UNCHANGED <<revs, req, pool>>, spoiled \subseteq spoiled'
    PROVE  \A i : Sure(i)' => Sure(i)
BY DEF Sure, Matches, Latest

LEMMA DatesKept ==
    ASSUME DatesInv, UNCHANGED <<created, revs, date>>
    PROVE  DatesInv'
BY DEF DatesInv

LEMMA EntryKept ==
    ASSUME EntryInv, UNCHANGED <<revs, rank, results, got, source>>
    PROVE  EntryInv'
BY SameScore DEF EntryInv, Latest, BundleScore, ListScore

LEMMA CoverKept ==
    ASSUME CoverInv, UNCHANGED <<revs, gone, rank, req, pool, spoiled, results, source, got, todo>>,
           pc' # "take"
    PROVE  CoverInv'
<1>1. \A i : Sure(i)' => Sure(i)
  BY SureStays
<1>2. \A i : HitScore(i)' = HitScore(i) /\ Has(results, i)' = Has(results, i)
  BY SameScore DEF Has
<1> QED BY <1>1, <1>2 DEF CoverInv

LEMMA SortedKept ==
    ASSUME SortedInv, UNCHANGED <<created, req, source, todo, results>>,
           ctx' = ctx \/ source # "list"
    PROVE  SortedInv'
BY DEF SortedInv, Older, Younger

LEMMA FoundKept ==
    ASSUME FoundInv, UNCHANGED <<created, rank, source, todo>>, hits' = hits \/ hits' = <<>>
    PROVE  FoundInv'
BY EmptySet DEF FoundInv

LEMMA NoAnswer ==
    ASSUME answer'.status # "ok"
    PROVE  NothingHidden'
BY DEF NothingHidden

LEMMA NotYet ==
    ASSUME PhaseInv', pc' # "done"
    PROVE  NothingHidden'
BY NoAnswer DEF PhaseInv, Pending

\* A step that resolves nothing.
LEMMA StillComplete ==
    ASSUME CompleteInv, Frame, UNCHANGED <<rank, results, source, todo, got, pool, spoiled>>,
           hits' = hits \/ hits' = <<>>, ctx' = ctx \/ source # "list", pc' # "take",
           PhaseInv', NothingHidden'
    PROVE  CompleteInv'
<1>1. UNCHANGED <<created, revs, gone, date, req>>
  BY DEF Frame, store
<1> QED BY <1>1, DatesKept, EntryKept, CoverKept, SortedKept, FoundKept DEF CompleteInv

---------------------------------------------------------------------------
(* Nothing is hidden: the search. *)

LEMMA RetrieveComplete ==
    ASSUME RetrievalInv, CompleteInv, NEW r \in Requests, Retrieve(r)
    PROVE  CompleteInv'
<1>1. /\ UNCHANGED <<created, revs, gone, date>> /\ req' = r
      /\ pc' = IF r.packet THEN "search" ELSE "project"
      /\ hits' = <<>> /\ source' = "hits" /\ todo' = <<>> /\ got' = None /\ results' = <<>>
      /\ answer' = Pending /\ spoiled' = gone /\ pool' = {}
  BY DEF Retrieve, store
<1>2. DatesInv'
  BY <1>1, DatesKept DEF CompleteInv
<1>3. PhaseInv'
  BY <1>1 DEF CompleteInv, PhaseInv
<1>4. FoundInv'
  BY <1>1, EmptySet DEF FoundInv
<1>5. EntryInv'
  <2>1. \A i \in Items : got'[i] = 0 /\ Latest(i)' \in Nat
    BY <1>1 DEF RetrievalInv, StoreInv, None, Latest
  <2> QED BY <1>1, <2>1 DEF EntryInv
<1>6. CoverInv'
  BY <1>1 DEF CoverInv, Sure
<1>7. SortedInv'
  BY <1>1 DEF SortedInv
<1>8. NothingHidden'
  BY <1>1, NoAnswer DEF Pending
<1> QED BY <1>2, <1>3, <1>4, <1>5, <1>6, <1>7, <1>8 DEF CompleteInv

LEMMA FailComplete ==
    ASSUME CompleteInv, Frame, UNCHANGED history, NEW status \in {"missing", "raised"}, Fail(status)
    PROVE  CompleteInv'
<1>1. /\ UNCHANGED <<rank, hits, source, todo, got, results, ctx, pool, spoiled, date, req>>
      /\ pc' = "done" /\ answer'.status = status
  BY DEF Fail, locals, history, Error, Frame, store
<1>2. PhaseInv'
  BY <1>1 DEF CompleteInv, PhaseInv
<1> QED BY <1>1, <1>2, NoAnswer, StillComplete

LEMMA GetProjectComplete ==
    ASSUME RetrievalInv, CompleteInv, GetProject
    PROVE  CompleteInv'
<1>1. CASE /\ project /\ pc' = IF req.query THEN "search"
                               ELSE IF req.mode = "first" THEN "list" ELSE Rest
           /\ UNCHANGED <<backoff, locals, answer, history, failures>>
  <2>1. /\ UNCHANGED <<rank, hits, source, todo, got, results, ctx, answer, pool, spoiled, date, req>>
        /\ Frame /\ pc = "project" /\ Rest \in {"bundle", "fallback"}
    BY <1>1 DEF GetProject, locals, history, Frame, store, Rest
  <2>2. PhaseInv'
    BY <1>1, <2>1 DEF CompleteInv, PhaseInv
  <2> QED BY <1>1, <2>1, <2>2, NotYet, StillComplete
<1> QED BY <1>1, FailComplete DEF GetProject

\* The rows of a search are ranked and were made.
LEMMA RowsFound ==
    ASSUME RetrievalInv, NEW x, NEW rows \in Rows(x)
    PROVE  \A i \in ToSet(rows) : i \in ToSet(rank) /\ created[i] # 0
<1> DEFINE K == {k \in DOMAIN rank : rank[k] \in Prefixed[x] /\ Alive(rank[k])}
<1>1. PICK p \in SetToSeqs(K) : rows = [k \in DOMAIN p |-> rank[p[k]]]
  BY DEF Rows, RowsOf, Arranged
<1>2. \A k \in DOMAIN p : p[k] \in K
  BY ArrangedIn
<1>3. \A k \in K : rank[k] \in ToSet(rank) /\ created[rank[k]] # 0
  BY DEF ToSet, Alive
<1> QED BY <1>1, <1>2, <1>3 DEF ToSet

LEMMA SearchComplete ==
    ASSUME RetrievalInv, CompleteInv, Search
    PROVE  CompleteInv'
<1>1. /\ pc \in {"search", "shallow"} /\ Frame /\ pc' \in {"search", "shallow", "check"}
      /\ UNCHANGED <<rank, source, todo, results, answer, pool, spoiled>>
      /\ UNCHANGED <<created, revs, pub, gone, date, req>>
  BY DEF Search, history, Frame, store
<1>2. PICK rows \in Rows(Head(ctx)) \cup {<<>>}, carries \in BOOLEAN :
        /\ hits' = hits \o rows
        /\ got' = [i \in Items |-> IF carries /\ i \in Range(rows) THEN Best(i) ELSE got[i]]
  BY DEF Search
<1>3. pool' = {} /\ source' = "hits" /\ todo' = <<>> /\ results' = <<>>
  BY <1>1 DEF CompleteInv, PhaseInv
<1>4. DatesInv'
  BY <1>1, DatesKept DEF CompleteInv
<1>5. PhaseInv'
  BY <1>1, <1>3 DEF CompleteInv, PhaseInv
<1>6. FoundInv'
  <2>1. \A i \in ToSet(rows) : i \in ToSet(rank) /\ created[i] # 0
    BY <1>2, RowsFound, EmptySet
  <2>2. ToSet(hits') \subseteq ToSet(hits) \cup ToSet(rows)
    <3>1. hits \in Seq(Items) /\ rows \in Seq(Items)
      <4>1. rows \in Rows(Head(ctx)) => rows \in Seq(Items)
        BY RowsSeq
      <4>2. rows = <<>> => rows \in Seq(Items)
        OBVIOUS
      <4> QED BY <1>2, <4>1, <4>2 DEF RetrievalInv, LocalsInv
    <3>2. /\ DOMAIN hits' = 1..(Len(hits) + Len(rows)) /\ Len(hits) \in Nat /\ Len(rows) \in Nat
          /\ \A k \in 1..(Len(hits) + Len(rows)) :
                hits'[k] = IF k <= Len(hits) THEN hits[k] ELSE rows[k - Len(hits)]
      BY <1>2, <3>1
    <3>3. \A i \in ToSet(hits') : i \in ToSet(hits) \cup ToSet(rows)
      <4> SUFFICES ASSUME NEW k \in DOMAIN hits'
                   PROVE  hits'[k] \in ToSet(hits) \cup ToSet(rows)
        BY DEF ToSet
      <4>1. CASE k <= Len(hits)
        BY <3>1, <3>2, <4>1 DEF ToSet
      <4>2. CASE k > Len(hits)
        <5>1. k - Len(hits) \in DOMAIN rows
          BY <3>1, <3>2, <4>2
        <5> QED BY <3>2, <4>2, <5>1 DEF ToSet
      <4>3. k \in 1..(Len(hits) + Len(rows))
        BY <3>2
      <4>4. k <= Len(hits) \/ k > Len(hits)
        BY <3>2, <4>3
      <4> QED BY <4>1, <4>2, <4>4
    <3> QED BY <3>3
  <2> QED BY <1>1, <1>3, <2>1, <2>2, EmptySet DEF CompleteInv, FoundInv
<1>7. EntryInv'
  <2>1. \A i \in Items : Best(i) <= Latest(i) /\ got[i] <= Latest(i)
    BY DEF Best, Latest, RetrievalInv, StoreInv, CompleteInv, EntryInv
  <2>2. \A i \in Items : got'[i] <= Latest(i)'
    BY <1>1, <1>2, <2>1 DEF Latest
  <2> QED BY <1>3, <2>2 DEF EntryInv
<1>8. CoverInv'
  BY <1>1, <1>3 DEF CompleteInv, CoverInv, Sure
<1>9. SortedInv'
  BY <1>1, <1>3 DEF SortedInv
<1> QED BY <1>1, <1>4, <1>5, <1>6, <1>7, <1>8, <1>9, NotYet DEF CompleteInv

LEMMA SearchLostComplete ==
    ASSUME RetrievalInv, CompleteInv, Frame, pc \in {"search", "shallow", "check"}, SearchLost,
           UNCHANGED <<rank, source, todo, got, results, history>>
    PROVE  CompleteInv'
<1>1. /\ UNCHANGED <<rank, source, todo, got, results, pool, spoiled, answer, date, req, checked>>
      /\ hits' = <<>> /\ source = "hits" /\ Rest \in {"bundle", "fallback"}
      /\ ctx' = req.contexts
      /\ pc' = IF req.mode = "first" THEN "list" ELSE IF checked THEN Rest ELSE "verify"
  BY DEF SearchLost, history, Frame, store, Rest, CompleteInv, PhaseInv
<1>2. PhaseInv'
  BY <1>1 DEF CompleteInv, PhaseInv
<1> QED BY <1>1, <1>2, NotYet, StillComplete

LEMMA CheckProjectComplete ==
    ASSUME RetrievalInv, CompleteInv, CheckProject
    PROVE  CompleteInv'
<1>1. /\ Frame /\ pc = "check" /\ UNCHANGED <<rank, source, todo, got, results, history>>
      /\ UNCHANGED <<pool, spoiled, date, req>>
  BY DEF CheckProject, history, Frame, store
<1>2. CASE pc' = "search" /\ UNCHANGED <<hits, ctx, answer>>
  <2>1. PhaseInv'
    BY <1>1, <1>2 DEF CompleteInv, PhaseInv
  <2> QED BY <1>1, <1>2, <2>1, NotYet, StillComplete
<1>3. CASE pc' = "done" /\ answer' = Error("missing") /\ UNCHANGED <<hits, ctx>>
  <2>1. PhaseInv'
    BY <1>1, <1>3 DEF CompleteInv, PhaseInv
  <2> QED BY <1>1, <1>3, <2>1, NoAnswer, StillComplete DEF Error
<1>4. CASE SearchLost
  BY <1>1, <1>4, SearchLostComplete
<1> QED BY <1>2, <1>3, <1>4 DEF CheckProject

LEMMA SearchFailsComplete ==
    ASSUME RetrievalInv, CompleteInv, SearchFails
    PROVE  CompleteInv'
BY SearchLostComplete DEF SearchFails

\* What is taken from the hits is one of them.
LEMMA CandidatesFound ==
    ASSUME RetrievalInv, NEW f \in Candidates
    PROVE  ToSet(f) \subseteq ToSet(hits)
<1> DEFINE K == {k \in First(DOMAIN hits, PoolSize, Better) : InScope(hits[k])}
<1>1. PICK p \in SetToSeqs(K) : f = [k \in DOMAIN p |-> hits[p[k]]]
  BY DEF Candidates, Arranged
<1>2. \A k \in DOMAIN p : p[k] \in DOMAIN hits
  <2>1. K \subseteq DOMAIN hits
    BY DEF First
  <2> QED BY <2>1, ArrangedIn
<1> QED BY <1>1, <1>2 DEF ToSet

\* What goes by age goes all.
LEMMA OldestOnto ==
    ASSUME NEW S \in SUBSET Items, NEW s \in OldestItemsFirst(S)
    PROVE  ToSet(s) = S /\ \A k, l \in DOMAIN s : k < l => ~Older(s[l], s[k])
<1>1. s \in SetToSeqs(S) /\ \A k, l \in DOMAIN s : k < l => ~Older(s[l], s[k])
  BY DEF OldestItemsFirst, Arranged
<1>2. IsFiniteSet(S)
  BY FS_Subset, RetrievalAssumption
<1> QED BY <1>1, <1>2, ArrangedOnto

LEMMA EndSearchComplete ==
    ASSUME RetrievalInv, CompleteInv, EndSearch
    PROVE  CompleteInv'
<1>1. /\ pc \in {"search", "shallow"} /\ Frame /\ source' = "hits" /\ ctx' = req.contexts
      /\ UNCHANGED <<rank, hits, got, results, answer, spoiled>>
      /\ UNCHANGED <<created, revs, pub, gone, date, req>>
      /\ pool = {} /\ results = <<>> /\ todo = <<>> /\ source = "hits"
  BY DEF EndSearch, Frame, store, CompleteInv, PhaseInv
<1>2. CASE SearchAgain
  <2>1. pc' = "shallow" /\ todo' = <<>> /\ UNCHANGED pool
    BY <1>2 DEF SearchAgain
  <2>2. PhaseInv'
    BY <1>1, <2>1 DEF CompleteInv, PhaseInv
  <2> QED BY <1>1, <2>1, <2>2, NotYet, StillComplete
<1>3. CASE TakeHits
  <2>1. PICK found \in Candidates :
          /\ pool' = ToSet(found)
          /\ IF req.mode = "first" THEN todo' \in OldestItemsFirst(ToSet(found)) ELSE todo' = found
          /\ pc' = IF ~req.packet THEN NextItem("hits")
                   ELSE IF \A i \in ToSet(found) : got[i] # 0 THEN "take"
                   ELSE IF backoff THEN "published" ELSE "batch"
    BY <1>3 DEF TakeHits
  <2>2. ToSet(found) \in SUBSET Items /\ ToSet(found) \subseteq ToSet(hits)
    <3>1. found \in Seq(Items)
      BY CandidatesTyped
    <3> QED BY <3>1, InSet, CandidatesFound
  <2>3. ToSet(todo') = ToSet(found)
    BY <2>1, <2>2, OldestOnto
  <2>4. req.mode = "first" => ~req.packet
    BY Asked
  <2>5. /\ pc' \in {"take", "published", "batch", "revisions"}
        /\ pc' = "take" => \A i \in ToSet(found) : got[i] # 0
        /\ req.mode = "first" => pc' = "published"
    BY <2>1, <2>4 DEF NextItem
  <2>6. DatesInv'
    BY <1>1, DatesKept DEF CompleteInv
  <2>7. PhaseInv'
    BY <1>1, <2>5 DEF CompleteInv, PhaseInv
  <2>8. FoundInv'
    BY <1>1, <2>2, <2>3 DEF CompleteInv, FoundInv
  <2>9. EntryInv'
    BY <1>1, EntryKept DEF CompleteInv
  <2>10. CoverInv'
    BY <1>1, <2>1, <2>3, <2>5 DEF CompleteInv, CoverInv, Sure
  <2>11. SortedInv'
    BY <1>1, <2>1, <2>2, OldestOnto DEF SortedInv, Older
  <2> QED BY <2>5, <2>6, <2>7, <2>8, <2>9, <2>10, <2>11, NotYet DEF CompleteInv
<1> QED BY <1>2, <1>3 DEF EndSearch

---------------------------------------------------------------------------
(* Nothing is hidden: resolution. *)

LEMMA SureStands ==
    ASSUME RetrievalInv, CompleteInv, NEW i \in Items, Sure(i)
    PROVE  /\ Alive(i) /\ Latest(i) \in Nat \ {0} /\ i \notin spoiled
           /\ \A n \in 1..Latest(i) : Matches(i, n)
<1>1. i \notin gone /\ revs[i] # <<>>
  BY DEF CompleteInv, CoverInv, Sure
<1>2. created[i] # 0 /\ Len(revs[i]) \in Nat \ {0}
  BY <1>1 DEF RetrievalInv, StoreInv
<1> QED BY <1>1, <1>2 DEF Sure, Alive, Latest

LEMMA BatchComplete ==
    ASSUME RetrievalInv, CompleteInv, pc \in {"batch", "batch2"}, Frame,
           NEW n \in [Items -> Nat], BatchRead(n), \A i \in Items : n[i] <= Latest(i),
           pc' \in {"batch2", "take"}, pc' = "take" => \A i \in Items : n[i] = Latest(i),
           UNCHANGED <<rank, hits, source, todo, results, ctx, checked, answer, history, backoff>>
    PROVE  CompleteInv'
<1>1. /\ UNCHANGED <<rank, hits, source, todo, results, ctx, answer, pool, spoiled>>
      /\ UNCHANGED <<created, revs, pub, gone, date, req>>
      /\ got' = [i \in Items |-> IF i \in Unresolved /\ Alive(i) THEN n[i] ELSE got[i]]
  BY DEF history, Frame, store, BatchRead
<1>2. DatesInv' /\ FoundInv' /\ SortedInv'
  BY <1>1, DatesKept, FoundKept, SortedKept DEF CompleteInv
<1>3. PhaseInv'
  BY <1>1 DEF CompleteInv, PhaseInv
<1>4. EntryInv'
  <2>1. \A i \in Items : got'[i] <= Latest(i)'
    BY <1>1 DEF CompleteInv, EntryInv, Latest
  <2>2. \A i : HitScore(i)' = HitScore(i) /\ Latest(i)' = Latest(i)
    BY <1>1, SameScore DEF Latest
  <2> QED BY <1>1, <2>1, <2>2 DEF CompleteInv, EntryInv, BundleScore, ListScore
<1>5. CoverInv'
  <2>1. \A i : Sure(i)' => Sure(i)
    BY <1>1, SureStays
  <2>2. \A i : HitScore(i)' = HitScore(i) /\ Has(results, i)' = Has(results, i)
    BY <1>1, SameScore DEF Has
  <2>3. ASSUME NEW i \in Items, Sure(i), pc' = "take", i \in ToSet(todo)
        PROVE  got'[i] # 0
    <3>1. Alive(i) /\ n[i] # 0
      BY <2>3, SureStands
    <3> QED BY <1>1, <2>3, <3>1 DEF Unresolved
  <2> QED BY <1>1, <2>1, <2>2, <2>3 DEF CompleteInv, CoverInv
<1> QED BY <1>2, <1>3, <1>4, <1>5, NotYet DEF CompleteInv

LEMMA BatchPublishedComplete ==
    ASSUME RetrievalInv, CompleteInv, BatchPublished
    PROVE  CompleteInv'
<1>1. pub \in [Items -> Nat] /\ \A i \in Items : pub[i] <= Latest(i)
  BY DEF RetrievalInv, StoreInv, Latest
<1> QED BY <1>1, BatchComplete DEF BatchPublished

LEMMA BatchLatestComplete ==
    ASSUME RetrievalInv, CompleteInv, BatchLatest
    PROVE  CompleteInv'
<1> DEFINE n == [i \in Items |-> Latest(i)]
<1>1. n \in [Items -> Nat] /\ \A i \in Items : n[i] <= Latest(i) /\ n[i] = Latest(i)
  BY DEF RetrievalInv, StoreInv, Latest
<1>2. BatchRead(n) /\ pc' = "take"
  BY DEF BatchLatest, LatestOfMissing
<1> HIDE DEF n
<1> QED BY <1>1, <1>2, BatchComplete DEF BatchLatest

LEMMA BatchFailsComplete ==
    ASSUME RetrievalInv, CompleteInv, BatchFails
    PROVE  CompleteInv'
<1>1. /\ UNCHANGED <<rank, hits, source, todo, results, ctx, answer, pool, spoiled>>
      /\ UNCHANGED <<created, revs, pub, gone, date, req>>
      /\ got' = None /\ pc' = "published" /\ pc \in {"batch", "batch2"}
  BY DEF BatchFails, history, Frame, store
<1>2. DatesInv' /\ FoundInv' /\ SortedInv' /\ CoverInv'
  BY <1>1, DatesKept, FoundKept, SortedKept, SureStays, SameScore
     DEF CompleteInv, CoverInv, Has
<1>3. PhaseInv'
  BY <1>1 DEF CompleteInv, PhaseInv
<1>4. EntryInv'
  <2>1. \A i \in Items : got'[i] <= Latest(i)'
    BY <1>1 DEF RetrievalInv, StoreInv, None, Latest
  <2>2. \A i : HitScore(i)' = HitScore(i) /\ Latest(i)' = Latest(i)
    BY <1>1, SameScore DEF Latest
  <2> QED BY <1>1, <2>1, <2>2 DEF CompleteInv, EntryInv, BundleScore, ListScore
<1> QED BY <1>1, <1>2, <1>3, <1>4, NotYet DEF CompleteInv

LEMMA TakeBatchComplete ==
    ASSUME RetrievalInv, CompleteInv, TakeBatch
    PROVE  CompleteInv'
<1> DEFINE K == {k \in DOMAIN todo : got[todo[k]] # 0 /\ Matches(todo[k], got[todo[k]])}
<1>1. /\ UNCHANGED <<rank, hits, source, got, ctx, answer, pool, spoiled>>
      /\ UNCHANGED <<created, revs, pub, gone, date, req>>
      /\ pc = "take" /\ todo' = <<>> /\ pc' = "published"
  BY DEF TakeBatch, history, Frame, store
<1>2. source = "hits" /\ req.mode # "first" /\ results = <<>>
  BY <1>1 DEF CompleteInv, PhaseInv
<1>3. todo \in Seq(Items) /\ got \in [Items -> Nat] /\ ToSet(todo) \subseteq ToSet(rank)
  BY <1>2 DEF RetrievalInv, LocalsInv, CompleteInv, FoundInv
<1>4. PICK found \in RowsOf(todo, LAMBDA i : got[i] # 0 /\ Matches(i, got[i])) :
        results' = [k \in DOMAIN found |-> Entry(found[k], got[found[k]], HitScore(found[k]))]
  BY DEF TakeBatch
<1>5. PICK p \in SetToSeqs(K) : found = [k \in DOMAIN p |-> todo[p[k]]]
  BY <1>4 DEF RowsOf, Arranged
<1>6. IsFiniteSet(K) /\ ToSet(p) = K
  <2>1. IsFiniteSet(DOMAIN todo)
    <3>1. DOMAIN todo = 1..Len(todo) /\ Len(todo) \in Int
      BY <1>3
    <3>2. IsFiniteSet(1..Len(todo))
      BY <3>1, FS_Interval
    <3> QED BY <3>1, <3>2
  <2>2. K \in SUBSET DOMAIN todo
    OBVIOUS
  <2>3. IsFiniteSet(K)
    BY <2>1, <2>2, FS_Subset
  <2> HIDE DEF K
  <2> QED BY <1>5, <2>3, ArrangedOnto
<1>7. \A k \in DOMAIN results' :
        LET i == todo[p[k]] IN
        /\ i \in Items /\ i \in ToSet(rank) /\ got[i] # 0 /\ results'[k] = Entry(i, got[i], HitScore(i))
  <2>1. \A k \in DOMAIN p : p[k] \in K
    BY <1>6 DEF ToSet
  <2>2. \A k \in K : todo[k] \in Items /\ todo[k] \in ToSet(rank) /\ got[todo[k]] # 0
    <3>1. \A k \in DOMAIN todo : todo[k] \in ToSet(todo) /\ todo[k] \in Items
      BY <1>3 DEF ToSet
    <3> QED BY <1>3, <3>1
  <2> QED BY <1>4, <1>5, <2>1, <2>2
<1>8. \A k \in K : Has(results', todo[k])
  <2> SUFFICES ASSUME NEW k \in K
               PROVE  Has(results', todo[k])
    OBVIOUS
  <2>1. PICK l \in DOMAIN p : p[l] = k
    BY <1>6 DEF ToSet
  <2>2. l \in DOMAIN results' /\ results'[l].item = todo[k]
    BY <1>4, <1>5, <2>1 DEF Entry
  <2> QED BY <2>2 DEF Has
<1>9. DatesInv' /\ FoundInv'
  BY <1>1, EmptySet, DatesKept DEF CompleteInv, FoundInv
<1>10. PhaseInv'
  BY <1>1, <1>2 DEF CompleteInv, PhaseInv
<1>11. EntryInv'
  <2>1. \A i : HitScore(i)' = HitScore(i) /\ Latest(i)' = Latest(i)
    BY <1>1, SameScore DEF Latest
  <2>2. \A i \in Items : got[i] \in Nat /\ got[i] <= Latest(i) /\ Latest(i) \in Nat
    BY DEF RetrievalInv, LocalsInv, StoreInv, CompleteInv, EntryInv, Latest
  <2>3. \A k \in DOMAIN results' :
          /\ results'[k].rev \in 1..Latest(results'[k].item)
          /\ results'[k].item \in ToSet(rank) /\ results'[k].score = HitScore(results'[k].item)
    BY <1>7, <2>2 DEF Entry
  <2> QED BY <1>1, <1>2, <2>1, <2>2, <2>3 DEF EntryInv
<1>12. CoverInv'
  <2>1. ASSUME NEW i \in Items, Sure(i)
        PROVE  Has(results', i)
    <3>1. i \in ToSet(todo) /\ got[i] # 0
      BY <1>1, <1>2, <2>1 DEF CompleteInv, CoverInv, Has
    <3>2. PICK k \in DOMAIN todo : todo[k] = i
      BY <3>1 DEF ToSet
    <3>3. got[i] \in 1..Latest(i)
      BY <1>3, <3>1 DEF CompleteInv, EntryInv, RetrievalInv, StoreInv, Latest
    <3>4. Matches(i, got[i])
      BY <2>1, <3>3, SureStands
    <3> QED BY <1>8, <3>1, <3>2, <3>4
  <2>2. \A i : Sure(i)' => Sure(i)
    BY <1>1, SureStays
  <2> QED BY <1>1, <1>2, <2>1, <2>2 DEF CompleteInv, CoverInv, Has
<1>13. SortedInv'
  BY <1>1, <1>2 DEF SortedInv
<1> QED BY <1>1, <1>9, <1>10, <1>11, <1>12, <1>13, NotYet DEF CompleteInv

\* Item i is added with revision n, behind the results there are.
LEMMA AddRows ==
    ASSUME RetrievalInv, NEW i \in Items, NEW n \in Nat
    PROVE  /\ n # 0 /\ Matches(i, n) => Has(Add(i, n), i)
           /\ DOMAIN results \subseteq DOMAIN Add(i, n)
           /\ \A k \in DOMAIN results : Add(i, n)[k] = results[k]
           /\ \A k \in DOMAIN Add(i, n) \ DOMAIN results :
                 /\ k = Len(results) + 1 /\ n # 0
                 /\ Add(i, n)[k].item = i /\ Add(i, n)[k].rev = n
                 /\ source = "hits" => Add(i, n)[k].score = HitScore(i)
                 /\ source = "bundle" => Add(i, n)[k].score = BundleScore
                 /\ source = "list" => Add(i, n)[k].score = ListScore
<1> DEFINE score == CASE source = "hits" -> HitScore(i) [] source = "bundle" -> BundleScore
                     [] OTHER -> ListScore
           e == Entry(i, n, score)
<1>1. Add(i, n) = IF n # 0 /\ Matches(i, n) THEN results \o <<e>> ELSE results
  BY DEF Add
<1>2. e.item = i /\ e.rev = n /\ e.score = score
  BY DEF Entry
<1>3. /\ source = "hits" => score = HitScore(i)
      /\ source = "bundle" => score = BundleScore
      /\ source = "list" => score = ListScore
  OBVIOUS
<1> HIDE DEF e, score
<1>4. results \in Seq(Entries)
  BY ResultsKept
<1>5. CASE n # 0 /\ Matches(i, n)
  <2>1. /\ Add(i, n) = results \o <<e>> /\ Len(results) \in Nat
        /\ DOMAIN results = 1..Len(results) /\ DOMAIN Add(i, n) = 1..(Len(results) + 1)
        /\ \A k \in 1..(Len(results) + 1) :
              Add(i, n)[k] = IF k <= Len(results) THEN results[k] ELSE e
    BY <1>1, <1>4, <1>5
  <2>2. Len(results) + 1 \in DOMAIN Add(i, n) /\ Add(i, n)[Len(results) + 1] = e
    BY <2>1
  <2>3. Has(Add(i, n), i)
    BY <1>2, <2>2 DEF Has
  <2>4. DOMAIN results \subseteq DOMAIN Add(i, n) /\ \A k \in DOMAIN results : Add(i, n)[k] = results[k]
    BY <2>1
  <2>5. \A k \in DOMAIN Add(i, n) \ DOMAIN results : k = Len(results) + 1 /\ Add(i, n)[k] = e
    BY <2>1
  <2> QED BY <1>2, <1>3, <1>5, <2>3, <2>4, <2>5
<1>6. CASE ~(n # 0 /\ Matches(i, n))
  BY <1>1, <1>6
<1> QED BY <1>5, <1>6

\* The head of the items is resolved: what was sure of it is in the results.
LEMMA MoveOn ==
    ASSUME RetrievalInv, CompleteInv, Frame, pc \in {"published", "latest", "revisions"},
           todo # <<>>, pc' = NextItem(source), req.mode = "first" => results' = results,
           UNCHANGED <<rank, hits, source, got, ctx, answer, pool, spoiled>>,
           todo' = Tail(todo), EntryInv', SortedInv',
           \A i \in Items : Has(results, i) => Has(results', i),
           Sure(Head(todo)) => Has(results', Head(todo)),
           source = "bundle" => \A k \in DOMAIN results' :
              \/ k \in DOMAIN results /\ results'[k] = results[k]
              \/ results'[k].item = Head(todo)
    PROVE  CompleteInv'
<1>1. UNCHANGED <<created, revs, pub, gone, date, req>>
  BY DEF Frame, store
<1>2. ToSet(todo) = {Head(todo)} \cup ToSet(todo') /\ Head(todo) \in Items
  BY HeadTail DEF RetrievalInv, LocalsInv
<1>3. DatesInv'
  BY <1>1, DatesKept DEF CompleteInv
<1>4. PhaseInv'
  <2>1. /\ pc' \in {"published", "revisions"}
        /\ pc' = "revisions" => source = "hits" /\ req.mode # "first"
    BY DEF NextItem
  <2> QED BY <1>1, <2>1 DEF CompleteInv, PhaseInv
<1>5. FoundInv'
  BY <1>1, <1>2 DEF CompleteInv, FoundInv
<1>6. CoverInv'
  <2>1. \A i : (Sure(i)' => Sure(i)) /\ HitScore(i)' = HitScore(i)
    BY <1>1, SureStays, SameScore
  <2>2. pc' # "take"
    BY DEF NextItem
  <2>3. ASSUME NEW i \in Items, Sure(i)
        PROVE  /\ i \in ToSet(todo') \/ Has(results', i)
               /\ source = "bundle" =>
                    /\ i \notin ToSet(todo')
                    /\ \A k \in DOMAIN results' : results'[k].item = i => results'[k].score = HitScore(i)
    BY <1>2, <2>3 DEF CompleteInv, CoverInv
  <2>4. gone' \subseteq spoiled'
    BY <1>1 DEF CompleteInv, CoverInv
  <2> QED BY <1>1, <2>1, <2>2, <2>3, <2>4 DEF CoverInv, Has
<1>7. pc' # "done"
  BY DEF NextItem
<1> QED BY <1>3, <1>4, <1>5, <1>6, <1>7, NotYet DEF CompleteInv

\* One revision at most is added for the head of the items.
LEMMA AddComplete ==
    ASSUME RetrievalInv, CompleteInv, Frame, pc \in {"published", "latest"},
           todo # <<>>, pc' = NextItem(source), req.mode # "first",
           UNCHANGED <<rank, hits, source, got, ctx, answer, pool, spoiled>>,
           todo' = Tail(todo), NEW n \in 0..Latest(Head(todo)), results' = Add(Head(todo), n),
           Sure(Head(todo)) => n # 0
    PROVE  CompleteInv'
<1> DEFINE i == Head(todo)
<1>1. /\ UNCHANGED <<created, revs, pub, gone, date, req>>
      /\ i \in Items /\ ToSet(todo) = {i} \cup ToSet(todo') /\ 1 \in DOMAIN todo /\ todo[1] = i
      /\ \A k \in DOMAIN todo' : k \in Nat \ {0} /\ k + 1 \in DOMAIN todo /\ todo'[k] = todo[k + 1]
  <2>1. todo \in Seq(Items) /\ UNCHANGED <<created, revs, pub, gone, date, req>>
    BY DEF Frame, store, RetrievalInv, LocalsInv
  <2>2. /\ i \in Items /\ ToSet(todo) = {i} \cup ToSet(todo') /\ 1 \in DOMAIN todo /\ todo[1] = i
        /\ \A k \in DOMAIN todo' : k + 1 \in DOMAIN todo /\ todo'[k] = todo[k + 1]
    BY <2>1, HeadTail
  <2>3. \A k \in DOMAIN todo' : k \in Nat \ {0}
    <3>1. todo' \in Seq(Items)
      BY <2>1
    <3> QED BY <3>1
  <2> QED BY <2>1, <2>2, <2>3
<1>2. n \in Nat /\ Latest(i) \in Nat /\ (n # 0 => n \in 1..Latest(i))
  <2>1. Latest(i) \in Nat
    BY <1>1 DEF RetrievalInv, StoreInv, Latest
  <2> QED BY <2>1
<1> HIDE DEF i
<1>3. /\ n # 0 /\ Matches(i, n) => Has(results', i)
      /\ DOMAIN results \subseteq DOMAIN results'
      /\ \A k \in DOMAIN results : results'[k] = results[k]
      /\ \A k \in DOMAIN results' \ DOMAIN results :
            /\ k = Len(results) + 1 /\ n # 0
            /\ results'[k].item = i /\ results'[k].rev = n
            /\ source = "hits" => results'[k].score = HitScore(i)
            /\ source = "bundle" => results'[k].score = BundleScore
            /\ source = "list" => results'[k].score = ListScore
  BY <1>1, <1>2, AddRows DEF i
<1>4. /\ DOMAIN results = 1..Len(results) /\ Len(results) \in Nat
      /\ \A k \in DOMAIN results' : k \in Nat \ {0}
  <2>1. results \in Seq(Entries)
    BY ResultsKept
  <2>2. DOMAIN results = 1..Len(results) /\ Len(results) \in Nat
    BY <2>1
  <2>3. \A k \in DOMAIN results' : k \in DOMAIN results \/ k = Len(results) + 1
    BY <1>3
  <2> QED BY <2>2, <2>3
<1>5. EntryInv'
  <2>1. \A j : HitScore(j)' = HitScore(j) /\ Latest(j)' = Latest(j)
    BY <1>1, SameScore DEF Latest
  <2>2. source = "hits" => i \in ToSet(rank)
    BY <1>1 DEF CompleteInv, FoundInv
  <2>3. source \in {"hits", "bundle", "list"}
    BY DEF RetrievalInv, LocalsInv
  <2>4. ASSUME NEW k \in DOMAIN results'
        PROVE  /\ results'[k].rev \in 1..Latest(results'[k].item)
               /\ source = "list" => results'[k].score = ListScore
               /\ source # "list" /\ results'[k].score # BundleScore =>
                     /\ results'[k].item \in ToSet(rank)
                     /\ results'[k].score = HitScore(results'[k].item)
               /\ source = "hits" =>
                     /\ results'[k].item \in ToSet(rank)
                     /\ results'[k].score = HitScore(results'[k].item)
    <3>1. CASE k \in DOMAIN results
      BY <1>3, <3>1 DEF CompleteInv, EntryInv
    <3>2. CASE k \notin DOMAIN results
      BY <1>2, <1>3, <2>2, <2>3, <3>2
    <3> QED BY <3>1, <3>2
  <2>5. \A j \in Items : got'[j] <= Latest(j)'
    BY <2>1 DEF CompleteInv, EntryInv
  <2> QED BY <2>1, <2>4, <2>5 DEF EntryInv, BundleScore, ListScore
<1>6. SortedInv'
  <2>1. \A a, b : Younger(a, b)' = Younger(a, b)
    BY <1>1 DEF Younger
  <2> SUFFICES ASSUME req.mode = "search", source = "list", Len(req.contexts) = 1
               PROVE  /\ ctx' = <<>>
                      /\ \A k, l \in DOMAIN todo' : k < l => Younger(todo'[k], todo'[l])
                      /\ \A k, l \in DOMAIN results' :
                            k < l => Younger(results'[k].item, results'[l].item)
                      /\ \A k \in DOMAIN results' : \A j \in ToSet(todo') : Younger(results'[k].item, j)
    BY <1>1, <2>1 DEF SortedInv
  <2>2. /\ ctx = <<>>
        /\ \A k, l \in DOMAIN todo : k < l => Younger(todo[k], todo[l])
        /\ \A k, l \in DOMAIN results : k < l => Younger(results[k].item, results[l].item)
        /\ \A k \in DOMAIN results : \A j \in ToSet(todo) : Younger(results[k].item, j)
    BY DEF CompleteInv, SortedInv
  <2>3. \A k, l \in DOMAIN todo' : k < l => Younger(todo'[k], todo'[l])
    BY <1>1, <2>2
  <2>4. \A j \in ToSet(todo') : Younger(i, j)
    <3> SUFFICES ASSUME NEW k \in DOMAIN todo'
                 PROVE  Younger(i, todo'[k])
      BY DEF ToSet
    <3>1. 1 < k + 1 /\ k + 1 \in DOMAIN todo /\ todo'[k] = todo[k + 1]
      BY <1>1
    <3> QED BY <1>1, <2>2, <3>1
  <2>5. ASSUME NEW k \in DOMAIN results', NEW l \in DOMAIN results', k < l
        PROVE  Younger(results'[k].item, results'[l].item)
    <3>1. k \in DOMAIN results
      BY <1>3, <1>4, <2>5
    <3>2. CASE l \in DOMAIN results
      BY <1>3, <2>2, <2>5, <3>1, <3>2
    <3>3. CASE l \notin DOMAIN results
      BY <1>1, <1>3, <2>2, <3>1, <3>3
    <3> QED BY <3>2, <3>3
  <2>6. ASSUME NEW k \in DOMAIN results', NEW j \in ToSet(todo')
        PROVE  Younger(results'[k].item, j)
    <3>1. CASE k \in DOMAIN results
      BY <1>1, <1>3, <2>2, <3>1
    <3>2. CASE k \notin DOMAIN results
      BY <1>3, <2>4, <3>2
    <3> QED BY <3>1, <3>2
  <2> QED BY <2>2, <2>3, <2>5, <2>6
<1>7. \A j \in Items : Has(results, j) => Has(results', j)
  BY <1>3 DEF Has
<1>8. Sure(i) => Has(results', i)
  <2> SUFFICES ASSUME Sure(i)
               PROVE  Has(results', i)
    OBVIOUS
  <2>1. n # 0 /\ Matches(i, n)
    BY <1>1, <1>2, SureStands DEF i
  <2> QED BY <1>3, <2>1
<1>9. \A k \in DOMAIN results' : \/ k \in DOMAIN results /\ results'[k] = results[k]
                                 \/ results'[k].item = i
  BY <1>3
<1> QED BY <1>5, <1>6, <1>7, <1>8, <1>9, MoveOn DEF i

LEMMA TailSorted ==
    ASSUME SortedInv, todo \in Seq(Items), todo # <<>>, todo' = Tail(todo),
           UNCHANGED <<created, req, source, results, ctx>>
    PROVE  SortedInv'
<1>1. /\ \A k \in DOMAIN todo' : k + 1 \in DOMAIN todo /\ todo'[k] = todo[k + 1]
      /\ ToSet(todo') \subseteq ToSet(todo)
  BY HeadTail
<1>2. \A k, l \in DOMAIN todo' : k < l => k + 1 < l + 1
  <2>1. todo' \in Seq(Items)
    OBVIOUS
  <2> QED BY <2>1
<1>3. \A a, b : Younger(a, b)' = Younger(a, b) /\ Older(a, b)' = Older(a, b)
  BY DEF Younger, Older
<1>4. req.mode = "first" => \A k, l \in DOMAIN todo' : k < l => ~Older(todo'[l], todo'[k])
  BY <1>1, <1>2 DEF SortedInv
<1>5. req.mode = "search" /\ source = "list" /\ Len(req.contexts) = 1 =>
         /\ \A k, l \in DOMAIN todo' : k < l => Younger(todo'[k], todo'[l])
         /\ \A k \in DOMAIN results : \A i \in ToSet(todo') : Younger(results[k].item, i)
  BY <1>1, <1>2 DEF SortedInv
<1> QED BY <1>3, <1>4, <1>5 DEF SortedInv

\* What is left of the items is dropped, and nothing sure is among them.
LEMMA ClearedComplete ==
    ASSUME RetrievalInv, CompleteInv, Frame, UNCHANGED <<rank, results, source, got, pool>>,
           spoiled \subseteq spoiled', todo' = <<>>, todo = <<>> \/ source = "bundle",
           hits' = hits \/ hits' = <<>>, ctx' = ctx \/ source # "list",
           pc' \notin {"take", "done"}, PhaseInv'
    PROVE  CompleteInv'
<1>1. UNCHANGED <<created, revs, gone, date, req>>
  BY DEF Frame, store
<1>2. DatesInv' /\ EntryInv'
  BY <1>1, DatesKept, EntryKept DEF CompleteInv
<1>3. FoundInv'
  BY <1>1, EmptySet DEF CompleteInv, FoundInv
<1>4. SortedInv'
  BY <1>1, EmptySet DEF CompleteInv, SortedInv, Younger, Older
<1>5. CoverInv'
  <2>1. \A i : (Sure(i)' => Sure(i)) /\ HitScore(i)' = HitScore(i)
    BY <1>1, SureStays, SameScore
  <2>2. \A i \in Items : Sure(i) => Has(results, i)
    BY EmptySet DEF CompleteInv, CoverInv
  <2> QED BY <1>1, <2>1, <2>2, EmptySet DEF CompleteInv, CoverInv, Has
<1> QED BY <1>2, <1>3, <1>4, <1>5, NotYet DEF CompleteInv

\* In mode "first" the head of the items is older than all that are sure.
LEMMA FirstComplete ==
    ASSUME RetrievalInv, CompleteInv, Frame, req.mode = "first", todo # <<>>, NEW n,
           answer' = [status |-> "ok", found |-> <<Entry(Head(todo), n, ListScore)>>], pc' = "done",
           UNCHANGED <<rank, hits, source, todo, results, got, ctx, pool, spoiled>>
    PROVE  CompleteInv'
<1> DEFINE i == Head(todo)
           e == Entry(i, n, ListScore)
<1>1. /\ UNCHANGED <<created, revs, pub, gone, date, req>> /\ todo \in Seq(Items)
      /\ results = <<>>
  BY DEF Frame, store, RetrievalInv, LocalsInv, CompleteInv, PhaseInv
<1>2. i \in Items /\ 1 \in DOMAIN todo /\ todo[1] = i /\ e.item = i
  BY <1>1, HeadTail DEF Entry
<1>3. PhaseInv'
  BY <1>1 DEF CompleteInv, PhaseInv
<1> HIDE DEF e, i
<1>4. Answers' = {e} /\ Len(answer'.found) = 1
  BY DEF Answers, ToSet, e, i
<1>5. ASSUME NEW j \in Items, Sure(j), j # i
      PROVE  created[i] < created[j]
  <2>1. j \in ToSet(todo)
    BY <1>1, <1>5 DEF CompleteInv, CoverInv, Has
  <2>2. PICK k \in DOMAIN todo : todo[k] = j
    BY <2>1 DEF ToSet
  <2>3. 1 < k
    <3>1. k \in Nat \ {0} /\ k # 1
      BY <1>1, <1>2, <1>5, <2>2
    <3> QED BY <3>1
  <2>4. ~(created[j] < created[i])
    BY <1>2, <2>2, <2>3 DEF CompleteInv, SortedInv, Older
  <2>5. created[j] # 0
    BY <1>5, SureStands DEF Alive
  <2>6. created[i] # created[j]
    BY <1>2, <1>5, <2>5 DEF CompleteInv, DatesInv
  <2>7. created[i] \in Nat /\ created[j] \in Nat
    BY <1>2 DEF RetrievalInv, StoreInv
  <2> QED BY <2>4, <2>6, <2>7
<1>6. NothingHidden'
  <2>1. \A j : Sure(j)' => Sure(j)
    BY <1>1, SureStays
  <2> SUFFICES ASSUME NEW j \in Items, Sure(j)', ~(\E a \in Answers' : a.item = j)
               PROVE  Len(answer'.found) = 1 /\ \A a \in Answers' : Precedes(a, j)'
    BY <1>1 DEF NothingHidden
  <2>2. Sure(j) /\ j # i
    BY <1>2, <1>4, <2>1 DEF e
  <2>4. ASSUME NEW a \in Answers'
        PROVE  Precedes(a, j)'
    <3>1. a.item = i
      BY <1>2, <1>4
    <3>2. req'.mode = "first" /\ created'[a.item] < created'[j]
      BY <1>1, <1>5, <2>2, <3>1
    <3> QED BY <3>2 DEF Precedes
  <2> QED BY <1>4, <2>4
<1> QED BY <1>3, <1>6, StillComplete

LEMMA ResolvedComplete ==
    ASSUME RetrievalInv, CompleteInv, Frame, pc \in {"published", "latest"}, todo # <<>>,
           NEW n \in 0..Latest(Head(todo)), Sure(Head(todo)) => n # 0, Resolved(Head(todo), n),
           UNCHANGED <<rank, hits, source, got, ctx, checked, history, backoff>>
    PROVE  CompleteInv'
<1> DEFINE i == Head(todo)
<1>1. UNCHANGED <<pool, spoiled, created, revs, req>> /\ todo \in Seq(Items) /\ i \in Items
  BY NextTyped DEF history, Frame, store, RetrievalInv, LocalsInv
<1>2. CASE req.mode # "first"
  BY <1>1, <1>2, AddComplete DEF Resolved
<1>3. CASE req.mode = "first"
  <2>1. CASE (n = 0 /\ req.types = {}) \/ (n # 0 /\ Matches(i, n))
    BY <1>1, <1>3, <2>1, FirstComplete DEF Resolved
  <2>2. CASE ~((n = 0 /\ req.types = {}) \/ (n # 0 /\ Matches(i, n)))
    <3>1. Skip
      BY <1>3, <2>2 DEF Resolved
    <3>2. ~Sure(i)
      <4>1. SUFFICES ASSUME Sure(i)
                     PROVE  n # 0 /\ Matches(i, n)
        BY <2>2
      <4>2. Latest(i) \in Nat /\ \A m \in 1..Latest(i) : Matches(i, m)
        BY <1>1, <4>1, SureStands
      <4> QED BY <4>1, <4>2
    <3>3. EntryInv' /\ SortedInv'
      BY <1>1, <3>1, EntryKept, TailSorted DEF CompleteInv, Skip
    <3>4. source # "bundle"
      BY <1>3 DEF CompleteInv, PhaseInv
    <3>5. results' = results /\ \A j : Has(results', j) = Has(results, j)
      BY <3>1 DEF Skip
    <3> QED BY <1>1, <3>1, <3>2, <3>3, <3>4, <3>5, MoveOn DEF Skip
  <2> QED BY <2>1, <2>2
<1> QED BY <1>2, <1>3

LEMMA ReadPublishedComplete ==
    ASSUME RetrievalInv, CompleteInv, ReadPublished
    PROVE  CompleteInv'
<1> DEFINE i == Head(todo)
<1>1. /\ pc = "published" /\ todo # <<>> /\ Frame
      /\ UNCHANGED <<rank, hits, source, got, ctx, checked, history, backoff>>
      /\ UNCHANGED <<pool, spoiled, req, date>>
  BY DEF ReadPublished, Enough, history, Frame, store
<1>2. i \in Items /\ pub[i] \in 0..Latest(i)
  BY <1>1, NextTyped DEF RetrievalInv, StoreInv, Latest
<1>3. CASE source = "bundle" /\ ~Alive(i)
  <2>1. todo' = <<>> /\ UNCHANGED <<pc, results, answer>>
    BY <1>3 DEF ReadPublished
  <2>2. PhaseInv'
    BY <1>1, <2>1 DEF CompleteInv, PhaseInv
  <2> QED BY <1>1, <1>3, <2>1, <2>2, ClearedComplete
<1>4. CASE ~(source = "bundle" /\ ~Alive(i)) /\ Alive(i) /\ pub[i] # 0
  <2>1. Resolved(i, pub[i])
    BY <1>4 DEF ReadPublished
  <2> QED BY <1>1, <1>2, <1>4, <2>1, ResolvedComplete
<1>5. CASE ~(source = "bundle" /\ ~Alive(i)) /\ ~(Alive(i) /\ pub[i] # 0)
  <2>1. pc' = "latest" /\ UNCHANGED <<todo, results, answer>>
    BY <1>5 DEF ReadPublished
  <2>2. PhaseInv'
    BY <1>1, <2>1 DEF CompleteInv, PhaseInv
  <2> QED BY <1>1, <2>1, <2>2, NotYet, StillComplete
<1> QED BY <1>3, <1>4, <1>5

LEMMA ReadLatestComplete ==
    ASSUME RetrievalInv, CompleteInv, ReadLatest
    PROVE  CompleteInv'
<1> DEFINE i == Head(todo)
           n == IF Alive(i) THEN Latest(i) ELSE 0
<1>1. /\ pc = "latest" /\ Frame /\ Resolved(i, n)
      /\ UNCHANGED <<rank, hits, source, got, ctx, checked, history, backoff>>
  BY DEF ReadLatest
<1>2. todo # <<>>
  BY <1>1 DEF RetrievalInv, LocalsInv
<1>3. i \in Items /\ Latest(i) \in Nat
  <2>1. i \in Items
    BY <1>2, NextTyped
  <2> QED BY <2>1 DEF RetrievalInv, StoreInv, Latest
<1>4. n \in 0..Latest(i) /\ (Sure(i) => n # 0)
  BY <1>3, SureStands
<1> HIDE DEF n
<1> QED BY <1>1, <1>2, <1>4, ResolvedComplete

LEMMA ReadRevisionsComplete ==
    ASSUME RetrievalInv, CompleteInv, ReadRevisions
    PROVE  CompleteInv'
<1> DEFINE i == Head(todo)
<1>1. /\ pc = "revisions" /\ todo # <<>> /\ Frame
      /\ UNCHANGED <<rank, hits, source, got, ctx, checked, answer, pool, spoiled>>
      /\ UNCHANGED <<created, revs, req, date>>
  BY DEF ReadRevisions, history, Frame, store
<1>2. source = "hits" /\ req.mode # "first" /\ req.unroll
  BY <1>1 DEF RetrievalInv, LocalsInv, CompleteInv, PhaseInv
<1>3. i \in Items /\ i \in ToSet(rank)
  <2>1. todo \in Seq(Items) /\ ToSet(todo) \subseteq ToSet(rank)
    BY <1>2 DEF RetrievalInv, LocalsInv, CompleteInv, FoundInv
  <2> QED BY <1>1, <2>1, HeadTail
<1>4. Latest(i) \in Nat
  BY <1>3 DEF RetrievalInv, StoreInv, Latest
<1>5. CASE Alive(i) /\ Latest(i) > 1
  <2> DEFINE K == {n \in 1..Latest(i) : Matches(i, n)}
  <2>1. PICK ns \in SetToSeqs(K) :
          results' = results \o [k \in DOMAIN ns |-> Entry(i, ns[k], HitScore(i))]
    BY <1>5 DEF ReadRevisions, Arranged
  <2>2. todo' = Tail(todo) /\ pc' = pc
    BY <1>5 DEF ReadRevisions
  <2>3. IsFiniteSet(K)
    <3>1. IsFiniteSet(1..Latest(i))
      BY <1>4, FS_Interval
    <3>2. K \in SUBSET (1..Latest(i))
      OBVIOUS
    <3> QED BY <3>1, <3>2, FS_Subset
  <2>4. ns \in Seq(K) /\ ToSet(ns) = K
    BY <2>1, <2>3, ArrangedOnto, ArrangedSeq
  <2> DEFINE more == [k \in DOMAIN ns |-> Entry(i, ns[k], HitScore(i))]
             N == Len(ns)
             L == Len(results)
  <2> HIDE DEF K
  <2>5. N \in Nat /\ DOMAIN ns = 1..N
    BY <2>4
  <2>6. /\ \A k \in 1..N : /\ ns[k] \in K /\ more[k].item = i
                           /\ more[k].rev = ns[k] /\ more[k].score = HitScore(i)
        /\ DOMAIN more = 1..N
    BY <2>4, <2>5 DEF Entry
  <2>7. results \in Seq(Entries) /\ L \in Nat /\ DOMAIN results = 1..L
    <3>1. results \in Seq(Entries)
      BY ResultsKept
    <3> QED BY <3>1
  <2>8. /\ DOMAIN results' = 1..(L + N)
        /\ \A k \in 1..(L + N) : results'[k] = IF k <= L THEN results[k] ELSE more[k - L]
    <3>1. Len(more) = N
      BY <2>5, <2>6
    <3> HIDE DEF more
    <3> QED BY <2>1, <2>5, <2>6, <2>7, <3>1 DEF more
  <2> HIDE DEF more
  <2>9. ASSUME NEW k \in DOMAIN results'
        PROVE  \/ k \in DOMAIN results /\ results'[k] = results[k]
               \/ /\ results'[k].rev \in 1..Latest(i)
                  /\ results'[k].item = i /\ results'[k].score = HitScore(i)
    <3>1. CASE k <= L
      BY <2>5, <2>7, <2>8, <3>1
    <3>2. CASE k > L
      <4>1. k - L \in 1..N /\ results'[k] = more[k - L]
        BY <2>5, <2>7, <2>8, <3>2
      <4>2. ns[k - L] \in 1..Latest(i)
        BY <2>6, <4>1 DEF K
      <4> QED BY <2>6, <4>1, <4>2
    <3>3. k \in 1..(L + N)
      BY <2>8
    <3>4. k <= L \/ k > L
      BY <2>5, <2>7, <3>3
    <3> QED BY <3>1, <3>2, <3>4
  <2>10. \A j \in Items : Has(results, j) => Has(results', j)
    <3>1. \A k \in DOMAIN results : k \in DOMAIN results' /\ results'[k] = results[k]
      BY <2>5, <2>7, <2>8
    <3> QED BY <3>1 DEF Has
  <2>11. Sure(i) => Has(results', i)
    <3> SUFFICES ASSUME Sure(i)
                 PROVE  Has(results', i)
      OBVIOUS
    <3>1. 1 \in K
      BY <1>3, <1>4, <1>5, SureStands DEF K
    <3>2. N # 0
      BY <2>4, <2>5, <3>1 DEF ToSet
    <3>3. L + 1 \in DOMAIN results' /\ results'[L + 1] = more[1] /\ 1 \in 1..N
      BY <2>5, <2>7, <2>8, <3>2
    <3> QED BY <2>6, <3>3 DEF Has
  <2>12. EntryInv'
    <3>1. \A j : HitScore(j)' = HitScore(j) /\ Latest(j)' = Latest(j)
      BY <1>1, SameScore DEF Latest
    <3>2. ASSUME NEW k \in DOMAIN results'
          PROVE  /\ results'[k].rev \in 1..Latest(results'[k].item)
                 /\ results'[k].item \in ToSet(rank) /\ results'[k].score = HitScore(results'[k].item)
      <4>1. \A l \in DOMAIN results :
              /\ results[l].rev \in 1..Latest(results[l].item)
              /\ results[l].score = HitScore(results[l].item)
              /\ results[l].item \in ToSet(rank)
        BY <1>2 DEF CompleteInv, EntryInv
      <4> QED BY <1>3, <2>9, <4>1
    <3> QED BY <1>1, <1>2, <3>1, <3>2 DEF CompleteInv, EntryInv
  <2>13. SortedInv'
    BY <1>1, <1>2 DEF SortedInv
  <2>14. pc' = NextItem(source)
    BY <1>1, <1>2, <2>2 DEF NextItem
  <2> QED BY <1>1, <1>2, <2>2, <2>10, <2>11, <2>12, <2>13, <2>14, MoveOn
<1>6. CASE ~(Alive(i) /\ Latest(i) > 1)
  <2>1. pc' = "published" /\ UNCHANGED <<results, todo>>
    BY <1>6 DEF ReadRevisions
  <2>2. PhaseInv'
    BY <1>1, <1>2, <2>1 DEF CompleteInv, PhaseInv
  <2> QED BY <1>1, <2>1, <2>2, NotYet, StillComplete
<1> QED BY <1>5, <1>6

LEMMA NextPhase ==
    ASSUME RetrievalInv, PhaseInv, pc \in {"published", "latest", "revisions"}, pc' = NextItem(source),
           UNCHANGED <<source, results, pool, req, answer, date>>
    PROVE  PhaseInv'
<1>1. /\ pc' \in {"published", "revisions"}
      /\ pc' = "revisions" => source = "hits" /\ req.mode # "first"
  BY DEF NextItem
<1> QED BY <1>1 DEF PhaseInv

LEMMA ReadFailsComplete ==
    ASSUME RetrievalInv, CompleteInv, ReadFails
    PROVE  CompleteInv'
<1>1. /\ pc \in {"published", "latest", "revisions"} /\ pc' = NextItem(source) /\ Frame
      /\ UNCHANGED <<rank, hits, source, got, results, ctx, answer, pool>>
      /\ UNCHANGED <<created, revs, gone, date, req>>
      /\ spoiled' = spoiled \cup (IF source = "bundle" THEN ToSet(todo) ELSE {Head(todo)})
      /\ todo' = IF source = "bundle" THEN <<>> ELSE Tail(todo)
  BY DEF ReadFails, Frame, store
<1>2. PhaseInv' /\ pc' \notin {"take", "done"}
  BY <1>1, NextPhase DEF NextItem, CompleteInv
<1>3. CASE source = "bundle"
  BY <1>1, <1>2, <1>3, ClearedComplete
<1>4. CASE source # "bundle"
  <2>1. todo # <<>> /\ todo \in Seq(Items)
    BY <1>4 DEF ReadFails, Enough, RetrievalInv, LocalsInv
  <2>2. ToSet(todo) = {Head(todo)} \cup ToSet(todo') /\ todo' = Tail(todo)
    BY <1>1, <1>4, <2>1, HeadTail
  <2>3. DatesInv' /\ EntryInv' /\ SortedInv'
    BY <1>1, <2>1, <2>2, DatesKept, EntryKept, TailSorted DEF CompleteInv
  <2>4. FoundInv'
    BY <1>1, <2>2 DEF CompleteInv, FoundInv
  <2>5. CoverInv'
    <3>1. \A i : Sure(i)' => Sure(i) /\ i # Head(todo)
      BY <1>1, <1>4, SureStays DEF Sure
    <3>2. gone' \subseteq spoiled'
      BY <1>1 DEF CompleteInv, CoverInv
    <3>3. \A i \in Items : Sure(i) => i \in ToSet(todo) \/ Has(results, i)
      BY DEF CompleteInv, CoverInv
    <3>4. \A i : Has(results, i)' = Has(results, i)
      BY <1>1 DEF Has
    <3> QED BY <1>1, <1>2, <1>4, <2>2, <3>1, <3>2, <3>3, <3>4 DEF CoverInv
  <2> QED BY <1>2, <2>3, <2>4, <2>5, NotYet DEF CompleteInv
<1> QED BY <1>3, <1>4

LEMMA EndItemsComplete ==
    ASSUME RetrievalInv, CompleteInv, EndItems
    PROVE  CompleteInv'
<1>1. /\ pc \in {"published", "revisions"} /\ Enough /\ Frame /\ todo' = <<>>
      /\ UNCHANGED <<rank, source, got, results, answer, pool, spoiled, req, date>>
  BY DEF EndItems, history, Frame, store
<1>2. source \in {"hits", "bundle", "list"}
  BY DEF RetrievalInv, LocalsInv
<1>3. CASE source = "hits"
  <2>1. hits' = <<>> /\ pc' = IF req.mode = "first" THEN "list" ELSE Rest
    BY <1>3 DEF EndItems
  <2>2. Rest \in {"bundle", "fallback"}
    BY DEF Rest
  <2>3. PhaseInv'
    BY <1>1, <1>3, <2>1, <2>2 DEF CompleteInv, PhaseInv
  <2> QED BY <1>1, <1>3, <2>1, <2>2, <2>3, ClearedComplete DEF Enough
<1>4. CASE source # "hits"
  <2>1. /\ pc' = IF source = "list" /\ (ctx = <<>> \/ req.mode # "search") THEN "finish"
                 ELSE IF source = "list" THEN "list" ELSE "bundle"
        /\ UNCHANGED <<ctx, hits>>
    BY <1>4 DEF EndItems
  <2>2. PhaseInv'
    BY <1>1, <1>2, <1>4, <2>1 DEF CompleteInv, PhaseInv
  <2>3. pc' \notin {"take", "done"} /\ (todo = <<>> \/ source = "bundle")
    BY <1>1, <2>1 DEF Enough
  <2> QED BY <1>1, <2>1, <2>2, <2>3, ClearedComplete
<1> QED BY <1>3, <1>4

LEMMA VerifyProjectComplete ==
    ASSUME RetrievalInv, CompleteInv, VerifyProject
    PROVE  CompleteInv'
<1>1. CASE project /\ pc' = Rest /\ UNCHANGED <<backoff, locals, answer, history, failures>>
  <2>1. /\ UNCHANGED <<rank, hits, source, todo, got, results, ctx, answer, pool, spoiled, date, req>>
        /\ Frame /\ pc = "verify" /\ pc' \in {"bundle", "fallback"}
    BY <1>1 DEF VerifyProject, locals, history, Frame, store, Rest
  <2>2. PhaseInv'
    BY <2>1 DEF CompleteInv, PhaseInv
  <2> QED BY <2>1, <2>2, NotYet, StillComplete
<1> QED BY <1>1, FailComplete DEF VerifyProject

\* The members of a bundle that have no result.
LEMMA MembersNew ==
    ASSUME NEW x, NEW s \in MembersIn(x)
    PROVE  \A i \in ToSet(s) : ~Has(results, i)
<1>1. CASE project /\ \E i \in Prefixed[x] : Alive(i)
  <2>1. s \in SetToSeqs({i \in Members : InScope(i) /\ ~Has(results, i)})
    BY <1>1 DEF MembersIn, Arranged
  <2>2. \A k \in DOMAIN s : s[k] \in {i \in Members : InScope(i) /\ ~Has(results, i)}
    BY <2>1, ArrangedIn
  <2> QED BY <2>2 DEF ToSet
<1>2. CASE ~(project /\ \E i \in Prefixed[x] : Alive(i))
  BY <1>2, EmptySet DEF MembersIn
<1> QED BY <1>1, <1>2

LEMMA BundleComplete ==
    ASSUME RetrievalInv, CompleteInv, Bundle
    PROVE  CompleteInv'
<1>1. /\ pc = "bundle" /\ Frame /\ UNCHANGED <<created, revs, gone, date, req>>
      /\ source \in {"hits", "bundle"} /\ todo = <<>> /\ req.mode # "first"
  BY DEF Bundle, Frame, store, RetrievalInv, LocalsInv, CompleteInv, PhaseInv
<1>2. CASE /\ pc' = "fallback" \/ UNCHANGED pc
           /\ UNCHANGED <<rank, hits, source, todo, got, results, checked, backoff, answer, history>>
  <2>1. UNCHANGED <<rank, hits, source, todo, got, results, answer, pool, spoiled>>
    BY <1>2 DEF history
  <2>2. PhaseInv'
    BY <1>1, <1>2, <2>1 DEF CompleteInv, PhaseInv
  <2> QED BY <1>1, <1>2, <2>1, <2>2, NotYet, StillComplete
<1>3. CASE /\ source' = "bundle" /\ pc' = "published" /\ todo' \in MembersIn(Head(ctx))
           /\ UNCHANGED <<rank, hits, got, results, checked, backoff, answer, history, failures>>
  <2>1. UNCHANGED <<rank, hits, got, results, answer, pool, spoiled>>
    BY <1>3 DEF history
  <2>2. DatesInv'
    BY <1>1, DatesKept DEF CompleteInv
  <2>3. PhaseInv'
    BY <1>1, <1>3, <2>1 DEF CompleteInv, PhaseInv
  <2>4. FoundInv'
    BY <1>1, <1>3, <2>1 DEF CompleteInv, FoundInv
  <2>5. \A i : HitScore(i)' = HitScore(i) /\ Latest(i)' = Latest(i) /\ Has(results, i)' = Has(results, i)
    BY <1>1, <2>1, SameScore DEF Latest, Has
  <2>6. EntryInv'
    BY <1>1, <1>3, <2>1, <2>5 DEF CompleteInv, EntryInv, BundleScore, ListScore
  <2>7. CoverInv'
    <3>1. \A i : Sure(i)' => Sure(i)
      BY <1>1, <2>1, SureStays
    <3>2. ASSUME NEW i \in Items, Sure(i)
          PROVE  /\ i \notin ToSet(todo') /\ Has(results, i)
                 /\ \A k \in DOMAIN results : results[k].item = i => results[k].score = HitScore(i)
      <4>1. Has(results, i)
        BY <1>1, <3>2, EmptySet DEF CompleteInv, CoverInv
      <4>2. i \notin ToSet(todo')
        BY <1>3, <4>1, MembersNew
      <4>3. \A k \in DOMAIN results : results[k].item = i => results[k].score = HitScore(i)
        BY <1>1, <3>2 DEF CompleteInv, CoverInv, EntryInv
      <4> QED BY <4>1, <4>2, <4>3
    <3>3. gone' \subseteq spoiled'
      BY <1>1, <2>1 DEF CompleteInv, CoverInv
    <3> QED BY <1>3, <2>1, <2>5, <3>1, <3>2, <3>3 DEF CoverInv
  <2>8. SortedInv'
    BY <1>1, <1>3 DEF SortedInv
  <2> QED BY <1>3, <2>2, <2>3, <2>4, <2>6, <2>7, <2>8, NotYet DEF CompleteInv
<1>4. CASE Fail("raised") /\ UNCHANGED history
  BY <1>1, <1>4, FailComplete
<1> QED BY <1>2, <1>3, <1>4 DEF Bundle

LEMMA FallbackComplete ==
    ASSUME RetrievalInv, CompleteInv, Fallback
    PROVE  CompleteInv'
<1>1. /\ pc = "fallback" /\ Frame /\ ctx' = req.contexts /\ hits' = <<>>
      /\ pc' = IF results = <<>> THEN "list" ELSE "finish"
      /\ UNCHANGED <<rank, source, todo, got, results, answer, pool, spoiled, req, date>>
      /\ source # "list"
  BY DEF Fallback, history, Frame, store, CompleteInv, PhaseInv
<1>2. PhaseInv'
  BY <1>1 DEF CompleteInv, PhaseInv
<1> QED BY <1>1, <1>2, NotYet, StillComplete

---------------------------------------------------------------------------
(* Nothing is hidden: the listing. *)

LEMMA OrderedSorted ==
    ASSUME RetrievalInv, DatesInv, NEW S \in SUBSET Items, \A i \in S : created[i] # 0,
           NEW s \in Ordered(S)
    PROVE  /\ req.mode = "first" => \A k, l \in DOMAIN s : k < l => ~Older(s[l], s[k])
           /\ req.mode = "search" => \A k, l \in DOMAIN s : k < l => Younger(s[k], s[l])
<1>1. ASSUME req.mode = "first"
      PROVE  \A k, l \in DOMAIN s : k < l => ~Older(s[l], s[k])
  BY <1>1 DEF Ordered, OldestItemsFirst, Arranged
<1>2. ASSUME req.mode = "search"
      PROVE  \A k, l \in DOMAIN s : k < l => Younger(s[k], s[l])
  <2> DEFINE K == First(S, 2 * Limit, Younger)
  <2>1. s \in SetToSeqs(K) /\ \A k, l \in DOMAIN s : k < l => ~Younger(s[l], s[k])
    BY <1>2 DEF Ordered, MostRecentItems, Arranged
  <2>2. K \in SUBSET S
    BY DEF First
  <2>3. IsFiniteSet(K)
    <3>1. IsFiniteSet(S)
      BY RetrievalAssumption, FS_Subset
    <3> QED BY <2>2, <3>1, FS_Subset
  <2> HIDE DEF K
  <2>4. /\ \A k, l \in DOMAIN s : k # l => s[k] # s[l]
        /\ DOMAIN s = 1..Cardinality(K) /\ \A k \in DOMAIN s : s[k] \in S
    BY <2>1, <2>2, <2>3, ArrangedOnto, ArrangedIn
  <2>5. ASSUME NEW k \in DOMAIN s, NEW l \in DOMAIN s, k < l
        PROVE  Younger(s[k], s[l])
    <3>1. k # l
      BY <2>3, <2>4, <2>5, FS_CardinalityType
    <3>2. s[k] \in Items /\ s[l] \in Items /\ s[k] # s[l] /\ created[s[k]] # 0
      BY <2>4, <3>1
    <3>3. created[s[k]] # created[s[l]]
      BY <3>2 DEF DatesInv
    <3>4. ~(created[s[l]] > created[s[k]])
      BY <2>1, <2>5 DEF Younger
    <3>5. created[s[k]] \in Nat /\ created[s[l]] \in Nat
      BY <3>2 DEF RetrievalInv, StoreInv
    <3> QED BY <3>3, <3>4, <3>5 DEF Younger
  <2> QED BY <2>5
<1> QED BY <1>1, <1>2

LEMMA ListItemsComplete ==
    ASSUME RetrievalInv, CompleteInv, ListItems
    PROVE  CompleteInv'
<1> DEFINE items == Listed(Head(ctx)) \cup (IF req.mode = "search" THEN {} ELSE ToSet(hits))
           all == Tail(ctx) = <<>> \/ req.mode = "search"
<1>1. Frame /\ pc = "list" /\ ctx # <<>> /\ todo = <<>> /\ UNCHANGED <<created, revs, gone, date, req>>
  BY DEF ListItems, Frame, store, CompleteInv, PhaseInv
<1>2. CASE Fail("raised") /\ UNCHANGED history
  BY <1>1, <1>2, FailComplete
<1>3. CASE /\ ctx' = Tail(ctx)
           /\ IF all THEN hits' = <<>> /\ todo' \in Ordered(items)
              ELSE hits' \in OldestItemsFirst(items) /\ todo' = <<>>
           /\ pool' = (IF source = "list" THEN pool ELSE {}) \cup (IF all THEN ToSet(todo') ELSE {})
           /\ source' = "list"
           /\ pc' = IF all THEN "published" ELSE "list"
           /\ UNCHANGED <<rank, got, results, answer, spoiled>>
  <2>1. items \in SUBSET Items /\ \A i \in items : created[i] # 0
    <3>1. ToSet(hits) \subseteq Items
      BY InSet DEF RetrievalInv, LocalsInv
    <3> QED BY <3>1 DEF Listed, Alive, CompleteInv, FoundInv
  <2> HIDE DEF items
  <2>2. /\ \A i \in ToSet(hits') \cup ToSet(todo') : created[i] # 0
        /\ ~all => todo' = <<>>
    <3>1. CASE all
      <4>1. \A k \in DOMAIN todo' : todo'[k] \in items
        BY <1>3, <2>1, <3>1, OrderedTyped
      <4>2. ToSet(todo') \subseteq items /\ ToSet(hits') = {}
        BY <1>3, <3>1, <4>1, EmptySet DEF ToSet
      <4> QED BY <2>1, <3>1, <4>2
    <3>2. CASE ~all
      <4>1. \A k \in DOMAIN hits' : hits'[k] \in items
        BY <1>3, <2>1, <3>2, OldestTyped
      <4>2. ToSet(hits') \subseteq items /\ ToSet(todo') = {}
        BY <1>3, <3>2, <4>1, EmptySet DEF ToSet
      <4> QED BY <1>3, <2>1, <3>2, <4>2
    <3> QED BY <3>1, <3>2
  <2>3. pool' = (IF source = "list" THEN pool ELSE {}) \cup ToSet(todo')
    BY <1>3, <2>2, EmptySet
  <2>4. source # "list" => results = <<>>
    BY <1>1 DEF CompleteInv, PhaseInv
  <2>5. DatesInv'
    BY <1>1, DatesKept DEF CompleteInv
  <2>6. PhaseInv' /\ pc' \notin {"take", "done"}
    BY <1>1, <1>3, <2>2, <2>4 DEF CompleteInv, PhaseInv
  <2>7. FoundInv'
    BY <1>1, <1>3, <2>2 DEF FoundInv
  <2>8. EntryInv'
    <3>1. \A i : Latest(i)' = Latest(i)
      BY <1>1 DEF Latest
    <3> QED BY <1>3, <2>4, <3>1 DEF CompleteInv, EntryInv, BundleScore, ListScore
  <2>9. CoverInv'
    <3>1. ASSUME NEW i \in Items, Sure(i)', i \notin ToSet(todo')
          PROVE  Has(results', i)
      <4>1. source = "list" /\ i \in pool
        BY <2>3, <3>1 DEF Sure
      <4>2. Sure(i)
        BY <1>1, <1>3, <3>1, <4>1 DEF Sure, Latest, Matches
      <4>3. Has(results, i)
        BY <1>1, <4>2, EmptySet DEF CompleteInv, CoverInv
      <4> QED BY <1>3, <4>3 DEF Has
    <3>2. gone' \subseteq spoiled'
      BY <1>1, <1>3 DEF CompleteInv, CoverInv
    <3> QED BY <1>3, <2>6, <3>1, <3>2 DEF CoverInv
  <2>10. SortedInv'
    <3>1. \A i, j : Younger(i, j)' = Younger(i, j) /\ Older(i, j)' = Older(i, j)
      BY <1>1 DEF Younger, Older
    <3>2. req.mode = "first" => \A k, l \in DOMAIN todo' : k < l => ~Older(todo'[l], todo'[k])
      <4>1. CASE all
        BY <1>3, <2>1, <4>1, OrderedSorted DEF CompleteInv
      <4>2. CASE ~all
        BY <1>3, <4>2
      <4> QED BY <4>1, <4>2
    <3>3. ASSUME req.mode = "search", Len(req.contexts) = 1
          PROVE  /\ ctx' = <<>> /\ results' = <<>>
                 /\ \A k, l \in DOMAIN todo' : k < l => Younger(todo'[k], todo'[l])
      <4>1. source # "list"
        BY <1>1, <3>3 DEF CompleteInv, SortedInv
      <4>2. ctx = req.contexts
        BY <1>1, <3>3, <4>1 DEF CompleteInv, PhaseInv
      <4>3. Tail(ctx) = <<>>
        <5>1. ctx \in Seq(Contexts) /\ Len(ctx) = 1
          BY <3>3, <4>2 DEF RetrievalInv, LocalsInv
        <5>2. Tail(ctx) \in Seq(Contexts) /\ Len(Tail(ctx)) = 0
          BY <1>1, <5>1
        <5>3. \A t \in Seq(Contexts) : t # <<>> => Len(t) # 0
          OBVIOUS
        <5> QED BY <5>2, <5>3
      <4>4. todo' \in Ordered(items)
        BY <1>3, <3>3
      <4> QED BY <1>3, <2>1, <2>4, <3>3, <4>1, <4>3, <4>4, OrderedSorted DEF CompleteInv
    <3> QED BY <1>1, <3>1, <3>2, <3>3 DEF SortedInv
  <2> QED BY <2>5, <2>6, <2>7, <2>8, <2>9, <2>10, NotYet DEF CompleteInv
<1> QED BY <1>2, <1>3 DEF ListItems

---------------------------------------------------------------------------
(* Nothing is hidden: the answer. *)

\* Hits have scores of their own.
LEMMA HitScores ==
    ASSUME RetrievalInv, NEW i \in ToSet(rank), NEW j \in ToSet(rank)
    PROVE  HitScore(i) \in Int /\ (HitScore(i) = HitScore(j) => i = j)
<1>1. rank \in Seq(Items) /\ Strong \in Nat
  BY RetrievalAssumption DEF RetrievalInv, LocalsInv
<1>2. ASSUME NEW h \in ToSet(rank)
      PROVE  Position(h) \in 1..Len(rank) /\ rank[Position(h)] = h
  <2>1. \E k \in 1..Len(rank) : rank[k] = h
    BY <1>1 DEF ToSet
  <2> QED BY <2>1 DEF Position
<1>3. /\ Position(i) \in Nat /\ Position(j) \in Nat
      /\ Position(i) = Position(j) => i = j
  <2>1. Len(rank) \in Nat
    BY <1>1
  <2> QED BY <1>2, <2>1
<1> QED BY <1>1, <1>3 DEF HitScore

\* A result has a date and a score.
LEMMA ResultTyped ==
    ASSUME RetrievalInv, CompleteInv, NEW k \in DOMAIN results
    PROVE  /\ results[k].item \in Items /\ results[k].rev \in DOMAIN revs[results[k].item]
           /\ DateOf(results[k]) \in Nat /\ results[k].score \in Int
<1>1. results[k] \in Entries /\ results[k].item \in Items
  <2>1. results \in Seq(Entries)
    BY ResultsKept
  <2>2. results[k] \in Entries
    BY <2>1
  <2> QED BY <2>2 DEF Entries
<1>2. revs[results[k].item] \in Seq([date : Nat, type : Types])
  BY <1>1 DEF RetrievalInv, StoreInv
<1>3. results[k].rev \in DOMAIN revs[results[k].item]
  <2>1. results[k].rev \in 1..Len(revs[results[k].item])
    BY DEF CompleteInv, EntryInv, Latest
  <2> QED BY <1>2, <2>1
<1>4. DateOf(results[k]) \in Nat
  <2>1. \A S : \A s \in Seq(S) : \A n \in DOMAIN s : s[n] \in S
    OBVIOUS
  <2>2. revs[results[k].item][results[k].rev] \in [date : Nat, type : Types]
    BY <1>2, <1>3, <2>1
  <2> QED BY <2>2 DEF DateOf
<1>5. results[k].score \in Int
  <2>1. CASE source = "list"
    BY <2>1 DEF CompleteInv, EntryInv, ListScore
  <2>2. CASE results[k].score = BundleScore
    BY <2>2 DEF BundleScore
  <2>3. CASE source # "list" /\ results[k].score # BundleScore
    <3>1. results[k].item \in ToSet(rank) /\ results[k].score = HitScore(results[k].item)
      BY <2>3 DEF CompleteInv, EntryInv
    <3> QED BY <3>1, HitScores
  <2> QED BY <2>1, <2>2, <2>3
<1> QED BY <1>1, <1>3, <1>4, <1>5

\* Results that are kept apart differ in their item, or are revisions of one.
LEMMA DedupedApart ==
    ASSUME RetrievalInv, NEW k \in Deduped, NEW l \in Deduped, k # l
    PROVE  /\ k \in DOMAIN results /\ l \in DOMAIN results /\ k \in Nat /\ l \in Nat
           /\ \/ results[k].item # results[l].item
              \/ req.unroll /\ results[k].rev # results[l].rev
<1>1. /\ DOMAIN results = 1..Len(results) /\ Len(results) \in Nat
      /\ k \in DOMAIN results /\ l \in DOMAIN results
  BY ResultsKept DEF Deduped
<1>2. k \in 1..(l - 1) \/ l \in 1..(k - 1)
  BY <1>1
<1>3. req.unroll \in BOOLEAN
  BY Asked
<1> QED BY <1>1, <1>2, <1>3 DEF Deduped

\* Every item with a result keeps one.
LEMMA DedupedHas ==
    ASSUME RetrievalInv, NEW i, Has(results, i)
    PROVE  \E k \in Deduped : results[k].item = i
<1> DEFINE T == {k \in DOMAIN results : results[k].item = i}
<1>1. DOMAIN results = 1..Len(results) /\ Len(results) \in Nat
  BY ResultsKept
<1>2. T \subseteq Nat /\ T # {}
  BY <1>1 DEF Has
<1>3. PICK k \in T : \A l \in T : <<l, k>> \notin OpToRel(<, Nat)
  BY <1>2, NatLessThanWellFounded, WFMin
<1>4. ASSUME NEW l \in 1..(k - 1)
      PROVE  results[l].item # i
  <2>1. l \in DOMAIN results /\ l \in Nat /\ k \in Nat /\ l < k
    BY <1>1
  <2> QED BY <1>3, <2>1 DEF OpToRel
<1>5. k \in Deduped
  BY <1>3, <1>4 DEF Deduped
<1> QED BY <1>3, <1>5

\* Results that are kept apart are in a strict order.
LEMMA BeforeStrict ==
    ASSUME RetrievalInv, CompleteInv
    PROVE  /\ \A k \in Deduped : ~Before(k, k)
           /\ \A k, l \in Deduped : k # l => Before(k, l) \/ Before(l, k)
           /\ \A k, l, m \in Deduped : Before(k, l) /\ Before(l, m) => Before(k, m)
<1>1. \A k \in Deduped : /\ k \in Nat /\ k \in DOMAIN results
                         /\ DateOf(results[k]) \in Nat /\ results[k].score \in Int
  <2>1. DOMAIN results = 1..Len(results) /\ Len(results) \in Nat
    BY ResultsKept
  <2> QED BY <2>1, ResultTyped DEF Deduped
<1>2. CASE req.mode = "latest"
  <2>1. ASSUME NEW k \in Deduped, NEW l \in Deduped, k # l
        PROVE  DateOf(results[k]) # DateOf(results[l])
    <3>1. k \in DOMAIN results /\ l \in DOMAIN results
      BY <1>1
    <3>2. /\ results[k].item \in Items /\ results[k].rev \in DOMAIN revs[results[k].item]
          /\ results[l].item \in Items /\ results[l].rev \in DOMAIN revs[results[l].item]
      BY <3>1, ResultTyped
    <3>3. results[k].item # results[l].item \/ results[k].rev # results[l].rev
      BY <2>1, DedupedApart
    <3> QED BY <3>2, <3>3 DEF CompleteInv, DatesInv, DateOf
  <2> DEFINE D == [k \in Deduped |-> DateOf(results[k])]
  <2>2. \A k, l \in Deduped : Before(k, l) <=> D[k] > D[l]
    BY <1>2 DEF Before
  <2>3. \A k, l \in Deduped : D[k] \in Nat /\ (k # l => D[k] # D[l])
    BY <1>1, <2>1
  <2> HIDE DEF D
  <2>4. \A k \in Deduped : ~Before(k, k)
    BY <2>2, <2>3
  <2>5. \A k, l \in Deduped : k # l => Before(k, l) \/ Before(l, k)
    BY <2>2, <2>3
  <2>6. \A k, l, m \in Deduped : Before(k, l) /\ Before(l, m) => Before(k, m)
    BY <2>2, <2>3
  <2> QED BY <2>4, <2>5, <2>6
<1>3. CASE req.mode # "latest"
  <2> DEFINE S == [k \in Deduped |-> results[k].score]
  <2>1. \A k, l \in Deduped : Before(k, l) <=> S[k] > S[l] \/ (S[k] = S[l] /\ k < l)
    BY <1>3 DEF Before
  <2>2. \A k \in Deduped : S[k] \in Int /\ k \in Nat
    BY <1>1
  <2> HIDE DEF S
  <2>3. \A k \in Deduped : ~Before(k, k)
    BY <2>1, <2>2
  <2>4. \A k, l \in Deduped : k # l => Before(k, l) \/ Before(l, k)
    BY <2>1, <2>2
  <2>5. \A k, l, m \in Deduped : Before(k, l) /\ Before(l, m) => Before(k, m)
    BY <2>1, <2>2
  <2> QED BY <2>3, <2>4, <2>5
<1> QED BY <1>2, <1>3

\* What is sorted before a result of a sure candidate precedes it.
LEMMA SortedPrecedes ==
    ASSUME RetrievalInv, CompleteInv, NEW i \in Items, Sure(i), req.mode # "first",
           NEW k \in DOMAIN results, NEW l \in DOMAIN results, results[l].item = i,
           results[k].item # i, Before(k, l)
    PROVE  Precedes(results[k], i)
<1>1. req.mode \in {"search", "latest"}
  BY Asked
<1>2. CASE req.mode = "latest"
  <2>1. DateOf(results[k]) > revs[i][results[l].rev].date
    BY <1>2 DEF Before, DateOf
  <2>2. results[l].rev \in 1..Latest(i)
    BY DEF CompleteInv, EntryInv
  <2> QED BY <1>2, <2>1, <2>2 DEF Precedes
<1>3. CASE req.mode = "search"
  <2>1. \/ results[k].score > results[l].score
        \/ results[k].score = results[l].score /\ k < l
    BY <1>3 DEF Before
  <2>2. CASE results[k].score = BundleScore
    BY <1>3, <2>2 DEF Precedes
  <2>3. CASE source = "list"
    <3>1. results[k].score = ListScore /\ results[l].score = ListScore
      BY <2>3 DEF CompleteInv, EntryInv
    <3>2. k < l
      BY <2>1, <3>1 DEF ListScore
    <3>3. Len(req.contexts) > 1 \/ Len(req.contexts) = 1
      <4>1. Len(req.contexts) \in Nat \ {0}
        BY Wanted
      <4>2. \A n \in Nat \ {0} : n > 1 \/ n = 1
        OBVIOUS
      <4> QED BY <4>1, <4>2
    <3>4. Len(req.contexts) = 1 => created[results[k].item] > created[i]
      BY <1>3, <2>3, <3>2 DEF CompleteInv, SortedInv, Younger
    <3> QED BY <1>3, <2>3, <3>3, <3>4 DEF Precedes
  <2>4. CASE source # "list" /\ results[k].score # BundleScore
    <3>1. results[k].item \in ToSet(rank) /\ results[k].score = HitScore(results[k].item)
      BY <2>4 DEF CompleteInv, EntryInv
    <3>2. results[l].score = HitScore(i)
      <4>1. source \in {"hits", "bundle"}
        BY <2>4 DEF RetrievalInv, LocalsInv
      <4> QED BY <4>1 DEF CompleteInv, EntryInv, CoverInv
    <3>3. CASE results[k].score > results[l].score
      BY <1>3, <2>4, <3>2, <3>3 DEF Precedes
    <3>4. CASE results[k].score = results[l].score
      <4>1. i \in ToSet(rank)
        BY <2>4, <3>4 DEF CompleteInv, EntryInv
      <4> QED BY <3>1, <3>2, <3>4, <4>1, HitScores
    <3> QED BY <2>1, <3>3, <3>4
  <2> QED BY <2>2, <2>3, <2>4
<1> QED BY <1>1, <1>2, <1>3

LEMMA FinishComplete ==
    ASSUME RetrievalInv, CompleteInv, Finish
    PROVE  CompleteInv'
<1> DEFINE F == First(Deduped, Limit, Before)
<1>1. /\ pc = "finish" /\ pc' = "done" /\ Frame /\ todo = <<>>
      /\ UNCHANGED <<rank, hits, source, todo, got, results, ctx, pool, spoiled>>
      /\ UNCHANGED <<created, revs, pub, gone, date, req>>
  BY DEF Finish, locals, history, Frame, store, CompleteInv, PhaseInv
<1>2. PICK order \in SetToSeqs(F) : answer'.found = [k \in DOMAIN order |-> results[order[k]]]
  BY DEF Finish, Arranged
<1>3. IsFiniteSet(Deduped) /\ F \in SUBSET Deduped /\ Deduped \subseteq DOMAIN results
  <2>1. DOMAIN results = 1..Len(results) /\ Len(results) \in Nat
    BY ResultsKept
  <2>2. IsFiniteSet(DOMAIN results)
    BY <2>1, FS_Interval
  <2>3. Deduped \in SUBSET DOMAIN results /\ F \in SUBSET Deduped
    BY DEF Deduped, First
  <2> QED BY <2>2, <2>3, FS_Subset
<1>4. F = {k \in Deduped : Cardinality({l \in Deduped : Before(l, k)}) < Limit}
  BY DEF First
<1> HIDE DEF F
<1>5. IsFiniteSet(F)
  BY <1>3, FS_Subset
<1>6. /\ Len(order) = Cardinality(F) /\ Len(order) \in Nat /\ DOMAIN order = 1..Len(order)
      /\ ToSet(order) = F /\ \A k \in DOMAIN order : order[k] \in F
  BY <1>5, ArrangedOnto, ArrangedIn, FS_CardinalityType
<1>7. Len(answer'.found) = Cardinality(F) /\ \A a : a \in Answers' <=> \E k \in F : a = results[k]
  <2>1. /\ DOMAIN answer'.found = 1..Len(order)
        /\ \A k \in 1..Len(order) : answer'.found[k] = results[order[k]]
    BY <1>2, <1>6
  <2>2. Len(answer'.found) = Len(order)
    BY <1>2, <1>6
  <2>3. \A a : a \in Answers' <=> \E k \in 1..Len(order) : a = results[order[k]]
    BY <2>1 DEF Answers, ToSet
  <2> QED BY <1>6, <2>2, <2>3 DEF ToSet
<1>8. PhaseInv'
  BY <1>1 DEF CompleteInv, PhaseInv
<1>9. ASSUME NEW i \in Items, Sure(i), ~(\E a \in Answers' : a.item = i)
      PROVE  /\ req.mode # "first" /\ Len(answer'.found) = Limit
             /\ \A a \in Answers' : Precedes(a, i)
  <2>1. Has(results, i)
    BY <1>1, <1>9, EmptySet DEF CompleteInv, CoverInv
  <2>2. req.mode # "first"
    BY <2>1 DEF CompleteInv, PhaseInv, Has
  <2>3. PICK d \in Deduped : results[d].item = i
    BY <2>1, DedupedHas
  <2>4. d \notin F
    BY <1>7, <1>9, <2>3
  <2> DEFINE L == [k \in Deduped |-> {l \in Deduped : Before(l, k)}]
  <2>5. L \in [Deduped -> SUBSET Deduped] /\ \A k, l \in Deduped : l \in L[k] <=> Before(l, k)
    OBVIOUS
  <2>6. \A k \in Deduped : k \in F <=> Cardinality(L[k]) < Limit
    BY <1>4
  <2> HIDE DEF L
  <2>7. Limit \in Nat
    BY RetrievalAssumption
  <2>8. Limit <= Cardinality(L[d])
    <3>1. L[d] \in SUBSET Deduped
      BY <2>3, <2>5
    <3>2. Cardinality(L[d]) \in Nat
      BY <1>3, <3>1, FS_Subset, FS_CardinalityType
    <3> QED BY <2>3, <2>4, <2>6, <2>7, <3>2
  <2>9. /\ \A k \in Deduped : k \notin L[k]
        /\ \A k, l \in Deduped : k # l => k \in L[l] \/ l \in L[k]
        /\ \A k, l, m \in Deduped : k \in L[l] /\ l \in L[m] => k \in L[m]
    BY <2>5, BeforeStrict
  <2>10. Cardinality(F) = Limit /\ F \subseteq L[d]
    BY <1>3, <2>3, <2>5, <2>6, <2>7, <2>8, <2>9, FirstFull
  <2>11. ASSUME NEW a \in Answers'
         PROVE  Precedes(a, i)
    <3>1. PICK k \in F : a = results[k]
      BY <1>7
    <3>2. Before(k, d) /\ k \in DOMAIN results /\ d \in DOMAIN results /\ results[k].item # i
      BY <1>3, <1>9, <2>3, <2>5, <2>10, <3>1
    <3> QED BY <1>9, <2>2, <2>3, <3>1, <3>2, SortedPrecedes
  <2> QED BY <1>7, <2>2, <2>10, <2>11
<1>10. NothingHidden'
  <2>1. \A i : Sure(i)' => Sure(i)
    BY <1>1, SureStays
  <2>2. \A i, a : Precedes(a, i)' = Precedes(a, i)
    <3>1. \A i : HitScore(i)' = HitScore(i)
      BY <1>1, SameScore
    <3> QED BY <1>1, <3>1 DEF Precedes, DateOf, Latest, BundleScore
  <2> QED BY <1>1, <1>9, <2>1, <2>2 DEF NothingHidden
<1> QED BY <1>1, <1>8, <1>10, StillComplete

---------------------------------------------------------------------------
(* Nothing is hidden: the others. *)

\* Writes date what they make, leave dates and revisions, and make nothing sure.
LEMMA WriteComplete ==
    ASSUME RetrievalInv, CompleteInv, Calling, UNCHANGED <<req, pc, locals, answer, pool>>,
           RetrievalInv', DatesInv', date' # 0, spoiled \subseteq spoiled', gone' \subseteq spoiled',
           \A i \in Items : created[i] # 0 => created'[i] = created[i],
           \A i \in Items : Latest(i) <= Latest(i)' /\ (Sure(i)' => Sure(i))
    PROVE  CompleteInv'
<1>1. UNCHANGED <<rank, hits, source, todo, got, results, ctx, checked, answer, pool, req, pc>>
  BY DEF locals
<1>2. /\ hits \in Seq(Items) /\ todo \in Seq(Items) /\ results \in Seq(Entries)
      /\ ToSet(hits) \subseteq Items /\ ToSet(todo) \subseteq Items
      /\ \A k \in DOMAIN todo : todo[k] \in ToSet(todo)
      /\ \A k \in DOMAIN results : results[k].item \in Items
  <2>1. hits \in Seq(Items) /\ todo \in Seq(Items) /\ results \in Seq(Entries)
    BY DEF RetrievalInv, LocalsInv
  <2>2. \A k \in DOMAIN todo : todo[k] \in ToSet(todo)
    BY DEF ToSet
  <2> QED BY <2>1, <2>2, InSet, ResultTyped
<1>3. \A i \in Items : Latest(i) \in Nat /\ Latest(i)' \in Nat
  BY DEF RetrievalInv, StoreInv, Latest
<1>4. PhaseInv'
  BY <1>1 DEF CompleteInv, PhaseInv, Pending
<1>5. FoundInv'
  BY <1>1, <1>2 DEF CompleteInv, FoundInv
<1>6. EntryInv'
  <2>1. \A i : HitScore(i)' = HitScore(i)
    BY <1>1, SameScore
  <2>2. ASSUME NEW i \in Items, NEW n \in 1..Latest(i)
        PROVE  n \in 1..Latest(i)'
    <3>1. Latest(i) \in Nat /\ Latest(i)' \in Nat /\ Latest(i) <= Latest(i)'
      BY <1>3
    <3> QED BY <3>1
  <2>3. \A i \in Items : got[i] <= Latest(i)'
    <3>1. \A i \in Items : got[i] \in Nat
      BY DEF RetrievalInv, LocalsInv
    <3> QED BY <1>3, <3>1 DEF CompleteInv, EntryInv
  <2> QED BY <1>1, <1>2, <2>1, <2>2, <2>3 DEF CompleteInv, EntryInv, BundleScore, ListScore
<1>7. CoverInv'
  <2>1. \A i : HitScore(i)' = HitScore(i) /\ Has(results, i)' = Has(results, i)
    BY <1>1, SameScore DEF Has
  <2> QED BY <1>1, <2>1 DEF CompleteInv, CoverInv
<1>8. SortedInv'
  <2>1. \A k \in DOMAIN results : created[results[k].item] # 0
    <3>1. \A k \in DOMAIN results : revs[results[k].item] # <<>>
      BY ResultTyped
    <3> QED BY <1>2, <3>1 DEF RetrievalInv, StoreInv
  <2>2. \A i, j \in Items : created[i] # 0 /\ created[j] # 0 =>
           Older(i, j)' = Older(i, j) /\ Younger(i, j)' = Younger(i, j)
    BY DEF Older, Younger
  <2>3. source # "bundle" => \A i \in ToSet(todo) : i \in Items /\ created[i] # 0
    BY <1>2 DEF CompleteInv, FoundInv
  <2>4. req.mode = "first" => source # "bundle"
    BY DEF CompleteInv, PhaseInv
  <2>5. req.mode = "first" => \A k, l \in DOMAIN todo : k < l => ~Older(todo[l], todo[k])'
    BY <1>1, <1>2, <2>2, <2>3, <2>4 DEF CompleteInv, SortedInv
  <2>6. ASSUME req.mode = "search", source = "list", Len(req.contexts) = 1
        PROVE  /\ ctx = <<>>
               /\ \A k, l \in DOMAIN todo : k < l => Younger(todo[k], todo[l])'
               /\ \A k, l \in DOMAIN results : k < l => Younger(results[k].item, results[l].item)'
               /\ \A k \in DOMAIN results : \A i \in ToSet(todo) : Younger(results[k].item, i)'
    BY <1>1, <1>2, <2>1, <2>2, <2>3, <2>6 DEF CompleteInv, SortedInv
  <2> QED BY <1>1, <2>5, <2>6 DEF SortedInv
<1> QED BY <1>1, <1>4, <1>5, <1>6, <1>7, <1>8, NotYet DEF CompleteInv, Calling

LEMMA MakeItemComplete ==
    ASSUME RetrievalInv, CompleteInv, RetrievalInv', NEW i \in Items, MakeItem(i)
    PROVE  CompleteInv'
<1>1. /\ Calling /\ UNCHANGED <<req, pc, locals, answer, pool>> /\ created[i] = 0
      /\ created' = [created EXCEPT ![i] = date] /\ date' = date + 1
      /\ UNCHANGED <<revs, gone, spoiled>>
  BY DEF MakeItem, Write
<1>2. /\ date \in Nat /\ date' # 0 /\ date # 0 /\ created \in [Items -> Nat]
      /\ revs \in [Items -> Seq([date : Nat, type : Types])]
  <2>1. /\ date \in Nat /\ date # 0 /\ created \in [Items -> Nat]
        /\ revs \in [Items -> Seq([date : Nat, type : Types])]
    BY DEF RetrievalInv, StoreInv, CompleteInv, PhaseInv
  <2>2. \A d \in Nat : d + 1 # 0
    OBVIOUS
  <2> QED BY <1>1, <2>1, <2>2
<1>3. \A j \in Items : created'[j] = IF j = i THEN date ELSE created[j]
  BY <1>1, <1>2
<1>4. \A j \in Items : \A n \in DOMAIN revs[j] : revs[j][n].date \in Nat
  <2>1. \A S : \A s \in Seq(S) : \A n \in DOMAIN s : s[n] \in S
    OBVIOUS
  <2>2. \A j \in Items : \A n \in DOMAIN revs[j] : revs[j][n] \in [date : Nat, type : Types]
    BY <1>2, <2>1
  <2> QED BY <2>2
<1>5. DatesInv'
  <2>1. \A j \in Items : created[j] \in Nat /\ created[j] < date
    BY <1>2 DEF CompleteInv, DatesInv
  <2>2. \A j \in Items : created'[j] < date'
    BY <1>1, <1>2, <1>3, <2>1
  <2>3. \A j \in Items : \A n \in DOMAIN revs[j] : revs[j][n].date < date'
    BY <1>1, <1>2, <1>4 DEF CompleteInv, DatesInv
  <2>4. ASSUME NEW j \in Items, NEW k \in Items, j # k, created'[j] = created'[k]
        PROVE  created'[j] = 0
    <3>1. created[j] # date /\ created[k] # date
      BY <1>2, <2>1
    <3>2. j # i /\ k # i
      BY <1>3, <2>4, <3>1
    <3> QED BY <1>3, <2>4, <3>2 DEF CompleteInv, DatesInv
  <2> QED BY <1>1, <2>2, <2>3, <2>4 DEF CompleteInv, DatesInv
<1>6. \A j \in Items : Latest(j) <= Latest(j)' /\ (Sure(j)' => Sure(j))
  <2>1. \A j \in Items : Latest(j) \in Nat /\ Latest(j)' = Latest(j)
    BY <1>1 DEF RetrievalInv, StoreInv, Latest
  <2> QED BY <1>1, <2>1, SureStays
<1>7. gone' \subseteq spoiled'
  BY <1>1 DEF CompleteInv, CoverInv
<1> QED BY <1>1, <1>2, <1>3, <1>5, <1>6, <1>7, WriteComplete

\* Writes that make no dates.
LEMMA UndatedComplete ==
    ASSUME RetrievalInv, CompleteInv, RetrievalInv', Write, UNCHANGED <<created, revs, date>>,
           spoiled \subseteq spoiled', gone' \subseteq spoiled'
    PROVE  CompleteInv'
<1>1. Calling /\ UNCHANGED <<req, pc, locals, answer, pool>>
  BY DEF Write
<1>2. DatesInv' /\ date' # 0
  BY DatesKept DEF CompleteInv, PhaseInv
<1>3. \A j \in Items : Latest(j) <= Latest(j)' /\ (Sure(j)' => Sure(j))
  <2>1. \A j \in Items : Latest(j) \in Nat /\ Latest(j)' = Latest(j)
    BY DEF RetrievalInv, StoreInv, Latest
  <2> QED BY <1>1, <2>1, SureStays
<1> QED BY <1>1, <1>2, <1>3, WriteComplete

LEMMA AddRevisionComplete ==
    ASSUME RetrievalInv, CompleteInv, RetrievalInv', NEW i \in Items, NEW t \in Types,
           AddRevision(i, t)
    PROVE  CompleteInv'
<1> DEFINE rev == [date |-> date, type |-> t]
<1>1. /\ Calling /\ UNCHANGED <<req, pc, locals, answer, pool>>
      /\ revs' = [revs EXCEPT ![i] = Append(revs[i], rev)] /\ date' = date + 1
      /\ spoiled' = (IF revs[i] = <<>> THEN spoiled \cup {i} ELSE spoiled)
      /\ UNCHANGED <<created, gone>>
  BY DEF AddRevision, Write
<1>2. /\ date \in Nat /\ date' # 0 /\ created \in [Items -> Nat]
      /\ revs \in [Items -> Seq([date : Nat, type : Types])]
  <2>1. /\ date \in Nat /\ created \in [Items -> Nat]
        /\ revs \in [Items -> Seq([date : Nat, type : Types])]
    BY DEF RetrievalInv, StoreInv
  <2>2. \A d \in Nat : d + 1 # 0
    OBVIOUS
  <2> QED BY <1>1, <2>1, <2>2
<1>3. \A j \in Items : revs'[j] = IF j = i THEN Append(revs[i], rev) ELSE revs[j]
  BY <1>1, <1>2
<1>4. \A j \in Items : \A n \in DOMAIN revs[j] : revs[j][n].date \in Nat /\ revs[j][n].date < date
  <2>1. \A S : \A s \in Seq(S) : \A n \in DOMAIN s : s[n] \in S
    OBVIOUS
  <2>2. \A j \in Items : \A n \in DOMAIN revs[j] : revs[j][n] \in [date : Nat, type : Types]
    BY <1>2, <2>1
  <2> QED BY <2>2 DEF CompleteInv, DatesInv
<1>5. /\ Len(revs[i]) \in Nat /\ DOMAIN revs[i] = 1..Len(revs[i])
      /\ DOMAIN revs'[i] = 1..(Len(revs[i]) + 1) /\ Len(revs'[i]) = Len(revs[i]) + 1
      /\ \A n \in DOMAIN revs[i] : revs'[i][n] = revs[i][n]
      /\ \A n \in DOMAIN revs'[i] \ DOMAIN revs[i] : n = Len(revs[i]) + 1 /\ revs'[i][n] = rev
  <2>1. revs[i] \in Seq([date : Nat, type : Types]) /\ revs'[i] = Append(revs[i], rev)
    BY <1>2, <1>3
  <2>2. \A s \in Seq([date : Nat, type : Types]) :
           /\ Len(s) \in Nat /\ DOMAIN s = 1..Len(s)
           /\ DOMAIN Append(s, rev) = 1..(Len(s) + 1) /\ Len(Append(s, rev)) = Len(s) + 1
           /\ \A n \in 1..Len(s) : Append(s, rev)[n] = s[n]
           /\ Append(s, rev)[Len(s) + 1] = rev
    OBVIOUS
  <2> HIDE DEF rev
  <2> DEFINE s == revs[i]
             s1 == revs'[i]
  <2>3. /\ Len(s) \in Nat /\ DOMAIN s = 1..Len(s)
        /\ DOMAIN s1 = 1..(Len(s) + 1) /\ Len(s1) = Len(s) + 1
        /\ \A n \in 1..Len(s) : s1[n] = s[n]
        /\ s1[Len(s) + 1] = rev
    BY <2>1, <2>2
  <2> HIDE DEF s, s1
  <2>4. \A n \in DOMAIN s1 \ DOMAIN s : n = Len(s) + 1
    BY <2>3
  <2>5. /\ \A n \in DOMAIN s : s1[n] = s[n]
        /\ \A n \in DOMAIN s1 \ DOMAIN s : n = Len(s) + 1 /\ s1[n] = rev
    BY <2>3, <2>4
  <2> QED BY <2>3, <2>5 DEF s, s1
<1>6. /\ rev.date = date
      /\ \A j \in Items : \A n \in DOMAIN revs'[j] :
            \/ n \in DOMAIN revs[j] /\ revs'[j][n] = revs[j][n]
            \/ j = i /\ n \notin DOMAIN revs[j] /\ revs'[j][n].date = date
  BY <1>3, <1>5
<1> HIDE DEF rev
<1>7. DatesInv'
  <2>1. \A j \in Items : created'[j] < date'
    BY <1>1, <1>2 DEF CompleteInv, DatesInv
  <2>2. \A j \in Items : \A n \in DOMAIN revs'[j] : revs'[j][n].date < date'
    BY <1>1, <1>2, <1>4, <1>6
  <2>3. ASSUME NEW j \in Items, NEW k \in Items, j # k,
               NEW n \in DOMAIN revs'[j], NEW m \in DOMAIN revs'[k]
        PROVE  revs'[j][n].date # revs'[k][m].date
    <3>1. CASE /\ n \in DOMAIN revs[j] /\ revs'[j][n] = revs[j][n]
               /\ m \in DOMAIN revs[k] /\ revs'[k][m] = revs[k][m]
      BY <2>3, <3>1 DEF CompleteInv, DatesInv
    <3>2. CASE revs'[j][n].date = date /\ m \in DOMAIN revs[k] /\ revs'[k][m] = revs[k][m]
      BY <1>2, <1>4, <3>2
    <3>3. CASE revs'[k][m].date = date /\ n \in DOMAIN revs[j] /\ revs'[j][n] = revs[j][n]
      BY <1>2, <1>4, <3>3
    <3> QED BY <1>6, <2>3, <3>1, <3>2, <3>3
  <2>4. ASSUME NEW j \in Items, NEW n \in DOMAIN revs'[j], NEW m \in DOMAIN revs'[j], n # m
        PROVE  revs'[j][n].date # revs'[j][m].date
    <3>1. CASE n \in DOMAIN revs[j] /\ m \in DOMAIN revs[j]
      BY <1>6, <2>4, <3>1 DEF CompleteInv, DatesInv
    <3>2. CASE n \notin DOMAIN revs[j] /\ m \in DOMAIN revs[j]
      BY <1>2, <1>4, <1>6, <3>2
    <3>3. CASE n \in DOMAIN revs[j] /\ m \notin DOMAIN revs[j]
      BY <1>2, <1>4, <1>6, <3>3
    <3>4. CASE n \notin DOMAIN revs[j] /\ m \notin DOMAIN revs[j]
      <4>1. j = i
        BY <1>6, <3>4
      <4> QED BY <1>5, <2>4, <3>4, <4>1
    <3> QED BY <3>1, <3>2, <3>3, <3>4
  <2> QED BY <1>1, <2>1, <2>2, <2>3, <2>4 DEF CompleteInv, DatesInv
<1>8. ASSUME NEW j \in Items
      PROVE  Latest(j) <= Latest(j)' /\ (Sure(j)' => Sure(j))
  <2>1. Latest(j) \in Nat
    BY DEF RetrievalInv, StoreInv, Latest
  <2>2. CASE j # i
    <3>1. revs'[j] = revs[j]
      BY <1>3, <2>2
    <3>2. Latest(j)' = Latest(j) /\ \A n : Matches(j, n)' = Matches(j, n)
      BY <1>1, <3>1 DEF Latest, Matches
    <3> QED BY <1>1, <2>1, <3>1, <3>2 DEF Sure
  <2>3. CASE j = i
    <3>1. Latest(j)' = Latest(j) + 1 /\ DOMAIN revs[j] = 1..Latest(j)
      BY <1>5, <2>3 DEF Latest
    <3>2. ASSUME Sure(j)'
          PROVE  Sure(j)
      <4>1. revs[j] # <<>> /\ j \in pool \ spoiled
        BY <1>1, <2>3, <3>2 DEF Sure
      <4>2. ASSUME NEW n \in 1..Latest(j)
            PROVE  Matches(j, n)
        <5>1. n \in 1..Latest(j)'
          BY <2>1, <3>1
        <5>2. Matches(j, n)'
          BY <3>2, <5>1 DEF Sure
        <5>3. revs'[j][n] = revs[j][n]
          BY <1>5, <2>3, <3>1
        <5> QED BY <1>1, <5>2, <5>3 DEF Matches
      <4> QED BY <4>1, <4>2 DEF Sure
    <3> QED BY <2>1, <3>1, <3>2
  <2> QED BY <2>2, <2>3
<1>9. spoiled \subseteq spoiled' /\ gone' \subseteq spoiled'
  BY <1>1 DEF CompleteInv, CoverInv
<1> QED BY <1>1, <1>2, <1>7, <1>8, <1>9, WriteComplete

\* Nothing a call holds has changed.
LEMMA RestComplete ==
    ASSUME CompleteInv, UNCHANGED <<store, req, pc, locals, answer, history>>
    PROVE  CompleteInv'
<1>1. /\ UNCHANGED <<rank, hits, source, todo, got, results, ctx, pool, spoiled>>
      /\ UNCHANGED <<created, revs, gone, date, req, pc, answer>>
  BY DEF store, locals, history
<1>2. \A i : HitScore(i)' = HitScore(i) /\ Has(results, i)' = Has(results, i) /\ Sure(i)' = Sure(i)
  BY <1>1, SameScore DEF Has, Sure, Latest, Matches
<1>3. \A i, a : Precedes(a, i)' = Precedes(a, i)
  BY <1>1, <1>2 DEF Precedes, DateOf, Latest, BundleScore
<1>4. DatesInv' /\ EntryInv' /\ FoundInv' /\ SortedInv'
  BY <1>1, DatesKept, EntryKept, FoundKept, SortedKept DEF CompleteInv
<1>5. PhaseInv'
  BY <1>1 DEF CompleteInv, PhaseInv, Pending
<1>6. CoverInv'
  BY <1>1, <1>2 DEF CompleteInv, CoverInv
<1>7. NothingHidden'
  BY <1>1, <1>2, <1>3 DEF CompleteInv, NothingHidden, Answers
<1> QED BY <1>4, <1>5, <1>6, <1>7 DEF CompleteInv

LEMMA OthersComplete ==
    ASSUME RetrievalInv, CompleteInv, RetrievalInv', Others
    PROVE  CompleteInv'
<1>1. CASE MakeProject
  BY <1>1, UndatedComplete DEF MakeProject, CompleteInv, CoverInv
<1>2. CASE Elapse
  BY <1>2, RestComplete DEF Elapse
<1>3. ASSUME NEW i \in Items, MakeItem(i) \/ Delete(i)
      PROVE  CompleteInv'
  <2>1. CASE MakeItem(i)
    BY <2>1, MakeItemComplete
  <2>2. CASE Delete(i)
    BY <2>2, UndatedComplete DEF Delete, CompleteInv, CoverInv
  <2> QED BY <1>3, <2>1, <2>2
<1>4. ASSUME NEW i \in Items, NEW t \in Types, AddRevision(i, t)
      PROVE  CompleteInv'
  BY <1>4, AddRevisionComplete
<1>5. ASSUME NEW i \in Items, NEW n \in 1..MaxRevs, Publish(i, n)
      PROVE  CompleteInv'
  BY <1>5, UndatedComplete DEF Publish, CompleteInv, CoverInv
<1> QED BY <1>1, <1>2, <1>3, <1>4, <1>5 DEF Others

---------------------------------------------------------------------------
(* Nothing is hidden. *)

LEMMA InitComplete ==
    ASSUME RetrievalInit
    PROVE  CompleteInv
<1>1. PICK s \in Stores : created = s.created /\ revs = s.revs
  BY DEF RetrievalInit
<1>2. /\ gone = {} /\ date = Today /\ pc = "idle" /\ hits = <<>> /\ source = "hits" /\ todo = <<>>
      /\ got = None /\ results = <<>> /\ answer = Pending /\ spoiled = {} /\ pool = {}
  BY DEF RetrievalInit
<1>3. DatesInv
  BY <1>1, <1>2, StoresAssumption DEF DatesInv
<1>4. PhaseInv
  <2>1. date # 0
    BY <1>2, RetrievalAssumption
  <2> QED BY <1>2, <2>1 DEF PhaseInv
<1>5. FoundInv
  BY <1>2, EmptySet DEF FoundInv
<1>6. EntryInv
  <2>1. \A i \in Items : got[i] = 0 /\ Latest(i) \in Nat
    BY <1>1, <1>2, StoresAssumption DEF None, Latest
  <2> QED BY <1>2, <2>1 DEF EntryInv
<1>7. CoverInv
  BY <1>2 DEF CoverInv, Sure
<1>8. SortedInv
  BY <1>2 DEF SortedInv
<1>9. NothingHidden
  BY <1>2 DEF NothingHidden, Pending
<1> QED BY <1>3, <1>4, <1>5, <1>6, <1>7, <1>8, <1>9 DEF CompleteInv

LEMMA StepComplete ==
    ASSUME RetrievalInv, CompleteInv, Step
    PROVE  CompleteInv'
<1>1. ASSUME GetProject \/ Search \/ CheckProject \/ SearchFails \/ EndSearch
      PROVE  CompleteInv'
  BY <1>1, GetProjectComplete, SearchComplete, CheckProjectComplete, SearchFailsComplete,
     EndSearchComplete
<1>2. ASSUME BatchPublished \/ BatchLatest \/ BatchFails \/ TakeBatch
      PROVE  CompleteInv'
  BY <1>2, BatchPublishedComplete, BatchLatestComplete, BatchFailsComplete, TakeBatchComplete
<1>3. ASSUME ReadPublished \/ ReadLatest \/ ReadRevisions \/ ReadFails \/ EndItems
      PROVE  CompleteInv'
  BY <1>3, ReadPublishedComplete, ReadLatestComplete, ReadRevisionsComplete, ReadFailsComplete,
     EndItemsComplete
<1>4. ASSUME VerifyProject \/ Bundle \/ Fallback \/ ListItems \/ Finish
      PROVE  CompleteInv'
  BY <1>4, VerifyProjectComplete, BundleComplete, FallbackComplete, ListItemsComplete,
     FinishComplete
<1> QED BY <1>1, <1>2, <1>3, <1>4 DEF Step

\* Every candidate of which all reads succeeded waits or has a result, at every moment of a
\* call (tool_memory_retrieve), and what is resolved or has a result is in the order the
\* answer will cut.
THEOREM CompleteInvariant == RetrievalSpec => []CompleteInv
<1>1. RetrievalInit => CompleteInv
  BY InitComplete
<1>2. RetrievalInv /\ RetrievalInv' /\ CompleteInv /\ [RetrievalNext]_retrievalVars => CompleteInv'
  <2> SUFFICES ASSUME RetrievalInv, RetrievalInv', CompleteInv, [RetrievalNext]_retrievalVars
               PROVE  CompleteInv'
    OBVIOUS
  <2>1. CASE UNCHANGED retrievalVars
    BY <2>1, RestComplete DEF retrievalVars
  <2>2. CASE \E r \in Requests : Retrieve(r)
    BY <2>2, RetrieveComplete
  <2>3. CASE Step
    BY <2>3, StepComplete
  <2>4. CASE Others
    BY <2>4, OthersComplete
  <2> QED BY <2>1, <2>2, <2>3, <2>4 DEF RetrievalNext
<1> QED BY <1>1, <1>2, RetrievalInvariant, PTL DEF RetrievalSpec

\* A candidate of which all reads succeeded and that matches whichever revision is taken is in
\* the answer, unless the answer is full of others that come before it: no fault, no write and
\* no cut of tool_memory_retrieve hides a memory from it.
THEOREM NothingStaysHidden == RetrievalSpec => []NothingHidden
BY CompleteInvariant, PTL DEF CompleteInv
=============================================================================
