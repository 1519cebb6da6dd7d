------------------------------- MODULE Spaces -------------------------------
(***************************************************************************)
(* Where a memory is stored (python/kumiho/mcp_server.py): a space hint is *)
(* resolved against the existing spaces of the project, and the space is   *)
(* created segment by segment.  Three process-wide caches spare the server *)
(* (external) the calls: the listing of the spaces, kept for a time to     *)
(* live, and the set of spaces known to exist; nobody tells them of a      *)
(* deletion.  Tool calls run on threads and interleave at every RPC.       *)
(*                                                                         *)
(* One project of one tenant; a path is the sequence of the segments below *)
(* the project, a segment a number in the alphabetical order of names.     *)
(***************************************************************************)
EXTENDS Integers, FiniteSets, SequencesExt, FiniteSetsExt

CONSTANTS
    Calls,       \* threads, each running one store after another
    Paths,       \* the space paths callers name
    Stem,        \* segment -> what _stem_slug leaves of it
    TTL,         \* _SPACE_REGISTRY_TTL_SECONDS, in ticks
    MaxStores,   \* bound: stores begun
    MaxTime,     \* bound: the clock
    MaxDeletes,  \* bound: spaces deleted
    MaxFaults    \* bound: failed or unanswered RPCs

ASSUME SpacesAssumption ==
    /\ Paths \subseteq Seq(Nat) \ {<<>>}
    /\ \A p \in Paths : \A n \in 1..Len(p) : SubSeq(p, 1, n) \in Paths
    /\ TTL \in Nat \ {0}
    /\ MaxStores \in Nat /\ MaxTime \in Nat /\ MaxDeletes \in Nat /\ MaxFaults \in Nat

VARIABLES
    spaces,     \* server: the paths of the existing spaces
    aliases,    \* server: path -> its "memory_aliases"
    deletedAt,  \* path -> when it was last deleted, or Never
    deletes,
    known,      \* _known_spaces
    registry,   \* _space_registry_cache: [at, paths], or NoListing
    now,        \* time.monotonic()
    call,       \* call -> its progress
    stores,     \* stores begun
    apart,      \* history: spaces created and ensured with no other store under way
    faults

server == <<spaces, aliases, deletedAt, deletes>>
cache == <<known, registry>>
vars == <<server, cache, now, call, stores, apart, faults>>

Never == 0

NoListing == [at |-> Never, paths |-> {}]

Fault == faults < MaxFaults /\ faults' = faults + 1

Idle == [pc |-> "idle", hint |-> <<>>, path |-> <<>>, hinted |-> FALSE, at |-> Never,
         listed |-> {}, read |-> {}, depth |-> 0, made |-> FALSE,
         before |-> {}]   \* history: spaces ensured before a hint was looked up

\* The store ends; its locals are gone.
Done(c, pc) == call' = [call EXCEPT ![c] = [Idle EXCEPT !.pc = pc]]

\* The siblings whose name has the same stem.
Variants(p, within) ==
    {q \in within : Front(q) = Front(p) /\ q # p /\ Stem[Last(q)] = Stem[Last(p)]}

---------------------------------------------------------------------------
(* Resolving a hint. *)

\* A store begins; an explicit space_path is used verbatim, a hint is looked up:
\* in the cached listing while that is younger than TTL.
Begin(c, p, hinted) ==
    LET fresh == registry # NoListing /\ now - registry.at < TTL
    IN  /\ call[c].pc \in {"idle", "ok", "error"} /\ stores < MaxStores
        /\ stores' = stores + 1
        /\ call' = [call EXCEPT ![c] =
             [Idle EXCEPT
               !.pc = IF ~hinted THEN "ensure" ELSE IF fresh THEN "resolve" ELSE "list",
               !.hint = p, !.path = p, !.hinted = hinted,
               !.at = IF hinted /\ ~fresh THEN now ELSE Never,
               !.listed = IF hinted /\ fresh THEN registry.paths ELSE {},
               !.before = IF hinted THEN known \cap spaces ELSE {}]]
        /\ UNCHANGED <<server, cache, now, faults, apart>>

\* The listing, outside the lock; a failed one leaves the path as it is.
List(c) ==
    /\ call[c].pc = "list"
    /\ \/ call' = [call EXCEPT ![c].listed = spaces, ![c].pc = "cache"] /\ UNCHANGED faults
       \/ Fault /\ call' = [call EXCEPT ![c].pc = "ensure"]
    /\ UNCHANGED <<server, cache, now, stores, apart>>

\* Mutant: the age of the listing counts from when it arrived.
CacheListingLate(c) ==
    /\ call[c].pc = "cache"
    /\ registry' = [at |-> now, paths |-> call[c].listed]
    /\ call' = [call EXCEPT ![c].pc = "resolve"]
    /\ UNCHANGED <<server, known, now, stores, apart, faults>>

\* Last writer wins; the age counts from before the listing.
CacheListing(c) ==
    /\ call[c].pc = "cache"
    /\ registry' = [at |-> call[c].at, paths |-> call[c].listed]
    /\ call' = [call EXCEPT ![c].pc = "resolve"]
    /\ UNCHANGED <<server, known, now, stores, apart, faults>>

\* An existing space, or else its first variant, whose aliases are then read.
Resolve(c) ==
    LET p == call[c].hint
        variants == Variants(p, call[c].listed)
        first == CHOOSE q \in variants : \A r \in variants : Last(q) <= Last(r)
        unify == p \notin call[c].listed /\ variants # {}
    IN  /\ call[c].pc = "resolve"
        /\ call' = [call EXCEPT ![c].path = IF unify THEN first ELSE p,
                                ![c].listed = {},
                                ![c].pc = IF unify THEN "alias" ELSE "ensure"]
        /\ UNCHANGED <<server, cache, now, stores, apart, faults>>

\* _record_space_alias reads the attribute (any failure: no record) ...
ReadAliases(c) ==
    LET p == call[c].path
    IN  /\ call[c].pc = "alias"
        /\ \/ /\ p \in spaces
              /\ call' = [call EXCEPT ![c].read = aliases[p],
                   ![c].pc = IF Last(call[c].hint) \in aliases[p] THEN "ensure" ELSE "record"]
              /\ UNCHANGED faults
           \/ p \notin spaces /\ call' = [call EXCEPT ![c].pc = "ensure"] /\ UNCHANGED faults
           \/ Fault /\ call' = [call EXCEPT ![c].pc = "ensure"]
        /\ UNCHANGED <<server, cache, now, stores, apart>>

\* ... and writes back what it read, with the alias appended.
RecordAlias(c) ==
    LET p == call[c].path
    IN  /\ call[c].pc = "record"
        /\ \/ /\ p \in spaces
              /\ aliases' = [aliases EXCEPT ![p] = call[c].read \cup {Last(call[c].hint)}]
              /\ UNCHANGED faults
           \/ p \notin spaces /\ UNCHANGED <<aliases, faults>>
           \/ Fault /\ UNCHANGED aliases
        /\ call' = [call EXCEPT ![c].pc = "ensure"]
        /\ UNCHANGED <<spaces, deletedAt, deletes, cache, now, stores, apart>>

---------------------------------------------------------------------------
(* _ensure_space_path. *)

\* The server (external): a space is created under an existing one.
Parents(p) == IF Len(p) = 1 THEN {} ELSE {Front(p)}

\* A known space is not asked for again.
KnownSpace(c) ==
    /\ call[c].pc = "ensure" /\ call[c].depth = 0 /\ call[c].path \in known
    /\ call' = [call EXCEPT ![c].pc = "item"]
    /\ UNCHANGED <<server, cache, now, stores, apart, faults>>

\* No other store is under way.
Alone(c) == \A d \in Calls \ {c} : call[d].pc \in {"idle", "ok", "error"}

\* The next segment is created, unless it already exists.
MakeSpace(c) ==
    LET p == SubSeq(call[c].path, 1, call[c].depth + 1)
    IN  /\ call[c].pc = "ensure" /\ call[c].depth < Len(call[c].path)
        /\ call[c].depth > 0 \/ call[c].path \notin known
        /\ p \in spaces \/ Parents(p) \subseteq spaces
        /\ spaces' = spaces \cup {p}
        /\ call' = [call EXCEPT ![c].depth = @ + 1, ![c].made = @ \/ p \notin spaces]
        /\ apart' = IF Alone(c) THEN apart \cup ({p} \ spaces) ELSE apart
        /\ UNCHANGED <<aliases, deletedAt, deletes, cache, now, stores, faults>>

\* The answer is lost and the channel's retry asks again: the space is found existing.
MakeSpaceLost(c) ==
    LET p == SubSeq(call[c].path, 1, call[c].depth + 1)
    IN  /\ call[c].pc = "ensure" /\ call[c].depth < Len(call[c].path)
        /\ call[c].depth > 0 \/ call[c].path \notin known
        /\ Fault
        /\ Parents(p) \subseteq spaces
        /\ spaces' = spaces \cup {p}
        /\ UNCHANGED <<aliases, deletedAt, deletes, cache, now, call, stores, apart>>

\* A parent deleted meanwhile, or a call that failed before or after it took effect,
\* leaves the tool: neither cache learns of what was created.
MakeSpaceFails(c) ==
    LET p == SubSeq(call[c].path, 1, call[c].depth + 1)
    IN  /\ call[c].pc = "ensure" /\ call[c].depth < Len(call[c].path)
        /\ call[c].depth > 0 \/ call[c].path \notin known
        /\ \/ p \notin spaces /\ ~(Parents(p) \subseteq spaces) /\ UNCHANGED <<spaces, faults>>
           \/ Fault /\ UNCHANGED spaces
           \/ Fault /\ Parents(p) \subseteq spaces /\ spaces' = spaces \cup {p}
        /\ Done(c, "error")
        /\ UNCHANGED <<aliases, deletedAt, deletes, cache, now, stores, apart>>

\* Mutant: creating a space does not invalidate the listing.
EnsuredKeepsListing(c) ==
    /\ call[c].pc = "ensure" /\ call[c].depth = Len(call[c].path)
    /\ known' = known \cup {call[c].path}
    /\ call' = [call EXCEPT ![c].pc = "item"]
    /\ apart' = IF Alone(c) THEN apart ELSE apart \ {call[c].path}
    /\ UNCHANGED <<server, registry, now, stores, faults>>

\* The path is known from now on, and a new space invalidates the listing.
Ensured(c) ==
    /\ call[c].pc = "ensure" /\ call[c].depth = Len(call[c].path)
    /\ known' = known \cup {call[c].path}
    /\ registry' = IF call[c].made THEN NoListing ELSE registry
    /\ call' = [call EXCEPT ![c].pc = "item"]
    /\ apart' = IF Alone(c) THEN apart ELSE apart \ {call[c].path}
    /\ UNCHANGED <<server, now, stores, faults>>

\* The memory's item is created in the space, if the space is there.
CreateItem(c) ==
    /\ call[c].pc = "item"
    /\ Done(c, IF call[c].path \in spaces THEN "ok" ELSE "error")
    /\ UNCHANGED <<server, cache, now, stores, apart, faults>>

---------------------------------------------------------------------------
\* tool_delete_space with force, here or in another process; no cache is told.
DeleteSpace(p) ==
    LET gone == {q \in spaces : IsPrefix(p, q)}
    IN  /\ p \in spaces /\ deletes < MaxDeletes
        /\ spaces' = spaces \ gone
        /\ aliases' = [q \in Paths |-> IF q \in gone THEN {} ELSE aliases[q]]
        /\ deletedAt' = [q \in Paths |-> IF q \in gone THEN now ELSE deletedAt[q]]
        /\ deletes' = deletes + 1
        /\ UNCHANGED <<cache, now, call, stores, apart, faults>>

Tick ==
    /\ now < MaxTime
    /\ now' = now + 1
    /\ UNCHANGED <<server, cache, call, stores, apart, faults>>

Init ==
    /\ spaces = {}
    /\ aliases = [p \in Paths |-> {}]
    /\ deletedAt = [p \in Paths |-> Never]
    /\ deletes = 0
    /\ known = {}
    /\ registry = NoListing
    /\ now = 1
    /\ call = [c \in Calls |-> Idle]
    /\ stores = 0
    /\ apart = {}
    /\ faults = 0

Next ==
    \/ \E c \in Calls :
          \/ \E p \in Paths, hinted \in BOOLEAN : Begin(c, p, hinted)
          \/ List(c) \/ CacheListing(c) \/ Resolve(c) \/ ReadAliases(c) \/ RecordAlias(c)
          \/ KnownSpace(c) \/ MakeSpace(c) \/ MakeSpaceLost(c) \/ MakeSpaceFails(c) \/ Ensured(c)
          \/ CreateItem(c)
    \/ \E p \in Paths : DeleteSpace(p)
    \/ Tick

Spec == Init /\ [][Next]_vars

---------------------------------------------------------------------------
(* Properties *)

\* A listing is never used for longer than its time to live: every space it still
\* offers existed less than TTL ago, however long the listing took to arrive.
ListingIsRecent ==
    registry # NoListing /\ now - registry.at < TTL
        => \A p \in registry.paths : p \in spaces \/ now - deletedAt[p] < TTL

\* Neither the space nor one inside it was ever deleted.  (A nested creation that fails
\* because its parent was deleted leaves the listing without the spaces it made above.)
Kept(q) == \A r \in Paths : IsPrefix(q, r) => deletedAt[r] = Never

\* The comment of _ensure_space_path: without the invalidation "back-to-back stores
\* wouldn't see each other's freshly-created spaces within the cache TTL".  A hint
\* creates no space beside a variant that an earlier store created and ensured with no
\* other store under way, however the stores in between interleaved, listed, deleted or
\* let the listing age -- as long as no call failed, the space was never deleted and
\* nothing in the variant was.
SeesBackToBack ==
    \A c \in Calls : call[c].hinted /\ faults = 0 =>
        \A p \in spaces' \ spaces, q \in call[c].before \cap apart \cap spaces :
            /\ call'[c].depth # call[c].depth /\ p = call[c].path
            /\ deletedAt[p] = Never /\ Kept(q)
            => q \notin Variants(p, spaces)

BackToBackStoresConverge == [][SeesBackToBack]_vars
===========================================================================
