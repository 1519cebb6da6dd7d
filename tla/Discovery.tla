------------------------------ MODULE Discovery ------------------------------
(***************************************************************************)
(* Where a client connects (python/kumiho/discovery.py): resolve answers a *)
(* tenant hint from the cache file while its record is young enough, and   *)
(* asks the control plane (external) otherwise.  The file is read, extended*)
(* and replaced without a lock, through one temporary file all threads and *)
(* processes share; an open file keeps its inode across the replacement.   *)
(* Encryption is left out: a file that cannot be decoded reads as empty.   *)
(***************************************************************************)
EXTENDS Integers, Sequences, FiniteSets

CONSTANTS
    Threads,
    Users, NoUser,     \* the identities of bearer tokens
    Hints, NoHint,     \* tenant hints; NoHint stands for "__default__"
    Tenants, NoTenant,
    Serves,            \* user -> hint -> the tenant, or NoTenant: refused
    ControlPlane,      \* users whose bearer token is a control-plane token
    RefreshAfter, Life,\* refresh_at and expires_at, in ticks after issued_at
    Retries,           \* max_retries of the replacement (5)
    MaxTime,           \* bound: the clock
    MaxFaults          \* bound: refusals and dropped connections

Keys == Hints \cup {NoHint}

ASSUME DiscoveryAssumption ==
    /\ IsFiniteSet(Threads)
    /\ NoUser \notin Users /\ NoHint \notin Hints /\ NoTenant \notin Tenants
    /\ Serves \in [Users -> [Keys -> Tenants \cup {NoTenant}]]
    /\ ControlPlane \subseteq Users
    /\ RefreshAfter \in Nat /\ Life \in Nat /\ RefreshAfter <= Life
    /\ Retries \in Nat \ {0} /\ MaxTime \in Nat /\ MaxFaults \in Nat

VARIABLES
    now,
    tokens,   \* env: KUMIHO_AUTH_TOKEN; file: the credentials file
    path,     \* the inode of the cache file, or NoInode
    tmp,      \* the inode of the temporary file, or NoInode
    data,     \* inode -> its content
    res,      \* thread -> the resolution under way
    faults

disk == <<path, tmp, data>>
discovery == <<now, tokens, disk, res, faults>>

NoInode == 0
Inodes == 1..(Cardinality(Threads) + 1)

\* A DiscoveryRecord; whom it was issued for is history.
Record(u, k) == [user |-> u, key |-> k, tenant |-> Serves[u][k], issued |-> now]
NoRecord == [user |-> NoUser, key |-> NoHint, tenant |-> NoTenant, issued |-> 0]
Records == [user : Users \cup {NoUser}, key : Keys, tenant : Tenants \cup {NoTenant},
            issued : 0..MaxTime]
NoRecords == [k \in Keys |-> NoRecord]

Expired(r) == now >= r.issued + Life
ShouldRefresh(r) == now >= r.issued + RefreshAfter

Contents == [kind : {"empty", "torn", "json"}, map : [Keys -> Records]]
Empty == [kind |-> "empty", map |-> NoRecords]
Torn == [kind |-> "torn", map |-> NoRecords]
Json(map) == [kind |-> "json", map |-> map]

\* _read_all: a missing file and one that cannot be decoded hold nothing.
ReadAll == IF path = NoInode THEN NoRecords ELSE data[path].map

\* Mutant: one record for every hint.
CacheKeyUnhinted(k) == NoHint

\* The entry a hint is cached under; no hint has an entry of its own.
CacheKey(k) == k

Quiet == [pc |-> "idle", user |-> NoUser, key |-> NoHint, cached |-> NoRecord,
          fresh |-> NoRecord, left |-> <<>>, map |-> NoRecords, fd |-> NoInode, tries |-> 0]

Phases == {"idle", "load", "fetch", "read", "open", "write", "replace",
           "resolved", "refused", "broken"}

\* load_bearer_token: the environment before the credentials file.
Bearer == IF tokens.env # NoUser THEN tokens.env ELSE tokens.file

\* A control-plane token is backed by the Firebase token of the credentials file.
Candidates(u) ==
    IF u \in ControlPlane /\ tokens.file # NoUser THEN <<u, tokens.file>> ELSE <<u>>

To(t, r) == res' = [res EXCEPT ![t] = r]

\* resolve answers with record r.
Answer(t, r) == To(t, [Quiet EXCEPT !.pc = "resolved", !.user = res[t].user,
                                    !.key = res[t].key, !.fresh = r])

\* resolve raises, a DiscoveryError ("refused") or anything else ("broken").
Raise(t, pc) == To(t, [Quiet EXCEPT !.pc = pc, !.user = res[t].user, !.key = res[t].key])

---------------------------------------------------------------------------

Resolve(t, u, k, force) ==
    /\ res[t].pc = "idle"
    /\ To(t, [Quiet EXCEPT !.pc = IF force THEN "fetch" ELSE "load", !.user = u, !.key = k,
                           !.left = Candidates(u)])

\* The cached record answers while it is young; due for a refresh it is kept aside.
Load(t) ==
    LET cached == ReadAll[CacheKey(res[t].key)]
        usable == cached # NoRecord /\ ~Expired(cached)
    IN  /\ res[t].pc = "load"
        /\ IF usable /\ ~ShouldRefresh(cached)
           THEN Answer(t, cached)
           ELSE To(t, [res[t] EXCEPT !.pc = "fetch",
                                     !.cached = IF usable THEN cached ELSE NoRecord])
        /\ UNCHANGED <<now, tokens, disk, faults>>

FetchServed(t) ==
    LET u == Head(res[t].left)
    IN  /\ res[t].pc = "fetch" /\ Serves[u][res[t].key] # NoTenant
        /\ To(t, [res[t] EXCEPT !.pc = "read", !.fresh = Record(u, res[t].key)])
        /\ UNCHANGED <<now, tokens, disk, faults>>

\* A status of 400 and above, for a user the tenant does not have or any other reason.
Refusal(t) ==
    /\ res[t].pc = "fetch"
    /\ IF Serves[Head(res[t].left)][res[t].key] = NoTenant THEN UNCHANGED faults
       ELSE faults < MaxFaults /\ faults' = faults + 1
    /\ UNCHANGED <<now, tokens, disk>>

\* Mutant: the record that was kept aside is not looked at again.
FetchRefusedUnchecked(t) ==
    LET left == Tail(res[t].left)
        cached == res[t].cached
    IN  /\ Refusal(t)
        /\ IF left # <<>> THEN To(t, [res[t] EXCEPT !.left = left])
           ELSE IF cached # NoRecord THEN Answer(t, cached)
           ELSE Raise(t, "refused")

\* The next candidate; after the last the record kept aside, unless it ran out meanwhile.
FetchRefused(t) ==
    LET left == Tail(res[t].left)
        cached == res[t].cached
    IN  /\ Refusal(t)
        /\ IF left # <<>> THEN To(t, [res[t] EXCEPT !.left = left])
           ELSE IF cached # NoRecord /\ ~Expired(cached) THEN Answer(t, cached)
           ELSE Raise(t, "refused")

\* No connection: not a DiscoveryError, so neither is the next candidate tried nor
\* the record kept aside used.
FetchBroken(t) ==
    /\ res[t].pc = "fetch" /\ faults < MaxFaults
    /\ faults' = faults + 1
    /\ Raise(t, "broken")
    /\ UNCHANGED <<now, tokens, disk>>

\* store: what the file holds now, and the fresh record ...
ReadForStore(t) ==
    /\ res[t].pc = "read"
    /\ To(t, [res[t] EXCEPT !.pc = "open",
                            !.map = [ReadAll EXCEPT ![CacheKey(res[t].key)] = res[t].fresh]])
    /\ UNCHANGED <<now, tokens, disk, faults>>

\* ... into the temporary file, emptied or new ...
Opened(i) == \E t \in Threads : res[t].fd = i
InUse(i) == i \in {path, tmp} \/ Opened(i)

OpenTmp(t) ==
    /\ res[t].pc = "open"
    /\ \E i \in Inodes :
          /\ IF tmp # NoInode THEN i = tmp
             ELSE i = CHOOSE j \in Inodes : ~InUse(j)
          /\ tmp' = i
          /\ data' = [data EXCEPT ![i] = Empty]
          /\ To(t, [res[t] EXCEPT !.pc = "write", !.fd = i])
    /\ UNCHANGED <<now, tokens, path, faults>>

\* ... over what another thread may have written there: a shorter text leaves the
\* end of the longer one ...
WriteTmp(t) ==
    LET i == res[t].fd
        own == Json(res[t].map)
        kept == i \in {path, tmp} \/ \E u \in Threads \ {t} : res[u].fd = i
    IN  /\ res[t].pc = "write"
        /\ To(t, [res[t] EXCEPT !.pc = "replace", !.fd = NoInode, !.map = NoRecords])
        /\ \E c \in IF data[i] = Empty THEN {own} ELSE {own, Torn} :
              data' = [data EXCEPT ![i] = IF kept THEN c ELSE Empty]
        /\ UNCHANGED <<now, tokens, path, tmp, faults>>

\* Mutant: the cache file becomes a second name of the temporary file.
RenameAsLink ==
    /\ path' = tmp /\ UNCHANGED tmp
    /\ data' = [i \in Inodes |-> IF i = path /\ ~Opened(i) THEN Empty ELSE data[i]]

\* What the cache file held is gone, unless a thread still has it open.
Rename ==
    /\ path' = tmp /\ tmp' = NoInode
    /\ data' = [i \in Inodes |-> IF i = path /\ ~Opened(i) THEN Empty ELSE data[i]]

\* ... and over the cache file.  Another thread may have taken the temporary file
\* away: after the last attempt its absence (an OSError) is raised.
Replace(t) ==
    /\ res[t].pc = "replace"
    /\ IF tmp # NoInode
       THEN Rename /\ Answer(t, res[t].fresh)
       ELSE /\ IF res[t].tries + 1 < Retries
               THEN To(t, [res[t] EXCEPT !.tries = @ + 1])
               ELSE Raise(t, "broken")
            /\ UNCHANGED disk
    /\ UNCHANGED <<now, tokens, faults>>

DiscoveryStep(t) ==
    Load(t) \/ FetchServed(t) \/ FetchRefused(t) \/ FetchBroken(t)
      \/ ReadForStore(t) \/ OpenTmp(t) \/ WriteTmp(t) \/ Replace(t)

DiscoveryInit ==
    /\ now = 0
    /\ path = NoInode /\ tmp = NoInode
    /\ data = [i \in Inodes |-> Empty]
    /\ res = [t \in Threads |-> Quiet]
    /\ faults = 0
=============================================================================
