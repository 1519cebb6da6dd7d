------------------------------ MODULE Sessions -------------------------------
(***************************************************************************)
(* Which client a call of the package works with (python/kumiho/__init__.py*)
(* and mcp_server.py): the one bound by use_client, or else the process's  *)
(* default client, which get_client builds on first use and every tool call*)
(* of a local server configures anew.  Handles of projects are cached per  *)
(* tenant together with the client they were read with, and never dropped; *)
(* tool_delete_project archives and destroys what they are handles of.     *)
(* Calls run on threads of one process; a hosted server binds a client to  *)
(* every request.                                                          *)
(***************************************************************************)
EXTENDS Discovery

CONSTANTS
    Logins,      \* the tokens a machine may hold: [env, file]
    LocalServer, \* a self-hosted server answers on the loopback address
    MaxCalls,    \* bound: calls begun
    MaxLogins    \* bound: changes of the tokens

ASSUME SessionsAssumption ==
    /\ Logins \subseteq [env : Users \cup {NoUser}, file : Users \cup {NoUser}]
    /\ LocalServer \in BOOLEAN
    /\ MaxCalls \in Nat /\ MaxLogins \in Nat

VARIABLES
    hosted,    \* the process is a hosted server (KUMIHO_MCP_HOSTED)
    default,   \* _default_client, or NoClient
    bound,     \* thread -> _client_context_var, or NoClient
    handles,   \* _project_cache: scope -> the client of the cached handle, or NoClient
    projects,  \* servers (external): what has become of the project there
    call,      \* thread -> the call under way
    calls, logins

session == <<hosted, default, bound, handles, projects, call>>
bounds == <<calls, logins>>
vars == <<discovery, session, bounds>>

Targets == {"region", "local", "legacy", "none"}

\* A client: whose token it sends, the tenant header and the server it sends to;
\* the hint it was built for and whose record routed it are history.
Client(u, r) == [user |-> u, tenant |-> r.tenant, at |-> "region", hint |-> r.key, by |-> r.user]
Unrouted(u, at) == [user |-> u, tenant |-> NoTenant, at |-> at, hint |-> NoHint, by |-> NoUser]
NoClient == Unrouted(NoUser, "none")
Clients == [user : Users \cup {NoUser}, tenant : Tenants \cup {NoTenant},
            at : Targets, hint : Keys, by : Users \cup {NoUser}]

\* A client without a token: resolve_local_ce_endpoint, or else the legacy target.
Tokenless == Unrouted(NoUser, IF LocalServer THEN "local" ELSE "legacy")

Servers == [at : Targets, tenant : Tenants \cup {NoTenant}]
Server(c) == [at |-> c.at, tenant |-> c.tenant]

Local == "local"
Scopes == Tenants \cup {Local}

\* Mutant: the cache is keyed by the project's name alone.
ScopeUnkeyed(t) == Local

\* _tenant_scope: a hosting layer binds a request's context together with its client.
Scope(t) == IF hosted THEN bound[t].tenant ELSE Local

\* kind: a tool that stores, tool_delete_project, a script, get_tenant_info.
NoCall == [pc |-> "idle", kind |-> "none", client |-> NoClient, info |-> NoRecord]
Stages == {"idle", "configure", "get", "boot", "assign", "return", "cached", "look", "create",
           "find", "archive", "destroy", "done", "failed"}

At(t, pc) == call' = [call EXCEPT ![t].pc = pc]
With(t, pc, c) == call' = [call EXCEPT ![t].pc = pc, ![t].client = c]

---------------------------------------------------------------------------
(* A call begins. *)

Begins(t) ==
    /\ call[t].pc \in {"idle", "done", "failed"}
    /\ calls < MaxCalls /\ calls' = calls + 1

\* Configured, a tool that stores goes to the cached project, one that deletes to get_client.
Begun(kind) ==
    CASE kind = "tool" -> "cached" [] kind = "delete" -> "get" [] OTHER -> "done"

\* A tool of a hosted server: the hosting layer has entered use_client with a client
\* for the verified token, and _ensure_configured leaves it at that (without one it raises).
HostedCall(t, u, kind) ==
    LET tenant == Serves[u][NoHint]
    IN  /\ hosted /\ Begins(t) /\ tenant # NoTenant
        /\ bound' = [bound EXCEPT ![t] = Client(u, [NoRecord EXCEPT !.tenant = tenant, !.user = u])]
        /\ call' = [call EXCEPT ![t] = [NoCall EXCEPT !.pc = Begun(kind), !.kind = kind]]
        /\ UNCHANGED <<hosted, discovery, default, handles, projects, logins>>

\* auto_configure_from_discovery, which prefers a local server to having no token at
\* all: called by every tool of a local server without arguments (_ensure_configured) ...
AutoConfigure(t, kind, k, force) ==
    /\ ~hosted /\ Begins(t)
    /\ call' = [call EXCEPT ![t] = [NoCall EXCEPT !.pc = IF Bearer # NoUser THEN "configure"
                                                         ELSE Begun(kind), !.kind = kind]]
    /\ IF Bearer # NoUser
       THEN Resolve(t, Bearer, k, force) /\ UNCHANGED default
       ELSE default' = (IF LocalServer THEN Tokenless ELSE default) /\ UNCHANGED res
    /\ UNCHANGED <<hosted, now, tokens, disk, faults, bound, handles, projects, logins>>

ToolCall(t, kind) == AutoConfigure(t, kind, NoHint, FALSE)

\* ... and by scripts.
ConfigureCall(t, k, force) == AutoConfigure(t, "script", k, force)

\* configure_default_client; a failure is logged and the tool goes on.
Configure(t) ==
    /\ call[t].pc = "configure" /\ res[t].pc \in {"resolved", "refused", "broken"}
    /\ default' = IF res[t].pc = "resolved" THEN Client(res[t].user, res[t].fresh) ELSE default
    /\ To(t, Quiet)
    /\ At(t, Begun(call[t].kind))
    /\ UNCHANGED <<hosted, now, tokens, disk, faults, bound, handles, projects, bounds>>

\* A script that calls get_client.
ScriptCall(t) ==
    /\ ~hosted /\ Begins(t)
    /\ call' = [call EXCEPT ![t] = [NoCall EXCEPT !.pc = "get", !.kind = "script"]]
    /\ UNCHANGED <<hosted, discovery, default, bound, handles, projects, logins>>

\* The request ends, and use_client with it.
Exit(t) ==
    /\ call[t].pc \in {"idle", "done", "failed"} /\ bound[t] # NoClient
    /\ bound' = [bound EXCEPT ![t] = NoClient]
    /\ call' = [call EXCEPT ![t] = NoCall]
    /\ UNCHANGED <<hosted, discovery, default, handles, projects, bounds>>

---------------------------------------------------------------------------
(* get_client, and the default client built on first use. *)

Current(t) == IF bound[t] # NoClient THEN bound[t] ELSE default

\* A script is done with the client; a tool goes on to the project.
After(t) ==
    CASE call[t].kind = "script" -> "done" [] call[t].kind = "delete" -> "find"
      [] OTHER -> "look"

GetClient(t) ==
    /\ call[t].pc = "get"
    /\ IF Current(t) # NoClient
       THEN With(t, After(t), Current(t)) /\ UNCHANGED res
       ELSE IF Bearer = NoUser
            THEN With(t, "assign", Tokenless) /\ UNCHANGED res
            ELSE Resolve(t, Bearer, NoHint, FALSE) /\ At(t, "boot")
    /\ UNCHANGED <<hosted, now, tokens, disk, faults, default, bound, handles, projects, bounds>>

\* The constructor: any failure of discovery falls back to the legacy target.
Boot(t) ==
    /\ call[t].pc = "boot" /\ res[t].pc \in {"resolved", "refused", "broken"}
    /\ With(t, "assign", IF res[t].pc = "resolved" THEN Client(res[t].user, res[t].fresh)
                         ELSE Unrouted(res[t].user, "legacy"))
    /\ To(t, Quiet)
    /\ UNCHANGED <<hosted, now, tokens, disk, faults, default, bound, handles, projects, bounds>>

\* The global is assigned, whatever another thread has put there meanwhile ...
AssignDefault(t) ==
    /\ call[t].pc = "assign"
    /\ default' = call[t].client
    /\ At(t, "return")
    /\ UNCHANGED <<hosted, discovery, bound, handles, projects, bounds>>

\* ... and what it holds by then is returned.
ReturnDefault(t) ==
    /\ call[t].pc = "return"
    /\ With(t, After(t), default)
    /\ UNCHANGED <<hosted, discovery, default, bound, handles, projects, bounds>>

---------------------------------------------------------------------------
(* _get_project_cached, with which a tool that stores begins. *)

\* A cached handle goes with the client it was read with; without one the current
\* client looks the project up, and a handle of a project that is there is kept.  Nobody
\* asks whether it still is.
CachedProject(t) ==
    /\ call[t].pc = "cached"
    /\ IF handles[Scope(t)] # NoClient
       THEN With(t, "done", handles[Scope(t)])
       ELSE At(t, IF Current(t) = NoClient THEN "get" ELSE "look")
    /\ UNCHANGED <<hosted, discovery, default, bound, handles, projects, bounds>>

Keep(t, c) ==
    /\ handles' = [handles EXCEPT ![Scope(t)] = c]
    /\ With(t, "done", c)

GetProject(t) ==
    /\ call[t].pc = "look"
    /\ IF projects[Server(Current(t))] = "active" THEN Keep(t, Current(t))
       ELSE With(t, "create", Current(t)) /\ UNCHANGED handles
    /\ UNCHANGED <<hosted, discovery, default, bound, projects, bounds>>

Found(s) == projects' = [projects EXCEPT ![s] = "active"]

\* Mutant: the handle goes with the client that looked for the project.
CreateProjectKeepsFirst(t) ==
    /\ call[t].pc = "create"
    /\ IF projects[Server(Current(t))] \in {"active", "archived"}
       THEN At(t, "failed") /\ UNCHANGED <<handles, projects>>
       ELSE Found(Server(Current(t))) /\ Keep(t, call[t].client)
    /\ UNCHANGED <<hosted, discovery, default, bound, bounds>>

\* The project is created, with what get_client answers by then; if another call has
\* created it since, or an archived one has the name, this one fails.
CreateProject(t) ==
    /\ call[t].pc = "create"
    /\ IF projects[Server(Current(t))] \in {"active", "archived"}
       THEN At(t, "failed") /\ UNCHANGED <<handles, projects>>
       ELSE Found(Server(Current(t))) /\ Keep(t, Current(t))
    /\ UNCHANGED <<hosted, discovery, default, bound, bounds>>

---------------------------------------------------------------------------
(* tool_delete_project; module Projects has what leads to a confirmed deletion. *)

\* With force an archived project is found too, and then destroyed.
FindDeleted(t) ==
    /\ call[t].pc = "find"
    /\ \E force \in BOOLEAN :
         LET found == {"active"} \cup (IF force THEN {"archived"} ELSE {})
         IN  At(t, IF projects[Server(call[t].client)] \notin found THEN "failed"
                   ELSE IF force THEN "destroy" ELSE "archive")
    /\ UNCHANGED <<hosted, discovery, default, bound, handles, projects, bounds>>

\* Only what is archived is destroyed, and nothing that is gone.  An answer that says so
\* without an error is not looked at.  No cache hears of it.
DropProject(t) ==
    LET server == Server(call[t].client)
        drops(suits, status) ==
          IF projects[server] \in suits
          THEN At(t, "done") /\ projects' = [projects EXCEPT ![server] = status]
          ELSE (\E pc \in {"done", "failed"} : At(t, pc)) /\ UNCHANGED projects
    IN  /\ \/ call[t].pc = "archive" /\ drops({"active", "archived"}, "archived")
           \/ call[t].pc = "destroy" /\ drops({"archived"}, "destroyed")
        /\ UNCHANGED <<hosted, discovery, default, bound, handles, bounds>>

\* get_tenant_info: the record of a hint, however old.
TenantInfo(t, k) ==
    /\ ~hosted /\ Begins(t)
    /\ ReadAll[k] # NoRecord
    /\ call' = [call EXCEPT ![t] = [NoCall EXCEPT !.pc = "done", !.kind = "info", !.info = ReadAll[k]]]
    /\ UNCHANGED <<hosted, discovery, default, bound, handles, projects, logins>>

---------------------------------------------------------------------------
(* The surroundings. *)

Resolution(t) == DiscoveryStep(t) /\ UNCHANGED <<session, bounds>>

\* Another login, or an auth_token argument written to the environment.
Login(l) ==
    /\ ~hosted /\ logins < MaxLogins /\ logins' = logins + 1
    /\ tokens' = l /\ l # tokens
    /\ UNCHANGED <<now, disk, res, faults, session, calls>>

Tick ==
    /\ now < MaxTime /\ now' = now + 1
    /\ UNCHANGED <<tokens, disk, res, faults, session, bounds>>

\* The process dies; a new one finds the files as they were left.
Restart ==
    /\ \E t \in Threads : res[t].pc \in {"write", "replace"}
    /\ faults < MaxFaults /\ faults' = faults + 1
    /\ default' = NoClient
    /\ bound' = [t \in Threads |-> NoClient]
    /\ handles' = [s \in Scopes |-> NoClient]
    /\ call' = [t \in Threads |-> NoCall]
    /\ res' = [t \in Threads |-> Quiet]
    /\ data' = [i \in Inodes |-> IF i \in {path, tmp} THEN data[i] ELSE Empty]
    /\ UNCHANGED <<hosted, now, tokens, path, tmp, projects, bounds>>

\* The project is new, or archived since an earlier run.
Init ==
    /\ DiscoveryInit
    /\ tokens \in Logins
    /\ hosted \in BOOLEAN
    /\ default = NoClient
    /\ bound = [t \in Threads |-> NoClient]
    /\ handles = [s \in Scopes |-> NoClient]
    /\ \E status \in {"none", "archived"} : projects = [s \in Servers |-> status]
    /\ call = [t \in Threads |-> NoCall]
    /\ calls = 0 /\ logins = 0

Step(t) ==
    \/ Resolution(t) \/ Configure(t)
    \/ GetClient(t) \/ Boot(t) \/ AssignDefault(t) \/ ReturnDefault(t)
    \/ CachedProject(t) \/ GetProject(t) \/ CreateProject(t) \/ FindDeleted(t) \/ DropProject(t)

Start(t) ==
    \/ \E kind \in {"tool", "delete"} : ToolCall(t, kind) \/ \E u \in Users : HostedCall(t, u, kind)
    \/ \E k \in Keys, force \in BOOLEAN : ConfigureCall(t, k, force)
    \/ ScriptCall(t) \/ Exit(t)
    \/ \E k \in Keys : TenantInfo(t, k)

Next ==
    \/ \E t \in Threads : Step(t) \/ Start(t)
    \/ \E l \in Logins : Login(l)
    \/ Tick \/ Restart

Spec == Init /\ [][Next]_vars

---------------------------------------------------------------------------
(* Properties. *)

TypeOK ==
    /\ now \in 0..MaxTime
    /\ path \in Inodes \cup {NoInode} /\ tmp \in Inodes \cup {NoInode}
    /\ path # NoInode => path # tmp
    /\ data \in [Inodes -> Contents]
    /\ \A t \in Threads :
          /\ res[t].pc \in Phases /\ call[t].pc \in Stages
          /\ res[t].cached \in Records /\ res[t].fresh \in Records
          /\ call[t].client \in Clients /\ bound[t] \in Clients
          /\ res[t].pc # "idle" => call[t].pc \in {"configure", "boot"}
    /\ projects \in [Servers -> {"none", "active", "archived", "destroyed"}]
    /\ default \in Clients /\ handles \in [Scopes -> Clients]
    /\ \A i \in Inodes : ~InUse(i) => data[i] = Empty

\* However the threads' writes of the shared temporary file mix, a record found under a
\* hint was served for that hint, and a client is sent to the tenant of such a record
\* (store and _read_all: one file, no lock).
IsServed(r, k) == r = NoRecord \/ (r.key = k /\ r.user \in Users /\ r.tenant = Serves[r.user][k]
                                   /\ r.tenant # NoTenant)
RecordsKeepTheirHint ==
    /\ \A i \in Inodes : \A k \in Keys : IsServed(data[i].map[k], k)
    /\ \A t \in Threads : call[t].info # NoRecord => IsServed(call[t].info, call[t].info.key)

\* A tool call of a hosted server works with a client of its own request's tenant,
\* whatever requests run on other threads (every cache is keyed by the tenant).
HostedCallsKeepTheirTenant ==
    \A t \in Threads : hosted /\ bound[t] # NoClient /\ call[t].client # NoClient
                          => call[t].client.tenant = bound[t].tenant

\* A cached handle is of a project that has been on the very server its client sends to,
\* even when another thread replaces the default client between the look-up and the
\* creation.  It may have been archived or destroyed since: the cache is never invalidated.
HandlesHaveTheirProject ==
    \A s \in Scopes : handles[s] # NoClient => projects[Server(handles[s])] # "none"

\* resolve never answers with a record that has expired, not even one whose refresh
\* failed while it ran out.
AnswersAreCurrent ==
    [][\A t \in Threads : res'[t].pc = "resolved" /\ res[t].pc # "resolved"
                             => res'[t].fresh # NoRecord /\
                                (~Expired(res'[t].fresh) \/ res'[t].fresh = res[t].fresh)]_vars

\* A client built without a hint is sent to its user's default tenant
\* (auto_configure_from_discovery).  The record of an earlier login routes it elsewhere.
RoutedHome ==
    default.at = "region" /\ default.hint = NoHint => default.tenant = Serves[default.user][NoHint]
=============================================================================
