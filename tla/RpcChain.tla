------------------------------ MODULE RpcChain ------------------------------
(***************************************************************************)
(* One unary RPC of the Python client (python/kumiho/client.py) on its way *)
(* through the interceptors: the retry layer outside, then the header the  *)
(* client was built with, then the login layer, then the server            *)
(* (external).  Behind the login layer is the credentials file             *)
(* (auth_cli.py) that all processes of a user share and rewrite in place.  *)
(*                                                                         *)
(* A caller is a process that runs one call after another, headless: there *)
(* is nobody to prompt.  A token is told apart only by whether it still    *)
(* works; a file that is absent, empty or half-written holds none.         *)
(*                                                                         *)
(* Evaluate is the call that costs money: fragments of text are judged and *)
(* the judgments come back in the order of the fragments, to be looked up  *)
(* by the caller's own fragment ids (evaluation.py).                       *)
(***************************************************************************)
EXTENDS Integers, Sequences

CONSTANTS
    Callers,
    MaxAttempts,    \* KUMIHO_GRPC_RETRY_MAX_ATTEMPTS
    Ids,            \* fragment ids
    NoId,           \* the empty id
    Requests        \* what callers pass to evaluate

FragmentIds == Ids \cup {NoId}

\* A question is well-formed, has a reserved id (`__`) or an unknown type.
Questions == {"plain", "reserved", "untyped"}

Request == [query : {"text", "blank"}, mode : {"known", "unknown"},
            fragments : Seq(FragmentIds), questions : SUBSET Questions]

ASSUME RpcAssumption ==
    /\ MaxAttempts \in Nat \ {0}
    /\ NoId \notin Ids
    /\ Requests \subseteq Request

VARIABLES
    file,      \* the credentials file: the token in it
    built,     \* caller -> the token its client was built with
    rpc,       \* caller -> its RPC, or its start
    charged,   \* server: caller -> executions of its current Evaluate
    excused    \* history: caller -> its login could not be refreshed, or ran out

chainVars == <<file, built, rpc, charged, excused>>

Tokens == {"none", "expired", "valid"}

Methods == {"boot", "evaluate", "other"}

\* Transient codes; "keys" is UNAVAILABLE with the server's JWKS error in its details.
Transient == {"transient", "keys"}

LoginErrors == {"unauthenticated", "keys"}

\* "refused": the client itself refused the request (ValueError).
Answers == {"open", "ok", "denied", "unauthenticated", "refused"} \cup Transient

Entries == {"answered", "failed"}

\* An evaluation: one entry per fragment, or none with a status that has no judgments
\* (over_limit, not_entitled, provider_unavailable, invalid_request, unspecified).
Result == [status : {"ok", "partial", "withheld"}, entries : Seq(Entries)]

Withheld == [status |-> "withheld", entries |-> <<>>]

RpcPhases == {"down", "idle", "sent", "login", "refresh", "open", "write", "answered", "done"}

NoRpc == [pc |-> "down", method |-> "boot", attempt |-> 0, token |-> "none",
          resent |-> FALSE, answer |-> "open", fresh |-> "none",
          fragments |-> <<>>, result |-> Withheld]

Now(c, pc) == rpc' = [rpc EXCEPT ![c].pc = pc]

---------------------------------------------------------------------------
(* The retry layer. *)

Sent(c, m, fragments, attempt) ==
    [NoRpc EXCEPT !.pc = "sent", !.method = m, !.fragments = fragments,
                  !.attempt = attempt, !.token = built[c]]

\* The caller's next call, from its first state on.
StartRpc(c, first) ==
    /\ rpc[c].pc \in {"idle", "done"}
    /\ rpc' = [rpc EXCEPT ![c] = first]
    /\ charged' = [charged EXCEPT ![c] = 0]
    /\ excused' = [excused EXCEPT ![c] = FALSE]
    /\ UNCHANGED <<file, built>>

Begin(c) == StartRpc(c, Sent(c, "other", <<>>, 1))

HasIds(r) == \A k \in DOMAIN r.fragments : r.fragments[k] # NoId

QuestionsSound(r) == r.questions \subseteq {"plain"}

\* What evaluate() checks before it sends anything; above all, no fragment has the id
\* of one before it.
Valid(r) ==
    /\ r.query # "blank" /\ r.mode # "unknown"
    /\ HasIds(r)
    /\ \A k \in DOMAIN r.fragments : \A j \in 1..(k - 1) : r.fragments[j] # r.fragments[k]
    /\ QuestionsSound(r)

BeginEvaluate(c, r) ==
    StartRpc(c, IF Valid(r)
                  THEN Sent(c, "evaluate", r.fragments, 1)
                  ELSE [NoRpc EXCEPT !.pc = "done", !.method = "evaluate",
                                     !.answer = "refused"])

\* Mutant: Evaluate is a method like any other.
AgainAlways(c) == rpc[c].answer \in Transient /\ rpc[c].attempt < MaxAttempts

\* Mutant: one attempt too many.
AgainOnceMore(c) ==
    /\ rpc[c].answer \in Transient /\ rpc[c].attempt <= MaxAttempts
    /\ rpc[c].method # "evaluate"

\* Evaluate is charged, and never retried.
Again(c) ==
    /\ rpc[c].answer \in Transient /\ rpc[c].attempt < MaxAttempts
    /\ rpc[c].method # "evaluate"

\* Mutant: the attempts are not counted.
RetryUncounted(c) ==
    /\ rpc[c].pc = "answered" /\ Again(c)
    /\ rpc' = [rpc EXCEPT ![c] = Sent(c, @.method, @.fragments, @.attempt)]
    /\ UNCHANGED <<file, built, charged, excused>>

\* The next attempt goes through the whole chain, with the header the client was
\* built with.
Retry(c) ==
    /\ rpc[c].pc = "answered" /\ Again(c)
    /\ rpc' = [rpc EXCEPT ![c] = Sent(c, @.method, @.fragments, @.attempt + 1)]
    /\ UNCHANGED <<file, built, charged, excused>>

Finish(c) ==
    /\ rpc[c].pc = "answered" /\ ~Again(c)
    /\ Now(c, "done")
    /\ UNCHANGED <<file, built, charged, excused>>

---------------------------------------------------------------------------
(* The login layer and the server. *)

\* A call is sent again after a login error, once per attempt.
LoginNeeded(c, answer) == ~rpc[c].resent /\ answer \in LoginErrors

Respond(c, answer, result) ==
    rpc' = [rpc EXCEPT ![c].answer = answer, ![c].result = result,
                       ![c].pc = IF LoginNeeded(c, answer) THEN "login" ELSE "answered"]

\* The server executes the call; its answer arrives, or is lost.
Execute(c) ==
    /\ rpc[c].pc = "sent" /\ rpc[c].token = "valid" /\ rpc[c].method # "evaluate"
    /\ Respond(c, "ok", Withheld) \/ Respond(c, "transient", Withheld)
    /\ UNCHANGED <<file, built, charged, excused>>

\* Some fragments may have failed; the others keep their judgment.
Judged(entries) ==
    [status |-> IF \A k \in DOMAIN entries : entries[k] = "answered" THEN "ok" ELSE "partial",
     entries |-> entries]

\* The server has the fragments judged and charges for it.
Evaluate(c) ==
    /\ rpc[c].pc = "sent" /\ rpc[c].token = "valid" /\ rpc[c].method = "evaluate"
    /\ \/ \E entries \in [DOMAIN rpc[c].fragments -> Entries] :
             Respond(c, "ok", Judged(entries))
       \/ Respond(c, "transient", Withheld)
    /\ charged' = [charged EXCEPT ![c] = @ + 1]
    /\ UNCHANGED <<file, built, excused>>

\* The server answers without a judgment, for free.
Withhold(c) ==
    /\ rpc[c].pc = "sent" /\ rpc[c].token = "valid" /\ rpc[c].method = "evaluate"
    /\ Respond(c, "ok", Withheld)
    /\ UNCHANGED <<file, built, charged, excused>>

\* EvaluationResult.by_id: each fragment's judgment under its id, a later one over an
\* earlier one.
ById(c) ==
    LET fragments == rpc[c].fragments
        Last(id) == CHOOSE k \in DOMAIN fragments :
                       /\ fragments[k] = id
                       /\ \A j \in DOMAIN fragments : fragments[j] = id => j <= k
    IN  [id \in {fragments[k] : k \in DOMAIN fragments} |-> rpc[c].result.entries[Last(id)]]

\* The server, or the way to it, fails before the call is executed.
Refuse(c) ==
    /\ rpc[c].pc = "sent"
    /\ \/ \E answer \in Transient : Respond(c, answer, Withheld)
       \/ rpc[c].token = "valid" /\ Respond(c, "denied", Withheld)
       \/ rpc[c].token # "valid" /\ Respond(c, "unauthenticated", Withheld)
    /\ UNCHANGED <<file, built, charged, excused>>

---------------------------------------------------------------------------
(* auth_cli.ensure_token, forced by the login layer, unforced at a start. *)

\* Without a refresh a start is over, with the token it read before, and a call keeps
\* the answer it had.
Unrefreshed(c) ==
    IF rpc[c].method = "boot"
      THEN /\ Now(c, "idle") /\ built' = [built EXCEPT ![c] = rpc[c].token]
           /\ UNCHANGED excused
      ELSE Now(c, "answered") /\ excused' = [excused EXCEPT ![c] = TRUE] /\ UNCHANGED built

\* A start is content with a login that has not expired; it may have to exchange it
\* for a control-plane token, which is saved too.  When the exchange fails, the old
\* control-plane token is used, though it has run out.
Content(c) ==
    \/ Now(c, "idle") /\ \E token \in {file, "expired"} : built' = [built EXCEPT ![c] = token]
    \/ rpc' = [rpc EXCEPT ![c].pc = "open", ![c].fresh = file] /\ UNCHANGED built

\* The file is read; without a login in it there is nothing to refresh.
LoadFile(c) ==
    /\ rpc[c].pc = "login"
    /\ \/ file = "none" /\ Unrefreshed(c)
       \/ file = "valid" /\ rpc[c].method = "boot" /\ Content(c) /\ UNCHANGED excused
       \/ /\ file = "expired" \/ (file = "valid" /\ rpc[c].method # "boot")
          /\ Now(c, "refresh") /\ UNCHANGED <<built, excused>>
    /\ UNCHANGED <<file, charged>>

\* The identity provider (external) answers with a new token, or not.
Refresh(c) ==
    /\ rpc[c].pc = "refresh"
    /\ rpc' = [rpc EXCEPT ![c].pc = "open", ![c].fresh = "valid"]
    /\ UNCHANGED <<file, built, charged, excused>>

\* (Of a start, a failure to reach the provider at all leaves no client: Crash.)
RefreshFails(c) ==
    /\ rpc[c].pc = "refresh"
    /\ Unrefreshed(c)
    /\ UNCHANGED <<file, charged>>

\* _save_credentials opens the file for writing, which empties it ...
OpenFile(c) ==
    /\ rpc[c].pc = "open"
    /\ file' = "none"
    /\ Now(c, "write")
    /\ UNCHANGED <<built, charged, excused>>

\* Mutant: the old authorization header stays in front of the new one.
WriteFileOldHeader(c) ==
    /\ rpc[c].pc = "write"
    /\ file' \in IF file = "none" THEN {rpc[c].fresh} ELSE {rpc[c].fresh, "none"}
    /\ IF rpc[c].method = "boot"
         THEN Now(c, "idle") /\ built' = [built EXCEPT ![c] = rpc[c].fresh]
         ELSE /\ rpc' = [rpc EXCEPT ![c].pc = "sent", ![c].resent = TRUE,
                                    ![c].answer = "open"]
              /\ UNCHANGED built
    /\ UNCHANGED <<charged, excused>>

\* ... and writes it: over what another process wrote since, which may leave neither.
\* A start has its token; a call is sent again with it.
WriteFile(c) ==
    /\ rpc[c].pc = "write"
    /\ file' \in IF file = "none" THEN {rpc[c].fresh} ELSE {rpc[c].fresh, "none"}
    /\ IF rpc[c].method = "boot"
         THEN Now(c, "idle") /\ built' = [built EXCEPT ![c] = rpc[c].fresh]
         ELSE /\ rpc' = [rpc EXCEPT ![c].pc = "sent", ![c].token = rpc[c].fresh,
                                    ![c].resent = TRUE, ![c].answer = "open"]
              /\ UNCHANGED built
    /\ UNCHANGED <<charged, excused>>

---------------------------------------------------------------------------
(* Processes and time. *)

\* A process starts: bootstrap_default_client reads a token, then ensures one.
Bootstrap(c) ==
    /\ rpc[c].pc = "down"
    /\ rpc' = [rpc EXCEPT ![c] = [NoRpc EXCEPT !.pc = "login", !.token = file]]
    /\ UNCHANGED <<file, built, charged, excused>>

\* A process dies, between any two steps.
Crash(c) ==
    /\ rpc[c].pc # "down"
    /\ rpc' = [rpc EXCEPT ![c] = NoRpc]
    /\ built' = [built EXCEPT ![c] = "none"]
    /\ charged' = [charged EXCEPT ![c] = 0]
    /\ excused' = [excused EXCEPT ![c] = FALSE]
    /\ UNCHANGED file

Aged(token) == IF token = "valid" THEN "expired" ELSE token

\* Every token there is runs out, also one a call has just been given.
Expire ==
    /\ file' = Aged(file)
    /\ built' = [c \in Callers |-> Aged(built[c])]
    /\ rpc' = [c \in Callers |-> [rpc[c] EXCEPT !.token = Aged(@), !.fresh = Aged(@)]]
    /\ excused' = [c \in Callers |-> excused[c] \/ rpc[c].fresh = "valid"]
    /\ UNCHANGED charged

ChainInit ==
    /\ file \in Tokens
    /\ built = [c \in Callers |-> "none"]
    /\ rpc = [c \in Callers |-> NoRpc]
    /\ charged = [c \in Callers |-> 0]
    /\ excused = [c \in Callers |-> FALSE]

\* What the caller's thread does by itself once a call has begun.
CallerStep(c) ==
    \/ Retry(c) \/ Finish(c) \/ Execute(c) \/ Evaluate(c) \/ Withhold(c) \/ Refuse(c)
    \/ LoadFile(c) \/ Refresh(c) \/ RefreshFails(c) \/ OpenFile(c) \/ WriteFile(c)

ChainNext ==
    \/ \E c \in Callers :
          \/ CallerStep(c) \/ Bootstrap(c) \/ Crash(c) \/ Begin(c)
          \/ \E r \in Requests : BeginEvaluate(c, r)
    \/ Expire

ChainSpec == ChainInit /\ [][ChainNext]_chainVars

\* Every RPC has a deadline and every request of the login layer a timeout.
FairSpec == ChainSpec /\ \A c \in Callers : WF_chainVars(CallerStep(c))

---------------------------------------------------------------------------
(* Properties *)

Call == [pc : RpcPhases, method : Methods, attempt : 0..MaxAttempts, token : Tokens,
         resent : BOOLEAN, answer : Answers, fresh : Tokens,
         fragments : Seq(Ids), result : Result]

ChainTypeOK ==
    /\ file \in Tokens
    /\ built \in [Callers -> Tokens]
    /\ rpc \in [Callers -> Call]
    /\ charged \in [Callers -> Nat]
    /\ excused \in [Callers -> BOOLEAN]

\* "Evaluate can already have incurred an upstream charge when its gRPC response is
\* lost": over retries, logins and lost answers one Evaluate is charged at most once,
\* exactly once when it is answered with judgments, and not at all when it is refused,
\* by the server or by the client.  Every judgment that was paid for is found under
\* the id of its fragment.
ChargedOnce ==
    \A c \in Callers :
        /\ charged[c] <= 1
        /\ rpc[c].pc = "done" /\ rpc[c].method = "evaluate" =>
              /\ rpc[c].answer = "ok" /\ rpc[c].result.status # "withheld" =>
                    /\ charged[c] = 1
                    /\ \A k \in DOMAIN rpc[c].fragments :
                          ById(c)[rpc[c].fragments[k]] = rpc[c].result.entries[k]
              /\ rpc[c].answer \in {"denied", "unauthenticated", "keys", "refused"}
                    => charged[c] = 0

\* A call ends UNAUTHENTICATED only if its login could not be refreshed (the provider
\* failed, or the file held no login when it was read) or ran out again at once.
ExpiryIsRepaired ==
    \A c \in Callers :
        rpc[c].pc = "done" /\ rpc[c].answer = "unauthenticated" => excused[c]

\* Every call ends, whatever the server answers.
CallsEnd ==
    \A c \in Callers : rpc[c].pc = "sent" ~> rpc[c].pc \in {"done", "down"}

\* client.py on the order of the interceptors: "a retry re-executes the full chain
\* including fresh correlation IDs and auth headers": the next attempt is not sent
\* with an expired token when the last one had a valid one.
RetryKeepsLogin ==
    \A c \in Callers :
        rpc[c].pc = "answered" /\ rpc'[c].pc = "sent" /\ rpc[c].token = "valid"
            => rpc'[c].token = "valid"

RetriesHaveFreshAuth == [][RetryKeepsLogin]_chainVars
===========================================================================
