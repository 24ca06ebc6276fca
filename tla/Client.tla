------------------------------- MODULE Client -------------------------------
(***************************************************************************)
(* The Python SDK: one KBClient calling the service, one call at a time,   *)
(* with the retries of _request.                                           *)
(*                                                                         *)
(* A request may be lost on the way, and may be served after the client    *)
(* has given up on it: a handler runs in a thread of its own and does not  *)
(* notice that nobody waits for its answer any more.  So an attempt that   *)
(* timed out is still on the way, and a later one may overtake it.         *)
(***************************************************************************)
EXTENDS Integers

CONSTANTS
    Names,           \* names of knowledge bases
    Contents,        \* what is uploaded, by content hash
    Roles,           \* roles given to one user in one knowledge base
    NoRole,
    MaxRetries,      \* max_retries
    MaxCalls         \* bound

ASSUME ClientAssumption ==
    /\ NoRole \notin Roles /\ MaxRetries \in Nat /\ MaxCalls \in Nat

VARIABLES
    phase,           \* of the client: "idle", "waiting" for an answer, or in "backoff"
    call,            \* the call it makes or made last
    number,          \* calls made so far
    attempt,         \* attempts of this call so far
    answer,          \* what the service answered to this attempt, or "none"
    wire,            \* attempts that are not served yet
    names, files, role,            \* the service: names and files there are, the user's role
    effects,         \* history: how often each call changed the service
    refused,         \* history: calls that raised an error of status 4xx
    acknowledged,    \* history: the role the last grant or revoke that returned set
    unanswered       \* history: the roles set by those that raised with no answer or a 5xx

client == <<phase, call, number, attempt>>
service == <<names, files, role, effects>>
history == <<refused, acknowledged, unanswered>>
clientVars == <<client, answer, wire, service, history>>

(***************************************************************************)
(* The methods, and which of them _request may repeat.  "read" stands for  *)
(* health, list_kbs, get_doc, read_anchor, cite and list_chat_models; the  *)
(* maintenance methods are repeated when they are dry runs.                *)
(***************************************************************************)
Plain == [op : {"read", "search", "chat", "prune_outbox"}]
CreateKb == [op : {"create_kb"}, name : Names]
Uploads == [op : {"upload"}, content : Contents]
Acl == [op : {"acl"}, role : Roles \cup {NoRole}]      \* grant, and revoke
Maintenance == [op : {"gc", "reconcile"}, dryRun : BOOLEAN]
Calls == Plain \cup CreateKb \cup Uploads \cup Acl \cup Maintenance

IsAcl(c) == c.op = "acl"
DryRun(c) == c.op \in {"gc", "reconcile"} /\ c.dryRun
ChangesNothing(c) == c.op \in {"read", "search"} \/ DryRun(c)     \* of the routes
IdempotentMaintenance(c) == c.op \in {"read", "search", "gc", "reconcile"}   \* mutant
Idempotent(c) == c.op \in {"read", "search"} \/ DryRun(c)
AttemptsAlways(c) == MaxRetries + 1                                          \* mutant
Attempts(c) == IF Idempotent(c) THEN MaxRetries + 1 ELSE 1

Limited == {"search", "upload", "chat"}         \* the routes with a rate limit

(***************************************************************************)
(* The loop of _request.                                                   *)
(***************************************************************************)
Message == [call |-> call, number |-> number, attempt |-> attempt]

Send ==
    /\ phase' = "waiting"
    /\ answer' = "none"
    /\ wire' = wire \cup {Message'}

Begin(c) ==
    /\ phase = "idle"
    /\ number < MaxCalls
    /\ call' = c
    /\ number' = number + 1
    /\ attempt' = 1
    /\ Send
    /\ UNCHANGED <<service, history>>

Resend ==
    /\ phase = "backoff"
    /\ attempt' = attempt + 1
    /\ UNCHANGED <<call, number>>
    /\ Send
    /\ UNCHANGED <<service, history>>

(* The call ends: it returns, or raises the error of its last attempt.     *)
Finish ==
    /\ phase' = "idle"
    /\ answer' = "none"
    /\ UNCHANGED <<call, number, attempt, wire, service>>

Return ==
    /\ phase = "waiting" /\ answer = "ok"
    /\ Finish
    /\ acknowledged' = IF IsAcl(call) THEN call.role ELSE acknowledged
    /\ UNCHANGED <<refused, unanswered>>

Refused ==                                      \* 4xx but 429: raised at once
    /\ phase = "waiting" /\ answer = "4xx"
    /\ Finish
    /\ refused' = refused \cup {number}
    /\ UNCHANGED <<acknowledged, unanswered>>

RetryForever ==                                                              \* mutant
    /\ Idempotent(call) \/ attempt < Attempts(call)
    /\ phase' = "backoff"
    /\ answer' = "none"
    /\ attempt' = 0
    /\ UNCHANGED <<call, number, wire, service, history>>

Retry ==
    /\ attempt < Attempts(call)
    /\ phase' = "backoff"
    /\ answer' = "none"
    /\ UNCHANGED <<call, number, attempt, wire, service, history>>

GiveUp ==
    /\ attempt >= Attempts(call)
    /\ Finish
    /\ unanswered' = IF IsAcl(call) THEN unanswered \cup {call.role} ELSE unanswered
    /\ UNCHANGED <<refused, acknowledged>>

(* A 5xx or a 429, or a network error: the timeout may strike at any       *)
(* moment, an answer may be lost on its way, and one that comes later is   *)
(* not read.                                                               *)
Unserved ==
    /\ phase = "waiting"
    /\ Retry \/ GiveUp

(***************************************************************************)
(* The service.  An answer reaches the client if it still waits for this   *)
(* attempt.                                                                *)
(***************************************************************************)
Answer(m, status) ==
    /\ wire' = wire \ {m}
    /\ answer' = IF phase = "waiting" /\ m = Message THEN status ELSE answer
    /\ UNCHANGED <<client, history>>

Took(m) == effects' = [effects EXCEPT ![m.number] = @ + 1]

(* What a search writes by the way, rows of the query log and the audit    *)
(* log and an anchor it repairs, is no effect of the call.                 *)
ServeQuery(m) ==
    /\ ChangesNothing(m.call)
    /\ Answer(m, "ok")
    /\ UNCHANGED service

(* Every attempt at a chat has a model write an answer anew; what the      *)
(* maintenance routes change their own modules say, and they may fail when *)
(* a part of it is done.                                                   *)
ServeOther(m) ==
    /\ m.call.op \in {"chat", "prune_outbox", "gc", "reconcile"} /\ ~DryRun(m.call)
    /\ Took(m)
    /\ \E status \in {"ok", "5xx"} : Answer(m, status)
    /\ UNCHANGED <<names, files, role>>

(* UNIQUE (tenant_id, name): the second knowledge base of a name is a 409. *)
ServeCreateKb(m) ==
    /\ m.call.op = "create_kb"
    /\ IF m.call.name \in names
       THEN Answer(m, "4xx") /\ UNCHANGED service
       ELSE /\ names' = names \cup {m.call.name}
            /\ Took(m)
            /\ Answer(m, "ok")
            /\ UNCHANGED <<files, role>>

(* A file that is there is answered at once; the row of a new one stays    *)
(* when its ingest fails.                                                  *)
ServeUpload(m) ==
    /\ m.call.op = "upload"
    /\ IF m.call.content \in files
       THEN Answer(m, "ok") /\ UNCHANGED service
       ELSE /\ files' = files \cup {m.call.content}
            /\ Took(m)
            /\ \E status \in {"ok", "5xx"} : Answer(m, status)
            /\ UNCHANGED <<names, role>>

ServeAcl(m) ==
    /\ IsAcl(m.call)
    /\ role' = m.call.role
    /\ Took(m)
    /\ Answer(m, "ok")
    /\ UNCHANGED <<names, files>>

Serve(m) ==
    \/ ServeQuery(m)
    \/ ServeOther(m)
    \/ ServeCreateKb(m)
    \/ ServeUpload(m)
    \/ ServeAcl(m)

(* Nothing is changed: the rate limit, a right or a resource that is       *)
(* missing, an exception that rolls the transaction back.  create_kb       *)
(* answers every exception with 409.                                       *)
Reject(m) ==
    /\ \/ m.call.op \in Limited /\ Answer(m, "429")
       \/ Answer(m, "4xx")
       \/ m.call.op # "create_kb" /\ Answer(m, "5xx")
    /\ UNCHANGED service

Lose(m) ==
    /\ wire' = wire \ {m}
    /\ UNCHANGED <<client, answer, service, history>>

-----------------------------------------------------------------------------
Init ==
    /\ phase = "idle" /\ call = [op |-> "read"] /\ number = 0 /\ attempt = 0
    /\ answer = "none" /\ wire = {}
    /\ names = {} /\ files = {} /\ role = NoRole
    /\ effects = [n \in 1 .. MaxCalls |-> 0]
    /\ refused = {} /\ acknowledged = NoRole /\ unanswered = {}

Service == \E m \in wire : Serve(m) \/ Reject(m) \/ Lose(m)

Next ==
    \/ \E c \in Calls : Begin(c)
    \/ Resend \/ Return \/ Refused \/ Unserved
    \/ Service

(* The client reads an answer that has come, gives up after its timeout,   *)
(* and sleeps for a bounded time.  Nothing is asked of the service.        *)
Fairness == WF_clientVars(Return \/ Refused \/ Unserved) /\ WF_clientVars(Resend)

Spec == Init /\ [][Next]_clientVars /\ Fairness

-----------------------------------------------------------------------------
(* No call changes the service more than once: the retry loop and the      *)
(* idempotent flags of the methods agree with what the routes do.          *)
TakesEffectOnce == \A n \in DOMAIN effects : effects[n] <= 1

(* A call that raised a 4xx error has changed nothing, and never will:     *)
(* none of its attempts took effect before the one that was refused, as a  *)
(* repeated create_kb would against itself, and none that could is left.   *)
RefusedDidNothing ==
    \A n \in refused :
        effects[n] = 0 /\ \A m \in wire : m.number = n => ChangesNothing(m.call)

(* The user's role is the one set by the last grant or revoke that         *)
(* returned, or by one whose outcome the caller was told he does not know, *)
(* or by the one in progress: no attempt of an answered call comes late    *)
(* and undoes what was answered after it.                                  *)
GrantAccounted ==
    \/ role = acknowledged
    \/ role \in unanswered
    \/ phase # "idle" /\ IsAcl(call) /\ role = call.role

(* Every call ends, whatever the service does: attempts are bounded, and   *)
(* every wait has a timeout.                                               *)
CallsEnd == (phase # "idle") ~> (phase = "idle")
=============================================================================
