--------------------------- MODULE ActionEndpoint ---------------------------
(***************************************************************************)
(* One action of a service as createEcorpinRouter mounts it on Express 4:  *)
(* body parser, authentication, validation, handler, metrics and plugin    *)
(* hooks, response.  All of it is synchronous except the handler, so a     *)
(* request takes two steps: Arrive up to the handler, and one of the       *)
(* handler's outcomes with everything that follows it.                     *)
(*                                                                         *)
(* An exception out of the async route handler is a rejected promise that  *)
(* nothing handles: the request gets no response ("unanswered").  Node     *)
(* ends the process on such a rejection unless the host application        *)
(* listens for it (exitOnRejection): the requests being handled are        *)
(* dropped, and those that come later meet a fresh process.                *)
(***************************************************************************)
EXTENDS ErrorTaxonomy, FiniteSets

CONSTANTS
    Requests,
    Method,          \* the action's HTTP method
    HasSchema,       \* the action declares `input`
    AuthRequired,    \* action.definition.auth?.required ?? true
    RequiredScopes,
    ApiKeys,         \* registry.auth.apiKeys: [key -> set of scopes]
    InheritedNames,  \* what apiKeys, a plain object, inherits: "constructor", ...
    Wildcards,       \* scopes that stand for any scope
    NoKey, UnknownKey,
    PluginCount,     \* registry.plugins, in the order they are called
    MayThrow,        \* the plugins whose onActionInvoked may throw
    Thrown           \* what a handler, a hook or a schema may throw

ASSUME BooleansAssumption == {HasSchema, AuthRequired} \subseteq BOOLEAN
ASSUME PluginAssumption == PluginCount \in Nat /\ MayThrow \subseteq 1 .. PluginCount
ASSUME ThrownAssumption ==
    \A thrown \in Thrown :
        /\ thrown.kind = "ecorpin" => thrown.class \in ErrorClasses
        /\ thrown.kind = "legacy" => thrown.status \in Int
ASSUME KeysAssumption ==
    /\ {NoKey, UnknownKey} \cap (DOMAIN ApiKeys \cup InheritedNames) = {}
    /\ DOMAIN ApiKeys \cap InheritedNames = {}

VARIABLES
    exitOnRejection,
    pc,          \* "idle", "handling", "answered", "unanswered" or "dropped"
    body,        \* what the client sent, one of Bodies
    key,         \* the bearer token it sent
    input,       \* ctx.input: "none", "raw" or "parsed"
    response,    \* status and code, once answered
    metrics,     \* MetricsCollector: count and errorCount
    told         \* how many plugins, from the first, had onActionInvoked
                 \* called for the request with success and without

requestVars == <<exitOnRejection, body, key>>
vars == <<pc, requestVars, input, response, metrics, told>>

(* A "breaking" body makes the schema itself throw: a transform that       *)
(* throws, or a refinement that turns out to be asynchronous.              *)
Bodies == {"valid", "invalid", "breaking", "malformed"}
Tokens == DOMAIN ApiKeys \cup InheritedNames \cup {NoKey, UnknownKey}

NoResponse == [status |-> 0, code |-> "none"]
NoMetrics == [count |-> 0, errorCount |-> 0]
NobodyTold == [success |-> 0, failure |-> 0]

Init ==
    /\ exitOnRejection \in BOOLEAN
    /\ pc = [r \in Requests |-> "idle"]
    /\ body \in [Requests -> Bodies]
    /\ key \in [Requests -> Tokens]
    /\ input = [r \in Requests |-> "none"]
    /\ response = [r \in Requests |-> NoResponse]
    /\ metrics = NoMetrics
    /\ told = [r \in Requests |-> NobodyTold]

-----------------------------------------------------------------------------
(* The middleware chain.                                                   *)

HasScope(scopes, required) == required \in scopes \/ scopes \cap Wildcards # {}

(* What the authentication middleware passes to next, or throws.  An       *)
(* inherited member is not undefined, but has no scopes to look through.   *)
NoError == [kind |-> "none"]

Authorized(token) ==
    \/ ~AuthRequired
    \/ token \in InheritedNames /\ RequiredScopes = {}
    \/ token \in DOMAIN ApiKeys /\ \A s \in RequiredScopes : HasScope(ApiKeys[token], s)

AuthError(token) ==
    CASE Authorized(token) -> NoError
      [] ~Authorized(token) /\ token \in InheritedNames -> [kind |-> "other"]
      [] ~Authorized(token) /\ token \in DOMAIN ApiKeys ->
           [kind |-> "ecorpin", class |-> "Authorization"]
      [] OTHER -> [kind |-> "ecorpin", class |-> "Authentication"]

MethodsWithBody == {"POST", "PUT", "PATCH"}

IsValidated == HasSchema /\ Method \in MethodsWithBody

Answer(r, status, code) ==
    /\ pc' = [pc EXCEPT ![r] = "answered"]
    /\ response' = [response EXCEPT ![r] = [status |-> status, code |-> code]]

AnswerError(r, thrown) ==
    LET mapped == MapThrownError(thrown) IN Answer(r, mapped.status, mapped.code)

(* Statuses that node refuses to write: writeHead throws a RangeError.     *)
IsWritable(status) == status \in 100 .. 999

(* The router's error middleware.  Where node refuses its status, Express  *)
(* answers on its own, without an envelope.                                *)
Refuse(r, thrown) ==
    /\ IF IsWritable(MapThrownError(thrown).status)
       THEN AnswerError(r, thrown) ELSE Answer(r, 500, "none")
    /\ UNCHANGED <<requestVars, input, metrics, told>>

(* express.json() comes first; its errors carry a status of their own: no  *)
(* JSON, too large, or in a charset or an encoding it does not know.       *)
ParserStatuses == {400, 413, 415}

RefuseMalformed(r) ==
    /\ pc[r] = "idle"
    /\ body[r] = "malformed"
    /\ \E status \in ParserStatuses : Refuse(r, [kind |-> "legacy", status |-> status])

RefuseCaller(r) ==
    /\ pc[r] = "idle"
    /\ body[r] # "malformed"
    /\ AuthError(key[r]) # NoError
    /\ Refuse(r, AuthError(key[r]))

RefuseInput(r) ==
    /\ pc[r] = "idle"
    /\ AuthError(key[r]) = NoError
    /\ IsValidated
    /\ \/ body[r] = "invalid" /\ Refuse(r, [kind |-> "zod"])
       \/ body[r] = "breaking" /\ \E thrown \in Thrown : Refuse(r, thrown)

StartHandler(r) ==
    /\ pc[r] = "idle"
    /\ AuthError(key[r]) = NoError
    /\ body[r] = "valid" \/ (body[r] # "malformed" /\ ~IsValidated)
    /\ pc' = [pc EXCEPT ![r] = "handling"]
    /\ input' = [input EXCEPT ![r] = IF IsValidated THEN "parsed" ELSE "raw"]
    /\ UNCHANGED <<requestVars, response, metrics, told>>

-----------------------------------------------------------------------------
(* The route handler after its await.                                      *)

RecordMutant(m, success) ==
    [count |-> m.count + 1, errorCount |-> m.errorCount + 1]
Record(m, success) ==
    [count |-> m.count + 1, errorCount |-> m.errorCount + (IF success THEN 0 ELSE 1)]

(* The hooks are called in order; the one that throws (0 for none) is the  *)
(* last that is called.                                                    *)
HeardMutantShort(thrower) == IF thrower = 0 THEN PluginCount - 1 ELSE thrower - 1
HeardMutantLong(thrower) == IF thrower = 0 THEN PluginCount + 1 ELSE thrower
Heard(thrower) == IF thrower = 0 THEN PluginCount ELSE thrower

(* A rejected handler promise: this request is never answered, and when    *)
(* the process exits nor is any other it was handling.                     *)
Reject(r, counted) ==
    /\ pc' = [q \in Requests |->
                IF q = r THEN "unanswered"
                ELSE IF exitOnRejection /\ pc[q] = "handling" THEN "dropped" ELSE pc[q]]
    /\ metrics' = IF exitOnRejection THEN NoMetrics ELSE counted
    /\ UNCHANGED response

(* The catch block: record, map, tell the plugins, respond.                *)
Catch(r, thrown, counted, successHeard) ==
    \E thrower \in MayThrow \cup {0} :
        /\ told' = [told EXCEPT ![r] =
                      [success |-> successHeard, failure |-> Heard(thrower)]]
        /\ IF thrower = 0 /\ IsWritable(MapThrownError(thrown).status)
           THEN /\ AnswerError(r, thrown)
                /\ metrics' = Record(counted, FALSE)
           ELSE Reject(r, Record(counted, FALSE))

HandlerThrows(r) ==
    /\ pc[r] = "handling"
    /\ \E thrown \in Thrown : Catch(r, thrown, metrics, 0)
    /\ UNCHANGED <<requestVars, input>>

HandlerReturns(r) ==
    /\ pc[r] = "handling"
    /\ Answer(r, IF Method = "POST" THEN 201 ELSE 200, "none")
    /\ metrics' = Record(metrics, TRUE)
    /\ told' = [told EXCEPT ![r].success = PluginCount]
    /\ UNCHANGED <<requestVars, input>>

(* A hook throws on the success path: the same try block, so the catch     *)
(* block runs as well.                                                     *)
HookThrows(r) ==
    /\ pc[r] = "handling"
    /\ \E thrower \in MayThrow, thrown \in Thrown :
         Catch(r, thrown, Record(metrics, TRUE), thrower)
    /\ UNCHANGED <<requestVars, input>>

(* Nor does a result that cannot be serialized leave the try block.        *)
ResultUnserializable(r) ==
    /\ pc[r] = "handling"
    /\ Catch(r, [kind |-> "other"], Record(metrics, TRUE), PluginCount)
    /\ UNCHANGED <<requestVars, input>>

-----------------------------------------------------------------------------
Arrive(r) == RefuseMalformed(r) \/ RefuseCaller(r) \/ RefuseInput(r) \/ StartHandler(r)

Settle(r) == HandlerThrows(r) \/ HandlerReturns(r) \/ HookThrows(r) \/ ResultUnserializable(r)

Next == \E r \in Requests : Arrive(r) \/ Settle(r)

Spec == Init /\ [][Next]_vars

(* Handlers finish; the middleware never suspends.                         *)
FairSpec == Spec /\ \A r \in Requests : WF_vars(Arrive(r)) /\ WF_vars(Settle(r))

-----------------------------------------------------------------------------
(* Correctness.                                                            *)

TypeOK ==
    /\ exitOnRejection \in BOOLEAN
    /\ pc \in [Requests -> {"idle", "handling", "answered", "unanswered", "dropped"}]
    /\ body \in [Requests -> Bodies]
    /\ key \in [Requests -> Tokens]
    /\ input \in [Requests -> {"none", "raw", "parsed"}]
    /\ response \in [Requests -> [status : Nat, code : ErrorClasses \cup {"none"}]]
    /\ metrics \in [count : Nat, errorCount : Nat]
    /\ told \in [Requests -> [success : 0 .. PluginCount, failure : 0 .. PluginCount]]

Handled(r) == input[r] # "none"
Succeeded(r) == pc[r] = "answered" /\ response[r].code = "none"

(* The middleware itself breaks: on an inherited name where it asks for a  *)
(* scope, or, for a caller it let through, on a schema that throws.        *)
MiddlewareBreaks(r) ==
    /\ body[r] # "malformed"
    /\ \/ AuthError(key[r]).kind = "other"
       \/ AuthError(key[r]) = NoError /\ body[r] = "breaking" /\ IsValidated

(* A request refused ahead of the handler is told so with a client error   *)
(* that no client retries, unless the middleware broke, and in no case do  *)
(* the plugins hear of it.                                                 *)
RefusedForGood ==
    \A r \in Requests : pc[r] = "answered" /\ ~Handled(r) =>
        /\ \/ MiddlewareBreaks(r)
           \/ /\ response[r].status \in 400 .. 499
              /\ ~IsRetryableClass(ErrorFromEnvelope(response[r].code))
        /\ told[r] = NobodyTold

(* What the caller hears last, every plugin hears last: success and        *)
(* nothing else for data, failure for an error.                            *)
PluginsHearTheAnswer ==
    \A r \in Requests : pc[r] = "answered" /\ Handled(r) =>
        IF Succeeded(r)
        THEN told[r] = [success |-> PluginCount, failure |-> 0]
        ELSE told[r].failure = PluginCount

(* The counters and the first plugin agree, whatever is thrown where: the  *)
(* errors counted are the requests it heard fail, and what is counted      *)
(* beyond them are the requests it heard succeed.                          *)
CountersMatchPlugins ==
    PluginCount > 0 /\ ~exitOnRejection =>
        /\ metrics.errorCount = Cardinality({r \in Requests : told[r].failure > 0})
        /\ metrics.count - metrics.errorCount
             = Cardinality({r \in Requests : told[r].success > 0})

(* Every request of a client is answered, as the comment in the catch      *)
(* block has it.                                                           *)
EveryRequestAnswered == \A r \in Requests : <>(pc[r] = "answered")
=============================================================================
