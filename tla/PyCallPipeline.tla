--------------------------- MODULE PyCallPipeline ---------------------------
(***************************************************************************)
(* One SDK call of the Python client from dispatch_action to its outcome,  *)
(* over the wire and the service of ServiceWire.  It runs in the caller's  *)
(* thread; the steps below are what the world can do in between:           *)
(*   "header"   perform_one_attempt is about to ask for the credential     *)
(*   "sent"     session.request() waits for the head of the response       *)
(*   "reading"  session.request() reads its body, each read under a timer  *)
(*   "refresh"  credentials.force_refresh()                                *)
(*   "backoff"  time.sleep() between two attempts                          *)
(***************************************************************************)
EXTENDS ServiceWire

CONSTANTS
    Kinds,        \* what is called: "get", "idempotent" or "mutation"
    Providers,    \* "env", "custom" with force_refresh, or "bare" without
    MaxRetries    \* config.max_retries

ASSUME KindsAssumption == Kinds \subseteq {"get", "idempotent", "mutation"}
ASSUME ProvidersAssumption == Providers \subseteq {"env", "custom", "bare"}
ASSUME RetriesAssumption == MaxRetries \in Int

VARIABLES
    kind,        \* the action's method is GET, it is idempotent, or neither
    provider,    \* what config.credentials is
    attempt,     \* attempt_number of with_retry's loop
    refreshed,   \* auth_already_refreshed
    head,        \* the response whose body is being read
    result,      \* "none", "value", "nothing", or the class raised
    heldKey      \* the key get_header returns

callVars == <<kind, provider, pc, attempt, refreshed, sends, head, result, heldKey>>
vars == <<callVars, netVars>>

(* What a call may raise: a class, an error of the application's           *)
(* credentials, the AttributeError of a method they lack, or the           *)
(* AssertionError behind the loop.                                         *)
Raised == ErrorClasses \cup {"Provider", "Attribute", "FellThrough"}
Outcomes == Raised \cup {"none", "value", "nothing"}
ProviderErrors == {"Provider", "Network", "Authentication"}

Init ==
    /\ kind \in [Calls -> Kinds]
    /\ provider \in Providers
    /\ pc = [c \in Calls |-> "ready"]
    /\ attempt = [c \in Calls |-> 0]
    /\ refreshed = [c \in Calls |-> FALSE]
    /\ sends = [c \in Calls |-> 0]
    /\ head = [c \in Calls |-> NoResponse]
    /\ result = [c \in Calls |-> "none"]
    /\ heldKey \in Keys
    /\ NetInit

-----------------------------------------------------------------------------
(* with_retry and the except clause of dispatch_action.                    *)

IsRetryableMutant(class, c) == IsRetryableClass(class)
IsRetryable(class, c) == IsRetryableClass(class) /\ kind[c] \in {"get", "idempotent"}

(* range(1, max_retries + 2)                                               *)
LoopRunsMutant(n) == n < MaxRetries + 1
LoopRuns(n) == n < MaxRetries + 2

Finish(c, outcome) ==
    /\ pc' = [pc EXCEPT ![c] = "done"]
    /\ result' = [result EXCEPT ![c] = outcome]
    /\ UNCHANGED <<attempt, refreshed>>

EnterAttempt(c, n) ==
    IF LoopRuns(n)
    THEN /\ pc' = [pc EXCEPT ![c] = "header"]
         /\ attempt' = [attempt EXCEPT ![c] = n]
         /\ UNCHANGED <<refreshed, result>>
    ELSE Finish(c, "FellThrough")

(* The handler of AuthenticationError; force_refresh is not looked for.    *)
CatchAuthentication(c) ==
    /\ ~refreshed[c]
    /\ pc' = [pc EXCEPT ![c] = "refresh"]
    /\ refreshed' = [refreshed EXCEPT ![c] = TRUE]
    /\ UNCHANGED <<attempt, result>>

(* What reaches with_retry: back off and try again, or raise.              *)
Propagate(c, class) ==
    IF attempt[c] <= MaxRetries /\ IsRetryable(class, c)
    THEN /\ pc' = [pc EXCEPT ![c] = "backoff"]
         /\ UNCHANGED <<attempt, refreshed, result>>
    ELSE Finish(c, class)

Fail(c, class) ==
    \/ class = "Authentication" /\ CatchAuthentication(c)
    \/ ~(class = "Authentication" /\ ~refreshed[c]) /\ Propagate(c, class)

Dispatch(c) ==
    /\ pc[c] = "ready"
    /\ EnterAttempt(c, 1)
    /\ UNCHANGED <<kind, provider, sends, head, heldKey, netVars>>

BackoffEnds(c) ==
    /\ pc[c] = "backoff"
    /\ EnterAttempt(c, attempt[c] + 1)
    /\ UNCHANGED <<kind, provider, sends, head, heldKey, netVars>>

-----------------------------------------------------------------------------
(* The credentials.                                                        *)

Send(c) ==
    /\ pc[c] = "header"
    /\ heldKey # 0
    /\ Transmit(c, heldKey)
    /\ pc' = [pc EXCEPT ![c] = "sent"]
    /\ UNCHANGED <<kind, provider, attempt, refreshed, head, result, heldKey>>

(* No key is set, or get_header of the application raises.                 *)
HeaderFails(c) ==
    /\ pc[c] = "header"
    /\ \/ heldKey = 0 /\ Fail(c, "Authentication")
       \/ provider # "env" /\ \E class \in ProviderErrors : Fail(c, class)
    /\ UNCHANGED <<kind, provider, sends, head, heldKey, netVars>>

(* The environment credentials have nothing to invalidate; after the       *)
(* refresh perform_one_attempt runs again in the same attempt.             *)
RefreshEnds(c) ==
    /\ pc[c] = "refresh"
    /\ provider # "bare"
    /\ heldKey' = IF provider = "custom" THEN serverKey ELSE heldKey
    /\ pc' = [pc EXCEPT ![c] = "header"]
    /\ UNCHANGED <<kind, provider, attempt, refreshed, sends, head, result, netVars>>

(* An error raised here, an AuthenticationError too, is out of reach of    *)
(* the except clause it is raised in.                                      *)
RefreshFails(c) ==
    /\ pc[c] = "refresh"
    /\ \/ provider = "custom" /\ \E class \in ProviderErrors : Propagate(c, class)
       \/ provider = "bare" /\ Propagate(c, "Attribute")
    /\ UNCHANGED <<kind, provider, sends, head, heldKey, netVars>>

-----------------------------------------------------------------------------
(* perform_request.  session.request() returns with the whole body read,   *)
(* so a body that stalls or breaks is an error of the request.             *)

TimesOutMutant(c) ==
    /\ pc[c] = "sent"
    /\ inbox[c] # NoResponse
    /\ Fail(c, "Timeout")
    /\ UNCHANGED <<kind, provider, sends, head, heldKey, netVars>>
TimesOut(c) ==
    /\ pc[c] = "sent"
    /\ Fail(c, "Timeout")
    /\ UNCHANGED <<kind, provider, sends, head, heldKey, netVars>>

ConnectionBreaks(c) ==
    /\ pc[c] = "sent"
    /\ Fail(c, "Network")
    /\ Disconnect(c)
    /\ UNCHANGED <<kind, provider, sends, head, heldKey>>

HeadArrives(c) ==
    /\ pc[c] = "sent"
    /\ inbox[c] # NoResponse
    /\ head' = [head EXCEPT ![c] = inbox[c]]
    /\ Receive(c)
    /\ pc' = [pc EXCEPT ![c] = "reading"]
    /\ UNCHANGED <<kind, provider, attempt, refreshed, sends, result, heldKey>>

(* A stalled read, or an end before its time that the library noticed.     *)
BodyBreaks(c) ==
    /\ pc[c] = "reading"
    /\ head' = [head EXCEPT ![c] = NoResponse]
    /\ Fail(c, "Network")
    /\ UNCHANGED <<kind, provider, sends, heldKey, netVars>>

(* response.ok: anything that is not a client or server error.             *)
IsOkPy(status) == status < 400

Decoded(response, intact) ==
    IF intact /\ response.code # "none"
    THEN ErrorFromEnvelope(response.code) ELSE "InternalService"

(* A body that is whole, or cut where nobody noticed: no JSON then.  An    *)
(* error thrown with such a status has an envelope and no data.            *)
ReadBody(c, intact) ==
    /\ pc[c] = "reading"
    /\ head' = [head EXCEPT ![c] = NoResponse]
    /\ \/ /\ IsOkPy(head[c].status)
          /\ Finish(c, IF intact /\ head[c].code = "none" THEN "value" ELSE "nothing")
       \/ /\ ~IsOkPy(head[c].status)
          /\ Fail(c, Decoded(head[c], intact))
    /\ UNCHANGED <<kind, provider, sends, heldKey, netVars>>

BodyArrives(c) == ReadBody(c, TRUE)
BodyCutUnnoticed(c) == ReadBody(c, FALSE)

-----------------------------------------------------------------------------
Client(c) ==
    \/ Dispatch(c) \/ BackoffEnds(c)
    \/ Send(c) \/ HeaderFails(c) \/ RefreshEnds(c) \/ RefreshFails(c)
    \/ TimesOut(c) \/ ConnectionBreaks(c) \/ HeadArrives(c)

Body(c) == BodyArrives(c) \/ BodyCutUnnoticed(c) \/ BodyBreaks(c)

Next ==
    \/ \E c \in Calls : Client(c) \/ Body(c)
    \/ NetStep /\ UNCHANGED callVars

Spec == Init /\ [][Next]_vars

(* The sleep ends, the application's credentials answer, and the timers of *)
(* the reads fire.  They limit the time between two bytes only: that a     *)
(* body does not trickle in forever is an assumption on the service.       *)
Proceed(c) == Dispatch(c) \/ BackoffEnds(c) \/ Send(c) \/ HeaderFails(c) \/ RefreshEnds(c) \/ RefreshFails(c)

Fairness == \A c \in Calls : WF_vars(Proceed(c)) /\ WF_vars(TimesOut(c)) /\ WF_vars(Body(c))

FairSpec == Spec /\ Fairness

-----------------------------------------------------------------------------
(* Correctness.                                                            *)

States == {"ready", "header", "sent", "reading", "refresh", "backoff", "done"}

TypeOK ==
    /\ kind \in [Calls -> Kinds]
    /\ provider \in Providers
    /\ pc \in [Calls -> States]
    /\ attempt \in [Calls -> Nat]
    /\ refreshed \in [Calls -> BOOLEAN]
    /\ sends \in [Calls -> Nat]
    /\ head \in [Calls -> Responses]
    /\ result \in [Calls -> Outcomes]
    /\ \A c \in Calls : pc[c] = "done" <=> result[c] # "none"
    /\ heldKey \in Keys
    /\ NetTypeOK

(* Where a call is decides how many requests it may have made.             *)
Bit(b) == IF b THEN 1 ELSE 0

TrafficSound ==
    \A c \in Calls :
        /\ pc[c] = "ready" => sends[c] = 0 /\ attempt[c] = 0
        /\ pc[c] \notin {"ready", "done"} => attempt[c] > 0
        /\ pc[c] = "header" => sends[c] < attempt[c] + Bit(refreshed[c])
        /\ pc[c] = "refresh" => refreshed[c] /\ sends[c] <= attempt[c]
        /\ sends[c] <= attempt[c] + Bit(refreshed[c])
        /\ pc[c] = "backoff" => attempt[c] <= MaxRetries
        /\ attempt[c] > 0 => attempt[c] <= MaxRetries + 1

(* The life of a mutating call's request: once it may have been run the    *)
(* call is neither backing off nor about to send again.                    *)
Untouched(c) == runs[c] = 0 /\ NonePending(c)

MutationSound ==
    \A c \in Calls : kind[c] = "mutation" =>
        /\ pc[c] # "backoff"
        /\ runs[c] \in {0, 1}
        /\ \A m1, m2 \in wire : m1.call = c /\ m2.call = c => m1 = m2
        /\ runs[c] = 1 => NonePending(c)
        /\ pc[c] \in {"ready", "header", "refresh"} => Untouched(c)
        /\ pc[c] = "sent" /\ inbox[c] # NoResponse =>
             NonePending(c) /\ (inbox[c].code = "Authentication" => Untouched(c))
        /\ pc[c] = "reading" =>
             NonePending(c) /\ (head[c].code = "Authentication" => Untouched(c))
        /\ result[c] \in {"value", "nothing"} => NonePending(c)

(* A success on its way to the caller comes of a run, and one without the  *)
(* envelope of an error of a run that returned, as does a value.           *)
Backed(c, response) == runs[c] > 0 /\ (response.code = "none" => returned[c] > 0)

SuccessSound ==
    \A c \in Calls :
        /\ pc[c] = "sent" /\ inbox[c] # NoResponse /\ IsOkPy(inbox[c].status) => Backed(c, inbox[c])
        /\ pc[c] = "reading" => head[c] # NoResponse
        /\ pc[c] = "reading" /\ IsOkPy(head[c].status) => Backed(c, head[c])
        /\ result[c] = "value" => returned[c] > 0
        /\ result[c] = "nothing" => runs[c] > 0

(* A retryable error of a safe action is raised on the last attempt only,  *)
(* a rejected credential after force_refresh was called, and the assertion *)
(* behind the loop fails for a negative number of retries only.            *)
OutcomeSound ==
    \A c \in Calls :
        /\ result[c] \in RetryableClasses /\ kind[c] # "mutation" => attempt[c] = MaxRetries + 1
        /\ result[c] = "Authentication" => refreshed[c]
        /\ result[c] = "FellThrough" => MaxRetries < 0

(* Every run is that of a request which is no longer under way.            *)
Pending(c) == {m \in wire : m.call = c}

RunsSound ==
    /\ IsFiniteSet(wire)
    /\ \A c \in Calls : runs[c] + Cardinality(Pending(c)) <= sends[c]

(* The inductive invariant: traffic is bounded, a mutating action is run   *)
(* at most once and never behind its caller's back, a value is one that a  *)
(* handler returned, and nothing is given up early, in the client that     *)
(* mirrors the other.                                                      *)
IInv ==
    /\ TypeOK
    /\ TrafficSound
    /\ MutationSound
    /\ SuccessSound
    /\ OutcomeSound
    /\ RunsSound

(* The Python pipeline keeps the promise of RemoteCall too: retries, the   *)
(* refresh and a body that breaks after the effect included.               *)
Answer(c) ==
    CASE result[c] = "none" -> "pending"
      [] result[c] = "value" -> "value"
      [] result[c] = "nothing" -> "nothing"
      [] OTHER -> "error"

Promise == INSTANCE RemoteCall WITH
    MaxTries <- MaxRetries + 2,
    tries <- sends,
    answer <- [c \in Calls |-> Answer(c)]

ImplementsRemoteCall == Promise!Spec

(* Every call ends, a stalled body included.                               *)
CallSettles == \A c \in Calls : <>(pc[c] = "done")

(* force_refresh is optional: credentials without it make no call fail     *)
(* with anything but what its request failed with.                         *)
RefreshIsOptional == \A c \in Calls : result[c] # "Attribute"
=============================================================================
