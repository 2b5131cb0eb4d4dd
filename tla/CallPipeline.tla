---------------------------- MODULE CallPipeline ----------------------------
(***************************************************************************)
(* One SDK call of the JavaScript client from dispatchAction to its        *)
(* outcome: withRetry around an attempt, the one credential refresh inside *)
(* an attempt, and performRequest with its timer, over the wire and the    *)
(* service of ServiceWire.  The wire may also cut a body short.            *)
(*                                                                         *)
(* Code between two awaits is one action; a call is suspended in           *)
(*   "header"   credentials.getHeader()                                    *)
(*   "sent"     fetch(), the abort timer running                           *)
(*   "body"     response.json(), the timer already cleared                 *)
(*   "refresh"  credentials.forceRefresh()                                 *)
(*   "backoff"  sleep() between two attempts                               *)
(* and ends in "done".                                                     *)
(***************************************************************************)
EXTENDS ServiceWire

CONSTANTS
    Kinds,          \* what is called: "get", "idempotent" or "mutation"
    CanRefresh,     \* the credentials have a forceRefresh method
    MaxRetries      \* config.maxRetries

ASSUME KindsAssumption == Kinds \subseteq {"get", "idempotent", "mutation"}
ASSUME RefreshAssumption == CanRefresh \in BOOLEAN
ASSUME RetriesAssumption == MaxRetries \in Int

VARIABLES
    kind,        \* action.method = "GET", action.idempotent, or neither
    attempt,     \* attemptNumber of withRetry's loop
    refreshed,   \* authAlreadyRefreshed
    head,        \* the response whose body is being read
    result,      \* "none", "value", "undefined", or the class thrown
    heldKey      \* the key getHeader returns

callVars == <<kind, pc, attempt, refreshed, sends, head, result, heldKey>>
vars == <<callVars, netVars>>

(* What a call may throw: a class, whatever a credential provider rejects  *)
(* with, or the value of `lastError` behind the loop.                      *)
Thrown == ErrorClasses \cup {"Provider", "FellThrough"}
Outcomes == Thrown \cup {"none", "value", "undefined"}

(* A provider of the application rejects with a foreign error, an error of *)
(* its own request, or an authentication error.                            *)
ProviderErrors == {"Provider", "Network", "Authentication"}

Init ==
    /\ kind \in [Calls -> Kinds]
    /\ pc = [c \in Calls |-> "ready"]
    /\ attempt = [c \in Calls |-> 0]
    /\ refreshed = [c \in Calls |-> FALSE]
    /\ sends = [c \in Calls |-> 0]
    /\ head = [c \in Calls |-> NoResponse]
    /\ result = [c \in Calls |-> "none"]
    /\ heldKey \in Keys
    /\ NetInit

-----------------------------------------------------------------------------
(* withRetry and the inner catch of dispatchAction.                        *)

IsSafeToRepeatMutant(c) == TRUE
IsSafeToRepeat(c) == kind[c] \in {"get", "idempotent"}

IsRetryable(class, c) == IsRetryableClass(class) /\ IsSafeToRepeat(c)

LoopRunsMutant(n) == n <= MaxRetries
LoopRuns(n) == n <= MaxRetries + 1

IsLastAttemptMutantEarly(n) == n >= MaxRetries
IsLastAttempt(n) == n > MaxRetries

Finish(c, outcome) ==
    /\ pc' = [pc EXCEPT ![c] = "done"]
    /\ result' = [result EXCEPT ![c] = outcome]
    /\ UNCHANGED <<attempt, refreshed>>

(* The loop's test; past it only the final throw is left.                  *)
EnterAttempt(c, n) ==
    IF LoopRuns(n)
    THEN /\ pc' = [pc EXCEPT ![c] = "header"]
         /\ attempt' = [attempt EXCEPT ![c] = n]
         /\ UNCHANGED <<refreshed, result>>
    ELSE Finish(c, "FellThrough")

MayRefreshMutantAgain(c) == CanRefresh
MayRefresh(c) == CanRefresh /\ ~refreshed[c]

(* An error of the current attempt: refresh, back off, or throw.           *)
Fail(c, class) ==
    \/ /\ class = "Authentication" /\ MayRefresh(c)
       /\ pc' = [pc EXCEPT ![c] = "refresh"]
       /\ refreshed' = [refreshed EXCEPT ![c] = TRUE]
       /\ UNCHANGED <<attempt, result>>
    \/ /\ ~(class = "Authentication" /\ MayRefresh(c))
       /\ ~IsLastAttempt(attempt[c]) /\ IsRetryable(class, c)
       /\ pc' = [pc EXCEPT ![c] = "backoff"]
       /\ UNCHANGED <<attempt, refreshed, result>>
    \/ /\ ~(class = "Authentication" /\ MayRefresh(c))
       /\ IsLastAttempt(attempt[c]) \/ ~IsRetryable(class, c)
       /\ Finish(c, class)

Dispatch(c) ==
    /\ pc[c] = "ready"
    /\ EnterAttempt(c, 1)
    /\ UNCHANGED <<kind, sends, head, heldKey, netVars>>

BackoffEnds(c) ==
    /\ pc[c] = "backoff"
    /\ EnterAttempt(c, attempt[c] + 1)
    /\ UNCHANGED <<kind, sends, head, heldKey, netVars>>

-----------------------------------------------------------------------------
(* The credentials.                                                        *)

(* getHeader resolved: performRequest sends and arms its timer.            *)
Send(c) ==
    /\ pc[c] = "header"
    /\ heldKey # 0
    /\ Transmit(c, heldKey)
    /\ pc' = [pc EXCEPT ![c] = "sent"]
    /\ UNCHANGED <<kind, attempt, refreshed, head, result, heldKey>>

(* The environment credentials throw when no key is set.                   *)
HeaderFails(c) ==
    /\ pc[c] = "header"
    /\ \/ heldKey = 0 /\ Fail(c, "Authentication")
       \/ CanRefresh /\ \E class \in ProviderErrors : Fail(c, class)
    /\ UNCHANGED <<kind, sends, head, heldKey, netVars>>

(* After the refresh performOneAttempt runs again in the same attempt.     *)
RefreshEnds(c) ==
    /\ pc[c] = "refresh"
    /\ heldKey' = serverKey
    /\ pc' = [pc EXCEPT ![c] = "header"]
    /\ UNCHANGED <<kind, attempt, refreshed, sends, head, result, netVars>>

RefreshFails(c) ==
    /\ pc[c] = "refresh"
    /\ \E class \in ProviderErrors : Fail(c, class)
    /\ UNCHANGED <<kind, sends, head, heldKey, netVars>>

-----------------------------------------------------------------------------
(* performRequest: the races of the fetch with its timer.                  *)

TimesOutMutant(c) ==
    /\ pc[c] = "sent"
    /\ inbox[c] # NoResponse
    /\ Fail(c, "Timeout")
    /\ UNCHANGED <<kind, sends, head, heldKey, netVars>>
TimesOut(c) ==
    /\ pc[c] = "sent"
    /\ Fail(c, "Timeout")
    /\ UNCHANGED <<kind, sends, head, heldKey, netVars>>

(* The connection breaks; the current request may still be under way.      *)
ConnectionBreaks(c) ==
    /\ pc[c] = "sent"
    /\ Fail(c, "Network")
    /\ Disconnect(c)
    /\ UNCHANGED <<kind, sends, head, heldKey>>

HeadArrives(c) ==
    /\ pc[c] = "sent"
    /\ inbox[c] # NoResponse
    /\ head' = [head EXCEPT ![c] = inbox[c]]
    /\ Receive(c)
    /\ pc' = [pc EXCEPT ![c] = "body"]
    /\ UNCHANGED <<kind, attempt, refreshed, sends, result, heldKey>>

(* response.json() failing is caught and reads as undefined: an error      *)
(* without an envelope is an InternalService error, a success has no data. *)
(* Neither has the envelope of an error thrown with the status of a        *)
(* success.                                                                *)
Decoded(response, intact) ==
    IF intact /\ response.code # "none"
    THEN ErrorFromEnvelope(response.code) ELSE "InternalService"

ReadBody(c, intact) ==
    /\ pc[c] = "body"
    /\ head' = [head EXCEPT ![c] = NoResponse]
    /\ \/ /\ IsOkStatus(head[c].status)
          /\ Finish(c, IF intact /\ head[c].code = "none" THEN "value" ELSE "undefined")
       \/ /\ ~IsOkStatus(head[c].status)
          /\ Fail(c, Decoded(head[c], intact))
    /\ UNCHANGED <<kind, sends, heldKey, netVars>>

BodyArrives(c) == ReadBody(c, TRUE)
BodyBreaks(c) == ReadBody(c, FALSE)

-----------------------------------------------------------------------------
Client(c) ==
    \/ Dispatch(c) \/ BackoffEnds(c)
    \/ Send(c) \/ HeaderFails(c) \/ RefreshEnds(c) \/ RefreshFails(c)
    \/ TimesOut(c) \/ ConnectionBreaks(c) \/ HeadArrives(c)

Body(c) == BodyArrives(c) \/ BodyBreaks(c)

AllDone == \A c \in Calls : pc[c] = "done"

Next ==
    \/ \E c \in Calls : Client(c) \/ Body(c)
    \/ NetStep /\ UNCHANGED callVars

Spec == Init /\ [][Next]_vars

(* Timers fire, those of the backoff and of the request, and provider      *)
(* promises settle.  A connection need never break.  That a response body  *)
(* is delivered or cut is an assumption of its own: nothing in the client  *)
(* enforces it.                                                            *)
Proceed(c) == Dispatch(c) \/ BackoffEnds(c) \/ Send(c) \/ HeaderFails(c) \/ RefreshEnds(c) \/ RefreshFails(c)

ClientFairness == \A c \in Calls : WF_vars(Proceed(c)) /\ WF_vars(TimesOut(c))
BodyFairness == \A c \in Calls : WF_vars(Body(c))

ClientFairSpec == Spec /\ ClientFairness
FairSpec == Spec /\ ClientFairness /\ BodyFairness

-----------------------------------------------------------------------------
(* Correctness.                                                            *)

States == {"ready", "header", "sent", "body", "refresh", "backoff", "done"}

TypeOK ==
    /\ kind \in [Calls -> Kinds]
    /\ pc \in [Calls -> States]
    /\ attempt \in [Calls -> Nat]
    /\ refreshed \in [Calls -> BOOLEAN]
    /\ sends \in [Calls -> Nat]
    /\ head \in [Calls -> Responses]
    /\ result \in [Calls -> Outcomes]
    /\ \A c \in Calls : pc[c] = "done" <=> result[c] # "none"
    /\ heldKey \in Keys
    /\ NetTypeOK

(* A call costs the service at most one request per attempt, and one more  *)
(* for the credential refresh, which happens once in all attempts.         *)
TrafficBounded ==
    \A c \in Calls :
        /\ sends[c] <= attempt[c] + (IF refreshed[c] THEN 1 ELSE 0)
        /\ attempt[c] > 0 => attempt[c] <= MaxRetries + 1

(* The retry rule: whatever the wire does, and with a refresh in between,  *)
(* a mutating action that is not idempotent is run at most once.           *)
MutationAtMostOnce == \A c \in Calls : kind[c] = "mutation" => runs[c] <= 1

(* Once the call of such an action has returned, no request of it is left  *)
(* to be run behind the caller's back.                                     *)
QuietAfterMutation ==
    \A c \in Calls :
        kind[c] = "mutation" /\ result[c] \in {"value", "undefined"} => NonePending(c)

(* A value was returned by a handler, over retries, breaks and errors that *)
(* pass for successes; and without any run there is no success.            *)
ValueWasReturned ==
    \A c \in Calls :
        /\ result[c] = "value" => returned[c] > 0
        /\ result[c] = "undefined" => runs[c] > 0

(* A retryable error reaches the caller of a safe action only when the     *)
(* attempts are used up.                                                   *)
NoEarlyGiveUp ==
    \A c \in Calls :
        result[c] \in RetryableClasses /\ kind[c] # "mutation"
            => attempt[c] = MaxRetries + 1

(* A rejected credential is refreshed before the caller hears of it.       *)
RefreshTriedFirst ==
    \A c \in Calls : result[c] = "Authentication" /\ CanRefresh => refreshed[c]

(* The throw behind the loop of withRetry is unreachable.                  *)
NeverFallsThrough == \A c \in Calls : result[c] # "FellThrough"

(* Every call ends.                                                        *)
CallSettles == \A c \in Calls : <>(pc[c] = "done")

(* The inductive invariant behind these.  Where a call is decides how many *)
(* requests it may have made.                                              *)
Bit(b) == IF b THEN 1 ELSE 0

TrafficSound ==
    \A c \in Calls :
        /\ pc[c] = "ready" => sends[c] = 0 /\ attempt[c] = 0
        /\ pc[c] \notin {"ready", "done"} => attempt[c] > 0
        /\ pc[c] = "header" => sends[c] < attempt[c] + Bit(refreshed[c])
        /\ pc[c] = "refresh" => refreshed[c] /\ sends[c] <= attempt[c]
        /\ sends[c] <= attempt[c] + Bit(refreshed[c])
        /\ pc[c] = "backoff" => attempt[c] <= MaxRetries
        /\ attempt[c] > 0 => attempt[c] <= MaxRetries + 1

(* A request of a mutating call is on its way, or was run, or answered:    *)
(* never two of these, and a denied one was not run.                       *)
Untouched(c) == runs[c] = 0 /\ NonePending(c)

MutationSound ==
    \A c \in Calls : kind[c] = "mutation" =>
        /\ pc[c] # "backoff"
        /\ runs[c] \in {0, 1}
        /\ \A m1, m2 \in wire : m1.call = c /\ m2.call = c => m1 = m2
        /\ runs[c] = 1 => NonePending(c)
        /\ pc[c] \in {"ready", "header", "refresh"} => Untouched(c)
        /\ pc[c] = "sent" /\ inbox[c] # NoResponse =>
             /\ NonePending(c)
             /\ inbox[c].code = "Authentication" => Untouched(c)
        /\ pc[c] = "body" =>
             /\ NonePending(c)
             /\ head[c].code = "Authentication" => Untouched(c)
        /\ result[c] \in {"value", "undefined"} => NonePending(c)

(* A success on its way to the caller comes of a run, and one without the  *)
(* envelope of an error of a run that returned.                            *)
Backed(c, response) == runs[c] > 0 /\ (response.code = "none" => returned[c] > 0)

SuccessSound ==
    /\ \A c \in Calls :
         /\ pc[c] = "sent" /\ IsOkStatus(inbox[c].status) => Backed(c, inbox[c])
         /\ pc[c] = "body" /\ IsOkStatus(head[c].status) => Backed(c, head[c])
    /\ ValueWasReturned

OutcomeSound ==
    /\ NoEarlyGiveUp
    /\ RefreshTriedFirst
    /\ \A c \in Calls : result[c] = "FellThrough" => MaxRetries < 0

(* Every run is that of a request which is no longer under way.            *)
Pending(c) == {m \in wire : m.call = c}

RunsSound ==
    /\ IsFiniteSet(wire)
    /\ \A c \in Calls : runs[c] + Cardinality(Pending(c)) <= sends[c]

IInv ==
    /\ TypeOK
    /\ TrafficSound
    /\ MutationSound
    /\ SuccessSound
    /\ OutcomeSound
    /\ RunsSound

(* The pipeline keeps the promise of RemoteCall: what its caller sees is   *)
(* the outcome, and a body cut short is a success without a value.         *)
Answer(c) ==
    CASE result[c] = "none" -> "pending"
      [] result[c] = "value" -> "value"
      [] result[c] = "undefined" -> "nothing"
      [] OTHER -> "error"

Promise == INSTANCE RemoteCall WITH
    MaxTries <- MaxRetries + 2,
    tries <- sends,
    answer <- [c \in Calls |-> Answer(c)]

ImplementsRemoteCall == Promise!Spec
=============================================================================
