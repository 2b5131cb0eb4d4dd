------------------------ MODULE PyCallPipeline_proofs ------------------------
(***************************************************************************)
(* Proofs about PyCallPipeline for every set of calls, every kind of       *)
(* credentials, every number of retries and every set of errors a handler  *)
(* throws.                                                                 *)
(***************************************************************************)
EXTENDS PyCallPipeline, FiniteSetTheorems, TLAPS

(* How the classes of the taxonomy divide.                                *)
LEMMA ClassFacts ==
    /\ {"Authentication", "Timeout", "Network"} \subseteq ErrorClasses
    /\ "Authentication" \notin RetryableClasses /\ {"Provider", "Attribute", "FellThrough"} \cap RetryableClasses = {}
    /\ \A class \in ErrorClasses :
         class \notin {"none", "value", "nothing", "Provider", "Attribute", "FellThrough"}
  BY DEF ErrorClasses, RegisteredClasses, RetryableClasses

(* The loop bound and the last-attempt test of with_retry meet exactly.     *)
LEMMA LastAttemptNumber ==
    ASSUME TypeOK, TrafficSound, NEW c \in Calls, pc[c] \notin {"ready", "done"}
    PROVE  ~(attempt[c] <= MaxRetries) => attempt[c] = MaxRetries + 1
<1>1. attempt[c] \in Nat /\ attempt[c] > 0 /\ attempt[c] <= MaxRetries + 1
  BY DEF TypeOK, NetTypeOK, TrafficSound
<1> QED
  BY <1>1, RetriesAssumption

(* What the service answers is a response, and only a success is ok.       *)
LEMMA ResponseFacts ==
    /\ NoResponse \in Responses /\ OkResponse \in Responses
    /\ OpaqueResponse \in Responses
    /\ OkResponse # NoResponse /\ IsOkPy(OkResponse.status)
    /\ ~IsOkPy(OpaqueResponse.status)
    /\ OkResponse.code # "Authentication" /\ OpaqueResponse.code # "Authentication"
  BY DEF NoResponse, OkResponse, OpaqueResponse, Responses, IsOkPy

(* A denied request is not ok and says so.                                 *)
LEMMA DeniedFacts ==
    /\ DeniedResponse \in Responses
    /\ ~IsOkPy(DeniedResponse.status) /\ DeniedResponse.code = "Authentication"
  BY ClassFacts DEF DeniedResponse, MapThrownError, HttpStatus, Responses, IsOkPy

(* What a throw is answered with is nothing or has an envelope, whatever   *)
(* its status.                                                             *)
LEMMA FailureFacts ==
    ASSUME NEW thrown \in HandlerThrows
    PROVE  /\ FailureResponse(thrown) \in Responses
           /\ FailureResponse(thrown).code = "none" => FailureResponse(thrown) = NoResponse
<1> DEFINE response == MapThrownError(thrown)
<1>1. thrown \in Throwables
  BY HandlerAssumption
<1>2. response.status \in Int /\ response.code \in ErrorClasses
      /\ response = [status |-> response.status, code |-> response.code]
  <2>1. CASE thrown.kind = "ecorpin"
    BY <1>1, <2>1 DEF Throwables, MapThrownError, HttpStatus
  <2>2. CASE thrown.kind = "legacy"
    BY <1>1, <2>2 DEF Throwables, MapThrownError, LegacyClass, ErrorClasses, RegisteredClasses,
                      RetryableClasses
  <2>3. CASE thrown.kind \in {"zod", "other"}
    BY <2>3 DEF MapThrownError, ErrorClasses, RegisteredClasses
  <2> QED
    BY <1>1, <2>1, <2>2, <2>3 DEF Throwables
<1>3. IsFinalStatus(response.status) => response.status \in Nat
  BY <1>2 DEF IsFinalStatus
<1> QED
  BY <1>2, <1>3, ResponseFacts, ClassFacts DEF FailureResponse, Responses

(* What the client makes of an error response is an error class.           *)
LEMMA DecodedClass ==
    ASSUME NEW response \in Responses, NEW intact \in BOOLEAN
    PROVE  /\ Decoded(response, intact) \in ErrorClasses
           /\ Decoded(response, intact) = "Authentication" => response.code = "Authentication"
  BY DEF Decoded, ErrorFromEnvelope, ErrorClasses, RegisteredClasses, Responses

(* The error path of an attempt keeps its variables in their types.        *)
LEMMA FailType ==
    ASSUME TypeOK, NEW c \in Calls, NEW class \in Outcomes \ {"none"}, Fail(c, class)
    PROVE  /\ pc' \in [Calls -> States]
           /\ attempt' \in [Calls -> Nat]
           /\ refreshed' \in [Calls -> BOOLEAN]
           /\ result' \in [Calls -> Outcomes]
           /\ pc[c] # "done" => \A d \in Calls : pc'[d] = "done" <=> result'[d] # "none"
<1> USE DEF TypeOK, NetTypeOK, States
<1>1. CASE pc' = [pc EXCEPT ![c] = "refresh"]
           /\ refreshed' = [refreshed EXCEPT ![c] = TRUE] /\ UNCHANGED <<attempt, result>>
  BY <1>1
<1>2. CASE pc' = [pc EXCEPT ![c] = "backoff"] /\ UNCHANGED <<attempt, refreshed, result>>
  BY <1>2
<1>3. CASE Finish(c, class)
  BY <1>3 DEF Finish
<1> QED
  BY <1>1, <1>3 DEF Fail, CatchAuthentication, Propagate

(* An error of force_refresh passes the except clause by: the credential   *)
(* was refreshed once, so it fails like any other error.                   *)
LEMMA RefreshFailure ==
    ASSUME TrafficSound, NEW c \in Calls, RefreshFails(c)
    PROVE  /\ \E class \in ErrorClasses \cup {"Provider", "Attribute"} : Fail(c, class)
           /\ pc[c] = "refresh"
           /\ UNCHANGED <<kind, provider, sends, head, heldKey, netVars>>
<1>1. refreshed[c]
  BY DEF TrafficSound, RefreshFails
<1> QED
  BY <1>1, ClassFacts DEF RefreshFails, ProviderErrors, Fail

(* Every step keeps every variable in its type.                            *)
LEMMA TypeInductive == TypeOK /\ [Next]_vars => TypeOK'
<1> SUFFICES ASSUME TypeOK, [Next]_vars PROVE TypeOK'
  OBVIOUS
<1> USE DEF TypeOK, NetTypeOK, callVars, netVars
<1>1. ASSUME NEW c \in Calls, Dispatch(c) PROVE TypeOK'
  BY <1>1 DEF Outcomes, Raised, States, Dispatch, EnterAttempt, Finish
<1>2. ASSUME NEW c \in Calls, BackoffEnds(c) PROVE TypeOK'
  BY <1>2 DEF Outcomes, Raised, States, BackoffEnds, EnterAttempt, Finish
<1>3. ASSUME NEW c \in Calls, Send(c) PROVE TypeOK'
  BY <1>3, KeyAssumption, ResponseFacts DEF States, Requests, Send, Transmit
<1>4. ASSUME NEW c \in Calls, HeaderFails(c) PROVE TypeOK'
  <2>1. PICK class \in Outcomes \ {"none"} : Fail(c, class)
    BY <1>4, ClassFacts DEF HeaderFails, ProviderErrors, Outcomes, Raised
  <2> QED
    BY <1>4, <2>1, FailType DEF HeaderFails, ProviderErrors
<1>5. ASSUME NEW c \in Calls, RefreshEnds(c) PROVE TypeOK'
  BY <1>5, KeyAssumption DEF States, RefreshEnds
<1>6. ASSUME NEW c \in Calls, RefreshFails(c) PROVE TypeOK'
  <2>1. PICK class \in Outcomes \ {"none"} : Propagate(c, class)
    BY <1>6, ClassFacts DEF RefreshFails, ProviderErrors, Outcomes, Raised
  <2>2. CASE pc' = [pc EXCEPT ![c] = "backoff"] /\ UNCHANGED <<attempt, refreshed, result>>
    BY <1>6, <2>2 DEF RefreshFails, States
  <2>3. CASE Finish(c, class)
    BY <1>6, <2>3 DEF RefreshFails, Finish, States
  <2> QED
    BY <2>1, <2>2, <2>3 DEF Propagate
<1>7. ASSUME NEW c \in Calls, TimesOut(c) PROVE TypeOK'
  <2>1. PICK class \in Outcomes \ {"none"} : Fail(c, class)
    BY <1>7, ClassFacts DEF TimesOut, Outcomes, Raised
  <2> QED
    BY <1>7, <2>1, FailType DEF TimesOut
<1>8. ASSUME NEW c \in Calls, ConnectionBreaks(c) PROVE TypeOK'
  <2>1. PICK class \in Outcomes \ {"none"} : Fail(c, class)
    BY <1>8, ClassFacts DEF ConnectionBreaks, Outcomes, Raised
  <2> QED
    BY <1>8, <2>1, FailType DEF ConnectionBreaks, Disconnect
<1>9. ASSUME NEW c \in Calls, HeadArrives(c) PROVE TypeOK'
  BY <1>9, ResponseFacts DEF States, HeadArrives, Receive
<1>10. ASSUME NEW c \in Calls, NEW intact \in BOOLEAN, ReadBody(c, intact) PROVE TypeOK'
  <2>1. CASE IsOkPy(head[c].status)
    BY <1>10, <2>1, ResponseFacts DEF Outcomes, States, ReadBody, Finish
  <2>2. CASE ~IsOkPy(head[c].status)
    <3>1. PICK class \in Outcomes \ {"none"} : Fail(c, class)
      BY <1>10, <2>2, DecodedClass, ClassFacts DEF ReadBody, Outcomes, Raised
    <3>2. head' = [head EXCEPT ![c] = NoResponse]
          /\ UNCHANGED <<kind, provider, sends, heldKey, netVars>>
      BY <1>10 DEF ReadBody
    <3> QED
      BY <1>10, <3>1, FailType, ResponseFacts DEF ReadBody
  <2> QED
    BY <2>1, <2>2
<1>11. ASSUME NEW m \in wire, Reject(m), UNCHANGED callVars PROVE TypeOK'
  BY <1>11, DeniedFacts DEF Reject, Reply
<1>12. ASSUME NEW m \in wire, Execute(m), UNCHANGED callVars PROVE TypeOK'
  BY <1>12, ResponseFacts DEF Requests, Execute, Reply
<1>13. ASSUME NEW m \in wire, ExecuteFails(m), UNCHANGED callVars PROVE TypeOK'
  BY <1>13, FailureFacts DEF Requests, ExecuteFails, Reply
<1>14. ASSUME NEW m \in wire, GatewayFails(m), UNCHANGED callVars PROVE TypeOK'
  BY <1>14, ResponseFacts DEF GatewayFails, Reply
<1>15. ASSUME NEW m \in wire, Lose(m), UNCHANGED callVars PROVE TypeOK'
  BY <1>15 DEF Lose
<1>16. CASE RotateKey /\ UNCHANGED callVars
  BY <1>16, KeyAssumption DEF Keys, RotateKey
<1>17. CASE UNCHANGED vars
  BY <1>17 DEF vars
<1>18. ASSUME NEW c \in Calls, BodyBreaks(c) PROVE TypeOK'
  <2>1. PICK class \in Outcomes \ {"none"} : Fail(c, class)
    BY <1>18, ClassFacts DEF BodyBreaks, Outcomes, Raised
  <2> QED
    BY <1>18, <2>1, FailType, ResponseFacts DEF BodyBreaks
<1> QED
  BY <1>1, <1>2, <1>3, <1>4, <1>5, <1>6, <1>7, <1>8, <1>9, <1>10, <1>11, <1>12, <1>13, <1>14,
     <1>15, <1>16, <1>17, <1>18
     DEF Next, Client, Body, BodyArrives, BodyCutUnnoticed, NetStep, Service

(* Where a call is bounds the requests it has made, on every step.         *)
LEMMA TrafficInductive == TypeOK /\ TrafficSound /\ [Next]_vars => TrafficSound'
<1> SUFFICES ASSUME TypeOK, TrafficSound, [Next]_vars PROVE TrafficSound'
  OBVIOUS
<1> USE DEF callVars, netVars
<1>0. TypeOK'
  BY TypeInductive
<1>1. ASSUME NEW c \in Calls, Dispatch(c) PROVE TrafficSound'
  BY <1>1, RetriesAssumption
     DEF TypeOK, TrafficSound, Bit, Dispatch, EnterAttempt, LoopRuns, Finish
<1>2. ASSUME NEW c \in Calls, BackoffEnds(c) PROVE TrafficSound'
  BY <1>2, RetriesAssumption DEF TypeOK, TrafficSound, Bit, BackoffEnds, EnterAttempt, Finish
<1>3. ASSUME NEW c \in Calls, Send(c) PROVE TrafficSound'
  BY <1>3 DEF TypeOK, TrafficSound, Bit, Send, Transmit
<1>4. ASSUME NEW c \in Calls, HeaderFails(c) PROVE TrafficSound'
  BY <1>4, RetriesAssumption
     DEF TypeOK, TrafficSound, Bit, HeaderFails, Fail, CatchAuthentication, Propagate, Finish
<1>5. ASSUME NEW c \in Calls, RefreshEnds(c) PROVE TrafficSound'
  BY <1>5 DEF TypeOK, TrafficSound, Bit, RefreshEnds
<1>6. ASSUME NEW c \in Calls, RefreshFails(c) PROVE TrafficSound'
  BY <1>6, RetriesAssumption DEF TypeOK, TrafficSound, RefreshFails, Propagate, Finish
<1>7. ASSUME NEW c \in Calls, TimesOut(c) PROVE TrafficSound'
  BY <1>7, RetriesAssumption DEF TypeOK, TrafficSound, TimesOut, Fail, Propagate, Finish
<1>8. ASSUME NEW c \in Calls, ConnectionBreaks(c) PROVE TrafficSound'
  BY <1>8, RetriesAssumption DEF TypeOK, TrafficSound, ConnectionBreaks, Fail, Propagate, Finish
<1>9. ASSUME NEW c \in Calls, HeadArrives(c) PROVE TrafficSound'
  BY <1>9, RetriesAssumption DEF TrafficSound, HeadArrives
<1>10. ASSUME NEW c \in Calls, NEW intact \in BOOLEAN, ReadBody(c, intact) PROVE TrafficSound'
  BY <1>10, RetriesAssumption
     DEF TypeOK, TrafficSound, Bit, ReadBody, Fail, CatchAuthentication, Propagate, Finish
<1>11. ASSUME NEW m \in wire, Reject(m), UNCHANGED callVars PROVE TrafficSound'
  BY <1>11, RetriesAssumption DEF TrafficSound
<1>12. ASSUME NEW m \in wire, Execute(m), UNCHANGED callVars PROVE TrafficSound'
  BY <1>12, RetriesAssumption DEF TrafficSound
<1>13. ASSUME NEW m \in wire, ExecuteFails(m), UNCHANGED callVars PROVE TrafficSound'
  BY <1>13 DEF TrafficSound
<1>14. ASSUME NEW m \in wire, GatewayFails(m), UNCHANGED callVars PROVE TrafficSound'
  BY <1>14, RetriesAssumption DEF TrafficSound
<1>15. ASSUME NEW m \in wire, Lose(m), UNCHANGED callVars PROVE TrafficSound'
  BY <1>15, RetriesAssumption DEF TrafficSound
<1>16. CASE RotateKey /\ UNCHANGED callVars
  BY <1>16 DEF TrafficSound
<1>17. CASE UNCHANGED vars
  BY <1>17, RetriesAssumption DEF TrafficSound, vars
<1>18. ASSUME NEW c \in Calls, BodyBreaks(c) PROVE TrafficSound'
  BY <1>18, RetriesAssumption DEF TypeOK, TrafficSound, BodyBreaks, Fail, Propagate, Finish
<1> QED
  BY <1>1, <1>2, <1>3, <1>4, <1>5, <1>6, <1>7, <1>8, <1>9, <1>10, <1>11, <1>12, <1>13, <1>14,
     <1>15, <1>16, <1>17, <1>18
     DEF Next, Client, Body, BodyArrives, BodyCutUnnoticed, NetStep, Service

(* A success on its way to the caller comes of a run.                      *)
LEMMA SuccessInductive == TypeOK /\ SuccessSound /\ [Next]_vars => SuccessSound'
<1> SUFFICES ASSUME TypeOK, SuccessSound, [Next]_vars PROVE SuccessSound'
  OBVIOUS
<1> USE DEF callVars, netVars
<1>0. TypeOK'
  BY TypeInductive
<1>1. ASSUME NEW c \in Calls, Dispatch(c) PROVE SuccessSound'
  BY <1>1, RetriesAssumption DEF TypeOK, SuccessSound, Backed, Dispatch, EnterAttempt, Finish
<1>2. ASSUME NEW c \in Calls, BackoffEnds(c) PROVE SuccessSound'
  BY <1>2, RetriesAssumption DEF TypeOK, SuccessSound, Backed, BackoffEnds, EnterAttempt, Finish
<1>3. ASSUME NEW c \in Calls, Send(c) PROVE SuccessSound'
  BY <1>3 DEF TypeOK, NetTypeOK, SuccessSound, Backed, Send, Transmit
<1>4. ASSUME NEW c \in Calls, HeaderFails(c) PROVE SuccessSound'
  BY <1>4, RetriesAssumption
     DEF TypeOK, SuccessSound, Backed, HeaderFails, ProviderErrors, Fail, CatchAuthentication,
         Propagate, Finish
<1>5. ASSUME NEW c \in Calls, RefreshEnds(c) PROVE SuccessSound'
  BY <1>5 DEF SuccessSound, Backed, RefreshEnds
<1>6. ASSUME NEW c \in Calls, RefreshFails(c) PROVE SuccessSound'
  BY <1>6, RetriesAssumption
     DEF TypeOK, SuccessSound, Backed, RefreshFails, ProviderErrors, Propagate, Finish
<1>7. ASSUME NEW c \in Calls, TimesOut(c) PROVE SuccessSound'
  BY <1>7, RetriesAssumption DEF TypeOK, SuccessSound, Backed, TimesOut, Fail, Propagate, Finish
<1>8. ASSUME NEW c \in Calls, ConnectionBreaks(c) PROVE SuccessSound'
  BY <1>8, RetriesAssumption
     DEF TypeOK, SuccessSound, Backed, ConnectionBreaks, Disconnect, Fail, Propagate, Finish
<1>9. ASSUME NEW c \in Calls, HeadArrives(c) PROVE SuccessSound'
  BY <1>9, RetriesAssumption DEF TypeOK, SuccessSound, Backed, HeadArrives, Receive
<1>10. ASSUME NEW c \in Calls, NEW intact \in BOOLEAN, ReadBody(c, intact) PROVE SuccessSound'
  BY <1>10, RetriesAssumption, ClassFacts, DecodedClass
     DEF TypeOK, SuccessSound, Backed, ReadBody, Fail, CatchAuthentication, Propagate, Finish
<1>11. ASSUME NEW m \in wire, Reject(m), UNCHANGED callVars PROVE SuccessSound'
  BY <1>11, RetriesAssumption, DeniedFacts DEF SuccessSound, Backed, Reject, Reply
<1>12. ASSUME NEW m \in wire, Execute(m), UNCHANGED callVars PROVE SuccessSound'
  BY <1>12, RetriesAssumption DEF TypeOK, NetTypeOK, SuccessSound, Backed, Execute, Reply, Current
<1>13. ASSUME NEW m \in wire, ExecuteFails(m), UNCHANGED callVars PROVE SuccessSound'
  <2>1. PICK thrown \in HandlerThrows : Reply(m, FailureResponse(thrown))
    BY <1>13 DEF ExecuteFails
  <2>2. runs' = [runs EXCEPT ![m.call] = @ + 1] /\ returned' = returned /\ m.call \in Calls
    BY <1>13 DEF ExecuteFails, TypeOK, NetTypeOK, Requests
  <2>3. \A d \in Calls : runs'[d] \in Nat /\ (runs[d] > 0 => runs'[d] > 0)
    BY <2>2 DEF TypeOK, NetTypeOK
  <2>4. ASSUME NEW d \in Calls, pc[d] = "sent", inbox'[d] # NoResponse,
               IsOkPy(inbox'[d].status)
        PROVE  Backed(d, inbox[d])'
    <3>1. CASE inbox'[d] = inbox[d]
      BY <2>2, <2>3, <2>4, <3>1 DEF SuccessSound, Backed
    <3>2. CASE d = m.call /\ inbox'[d] = FailureResponse(thrown)
      <4>1. FailureResponse(thrown).code # "none"
        BY <2>4, <3>2, FailureFacts, ResponseFacts
      <4>2. runs'[d] > 0
        BY <2>2, <3>2 DEF TypeOK, NetTypeOK
      <4> QED
        BY <3>2, <4>1, <4>2 DEF Backed
    <3> QED
      BY <2>1, <3>1, <3>2 DEF Reply, Current
  <2> QED
    BY <1>13, <2>2, <2>3, <2>4 DEF SuccessSound, Backed
<1>14. ASSUME NEW m \in wire, GatewayFails(m), UNCHANGED callVars PROVE SuccessSound'
  BY <1>14, RetriesAssumption, ResponseFacts DEF SuccessSound, Backed, GatewayFails, Reply
<1>15. ASSUME NEW m \in wire, Lose(m), UNCHANGED callVars PROVE SuccessSound'
  BY <1>15, RetriesAssumption DEF SuccessSound, Backed, Lose
<1>16. CASE RotateKey /\ UNCHANGED callVars
  BY <1>16 DEF SuccessSound, Backed, RotateKey
<1>17. CASE UNCHANGED vars
  BY <1>17, RetriesAssumption DEF SuccessSound, Backed, vars
<1>18. ASSUME NEW c \in Calls, BodyBreaks(c) PROVE SuccessSound'
  BY <1>18, RetriesAssumption DEF TypeOK, SuccessSound, Backed, BodyBreaks, Fail, Propagate, Finish
<1> QED
  BY <1>1, <1>2, <1>3, <1>4, <1>5, <1>6, <1>7, <1>8, <1>9, <1>10, <1>11, <1>12, <1>13, <1>14,
     <1>15, <1>16, <1>17, <1>18
     DEF Next, Client, Body, BodyArrives, BodyCutUnnoticed, NetStep, Service

(* The life of a mutating call's request, when no handler throws what      *)
(* triggers the credential refresh.                                        *)
LEMMA MutationInductive ==
    ASSUME HandlersNeverDeny
    PROVE  TypeOK /\ SuccessSound /\ MutationSound /\ [Next]_vars => MutationSound'
<1> SUFFICES ASSUME TypeOK, SuccessSound, MutationSound, [Next]_vars PROVE MutationSound'
  OBVIOUS
<1> USE DEF callVars, netVars
<1>0. TypeOK'
  BY TypeInductive
<1>1. ASSUME NEW c \in Calls, Dispatch(c) PROVE MutationSound'
  BY <1>1, RetriesAssumption
     DEF TypeOK, MutationSound, Untouched, NonePending, Dispatch, EnterAttempt, Finish
<1>2. ASSUME NEW c \in Calls, BackoffEnds(c) PROVE MutationSound'
  BY <1>2, RetriesAssumption
     DEF TypeOK, MutationSound, Untouched, NonePending, BackoffEnds, EnterAttempt, Finish
<1>3. ASSUME NEW c \in Calls, Send(c) PROVE MutationSound'
  BY <1>3 DEF TypeOK, NetTypeOK, MutationSound, Untouched, NonePending, Send, Transmit
<1>4. ASSUME NEW c \in Calls, HeaderFails(c) PROVE MutationSound'
  BY <1>4, RetriesAssumption
     DEF TypeOK, MutationSound, Untouched, NonePending, HeaderFails, Fail, CatchAuthentication,
         Propagate, Finish, IsRetryable
<1>5. ASSUME NEW c \in Calls, RefreshEnds(c) PROVE MutationSound'
  BY <1>5 DEF MutationSound, Untouched, NonePending, RefreshEnds
<1>6. ASSUME NEW c \in Calls, RefreshFails(c) PROVE MutationSound'
  BY <1>6, RetriesAssumption
     DEF TypeOK, MutationSound, Untouched, NonePending, RefreshFails, Propagate, Finish,
         IsRetryable
<1>7. ASSUME NEW c \in Calls, TimesOut(c) PROVE MutationSound'
  BY <1>7, RetriesAssumption
     DEF TypeOK, MutationSound, Untouched, NonePending, TimesOut, Fail, Propagate, Finish,
         IsRetryable
<1>8. ASSUME NEW c \in Calls, ConnectionBreaks(c) PROVE MutationSound'
  BY <1>8, RetriesAssumption
     DEF TypeOK, MutationSound, Untouched, NonePending, ConnectionBreaks, Disconnect, Fail,
         Propagate, Finish, IsRetryable
<1>9. ASSUME NEW c \in Calls, HeadArrives(c) PROVE MutationSound'
  BY <1>9, RetriesAssumption
     DEF TypeOK, MutationSound, Untouched, NonePending, HeadArrives, Receive
<1>10. ASSUME NEW c \in Calls, NEW intact \in BOOLEAN, ReadBody(c, intact) PROVE MutationSound'
  BY <1>10, RetriesAssumption, DecodedClass
     DEF TypeOK, MutationSound, Untouched, NonePending, ReadBody, Fail, CatchAuthentication,
         Propagate, Finish, IsRetryable
<1>11. ASSUME NEW m \in wire, Reject(m), UNCHANGED callVars PROVE MutationSound'
  BY <1>11, DeniedFacts DEF MutationSound, Untouched, NonePending, Reject, Reply, Current
<1>12. ASSUME NEW m \in wire, Execute(m), UNCHANGED callVars PROVE MutationSound'
  BY <1>12, RetriesAssumption, ResponseFacts
     DEF MutationSound, Untouched, NonePending, Execute, Reply, Current
<1>13. ASSUME NEW m \in wire, ExecuteFails(m), UNCHANGED callVars PROVE MutationSound'
  BY <1>13, FailureFacts
     DEF HandlersNeverDeny, MutationSound, Untouched, NonePending, ExecuteFails, Reply, Current
<1>14. ASSUME NEW m \in wire, GatewayFails(m), UNCHANGED callVars PROVE MutationSound'
  BY <1>14, RetriesAssumption
     DEF MutationSound, Untouched, NonePending, GatewayFails, Reply, Current
<1>15. ASSUME NEW m \in wire, Lose(m), UNCHANGED callVars PROVE MutationSound'
  BY <1>15, RetriesAssumption DEF MutationSound, Untouched, NonePending, Lose
<1>16. CASE RotateKey /\ UNCHANGED callVars
  BY <1>16 DEF MutationSound, Untouched, NonePending, RotateKey
<1>17. CASE UNCHANGED vars
  BY <1>17, RetriesAssumption DEF MutationSound, Untouched, NonePending, vars
<1>18. ASSUME NEW c \in Calls, BodyBreaks(c) PROVE MutationSound'
  BY <1>18, RetriesAssumption
     DEF TypeOK, MutationSound, Untouched, NonePending, BodyBreaks, Fail, Propagate, Finish,
         IsRetryable
<1> QED
  BY <1>1, <1>2, <1>3, <1>4, <1>5, <1>6, <1>7, <1>8, <1>9, <1>10, <1>11, <1>12, <1>13, <1>14,
     <1>15, <1>16, <1>17, <1>18
     DEF Next, Client, Body, BodyArrives, BodyCutUnnoticed, NetStep, Service

(* The error path ends a call only when there is nothing left to try.      *)
LEMMA FailOutcome ==
    ASSUME TypeOK, TrafficSound, OutcomeSound, UNCHANGED kind,
           NEW c \in Calls, pc[c] \notin {"ready", "done"},
           NEW class \in ErrorClasses \cup {"Provider", "Attribute"}, Fail(c, class)
    PROVE  OutcomeSound'
<1> USE DEF TypeOK, NetTypeOK, OutcomeSound
<1>1. CASE refreshed' = [refreshed EXCEPT ![c] = TRUE] /\ UNCHANGED <<attempt, result>>
  BY <1>1
<1>2. CASE UNCHANGED <<attempt, refreshed, result>>
  BY <1>2
<1>3. CASE /\ Finish(c, class)
           /\ ~(class = "Authentication" /\ ~refreshed[c])
           /\ ~(attempt[c] <= MaxRetries /\ IsRetryable(class, c))
  <2>1. class \in RetryableClasses /\ kind[c] # "mutation" => attempt[c] = MaxRetries + 1
    BY <1>3, LastAttemptNumber, KindsAssumption
       DEF IsRetryable, IsRetryableClass
  <2>2. class = "Authentication" => refreshed[c]
    BY <1>3
  <2>3. class # "FellThrough"
    BY ClassFacts
  <2> QED
    BY <1>3, <2>1, <2>2, <2>3 DEF Finish
<1> QED
  BY <1>3 DEF Fail, CatchAuthentication, Propagate

(* What a call may end with.                                               *)
LEMMA OutcomeInductive == TypeOK /\ TrafficSound /\ OutcomeSound /\ [Next]_vars => OutcomeSound'
<1> SUFFICES ASSUME TypeOK, TrafficSound, OutcomeSound, [Next]_vars PROVE OutcomeSound'
  OBVIOUS
<1> USE DEF callVars, netVars
<1>0. TypeOK'
  BY TypeInductive
<1>1. ASSUME NEW c \in Calls, Dispatch(c) PROVE OutcomeSound'
  BY <1>1, RetriesAssumption, ClassFacts
     DEF TypeOK, TrafficSound, OutcomeSound, Dispatch, EnterAttempt, LoopRuns, Finish
<1>2. ASSUME NEW c \in Calls, BackoffEnds(c) PROVE OutcomeSound'
  BY <1>2, RetriesAssumption
     DEF TypeOK, TrafficSound, OutcomeSound, BackoffEnds, EnterAttempt, LoopRuns
<1>3. ASSUME NEW c \in Calls, Send(c) PROVE OutcomeSound'
  BY <1>3 DEF OutcomeSound, Send
<1>4. ASSUME NEW c \in Calls, HeaderFails(c) PROVE OutcomeSound'
  BY <1>4, FailOutcome, ClassFacts DEF HeaderFails, ProviderErrors
<1>5. ASSUME NEW c \in Calls, RefreshEnds(c) PROVE OutcomeSound'
  BY <1>5 DEF OutcomeSound, RefreshEnds
<1>6. ASSUME NEW c \in Calls, RefreshFails(c) PROVE OutcomeSound'
  BY <1>6, RefreshFailure, FailOutcome
<1>7. ASSUME NEW c \in Calls, TimesOut(c) PROVE OutcomeSound'
  BY <1>7, FailOutcome, ClassFacts DEF TimesOut
<1>8. ASSUME NEW c \in Calls, ConnectionBreaks(c) PROVE OutcomeSound'
  BY <1>8, FailOutcome, ClassFacts DEF ConnectionBreaks, Disconnect
<1>9. ASSUME NEW c \in Calls, HeadArrives(c) PROVE OutcomeSound'
  BY <1>9, RetriesAssumption DEF OutcomeSound, HeadArrives
<1>10. ASSUME NEW c \in Calls, NEW intact \in BOOLEAN, ReadBody(c, intact) PROVE OutcomeSound'
  <2>1. CASE IsOkPy(head[c].status)
    <3>1. result'[c] \notin RetryableClasses \cup {"Authentication", "FellThrough"}
      BY <1>10, <2>1, ClassFacts DEF ReadBody, Finish, TypeOK, ErrorClasses, RegisteredClasses
    <3> QED
      BY <1>10, <2>1, <3>1 DEF ReadBody, Finish, TypeOK, OutcomeSound
  <2>2. CASE ~IsOkPy(head[c].status)
    BY <1>10, <2>2, FailOutcome, DecodedClass DEF ReadBody, TypeOK
  <2> QED
    BY <2>1, <2>2
<1>11. ASSUME NEW m \in wire, Reject(m), UNCHANGED callVars PROVE OutcomeSound'
  BY <1>11, RetriesAssumption DEF OutcomeSound
<1>12. ASSUME NEW m \in wire, Execute(m), UNCHANGED callVars PROVE OutcomeSound'
  BY <1>12, RetriesAssumption DEF OutcomeSound
<1>13. ASSUME NEW m \in wire, ExecuteFails(m), UNCHANGED callVars PROVE OutcomeSound'
  BY <1>13 DEF OutcomeSound
<1>14. ASSUME NEW m \in wire, GatewayFails(m), UNCHANGED callVars PROVE OutcomeSound'
  BY <1>14 DEF OutcomeSound
<1>15. ASSUME NEW m \in wire, Lose(m), UNCHANGED callVars PROVE OutcomeSound'
  BY <1>15, RetriesAssumption DEF OutcomeSound
<1>16. CASE RotateKey /\ UNCHANGED callVars
  BY <1>16 DEF OutcomeSound
<1>17. CASE UNCHANGED vars
  BY <1>17, RetriesAssumption DEF OutcomeSound, vars
<1>18. ASSUME NEW c \in Calls, BodyBreaks(c) PROVE OutcomeSound'
  BY <1>18, FailOutcome, ClassFacts DEF BodyBreaks
<1> QED
  BY <1>1, <1>2, <1>3, <1>4, <1>5, <1>6, <1>7, <1>8, <1>9, <1>10, <1>11, <1>12, <1>13, <1>14,
     <1>15, <1>16, <1>17, <1>18
     DEF Next, Client, Body, BodyArrives, BodyCutUnnoticed, NetStep, Service

(* Requests that leave the wire without a run disturb no account.          *)
LEMMA RequestsVanish ==
    ASSUME TypeOK, RunsSound, wire' \subseteq wire, UNCHANGED <<sends, runs>>
    PROVE  RunsSound'
<1>1. IsFiniteSet(wire')
  BY FS_Subset DEF RunsSound
<1>2. ASSUME NEW c \in Calls
      PROVE  runs'[c] + Cardinality(Pending(c)') <= sends'[c]
  <2>1. Pending(c)' \subseteq Pending(c) /\ IsFiniteSet(Pending(c))
    BY FS_Subset DEF Pending, RunsSound
  <2>2. /\ Cardinality(Pending(c)') \in Nat /\ Cardinality(Pending(c)) \in Nat
        /\ Cardinality(Pending(c)') <= Cardinality(Pending(c))
    BY <2>1, FS_Subset, FS_CardinalityType
  <2> QED
    BY <2>2 DEF RunsSound, TypeOK, NetTypeOK
<1> QED
  BY <1>1, <1>2 DEF RunsSound

(* A request the service runs leaves the wire as it is counted.            *)
LEMMA RequestRuns ==
    ASSUME TypeOK, RunsSound, NEW m \in wire, UNCHANGED sends,
           wire' = wire \ {m}, runs' = [runs EXCEPT ![m.call] = @ + 1]
    PROVE  RunsSound'
<1>1. IsFiniteSet(wire')
  BY FS_Subset DEF RunsSound
<1>2. ASSUME NEW c \in Calls
      PROVE  runs'[c] + Cardinality(Pending(c)') <= sends'[c]
  <2>1. IsFiniteSet(Pending(c)) /\ Cardinality(Pending(c)) \in Nat
    BY FS_Subset, FS_CardinalityType DEF Pending, RunsSound
  <2>2. CASE m.call = c
    <3>1. Pending(c)' = Pending(c) \ {m} /\ m \in Pending(c)
      BY <2>2 DEF Pending
    <3>2. Cardinality(Pending(c)') = Cardinality(Pending(c)) - 1
      BY <2>1, <3>1, FS_RemoveElement
    <3> QED
      BY <2>1, <3>2 DEF RunsSound, TypeOK, NetTypeOK
  <2>3. CASE m.call # c
    <3>1. Pending(c)' = Pending(c) /\ runs'[c] = runs[c]
      BY <2>3 DEF Pending, TypeOK, NetTypeOK
    <3> QED
      BY <3>1 DEF RunsSound
  <2> QED
    BY <2>2, <2>3
<1> QED
  BY <1>1, <1>2 DEF RunsSound

(* Every run is accounted for by a request, on every step.                 *)
LEMMA RunsInductive == TypeOK /\ RunsSound /\ [Next]_vars => RunsSound'
<1> SUFFICES ASSUME TypeOK, RunsSound, [Next]_vars PROVE RunsSound'
  OBVIOUS
<1> USE DEF callVars, netVars
<1>1. ASSUME NEW c \in Calls, Send(c) PROVE RunsSound'
  <2> DEFINE m == [call |-> c, seq |-> sends[c] + 1, key |-> heldKey]
  <2>1. wire' = wire \cup {m} /\ runs' = runs /\ sends' = [sends EXCEPT ![c] = @ + 1]
    BY <1>1 DEF Send, Transmit
  <2>2. IsFiniteSet(wire')
    BY <2>1, FS_AddElement DEF RunsSound
  <2>3. ASSUME NEW d \in Calls
        PROVE  runs'[d] + Cardinality(Pending(d)') <= sends'[d]
    <3>1. IsFiniteSet(Pending(d)) /\ Cardinality(Pending(d)) \in Nat
      BY FS_Subset, FS_CardinalityType DEF Pending, RunsSound
    <3>2. CASE d = c
      <4>1. Pending(d)' = Pending(d) \cup {m}
        BY <2>1, <3>2 DEF Pending
      <4>2. /\ Cardinality(Pending(d)') <= Cardinality(Pending(d)) + 1
            /\ Cardinality(Pending(d)') \in Nat
        <5> HIDE DEF m
        <5>1. Cardinality(Pending(d) \cup {m})
                \in {Cardinality(Pending(d)), Cardinality(Pending(d)) + 1}
          BY <3>1, FS_AddElement
        <5> QED
          BY <3>1, <4>1, <5>1
      <4>3. sends'[d] = sends[d] + 1 /\ runs'[d] = runs[d]
        BY <2>1, <3>2 DEF TypeOK, NetTypeOK
      <4> QED
        BY <3>1, <4>2, <4>3 DEF RunsSound, TypeOK, NetTypeOK
    <3>3. CASE d # c
      <4>1. Pending(d)' = Pending(d) /\ sends'[d] = sends[d]
        BY <2>1, <3>3 DEF Pending, TypeOK
      <4> QED
        BY <2>1, <4>1 DEF RunsSound
    <3> QED
      BY <3>2, <3>3
  <2> QED
    BY <2>2, <2>3 DEF RunsSound
<1>2. ASSUME NEW c \in Calls,
             \/ Dispatch(c) \/ BackoffEnds(c) \/ HeaderFails(c) \/ RefreshEnds(c)
             \/ RefreshFails(c) \/ TimesOut(c) \/ ConnectionBreaks(c) \/ HeadArrives(c)
             \/ BodyArrives(c) \/ BodyCutUnnoticed(c) \/ BodyBreaks(c)
      PROVE  RunsSound'
  <2>1. wire' \subseteq wire /\ UNCHANGED <<sends, runs>>
    BY <1>2 DEF Dispatch, BackoffEnds, HeaderFails, RefreshEnds, RefreshFails, TimesOut,
                ConnectionBreaks, Disconnect, HeadArrives, Receive, BodyArrives, BodyCutUnnoticed,
                BodyBreaks, ReadBody
  <2> QED
    BY <2>1, RequestsVanish
<1>3. ASSUME NEW m \in wire, Execute(m) \/ ExecuteFails(m), UNCHANGED callVars
      PROVE  RunsSound'
  BY <1>3, RequestRuns DEF Execute, ExecuteFails, Reply
<1>4. ASSUME NEW m \in wire, Reject(m) \/ GatewayFails(m) \/ Lose(m), UNCHANGED callVars
      PROVE  RunsSound'
  BY <1>4, RequestsVanish DEF Reject, GatewayFails, Lose, Reply
<1>5. CASE RotateKey /\ UNCHANGED callVars
  BY <1>5, RequestsVanish DEF RotateKey
<1>6. CASE UNCHANGED vars
  BY <1>6, RequestsVanish DEF vars
<1> QED
  BY <1>1, <1>2, <1>3, <1>4, <1>5, <1>6 DEF Next, Client, Body, NetStep, Service

(* The initial states satisfy the inductive invariant.                     *)
LEMMA InitInvariant == Init => IInv
<1> SUFFICES ASSUME Init PROVE IInv
  OBVIOUS
<1>1. TypeOK
  BY KeyAssumption, ResponseFacts DEF Init, NetInit, TypeOK, NetTypeOK, States, Keys, Outcomes
<1>2. RunsSound
  <2>1. \A c \in Calls : Pending(c) = {}
    BY DEF Init, NetInit, Pending
  <2> QED
    BY <2>1, FS_EmptySet DEF Init, NetInit, RunsSound
<1> QED
  BY <1>1, <1>2
     DEF Init, NetInit, IInv, TrafficSound, MutationSound, SuccessSound, Bit, Untouched,
         NonePending, OutcomeSound, RetryableClasses

(* Type correctness: every variable keeps its type.                        *)
THEOREM TypeCorrect == Spec => []TypeOK
<1>1. Init => TypeOK
  BY InitInvariant DEF IInv
<1> QED
  BY <1>1, TypeInductive, PTL DEF Spec

(* The inductive invariant: bounded traffic, a mutating action that is run *)
(* at most once and not behind its caller's back, values that a handler    *)
(* returned, nothing given up early.                                       *)
THEOREM InvariantHolds ==
    ASSUME HandlersNeverDeny
    PROVE  Spec => []IInv
<1>1. IInv /\ [Next]_vars => IInv'
  BY TypeInductive, TrafficInductive, SuccessInductive, MutationInductive,
     OutcomeInductive, RunsInductive DEF IInv
<1> QED
  BY <1>1, InitInvariant, PTL DEF Spec

(* An outcome is answered as what it is.                                   *)
LEMMA AnswerFacts ==
    ASSUME NEW class \in Raised
    PROVE  class \notin {"none", "value", "nothing"}
  BY ClassFacts DEF Raised

(* The error path of an attempt is a throw of the abstract call, or not    *)
(* seen by its caller.                                                     *)
LEMMA FailImplements ==
    ASSUME TypeOK, NEW c \in Calls, pc[c] # "done", NEW class \in Raised, Fail(c, class),
           UNCHANGED <<kind, sends, runs, returned>>
    PROVE  [Promise!Next]_Promise!vars
<1> USE DEF Promise!Next, Promise!vars
<1>1. CASE UNCHANGED result
  BY <1>1 DEF Answer
<1>2. CASE result' = [result EXCEPT ![c] = class]
  <2>1. result[c] = "none" /\ result'[c] = class
    BY <1>2 DEF TypeOK
  <2>2. Answer(c) = "pending" /\ Answer(c)' = "error"
    BY <2>1, AnswerFacts DEF Answer
  <2>3. \A d \in Calls \ {c} : Answer(d)' = Answer(d)
    BY <1>2 DEF Answer, TypeOK
  <2> QED
    BY <2>2, <2>3 DEF Promise!Throw
<1> QED
  BY <1>1, <1>2 DEF Fail, CatchAuthentication, Propagate, Finish

(* Every step of the pipeline is a step of the abstract call, or none.     *)
LEMMA StepImplements ==
    IInv /\ [Next]_vars => [Promise!Next]_Promise!vars
<1> SUFFICES ASSUME IInv, [Next]_vars PROVE [Promise!Next]_Promise!vars
  OBVIOUS
<1> USE DEF callVars, netVars, Promise!Next, Promise!vars
<1>0. TypeOK /\ TrafficSound /\ MutationSound /\ SuccessSound /\ RunsSound
  BY DEF IInv
<1>1. ASSUME NEW c \in Calls, Dispatch(c) \/ BackoffEnds(c) PROVE [Promise!Next]_Promise!vars
  <2>1. CASE UNCHANGED result
    BY <1>1, <2>1 DEF Dispatch, BackoffEnds, Answer
  <2>2. CASE Finish(c, "FellThrough")
    <3>1. result[c] = "none" /\ result'[c] = "FellThrough"
      BY <1>0, <1>1, <2>2 DEF Finish, TypeOK, Dispatch, BackoffEnds
    <3>2. Answer(c) = "pending" /\ Answer(c)' = "error"
      BY <3>1 DEF Answer
    <3>3. \A d \in Calls \ {c} : Answer(d)' = Answer(d)
      BY <1>0, <2>2 DEF Answer, Finish, TypeOK
    <3> QED
      BY <1>1, <3>2, <3>3 DEF Promise!Throw, Dispatch, BackoffEnds
  <2> QED
    BY <1>1, <2>1, <2>2 DEF Dispatch, BackoffEnds, EnterAttempt
<1>2. ASSUME NEW c \in Calls, Send(c) PROVE [Promise!Next]_Promise!vars
  <2>1. Answer(c) = "pending" /\ result' = result
    BY <1>0, <1>2 DEF Send, Answer, TypeOK
  <2>2. sends[c] < MaxRetries + 2
    BY <1>0, <1>2, RetriesAssumption DEF Send, TypeOK, TrafficSound, Bit
  <2>3. kind[c] = "mutation" => runs[c] = 0
    BY <1>0, <1>2 DEF Send, MutationSound, Untouched
  <2> QED
    BY <1>2, <2>1, <2>2, <2>3 DEF Send, Transmit, Answer, Promise!Try, Promise!Once
<1>3. ASSUME NEW c \in Calls, HeaderFails(c) \/ RefreshFails(c) \/ TimesOut(c) \/ ConnectionBreaks(c) \/ BodyBreaks(c)
      PROVE  [Promise!Next]_Promise!vars
  <2>1. PICK class \in Raised : Fail(c, class)
    BY <1>0, <1>3, RefreshFailure, ClassFacts
       DEF HeaderFails, ProviderErrors, TimesOut, ConnectionBreaks, BodyBreaks, Raised
  <2>2. pc[c] # "done" /\ UNCHANGED <<kind, sends, runs, returned>>
    BY <1>3 DEF HeaderFails, RefreshFails, TimesOut, ConnectionBreaks, Disconnect, BodyBreaks
  <2> QED
    BY <1>0, <2>1, <2>2, FailImplements
<1>4. ASSUME NEW c \in Calls, RefreshEnds(c) \/ HeadArrives(c) PROVE [Promise!Next]_Promise!vars
  BY <1>4 DEF RefreshEnds, HeadArrives, Receive, Answer
<1>5. ASSUME NEW c \in Calls, NEW intact \in BOOLEAN, ReadBody(c, intact)
      PROVE  [Promise!Next]_Promise!vars
  <2>1. CASE IsOkPy(head[c].status)
    <3>1. /\ result[c] = "none" /\ Backed(c, head[c])
          /\ UNCHANGED <<kind, sends, runs, returned>>
      BY <1>0, <1>5, <2>1 DEF ReadBody, TypeOK, SuccessSound
    <3>2. PICK outcome \in {"value", "nothing"} :
            /\ result' = [result EXCEPT ![c] = outcome]
            /\ outcome = "value" => head[c].code = "none"
      BY <1>5, <2>1 DEF ReadBody, Finish
    <3>3. /\ Answer(c) = "pending"
          /\ Answer(c)' = IF outcome = "value" THEN "value" ELSE "nothing"
      BY <1>0, <3>1, <3>2 DEF Answer, TypeOK
    <3>4. \A d \in Calls \ {c} : Answer(d)' = Answer(d)
      BY <1>0, <3>2 DEF Answer, TypeOK
    <3>5. CASE outcome = "value"
      BY <3>1, <3>2, <3>3, <3>4, <3>5 DEF Backed, Promise!Return
    <3>6. CASE outcome = "nothing"
      BY <3>1, <3>3, <3>4, <3>6 DEF Backed, Promise!ReturnNothing
    <3> QED
      BY <3>2, <3>5, <3>6
  <2>2. CASE ~IsOkPy(head[c].status)
    <3>1. PICK class \in Raised : Fail(c, class)
      BY <1>0, <1>5, <2>2, DecodedClass DEF ReadBody, TypeOK, Raised
    <3> QED
      BY <1>0, <1>5, <3>1, FailImplements DEF ReadBody
  <2> QED
    BY <2>1, <2>2
<1>6. ASSUME NEW m \in wire, Execute(m) \/ ExecuteFails(m), UNCHANGED callVars
      PROVE  [Promise!Next]_Promise!vars
  <2> DEFINE c == m.call
  <2>0. c \in Calls /\ m \in Pending(c)
    BY <1>0 DEF TypeOK, NetTypeOK, Requests, Pending
  <2>1. /\ runs' = [runs EXCEPT ![c] = @ + 1]
        /\ returned' \in {returned, [returned EXCEPT ![c] = @ + 1]}
    BY <1>6 DEF Execute, ExecuteFails
  <2>2. runs[c] < sends[c]
    <3>1. IsFiniteSet(Pending(c))
      BY <1>0, FS_Subset DEF RunsSound, Pending
    <3>2. Cardinality(Pending(c)) \in Nat /\ Cardinality(Pending(c)) # 0
      BY <2>0, <3>1, FS_CardinalityType, FS_EmptySet
    <3> QED
      BY <1>0, <2>0, <3>2 DEF RunsSound, TypeOK, NetTypeOK
  <2>3. kind[c] = "mutation" => runs[c] = 0 /\ Answer(c) \in {"pending", "error"}
    <3>1. ~NonePending(c)
      BY <2>0 DEF NonePending, Pending
    <3> QED
      BY <1>0, <2>0, <3>1 DEF MutationSound, Answer
  <2> QED
    BY <1>6, <2>0, <2>1, <2>2, <2>3 DEF Answer, Promise!Run, Promise!Once
<1>7. ASSUME NEW m \in wire, Reject(m) \/ GatewayFails(m) \/ Lose(m), UNCHANGED callVars
      PROVE  [Promise!Next]_Promise!vars
  BY <1>7 DEF Reject, GatewayFails, Lose, Answer
<1>8. CASE RotateKey /\ UNCHANGED callVars
  BY <1>8 DEF RotateKey, Answer
<1>9. CASE UNCHANGED vars
  BY <1>9 DEF vars, Answer
<1> QED
  BY <1>1, <1>2, <1>3, <1>4, <1>5, <1>6, <1>7, <1>8, <1>9
     DEF Next, Client, Body, BodyArrives, BodyCutUnnoticed, NetStep, Service

(* The pipeline implements the abstract call.                              *)
THEOREM Implementation ==
    ASSUME HandlersNeverDeny
    PROVE  Spec => ImplementsRemoteCall
<1>1. Init => Promise!Init
  BY KindsAssumption DEF Init, NetInit, Promise!Init, Answer
<1> QED
  BY <1>1, InvariantHolds, StepImplements, PTL DEF Spec, ImplementsRemoteCall, Promise!Spec
=============================================================================
