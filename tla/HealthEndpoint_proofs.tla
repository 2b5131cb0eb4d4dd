------------------------ MODULE HealthEndpoint_proofs ------------------------
(***************************************************************************)
(* Proofs about ActionEndpoint and HealthEndpoint for every number of      *)
(* requests, probes and plugins, and everything that may be thrown.        *)
(***************************************************************************)
EXTENDS HealthEndpoint, FiniteSetTheorems, TLAPS

Outcomes == {"idle", "handling", "answered", "unanswered", "dropped"}
Counts == [success : 0 .. PluginCount, failure : 0 .. PluginCount]
Shapes == [status : Nat, code : ErrorClasses \cup {"none"}]

(* What the states of a request say of its input, its answer and what the  *)
(* plugins have heard of it.                                               *)
RequestSound(r) ==
    /\ pc[r] = "idle" => input[r] = "none"
    /\ pc[r] = "handling" => Handled(r)
    /\ pc[r] \in {"idle", "handling", "dropped"} => told[r] = NobodyTold
    /\ pc[r] = "unanswered" => LostAlone(r)
    /\ pc[r] = "answered" /\ ~Handled(r) =>
         /\ \/ MiddlewareBreaks(r)
            \/ /\ response[r].status \in 400 .. 499
               /\ ~IsRetryableClass(ErrorFromEnvelope(response[r].code))
         /\ told[r] = NobodyTold
    /\ pc[r] = "answered" /\ Handled(r) =>
         IF response[r].code = "none"
         THEN told[r] = [success |-> PluginCount, failure |-> 0]
         ELSE told[r].failure = PluginCount

DropsSound ==
    /\ \A p \in Probes : probe[p] = "unanswered" => report[p].database = "report"
    /\ (\E r \in Requests : pc[r] = "dropped") \/ (\E p \in Probes : probe[p] = "dropped")
         => exitOnRejection /\ Culprits # {}

RequestTypes ==
    /\ pc \in [Requests -> Outcomes]
    /\ input \in [Requests -> {"none", "raw", "parsed"}]
    /\ response \in [Requests -> Shapes]
    /\ told \in [Requests -> Counts]

RequestsSound == RequestTypes /\ \A r \in Requests : RequestSound(r)

(* Every error is answered with a class, and what middleware refuses with  *)
(* is for good.                                                            *)
LEMMA MappedFacts ==
    /\ "none" \notin ErrorClasses
    /\ \A thrown \in Thrown \cup {[kind |-> "other"]} :
         /\ MapThrownError(thrown).code \in ErrorClasses
         /\ IsWritable(MapThrownError(thrown).status) => MapThrownError(thrown).status \in Nat
<1>1. "none" \notin ErrorClasses
  BY DEF ErrorClasses, RegisteredClasses, RetryableClasses
<1>2. ASSUME NEW thrown \in Thrown \cup {[kind |-> "other"]}
      PROVE  MapThrownError(thrown).code \in ErrorClasses
  <2>1. CASE thrown.kind = "ecorpin"
    BY <2>1, ThrownAssumption DEF MapThrownError
  <2>2. CASE thrown.kind # "ecorpin"
    BY <2>2 DEF MapThrownError, LegacyClass, ErrorClasses, RegisteredClasses, RetryableClasses
  <2> QED
    BY <2>1, <2>2
<1> QED
  BY <1>1, <1>2 DEF IsWritable

Refusals ==
    [kind : {"legacy"}, status : ParserStatuses]
      \cup [kind : {"ecorpin"}, class : {"Authentication", "Authorization"}]
      \cup {[kind |-> "zod"]}

LEMMA RefusalFacts ==
    \A thrown \in Refusals :
        /\ MapThrownError(thrown) \in Shapes
        /\ MapThrownError(thrown).status \in 400 .. 499
        /\ ~IsRetryableClass(ErrorFromEnvelope(MapThrownError(thrown).code))
  BY DEF Refusals, ParserStatuses, MapThrownError, LegacyClass, HttpStatus, Shapes, ErrorClasses, RegisteredClasses,
         RetryableClasses, IsRetryableClass, ErrorFromEnvelope

(* The error path of a request that is being handled.                      *)
LEMMA CatchKeeps ==
    ASSUME RequestsSound, NEW r \in Requests, pc[r] = "handling",
           NEW thrown \in Thrown \cup {[kind |-> "other"]}, NEW counted,
           NEW heard \in 0 .. PluginCount, Catch(r, thrown, counted, heard),
           UNCHANGED <<requestVars, input>>
    PROVE  RequestsSound'
<1> USE PluginAssumption
<1> USE DEF RequestsSound, RequestTypes, Outcomes, Counts, requestVars
<1>1. PICK thrower \in MayThrow \cup {0} :
        /\ told' = [told EXCEPT ![r] = [success |-> heard, failure |-> Heard(thrower)]]
        /\ IF thrower = 0 /\ IsWritable(MapThrownError(thrown).status)
           THEN AnswerError(r, thrown)
           ELSE Reject(r, Record(counted, FALSE))
  BY DEF Catch
<1>2. Heard(thrower) \in 0 .. PluginCount /\ (thrower # 0 => Heard(thrower) > 0)
  BY DEF Heard
<1>3. told' \in [Requests -> Counts] /\ told'[r].failure = Heard(thrower)
      /\ \A q \in Requests \ {r} : told'[q] = told[q]
  BY <1>1, <1>2
<1>4. CASE thrower = 0 /\ IsWritable(MapThrownError(thrown).status)
  <2>1. MapThrownError(thrown) = [status |-> MapThrownError(thrown).status,
                                  code |-> MapThrownError(thrown).code]
    BY DEF MapThrownError
  <2>2. /\ pc' = [pc EXCEPT ![r] = "answered"]
        /\ response' = [response EXCEPT ![r] = MapThrownError(thrown)]
    BY <1>1, <1>4, <2>1 DEF AnswerError, Answer
  <2>3. MapThrownError(thrown) \in Shapes /\ MapThrownError(thrown).code # "none"
    BY <1>4, <2>1, MappedFacts DEF Shapes
  <2>4. Heard(thrower) = PluginCount
    BY <1>4 DEF Heard
  <2>5. RequestTypes'
    BY <1>3, <2>2, <2>3
  <2>6. RequestSound(r)'
    BY <1>3, <2>2, <2>3, <2>4 DEF RequestSound, Handled
  <2>7. \A q \in Requests \ {r} : RequestSound(q)'
    BY <1>3, <2>2 DEF RequestSound, Handled, LostAlone, MiddlewareBreaks
  <2> QED
    BY <2>5, <2>6, <2>7
<1>5. CASE ~(thrower = 0 /\ IsWritable(MapThrownError(thrown).status))
  <2>1. /\ pc' = [q \in Requests |->
                   IF q = r THEN "unanswered"
                   ELSE IF exitOnRejection /\ pc[q] = "handling" THEN "dropped" ELSE pc[q]]
        /\ response' = response
    BY <1>1, <1>5 DEF Reject
  <2>2. told'[r].failure > 0 \/ PluginCount = 0
    BY <1>2, <1>3 DEF Heard
  <2>3. RequestSound(r)'
    BY <2>1, <2>2 DEF RequestSound, LostAlone
  <2>4. \A q \in Requests \ {r} : RequestSound(q)'
    BY <1>3, <2>1 DEF RequestSound, Handled, LostAlone, MiddlewareBreaks
  <2> QED
    BY <1>3, <2>1, <2>3, <2>4
<1> QED
  BY <1>4, <1>5

(* Every step of the action keeps what is known of its requests.           *)
LEMMA RequestsKeep ==
    ASSUME RequestsSound, Next PROVE RequestsSound'
<1> USE PluginAssumption
<1> USE DEF RequestsSound, RequestTypes, Outcomes, Counts, requestVars
<1>1. ASSUME NEW r \in Requests, NEW thrown, Refuse(r, thrown), pc[r] = "idle",
             \/ thrown \in Refusals
             \/ thrown \in Thrown \cup {[kind |-> "other"]} /\ MiddlewareBreaks(r)
      PROVE  RequestsSound'
  <2>1. PICK answer \in {MapThrownError(thrown), [status |-> 500, code |-> "none"]} :
          /\ pc' = [pc EXCEPT ![r] = "answered"]
          /\ response' = [response EXCEPT ![r] = answer]
          /\ answer = MapThrownError(thrown) <=> IsWritable(MapThrownError(thrown).status)
    BY <1>1 DEF Refuse, AnswerError, Answer, MapThrownError, IsWritable
  <2>2. UNCHANGED <<requestVars, input, told>>
    BY <1>1 DEF Refuse
  <2>3. /\ answer \in Shapes
        /\ \/ MiddlewareBreaks(r)
           \/ /\ answer.status \in 400 .. 499
              /\ ~IsRetryableClass(ErrorFromEnvelope(answer.code))
    <3>1. CASE thrown \in Refusals
      BY <2>1, <3>1, RefusalFacts DEF IsWritable
    <3>2. CASE thrown \in Thrown \cup {[kind |-> "other"]} /\ MiddlewareBreaks(r)
      <4>1. IsWritable(MapThrownError(thrown).status) => MapThrownError(thrown) \in Shapes
        BY <3>2, MappedFacts DEF Shapes, MapThrownError
      <4> QED
        BY <2>1, <3>2, <4>1 DEF Shapes
    <3> QED
      BY <1>1, <3>1, <3>2
  <2>4. RequestTypes'
    BY <2>1, <2>2, <2>3
  <2>5. RequestSound(r)'
    BY <1>1, <2>1, <2>2, <2>3 DEF RequestSound, Handled, MiddlewareBreaks
  <2>6. \A q \in Requests \ {r} : RequestSound(q)'
    BY <2>1, <2>2 DEF RequestSound, Handled, LostAlone, MiddlewareBreaks
  <2> QED
    BY <2>4, <2>5, <2>6
<1>2. ASSUME NEW r \in Requests, RefuseMalformed(r) \/ RefuseCaller(r) \/ RefuseInput(r)
      PROVE  RequestsSound'
  <2>1. CASE RefuseMalformed(r)
    BY <1>1, <2>1 DEF RefuseMalformed, Refusals
  <2>2. CASE RefuseCaller(r)
    <3>1. AuthError(key[r]) \in Refusals \cup {[kind |-> "other"]}
      BY <2>2 DEF RefuseCaller, AuthError, Refusals
    <3> QED
      BY <1>1, <2>2, <3>1 DEF RefuseCaller, MiddlewareBreaks
  <2>3. CASE RefuseInput(r)
    <3>1. CASE body[r] = "invalid" /\ Refuse(r, [kind |-> "zod"])
      BY <1>1, <2>3, <3>1 DEF RefuseInput, Refusals
    <3>2. CASE body[r] = "breaking" /\ \E thrown \in Thrown : Refuse(r, thrown)
      BY <1>1, <2>3, <3>2 DEF RefuseInput, MiddlewareBreaks
    <3> QED
      BY <2>3, <3>1, <3>2 DEF RefuseInput
  <2> QED
    BY <1>2, <2>1, <2>2, <2>3
<1>3. ASSUME NEW r \in Requests, StartHandler(r) PROVE RequestsSound'
  BY <1>3 DEF StartHandler, RequestSound, Handled, LostAlone, MiddlewareBreaks
<1>4. ASSUME NEW r \in Requests, HandlerThrows(r) PROVE RequestsSound'
  BY <1>4, CatchKeeps DEF HandlerThrows
<1>5. ASSUME NEW r \in Requests, HandlerReturns(r) PROVE RequestsSound'
  <2> DEFINE ok == [status |-> IF Method = "POST" THEN 201 ELSE 200, code |-> "none"]
  <2>1. /\ pc' = [pc EXCEPT ![r] = "answered"]
        /\ response' = [response EXCEPT ![r] = ok]
        /\ told' = [told EXCEPT ![r].success = PluginCount]
        /\ UNCHANGED <<requestVars, input>> /\ pc[r] = "handling"
    BY <1>5 DEF HandlerReturns, Answer
  <2>2. ok \in Shapes /\ ok.code = "none"
    BY DEF Shapes
  <2> HIDE DEF ok
  <2>3. told'[r] = [success |-> PluginCount, failure |-> 0]
    BY <2>1 DEF RequestSound, NobodyTold
  <2>4. RequestTypes'
    BY <2>1, <2>2
  <2>5. RequestSound(r)'
    BY <2>1, <2>2, <2>3 DEF RequestSound, Handled
  <2>6. \A q \in Requests \ {r} : RequestSound(q)'
    BY <2>1 DEF RequestSound, Handled, LostAlone, MiddlewareBreaks
  <2> QED
    BY <2>4, <2>5, <2>6
<1>6. ASSUME NEW r \in Requests, HookThrows(r) PROVE RequestsSound'
  <2>1. PICK thrower \in MayThrow, thrown \in Thrown :
          Catch(r, thrown, Record(metrics, TRUE), thrower)
    BY <1>6 DEF HookThrows
  <2>2. pc[r] = "handling" /\ UNCHANGED <<requestVars, input>> /\ thrower \in 0 .. PluginCount
    BY <1>6 DEF HookThrows
  <2> HIDE DEF RequestsSound
  <2> QED
    BY <2>1, <2>2, CatchKeeps
<1>7. ASSUME NEW r \in Requests, ResultUnserializable(r) PROVE RequestsSound'
  <2>1. /\ Catch(r, [kind |-> "other"], Record(metrics, TRUE), PluginCount)
        /\ pc[r] = "handling" /\ UNCHANGED <<requestVars, input>>
    BY <1>7, Zenon DEF ResultUnserializable
  <2>2. /\ [kind |-> "other"] \in Thrown \cup {[kind |-> "other"]}
        /\ PluginCount \in 0 .. PluginCount
    OBVIOUS
  <2> HIDE DEF RequestsSound
  <2> QED
    BY <2>1, <2>2, CatchKeeps
<1> QED
  BY <1>2, <1>3, <1>4, <1>5, <1>6, <1>7 DEF Next, Arrive, Settle

(* A rejection that nothing handled stays one.                             *)
LEMMA CulpritsStay ==
    ASSUME RequestsSound, RequestsSound',
           \A r \in Requests : pc[r] = "unanswered" => pc'[r] = "unanswered",
           \A p \in Probes : probe[p] = "unanswered" => probe'[p] = "unanswered"
    PROVE  Culprits # {} => Culprits' # {}
  BY DEF Culprits, RequestsSound, RequestSound, LostAlone

(* What an error path that throws and an exit leave of the requests.       *)
LEMMA StepEffects ==
    ASSUME RequestsSound, Next
    PROVE  /\ UNCHANGED exitOnRejection
           /\ \A r \in Requests : pc[r] = "unanswered" => pc'[r] = "unanswered"
           /\ \A r \in Requests : pc'[r] = "dropped" /\ pc[r] # "dropped" =>
                exitOnRejection /\ \E q \in Requests : LosesRequest(q)
<1>1. PICK r \in Requests : Arrive(r) \/ Settle(r)
  BY DEF Next
<1>2. pc[r] \in {"idle", "handling"} /\ UNCHANGED exitOnRejection
  BY <1>1 DEF Arrive, Settle, RefuseMalformed, RefuseCaller, RefuseInput, Refuse, StartHandler,
              HandlerThrows, HandlerReturns, HookThrows, ResultUnserializable, requestVars
<1>3. \/ pc' = [pc EXCEPT ![r] = "answered"] \/ pc' = [pc EXCEPT ![r] = "handling"]
      \/ pc' = [q \in Requests |->
                  IF q = r THEN "unanswered"
                  ELSE IF exitOnRejection /\ pc[q] = "handling" THEN "dropped" ELSE pc[q]]
  BY <1>1 DEF Arrive, Settle, RefuseMalformed, RefuseCaller, RefuseInput, Refuse, StartHandler,
              HandlerThrows, HandlerReturns, HookThrows, ResultUnserializable, Catch,
              Reject, AnswerError, Answer
<1> QED
  BY <1>2, <1>3 DEF RequestsSound, RequestTypes, LosesRequest

ProbeTypes == probe \in [Probes -> {"idle", "waiting", "answered", "unanswered", "dropped"}]

HealthSound == RequestsSound /\ ProbeTypes /\ DropsSound /\ DOMAIN report = Probes

(* The invariant is kept by the action's steps with their probes ...       *)
LEMMA RequestStepKeeps ==
    ASSUME HealthSound, RequestStep PROVE HealthSound'
<1> USE DEF HealthSound
<1>1. Next /\ UNCHANGED <<configured, report>>
  BY DEF RequestStep
<1>2. RequestsSound'
  BY <1>1, RequestsKeep
<1>3. \/ UNCHANGED probe
      \/ /\ exitOnRejection /\ \E r \in Requests : LosesRequest(r)
         /\ probe' = [p \in Probes |-> IF probe[p] = "waiting" THEN "dropped" ELSE probe[p]]
  BY DEF RequestStep, Exited, ProbeTypes
<1>4. ProbeTypes' /\ \A p \in Probes : probe[p] = "unanswered" <=> probe'[p] = "unanswered"
  BY <1>3 DEF ProbeTypes, Outcomes
<1>5. ASSUME NEW q \in Requests, LosesRequest(q) PROVE Culprits' # {}
  BY <1>2, <1>5 DEF RequestsSound, RequestSound, LosesRequest, Culprits
<1>6. Culprits # {} => Culprits' # {}
  BY <1>1, <1>2, <1>4, StepEffects, CulpritsStay
<1>7. DropsSound'
  BY <1>1, <1>3, <1>5, <1>6, StepEffects DEF DropsSound
<1> QED
  BY <1>1, <1>2, <1>4, <1>7

(* ... and by the probes with the requests they take with them.            *)
LEMMA ProbeSettlesKeeps ==
    ASSUME HealthSound, NEW p \in Probes, ProbeSettles(p) PROVE HealthSound'
<1> USE DEF HealthSound
<1>1. PICK check \in Checks :
        /\ BuildReport(p, check)
        /\ IF Rejects(check) THEN ProbeRejects(p) ELSE ProbeAnswers(p)
  BY DEF ProbeSettles
<1>2. probe[p] = "waiting" /\ UNCHANGED configured
  BY DEF ProbeSettles
<1>3. /\ DOMAIN report' = Probes /\ report'[p].database = Database(check)
      /\ \A q \in Probes \ {p} : report'[q] = report[q]
  BY <1>1 DEF BuildReport
<1>4. CASE ~Rejects(check)
  <2>1. probe' = [probe EXCEPT ![p] = "answered"] /\ UNCHANGED vars
    BY <1>1, <1>4 DEF ProbeAnswers
  <2>2. RequestsSound'
    BY <2>1
       DEF vars, requestVars, RequestsSound, RequestTypes, RequestSound, Handled, LostAlone,
           MiddlewareBreaks
  <2>3. ProbeTypes' /\ \A q \in Probes \ {p} : probe'[q] = probe[q]
    BY <2>1 DEF ProbeTypes, Outcomes
  <2>4. probe'[p] = "answered"
    BY <2>1 DEF ProbeTypes
  <2>5. Culprits # {} => Culprits' # {}
    BY <1>2, <2>1, <2>2, CulpritsStay DEF vars
  <2>6. DropsSound'
    BY <1>3, <2>1, <2>4, <2>5 DEF DropsSound, vars, requestVars
  <2> QED
    BY <1>3, <2>2, <2>3, <2>6
<1>5. CASE Rejects(check)
  <2>1. Database(check) = "report"
    BY <1>5 DEF Rejects, Database
  <2>2. /\ ProbeRejects(p)
        /\ UNCHANGED <<requestVars, input, response, told>>
    BY <1>1, <1>5 DEF ProbeRejects
  <2>3. /\ probe' \in [Probes -> {"idle", "waiting", "answered", "unanswered", "dropped"}]
        /\ probe'[p] = "unanswered"
        /\ \A q \in Probes \ {p} :
             probe'[q] = IF exitOnRejection /\ probe[q] = "waiting" THEN "dropped" ELSE probe[q]
    BY <2>2 DEF ProbeRejects, Exited, ProbeTypes
  <2>4. pc' = [r \in Requests |->
                 IF exitOnRejection /\ pc[r] = "handling" THEN "dropped" ELSE pc[r]]
    BY <2>2 DEF ProbeRejects, Exited, RequestsSound, RequestTypes
  <2>5. RequestsSound'
    BY <2>2, <2>4
       DEF requestVars, RequestsSound, RequestTypes, Outcomes, RequestSound, Handled, LostAlone,
           MiddlewareBreaks
  <2>6. p \in Culprits'
    BY <2>3 DEF Culprits
  <2>7. DropsSound'
    BY <1>3, <2>1, <2>2, <2>3, <2>4, <2>6 DEF DropsSound, requestVars
  <2> QED
    BY <1>3, <2>3, <2>5, <2>7 DEF ProbeTypes
<1> QED
  BY <1>4, <1>5

LEMMA HealthInductive == HealthSound /\ [HealthNext]_healthVars => HealthSound'
<1> SUFFICES ASSUME HealthSound, [HealthNext]_healthVars PROVE HealthSound'
  OBVIOUS
<1>1. ASSUME NEW p \in Probes, ProbeArrives(p) PROVE HealthSound'
  <2>1. probe' = [probe EXCEPT ![p] = "waiting"] /\ UNCHANGED <<vars, configured, report>>
    BY <1>1 DEF ProbeArrives
  <2>2. RequestsSound'
    BY <2>1
       DEF HealthSound, vars, requestVars, RequestsSound, RequestTypes, RequestSound, Handled,
           LostAlone, MiddlewareBreaks
  <2>3. ProbeTypes' /\ \A q \in Probes : probe[q] = "unanswered" => probe'[q] = "unanswered"
    BY <1>1 DEF HealthSound, ProbeTypes, ProbeArrives
  <2>4. Culprits # {} => Culprits' # {}
    BY <2>1, <2>2, <2>3, CulpritsStay DEF HealthSound, vars
  <2>5. DropsSound'
    BY <2>1, <2>4 DEF HealthSound, DropsSound, vars, requestVars
  <2> QED
    BY <2>1, <2>2, <2>3, <2>5 DEF HealthSound
<1>2. CASE UNCHANGED healthVars
  BY <1>2 DEF healthVars, vars, requestVars, HealthSound, ProbeTypes, DropsSound, Culprits,
     RequestsSound, RequestTypes, RequestSound, Handled, LostAlone, MiddlewareBreaks
<1> QED
  BY <1>1, <1>2, RequestStepKeeps, ProbeSettlesKeeps DEF HealthNext

LEMMA HealthHolds == HealthSpec => []HealthSound
<1>1. HealthInit => HealthSound
  BY PluginAssumption
     DEF HealthInit, Init, HealthSound, ProbeTypes, DropsSound, RequestsSound, RequestTypes,
         RequestSound, Outcomes, Shapes, Counts, NoResponse, NobodyTold
<1> QED
  BY <1>1, HealthInductive, PTL DEF HealthSpec

(* A request or a probe is lost only by a rejection nothing handles, its   *)
(* own or, by the exit of the process, another's.                          *)
THEOREM FailuresContained == HealthSpec => []FailuresAreContained
<1>1. HealthSound => FailuresAreContained
  BY DEF HealthSound, RequestsSound, RequestSound, DropsSound, FailuresAreContained
<1> QED
  BY <1>1, HealthHolds, PTL

(* What middleware refuses is a client error that no client retries, and   *)
(* no plugin hears of it.                                                  *)
THEOREM RefusalsAreFinal == HealthSpec => []RefusedForGood
<1>1. HealthSound => RefusedForGood
  BY DEF HealthSound, RequestsSound, RequestSound, RefusedForGood
<1> QED
  BY <1>1, HealthHolds, PTL

(* Every plugin hears last what the caller hears.                          *)
THEOREM PluginsAgree == HealthSpec => []PluginsHearTheAnswer
<1>1. HealthSound => PluginsHearTheAnswer
  BY DEF HealthSound, RequestsSound, RequestSound, PluginsHearTheAnswer, Succeeded
<1> QED
  BY <1>1, HealthHolds, PTL

(* What a step leaves of the counters, and of who has heard of a request:  *)
(* it succeeds, or fails, before or after plugins heard of a success.      *)
MetricsType == metrics \in [count : Nat, errorCount : Nat]

Counted(r) ==
    \/ /\ told'[r].success > 0 /\ told'[r].failure = told[r].failure
       /\ metrics' = Record(metrics, TRUE)
    \/ /\ told'[r].success = told[r].success /\ told'[r].failure > 0
       /\ metrics' = Record(metrics, FALSE)
    \/ /\ told'[r].success > 0 /\ told'[r].failure > 0
       /\ metrics' = Record(Record(metrics, TRUE), FALSE)

CountedAlone(r) ==
    /\ told[r] = NobodyTold /\ Counted(r)
    /\ \A q \in Requests \ {r} : told'[q] = told[q]

LEMMA StepCounts ==
    ASSUME RequestsSound, Next, PluginCount > 0, ~exitOnRejection
    PROVE  UNCHANGED <<told, metrics>> \/ \E r \in Requests : CountedAlone(r)
<1> USE PluginAssumption
<1>1. PICK r \in Requests : Arrive(r) \/ Settle(r)
  BY DEF Next
<1>2. CASE Arrive(r)
  BY <1>2 DEF Arrive, RefuseMalformed, RefuseCaller, RefuseInput, Refuse, StartHandler
<1>3. ASSUME Settle(r) PROVE told[r] = NobodyTold /\ told \in [Requests -> Counts]
  BY <1>3 DEF Settle, HandlerThrows, HandlerReturns, HookThrows, ResultUnserializable,
              RequestsSound, RequestTypes, RequestSound
<1>4. ASSUME Settle(r), NEW thrown, NEW counted, NEW heard, Catch(r, thrown, counted, heard)
      PROVE  /\ told'[r].success = heard /\ told'[r].failure > 0
             /\ metrics' = Record(counted, FALSE)
             /\ \A q \in Requests \ {r} : told'[q] = told[q]
  <2>1. PICK thrower \in MayThrow \cup {0} :
          told' = [told EXCEPT ![r] = [success |-> heard, failure |-> Heard(thrower)]]
    BY <1>4 DEF Catch
  <2>2. Heard(thrower) > 0
    BY DEF Heard
  <2>3. metrics' = Record(counted, FALSE)
    BY <1>4 DEF Catch, Reject
  <2> QED
    BY <1>3, <1>4, <2>1, <2>2, <2>3
<1>5. CASE HandlerThrows(r)
  <2>1. Settle(r)
    BY <1>5 DEF Settle
  <2>2. PICK thrown \in Thrown : Catch(r, thrown, metrics, 0)
    BY <1>5 DEF HandlerThrows
  <2>3. /\ told'[r].success = 0 /\ told'[r].failure > 0
        /\ metrics' = Record(metrics, FALSE)
        /\ \A q \in Requests \ {r} : told'[q] = told[q]
    BY <1>4, <2>1, <2>2
  <2>4. CountedAlone(r)
    BY <1>3, <2>1, <2>3 DEF CountedAlone, Counted, NobodyTold
  <2> QED
    BY <2>4
<1>6. CASE HandlerReturns(r)
  <2>1. told[r] = NobodyTold /\ told \in [Requests -> Counts]
    BY <1>3, <1>6 DEF Settle
  <2>2. CountedAlone(r)
    BY <1>6, <2>1 DEF HandlerReturns, CountedAlone, Counted, Counts
  <2> QED
    BY <2>2
<1>7. CASE HookThrows(r)
  <2>1. Settle(r)
    BY <1>7 DEF Settle
  <2>2. PICK thrower \in MayThrow, thrown \in Thrown :
          Catch(r, thrown, Record(metrics, TRUE), thrower)
    BY <1>7 DEF HookThrows
  <2>3. thrower \in Int /\ thrower > 0
    OBVIOUS
  <2>4. /\ told'[r].success = thrower /\ told'[r].failure > 0
        /\ metrics' = Record(Record(metrics, TRUE), FALSE)
        /\ \A q \in Requests \ {r} : told'[q] = told[q]
    BY <1>4, <2>1, <2>2
  <2>5. CountedAlone(r)
    BY <1>3, <2>1, <2>3, <2>4 DEF CountedAlone, Counted
  <2> QED
    BY <2>5
<1>8. CASE ResultUnserializable(r)
  <2>1. Settle(r)
    BY <1>8 DEF Settle
  <2>2. Catch(r, [kind |-> "other"], Record(metrics, TRUE), PluginCount)
    BY <1>8, Zenon DEF ResultUnserializable
  <2>3. CountedAlone(r)
    BY <1>3, <1>4, <2>1, <2>2 DEF CountedAlone, Counted
  <2> QED
    BY <2>3
<1> QED
  BY <1>1, <1>2, <1>5, <1>6, <1>7, <1>8 DEF Settle

(* The requests that some plugin heard succeed, and fail, are finitely     *)
(* many, and the counters count them.                                      *)
HeardSucceed == {r \in Requests : told[r].success > 0}
HeardFail == {r \in Requests : told[r].failure > 0}

CountersSound ==
    PluginCount > 0 /\ ~exitOnRejection =>
        /\ IsFiniteSet(HeardSucceed) /\ IsFiniteSet(HeardFail)
        /\ metrics.errorCount = Cardinality(HeardFail)
        /\ metrics.count - metrics.errorCount = Cardinality(HeardSucceed)

LEMMA CountersKeep ==
    ASSUME RequestsSound, RequestsSound', MetricsType, CountersSound, Next
    PROVE  CountersSound'
<1> SUFFICES ASSUME PluginCount > 0, ~exitOnRejection' PROVE CountersSound'
  BY DEF CountersSound
<1>1. ~exitOnRejection
  BY StepEffects
<1>2. /\ IsFiniteSet(HeardSucceed) /\ IsFiniteSet(HeardFail)
      /\ Cardinality(HeardSucceed) \in Nat /\ Cardinality(HeardFail) \in Nat
      /\ metrics.errorCount = Cardinality(HeardFail)
      /\ metrics.count - metrics.errorCount = Cardinality(HeardSucceed)
  BY <1>1, FS_CardinalityType DEF CountersSound
<1>3. CASE UNCHANGED <<told, metrics>>
  BY <1>2, <1>3 DEF CountersSound, HeardSucceed, HeardFail
<1>4. ASSUME NEW r \in Requests, CountedAlone(r) PROVE CountersSound'
  <2>1. r \notin HeardSucceed /\ r \notin HeardFail
    BY <1>4 DEF CountedAlone, NobodyTold, HeardSucceed, HeardFail
  <2>2. ASSUME told'[r].success > 0
        PROVE  /\ IsFiniteSet(HeardSucceed')
               /\ Cardinality(HeardSucceed') = Cardinality(HeardSucceed) + 1
    <3>1. HeardSucceed' = HeardSucceed \cup {r}
      BY <1>4, <2>2 DEF CountedAlone, HeardSucceed
    <3> QED
      BY <1>2, <2>1, <3>1, FS_AddElement
  <2>3. ASSUME told'[r].failure > 0
        PROVE  /\ IsFiniteSet(HeardFail')
               /\ Cardinality(HeardFail') = Cardinality(HeardFail) + 1
    <3>1. HeardFail' = HeardFail \cup {r}
      BY <1>4, <2>3 DEF CountedAlone, HeardFail
    <3> QED
      BY <1>2, <2>1, <3>1, FS_AddElement
  <2>4. told'[r].success = told[r].success => HeardSucceed' = HeardSucceed
    BY <1>4 DEF CountedAlone, HeardSucceed
  <2>5. told'[r].failure = told[r].failure => HeardFail' = HeardFail
    BY <1>4 DEF CountedAlone, HeardFail
  <2>6. metrics.count \in Nat /\ metrics.errorCount \in Nat
    BY DEF MetricsType
  <2> QED
    BY <1>2, <1>4, <2>2, <2>3, <2>4, <2>5, <2>6 DEF CountedAlone, Counted, Record, CountersSound
<1> QED
  BY <1>1, <1>3, <1>4, StepCounts

(* The rest of the types: what the environment chose, the counters and the *)
(* reports.                                                                *)
RestTypes ==
    /\ exitOnRejection \in BOOLEAN
    /\ body \in [Requests -> Bodies]
    /\ key \in [Requests -> Tokens]
    /\ MetricsType
    /\ configured \in BOOLEAN
    /\ report \in [Probes -> [disk : {"none", "usage", "error"},
                              network : {"none", "usage", "error"},
                              database : {"none", "not_configured", "report", "error"}]]

LEMMA RestKeeps ==
    ASSUME HealthSound, RestTypes, CountersSound, [HealthNext]_healthVars
    PROVE  RestTypes' /\ CountersSound'
<1> USE DEF RestTypes, requestVars
<1>1. CASE RequestStep
  <2>1. Next /\ UNCHANGED <<configured, report>>
    BY <1>1 DEF RequestStep
  <2>2. CountersSound'
    BY <2>1, CountersKeep, RequestsKeep DEF HealthSound
  <2>3. UNCHANGED <<exitOnRejection, body, key>>
    BY <2>1 DEF Next, Arrive, Settle, RefuseMalformed, RefuseCaller, RefuseInput, StartHandler,
                Refuse, HandlerThrows, HandlerReturns, HookThrows, ResultUnserializable
  <2>4. MetricsType'
    <3>1. PICK r \in Requests : Arrive(r) \/ Settle(r)
      BY <2>1 DEF Next
    <3>2. CASE Arrive(r)
      BY <3>2 DEF Arrive, RefuseMalformed, RefuseCaller, RefuseInput, Refuse, StartHandler,
                  MetricsType
    <3>3. CASE Settle(r)
      BY <3>3 DEF Settle, HandlerThrows, HandlerReturns, HookThrows, ResultUnserializable, Catch,
                  Reject, Record, NoMetrics, MetricsType
    <3> QED
      BY <3>1, <3>2, <3>3
  <2> QED
    BY <2>1, <2>2, <2>3, <2>4
<1>2. ASSUME NEW p \in Probes, ProbeSettles(p) PROVE RestTypes' /\ CountersSound'
  <2>1. PICK check \in Checks :
          /\ BuildReport(p, check)
          /\ IF Rejects(check) THEN ProbeRejects(p) ELSE ProbeAnswers(p)
    BY <1>2 DEF ProbeSettles
  <2>2. report' \in [Probes -> [disk : {"none", "usage", "error"},
                                network : {"none", "usage", "error"},
                                database : {"none", "not_configured", "report", "error"}]]
    BY <2>1 DEF BuildReport, Database
  <2>3. UNCHANGED <<exitOnRejection, body, key, configured, told>>
    BY <1>2 DEF ProbeSettles, ProbeRejects, ProbeAnswers, vars
  <2>4. metrics' = metrics \/ (exitOnRejection /\ metrics' = NoMetrics)
    BY <2>1 DEF ProbeRejects, ProbeAnswers, vars
  <2> QED
    BY <2>2, <2>3, <2>4 DEF MetricsType, NoMetrics, CountersSound, HeardSucceed, HeardFail
<1>3. ASSUME UNCHANGED vars, UNCHANGED <<configured, report>>
      PROVE  RestTypes' /\ CountersSound'
  BY <1>3 DEF vars, MetricsType, CountersSound, HeardSucceed, HeardFail
<1> QED
  BY <1>1, <1>2, <1>3 DEF HealthNext, ProbeArrives, healthVars

LEMMA RestHolds == HealthSpec => [](HealthSound /\ RestTypes /\ CountersSound)
<1>1. HealthInit => RestTypes /\ CountersSound
  <2> SUFFICES ASSUME HealthInit PROVE RestTypes /\ CountersSound
    OBVIOUS
  <2>1. HeardSucceed = {} /\ HeardFail = {}
    BY DEF HealthInit, Init, NobodyTold, HeardSucceed, HeardFail
  <2>2. CountersSound
    BY <2>1, FS_EmptySet DEF HealthInit, Init, NoMetrics, CountersSound
  <2> QED
    BY <2>2 DEF HealthInit, Init, RestTypes, MetricsType, NoMetrics, NoReport
<1> QED
  BY <1>1, HealthHolds, RestKeeps, PTL DEF HealthSpec

(* Type correctness of the service's process.                              *)
THEOREM HealthTypeCorrect == HealthSpec => []HealthTypeOK
<1>1. HealthSound /\ RestTypes => HealthTypeOK
  BY DEF HealthSound, RequestsSound, RequestTypes, Outcomes, Shapes, Counts, ProbeTypes,
         RestTypes, MetricsType, HealthTypeOK, TypeOK
<1> QED
  BY <1>1, RestHolds, PTL

(* In a process that survives its rejections, the counters and the first   *)
(* plugin agree about every request there ever was.                        *)
THEOREM CountersMatch == HealthSpec => []CountersMatchPlugins
<1>1. CountersSound => CountersMatchPlugins
  BY DEF CountersSound, CountersMatchPlugins, HeardSucceed, HeardFail
<1> QED
  BY <1>1, RestHolds, PTL
=============================================================================
