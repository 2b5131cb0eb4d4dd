---------------------------- MODULE HealthEndpoint ----------------------------
(***************************************************************************)
(* GET /health beside the action of ActionEndpoint, in the same process:   *)
(* health probes and requests suffer each other's unhandled rejections.    *)
(*                                                                         *)
(* A probe takes two steps: its arrival, up to the Promise.all over the    *)
(* disk usage and the application's callback, and what follows when both   *)
(* have settled.  A callback need not settle, and no fairness is assumed.  *)
(***************************************************************************)
EXTENDS ActionEndpoint

CONSTANTS Probes

VARIABLES
    configured,  \* registry.healthCheck is there
    probe,       \* "idle", "waiting", "answered", "unanswered" or "dropped"
    report       \* the disk, network and database fields of the body built

healthVars == <<vars, configured, probe, report>>

NoReport == [disk |-> "none", network |-> "none", database |-> "none"]

HealthInit ==
    /\ Init
    /\ configured \in BOOLEAN
    /\ probe = [p \in Probes |-> "idle"]
    /\ report = [p \in Probes |-> NoReport]

(* The route is mounted ahead of the resources, without authentication.    *)
ProbeArrives(p) ==
    /\ probe[p] = "idle"
    /\ probe' = [probe EXCEPT ![p] = "waiting"]
    /\ UNCHANGED <<vars, configured, report>>

(* runHealthCheckSafely.                                                   *)
Checks == IF configured THEN {"reports", "fails", "unserializable"} ELSE {"absent"}

Database(check) ==
    CASE check = "absent" -> "not_configured"
      [] check = "fails" -> "error"
      [] OTHER -> "report"

(* getDiskUsage and getNetworkSummary put what they catch into the report. *)
BuildReport(p, check) ==
    \E disk, network \in {"usage", "error"} :
        report' = [report EXCEPT ![p] =
                     [disk |-> disk, network |-> network, database |-> Database(check)]]

ProbeAnswers(p) ==
    /\ probe' = [probe EXCEPT ![p] = "answered"]
    /\ UNCHANGED vars

(* What an exit leaves of a map from the process's tasks to their states.  *)
Exited(states, running) ==
    [x \in DOMAIN states |-> IF states[x] = running THEN "dropped" ELSE states[x]]

(* res.json throws outside every try block of the async handler.           *)
ProbeRejects(p) ==
    /\ LET lost == [probe EXCEPT ![p] = "unanswered"]
       IN  IF exitOnRejection
           THEN /\ probe' = Exited(lost, "waiting")
                /\ pc' = Exited(pc, "handling")
                /\ metrics' = NoMetrics
           ELSE probe' = lost /\ UNCHANGED <<pc, metrics>>
    /\ UNCHANGED <<requestVars, input, response, told>>

RejectsMutant(check) == check \in {"fails", "unserializable"}
Rejects(check) == check = "unserializable"

ProbeSettles(p) ==
    /\ probe[p] = "waiting"
    /\ \E check \in Checks :
         /\ BuildReport(p, check)
         /\ IF Rejects(check) THEN ProbeRejects(p) ELSE ProbeAnswers(p)
    /\ UNCHANGED configured

(* A step of the action, which takes the waiting probes with it when it    *)
(* ends the process.                                                       *)
LosesRequest(r) == pc[r] # "unanswered" /\ pc'[r] = "unanswered"

RequestStep ==
    /\ Next
    /\ probe' = IF exitOnRejection /\ \E r \in Requests : LosesRequest(r)
                THEN Exited(probe, "waiting") ELSE probe
    /\ UNCHANGED <<configured, report>>

HealthNext ==
    \/ RequestStep
    \/ \E p \in Probes : ProbeArrives(p) \/ ProbeSettles(p)

HealthSpec == HealthInit /\ [][HealthNext]_healthVars

-----------------------------------------------------------------------------
(* Correctness.                                                            *)

HealthTypeOK ==
    /\ TypeOK
    /\ configured \in BOOLEAN
    /\ probe \in [Probes -> {"idle", "waiting", "answered", "unanswered", "dropped"}]
    /\ report \in [Probes -> [disk : {"none", "usage", "error"},
                              network : {"none", "usage", "error"},
                              database : {"none", "not_configured", "report", "error"}]]

(* The rejections that nothing handles: of a request whose error path      *)
(* threw, so that plugins have heard of a failure its caller never hears   *)
(* of, and of a probe whose report cannot be serialized.                   *)
LostAlone(r) == pc[r] = "unanswered" /\ (told[r].failure > 0 \/ PluginCount = 0)
Culprits == {r \in Requests : LostAlone(r)} \cup {p \in Probes : probe[p] = "unanswered"}

(* A request or a probe is lost without an answer only by such a rejection *)
(* of its own or by the exit of the process that another one caused; no    *)
(* plugin has heard of a request that was dropped.  Neither a callback     *)
(* that fails nor a system call that does is enough to lose a probe.       *)
FailuresAreContained ==
    /\ \A r \in Requests :
         /\ pc[r] = "unanswered" => LostAlone(r)
         /\ pc[r] = "dropped" => exitOnRejection /\ told[r] = NobodyTold /\ Culprits # {}
    /\ \A p \in Probes :
         /\ probe[p] = "unanswered" => report[p].database = "report"
         /\ probe[p] = "dropped" => exitOnRejection /\ Culprits # {}
=============================================================================
