----------------------------- MODULE RemoteCall -----------------------------
(***************************************************************************)
(* What a client promises of one call of an action, whatever lies between  *)
(* it and the service, and in either language: it tries a bounded number   *)
(* of times, and the service runs each try at most once and perhaps late,  *)
(* after the caller was told of an error.  A value is reported only once a *)
(* run returned, and a success without a value only once there was a run.  *)
(* An action that must not be repeated is run once at most, is never tried *)
(* again once it was, and is not run any more when its caller was told of  *)
(* success.                                                                *)
(***************************************************************************)
EXTENDS Integers

CONSTANTS
    Calls,
    MaxTries   \* requests one call may make

VARIABLES
    kind,      \* "get", "idempotent" or "mutation"
    tries,     \* requests made
    runs,      \* requests the service ran
    returned,  \* runs that returned
    answer     \* "pending", then "value", "nothing" or "error"

vars == <<kind, tries, runs, returned, answer>>

Init ==
    /\ kind \in [Calls -> {"get", "idempotent", "mutation"}]
    /\ tries = [c \in Calls |-> 0]
    /\ runs = [c \in Calls |-> 0]
    /\ returned = [c \in Calls |-> 0]
    /\ answer = [c \in Calls |-> "pending"]

Once(c) == kind[c] = "mutation" => runs[c] = 0

Try(c) ==
    /\ answer[c] = "pending"
    /\ tries[c] < MaxTries
    /\ Once(c)
    /\ tries' = [tries EXCEPT ![c] = @ + 1]
    /\ UNCHANGED <<kind, runs, returned, answer>>

(* The service runs a try, which may be long after the caller gave up.     *)
Run(c) ==
    /\ runs[c] < tries[c]
    /\ Once(c)
    /\ kind[c] = "mutation" => answer[c] \in {"pending", "error"}
    /\ runs' = [runs EXCEPT ![c] = @ + 1]
    /\ returned' \in {returned, [returned EXCEPT ![c] = @ + 1]}
    /\ UNCHANGED <<kind, tries, answer>>

Return(c) ==
    /\ answer[c] = "pending"
    /\ returned[c] > 0
    /\ answer' = [answer EXCEPT ![c] = "value"]
    /\ UNCHANGED <<kind, tries, runs, returned>>

(* The value got lost, or a failed run passed for a success.               *)
ReturnNothing(c) ==
    /\ answer[c] = "pending"
    /\ runs[c] > 0
    /\ answer' = [answer EXCEPT ![c] = "nothing"]
    /\ UNCHANGED <<kind, tries, runs, returned>>

Throw(c) ==
    /\ answer[c] = "pending"
    /\ answer' = [answer EXCEPT ![c] = "error"]
    /\ UNCHANGED <<kind, tries, runs, returned>>

Next == \E c \in Calls : Try(c) \/ Run(c) \/ Return(c) \/ ReturnNothing(c) \/ Throw(c)

Spec == Init /\ [][Next]_vars
=============================================================================
