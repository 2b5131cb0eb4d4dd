---------------------------- MODULE SingleFlight ----------------------------
(***************************************************************************)
(* What getOrFetch promises its callers, without ETags, URLs, clocks or    *)
(* hosts.  For each service there is a last known manifest and at most one *)
(* flight.  A call is answered at once with the known manifest, or boards  *)
(* the flight; a flight is decided once, and when it lands every call on   *)
(* board gets that one outcome.  A manifest becomes known only by a        *)
(* flight, which may also bring back the one already known.                *)
(***************************************************************************)
EXTENDS Integers

CONSTANTS Callers, Services, Manifests

NoManifest == 0

VARIABLES
    known,    \* per service: the manifest last learnt
    flight,   \* per service: riders, and the outcome once decided
    asks,     \* per call: its service
    status,   \* per call: "ready", "waiting" or "resumed"
    outcome   \* per call: the manifest it got, or NoManifest

vars == <<known, flight, asks, status, outcome>>

NoFlight == [riders |-> {}, decided |-> FALSE, outcome |-> NoManifest]

Init ==
    /\ known = [s \in Services |-> NoManifest]
    /\ flight = [s \in Services |-> NoFlight]
    /\ asks \in [Callers -> Services]
    /\ status = [c \in Callers |-> "ready"]
    /\ outcome = [c \in Callers |-> NoManifest]

Enter(c, s, newStatus, newOutcome) ==
    /\ status[c] = "ready"
    /\ asks' = [asks EXCEPT ![c] = s]
    /\ status' = [status EXCEPT ![c] = newStatus]
    /\ outcome' = [outcome EXCEPT ![c] = newOutcome]
    /\ UNCHANGED known

AnswerAtOnce(c, s) ==
    /\ known[s] # NoManifest
    /\ Enter(c, s, "resumed", known[s])
    /\ UNCHANGED flight

Board(c, s) ==
    /\ flight[s].riders # {}
    /\ Enter(c, s, "waiting", NoManifest)
    /\ flight' = [flight EXCEPT ![s].riders = @ \cup {c}]

(* A flight for which there is nowhere to go is decided as it departs.     *)
Depart(c, s) ==
    /\ flight[s] = NoFlight
    /\ Enter(c, s, "waiting", NoManifest)
    /\ \E decided \in BOOLEAN :
         flight' = [flight EXCEPT ![s] =
                     [riders |-> {c}, decided |-> decided, outcome |-> NoManifest]]

Decide(s, m) ==
    /\ flight[s].riders # {}
    /\ ~flight[s].decided
    /\ flight' = [flight EXCEPT ![s] =
                 [riders |-> @.riders, decided |-> TRUE, outcome |-> m]]
    /\ known' = IF m = NoManifest THEN known ELSE [known EXCEPT ![s] = m]
    /\ m = NoManifest => known[s] = NoManifest
    /\ UNCHANGED <<asks, status, outcome>>

Land(s) ==
    /\ flight[s].decided
    /\ flight' = [flight EXCEPT ![s] = NoFlight]
    /\ status' = [c \in Callers |-> IF c \in flight[s].riders THEN "resumed" ELSE status[c]]
    /\ outcome' = [c \in Callers |-> IF c \in flight[s].riders THEN flight[s].outcome ELSE outcome[c]]
    /\ UNCHANGED <<known, asks>>

Return(c) ==
    /\ status[c] = "resumed"
    /\ status' = [status EXCEPT ![c] = "ready"]
    /\ UNCHANGED <<known, flight, asks, outcome>>

Next ==
    \/ \E c \in Callers, s \in Services :
         AnswerAtOnce(c, s) \/ Board(c, s) \/ Depart(c, s)
    \/ \E s \in Services, m \in Manifests : Decide(s, m)
    \/ \E s \in Services : Land(s)
    \/ \E c \in Callers : Return(c)

Spec == Init /\ [][Next]_vars
=============================================================================
