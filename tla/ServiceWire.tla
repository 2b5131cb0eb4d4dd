---------------------------- MODULE ServiceWire ----------------------------
(***************************************************************************)
(* The far side of a call, the same for both clients: the service that     *)
(* runs the requests and the wire in between, which loses requests, breaks *)
(* connections before or after the service has run a request, and delivers *)
(* a request after its client stopped waiting for it.  A client puts a     *)
(* request on the wire and waits at "sent" for the head of its response.   *)
(* Credentials are numbered keys, 0 being no key.                          *)
(***************************************************************************)
EXTENDS Integers, FiniteSets, ErrorTaxonomy

CONSTANTS
    Calls,
    HandlerThrows,  \* what a handler, or a hook around it, may throw
    MaxKey          \* bound: credential rotations

ASSUME HandlerAssumption == HandlerThrows \subseteq Throwables
ASSUME KeyAssumption == MaxKey \in Nat \ {0}

VARIABLES
    pc,          \* where each call is
    sends,       \* requests put on the wire, the last one being the current
    serverKey,   \* the key the service accepts
    wire,        \* requests the service has not run yet
    inbox,       \* the response to the current request, once there is one
    runs,        \* requests the service ran, its handler throwing or not
    returned     \* runs in which nothing was thrown

netVars == <<serverKey, wire, inbox, runs, returned>>

Keys == 0 .. MaxKey
Requests == [call : Calls, seq : Nat, key : Keys]
Responses == [status : Nat, code : ErrorClasses \cup {"none"}]
Current(c, m) == m.call = c /\ m.seq = sends[c]
NonePending(c) == \A m \in wire : m.call # c

NoResponse == [status |-> 0, code |-> "none"]
OkResponse == [status |-> 200, code |-> "none"]
DeniedResponse == MapThrownError([kind |-> "ecorpin", class |-> "Authentication"])

(* What a client gets to see of a throw: where the status cannot end a     *)
(* response it gets none, and waits for its timer.                         *)
FailureResponse(thrown) ==
    IF IsFinalStatus(MapThrownError(thrown).status) THEN MapThrownError(thrown) ELSE NoResponse

(* No handler answers as the authentication middleware does.               *)
HandlersNeverDeny == \A thrown \in HandlerThrows : FailureResponse(thrown).code # "Authentication"

(* A proxy's error page: an error status without an envelope.              *)
OpaqueResponse == [status |-> 503, code |-> "none"]

NetInit ==
    /\ serverKey = 1
    /\ wire = {}
    /\ inbox = [c \in Calls |-> NoResponse]
    /\ runs = [c \in Calls |-> 0]
    /\ returned = [c \in Calls |-> 0]

-----------------------------------------------------------------------------
(* The client's end: a request leaves; its connection breaks, the request  *)
(* being lost or still under way.                                          *)

Transmit(c, key) ==
    /\ sends' = [sends EXCEPT ![c] = @ + 1]
    /\ wire' = wire \cup {[call |-> c, seq |-> sends[c] + 1, key |-> key]}
    /\ inbox' = [inbox EXCEPT ![c] = NoResponse]
    /\ UNCHANGED <<serverKey, runs, returned>>

Disconnect(c) ==
    /\ wire' \in {wire, {m \in wire : ~Current(c, m)}}
    /\ UNCHANGED <<serverKey, inbox, runs, returned>>

Receive(c) ==
    /\ inbox' = [inbox EXCEPT ![c] = NoResponse]
    /\ UNCHANGED <<serverKey, wire, runs, returned>>

-----------------------------------------------------------------------------
(* The service's end.  A response to a request nobody waits for is dropped. *)

Reply(m, response) ==
    /\ wire' = wire \ {m}
    /\ inbox' = [c \in Calls |->
                  IF Current(c, m) /\ pc[c] = "sent" THEN response ELSE inbox[c]]

(* The authentication middleware runs before the handler.                  *)
Reject(m) ==
    /\ m.key # serverKey
    /\ Reply(m, DeniedResponse)
    /\ UNCHANGED <<serverKey, runs, returned>>

Execute(m) ==
    /\ m.key = serverKey
    /\ runs' = [runs EXCEPT ![m.call] = @ + 1]
    /\ returned' = [returned EXCEPT ![m.call] = @ + 1]
    /\ Reply(m, OkResponse)
    /\ UNCHANGED serverKey

(* The handler throws, whatever it has done by then.                       *)
ExecuteFails(m) ==
    /\ m.key = serverKey
    /\ runs' = [runs EXCEPT ![m.call] = @ + 1]
    /\ \E thrown \in HandlerThrows : Reply(m, FailureResponse(thrown))
    /\ UNCHANGED <<serverKey, returned>>

GatewayFails(m) ==
    /\ Reply(m, OpaqueResponse)
    /\ UNCHANGED <<serverKey, runs, returned>>

Lose(m) ==
    /\ wire' = wire \ {m}
    /\ UNCHANGED <<serverKey, inbox, runs, returned>>

RotateKey ==
    /\ serverKey < MaxKey
    /\ serverKey' = serverKey + 1
    /\ UNCHANGED <<wire, inbox, runs, returned>>

Service(m) == Reject(m) \/ Execute(m) \/ ExecuteFails(m) \/ GatewayFails(m) \/ Lose(m)

NetStep == (\E m \in wire : Service(m)) \/ RotateKey

NetTypeOK ==
    /\ serverKey \in Keys
    /\ wire \subseteq Requests
    /\ inbox \in [Calls -> Responses]
    /\ runs \in [Calls -> Nat]
    /\ returned \in [Calls -> Nat]
=============================================================================
