--------------------------- MODULE MCActionEndpoint ---------------------------
(* Small instances of ActionEndpoint for TLC.                              *)
EXTENDS ActionEndpoint, TLC

CONSTANTS r1, r2, none, stranger, inherited, reader, root

TwoRequests == {r1, r2}

(* A key without the scope, and one with a wildcard.                       *)
Keys == reader :> {"users:read"} @@ root :> {"*"}
Inherited == {inherited}
Writers == {"users:write"}
AnyScope == {"*", "users:*"}

BothHooks == {1, 2}

(* An error of the taxonomy, one without an HTTP status of its own, and    *)
(* the { status } errors of older handlers.                                *)
UsualErrors ==
    {[kind |-> "ecorpin", class |-> "Conflict"], [kind |-> "ecorpin", class |-> "Plugin"],
     [kind |-> "legacy", status |-> 404], [kind |-> "other"]}
OddErrors ==
    {[kind |-> "ecorpin", class |-> "Conflict"], [kind |-> "ecorpin", class |-> "Plugin"],
     [kind |-> "legacy", status |-> 0]}
=============================================================================
