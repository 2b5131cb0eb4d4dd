-------------------------- MODULE MCPyCallPipeline --------------------------
(* Small instances of PyCallPipeline for TLC.                              *)
EXTENDS PyCallPipeline, TLC

CONSTANT c1

OneCall == {c1}

AllKinds == {"get", "idempotent", "mutation"}
Gets == {"get"}
AllProviders == {"env", "custom", "bare"}
Bare == {"bare"}

(* One retryable class, one that is not, and legacy errors: with statuses  *)
(* taken for a success, and with one no response can have.                 *)
SomeThrows ==
    {[kind |-> "ecorpin", class |-> "ServiceUnavailable"], [kind |-> "zod"],
     [kind |-> "legacy", status |-> 200], [kind |-> "legacy", status |-> 302],
     [kind |-> "legacy", status |-> 0]}
=============================================================================
