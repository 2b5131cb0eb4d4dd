--------------------------- MODULE MCCallPipeline ---------------------------
(* Small instances of CallPipeline for TLC.                                *)
EXTENDS CallPipeline, TLC

CONSTANT c1

OneCall == {c1}

AllKinds == {"get", "idempotent", "mutation"}
Gets == {"get"}

(* One retryable class, two that are not, and legacy errors: with the      *)
(* status of a success, and with one no response can have.                 *)
FewThrows == {[kind |-> "ecorpin", class |-> "ServiceUnavailable"]}
SomeThrows == FewThrows \cup
    {[kind |-> "zod"], [kind |-> "other"],
     [kind |-> "legacy", status |-> 200], [kind |-> "legacy", status |-> 0]}
=============================================================================
