-------------------------- MODULE MCServiceRegistry --------------------------
(* Small instances of ServiceRegistry for TLC.                             *)
EXTENDS ServiceRegistry, TLC

(* Stands for the hash: different contents, different hashes.              *)
Hash(manifest) == <<"fnv1a", manifest>>

Services == {"crm", "Crm"}
(* The last is also the name of an endpoint every router has.              *)
SomeNames == {"users", "Users", "health"}
(* One is like a route of the router, one like an action's path.           *)
SomeIds == {"7", "discovery", "Export"}
SafeNames ==
    {"crm", "users", "health", "list", "get", "create", "update", "delete", "archive", "find",
     "export", "extract"}

LowerCase(name) ==
    CASE name = "Export" -> "export" [] name = "Users" -> "users" [] OTHER -> name

Bare(name) ==
    [name |-> name, method |-> {}, path |-> {}, idempotent |-> {},
     input |-> TRUE, allowNoInput |-> FALSE, requiresIdempotencyKey |-> FALSE]

Quiet(actions) == [actions |-> actions, hookThrows |-> FALSE]
Loud(actions) == [actions |-> actions, hookThrows |-> TRUE]

Crud == <<Bare("list"), Bare("get"), Bare("create"), Bare("update"), Bare("delete")>>
(* Two literal paths of the shape of get's that only their case tells      *)
(* apart, a POST that may be repeated, and a path parameter that is not    *)
(* the id.                                                                 *)
Custom ==
    <<Bare("get"), [Bare("export") EXCEPT !.method = {"GET"}, !.path = {<<Literal("export")>>}],
      [Bare("extract") EXCEPT !.method = {"GET"}, !.path = {<<Literal("Export")>>}],
      [Bare("find") EXCEPT !.idempotent = {TRUE}, !.requiresIdempotencyKey = TRUE],
      [Bare("archive") EXCEPT !.path = {<<Param("slug")>>}]>>

(* No input for a POST, and a POST that may be repeated without a key,     *)
(* before a bad name.                                                      *)
NoInput == <<[Bare("create") EXCEPT !.input = FALSE]>>
NoKey == <<Bare("list"), [Bare("archive") EXCEPT !.idempotent = {TRUE}], Bare("Get")>>
BadName == <<Bare("Get")>>

Conventional ==
    {Loud(Crud), Quiet(Custom), Quiet(NoInput), Quiet(NoKey), Quiet(BadName)}
=============================================================================
