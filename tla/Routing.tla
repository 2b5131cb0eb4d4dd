------------------------------- MODULE Routing -------------------------------
(***************************************************************************)
(* From an action's declaration to the URL a client requests for it and    *)
(* the route Express hands that request to.  A path is a sequence of       *)
(* segments, each a literal or a parameter; "/" is the empty sequence.     *)
(***************************************************************************)
EXTENDS Naturals, Sequences, SequencesExt

CONSTANT Lower(_)      \* a name in lower case, as Express compares literals

Literal(name) == [param |-> FALSE, name |-> name]
Param(name) == [param |-> TRUE, name |-> name]
Id == Param("id")
Segments == [param : BOOLEAN, name : STRING]

-----------------------------------------------------------------------------
(* The server: resolveAction.  An optional field of a declaration is a set *)
(* with its value, or the empty set.                                       *)

DeclaredActions ==
    [name : STRING, method : SUBSET STRING, path : SUBSET Seq(Segments),
     idempotent : SUBSET BOOLEAN, input : BOOLEAN, allowNoInput : BOOLEAN,
     requiresIdempotencyKey : BOOLEAN]

Or(option, default) == IF option = {} THEN default ELSE CHOOSE x \in option : TRUE

Rule(method, path, idempotent) == [method |-> method, path |-> path, idempotent |-> idempotent]

Convention(name) ==
    CASE name = "list" -> {Rule("GET", <<>>, TRUE)}
      [] name = "get" -> {Rule("GET", <<Id>>, TRUE)}
      [] name = "create" -> {Rule("POST", <<>>, FALSE)}
      [] name = "update" -> {Rule("PATCH", <<Id>>, FALSE)}
      [] name = "delete" -> {Rule("DELETE", <<Id>>, FALSE)}
      [] OTHER -> {}

Resolve(decl) ==
    LET rules == Convention(decl.name)
    IN  [name |-> decl.name,
         method |-> Or(decl.method, Or({r.method : r \in rules}, "POST")),
         path |-> Or(decl.path, Or({r.path : r \in rules}, <<Id, Literal(decl.name)>>)),
         idempotent |-> Or(decl.idempotent, Or({r.idempotent : r \in rules}, FALSE))]

MutatingMethods == {"POST", "PUT", "PATCH", "DELETE"}

(* The contract rules: a mutating action declares its input or that it has *)
(* none, and a POST that clients may repeat takes an idempotency key.      *)
BreaksContract(decl) ==
    LET action == Resolve(decl)
    IN  \/ action.method \in MutatingMethods /\ ~decl.input /\ ~decl.allowNoInput
        \/ action.method = "POST" /\ action.idempotent /\ ~decl.requiresIdempotencyKey

-----------------------------------------------------------------------------
(* The client: mapArgsToCall and buildUrl.                                 *)

(* Only `id` is ever supplied: any other parameter is a ValidationError.   *)
IsCallable(action) ==
    \A i \in 1 .. Len(action.path) : action.path[i].param => action.path[i] = Id

Substituted(action, id) ==
    [i \in 1 .. Len(action.path) |->
        IF action.path[i].param THEN Literal(id) ELSE action.path[i]]

(* The URL parser takes dot segments out, which encodeURIComponent leaves  *)
(* in; a trailing slash makes no difference to the routes.                 *)
Dots == {".", ".."}
Unplain == {""} \cup Dots

Step(path, segment) ==
    CASE segment.name = "." -> path
      [] segment.name = ".." -> IF path = <<>> THEN path ELSE Front(path)
      [] OTHER -> Append(path, segment)

WithoutDots(path) ==
    IF \E i \in 1 .. Len(path) : path[i].name \in Dots
    THEN FoldLeft(Step, <<>>, path) ELSE path

WithoutTrailingSlash(path) ==
    IF path # <<>> /\ Last(path).name = "" THEN Front(path) ELSE path

Url(resource, action, id) ==
    WithoutTrailingSlash(WithoutDots(<<Literal(resource)>> \o Substituted(action, id)))

-----------------------------------------------------------------------------
(* Express: the first route that matches takes the request, in whatever    *)
(* case its literals are written.  A table has the routes in groups, in    *)
(* the order in which they were added.                                     *)

Alike(s1, s2) == Lower(s1.name) = Lower(s2.name)

Matches(route, method, url) ==
    /\ route.method = method
    /\ Len(route.path) = Len(url)
    /\ \A i \in 1 .. Len(url) :
         IF route.path[i].param THEN url[i].name # "" ELSE Alike(route.path[i], url[i])

NotFound == <<"none">>

Hits(routes, method, url) == {i \in 1 .. Len(routes) : Matches(routes[i], method, url)}

Target(table, method, url) ==
    LET groups == {g \in 1 .. Len(table) : Hits(table[g], method, url) # {}}
        group == table[Min(groups)]
    IN  IF groups = {} THEN NotFound ELSE group[Min(Hits(group, method, url))].target
=============================================================================
