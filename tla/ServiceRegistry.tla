--------------------------- MODULE ServiceRegistry ---------------------------
(***************************************************************************)
(* One service process from registerService on: registering resources,     *)
(* building routers, serving its manifest from them; and one client that   *)
(* keeps the manifest of a router and revalidates it.                      *)
(*                                                                         *)
(* A router's routes are fixed when it is built, its manifest is built     *)
(* from the registry for every request.                                    *)
(***************************************************************************)
EXTENDS Routing, FiniteSets

CONSTANTS
    ServiceNames, ResourceNames,
    UrlSafe,           \* the names isUrlSafeName accepts
    Declarations,      \* what registerResource may be given: sequences of
                       \* action declarations, and whether a hook throws
    PlainIds,          \* ids of calls that URL parsing and routing keep
    Digest(_),         \* contentHash
    MaxRegistries,     \* bound: registerService calls
    MaxResources,      \* bound: resources registered, in all registries
    MaxRouters         \* bound: createEcorpinRouter calls

ASSUME BoundsAssumption == {MaxRegistries, MaxResources, MaxRouters} \subseteq Nat
ASSUME DeclarationsAssumption == \A d \in Declarations : d.actions \in Seq(DeclaredActions)
(* Every name begins with a letter, and has no capital letter.             *)
ASSUME NamesAssumption ==
    /\ UrlSafe \cap Unplain = {}
    /\ \A name \in UrlSafe : Lower(name) = name
ASSUME IdsAssumption == PlainIds \cap Unplain = {}

VARIABLES
    registries,        \* every registry made, with its resources in order
    current,           \* currentRegistry, 0 before registerService
    routers,           \* the registry and the routes of each router
    failure,           \* what the last boot call threw, or "none"
    extension,         \* what the plugins' extendMetadata do at the moment
    held,              \* the client's manifest and ETag, and its router
    reply              \* the status of the client's last request

serverVars == <<registries, current, routers, failure, extension>>
clientVars == <<held, reply>>
vars == <<serverVars, clientVars>>

NothingHeld ==
    [router |-> 0,
     manifest |-> [registry |-> [name |-> "none", resources |-> <<>>], features |-> "plain"],
     etag |-> {}]

(* They leave the manifest alone, add a feature flag to it, or throw.      *)
Extensions == {"plain", "flagged", "throws"}

Init ==
    /\ registries = <<>>
    /\ current = 0
    /\ routers = <<>>
    /\ failure = "none"
    /\ extension = "plain"
    /\ held = NothingHeld
    /\ reply = 0

-----------------------------------------------------------------------------
(* registerService and registerResource.                                   *)

(* The constructor may throw, before the assignment to currentRegistry.    *)
RegisterServiceMutant(name) ==
    /\ Len(registries) < MaxRegistries
    /\ current' = Len(registries) + 1
    /\ IF name \in UrlSafe
       THEN /\ registries' = Append(registries, [name |-> name, resources |-> <<>>])
            /\ failure' = "none"
       ELSE failure' = "name" /\ UNCHANGED registries
    /\ UNCHANGED <<routers, extension, clientVars>>
RegisterService(name) ==
    /\ Len(registries) < MaxRegistries
    /\ IF name \in UrlSafe
       THEN /\ registries' = Append(registries, [name |-> name, resources |-> <<>>])
            /\ current' = Len(registries) + 1
            /\ failure' = "none"
       ELSE failure' = "name" /\ UNCHANGED <<registries, current>>
    /\ UNCHANGED <<routers, extension, clientVars>>

Resources(k) == registries[k].resources
ResourceCount == Len(FlattenSeq([k \in 1 .. Len(registries) |-> Resources(k)]))
IsRegistered(k, name) == \E i \in 1 .. Len(Resources(k)) : Resources(k)[i].name = name

(* The name of an action is asserted, then the contract rules are.         *)
Offence(decl) ==
    CASE decl.name \notin UrlSafe -> "name"
      [] decl.name \in UrlSafe /\ BreaksContract(decl) -> "contract"
      [] OTHER -> "none"

FirstOffence(actions) ==
    LET offending == {i \in 1 .. Len(actions) : Offence(actions[i]) # "none"}
    IN  IF offending = {} THEN "none" ELSE Offence(actions[Min(offending)])

RefusalMutant(name, actions) ==
    IF name \notin UrlSafe THEN "name" ELSE "none"
Refusal(name, actions) ==
    CASE name \notin UrlSafe -> "name"
      [] IsRegistered(current, name) -> "duplicate"
      [] OTHER -> FirstOffence(actions)

AddResource(name, actions) ==
    registries' = [registries EXCEPT ![current].resources =
                     Append(@, [name |-> name,
                                actions |-> [i \in 1 .. Len(actions) |-> Resolve(actions[i])]])]

(* The plugins hear of a resource that is registered already: what their   *)
(* hook throws reaches the caller, and the resource stays.                 *)
RegisterResource(name, declaration) ==
    /\ current # 0
    /\ ResourceCount < MaxResources
    /\ LET refusal == Refusal(name, declaration.actions)
       IN  IF refusal # "none"
           THEN failure' = refusal /\ UNCHANGED registries
           ELSE /\ AddResource(name, declaration.actions)
                /\ failure' = IF declaration.hookThrows THEN "hook" ELSE "none"
    /\ UNCHANGED <<current, routers, extension, clientVars>>

(* getCurrentRegistry throws before the first registerService.             *)
CallTooEarly ==
    /\ current = 0
    /\ failure' = "unregistered"
    /\ UNCHANGED <<registries, current, routers, extension, clientVars>>

-----------------------------------------------------------------------------
(* createEcorpinRouter: the two routes of its own come first.              *)

Route(method, path, target) == [method |-> method, path |-> path, target |-> target]

OwnRoutes ==
    <<Route("GET", <<Literal("discovery")>>, <<"discovery">>),
      Route("GET", <<Literal("health")>>, <<"health">>)>>

RoutesOfMutant(resource) ==
    [i \in 1 .. Len(resource.actions) |->
        LET action == resource.actions[i]
        IN  Route(action.method, action.path, <<resource.name, action.name>>)]
RoutesOf(resource) ==
    [i \in 1 .. Len(resource.actions) |->
        LET action == resource.actions[i]
        IN  Route(action.method, <<Literal(resource.name)>> \o action.path,
                  <<resource.name, action.name>>)]

Routes(k) == <<OwnRoutes>> \o [i \in 1 .. Len(Resources(k)) |-> RoutesOf(Resources(k)[i])]

CreateRouter ==
    /\ current # 0
    /\ Len(routers) < MaxRouters
    /\ routers' = Append(routers, [registry |-> current, routes |-> Routes(current)])
    /\ failure' = "none"
    /\ UNCHANGED <<registries, current, extension, clientVars>>

-----------------------------------------------------------------------------
(* The discovery endpoint, and a client that revalidates what it holds,    *)
(* also when its service's name has come to stand for another router.      *)

(* buildManifest: the registry as it is now, through the plugins.          *)
Manifest(k) == [registry |-> registries[k], features |-> extension]

EtagMutant(k) == Digest(registries[k])
Etag(k) == Digest(Manifest(k))

(* A hook that throws is answered by the router's error handler.           *)
Discover(router) ==
    /\ LET k == routers[router].registry
       IN  CASE extension = "throws" ->
                  reply' = 500 /\ UNCHANGED held
             [] extension # "throws" /\ held.etag = {Etag(k)} ->
                  reply' = 304 /\ UNCHANGED held
             [] OTHER ->
                  /\ reply' = 200
                  /\ held' = [router |-> router, manifest |-> Manifest(k), etag |-> {Etag(k)}]
    /\ UNCHANGED serverVars

(* A plugin's state changes, and what it adds to the manifest with it.     *)
ExtensionChanges ==
    /\ extension' \in Extensions \ {extension}
    /\ UNCHANGED <<registries, current, routers, failure, clientVars>>

-----------------------------------------------------------------------------
Boot ==
    \/ \E name \in ServiceNames : RegisterService(name)
    \/ \E name \in ResourceNames, d \in Declarations : RegisterResource(name, d)
    \/ CallTooEarly
    \/ CreateRouter

Next ==
    \/ Boot
    \/ ExtensionChanges
    \/ \E router \in 1 .. Len(routers) : Discover(router)

Spec == Init /\ [][Next]_vars

-----------------------------------------------------------------------------
(* Correctness.                                                            *)

Failures == {"none", "name", "duplicate", "contract", "hook", "unregistered"}

TypeOK ==
    /\ current \in 0 .. Len(registries)
    /\ \A k \in 1 .. Len(registries) : registries[k].name \in ServiceNames
    /\ \A i \in 1 .. Len(routers) : routers[i].registry \in 1 .. Len(registries)
    /\ failure \in Failures
    /\ held.router \in 0 .. Len(routers)
    /\ extension \in Extensions
    /\ reply \in {0, 200, 304, 500}

(* A resource name is registered once per registry, whatever fails between *)
(* and is tried again, so a name in a manifest means one resource.         *)
NamesAreUnique ==
    \A k \in 1 .. Len(registries) : \A i, j \in 1 .. Len(Resources(k)) :
        Resources(k)[i].name = Resources(k)[j].name => i = j

(* An ETag names one manifest, whatever was registered and whatever the    *)
(* plugins added since it was handed out: 304 tells a client that what it  *)
(* holds is what the service would send.                                   *)
EtagNamesManifest ==
    \A k \in 1 .. Len(registries) :
        held.etag = {Etag(k)} => held.manifest = Manifest(k)

-----------------------------------------------------------------------------
(* What becomes of a call the client makes by the manifest it holds.       *)

Advertised ==
    UNION {{<<resource, action>> : action \in ToSet(resource.actions)} :
              resource \in ToSet(held.manifest.registry.resources)}

OwnTarget(at) == <<at[1].name, at[2].name>>

Reached(at, id) ==
    Target(routers[held.router].routes, at[2].method, Url(at[1].name, at[2], id))

IsRouted(target) ==
    \E group \in ToSet(routers[held.router].routes) :
        \E route \in ToSet(group) : route.target = target

(* Two routes some request matches both of: the earlier one takes it.      *)
Overlap(r1, r2) ==
    /\ r1.method = r2.method
    /\ Len(r1.path) = Len(r2.path)
    /\ \A i \in 1 .. Len(r1.path) :
         r1.path[i].param \/ r2.path[i].param \/ Alike(r1.path[i], r2.path[i])

Contenders(at) ==
    LET route == Route(at[2].method, <<Literal(at[1].name)>> \o at[2].path, OwnTarget(at))
        rivals == ToSet(OwnRoutes) \cup ToSet(RoutesOf(at[1]))
    IN  {rival.target : rival \in {r \in rivals : Overlap(r, route)}} \ {OwnTarget(at)}

(* A call runs its own action or, where that was registered too late for   *)
(* the router, nothing.  Only an overlapping path can take it elsewhere: a *)
(* sibling action of the same resource, or an endpoint of the router that  *)
(* has the resource's name; never another resource.                        *)
CallReachesOwnAction ==
    \A at \in Advertised : IsCallable(at[2]) =>
        \A id \in PlainIds :
            LET target == Reached(at, id)
            IN  /\ target \in {OwnTarget(at), NotFound} \cup Contenders(at)
                /\ IsRouted(OwnTarget(at)) /\ Contenders(at) = {} => target = OwnTarget(at)
=============================================================================
